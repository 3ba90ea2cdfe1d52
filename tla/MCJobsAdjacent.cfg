CONSTANTS
  Space = 1048576
  Layouts <- Adjacent
  MaxAtoms = 1
  ListBytes = 64
  Strays = {0, 1}
  ShaderBytes = 16
  Indices = {0}
  BufferSizes = {0, 32}
  Strides = {0, 16}
  Cores = {"hw"}
SPECIFICATION Spec
CHECK_DEADLOCK FALSE
INVARIANTS
  ValidDecoded
