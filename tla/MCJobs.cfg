CONSTANTS
  Space = 1048576
  Layouts <- Apart
  MaxAtoms = 2
  ListBytes = 64
  Strays = {0, 1}
  ShaderBytes = 16
  Indices = {0, 1}
  BufferSizes = {0, 32, 1048568}
  Strides = {0, 16}
  Cores = {"hw"}
SPECIFICATION FairSpec
CHECK_DEADLOCK FALSE
INVARIANTS
  ReadsInside
  ValidDecoded
  IndentBalanced
PROPERTY
  SubmitEnds
