CONSTANTS
  Space = 1048576
  Layouts <- Apart
  MaxAtoms = 2
  ListBytes = 64
  Strays = {0, 1}
  ShaderBytes = 16
  Indices = {0, 1}
  BufferSizes = {0, 32, 1048568}
  Strides = {0, 16}
  Cores = {"hw", "soft"}
SPECIFICATION Spec
CHECK_DEADLOCK FALSE
INVARIANTS
  SoftJobsSkipped
  AttrIsEntry
  DepsPrinted
  OtherJobsDecoded
  ShadersDecoded
  EntriesDecoded
  AttributesDecoded
  ReadsInFull
