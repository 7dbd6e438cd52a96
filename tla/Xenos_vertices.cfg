SPECIFICATION Spec
CONSTANTS
  ClockRegs = {"D0", "D5"}
  GivenModes = {"vga"}
  MaxBulk = 1
  MaxErrors = 2
  Waves <- MCWaves
  Rounds = 2
  Mismatches <- MCMismatches
  LastBase = 12
  Parts = {0, 2, 5}
  Tries = 2
  Size = 12
  Guard = 4
  Align = 2
  Primary = 2
  Commands = {2}
  Puts = {3}
  Space = 2
  Stride = 1
  MaxBuffers = 3
  FrameWords = 6
  MaxFrames = 3
  Header = 100
  Fields = {f1}
  Values = {a}
  Floats = {0, 15, 16, 256}
  FloatCalls <- MCFloatCalls
  Textures = {2, 3}
  Buffers = {b1}
  VShaders = {v1}
  PShaders = {p1, p2}
  Literals <- MCLiterals
  Integers_ = {p1}
  Instances = {0, 1}
  Raw <- MCRaw
  Formats <- MCFormats
  MaxCalls = 5
  MaxDraws = 2
  None = None
INVARIANT
  VerticesApart
CHECK_DEADLOCK FALSE
