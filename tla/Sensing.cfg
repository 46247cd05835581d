SPECIFICATION SensingSpec
CONSTANTS
  Samples <- MCSamples
  MaxSample = 16358
  Interval <- MCInterval
  BootDelay = 5
  Steps = {0, 1, 3}
  MaxTime = 11
  WIDTH = 10
  HEIGHT = 8
  NUM_PARTICLES = 3
  Unit = 2
  Reach <- MCReach
  Brightness = 100
  MaxFrames = 2
  Vectors <- MCVectors
  Tilts = {0, 10, 20}
  Headings = {10, 11, 100, 348}
  LuxLevels = {0, 900}
  Exposures <- MCExposures
  ByteSize = 4
  Garbage = {3}
  MaxReads = 3
  Axes <- MCAxes
  Degrees = {0, 231}
  Lights <- MCLights
  Luxes = {300}
  Noise = {128}
INVARIANTS
  SensingTypeOK
  PicturesAreTrue
  FluidIsContained
  AnswersAreTrue
PROPERTIES
  MeanSpec
  ReadingsAreFresh
CHECK_DEADLOCK FALSE
