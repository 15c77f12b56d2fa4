SPECIFICATION MCSpec
CONSTANTS
  CapSlots = 2
  CapMaxFrames = 3
  CapMaxEpochs = 2
  RecMaxTime = 1
  RingSources = 2
  RingSurfaces = 2
  EncMaxFrames = 3
  EncMaxRetries = 1
  CapSide = 4
  CapWord = 16
  CapSizes = {0, 4, 7, 8, 12, 15}
  CursorHead = 2
  BitmapHead = 1
  AbAlphabet = {0, 1, 3, 7, 128}
  AbLength = 5
  AbHeaders = {103, 104, 101}
  AbMaxUnits = 3
  AbMaxNal = 6
  RtpPayloadMax = 4
  RtpRate = 3
  RtpSecond = 7
  RtpWord = 12
  RtpWire = 8
  RtpTimes = {1, 12, 33, 40}
  RtpNals <- MCRtpNals
  SalTile = 2
  SalRadius = 1
  SalWord = 16
  SalCapacity = 2
  SalSizes <- MCSalSizes
  SalRectangles <- MCSalRectangles
  SalHalos <- MCSalHalos
  SalScores = {50, 80}
  SalStray = {0, 4}
  SalMaxEpoch = 2
  SalMaxFrames = 2
  SalMaxWork = 3
INVARIANTS
  CaptureSafe
  SurfacesStayPut
  OutputFollowsSubmission
  FormatsFaithful
  SaliencyFaithful
PROPERTIES
  RecordedChain
  RecordEnds
  EncoderCloses
CHECK_DEADLOCK FALSE
