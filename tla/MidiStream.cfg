CONSTANTS
  MaxFrameLen = 3
  MaxNoise = 4
  PerTransfer = 2
  NoiseBytes <- MCNoise
  Sendable <- MCSendable
SPECIFICATION StreamSpec
PROPERTIES WholeFrameDelivered NothingLostSilently
CHECK_DEADLOCK FALSE
