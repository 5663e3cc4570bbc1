SPECIFICATION Spec
CONSTANTS
  r1 = r1
  r2 = r2
  Requests <- MCRequests
  Modes <- MCModesLive
  Threshold = 1
  OpenTicks = 1
  ErrorCodes = {}
  Disconnects = {"client_disconnect"}
PROPERTIES
  EveryRequestEnds
  CircuitsKept
