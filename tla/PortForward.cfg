SPECIFICATION ForwardSpec
CONSTANTS
  Chunks = {x, y}
  MaxChunks = 2
  MaxDown = 1
  SendCap = 1
INVARIANTS Accounted NothingHeldBack ConnectionWithinReach
PROPERTIES OrderedSpec ReadIsWritten RemoteCloseReaches EndReleases
CHECK_DEADLOCK FALSE
