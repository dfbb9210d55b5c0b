SPECIFICATION ProxySpec
CONSTANTS
  Inputs = {m1}
  ChanCap = 1
INVARIANT ChannelsAreSound
PROPERTIES ReturnReleases GoneEndsUnlessStranded
CHECK_DEADLOCK FALSE
