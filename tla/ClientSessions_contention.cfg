SPECIFICATION Spec
CONSTANTS
  Sess = {s1, s2}
  Subscribers = {a, b}
  Handlers = {h}
  None = None
SYMMETRY Symmetry
INVARIANTS TypeOK EvictedIsCancelled NotifiedOnce OneKeeper WebRTCIsKept
CHECK_DEADLOCK FALSE
