SPECIFICATION Spec
CONSTANTS
  Cycles = {c1, c2}
  AuthIds = {a}
  Keys = {k1, k2}
  MaxEvents = 1
  NilPointer = nil
  NoCycle = NoCycle
  MaxDelay = 2
  MaxChanges = 3
INVARIANTS DaemonTypeOK RevokedIsRefused CopiesAgree
PROPERTIES Reconnects DetachEnds OldCycleEnds
CHECK_DEADLOCK FALSE
