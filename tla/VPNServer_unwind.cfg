SPECIFICATION FairSpec
CONSTANTS
  Helpers = {h1}
  Callers = {c1, c2}
  Rules = {"masquerade", "forward_accept"}
  RuleOrder <- TwoRules
  bootForward = 0
  None = None
INVARIANTS OneUserOfHelper NoSessionLost NothingLeftBehind
PROPERTIES StopUnwinds SlotIsFreed
CHECK_DEADLOCK FALSE
