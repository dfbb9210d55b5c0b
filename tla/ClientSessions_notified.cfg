SPECIFICATION SteadySpec
CONSTANTS
  Sess = {s1, s2}
  Subscribers = {a}
  Handlers = {}
  None = None
PROPERTY ReplacedIsNotified
CHECK_DEADLOCK FALSE
