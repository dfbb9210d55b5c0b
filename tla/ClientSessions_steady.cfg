SPECIFICATION SteadySpec
CONSTANTS
  Sess = {s1, s2, s3}
  Subscribers = {a}
  Handlers = {}
  None = None
PROPERTY DeadIsReplaced
CHECK_DEADLOCK FALSE
