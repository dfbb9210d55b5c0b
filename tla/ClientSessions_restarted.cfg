SPECIFICATION RestartedSpec
CONSTANTS
  Sess = {s1, s2}
  Subscribers = {}
  Handlers = {h}
  None = None
PROPERTY SessionIsPersistent
CHECK_DEADLOCK FALSE
