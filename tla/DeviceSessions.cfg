SPECIFICATION MCSpec
CONSTANTS
  a = a
  w = w
  c1 = c1
  c2 = c2
  c3 = c3
  r1 = r1
  s1 = s1
  k1 = k1
  k2 = k2
  Callers = {a, w}
  Calls = {c1, c2, c3}
  Execs = {c2}
  callerOf <- MCCallerOf
  Users = {u, v}
  Ptys = {p1, p2}
  MaxId = 1
  idOf <- MCIdOf
  NoShell = nil
  Clients = {d1, d2}
  Reqs = {r1, r2}
  Conns = {k1, k2}
  User = user
  legOf <- MCLegOf
  None = nil
  Daemons = {d1, d2}
  Streams = {s1, s2, s3}
  FileSources = {s1}
  NoStream = nil
INVARIANTS OutputStaysWithUser ShellsWithinReach RelaysWithinReach TakenOverStays StreamsWithinReach
CHECK_DEADLOCK FALSE
