SPECIFICATION Spec
CONSTANTS
  m1 = m1
  m2 = m2
  server = server
  other = other
  script = script
  Machines = {m1, m2}
  Processes = {server, other, script}
  Home <- MCHome
  Servers = {server, other}
  Times = {1, 2}
  None = None
  Limits <- MCAll
CHECK_DEADLOCK FALSE
INVARIANTS IInv PairMatches
PROPERTIES NothingNewerIsLost
