SPECIFICATION FairSpec
CONSTANTS
  b1 = b1
  b2 = b2
  s1 = s1
  s2 = s2
  BufferId = {b1, b2}
  ServerName = {s1}
  MaxServers = 2
  MaxEdits = 2
  MaxRequests = 1
  MaxCommands = 2
INVARIANTS TypeOK ServersFollowTheText RequestsFollowTheirText
PROPERTIES CallbacksSeeTheirText RequestsEnd
CHECK_DEADLOCK FALSE
