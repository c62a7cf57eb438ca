\* Two clients; the manager may refuse a set or a commit, die, or end a
\* connection at any point.
SPECIFICATION FairSpec
CONSTANTS
  Clients = {c1, c2}
  Values = {10, 20}
  NoVal = NoVal
  Cmds = {"SET", "COMMIT", "GET", "GETALL"}
  Refusals = {"SET", "COMMIT"}
  MayDie = TRUE
  Chunks = 2
  MaxFds = 2
  MaxCalls = 3
INVARIANTS TypeOK NoDescriptorLeft
PROPERTIES ImplementsStore AnsweredReturns
