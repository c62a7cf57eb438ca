\* Two processes, three calls each, inboxes of one datagram, two faults.
SPECIFICATION FairSpec
CONSTANTS
  Clients = {1, 257}
  Cmds = {"get", "set"}
  Handled = "get"
  Room = 1
  MaxCalls = 3
  MaxFaults = 2
INVARIANTS OnlyOwnReplies OwnReply
PROPERTY CallReturns
CHECK_DEADLOCK FALSE
