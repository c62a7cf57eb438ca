\* Two ports, two incarnations of the poller, two signals in the queue.
SPECIFICATION FairSpec
CONSTANTS
  PortCount = 2
  MaxPid = 2
  MaxQueue = 2
INVARIANTS PollTypeOK SavedFromOneRound OneSaveAfterPause
PROPERTIES PauseFreesLine ContinuePolls
CHECK_DEADLOCK FALSE
