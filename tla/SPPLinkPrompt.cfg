\* Two tasks of one process, the controller answers in time or not at all.
SPECIFICATION FairSpec
CONSTANTS
  t1 = t1
  t2 = t2
  proc1 = proc1
  Tasks = {t1, t2}
  Processes = {proc1}
  Process <- OneProcess
  Ports = {p1}
  Values = {10, 20}
  Routines = {"INFO", "SET"}
  InfoTasks = {t1}
  NoVal = NoVal
  MaxCalls = 3
  Prompt = TRUE
INVARIANTS SemaphoreMatches OwnAnswer
PROPERTIES ImplementsService
