\* Two tasks, answers may come after the hunt was given up: the link recovers.
SPECIFICATION FairSpec
CONSTANTS
  t1 = t1
  t2 = t2
  proc1 = proc1
  Tasks = {t1, t2}
  Processes = {proc1}
  Process <- OneProcess
  Ports = {p1}
  Values = {10}
  Routines = {"GET"}
  InfoTasks = {}
  NoVal = NoVal
  MaxCalls = 3
  Prompt = FALSE
PROPERTIES LineReleased
