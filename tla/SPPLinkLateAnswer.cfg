\* An answer comes after its call was given up.
SPECIFICATION Spec
CONSTANTS
  t1 = t1
  t2 = t2
  proc1 = proc1
  Tasks = {t1}
  Processes = {proc1}
  Process <- OneTask
  Ports = {p1, p2}
  Values = {10, 20}
  Routines = {"GET"}
  InfoTasks = {}
  NoVal = NoVal
  MaxCalls = 2
  Prompt = FALSE
INVARIANTS CorrectResponse
