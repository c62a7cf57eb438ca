\* Two sessions of one kind overlap while a key is empty.
SPECIFICATION Spec
CONSTANTS
  Clients = {c1, c2}
  Kinds = {"POE_CONF"}
  MaxSessions = 2
  FailKinds = {}
  MayRestart = FALSE
PROPERTIES DefaultsOnlyInitialise
