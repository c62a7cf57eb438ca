\* Two clients; sessions of one kind may overlap, every request may fail,
\* programs die and the device restarts at any step.
SPECIFICATION Spec
CONSTANTS
  Clients = {c1, c2}
  Kinds = {"VLAN_PORT", "POE_CONF"}
  MaxSessions = 3
  FailKinds = {"VLAN_PORT", "POE_CONF"}
  MayRestart = TRUE
INVARIANTS TypeOK AppliedWhole PoeSurvives
PROPERTIES EditsKept
SYMMETRY Symmetry
