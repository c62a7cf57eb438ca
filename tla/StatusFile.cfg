\* Three processes set and get, and die, at any point.
SPECIFICATION Spec
CONSTANTS
  Processes = {q1, q2, q3}
  Values = {on, off}
INVARIANTS WriterAlone NeverTorn
PROPERTIES ImplementsRegister
