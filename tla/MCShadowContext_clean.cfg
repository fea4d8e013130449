\* One task after another, each of which may be cancelled.
SPECIFICATION Spec
CONSTANTS
  Tasks = {a, b}
  Notes = {n1, n2}
  Backend = "pf"
  Faults = {"cancel"}
PROPERTY ShadowCleanOnExit
