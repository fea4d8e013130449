\* One patch, two analyses: what is marked SENT before it is sent.
SPECIFICATION Spec
CONSTANTS
  Patches = {p1}
  MaxGen = 2
  Backends = {"pf"}
INVARIANT SentWasDelivered
