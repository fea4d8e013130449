\* One line of context for git's three.
SPECIFICATION Spec
CONSTANTS
  code1 = code1
  code2 = code2
  crlf1 = crlf1
  pf1 = pf1
  pf2 = pf2
  Annotations = {pf1, pf2}
  Code = {code1, code2, crlf1}
  Stripped <- MCStripped
  Heads <- MCHeads
  Context = 1
  MaxEdits = 2
  MaxContexts = 2
SYMMETRY MCSymmetry
INVARIANTS TypeOK RefusedHasCause RoundTrip NewAnnotationsReturn
CHECK_DEADLOCK FALSE
