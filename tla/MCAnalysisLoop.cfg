\* Two patches, three analyses per connection, connections without end;
\* with OpenCode a cancelled analysis calls its abort.
SPECIFICATION Spec
CONSTANTS
  Patches = {p1, p2}
  MaxGen = 3
  Backends = {"pf", "opencode"}
INVARIANTS TypeOK AtMostOneTask OnlyNewestUncancelled NoTaskOutlivesConnection LeftOverHasCause
PROPERTIES ResultsInOrder LatestWinsSpec CancelHandshakeEnds
