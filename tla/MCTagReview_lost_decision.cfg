\* As MCTagReview.cfg; the client decides while the store of its connection has a copy.
SPECIFICATION Spec
CONSTANTS
  t1 = t1
  t2 = t2
  a1 = a1
  r1 = r1
  b1 = b1
  MaxPatches = 2
  Tags = {t1, t2}
  Hashes = {a1, r1, b1}
  Contents <- MCContents
  Removals = {r1}
  Connections = {c1}
  Absent = Absent
  Unloaded = Unloaded
  MaxOpen = 1
  MaxHanded = 2
INVARIANT NoLostDecision
