\* Two tags, of which one may have two patches in a save; one connection after another.
SPECIFICATION Spec
CONSTANTS
  t1 = t1
  t2 = t2
  a1 = a1
  r1 = r1
  b1 = b1
  MaxPatches = 2
  Tags = {t1, t2}
  Hashes = {a1, r1, b1}
  Contents <- MCContents
  Removals = {r1}
  Connections = {c1}
  Absent = Absent
  Unloaded = Unloaded
  MaxOpen = 1
  MaxHanded = 2
INVARIANTS TypeOK HandedOutOnce
PROPERTIES DecisionLostOnlyByStaleCopy CopyStepsLegal
