\* Two tasks, two annotations, every fault, the backend that may be aborted.
SPECIFICATION Spec
CONSTANTS
  Tasks = {a, b}
  Notes = {n1, n2}
  Backend = "opencode"
  Faults = {"cancel", "crash", "save", "git", "header", "overlap"}
INVARIANTS TypeOK SavedNeverLost
PROPERTIES AppliedOnEntry RestoreDropsOnlyLateEdits CancelledEnds
