\* One patch, two analyses with lite_analysis_backend = "opencode".
SPECIFICATION Spec
CONSTANTS
  Patches = {p1}
  MaxGen = 2
  Backends = {"opencode"}
PROPERTY ResultsSent
