SPECIFICATION Spec
CONSTANTS
  Commands = {c1}
  Versions = {v1, v2}
  MaxLinks = 3
  Faults = {"crash", "fail", "reboot"}
SYMMETRY VersionSymmetry
INVARIANTS
  TypeOK
  RunningMeansServing
  NothingEscapes
