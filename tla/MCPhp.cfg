SPECIFICATION Spec
CONSTANTS
  Commands = {c1}
  Versions <- ThreeVersions
  Branches = {b1}
  None = None
  MaxMishaps = 2
  Faults = {"fail", "upgrade"}
INVARIANTS
  TypeOK
  RecordedIsWhole
  ResolutionIsRight
PROPERTIES
  ChoicesHold
  EndOfLifeIsFinal
