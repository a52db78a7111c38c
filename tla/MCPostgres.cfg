SPECIFICATION Spec
CONSTANTS
  Commands = {c1}
  Projects = {p1, p2}
  n1 = n1
  n2 = n2
  Names = {n1, n2}
  BaseName <- SameBase
  Sockets = {p1}
  EnvFiles <- OneFile
  None = None
  MaxMishaps = 2
  Faults = {"fail", "crash"}
INVARIANTS
  TypeOK
  ReportsAreTrue
  LinkedHasDatabase
PROPERTIES
  UserLinesSurvive
