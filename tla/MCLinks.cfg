SPECIFICATION Spec
CONSTANTS
  p1 = p1
  p2 = p2
  n1 = n1
  n2 = n2
  Commands = {c1}
  Paths = {p1, p2}
  Around <- Nested
  Names = {n1, n2}
  Custom = {}
  BaseName <- TwoBaseNames
  Versions = {v1, v2}
  Latest = v2
  WsPorts = {}
  Options = {"domain", "ws", "value"}
  Absent = Absent
  Faults = {"fail"}
INVARIANTS
  TypeOK
  LinkedIsServed
  NoLeftovers
PROPERTIES
  RowsStayPut
