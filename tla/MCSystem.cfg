SPECIFICATION SystemSpec
CONSTANTS
  c1 = c1
  c2 = c2
  d1 = d1
  d2 = d2
  Commands = {c1}
  Domains = {d1, d2}
  MaxPairs = 3
  Faults = {"fail", "upgrade"}
INVARIANTS
  SystemTypeOK
  SitesAreTrusted
  RecordIsRight
  UninstalledLeavesNothing
