SPECIFICATION SystemSpec
CONSTANTS
  c1 = c1
  c2 = c2
  d1 = d1
  d2 = d2
  Commands = {c1}
  Domains = {d1}
  MaxPairs = 1
  Faults = {}
INVARIANT InstalledMeansHooked
