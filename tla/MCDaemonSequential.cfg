SPECIFICATION Spec
CONSTANTS
  Commands = {c1}
  Pids = {d1, d2, d3, d4}
  NoPid = NoPid
  NoCommand = NoCommand
  Faults = {"crash", "reboot"}
SYMMETRY PidSymmetry
INVARIANTS
  ServingIsTracked
  ReportsAreTrue
