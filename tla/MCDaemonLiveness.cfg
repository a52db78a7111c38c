SPECIFICATION FairSpec
CONSTANTS
  Commands = {c1}
  Pids = {d1, d2}
  NoPid = NoPid
  NoCommand = NoCommand
  Faults = {"slow", "crash", "foreground", "reboot"}
INVARIANTS
  TypeOK
  SignalsOnlyArmedDaemons
PROPERTIES
  NothingLingers
