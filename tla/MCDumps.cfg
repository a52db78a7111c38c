SPECIFICATION FairSpec
CONSTANTS
  Posts = {p1, p2}
  Tabs = {t1}
  Cap = 2
  Buffer = 1
  MaxLoads = 1
  MaxRestarts = 1
  Faults = {"disconnect", "busy"}
INVARIANTS
  TypeOK
  IdsKeepTheirMeaning
  QuietMeansFresh
PROPERTIES
  AutoClearSparesNews
  AnnouncedIsShown
