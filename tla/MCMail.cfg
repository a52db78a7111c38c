SPECIFICATION Spec
CONSTANTS
  Sessions = {s1}
  Tabs = {t1}
  Paths = {p1}
  Names = {n1}
  Recipients = {r1}
  MaxRcpt = 1
  Attached = {TRUE}
  Buffer = 1
  MaxMails = 2
  MaxRequests = 2
  Faults = {"fail", "crash"}
INVARIANTS
  TypeOK
  DetailIsWholeOrGone
  RestShowsTheMailbox
PROPERTIES
  AcceptedIsStoredAsSent
  MailGoesOnRequest
