SPECIFICATION FairSpec
CONSTANTS
  File = {f1, f2}
  Session = {s1, s2}
  Request = {h1, h2}
  Lasting = {s1}
  NoSession = NoSession
  MaxEdits = 2
  MaxRun = 1
  MaxFaults = 1
INVARIANT SavedIsRecorded
PROPERTIES NoRollback SyncConverges
CHECK_DEADLOCK FALSE
