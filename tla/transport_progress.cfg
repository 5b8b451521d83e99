\* Progress of ATA requests on one link: each is answered or dropped, also
\* when a preference setting drops the link; pending first transmissions
\* keep their sent-queue records.
CONSTANTS
  e0 = e0
  e1 = e1
  Ifs = {e0}
  Shelves = {0}
  DataTags = {1, 2}
  BcastTags = {}
  OnlineTag = online
  BufCounts = {2}
  DefaultWindow <- MC_DefaultWindow
  UserWindow <- MC_UserWindow
  RtoValues = {1, 2}
  RtoInit <- MC_RtoInit
  RtoMin <- MC_RtoMin
  RetransmitCap <- MC_RetransmitCap
  IdleDelay <- MC_IdleDelay
  DropAge <- MC_DropAge
  ErrorFlags = {FALSE}
  LinkEvents = FALSE
  MaxCwnd <- MC_MaxCwnd
  PrefLists <- MC_PrefsOne
  MaxPrefChanges = 2
  MaxSearches = 0
SPECIFICATION Spec
INVARIANT
  PendingHasRecord
PROPERTIES
  ReliableRequestsResolve
