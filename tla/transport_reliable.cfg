\* ATA requests on two links, both listed by one preference setting, without
\* link events, AoE errors or broadcasts.
CONSTANTS
  e0 = e0
  e1 = e1
  Ifs = {e0, e1}
  Shelves = {0}
  DataTags = {1, 2}
  BcastTags = {}
  OnlineTag = online
  BufCounts = {2}
  DefaultWindow <- MC_DefaultWindow
  UserWindow <- MC_UserWindow
  RtoValues = {1, 2}
  RtoInit <- MC_RtoInit
  RtoMin <- MC_RtoMin
  RetransmitCap <- MC_RetransmitCap
  IdleDelay <- MC_IdleDelay
  DropAge <- MC_DropAge
  ErrorFlags = {FALSE}
  LinkEvents = FALSE
  MaxCwnd <- MC_MaxCwnd
  PrefLists <- MC_PrefsBoth
  MaxPrefChanges = 1
  MaxSearches = 0
SPECIFICATION Spec
INVARIANTS
  TypeOK
  OutstandingMatchesInFlight
