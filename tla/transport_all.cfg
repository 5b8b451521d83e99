\* Every feature on one link: broadcasts, AoE error replies, link-off and
\* link-on events, configuration replies changing the buffer count, and
\* preference settings listing the port and dropping it again.
CONSTANTS
  e0 = e0
  e1 = e1
  Ifs = {e0}
  Shelves = {0}
  DataTags = {1}
  BcastTags = {9}
  OnlineTag = online
  BufCounts = {2, 3}
  DefaultWindow <- MC_DefaultWindow
  UserWindow <- MC_UserWindow
  RtoValues = {1, 2}
  RtoInit <- MC_RtoInit
  RtoMin <- MC_RtoMin
  RetransmitCap <- MC_RetransmitCap
  IdleDelay <- MC_IdleDelay
  DropAge <- MC_DropAge
  ErrorFlags = {FALSE, TRUE}
  LinkEvents = TRUE
  MaxCwnd <- MC_MaxCwnd
  PrefLists <- MC_PrefsOne
  MaxPrefChanges = 2
  MaxSearches = 1
SPECIFICATION Spec
INVARIANTS
  CwndWellFormed
  TransmittedIsWatched
  FiltersFollowPreferences
