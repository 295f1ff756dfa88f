\* Two subscriptions; every combination of one or two boots, requests, faults and interventions of
\* others; two releases, up to four announcements and uploads of files.
SPECIFICATION HostSpec
CONSTANTS
  Subs = {s1, s2}
  Bounds <- MCSubBounds
  BootBounds <- MCBootBounds
  PfBounds <- MCPfBounds
  PfTokens = {1, 2, 3}
  FirstVersion <- MCFirst
  UpdVersions <- MCVersions
  UpdBounds <- MCUpdBounds
INVARIANTS
  HostTypeOK
  RunningIsHonest
  SelectedIsInForce
  WaitersAreAnswered
  BootIsQuiet
  ClearedStaysCleared
  PfMatches
  UpdatesAreGenuine
  NotLeftDown
CHECK_DEADLOCK FALSE
