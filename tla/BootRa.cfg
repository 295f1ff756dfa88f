\* The guard is turned off after a boot, while the adapters' IPv6 is to stay off.
SPECIFICATION HostSpec
CONSTANTS
  Subs = {s1, s2}
  Bounds <- MCSubBounds
  BootBounds <- MCBootBounds
  PfBounds <- MCPfBounds
  PfTokens = {1, 2, 3}
  FirstVersion <- MCFirst
  UpdVersions <- MCVersions
  UpdBounds <- MCUpdBounds
PROPERTY AdvertisementsWait
CHECK_DEADLOCK FALSE
