\* One stream at a time and two warmers; one probe and one download; two nodes and
\* two lookups, with a request or a surprise, a stop and a failure
SPECIFICATION ServicesSpec
CONSTANTS
  Conns = {c1}
  MaxWarmers = 2
  SickFailures = 2
  SickWindow = 2
  SickCooldown = 3
  HandshakeWindow = 0
  WarmTries = 2
  Probes = {p1}
  Downloads = {d1}
  ExitNodes = {n1, n2}
  MaxLookups = 2
  ExitBounds <- MCExitBounds
INVARIANTS
  ServicesTypeOK
  OneWarmer
  SealingFindsNoProbe
  ShownExitIsValid
PROPERTIES
  SickIsRight
  SealedStopsDirect
  BackgroundEnds
