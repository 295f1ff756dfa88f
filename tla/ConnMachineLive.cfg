\* Two callers and three operations, one run identity (PlaneHasOneActor
\* shows that two runs are never alive together); no symmetry, liveness is checked.
CONSTANTS
  Callers = {c1, c2}
  Runs = {r1}
  NoCaller = NoCaller
  NoRun = NoRun
  GiveUp = 3
  MaxCalls = 3
SPECIFICATION FairSpec
PROPERTIES
  ConnectsAtLast
  OperationsEnd
