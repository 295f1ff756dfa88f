\* Three callers, up to six operations of theirs, in every interleaving.
CONSTANTS
  Callers = {c1, c2, c3}
  Runs = {r1, r2}
  NoCaller = NoCaller
  NoRun = NoRun
  GiveUp = 4
  MaxCalls = 6
SPECIFICATION Spec
SYMMETRY Symmetric
INVARIANTS
  TypeOK
  PlaneHasOneActor
  LoopMatchesIntent
  StatusIsHonest
PROPERTIES
  RequestsAreKept
  TeardownIsJustified
  PromiseKept
