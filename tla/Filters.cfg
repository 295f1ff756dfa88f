\* Every specification of the guard; lists of up to two groups; two operations
\* on the WFP guard, a start of the core, the other process and one fault.
SPECIFICATION FiltersSpec
CONSTANTS
  Lists <- MCLists
  Starts <- MCStarts
  Families <- MCFamilies
  Onwards = FALSE
  MaxWfpFaults = 1
  MaxApplies = 2
  MaxStarts = 1
  MaxTools = 1
INVARIANTS
  FiltersTypeOK
  FilterIsRight
  DirectIsMeant
  SwitchIsFaithful
PROPERTIES
  ReportsAreHonest
  NoGap
  ForwardingComesBack
CHECK_DEADLOCK FALSE
