\* A second refill against docs/implementation-plan.md:196.
SPECIFICATION Spec
CONSTANTS
  d1 = d1
  d2 = d2
  o1 = o1
  Decisions = {d1}
  Orgs = {o1}
  OrgOf <- MCOrgOf1
  Workers = {w1, w2}
  Loop = loop
  None = none
  Calls <- RefillCallsOf1
  SerialCreates = FALSE
  Keys = {"k1", "k2"}
  ScoreSets <- MCScoreSets
  MaxFeedback = 2
INVARIANT OneSnapshotPerContextRequest
