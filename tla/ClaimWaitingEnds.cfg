\* The waiting budget of docs/http-api-design.md:403.
SPECIFICATION Spec
CONSTANTS
  d1 = d1
  d2 = d2
  o1 = o1
  Decisions = {d1}
  Orgs = {o1}
  OrgOf <- MCOrgOf1
  Workers = {w1, w2}
  Loop = loop
  None = none
  Calls <- RefillCallsOf1
  SerialCreates = FALSE
  Keys = {"k1", "k2"}
  ScoreSets <- MCScoreSets
  MaxFeedback = 2
PROPERTY WaitingEnds
