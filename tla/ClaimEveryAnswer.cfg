\* A second round against docs/http-api-design.md:242.
SPECIFICATION Spec
CONSTANTS
  d1 = d1
  d2 = d2
  o1 = o1
  Decisions = {d1}
  Orgs = {o1}
  OrgOf <- MCOrgOf1
  Workers = {w1, w2}
  Loop = loop
  None = none
  Calls <- NothingFoundOf1
  SerialCreates = FALSE
  Keys = {"k1", "k2"}
  ScoreSets <- MCScoreSets
  MaxFeedback = 2
INVARIANT EveryAnswerAwaitsAll
