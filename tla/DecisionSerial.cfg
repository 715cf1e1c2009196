\* Two decisions of one organization, by clients that do not repeat a running create.
SPECIFICATION Spec
CONSTANTS
  d1 = d1
  d2 = d2
  o1 = o1
  Decisions = {d1, d2}
  Orgs = {o1}
  OrgOf <- MCOrgOf2
  Workers = {w1, w2}
  Loop = loop
  None = none
  Calls <- CallsOf2
  SerialCreates = TRUE
  Keys = {"k1", "k2"}
  ScoreSets <- MCScoreSets
  MaxFeedback = 2
INVARIANTS NoLockCycle ResultsStayRetryable
PROPERTIES ImplementsContract
