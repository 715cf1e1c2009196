SPECIFICATION Spec
CONSTANTS
  Threads = {h1, h2}
  Models = {m0, m1}
  ImportedModel = m0
  Callers = {h1, h2}
  Unbound = Unbound
  RevisionBound = 3
  BindingBound = 2
  Tenants = {t}
  InitialAdmin = a0
  Subjects = {s1, s2}
  NoSubject = NoSubject
  Replicas = {r}
  Tickets = {k}
  Visitors = {h1, h2}
  SessionBound = 2
  Operators = {op1, op2}
  Root = op1
  Organizations = {g}
  Stores = {x}
  CreateKeys = {i1}
  NoKey = NoKey
  OpThreads = {h1, h2}
  Tasks = {k1, k2}
  RetryKeys = {y1, y2}
  RetryThreads = {h1, h2}
  FailureBound = 2
  Editors = {h1, h2}
  ConfirmKeys = {y1, y2}
  ProductIds = {p1}
  NoProduct = NoProduct
  TextBound = 2
  t1 = t1
  t2 = t2
  Tags = {t1, t2}
  FirstTag = t1
  Shipped <- MCShipped
  FileCount = 3
  JobPods = {h1, h2}
SYMMETRY ThreadSymmetry
CONSTRAINT GateMayPass
INVARIANTS
  TypeOK
  BoundIsEnabled
  PassedIsCurrent
  SubjectNamesOneAccount
  TicketOpensOneSession
  OneCreationPerKey
  RequeuedOncePerFailure
  RecallIsReviewed
  ConfirmedIsComplete
  RecordedMeansExecuted
  PassMeansDeployed
PROPERTIES
  NoBlindReplacement
CHECK_DEADLOCK FALSE
