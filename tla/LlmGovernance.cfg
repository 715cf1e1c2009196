SPECIFICATION Spec
CONSTANTS
  p1 = p1
  Providers = {p1}
  Orgs = {o1}
  Admins = {a1, a2}
  Keys = {k1, k2}
  k1 = k1
  k2 = k2
  None = None
  KeysOf <- MCKeysOf
  Changes <- MCChanges
  RouteSets = {{p1}}
  Retried = {"publish"}
SYMMETRY AdminSymmetry
INVARIANTS
  TypeOK
  ServedWasEvaluated
  OneEffectPerKey
PROPERTIES
  ServedWasReady
  HistoryIsKept
  ImplementsServing
