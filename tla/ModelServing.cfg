SPECIFICATION Spec
CONSTANTS
  Executors = {e1, e2}
  Rewriters = {e1}
  Attempts = 2
  VersionBound = 2
  Probes = {q1, q2}
  Workers = {w1}
  MaxOutstanding = 2
  Proxied = TRUE
  Nobody = Nobody
INVARIANTS
  TypeOK
  MeasuredAsTried
  PermitsAreKept
  NoSocketLeaks
PROPERTIES
  EveryCallEnds
  EveryProbeEnds
CHECK_DEADLOCK FALSE
