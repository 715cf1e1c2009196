\* Old rows without their schema against docs/database-migrations.md:50.
SPECIFICATION DeploymentSpec
CONSTANTS
  t1 = t1
  t2 = t2
  Tags = {t1, t2}
  FirstTag = t1
  Shipped <- MCShipped
  FileCount = 3
  JobPods = {h1, h2}
SYMMETRY PodSymmetry
INVARIANT PassedMeansMigrated
CHECK_DEADLOCK FALSE
