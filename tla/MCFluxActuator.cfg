SPECIFICATION FairSpec
CONSTANTS
  n1 = n1
  n2 = n2
  a = a
  b = b
  cred = cred
  Namespaces = {n1, n2}
  Specs = {a, b}
  Secrets = {cred}
  Configs <- MCAllConfigs
  Rejected = {}
  Works = {a, b}
  SecretRef <- MCSecretRef
  NeedsInfo = {a}
  None = None
  Foreign = Foreign
  Absent = Absent
  NoAttempt = NoAttempt
  MaxEdits = 2
  MaxFaults = 1
INVARIANTS
  TypeOK
  IndInv
  NoWaitInVain
PROPERTIES
  MarkedFreezesFlux
  MarkedConfigDeployed
  ConditionsKept
  AbstractSpec
  EventuallyBootstrapped
  UpkeepConverges
CHECK_DEADLOCK FALSE
