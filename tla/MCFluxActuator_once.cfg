SPECIFICATION Spec
CONSTANTS
  n1 = n1
  n2 = n2
  a = a
  b = b
  cred = cred
  Namespaces = {n1, n2}
  Specs = {a, b}
  Secrets = {cred}
  Configs <- MCOne
  Rejected = {}
  Works = {a, b}
  SecretRef <- MCSecretRef
  NeedsInfo = {a}
  None = None
  Foreign = Foreign
  Absent = Absent
  NoAttempt = NoAttempt
  MaxEdits = 3
  MaxFaults = 0
PROPERTIES
  BootstrappedOnce
CHECK_DEADLOCK FALSE
