SPECIFICATION Spec
CONSTANTS
  n1 = n1
  n2 = n2
  a = a
  b = b
  cred = cred
  Namespaces = {n1, n2}
  Specs = {a, b}
  Secrets = {cred}
  Configs <- MCApart
  Rejected = {}
  Works = {a, b}
  SecretRef <- MCSecretRef
  NeedsInfo = {a}
  None = None
  Foreign = Foreign
  Absent = Absent
  NoAttempt = NoAttempt
  MaxEdits = 0
  MaxFaults = 0
INVARIANTS
  CredentialsReachSource
CHECK_DEADLOCK FALSE
