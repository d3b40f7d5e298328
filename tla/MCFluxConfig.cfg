SPECIFICATION Spec
CONSTANTS
  Inputs <- MCInputs
  Malformed = Malformed
  None = None
  ResourceKind <- MCResourceKind
  InvalidNames = {"Bad"}
INVARIANTS
  TypeOK
  ReferencesItsSource
  UserValuesKept
  DefaultingIsStable
  DataWithinReach
  SecretsResolve
  ComponentsComplete
CHECK_DEADLOCK FALSE
