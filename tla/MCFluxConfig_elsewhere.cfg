SPECIFICATION Spec
CONSTANTS
  Inputs <- MCNamespaces
  Malformed = Malformed
  None = None
  ResourceKind <- MCResourceKind
  InvalidNames = {"Bad"}
INVARIANTS
  OmittedNamespacesDefaulted
CHECK_DEADLOCK FALSE
