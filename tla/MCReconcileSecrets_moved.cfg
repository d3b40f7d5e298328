SPECIFICATION Spec
CONSTANTS
  n1 = n1
  n2 = n2
  plain = plain
  other = other
  Namespaces = {n1, n2}
  Names = {plain, other}
  Resources = {r1}
  RefName <- MCRefName
  Data = {d1, d2}
  Types = {opaque, tls}
  Configs <- MCTwoNamespaces
  None = None
  NoPrecondition = NoPrecondition
  Relabels = {FALSE}
  MaxEdits = 1
  MaxFaults = 0
INVARIANTS
  NoLeftovers
