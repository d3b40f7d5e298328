SPECIFICATION Spec
CONSTANTS
  n1 = n1
  n2 = n2
  plain = plain
  other = other
  Namespaces = {n1}
  Names = {plain, other}
  Resources = {r1}
  RefName <- MCRefName
  Data = {d1, d2}
  Types = {opaque, tls}
  Configs <- MCSimple
  None = None
  NoPrecondition = NoPrecondition
  Relabels = {FALSE}
  MaxEdits = 2
  MaxFaults = 0
PROPERTIES
  CreatedOnlyIfMissing
