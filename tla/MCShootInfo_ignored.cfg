SPECIFICATION Spec
CONSTANTS
  given1 = given1
  given2 = given2
  preset = preset
  Replicas = {p1, p2}
  Values = {given1, given2, preset}
  DefaultValue <- MCDefaultValue
  Zero = Zero
  CommandLines <- MCChartCommandLines
  NotGiven = NotGiven
  Nobody = Nobody
  MaxStops = 0
  Identities = {i1}
  UserData = {theirs}
  None = None
  Unversioned = Unversioned
  MaxEdits = 0
  MaxFaults = 0
INVARIANTS
  FlagReachesController
