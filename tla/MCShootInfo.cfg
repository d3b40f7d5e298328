SPECIFICATION FairSpec
CONSTANTS
  given1 = given1
  given2 = given2
  preset = preset
  Replicas = {p1, p2}
  Values = {given1, given2, preset}
  DefaultValue <- MCDefaultValue
  Zero = Zero
  CommandLines <- MCCommandLines
  NotGiven = NotGiven
  Nobody = Nobody
  MaxStops = 2
  Identities = {i1}
  UserData = {theirs}
  None = None
  Unversioned = Unversioned
  MaxEdits = 1
  MaxFaults = 1
INVARIANTS
  TypeOK
  ControllersConfigured
  WrittenAsConfigured
PROPERTIES
  NewestWriterWins
  InfoConverges
