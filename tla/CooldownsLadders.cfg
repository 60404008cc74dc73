SPECIFICATION Spec
CONSTANTS
  Model = {m1, m2}
  AutoModel = auto
  None = none
  Kind <- MCKind
  Base <- MCBase
  Floor = 1
  Ceiling = 3
  MaxLevel = 3
  MaxFlights = 1
  MaxFailures = 5
  MaxRestarts = 1
INVARIANTS ModelLadderExact CooldownsAreEarned
PROPERTY RestartKeepsCooldowns
SYMMETRY Interchangeable
