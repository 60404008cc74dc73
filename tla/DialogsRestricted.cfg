SPECIFICATION DialogsSpec
CONSTANTS
  Account = {a1}
  Model = {m1, m2}
  MaxDialogs = 2
  MaxSaves = 1
  None = None
INVARIANT RestrictedServesItsList
CHECK_DEADLOCK FALSE
