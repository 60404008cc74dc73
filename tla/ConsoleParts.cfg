SPECIFICATION Spec
CONSTANTS
  Parts = {"wizard", "detail", "dialogs", "import", "board", "playground", "keys", "settings", "update"}
  None = None
  X = {x1, x2}
  Y = {y1, y2}
  Provider = {"trae", "command"}
  Methods <- MCMethods
  Pasting = {"trae"}
  KeyOnly = {}
  RunId = {1, 2, 3}
  AccountId = {1, 2}
  PollAttempts = 2
  MaxSessions = 2
  LogFilter = {x1, x2}
  MaxPages = 2
  MaxLoads = 2
  LogRow = {x1, x2}
  MaxVersions = 4
  Request = {r1}
  Worker = {w1}
  Cap = 2
  MaxAnswers = 2
  MaxDemoJobs = 3
  MaxToggles = 1
  Account = {x1, x2}
  Operation = {y1, y2}
  RefreshBatch = 2
  PageSize = 1
  Filter = {"all", "available"}
  MaxChanges = 2
  MaxErrors = 1
  Model = {y1, y2}
  MaxDialogs = 2
  MaxSaves = 2
  File <- MCFile
  MaxPicks = 3
  Panel = {p1}
  Latest = 2
  MaxJobs = 1
  ChatAccount = {x1, x2}
  ChatModel = {y1, y2}
  MaxTurns = 1
  MaxChunks = 1
  MaxChoices = 2
  ApiKey = {k1}
  Regions <- MCRegions
  MaxEdits = 2
  Window = {"today", "week"}
  DateRange = {d1}
  KeyFilter = {f1}
  MaxStatLoads = 3
  Row <- MCRow
  Effort = {x1, x2}
  MaxCalls = 2
  Browser = {x1, x2}
  ProxyWorker = {y1, y2}
  Typed <- MCTyped
  MaxPatches = 2
  MaxRestarts = 1
  MaxSummaries = 4
  MaxMinted = 2
SYMMETRY Symmetry
INVARIANTS
  DialogsAreTheirOwn
  NewAccountsAreRight
  NoBlankCell
  ChatIsInView
  NeverBroaderThanSeen
  
  NoLockOut
CHECK_DEADLOCK FALSE
