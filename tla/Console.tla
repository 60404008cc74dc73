------------------------------ MODULE Console -------------------------------
(***************************************************************************)
(* The web console. Its router (frontend App.tsx) mounts one     *)
(* page at a time and a page starts anew whenever it is mounted, so a      *)
(* behaviour of the console is, between two clicks on the sidebar, one of  *)
(* one part: a page, or a dialog with a state of its own. The variables of *)
(* the parts that are not mounted are None.                                *)
(***************************************************************************)
EXTENDS Naturals, FiniteSets, Sequences

CONSTANTS
    Parts,        \* the parts to explore, see `part`
    None,
    Provider, Methods, Pasting, KeyOnly, RunId, AccountId, PollAttempts, MaxSessions,
    LogFilter, MaxPages, MaxLoads, LogRow, MaxVersions,
    Request, Worker, Cap, MaxAnswers, MaxDemoJobs, MaxToggles,
    Account, Operation, RefreshBatch, PageSize, Filter, MaxChanges, MaxErrors,
    Model, MaxDialogs, MaxSaves, File, MaxPicks,
    Panel, Latest, MaxJobs,
    ChatAccount, ChatModel, MaxTurns, MaxChunks, MaxChoices,
    ApiKey, Regions, MaxEdits,
    Window, DateRange, KeyFilter, MaxStatLoads,
    Row, Effort, MaxCalls,
    Browser, ProxyWorker, Typed, MaxPatches, MaxRestarts,
    MaxSummaries, MaxMinted

VARIABLES
    part,         \* the part that is mounted
    wizard, runs, pollTimer, closers, login, added,
    logs, loads, overtaken,
    detail, detailCalls,
    card, live, board, landed, reveals, flights,
    server, list, masks, busy, ops, view, faults, heard, missed,
    enabled, editor, sheet, saving, saves, fetches, opened, wish,
    dialog, importing, reading, picks, chosen, imports,
    coordinator, tasks, agent, panel, gets,
    sessions, active, chat, stream, account, poolModels, catalog, fetching, model, choices, serves, sent,
    known, options, stored, rows, keyEditor, keyCalls, busyKey, edits, seen,
    figures, statLoads, masked,
    settings, memory, models, modelCalls, saved, crossed,
    proxy, other, page, patches, sends, restarts,
    serverKey, session, summaries, rotations, asked, mixed, rotated

Wizard   == INSTANCE AccountWizard
Logs     == INSTANCE LogsPage
Detail   == INSTANCE LogDetail
Board    == INSTANCE InflightBoard
Accounts == INSTANCE AccountsPage
Dialogs  == INSTANCE AccountDialogs
Import   == INSTANCE BatchImport
Update   == INSTANCE SystemUpdate
Play     == INSTANCE Playground
Keys     == INSTANCE KeyGrants
Stats    == INSTANCE Statistics
Models   == INSTANCE ModelsPage
Settings == INSTANCE SystemSettings WITH Worker <- ProxyWorker
Tab      == INSTANCE SignIn

ASSUME ConsoleAssumption ==
    /\ Wizard!WizardAssumption /\ Logs!LogsAssumption /\ Detail!DetailAssumption
    /\ Board!BoardAssumption /\ Accounts!AccountsAssumption /\ Dialogs!DialogsAssumption
    /\ Import!FileAssumption /\ Update!UpdateAssumption /\ Play!PlaygroundAssumption
    /\ Keys!KeysAssumption /\ Tab!SignInAssumption

wizardVars     == <<wizard, runs, pollTimer, closers, login, added>>
logsVars       == <<logs, loads, overtaken>>
detailVars     == <<detail, detailCalls>>
boardVars      == <<card, live, board, landed, reveals, flights>>
accountsVars   == <<server, list, masks, busy, ops, view, faults, heard, missed>>
dialogVars     == <<enabled, editor, sheet, saving, saves, fetches, opened, wish>>
importVars     == <<dialog, importing, reading, picks, chosen, imports>>
updateVars     == <<coordinator, tasks, agent, panel, gets>>
playgroundVars == <<sessions, active, chat, stream, account, poolModels, catalog,
                    fetching, model, choices, serves, sent>>
keysVars       == <<known, options, stored, rows, keyEditor, keyCalls, busyKey, edits, seen>>
statsVars      == <<figures, statLoads, masked>>
modelsVars     == <<settings, memory, models, modelCalls, saved, crossed>>
settingsVars   == <<proxy, other, page, patches, sends, restarts>>
signInVars     == <<serverKey, session, summaries, rotations, asked, mixed, rotated>>

vars == <<part, wizardVars, logsVars, detailVars, boardVars, accountsVars, dialogVars, importVars,
          updateVars, playgroundVars, keysVars, statsVars, modelsVars, settingsVars, signInVars>>

-----------------------------------------------------------------------------
WizardInit ==
    IF part = "wizard" THEN Wizard!WizardInit
    ELSE wizard = None /\ runs = None /\ pollTimer = None /\ closers = None /\ login = None /\ added = None

LogsInit ==
    IF part = "logs" THEN Logs!LogsInit ELSE logs = None /\ loads = None /\ overtaken = None

DetailInit ==
    IF part = "detail" THEN Detail!DetailInit ELSE detail = None /\ detailCalls = None

BoardInit ==
    IF part = "board" THEN Board!BoardInit
    ELSE card = None /\ live = None /\ board = None /\ landed = None /\ reveals = None /\ flights = None

AccountsInit ==
    IF part = "accounts" THEN Accounts!AccountsInit
    ELSE /\ server = None /\ list = None /\ masks = None /\ busy = None /\ ops = None
         /\ view = None /\ faults = None /\ heard = None /\ missed = None

DialogsInit ==
    IF part = "dialogs" THEN Dialogs!DialogsInit
    ELSE /\ enabled = None /\ editor = None /\ sheet = None /\ saving = None
         /\ saves = None /\ fetches = None /\ opened = None /\ wish = None

ImportInit ==
    IF part = "import" THEN Import!ImportInit
    ELSE /\ dialog = None /\ importing = None /\ reading = None
         /\ picks = None /\ chosen = None /\ imports = None

UpdateInit ==
    IF part = "update" THEN Update!UpdateInit
    ELSE coordinator = None /\ tasks = None /\ agent = None /\ panel = None /\ gets = None

PlayInit ==
    IF part = "playground" THEN Play!PlaygroundInit
    ELSE /\ sessions = None /\ active = None /\ chat = None /\ stream = None
         /\ account = None /\ poolModels = None /\ catalog = None /\ fetching = None
         /\ model = None /\ choices = None /\ serves = None /\ sent = None

KeysInit ==
    IF part = "keys" THEN Keys!KeysInit
    ELSE /\ known = None /\ options = None /\ stored = None /\ rows = None /\ keyEditor = None
         /\ keyCalls = None /\ busyKey = None /\ edits = None /\ seen = None

StatsInit ==
    IF part = "statistics" THEN Stats!StatsInit ELSE figures = None /\ statLoads = None /\ masked = None

ModelsInit ==
    IF part = "models" THEN Models!ModelsInit
    ELSE /\ settings = None /\ memory = None /\ models = None
         /\ modelCalls = None /\ saved = None /\ crossed = None

SettingsInit ==
    IF part = "settings" THEN Settings!SettingsInit
    ELSE proxy = None /\ other = None /\ page = None /\ patches = None /\ sends = None /\ restarts = None

SignInInit ==
    IF part = "signin" THEN Tab!SignInInit
    ELSE /\ serverKey = None /\ session = None /\ summaries = None /\ rotations = None
         /\ asked = None /\ mixed = None /\ rotated = None

Init ==
    /\ part \in Parts
    /\ WizardInit /\ LogsInit /\ DetailInit /\ BoardInit /\ AccountsInit /\ DialogsInit /\ ImportInit
    /\ UpdateInit /\ PlayInit /\ KeysInit /\ StatsInit /\ ModelsInit /\ SettingsInit
    /\ SignInInit

\* The mounted part takes a step.
Next ==
    /\ UNCHANGED part
    /\ IF part = "wizard"     THEN Wizard!WizardNext     ELSE UNCHANGED wizardVars
    /\ IF part = "logs"       THEN Logs!LogsNext         ELSE UNCHANGED logsVars
    /\ IF part = "detail"     THEN Detail!DetailNext     ELSE UNCHANGED detailVars
    /\ IF part = "board"      THEN Board!BoardNext       ELSE UNCHANGED boardVars
    /\ IF part = "accounts"   THEN Accounts!AccountsNext ELSE UNCHANGED accountsVars
    /\ IF part = "dialogs"    THEN Dialogs!DialogsNext   ELSE UNCHANGED dialogVars
    /\ IF part = "import"     THEN Import!ImportNext     ELSE UNCHANGED importVars
    /\ IF part = "update"     THEN Update!UpdateNext     ELSE UNCHANGED updateVars
    /\ IF part = "playground" THEN Play!PlaygroundNext   ELSE UNCHANGED playgroundVars
    /\ IF part = "keys"       THEN Keys!KeysNext         ELSE UNCHANGED keysVars
    /\ IF part = "statistics" THEN Stats!StatsNext       ELSE UNCHANGED statsVars
    /\ IF part = "models"     THEN Models!ModelsNext     ELSE UNCHANGED modelsVars
    /\ IF part = "settings"   THEN Settings!SettingsNext ELSE UNCHANGED settingsVars
    /\ IF part = "signin"     THEN Tab!SignInNext        ELSE UNCHANGED signInVars

Spec == Init /\ [][Next]_vars

-----------------------------------------------------------------------------
\* When nothing is under way a page shows what its controls ask for and what the
\* server holds: the logs the rows of their query, the accounts the rows and no
\* value of an operation that has ended, the statistics the figures of their
\* window and key, the models the stored settings; the tab shows the login, or the
\* summary its key was given. (Each page names what it excepts: what an error or
\* an answer out of order left is shown until the next.)
SettledPagesMatch ==
    /\ part = "logs" => Logs!SettledRowsMatch
    /\ part = "accounts" => Accounts!SettledListIsCurrent /\ Accounts!NoEmptyPage
    /\ part = "statistics" => Stats!SettledFiguresMatch
    /\ part = "models" => Models!RowsShowTheSettings
    /\ part = "signin" => Tab!SettledSessionMatches

\* A dialog shows, edits and saves what it was opened for, however late the answers
\* to the dialogs before it come: an account's editor, catalog and records, the
\* detail of a request.
DialogsAreTheirOwn ==
    /\ part = "detail" => Detail!DetailIsOpened
    /\ part = "dialogs" => Dialogs!DialogsKeepTheirAccount

\* Accounts come in right: the wizard reports one when it can serve, and the runs of
\* one opening share one account, whatever fails and is retried; a credential file
\* goes to the region and provider it names, whatever was picked and cancelled before.
NewAccountsAreRight ==
    /\ part = "wizard" => Wizard!AddedIsReady /\ Wizard!OneAccountPerSession
    /\ part = "import" => Import!ImportsGoWhereTheyBelong

\* The open board of requests in flight fades in, and no cell of it stays blank
\* for a request at work.
NoBlankCell == part = "board" => Board!NoBlankCell /\ Board!BodyShown

\* No update leaves the server refusing updates or requests with nobody to free it.
NoLockOut == part = "update" => Update!NoLockOut

\* The playground's streaming answer is the one in view and can be stopped, and a
\* chosen account is asked for a model it serves.
ChatIsInView == part = "playground" => Play!AnswersAreInView /\ Play!ModelIsServed

\* A key whose boxes were changed may use the ticked regions and no other.
NeverBroaderThanSeen == part = "keys" => Keys!NeverBroaderThanSeen

\* Between PATCHes the workers run with the stored proxy, or a reload is pending.
WorkersRunTheStoredProxy == part = "settings" => Settings!WorkersRunTheStoredProxy
=============================================================================
