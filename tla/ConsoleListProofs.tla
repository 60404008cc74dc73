-------------------------- MODULE ConsoleListProofs --------------------------
(***************************************************************************)
(* What the console's lists show when nothing is under way: the logs, the  *)
(* accounts, the statistics, the models, and the summary of the tab, for   *)
(* any number of rows, operations, requests, failures and answers.         *)
(*                                                                         *)
(* The argument is the same in each: what the controls ask for, or what    *)
(* the server last became, is shown, or noted as an error or as missed, or *)
(* there is an answer on its way that brings it and nothing sent before    *)
(* that answer comes after it.                                             *)
(***************************************************************************)
EXTENDS Console, Integers, SequenceTheorems, FiniteSetTheorems, TLAPS

-----------------------------------------------------------------------------
(* The statistics: the last load sent decides *)

StatsTyped ==
  /\ {"page", "window", "range", "key", "loading", "shown", "error", "paused"} = DOMAIN figures
  /\ \A l \in statLoads : {"query", "quiet", "current"} = DOMAIN l

\* What is current asks what the controls ask, as long as they ask for something.
CurrentAsks ==
  \A l \in statLoads : l.current /\ Stats!Query(figures) # None => l.query = Stats!Query(figures)

\* What the controls ask for is shown, failed, or on its way in the foreground.
FiguresCome ==
  ~masked /\ Stats!Query(figures) # None =>
    \/ figures.error \/ figures.shown = Stats!Query(figures)
    \/ \E l \in statLoads : l.current /\ ~l.quiet

StatsSound == StatsTyped /\ CurrentAsks /\ FiguresCome

-----------------------------------------------------------------------------
(* The logs: answers in order leave the list with what was asked last *)

LoadType == [tab : Logs!Tab, query : [filter : LogFilter, page : Nat], quiet : BOOLEAN]

LogFields == {"tab", "filter", "page", "total", "rows", "loading", "booted", "error", "timer", "clear"}

IsLogs(l) ==
  /\ DOMAIN l = LogFields /\ l.tab \in Logs!Tab /\ DOMAIN l.rows = Logs!Tab
  /\ l.filter \in [Logs!Tab -> LogFilter] /\ l.page \in [Logs!Tab -> Nat] /\ l.total \in [Logs!Tab -> Nat]
  /\ l.clear # "closed" => l.tab = "requests"

LogsTyped == IsLogs(logs) /\ loads \in Seq(LoadType)

Wanted == Logs!Query(logs, logs.tab)

\* The k-th load under way, or the last answer if k is 0, was for what the list is to
\* show, and so is all that was sent after it.
Decides(k) ==
  /\ \A i \in DOMAIN loads : i > k => loads[i].tab = logs.tab /\ loads[i].query = Wanted
  /\ k = 0 => logs.error \/ logs.rows[logs.tab] = Wanted
  /\ k # 0 => loads[k].tab = logs.tab /\ loads[k].query = Wanted /\ ~loads[k].quiet

LogsSound ==
  /\ LogsTyped
  /\ ~overtaken /\ ~logs.timer => \E k \in 0..Len(loads) : Decides(k)

-----------------------------------------------------------------------------
(* The models: between saves the rows are the server's *)

IsRead(c) ==
  /\ DOMAIN c = {"kind", "at", "here", "shared", "data", "clean"}
  /\ c.kind \in {"get", "refresh"} /\ c.clean \in BOOLEAN

IsSaving(c) ==
  /\ DOMAIN c = {"kind", "at", "here", "row", "value", "rows"}
  /\ c.kind \in {"max", "effort"} /\ c.row \in Row /\ c.at \in {"sent", "served"}

ModelsTyped ==
  /\ DOMAIN settings = Models!Key
  /\ DOMAIN models = {"open", "loading", "busy", "rows", "savingKey"}
  /\ \A c \in modelCalls : IsRead(c) \/ IsSaving(c)

\* A clean read has what the server holds, and no save beside it.
CleanReads ==
  \A c \in modelCalls : ~Models!IsSave(c) /\ c.clean =>
    Models!Saves = {} /\ (c.at = "served" => c.data = Models!Catalog)

\* A save that the page waits for was begun on this page.
SavesAreHere == \A c \in Models!Saves : c.here => models.open

\* The save under way carries the rows that are shown, which were the server's.
SaveCarries(c) ==
  /\ c.here /\ c.rows = models.rows
  /\ c.at = "sent" => models.rows = Models!Catalog
  /\ c.at = "served" => Models!Applied(c) = Models!Catalog

RowsFollow ==
  models.open /\ ~crossed /\ (models.rows # None \/ \E c \in Models!Saves : c.here) =>
    \/ Models!Saves = {} /\ models.rows = Models!Catalog
    \/ \E c \in modelCalls : Models!Saves = {c} /\ SaveCarries(c)

ModelsSound == ModelsTyped /\ CleanReads /\ SavesAreHere /\ RowsFollow

-----------------------------------------------------------------------------
(* The tab: key, summary and page *)

SessionFields == {"key", "overview", "loading", "error", "page", "busy", "rotating", "secret"}

TabTyped ==
  /\ serverKey \in Nat
  /\ DOMAIN session = SessionFields
  /\ \A c \in summaries : DOMAIN c = {"id", "key", "form", "verdict"} /\ c.key # None
  /\ \A r \in rotations : /\ DOMAIN r = {"key", "mounted", "verdict", "secret"}
                          /\ r.verdict = "ok" => r.secret # None

\* Who waits waits for an answer, and the console is for those with a key.
TabWaits ==
  /\ session.loading => summaries # {}
  /\ session.busy => \E c \in summaries : c.form
  /\ session.page \in Tab!Console => session.key # None

\* What the tab shows is its key's, or on its way.
TabFits ==
  ~mixed =>
    /\ session.key = None => session.page = "login" /\ session.overview = None
    /\ session.key # None /\ session.error = None =>
         \/ session.overview = session.key /\ session.page \in Tab!Console
         \/ \E c \in summaries : c.key = session.key

TabSound == TabTyped /\ TabWaits /\ TabFits

-----------------------------------------------------------------------------
(* The accounts *)

Rows == [Account -> Accounts!AccountRow]
CallOf(what, ids) == [what : {what}, id : ids, back : Accounts!Reply \cup {None}]

\* What was read of an account is what it was at that version.
Snapshot(row, now) == row.ver <= now.ver /\ (row.ver = now.ver => row = now)

\* The row of a is one that was read, or there is none yet.
Loaded(a) == Snapshot(list[a], server[a])

\* An operation: its own call before the list, the list, rows, or an export.
Writes(op) ==
  /\ op.id \in Account /\ \E c \in op.calls : c \in CallOf("write", {op.id}) /\ op.calls = {c}
  /\ \/ op.chain = <<Accounts!Req("list", {op.id})>>
     \/ op.chain = <<Accounts!Req("list", {op.id}), Accounts!Req("row", {op.id})>> /\ Loaded(op.id)

Lists(op) ==
  /\ \E c \in op.calls : c \in CallOf("list", {op.id}) /\ op.calls = {c}
  /\ \/ op.chain = <<>>
     \/ op.id \in Account /\ op.chain = <<Accounts!Req("row", {op.id})>> /\ Loaded(op.id)

Refreshes(op) ==
  /\ \A c \in op.calls : c \in CallOf("row", Account) /\ Loaded(c.id)
  /\ \/ op.chain = <<>>
     \/ \E ids \in SUBSET Account : op.chain = <<Accounts!Req("row", ids)>> /\ \A a \in ids : Loaded(a)

Exports(op) == (\A c \in op.calls : c \in CallOf("read", Account)) /\ op.chain = <<>>

IsOp(op) ==
  /\ op \in Accounts!OperationType
  /\ op.kind \notin {"reload", "credits"} => op.id \in Account
  /\ Writes(op) \/ Lists(op) \/ Refreshes(op) \/ Exports(op)

AccountsTyped ==
  /\ server \in Rows /\ list \in Rows
  /\ masks \in [Account -> [on : BOOLEAN \cup {None}, fields : BOOLEAN]]
  /\ DOMAIN ops = Operation
  /\ \A o \in Operation : ops[o] # None => IsOp(ops[o])
  /\ heard \in [Account -> Nat]
  /\ DOMAIN view = {"filter", "page", "loading"} /\ view.page \in Nat \ {0}

\* What the page has, and what is on its way to it, the server had.
SnapshotsHold ==
  /\ \A a \in Account : heard[a] <= server[a].ver /\ list[a].ver <= server[a].ver
  /\ \A a \in Account : list[a].there => Loaded(a)
  /\ \A o \in Operation : ops[o] # None =>
       \A c \in ops[o].calls : c.back # None =>
         /\ c.back.ok => c.back.rows # None
         /\ c.back.rows # None => \A a \in Account : Snapshot(c.back.rows[a], server[a])

\* An answer on its way that brings account a as it is, or will be counted as missed.
Brings(id, c, a) ==
  \/ /\ c.what = "list" /\ id \in {None, a}
     /\ c.back = None \/ ~c.back.ok \/ c.back.rows[a].ver = server[a].ver
  \/ c.what = "write" /\ c.id = a /\ c.back # None /\ c.back.rows # None
  \/ /\ c.what = "row" /\ c.id = a /\ c.back # None /\ c.back.rows # None
     /\ ~c.back.ok \/ c.back.rows[a].ver = server[a].ver

Coming(a) ==
  \E o \in Operation : ops[o] # None /\ \E c \in ops[o].calls : Brings(ops[o].id, c, a)

\* The page heard of a as it is, and has it so, or has an older row.
Heard(a) == heard[a] = server[a].ver /\ (list[a] = server[a] \/ list[a].ver < heard[a])

AccountsCome == \A a \in Account : a \in missed \/ Coming(a) \/ Heard(a)

\* What is shown in place of a row is an operation's that has not ended.
Held(a, kind) == \E o \in Operation : ops[o] # None /\ ops[o].kind = kind /\ ops[o].id = a

MasksAreHeld ==
  \A a \in Account : /\ masks[a].on # None => Held(a, "toggle")
                     /\ masks[a].fields => Held(a, "settings")

PageExists ==
  view.page <= Accounts!PageTotal(Cardinality(Accounts!Matching(list, masks, view.filter)))

AccountsSound == AccountsTyped /\ SnapshotsHold /\ AccountsCome /\ MasksAreHeld /\ PageExists

ListsSound ==
  /\ part = "statistics" => StatsSound
  /\ part = "logs" => LogsSound
  /\ part = "models" => ModelsSound
  /\ part = "signin" => TabSound
  /\ part = "accounts" => AccountsSound

\* BEGIN PROOFS
-----------------------------------------------------------------------------
(* Proofs: the statistics *)

\* Requests that are out of date are not the current ones.
LEMMA OutdatedLoads ==
  ASSUME StatsTyped, NEW l \in Stats!Outdated(statLoads)
  PROVE  DOMAIN l = {"query", "quiet", "current"} /\ ~l.current
<1>1. PICK k \in statLoads : l = [k EXCEPT !.current = FALSE]
  BY DEF Stats!Outdated
<1>2. DOMAIN k = {"query", "quiet", "current"}
  BY DEF StatsTyped
<1> QED
  BY <1>1, <1>2

\* A page that mounts loads what it asks for.
LEMMA StatsStart == ASSUME Stats!StatsInit PROVE StatsSound
<1>1. PICK p, k : figures = [page |-> p, window |-> "today", range |-> None, key |-> k, loading |-> TRUE,
                             shown |-> None, error |-> FALSE, paused |-> FALSE]
  BY DEF Stats!StatsInit
<1>2. PICK l : l = [query |-> Stats!Query(figures), quiet |-> FALSE, current |-> TRUE]
  OBVIOUS
<1>3. statLoads = {l}
  BY <1>2 DEF Stats!StatsInit
<1>4. DOMAIN l = {"query", "quiet", "current"} /\ l.query = Stats!Query(figures) /\ ~l.quiet /\ l.current
  BY <1>2
<1>5. DOMAIN figures = {"page", "window", "range", "key", "loading", "shown", "error", "paused"}
  BY <1>1
<1> QED
  BY <1>3, <1>4, <1>5 DEF StatsSound, StatsTyped, CurrentAsks, FiguresCome

\* A load takes the place of those before it; one in the background does so only to
\* what was shown, or is noted.
LEMMA LoadSound ==
  ASSUME StatsSound, NEW f, DOMAIN f = DOMAIN figures, NEW quiet \in BOOLEAN, Stats!Load(f, quiet),
         quiet => f = figures /\ masked' = (masked \/ \E l \in statLoads : l.current /\ ~l.quiet)
  PROVE  StatsSound'
<1>1. /\ {"page", "window", "range", "key", "loading", "shown", "error", "paused"} = DOMAIN f
      /\ \A l \in statLoads : {"query", "quiet", "current"} = DOMAIN l
  BY DEF StatsSound, StatsTyped
<1>2. CASE Stats!Query(f) = None
  <2>1. figures' = [f EXCEPT !.loading = FALSE]
    BY <1>2 DEF Stats!Load
  <2>2. Stats!Query(figures') = None
    BY <1>1, <1>2, <2>1 DEF Stats!Query
  <2>3. \A l \in statLoads' : {"query", "quiet", "current"} = DOMAIN l
    BY <1>1, <1>2, OutdatedLoads DEF Stats!Load, StatsSound
  <2> QED
    BY <1>1, <2>1, <2>2, <2>3 DEF StatsSound, StatsTyped, CurrentAsks, FiguresCome
<1>3. CASE Stats!Query(f) # None
  <2>1. PICK new : new = [query |-> Stats!Query(f), quiet |-> quiet, current |-> TRUE]
    OBVIOUS
  <2>2. figures' = f /\ statLoads' = Stats!Outdated(statLoads) \cup {new}
    BY <1>3, <2>1 DEF Stats!Load
  <2>3. /\ DOMAIN new = {"query", "quiet", "current"} /\ new.query = Stats!Query(f)
        /\ new.quiet = quiet /\ new.current
    BY <2>1
  <2>4. StatsTyped' /\ CurrentAsks'
    BY <1>1, <2>2, <2>3, OutdatedLoads DEF StatsSound, StatsTyped, CurrentAsks
  <2>5. FiguresCome'
    <3>1. CASE quiet
      BY <2>2, <3>1 DEF StatsSound, FiguresCome
    <3>2. CASE ~quiet
      BY <2>2, <2>3, <3>2 DEF FiguresCome
    <3> QED
      BY <3>1, <3>2
  <2> QED
    BY <2>4, <2>5 DEF StatsSound
<1> QED
  BY <1>2, <1>3

\* Every step of the statistics.
LEMMA StatsStep == ASSUME StatsSound, Stats!StatsNext PROVE StatsSound'
<1>1. /\ {"page", "window", "range", "key", "loading", "shown", "error", "paused"} = DOMAIN figures
      /\ \A l \in statLoads : {"query", "quiet", "current"} = DOMAIN l
  BY DEF StatsSound, StatsTyped
<1>2. ASSUME NEW w, Stats!ChooseWindow(w) PROVE StatsSound'
  <2>1. PICK f : f = [figures EXCEPT !.window = w, !.loading = @ \/ w # "custom" \/ figures.range # None]
    OBVIOUS
  <2>2. Stats!Load(f, FALSE)
    BY <1>2, <2>1 DEF Stats!ChooseWindow
  <2> QED
    BY <2>1, <2>2, LoadSound
<1>3. ASSUME NEW r, Stats!ChooseRange(r) PROVE StatsSound'
  <2>1. PICK f : f = [figures EXCEPT !.range = r, !.loading = @ \/ r # None]
    OBVIOUS
  <2>2. Stats!Load(f, FALSE)
    BY <1>3, <2>1 DEF Stats!ChooseRange
  <2> QED
    BY <2>1, <2>2, LoadSound
<1>4. ASSUME NEW k, Stats!ChooseKey(k) PROVE StatsSound'
  <2>1. PICK f : f = [figures EXCEPT !.key = k, !.loading = TRUE]
    OBVIOUS
  <2>2. Stats!Load(f, FALSE)
    BY <1>4, <2>1 DEF Stats!ChooseKey
  <2> QED
    BY <2>1, <2>2, LoadSound
<1>5. ASSUME NEW k, Stats!FollowKeyLink(k) PROVE StatsSound'
  <2>1. PICK f : f = [figures EXCEPT !.key = k]
    OBVIOUS
  <2>2. Stats!Load(f, FALSE)
    BY <1>5, <2>1 DEF Stats!FollowKeyLink
  <2> QED
    BY <2>1, <2>2, LoadSound
<1>6. CASE Stats!RefreshTick
  BY <1>6, LoadSound DEF Stats!RefreshTick
<1>7. CASE Stats!TogglePaused
  <2>1. figures' = [figures EXCEPT !.paused = ~@] /\ UNCHANGED <<statLoads, masked>>
    BY <1>7 DEF Stats!TogglePaused
  <2>2. /\ Stats!Query(figures') = Stats!Query(figures) /\ figures'.error = figures.error
        /\ figures'.shown = figures.shown /\ DOMAIN figures' = DOMAIN figures
    BY <1>1, <2>1 DEF Stats!Query
  <2> QED
    BY <2>1, <2>2 DEF StatsSound, StatsTyped, CurrentAsks, FiguresCome
<1>8. ASSUME NEW l \in statLoads, Stats!StatsAnswered(l) PROVE StatsSound'
  <2>1. statLoads' = statLoads \ {l}
    BY <1>8 DEF Stats!StatsAnswered
  <2>2. CASE l.current
    <3>1. figures' = [figures EXCEPT !.shown = l.query, !.error = FALSE, !.loading = FALSE]
      BY <1>8, <2>2 DEF Stats!StatsAnswered
    <3>2. /\ Stats!Query(figures') = Stats!Query(figures) /\ figures'.shown = l.query
          /\ DOMAIN figures' = DOMAIN figures
      BY <1>1, <3>1 DEF Stats!Query
    <3> QED
      BY <2>1, <2>2, <3>2 DEF StatsSound, StatsTyped, CurrentAsks, FiguresCome
  <2>3. CASE ~l.current
    <3>1. UNCHANGED <<figures, masked>>
      BY <1>8, <2>3 DEF Stats!StatsAnswered
    <3> QED
      BY <2>1, <2>3, <3>1 DEF StatsSound, StatsTyped, CurrentAsks, FiguresCome
  <2> QED
    BY <2>2, <2>3
<1>9. ASSUME NEW l \in statLoads, Stats!StatsFailed(l) PROVE StatsSound'
  <2>1. statLoads' = statLoads \ {l} /\ masked' = masked
    BY <1>9 DEF Stats!StatsFailed
  <2>2. CASE ~l.current
    <3>1. figures' = figures
      BY <1>9, <2>2 DEF Stats!StatsFailed
    <3> QED
      BY <2>1, <2>2, <3>1 DEF StatsSound, StatsTyped, CurrentAsks, FiguresCome
  <2>3. CASE l.current /\ l.quiet
    <3>1. figures' = [figures EXCEPT !.loading = FALSE]
      BY <1>9, <2>3 DEF Stats!StatsFailed
    <3>2. /\ Stats!Query(figures') = Stats!Query(figures) /\ figures'.error = figures.error
          /\ figures'.shown = figures.shown /\ DOMAIN figures' = DOMAIN figures
      BY <1>1, <3>1 DEF Stats!Query
    <3> QED
      BY <2>1, <2>3, <3>2 DEF StatsSound, StatsTyped, CurrentAsks, FiguresCome
  <2>4. CASE l.current /\ ~l.quiet
    <3>1. figures' = [figures EXCEPT !.shown = None, !.error = TRUE, !.loading = FALSE]
      BY <1>9, <2>4 DEF Stats!StatsFailed
    <3>2. /\ Stats!Query(figures') = Stats!Query(figures) /\ figures'.error
          /\ DOMAIN figures' = DOMAIN figures
      BY <1>1, <3>1 DEF Stats!Query
    <3> QED
      BY <2>1, <2>4, <3>2 DEF StatsSound, StatsTyped, CurrentAsks, FiguresCome
  <2> QED
    BY <2>2, <2>3, <2>4
<1> QED
  BY <1>2, <1>3, <1>4, <1>5, <1>6, <1>7, <1>8, <1>9 DEF Stats!StatsNext

-----------------------------------------------------------------------------
(* Proofs: the logs *)

\* An answer leaves the requests: those behind it move up.
LEMMA Removed ==
  ASSUME NEW s \in Seq(LoadType), NEW i \in 1..Len(s)
  PROVE  /\ Logs!RemoveAt(s, i) \in Seq(LoadType) /\ Len(Logs!RemoveAt(s, i)) = Len(s) - 1
         /\ i = 1 => \A j \in 1..Len(s) - 1 : Logs!RemoveAt(s, i)[j] = s[j + 1]
<1>1. PICK a, b : a = SubSeq(s, 1, i - 1) /\ b = SubSeq(s, i + 1, Len(s))
  OBVIOUS
<1>2. Logs!RemoveAt(s, i) = a \o b
  BY <1>1 DEF Logs!RemoveAt
<1>3. a \in Seq(LoadType) /\ Len(a) = i - 1
  BY <1>1
<1>4. /\ b \in Seq(LoadType) /\ Len(b) = Len(s) - i
      /\ \A j \in 1..Len(s) - i : b[j] = s[i + j]
  BY <1>1
<1>5. Len(s) \in Nat
  BY LenProperties
<1>6. /\ a \o b \in Seq(LoadType) /\ Len(a \o b) = Len(a) + Len(b)
      /\ \A j \in 1..Len(a) + Len(b) : (a \o b)[j] = IF j <= Len(a) THEN a[j] ELSE b[j - Len(a)]
  <2>1. a \in Seq(LoadType) /\ b \in Seq(LoadType)
    BY <1>3, <1>4
  <2> QED
    BY <2>1, ConcatProperties
<1>7. Len(a \o b) = Len(s) - 1
  BY <1>3, <1>4, <1>5, <1>6
<1>8. ASSUME i = 1, NEW j \in 1..Len(s) - 1 PROVE (a \o b)[j] = s[j + 1]
  <2>1. Len(a) = 0 /\ Len(b) = Len(s) - 1 /\ b[j] = s[j + 1]
    BY <1>3, <1>4, <1>5, <1>8
  <2>2. (a \o b)[j] = b[j - 0]
    BY <1>5, <1>6, <1>8, <2>1
  <2> QED
    BY <1>5, <1>8, <2>1, <2>2
<1> QED
  BY <1>2, <1>6, <1>7, <1>8

\* A render clamps pages, and schedules a load unless every query stays.
LEMMA LogsRendered ==
  ASSUME IsLogs(logs), NEW new, IsLogs(new), Logs!To(new)
  PROVE  /\ IsLogs(logs') /\ logs'.rows = new.rows /\ logs'.error = new.error
         /\ ~logs'.timer => /\ ~new.timer /\ logs'.tab = logs.tab /\ new.tab = logs.tab
                            /\ Logs!Query(logs', logs.tab) = Logs!Query(logs, logs.tab)
<1>1. PICK pg : pg = [t \in Logs!Tab |-> IF new.filter[t] # logs.filter[t] THEN 1
                                         ELSE IF new.page[t] > Logs!PageCount(new, t)
                                              THEN Logs!PageCount(new, t) ELSE new.page[t]]
  OBVIOUS
<1>2. PICK next : next = [new EXCEPT !.page = pg]
  OBVIOUS
<1>3. logs' = IF next.tab # logs.tab \/ \E t \in Logs!Tab : Logs!Query(next, t) # Logs!Query(logs, t)
              THEN [next EXCEPT !.timer = TRUE, !.loading = TRUE] ELSE next
  BY <1>1, <1>2 DEF Logs!To, Logs!Render
<1>4. pg \in [Logs!Tab -> Nat]
  <2>1. \A t \in Logs!Tab : Logs!PageCount(new, t) \in Nat
    BY DEF Logs!PageCount, IsLogs
  <2> QED
    BY <1>1, <2>1 DEF IsLogs
<1>5. /\ DOMAIN next = LogFields /\ next.tab = new.tab /\ next.rows = new.rows /\ next.filter = new.filter
      /\ next.page = pg /\ next.total = new.total /\ next.clear = new.clear /\ next.error = new.error
      /\ next.timer = new.timer
  BY <1>2 DEF IsLogs, LogFields
<1>6. IsLogs(next)
  BY <1>4, <1>5 DEF IsLogs
<1>7. CASE next.tab # logs.tab \/ \E t \in Logs!Tab : Logs!Query(next, t) # Logs!Query(logs, t)
  <2>1. logs' = [next EXCEPT !.timer = TRUE, !.loading = TRUE]
    BY <1>3, <1>7
  <2>2. /\ DOMAIN logs' = LogFields /\ logs'.tab = next.tab /\ logs'.rows = next.rows
        /\ logs'.filter = next.filter /\ logs'.page = next.page /\ logs'.total = next.total
        /\ logs'.clear = next.clear /\ logs'.error = next.error /\ logs'.timer
    BY <1>5, <2>1 DEF LogFields
  <2> QED
    BY <1>5, <1>6, <2>2 DEF IsLogs
<1>8. CASE next.tab = logs.tab /\ \A t \in Logs!Tab : Logs!Query(next, t) = Logs!Query(logs, t)
  <2>1. logs' = next
    BY <1>3, <1>8
  <2> QED
    BY <1>5, <1>6, <1>8, <2>1 DEF IsLogs
<1> QED
  BY <1>7, <1>8

\* Another query of the operator's schedules a load, which decides.
LEMMA Turned ==
  ASSUME LogsSound, NEW new, IsLogs(new), Logs!To(new), new.rows = logs.rows, new.error = logs.error,
         new.timer = logs.timer, UNCHANGED <<loads, overtaken>>
  PROVE  LogsSound'
<1>1. IsLogs(logs) /\ loads \in Seq(LoadType)
  BY DEF LogsSound, LogsTyped
<1>2. /\ IsLogs(logs') /\ logs'.rows = logs.rows /\ logs'.error = logs.error
      /\ ~logs'.timer => /\ ~logs.timer /\ logs'.tab = logs.tab
                         /\ Logs!Query(logs', logs.tab) = Logs!Query(logs, logs.tab)
  BY <1>1, LogsRendered
<1>3. LogsTyped'
  BY <1>1, <1>2 DEF LogsTyped
<1>4. ASSUME ~overtaken', ~logs'.timer PROVE \E k \in 0..Len(loads') : Decides(k)'
  <2>1. PICK k \in 0..Len(loads) : Decides(k)
    BY <1>2, <1>4 DEF LogsSound
  <2> QED
    BY <1>2, <1>4, <2>1 DEF Decides, Wanted
<1> QED
  BY <1>3, <1>4 DEF LogsSound

\* What only touches the dialog or notes an error.
LEMMA Noted ==
  ASSUME LogsSound, IsLogs(logs'), logs'.tab = logs.tab, logs'.filter = logs.filter, logs'.page = logs.page,
         logs'.rows = logs.rows, logs'.timer = logs.timer, logs.error => logs'.error,
         UNCHANGED <<loads, overtaken>>
  PROVE  LogsSound'
<1>1. LogsTyped'
  BY DEF LogsSound, LogsTyped
<1>2. Wanted' = Wanted
  BY DEF Wanted, Logs!Query
<1>3. ASSUME ~overtaken', ~logs'.timer PROVE \E k \in 0..Len(loads') : Decides(k)'
  <2>1. PICK k \in 0..Len(loads) : Decides(k)
    BY <1>3 DEF LogsSound
  <2> QED
    BY <1>2, <2>1 DEF Decides
<1> QED
  BY <1>1, <1>3 DEF LogsSound

\* A load sent in the foreground decides.
LEMMA SentAhead ==
  ASSUME LogsSound, loads' = Append(loads, Logs!Load(logs.tab, FALSE)), overtaken' = overtaken,
         IsLogs(logs'), logs'.tab = logs.tab, logs'.filter = logs.filter, logs'.page = logs.page
  PROVE  LogsSound'
<1>1. IsLogs(logs) /\ loads \in Seq(LoadType)
  BY DEF LogsSound, LogsTyped
<1>2. PICK l : l = Logs!Load(logs.tab, FALSE)
  OBVIOUS
<1>3. l \in LoadType /\ l.tab = logs.tab /\ l.query = Wanted /\ ~l.quiet
  BY <1>1, <1>2 DEF Logs!Load, Logs!Query, Wanted, LoadType, IsLogs
<1>4. /\ loads' \in Seq(LoadType) /\ Len(loads') = Len(loads) + 1 /\ Len(loads) \in Nat
      /\ loads'[Len(loads) + 1] = l
  <2>1. loads' = Append(loads, l)
    BY <1>2
  <2>2. l \in LoadType /\ loads \in Seq(LoadType)
    BY <1>1, <1>3
  <2>3. /\ Append(loads, l) \in Seq(LoadType) /\ Len(Append(loads, l)) = Len(loads) + 1
        /\ Append(loads, l)[Len(loads) + 1] = l
    BY <2>2, AppendProperties
  <2>4. Len(loads) \in Nat
    BY <2>2, LenProperties
  <2> QED
    BY <2>1, <2>3, <2>4
<1>5. Wanted' = Wanted
  BY DEF Wanted, Logs!Query
<1> PICK n : n = Len(loads) + 1
  OBVIOUS
<1>6. Decides(n)'
  <2>1. DOMAIN loads' = 1..Len(loads')
    BY <1>4, LenProperties
  <2>2. /\ \A j \in DOMAIN loads' : ~(j > n)
        /\ n # 0
    BY <1>4, <2>1
  <2> QED
    BY <1>3, <1>4, <1>5, <2>2 DEF Decides
<1>7. n \in 0..Len(loads')
  BY <1>4
<1> QED
  BY <1>4, <1>6, <1>7 DEF LogsSound, LogsTyped

\* An answer or a failure that came in turn leaves the same request to decide, or
\* what was shown or said.
LEMMA Arrived ==
  ASSUME LogsSound, NEW i \in 1..Len(loads), Logs!Arrived(i), IsLogs(logs'),
         ~logs'.timer => /\ ~logs.timer /\ logs'.tab = logs.tab
                         /\ Logs!Query(logs', logs.tab) = Logs!Query(logs, logs.tab),
         \/ loads[i].tab = logs.tab => logs'.rows[logs.tab] = loads[i].query
         \/ logs'.rows = logs.rows /\ (logs.error \/ ~loads[i].quiet => logs'.error)
  PROVE  LogsSound'
<1>1. IsLogs(logs) /\ loads \in Seq(LoadType)
  BY DEF LogsSound, LogsTyped
<1>2. /\ loads' \in Seq(LoadType) /\ Len(loads') = Len(loads) - 1
      /\ i = 1 => \A j \in 1..Len(loads) - 1 : loads'[j] = loads[j + 1]
      /\ overtaken' = (overtaken \/ i > 1)
  BY <1>1, Removed DEF Logs!Arrived
<1>3. ASSUME ~overtaken', ~logs'.timer PROVE \E k \in 0..Len(loads') : Decides(k)'
  <2>01. Len(loads) \in Nat
    BY <1>1, LenProperties
  <2>02. ~(overtaken \/ i > 1)
    BY <1>2, <1>3, Zenon
  <2>1. i = 1 /\ ~overtaken
    BY <2>01, <2>02
  <2>2. PICK k \in 0..Len(loads) : Decides(k)
    BY <1>3, <2>1 DEF LogsSound
  <2>3. Wanted' = Wanted /\ logs'.tab = logs.tab
    BY <1>3 DEF Wanted
  <2>4. Len(loads) \in Nat /\ DOMAIN loads = 1..Len(loads) /\ DOMAIN loads' = 1..Len(loads')
    BY <1>1, <1>2
  <2>5. \A j \in DOMAIN loads' : j + 1 \in DOMAIN loads /\ loads'[j] = loads[j + 1]
    BY <1>2, <2>1, <2>4
  <2>6. CASE k > 1
    <3>1. k - 1 \in 0..Len(loads') /\ k - 1 \in DOMAIN loads' /\ loads'[k - 1] = loads[k]
      BY <1>2, <2>4, <2>5, <2>6
    <3>2. \A j \in DOMAIN loads' : j > k - 1 => loads'[j].tab = logs.tab /\ loads'[j].query = Wanted
      BY <2>2, <2>4, <2>5 DEF Decides
    <3>3. loads[k].tab = logs.tab /\ loads[k].query = Wanted /\ ~loads[k].quiet
      BY <2>2, <2>6 DEF Decides
    <3>4. Decides(k - 1)'
      BY <2>3, <2>6, <3>1, <3>2, <3>3 DEF Decides
    <3> QED
      BY <3>1, <3>4
  <2>7. CASE k \in {0, 1}
    <3>1. loads[1].tab = logs.tab /\ loads[1].query = Wanted
      BY <2>1, <2>2, <2>4, <2>7 DEF Decides
    <3>2. k = 0 => logs.error \/ logs.rows[logs.tab] = Wanted
      BY <2>2 DEF Decides
    <3>3. k = 1 => ~loads[1].quiet
      BY <2>2 DEF Decides
    <3>4. logs'.error \/ logs'.rows[logs.tab] = Wanted
      BY <2>1, <2>7, <3>1, <3>2, <3>3
    <3>5. \A j \in DOMAIN loads' : j > 0 => loads'[j].tab = logs.tab /\ loads'[j].query = Wanted
      BY <2>2, <2>4, <2>5, <2>7 DEF Decides
    <3>6. Decides(0)'
      BY <2>3, <3>4, <3>5 DEF Decides
    <3>7. Len(loads') \in Nat
      BY <1>2
    <3> QED
      BY <3>6, <3>7
  <2> QED
    BY <2>6, <2>7
<1> QED
  BY <1>2, <1>3 DEF LogsSound, LogsTyped

\* The page mounts with a load scheduled.
LEMMA LogsStart == ASSUME Logs!LogsInit PROVE LogsSound
<1>1. PICK f \in LogFilter :
        logs = [tab |-> "requests", filter |-> [t \in Logs!Tab |-> f], page |-> [t \in Logs!Tab |-> 1],
                total |-> [t \in Logs!Tab |-> 0], rows |-> [t \in Logs!Tab |-> None],
                loading |-> TRUE, booted |-> FALSE, error |-> FALSE, timer |-> TRUE, clear |-> "closed"]
  BY DEF Logs!LogsInit
<1>2. /\ DOMAIN logs = LogFields /\ logs.tab = "requests" /\ logs.filter = [t \in Logs!Tab |-> f]
      /\ logs.page = [t \in Logs!Tab |-> 1] /\ logs.total = [t \in Logs!Tab |-> 0]
      /\ logs.rows = [t \in Logs!Tab |-> None] /\ logs.timer /\ logs.clear = "closed"
  BY <1>1 DEF LogFields
<1>3. IsLogs(logs)
  BY <1>2 DEF IsLogs, Logs!Tab
<1>4. loads \in Seq(LoadType)
  BY DEF Logs!LogsInit
<1> QED
  BY <1>2, <1>3, <1>4 DEF LogsSound, LogsTyped

\* What the operator chooses.
LEMMA ChooseSteps ==
  ASSUME LogsSound,
         \/ \E t \in Logs!Tab : Logs!ChooseLogsTab(t) \/ \E f \in LogFilter : Logs!ChooseFilter(t, f)
         \/ \E p \in 1..MaxPages : Logs!ChoosePage(p)
  PROVE  LogsSound'
<1>1. IsLogs(logs) /\ MaxPages \in Nat
  BY ConsoleAssumption DEF ConsoleAssumption, Logs!LogsAssumption, LogsSound, LogsTyped
<1>2. ASSUME NEW t \in Logs!Tab, Logs!ChooseLogsTab(t) PROVE LogsSound'
  <2>1. PICK new : new = [logs EXCEPT !.tab = t]
    OBVIOUS
  <2>2. /\ DOMAIN new = LogFields /\ new.tab = t /\ new.rows = logs.rows /\ new.filter = logs.filter
        /\ new.page = logs.page /\ new.total = logs.total /\ new.clear = logs.clear
        /\ new.error = logs.error /\ new.timer = logs.timer
    BY <1>1, <2>1 DEF IsLogs, LogFields
  <2>3. logs.clear = "closed" /\ Logs!To(new) /\ UNCHANGED <<loads, overtaken>>
    BY <1>2, <2>1 DEF Logs!ChooseLogsTab, Logs!Ready, Logs!OnlyLogs
  <2>4. IsLogs(new)
    BY <1>1, <2>2, <2>3 DEF IsLogs
  <2> QED
    BY <2>2, <2>3, <2>4, Turned
<1>3. ASSUME NEW t \in Logs!Tab, NEW f \in LogFilter, Logs!ChooseFilter(t, f) PROVE LogsSound'
  <2>1. PICK new : new = [logs EXCEPT !.filter = [logs.filter EXCEPT ![t] = f]]
    OBVIOUS
  <2>2. /\ DOMAIN new = LogFields /\ new.tab = logs.tab /\ new.rows = logs.rows
        /\ new.filter = [logs.filter EXCEPT ![t] = f]
        /\ new.page = logs.page /\ new.total = logs.total /\ new.clear = logs.clear
        /\ new.error = logs.error /\ new.timer = logs.timer
    BY <1>1, <2>1 DEF IsLogs, LogFields
  <2>3. [logs EXCEPT !.filter[t] = f] = new
    BY <1>1, <2>1 DEF IsLogs, LogFields
  <2>4. Logs!To(new) /\ UNCHANGED <<loads, overtaken>>
    BY <1>3, <2>3 DEF Logs!ChooseFilter, Logs!OnlyLogs
  <2>5. IsLogs(new)
    BY <1>1, <2>2 DEF IsLogs
  <2> QED
    BY <2>2, <2>4, <2>5, Turned
<1>4. ASSUME NEW p \in 1..MaxPages, Logs!ChoosePage(p) PROVE LogsSound'
  <2>1. PICK new : new = [logs EXCEPT !.page = [logs.page EXCEPT ![logs.tab] = p]]
    OBVIOUS
  <2>2. /\ DOMAIN new = LogFields /\ new.tab = logs.tab /\ new.rows = logs.rows
        /\ new.page = [logs.page EXCEPT ![logs.tab] = p]
        /\ new.filter = logs.filter /\ new.total = logs.total /\ new.clear = logs.clear
        /\ new.error = logs.error /\ new.timer = logs.timer
    BY <1>1, <2>1 DEF IsLogs, LogFields
  <2>3. [logs EXCEPT !.page[logs.tab] = p] = new
    BY <1>1, <2>1 DEF IsLogs, LogFields
  <2>4. Logs!To(new) /\ UNCHANGED <<loads, overtaken>>
    BY <1>4, <2>3 DEF Logs!ChoosePage, Logs!OnlyLogs
  <2>5. IsLogs(new)
    BY <1>1, <1>4, <2>2 DEF IsLogs
  <2> QED
    BY <2>2, <2>4, <2>5, Turned
<1> QED
  BY <1>2, <1>3, <1>4

\* What is sent, and the dialog that clears.
LEMMA SendSteps ==
  ASSUME LogsSound,
         \/ Logs!LoadTimer \/ Logs!RefreshLogs \/ Logs!PollRuntime
         \/ Logs!OpenClear \/ Logs!CancelClear \/ Logs!ConfirmClear \/ Logs!Cleared
  PROVE  LogsSound'
<1>1. IsLogs(logs) /\ loads \in Seq(LoadType) /\ DOMAIN logs = LogFields
  BY DEF LogsSound, LogsTyped, IsLogs
<1>2. CASE Logs!LoadTimer
  <2>1. /\ logs' = [logs EXCEPT !.timer = FALSE] /\ overtaken' = overtaken
        /\ loads' = Append(loads, Logs!Load(logs.tab, FALSE))
    BY <1>2 DEF Logs!LoadTimer, Logs!SendLoad
  <2>2. /\ DOMAIN logs' = LogFields /\ logs'.tab = logs.tab /\ logs'.rows = logs.rows
        /\ logs'.filter = logs.filter /\ logs'.page = logs.page /\ logs'.total = logs.total
        /\ logs'.clear = logs.clear
    BY <1>1, <2>1 DEF LogFields
  <2>3. IsLogs(logs')
    BY <1>1, <2>2 DEF IsLogs
  <2> QED
    BY <2>1, <2>2, <2>3, SentAhead
<1>3. CASE Logs!RefreshLogs
  <2>1. /\ logs' = [logs EXCEPT !.loading = TRUE] /\ overtaken' = overtaken
        /\ loads' = Append(loads, Logs!Load(logs.tab, FALSE))
    BY <1>3 DEF Logs!RefreshLogs, Logs!SendLoad
  <2>2. /\ DOMAIN logs' = LogFields /\ logs'.tab = logs.tab /\ logs'.rows = logs.rows
        /\ logs'.filter = logs.filter /\ logs'.page = logs.page /\ logs'.total = logs.total
        /\ logs'.clear = logs.clear
    BY <1>1, <2>1 DEF LogFields
  <2>3. IsLogs(logs')
    BY <1>1, <2>2 DEF IsLogs
  <2> QED
    BY <2>1, <2>2, <2>3, SentAhead
<1>4. CASE Logs!PollRuntime
  <2>1. PICK l : l = Logs!Load("runtime", TRUE)
    OBVIOUS
  <2>2. logs.tab = "runtime" /\ loads' = Append(loads, l) /\ UNCHANGED <<logs, overtaken>>
    BY <1>4, <2>1 DEF Logs!PollRuntime, Logs!SendLoad
  <2>3. l \in LoadType /\ l.tab = logs.tab /\ l.query = Wanted
    BY <1>1, <2>1, <2>2 DEF Logs!Load, Logs!Query, Wanted, LoadType, IsLogs
  <2>4. /\ loads' \in Seq(LoadType) /\ Len(loads') = Len(loads) + 1 /\ Len(loads) \in Nat
        /\ \A j \in 1..Len(loads) : loads'[j] = loads[j]
        /\ loads'[Len(loads) + 1] = l
    BY <1>1, <2>2, <2>3
  <2>5. ASSUME ~overtaken', ~logs'.timer PROVE \E k \in 0..Len(loads') : Decides(k)'
    <3>1. PICK k \in 0..Len(loads) : Decides(k)
      BY <2>2, <2>5 DEF LogsSound
    <3>2. \A j \in DOMAIN loads' : j > k => loads'[j].tab = logs.tab /\ loads'[j].query = Wanted
      <4>1. SUFFICES ASSUME NEW j \in 1..Len(loads) + 1, j > k
                     PROVE  loads'[j].tab = logs.tab /\ loads'[j].query = Wanted
        BY <2>4
      <4>2. CASE j = Len(loads) + 1
        BY <2>3, <2>4, <4>2
      <4>3. CASE j \in 1..Len(loads)
        BY <1>1, <2>4, <3>1, <4>1, <4>3 DEF Decides
      <4> QED
        BY <2>4, <4>2, <4>3
    <3>3. k # 0 => loads'[k] = loads[k]
      BY <2>4
    <3>4. Wanted' = Wanted /\ logs' = logs
      BY <2>2 DEF Wanted
    <3>5. Decides(k)'
      BY <3>1, <3>2, <3>3, <3>4 DEF Decides
    <3>6. k \in 0..Len(loads')
      BY <2>4
    <3> QED
      BY <3>5, <3>6
  <2> QED
    BY <1>1, <2>2, <2>4, <2>5 DEF LogsSound, LogsTyped
<1>5. ASSUME NEW c, NEW e, logs' = [logs EXCEPT !.clear = c, !.error = e], UNCHANGED <<loads, overtaken>>,
             c # "closed" => logs.tab = "requests", logs.error => e
      PROVE  LogsSound'
  <2>1. /\ DOMAIN logs' = LogFields /\ logs'.tab = logs.tab /\ logs'.rows = logs.rows
        /\ logs'.filter = logs.filter /\ logs'.page = logs.page /\ logs'.total = logs.total
        /\ logs'.clear = c /\ logs'.timer = logs.timer /\ logs'.error = e
    BY <1>1, <1>5 DEF LogFields
  <2>2. IsLogs(logs')
    BY <1>1, <1>5, <2>1 DEF IsLogs
  <2> QED
    BY <1>5, <2>1, <2>2, Noted
<1>6. ASSUME NEW c, logs' = [logs EXCEPT !.clear = c] PROVE logs' = [logs EXCEPT !.clear = c, !.error = logs.error]
  BY <1>1, <1>6 DEF LogFields
<1>7. CASE Logs!OpenClear \/ Logs!CancelClear \/ Logs!ConfirmClear
  <2>1. PICK c : /\ logs' = [logs EXCEPT !.clear = c] /\ UNCHANGED <<loads, overtaken>>
                 /\ c # "closed" => logs.tab = "requests" \/ logs.clear = "open"
    BY <1>7 DEF Logs!OpenClear, Logs!CancelClear, Logs!ConfirmClear, Logs!OnlyLogs
  <2>2. c # "closed" => logs.tab = "requests"
    BY <1>1, <2>1 DEF IsLogs
  <2> QED
    BY <1>5, <1>6, <2>1, <2>2
<1>8. CASE Logs!Cleared
  <2>1. logs.tab = "requests" /\ logs.clear = "busy" /\ overtaken' = overtaken
    BY <1>1, <1>8 DEF IsLogs, Logs!Cleared
  <2>2. CASE logs' = [logs EXCEPT !.clear = "open", !.error = TRUE] /\ loads' = loads
    BY <1>5, <2>1, <2>2
  <2>3. CASE /\ logs' = [logs EXCEPT !.clear = "closed", !.loading = TRUE]
             /\ loads' = Append(loads, Logs!Load("requests", FALSE))
    <3>1. /\ DOMAIN logs' = LogFields /\ logs'.tab = logs.tab /\ logs'.rows = logs.rows
          /\ logs'.filter = logs.filter /\ logs'.page = logs.page /\ logs'.total = logs.total
          /\ logs'.clear = "closed"
      BY <1>1, <2>3 DEF LogFields
    <3>2. IsLogs(logs')
      BY <1>1, <3>1 DEF IsLogs
    <3> QED
      BY <2>1, <2>3, <3>1, <3>2, SentAhead
  <2> QED
    BY <1>8, <2>2, <2>3 DEF Logs!Cleared
<1> QED
  BY <1>2, <1>3, <1>4, <1>7, <1>8

\* What is answered.
LEMMA AnswerSteps ==
  ASSUME LogsSound, NEW i, Logs!LoadAnswered(i) \/ Logs!LoadFailed(i)
  PROVE  LogsSound'
<1>1. /\ IsLogs(logs) /\ loads \in Seq(LoadType) /\ DOMAIN logs = LogFields /\ MaxPages \in Nat
      /\ DOMAIN logs.rows = Logs!Tab
  BY ConsoleAssumption DEF ConsoleAssumption, Logs!LogsAssumption, LogsSound, LogsTyped, IsLogs
<1>2. i \in 1..Len(loads) /\ Logs!Arrived(i)
  <2>1. DOMAIN loads = 1..Len(loads)
    BY <1>1, LenProperties
  <2> QED
    BY <2>1 DEF Logs!LoadAnswered, Logs!LoadFailed
<1>3. PICK l : l = loads[i]
  OBVIOUS
<1>4. l.tab \in Logs!Tab /\ l.quiet \in BOOLEAN
  <2>1. l \in LoadType
    BY <1>1, <1>2, <1>3, ElementOfSeq
  <2> QED
    BY <2>1 DEF LoadType
<1>5. ASSUME NEW d, DOMAIN d = LogFields
      PROVE  /\ DOMAIN Logs!Done(l, d) = LogFields /\ Logs!Done(l, d).tab = d.tab
             /\ Logs!Done(l, d).rows = d.rows /\ Logs!Done(l, d).filter = d.filter
             /\ Logs!Done(l, d).page = d.page /\ Logs!Done(l, d).total = d.total
             /\ Logs!Done(l, d).clear = d.clear /\ Logs!Done(l, d).error = d.error
             /\ Logs!Done(l, d).timer = d.timer
  BY <1>5 DEF Logs!Done, LogFields
<1>6. CASE Logs!LoadAnswered(i)
  <2>1. PICK total \in 0..MaxPages :
          Logs!To(Logs!Done(l, [logs EXCEPT !.rows[l.tab] = l.query, !.total[l.tab] = total, !.error = FALSE]))
    BY <1>3, <1>6 DEF Logs!LoadAnswered
  <2>2. PICK rs, ts : rs = [logs.rows EXCEPT ![l.tab] = l.query] /\ ts = [logs.total EXCEPT ![l.tab] = total]
    OBVIOUS
  <2>3. PICK d : d = [logs EXCEPT !.rows = rs, !.total = ts, !.error = FALSE]
    OBVIOUS
  <2>4. [logs EXCEPT !.rows[l.tab] = l.query, !.total[l.tab] = total, !.error = FALSE] = d
    BY <1>1, <2>2, <2>3 DEF LogFields
  <2>5. /\ DOMAIN d = LogFields /\ d.tab = logs.tab /\ d.rows = rs /\ d.filter = logs.filter
        /\ d.page = logs.page /\ d.total = ts /\ d.clear = logs.clear /\ ~d.error /\ d.timer = logs.timer
    BY <1>1, <2>3 DEF LogFields
  <2>6. PICK new : new = Logs!Done(l, d)
    OBVIOUS
  <2>7. /\ DOMAIN new = LogFields /\ new.tab = logs.tab /\ new.rows = rs /\ new.filter = logs.filter
        /\ new.page = logs.page /\ new.total = ts /\ new.clear = logs.clear /\ new.timer = logs.timer
    BY <1>5, <2>5, <2>6
  <2>8. DOMAIN rs = Logs!Tab /\ ts \in [Logs!Tab -> Nat]
    BY <1>1, <1>4, <2>1, <2>2 DEF IsLogs
  <2>9. IsLogs(new)
    BY <1>1, <2>7, <2>8 DEF IsLogs
  <2>10. Logs!To(new)
    BY <2>1, <2>4, <2>6
  <2>11. /\ IsLogs(logs') /\ logs'.rows = rs
         /\ ~logs'.timer => /\ ~logs.timer /\ logs'.tab = logs.tab
                            /\ Logs!Query(logs', logs.tab) = Logs!Query(logs, logs.tab)
    BY <1>1, <2>7, <2>9, <2>10, LogsRendered
  <2>12. l.tab = logs.tab => rs[logs.tab] = l.query
    BY <1>1, <1>4, <2>2 DEF IsLogs
  <2> QED
    BY <1>2, <1>3, <2>11, <2>12, Arrived
<1>7. CASE Logs!LoadFailed(i)
  <2>1. PICK e : e = (logs.error \/ ~l.quiet)
    OBVIOUS
  <2>2. PICK d : d = [logs EXCEPT !.error = e]
    OBVIOUS
  <2>3. logs' = Logs!Done(l, d)
    BY <1>3, <1>7, <2>1, <2>2 DEF Logs!LoadFailed
  <2>4. /\ DOMAIN d = LogFields /\ d.tab = logs.tab /\ d.rows = logs.rows /\ d.filter = logs.filter
        /\ d.page = logs.page /\ d.total = logs.total /\ d.clear = logs.clear /\ d.error = e
        /\ d.timer = logs.timer
    BY <1>1, <2>2 DEF LogFields
  <2>5. /\ DOMAIN logs' = LogFields /\ logs'.tab = logs.tab /\ logs'.rows = logs.rows
        /\ logs'.filter = logs.filter /\ logs'.page = logs.page /\ logs'.total = logs.total
        /\ logs'.clear = logs.clear /\ logs'.error = e /\ logs'.timer = logs.timer
    BY <1>5, <2>3, <2>4
  <2>6. IsLogs(logs') /\ Logs!Query(logs', logs.tab) = Logs!Query(logs, logs.tab)
    BY <1>1, <2>5 DEF IsLogs, Logs!Query
  <2> QED
    BY <1>2, <1>3, <2>1, <2>5, <2>6, Arrived
<1> QED
  BY <1>6, <1>7

\* Every step of the logs.
LEMMA LogsStep == ASSUME LogsSound, Logs!LogsNext PROVE LogsSound'
<1>1. MaxLoads \in Nat
  BY ConsoleAssumption DEF ConsoleAssumption, Logs!LogsAssumption
<1> QED
  BY <1>1, ChooseSteps, SendSteps, AnswerSteps DEF Logs!LogsNext

-----------------------------------------------------------------------------
(* Proofs: the models *)

\* A read or a save, changed where it does not matter.
LEMMA CallKinds ==
  ASSUME NEW c, IsRead(c) \/ IsSaving(c)
  PROVE  /\ Models!IsSave(c) => IsSaving(c)
         /\ ~Models!IsSave(c) => IsRead(c)
BY DEF IsRead, IsSaving, Models!IsSave

LEMMA ReadChanged ==
  ASSUME NEW c, IsRead(c), NEW x
  PROVE  /\ IsRead([c EXCEPT !.shared = x]) /\ IsRead([c EXCEPT !.here = x])
         /\ IsRead([c EXCEPT !.at = "served", !.data = x])
         /\ x \in BOOLEAN => IsRead([c EXCEPT !.clean = x])
         /\ [c EXCEPT !.shared = x].clean = c.clean /\ [c EXCEPT !.here = x].clean = c.clean
         /\ [c EXCEPT !.shared = x].at = c.at /\ [c EXCEPT !.here = x].at = c.at
         /\ [c EXCEPT !.shared = x].data = c.data /\ [c EXCEPT !.here = x].data = c.data
         /\ [c EXCEPT !.at = "served", !.data = x].clean = c.clean
         /\ [c EXCEPT !.at = "served", !.data = x].data = x
         /\ [c EXCEPT !.clean = x].clean = x
BY DEF IsRead

LEMMA SavingChanged ==
  ASSUME NEW c, IsSaving(c), NEW x
  PROVE  /\ IsSaving([c EXCEPT !.here = x]) /\ [c EXCEPT !.here = x].here = x
         /\ IsSaving([c EXCEPT !.at = "served"])
BY DEF IsSaving

LEMMA ReadIsNoSave == ASSUME NEW c, IsRead(c) PROVE ~Models!IsSave(c)
BY DEF IsRead, Models!IsSave

LEMMA SavingIsSave == ASSUME NEW c, IsSaving(c) PROVE Models!IsSave(c)
BY DEF IsSaving, Models!IsSave

\* A new read.
LEMMA NewRead ==
  ASSUME NEW kind \in {"get", "refresh"}, NEW clean \in BOOLEAN
  PROVE  /\ IsRead(Models!Read(kind, clean)) /\ Models!Read(kind, clean).clean = clean
         /\ Models!Read(kind, clean).at = "sent"
BY DEF IsRead, Models!Read

\* A new save.
LEMMA NewSave ==
  ASSUME NEW kind \in {"max", "effort"}, NEW row \in Row, NEW value
  PROVE  /\ IsSaving(Models!Save(kind, row, value)) /\ Models!Save(kind, row, value).here
         /\ Models!Save(kind, row, value).rows = models.rows
         /\ Models!Save(kind, row, value).at = "sent"
BY DEF IsSaving, Models!Save

\* Reads come, change and go; the saves and the rows stay.
LEMMA ReadsMove ==
  ASSUME ModelsSound, settings' = settings, DOMAIN models' = DOMAIN models,
         models'.open = models.open, models'.rows = models.rows, crossed' = crossed,
         \A c \in modelCalls' : Models!IsSave(c) => c \in modelCalls,
         \A c \in modelCalls : Models!IsSave(c) => c \in modelCalls',
         \A c \in modelCalls' : ~Models!IsSave(c) =>
           IsRead(c) /\ (c.clean => Models!Saves = {} /\ (c.at = "served" => c.data = Models!Catalog))
  PROVE  ModelsSound'
<1>1. Models!Saves' = Models!Saves /\ Models!Catalog' = Models!Catalog
  BY DEF Models!Saves, Models!Catalog
<1>2. ModelsTyped'
  BY DEF ModelsSound, ModelsTyped
<1>3. CleanReads'
  BY <1>1 DEF CleanReads
<1>4. SavesAreHere'
  BY <1>1 DEF SavesAreHere, ModelsSound
<1>5. RowsFollow'
  <2>1. SUFFICES ASSUME models'.open, ~crossed', models'.rows # None \/ \E c \in Models!Saves' : c.here
                 PROVE  \/ Models!Saves' = {} /\ models'.rows = Models!Catalog'
                        \/ \E c \in modelCalls' : Models!Saves' = {c} /\ SaveCarries(c)'
    BY DEF RowsFollow
  <2>2. \/ Models!Saves = {} /\ models.rows = Models!Catalog
        \/ \E c \in modelCalls : Models!Saves = {c} /\ SaveCarries(c)
    BY <1>1, <2>1 DEF RowsFollow, ModelsSound
  <2>3. ASSUME NEW c \in modelCalls, Models!Saves = {c}, SaveCarries(c)
        PROVE  c \in modelCalls' /\ SaveCarries(c)'
    <3>1. Models!IsSave(c)
      BY <2>3 DEF Models!Saves
    <3> QED
      BY <1>1, <2>3, <3>1 DEF SaveCarries
  <2> QED
    BY <1>1, <2>2, <2>3
<1> QED
  BY <1>2, <1>3, <1>4, <1>5 DEF ModelsSound

\* Requests that are shared no more are the same saves, and reads like before.
LEMMA Unshared ==
  ASSUME ModelsSound, NEW calls \in SUBSET modelCalls
  PROVE  /\ \A c \in Models!Unshared(calls) : Models!IsSave(c) => c \in calls
         /\ \A c \in calls : Models!IsSave(c) => c \in Models!Unshared(calls)
         /\ \A c \in Models!Unshared(calls) : ~Models!IsSave(c) =>
              IsRead(c) /\ (c.clean => Models!Saves = {} /\ (c.at = "served" => c.data = Models!Catalog))
<1>1. \A c \in calls : IsRead(c) \/ IsSaving(c)
  BY DEF ModelsSound, ModelsTyped
<1>2. \A c \in calls : Models!IsSave(c) => c \in Models!Unshared(calls)
  BY DEF Models!Unshared
<1>3. ASSUME NEW c \in Models!Unshared(calls)
      PROVE  \/ c \in calls /\ Models!IsSave(c)
             \/ \E d \in calls : ~Models!IsSave(d) /\ c = [d EXCEPT !.shared = FALSE]
  BY <1>3 DEF Models!Unshared
<1>4. ASSUME NEW c, NEW d \in calls, ~Models!IsSave(d), c = [d EXCEPT !.shared = FALSE]
      PROVE  /\ IsRead(c) /\ ~Models!IsSave(c)
             /\ c.clean => Models!Saves = {} /\ (c.at = "served" => c.data = Models!Catalog)
  <2>1. IsRead(d)
    BY <1>1, <1>4, CallKinds
  <2>2. IsRead(c) /\ c.clean = d.clean /\ c.at = d.at /\ c.data = d.data
    BY <1>4, <2>1, ReadChanged
  <2>3. d.clean => Models!Saves = {} /\ (d.at = "served" => d.data = Models!Catalog)
    BY <1>4 DEF ModelsSound, CleanReads
  <2> QED
    BY <2>2, <2>3, ReadIsNoSave
<1> QED
  BY <1>2, <1>3, <1>4

\* The page comes, goes and refreshes.
LEMMA VisitSteps ==
  ASSUME ModelsSound, Models!Forget \/ Models!Mount \/ Models!Unmount \/ Models!OnRefresh
  PROVE  ModelsSound'
<1>1. /\ DOMAIN models = {"open", "loading", "busy", "rows", "savingKey"}
      /\ \A c \in modelCalls : IsRead(c) \/ IsSaving(c)
      /\ \A c \in modelCalls : ~Models!IsSave(c) => IsRead(c)
      /\ \A c \in modelCalls : Models!IsSave(c) => IsSaving(c)
      /\ \A c \in modelCalls : ~Models!IsSave(c) /\ c.clean =>
           Models!Saves = {} /\ (c.at = "served" => c.data = Models!Catalog)
  BY CallKinds DEF ModelsSound, ModelsTyped, CleanReads
<1>2. CASE Models!Forget
  BY <1>1, <1>2, ReadsMove DEF Models!Forget
<1>3. CASE Models!Mount
  <2>1. ~models.open /\ settings' = settings
    BY <1>3 DEF Models!Mount
  <2>2. \A c \in Models!Saves : ~c.here
    BY <2>1 DEF ModelsSound, SavesAreHere
  <2>3. CASE memory # None /\ memory.fresh
    <3>1. /\ models' = [Models!Away EXCEPT !.open = TRUE, !.loading = FALSE, !.rows = memory.data]
          /\ crossed' = (memory.data # Models!Catalog \/ Models!Saves # {})
          /\ modelCalls' = modelCalls
      BY <1>3, <2>3 DEF Models!Mount
    <3>2. /\ DOMAIN models' = {"open", "loading", "busy", "rows", "savingKey"}
          /\ models'.open /\ models'.rows = memory.data
      BY <3>1 DEF Models!Away
    <3>3. Models!Saves' = Models!Saves /\ Models!Catalog' = Models!Catalog
      BY <2>1, <3>1 DEF Models!Saves, Models!Catalog
    <3>4. ModelsTyped' /\ CleanReads' /\ SavesAreHere'
      BY <2>1, <3>1, <3>2, <3>3 DEF ModelsSound, ModelsTyped, CleanReads, SavesAreHere
    <3>5. ~crossed' => Models!Saves = {} /\ memory.data = Models!Catalog
      BY <3>1
    <3>6. RowsFollow'
      BY <3>2, <3>3, <3>5 DEF RowsFollow
    <3> QED
      BY <3>4, <3>6 DEF ModelsSound
  <2>4. CASE ~(memory # None /\ memory.fresh)
    <3>1. PICK under, new : /\ under = {c \in modelCalls : c.kind = "get" /\ c.shared}
                            /\ new = Models!Read("get", Models!Saves = {})
      OBVIOUS
    <3>2. /\ models' = [Models!Away EXCEPT !.open = TRUE] /\ crossed' = crossed
          /\ modelCalls' = IF under = {} THEN modelCalls \cup {new}
                           ELSE (modelCalls \ under) \cup {[c EXCEPT !.here = TRUE] : c \in under}
      BY <1>3, <2>4, <3>1 DEF Models!Mount
    <3>3. /\ DOMAIN models' = {"open", "loading", "busy", "rows", "savingKey"}
          /\ models'.open /\ models'.rows = None
      BY <3>2 DEF Models!Away
    <3>4. IsRead(new) /\ new.clean = (Models!Saves = {}) /\ new.at = "sent" /\ ~Models!IsSave(new)
      BY <3>1, NewRead, ReadIsNoSave
    <3>5. \A c \in under : ~Models!IsSave(c)
      BY <3>1 DEF Models!IsSave
    <3>6. ASSUME NEW c \in modelCalls'
          PROVE  \/ c \in modelCalls
                 \/ /\ IsRead(c) /\ ~Models!IsSave(c)
                    /\ c.clean => Models!Saves = {} /\ (c.at = "served" => c.data = Models!Catalog)
      <4>1. c \in modelCalls \/ c = new \/ \E d \in under : c = [d EXCEPT !.here = TRUE]
        BY <3>2
      <4>2. ASSUME NEW d \in under, c = [d EXCEPT !.here = TRUE]
            PROVE  /\ IsRead(c) /\ ~Models!IsSave(c)
                   /\ c.clean => Models!Saves = {} /\ (c.at = "served" => c.data = Models!Catalog)
        <5>1. d \in modelCalls /\ ~Models!IsSave(d) /\ IsRead(d)
          BY <1>1, <3>1, <3>5
        <5>2. IsRead(c) /\ c.clean = d.clean /\ c.at = d.at /\ c.data = d.data
          BY <4>2, <5>1, ReadChanged
        <5>3. d.clean => Models!Saves = {} /\ (d.at = "served" => d.data = Models!Catalog)
          BY <1>1, <5>1
        <5> QED
          BY <5>2, <5>3, ReadIsNoSave
      <4>3. ASSUME c = new
            PROVE  /\ IsRead(c) /\ ~Models!IsSave(c)
                   /\ c.clean => Models!Saves = {} /\ (c.at = "served" => c.data = Models!Catalog)
        BY <3>4, <4>3
      <4> QED
        BY <4>1, <4>2, <4>3
    <3>7. \A c \in modelCalls : Models!IsSave(c) => c \in modelCalls'
      BY <3>2, <3>5
    <3>8. Models!Saves' = Models!Saves /\ Models!Catalog' = Models!Catalog
      BY <2>1, <3>6, <3>7 DEF Models!Saves, Models!Catalog
    <3>9. ModelsTyped'
      BY <1>1, <2>1, <3>3, <3>6 DEF ModelsSound, ModelsTyped
    <3>10. CleanReads'
      BY <1>1, <3>6, <3>8 DEF CleanReads
    <3>11. SavesAreHere' /\ RowsFollow'
      BY <2>2, <3>3, <3>8 DEF SavesAreHere, RowsFollow
    <3> QED
      BY <3>9, <3>10, <3>11 DEF ModelsSound
  <2> QED
    BY <2>3, <2>4
<1>4. CASE Models!Unmount
  <2>1. /\ models' = Models!Away /\ settings' = settings
        /\ modelCalls' = {[c EXCEPT !.here = FALSE] : c \in modelCalls}
    BY <1>4 DEF Models!Unmount
  <2>2. DOMAIN models' = {"open", "loading", "busy", "rows", "savingKey"} /\ ~models'.open
    BY <2>1 DEF Models!Away
  <2>3. ASSUME NEW c \in modelCalls'
        PROVE  \/ IsSaving(c) /\ ~c.here /\ Models!Saves # {}
               \/ /\ IsRead(c)
                  /\ c.clean => Models!Saves = {} /\ (c.at = "served" => c.data = Models!Catalog)
    <3>1. PICK d \in modelCalls : c = [d EXCEPT !.here = FALSE]
      BY <2>1
    <3>2. CASE Models!IsSave(d)
      <4>1. d \in Models!Saves
        BY <3>2 DEF Models!Saves
      <4> QED
        BY <1>1, <3>1, <3>2, <4>1, SavingChanged
    <3>3. CASE ~Models!IsSave(d)
      <4>1. IsRead(c) /\ c.clean = d.clean /\ c.at = d.at /\ c.data = d.data
        BY <1>1, <3>1, <3>3, ReadChanged
      <4> QED
        BY <1>1, <3>3, <4>1
    <3> QED
      BY <3>2, <3>3
  <2>4. /\ Models!Catalog' = Models!Catalog
        /\ Models!Saves = {} => Models!Saves' = {}
    BY <2>1, <2>3, ReadIsNoSave DEF Models!Catalog, Models!Saves
  <2>5. ModelsTyped'
    BY <2>1, <2>2, <2>3 DEF ModelsSound, ModelsTyped
  <2>6. CleanReads'
    BY <2>3, <2>4, SavingIsSave DEF CleanReads
  <2>7. SavesAreHere' /\ RowsFollow'
    <3>1. \A c \in Models!Saves' : ~c.here
      BY <2>3, ReadIsNoSave DEF Models!Saves
    <3> QED
      BY <2>2, <3>1 DEF SavesAreHere, RowsFollow
  <2> QED
    BY <2>5, <2>6, <2>7 DEF ModelsSound
<1>5. CASE Models!OnRefresh
  <2>1. PICK new : new = Models!Read("refresh", Models!Saves = {})
    OBVIOUS
  <2>2. /\ models' = [models EXCEPT !.busy = TRUE] /\ settings' = settings /\ crossed' = crossed
        /\ modelCalls' = Models!Unshared(modelCalls) \cup {new}
    BY <1>5, <2>1 DEF Models!OnRefresh
  <2>3. IsRead(new) /\ new.clean = (Models!Saves = {}) /\ new.at = "sent" /\ ~Models!IsSave(new)
    BY <2>1, NewRead, ReadIsNoSave
  <2>4. DOMAIN models' = DOMAIN models /\ models'.open = models.open /\ models'.rows = models.rows
    BY <1>1, <2>2
  <2> QED
    BY <2>2, <2>3, <2>4, Unshared, ReadsMove
<1> QED
  BY <1>2, <1>3, <1>4, <1>5

\* A save begins: nothing that is read beside it is clean.
LEMMA SaveBegins ==
  ASSUME ModelsSound, NEW c, IsSaving(c), c.here, c.rows = models.rows, c.at = "sent", Models!BeginSave(c)
  PROVE  ModelsSound'
<1>1. /\ DOMAIN models = {"open", "loading", "busy", "rows", "savingKey"}
      /\ \A d \in modelCalls : ~Models!IsSave(d) => IsRead(d)
      /\ \A d \in modelCalls : Models!IsSave(d) => IsSaving(d)
  BY CallKinds DEF ModelsSound, ModelsTyped
<1>2. /\ settings' = settings /\ crossed' = (crossed \/ modelCalls # {})
      /\ models.open /\ models.rows # None
      /\ modelCalls' = {IF Models!IsSave(d) THEN d ELSE [d EXCEPT !.clean = FALSE] : d \in modelCalls} \cup {c}
      /\ models' = [models EXCEPT !.savingKey = c.row[1]]
  BY DEF Models!BeginSave, Models!Shown
<1>3. DOMAIN models' = DOMAIN models /\ models'.open = models.open /\ models'.rows = models.rows
  BY <1>1, <1>2
<1>4. ASSUME NEW e \in modelCalls'
      PROVE  e = c \/ (e \in modelCalls /\ IsSaving(e)) \/ (IsRead(e) /\ ~e.clean)
  <2>1. \/ e = c \/ (e \in modelCalls /\ Models!IsSave(e))
        \/ \E d \in modelCalls : ~Models!IsSave(d) /\ e = [d EXCEPT !.clean = FALSE]
    BY <1>2
  <2>2. ASSUME NEW d \in modelCalls, ~Models!IsSave(d), e = [d EXCEPT !.clean = FALSE]
        PROVE  IsRead(e) /\ ~e.clean
    BY <1>1, <2>2, ReadChanged
  <2> QED
    BY <1>1, <2>1, <2>2
<1>5. ModelsTyped'
  BY <1>1, <1>2, <1>3, <1>4 DEF ModelsSound, ModelsTyped
<1>6. CleanReads'
  BY <1>4, SavingIsSave DEF CleanReads
<1>7. SavesAreHere'
  BY <1>2, <1>3 DEF SavesAreHere
<1>8. RowsFollow'
  <2>1. SUFFICES ASSUME ~crossed'
                 PROVE  \E d \in modelCalls' : Models!Saves' = {d} /\ SaveCarries(d)'
    BY DEF RowsFollow
  <2>2. modelCalls = {} /\ ~crossed
    BY <1>2, <2>1
  <2>3. modelCalls' = {c}
    BY <1>2, <2>2
  <2>4. Models!Saves' = {c} /\ Models!Catalog' = Models!Catalog
    BY <1>2, <2>3, SavingIsSave DEF Models!Saves, Models!Catalog
  <2>5. models.rows = Models!Catalog
    <3>1. Models!Saves = {}
      BY <2>2 DEF Models!Saves
    <3> QED
      BY <1>2, <2>2, <3>1 DEF ModelsSound, RowsFollow
  <2>6. SaveCarries(c)'
    BY <1>3, <2>4, <2>5 DEF SaveCarries
  <2> QED
    BY <2>3, <2>4, <2>6
<1> QED
  BY <1>5, <1>6, <1>7, <1>8 DEF ModelsSound

\* A save is gone: answered, the rows are as it left them; else as they were.
LEMMA SaveGone ==
  ASSUME ModelsSound, NEW c \in Models!Saves, modelCalls' = modelCalls \ {c}, settings' = settings,
         DOMAIN models' = DOMAIN models, models'.open = models.open,
         ~crossed' => ~crossed,
         ~crossed' /\ c.here =>
           (SaveCarries(c) => models'.rows = Models!Catalog),
         ~c.here => models'.rows = models.rows
  PROVE  ModelsSound'
<1>1. Models!Saves' = Models!Saves \ {c} /\ Models!Catalog' = Models!Catalog
  BY DEF Models!Saves, Models!Catalog
<1>2. ModelsTyped' /\ CleanReads' /\ SavesAreHere'
  BY <1>1 DEF ModelsSound, ModelsTyped, CleanReads, SavesAreHere
<1>3. RowsFollow'
  <2>1. SUFFICES ASSUME models'.open, ~crossed', models'.rows # None \/ \E d \in Models!Saves' : d.here
                 PROVE  Models!Saves' = {} /\ models'.rows = Models!Catalog'
    BY DEF RowsFollow
  <2>2. c.here \/ models.rows # None \/ \E d \in Models!Saves : d.here
    BY <1>1, <2>1
  <2>3. PICK d \in modelCalls : Models!Saves = {d} /\ SaveCarries(d)
    BY <2>1, <2>2 DEF ModelsSound, RowsFollow
  <2>4. d = c
    BY <2>3
  <2> QED
    BY <1>1, <2>1, <2>3, <2>4 DEF SaveCarries
<1> QED
  BY <1>2, <1>3 DEF ModelsSound

\* What the server serves.
LEMMA ServeSteps ==
  ASSUME ModelsSound, NEW c \in modelCalls, Models!ServeCall(c)
  PROVE  ModelsSound'
<1>1. /\ DOMAIN settings = Models!Key
      /\ \A d \in modelCalls : ~Models!IsSave(d) => IsRead(d)
      /\ \A d \in modelCalls : Models!IsSave(d) => IsSaving(d)
      /\ \A d \in modelCalls : ~Models!IsSave(d) /\ d.clean =>
           Models!Saves = {} /\ (d.at = "served" => d.data = Models!Catalog)
  BY CallKinds DEF ModelsSound, ModelsTyped, CleanReads
<1>2. c.at = "sent" /\ models' = models /\ crossed' = crossed
  BY DEF Models!ServeCall
<1>3. CASE ~Models!IsSave(c)
  <2>1. PICK d : d = [c EXCEPT !.at = "served", !.data = Models!Catalog]
    OBVIOUS
  <2>2. settings' = settings /\ modelCalls' = (modelCalls \ {c}) \cup {d}
    BY <1>3, <2>1 DEF Models!ServeCall
  <2>3. IsRead(d) /\ d.clean = c.clean /\ d.data = Models!Catalog /\ ~Models!IsSave(d)
    <3>1. PICK x : x = Models!Catalog
      OBVIOUS
    <3>2. IsRead(c) /\ d = [c EXCEPT !.at = "served", !.data = x]
      BY <1>1, <1>3, <2>1, <3>1
    <3>3. IsRead(d) /\ d.clean = c.clean /\ d.data = x
      BY <3>2, ReadChanged
    <3> QED
      BY <3>1, <3>3, ReadIsNoSave
  <2> QED
    BY <1>1, <1>2, <1>3, <2>2, <2>3, ReadsMove
<1>4. CASE Models!IsSave(c)
  <2>1. PICK d : d = [c EXCEPT !.at = "served"]
    OBVIOUS
  <2>2. /\ settings' = [settings EXCEPT ![c.row[1]] = Models!Change(settings[c.row[1]], c)]
        /\ modelCalls' = (modelCalls \ {c}) \cup {d}
    BY <1>4, <2>1 DEF Models!ServeCall
  <2>3. IsSaving(c) /\ c \in Models!Saves
    BY <1>1, <1>4 DEF Models!Saves
  <2>4. /\ IsSaving(d) /\ d.at = "served" /\ d.here = c.here /\ d.rows = c.rows /\ d.row = c.row
        /\ d.kind = c.kind /\ d.value = c.value /\ Models!IsSave(d)
    BY <2>1, <2>3, SavingChanged, SavingIsSave DEF IsSaving
  <2>5. ModelsTyped'
    BY <1>1, <1>2, <2>2, <2>4 DEF ModelsSound, ModelsTyped
  <2>6. CleanReads'
    BY <1>1, <2>2, <2>3, <2>4 DEF CleanReads
  <2>7. SavesAreHere'
    BY <1>2, <2>2, <2>3, <2>4 DEF ModelsSound, SavesAreHere, Models!Saves
  <2>8. RowsFollow'
    <3>1. SUFFICES ASSUME models.open, ~crossed, models.rows # None \/ \E e \in Models!Saves' : e.here
                   PROVE  Models!Saves' = {d} /\ SaveCarries(d)'
      BY <1>2, <2>2 DEF RowsFollow
    <3>2. models.rows # None \/ \E e \in Models!Saves : e.here
      BY <2>2, <2>3, <2>4, <3>1 DEF Models!Saves
    <3>3. PICK e \in modelCalls : Models!Saves = {e} /\ SaveCarries(e)
      BY <2>3, <3>1, <3>2 DEF ModelsSound, RowsFollow
    <3>4. e = c
      BY <2>3, <3>3
    <3>5. c.here /\ c.rows = models.rows /\ models.rows = Models!Catalog
      BY <1>2, <3>3, <3>4 DEF SaveCarries
    <3>6. Models!Saves' = {d}
      BY <2>2, <2>4, <3>3, <3>4 DEF Models!Saves
    <3>7. \A row \in Row : row[1] \in Models!Key
      BY DEF Models!Key
    <3>8. \A v : Models!Change(v, d) = Models!Change(v, c)
      BY <2>4 DEF Models!Change
    <3>9. Models!Applied(d) = Models!Catalog'
      <4>1. Models!Applied(d) = [row \in Row |-> IF row[1] = c.row[1] THEN Models!Change(Models!Catalog[row], c)
                                                 ELSE Models!Catalog[row]]
        BY <2>4, <3>5, <3>8 DEF Models!Applied
      <4>2. \A row \in Row : Models!Catalog[row] = settings[row[1]]
        BY DEF Models!Catalog
      <4>3. Models!Catalog' = [row \in Row |-> settings'[row[1]]]
        BY DEF Models!Catalog
      <4>4. \A row \in Row : settings'[row[1]] = IF row[1] = c.row[1] THEN Models!Change(settings[row[1]], c)
                                                 ELSE settings[row[1]]
        BY <1>1, <2>2, <3>7
      <4> QED
        BY <4>1, <4>2, <4>3, <4>4
    <3> QED
      BY <1>2, <2>4, <3>5, <3>6, <3>9 DEF SaveCarries
  <2> QED
    BY <2>5, <2>6, <2>7, <2>8 DEF ModelsSound
<1> QED
  BY <1>3, <1>4

\* What is answered.
LEMMA CallAnswers ==
  ASSUME ModelsSound, NEW c \in modelCalls,
         Models!Fetched(c) \/ Models!FetchFailed(c) \/ Models!SaveAnswered(c) \/ Models!SaveFailed(c)
  PROVE  ModelsSound'
<1>1. /\ DOMAIN models = {"open", "loading", "busy", "rows", "savingKey"}
      /\ \A d \in modelCalls : ~Models!IsSave(d) => IsRead(d)
      /\ \A d \in modelCalls : ~Models!IsSave(d) /\ d.clean =>
           Models!Saves = {} /\ (d.at = "served" => d.data = Models!Catalog)
  BY CallKinds DEF ModelsSound, ModelsTyped, CleanReads
<1>2. CASE Models!Fetched(c)
  <2>1. ~Models!IsSave(c) /\ c.at = "served" /\ settings' = settings /\ modelCalls' = Models!Unshared(modelCalls \ {c})
    BY <1>2 DEF Models!Fetched
  <2>2. /\ \A d \in modelCalls' : Models!IsSave(d) => d \in modelCalls
        /\ \A d \in modelCalls : Models!IsSave(d) => d \in modelCalls'
        /\ \A d \in modelCalls' : ~Models!IsSave(d) =>
             IsRead(d) /\ (d.clean => Models!Saves = {} /\ (d.at = "served" => d.data = Models!Catalog))
    BY <2>1, Unshared
  <2>3. CASE ~c.here
    <3>1. models' = models /\ crossed' = crossed
      BY <1>2, <2>3 DEF Models!Fetched
    <3> QED
      BY <2>1, <2>2, <3>1, ReadsMove
  <2>4. CASE c.here
    <3>1. /\ models' = [models EXCEPT !.rows = c.data, !.loading = FALSE, !.busy = FALSE]
          /\ crossed' = ~c.clean
      BY <1>2, <2>4 DEF Models!Fetched
    <3>2. DOMAIN models' = DOMAIN models /\ models'.open = models.open /\ models'.rows = c.data
      BY <1>1, <3>1
    <3>3. Models!Saves' = Models!Saves /\ Models!Catalog' = Models!Catalog
      BY <2>1, <2>2 DEF Models!Saves, Models!Catalog
    <3>4. ModelsTyped' /\ CleanReads' /\ SavesAreHere'
      BY <2>1, <2>2, <3>2, <3>3 DEF ModelsSound, ModelsTyped, CleanReads, SavesAreHere
    <3>5. ~crossed' => Models!Saves = {} /\ c.data = Models!Catalog
      BY <1>1, <2>1, <3>1
    <3>6. RowsFollow'
      BY <3>2, <3>3, <3>5 DEF RowsFollow
    <3> QED
      BY <3>4, <3>6 DEF ModelsSound
  <2> QED
    BY <2>3, <2>4
<1>3. CASE Models!FetchFailed(c)
  <2>1. ~Models!IsSave(c) /\ settings' = settings /\ crossed' = crossed /\ modelCalls' = modelCalls \ {c}
    BY <1>3 DEF Models!FetchFailed
  <2>2. models' = models \/ models' = [models EXCEPT !.loading = FALSE, !.busy = FALSE]
    BY <1>3 DEF Models!FetchFailed
  <2>3. DOMAIN models' = DOMAIN models /\ models'.open = models.open /\ models'.rows = models.rows
    BY <1>1, <2>2
  <2> QED
    BY <1>1, <2>1, <2>3, ReadsMove
<1>4. CASE Models!SaveAnswered(c)
  <2>1. /\ c \in Models!Saves /\ c.at = "served" /\ modelCalls' = modelCalls \ {c} /\ settings' = settings
        /\ crossed' = crossed
        /\ models' = IF c.here THEN [models EXCEPT !.rows = Models!Applied(c), !.savingKey = None] ELSE models
    BY <1>4 DEF Models!SaveAnswered
  <2>2. /\ DOMAIN models' = DOMAIN models /\ models'.open = models.open
        /\ c.here => models'.rows = Models!Applied(c)
        /\ ~c.here => models'.rows = models.rows
    BY <1>1, <2>1
  <2>3. SaveCarries(c) => Models!Applied(c) = Models!Catalog
    BY <2>1 DEF SaveCarries
  <2> QED
    BY <2>1, <2>2, <2>3, SaveGone
<1>5. CASE Models!SaveFailed(c)
  <2>1. /\ c \in Models!Saves /\ modelCalls' = modelCalls \ {c} /\ settings' = settings
        /\ crossed' = (crossed \/ c.at = "served")
        /\ models' = IF c.here THEN [models EXCEPT !.savingKey = None] ELSE models
    BY <1>5 DEF Models!SaveFailed
  <2>2. DOMAIN models' = DOMAIN models /\ models'.open = models.open /\ models'.rows = models.rows
    BY <1>1, <2>1
  <2>3. ~crossed' => ~crossed /\ c.at # "served"
    BY <2>1, Zenon
  <2>4. c.at \in {"sent", "served"}
    BY <2>1, CallKinds DEF ModelsSound, ModelsTyped, IsSaving, Models!Saves
  <2>5. ~crossed' /\ SaveCarries(c) => models.rows = Models!Catalog
    BY <2>3, <2>4 DEF SaveCarries
  <2> QED
    BY <2>1, <2>2, <2>3, <2>5, SaveGone
<1> QED
  BY <1>2, <1>3, <1>4, <1>5

\* The console opens without a catalog.
LEMMA ModelsStart == ASSUME Models!ModelsInit PROVE ModelsSound
<1>1. PICK e : settings = [k \in Models!Key |-> [max |-> FALSE, effort |-> e]]
  BY DEF Models!ModelsInit
<1>2. models = Models!Away /\ modelCalls = {}
  BY DEF Models!ModelsInit
<1>3. DOMAIN models = {"open", "loading", "busy", "rows", "savingKey"} /\ ~models.open
  BY <1>2 DEF Models!Away
<1> QED
  BY <1>1, <1>2, <1>3 DEF ModelsSound, ModelsTyped, CleanReads, SavesAreHere, RowsFollow, Models!Saves

\* Every step of the models.
LEMMA ModelsStep == ASSUME ModelsSound, Models!ModelsNext PROVE ModelsSound'
<1>1. ASSUME NEW row \in Row, Models!OnToggleMax(row) PROVE ModelsSound'
  <2>1. PICK v, c : c = Models!Save("max", row, v) /\ Models!BeginSave(c)
    BY <1>1 DEF Models!OnToggleMax
  <2> QED
    BY <2>1, NewSave, SaveBegins
<1>2. ASSUME NEW row \in Row, NEW e, Models!OnReasoningChange(row, e) PROVE ModelsSound'
  <2>1. PICK c : c = Models!Save("effort", row, e) /\ Models!BeginSave(c)
    BY <1>2 DEF Models!OnReasoningChange
  <2> QED
    BY <2>1, NewSave, SaveBegins
<1> QED
  BY <1>1, <1>2, VisitSteps, ServeSteps, CallAnswers DEF Models!ModelsNext

-----------------------------------------------------------------------------
(* Proofs: the tab *)

\* What a render makes of the session s: key and summary as they were, the page among
\* those that want them.
LEMMA Rendered ==
  ASSUME TabTyped, NEW s, DOMAIN s = SessionFields, NEW gone, Tab!Render(s, gone)
  PROVE  /\ DOMAIN session' = SessionFields
         /\ session'.key = s.key /\ session'.overview = s.overview /\ session'.error = s.error
         /\ session'.loading = s.loading /\ (session'.busy => s.busy)
         /\ s.key = None => session'.page \notin Tab!Console
         /\ s.key = None /\ s.overview = None => session'.page = "login"
         /\ s.key # None /\ s.overview # None => session'.page \in Tab!Console
         /\ \A r \in rotations' : /\ DOMAIN r = {"key", "mounted", "verdict", "secret"}
                                  /\ r.verdict = "ok" => r.secret # None
<1>1. PICK p \in Tab!PagesFor(s) :
        /\ session' = [s EXCEPT !.page = p, !.busy = @ /\ p = "login",
                                !.rotating = @ /\ p = "system" /\ session.page = "system",
                                !.secret = IF p = "system" /\ session.page = "system" THEN @ ELSE None]
        /\ rotations' = IF p = "system" THEN rotations \ gone
                        ELSE {[r EXCEPT !.mounted = FALSE] : r \in rotations \ gone}
  BY DEF Tab!Render
<1>2. PICK b, t, x : /\ b = (s.busy /\ p = "login") /\ t = (s.rotating /\ p = "system" /\ session.page = "system")
                     /\ x = IF p = "system" /\ session.page = "system" THEN s.secret ELSE None
  OBVIOUS
<1>3. session' = [s EXCEPT !.page = p, !.busy = b, !.rotating = t, !.secret = x]
  BY <1>1, <1>2
<1>4. /\ DOMAIN session' = SessionFields /\ session'.page = p /\ session'.busy = b
      /\ session'.key = s.key /\ session'.overview = s.overview /\ session'.error = s.error
      /\ session'.loading = s.loading
  BY <1>3 DEF SessionFields
<1>5. /\ s.key = None => p \notin Tab!Console
      /\ s.key = None /\ s.overview = None => p = "login"
      /\ s.key # None /\ s.overview # None => p \in Tab!Console
  BY <1>1 DEF Tab!PagesFor, Tab!Console
<1>6. ASSUME NEW r \in rotations'
      PROVE  DOMAIN r = {"key", "mounted", "verdict", "secret"} /\ (r.verdict = "ok" => r.secret # None)
  <2>1. PICK q \in rotations : r = q \/ r = [q EXCEPT !.mounted = FALSE]
    BY <1>1, <1>6
  <2>2. DOMAIN q = {"key", "mounted", "verdict", "secret"} /\ (q.verdict = "ok" => q.secret # None)
    BY DEF TabTyped
  <2> QED
    BY <2>1, <2>2
<1> QED
  BY <1>2, <1>4, <1>5, <1>6

\* The session with another key.
LEMMA Keyed ==
  ASSUME NEW s, DOMAIN s = SessionFields, NEW k
  PROVE  /\ DOMAIN Tab!WithKey(s, k) = SessionFields
         /\ Tab!WithKey(s, k).key = k
         /\ Tab!WithKey(s, k).page = s.page /\ Tab!WithKey(s, k).busy = s.busy
         /\ k = s.key => Tab!WithKey(s, k) = s
         /\ k = None /\ s.key # None => /\ Tab!WithKey(s, k).overview = None
                                        /\ ~Tab!WithKey(s, k).loading
         /\ k # None => /\ Tab!WithKey(s, k).overview = s.overview
                        /\ Tab!WithKey(s, k).error = s.error
<1>1. CASE k = s.key
  <2>1. Tab!WithKey(s, k) = s
    BY <1>1 DEF Tab!WithKey
  <2> QED
    BY <1>1, <2>1
<1>2. CASE k # s.key /\ k = None
  <2>1. Tab!WithKey(s, k) = [s EXCEPT !.key = None, !.overview = None, !.loading = FALSE, !.error = None]
    BY <1>2 DEF Tab!WithKey
  <2> QED
    BY <1>2, <2>1 DEF SessionFields
<1>3. CASE k # s.key /\ k # None
  <2>1. Tab!WithKey(s, k) = [s EXCEPT !.key = k, !.loading = TRUE]
    BY <1>3 DEF Tab!WithKey
  <2> QED
    BY <1>3, <2>1 DEF SessionFields
<1> QED
  BY <1>1, <1>2, <1>3

\* A request for the summary.
LEMMA Asked ==
  ASSUME NEW n, NEW k, k # None, NEW form \in BOOLEAN
  PROVE  /\ DOMAIN Tab!Summary(n, k, form) = {"id", "key", "form", "verdict"}
         /\ Tab!Summary(n, k, form).key = k /\ Tab!Summary(n, k, form).form = form
BY DEF Tab!Summary

\* A tab that opens has no key, or asks for its summary.
LEMMA TabStarts == ASSUME Tab!SignInInit PROVE TabSound
<1>1. None \notin Nat
  BY ConsoleAssumption DEF ConsoleAssumption, Tab!SignInAssumption
<1>2. PICK k \in {0, None}, p \in Tab!Console \cup {"login"} :
        /\ session = [key |-> k, overview |-> None, loading |-> k # None, error |-> None,
                      page |-> IF k = None THEN "login" ELSE p,
                      busy |-> FALSE, rotating |-> FALSE, secret |-> None]
        /\ summaries = IF k = None THEN {} ELSE {Tab!Summary(1, k, FALSE)}
  BY DEF Tab!SignInInit
<1>3. /\ DOMAIN session = SessionFields /\ session.key = k /\ session.overview = None
      /\ (session.loading <=> k # None) /\ ~session.busy
      /\ session.page = IF k = None THEN "login" ELSE p
  BY <1>2 DEF SessionFields
<1>4. serverKey = 0 /\ rotations = {}
  BY DEF Tab!SignInInit
<1>5. CASE k = None
  <2>1. summaries = {} /\ session.page = "login" /\ "login" \notin Tab!Console
    BY <1>2, <1>3, <1>5 DEF Tab!Console
  <2> QED
    BY <1>3, <1>4, <1>5, <2>1 DEF TabSound, TabTyped, TabWaits, TabFits
<1>6. CASE k # None
  <2>1. PICK c : c = Tab!Summary(1, k, FALSE)
    OBVIOUS
  <2>2. summaries = {c} /\ DOMAIN c = {"id", "key", "form", "verdict"} /\ c.key = k
    BY <1>2, <1>6, <2>1, Asked
  <2> QED
    BY <1>3, <1>4, <1>6, <2>2 DEF TabSound, TabTyped, TabWaits, TabFits
<1> QED
  BY <1>5, <1>6

\* What the operator does.
LEMMA OperatorSteps ==
  ASSUME TabSound,
         \/ \E k \in 0..serverKey : Tab!Submit(k)
         \/ Tab!Refresh \/ Tab!SignOut \/ Tab!CloseSecret \/ Tab!AskRotation
         \/ \E p \in Tab!Console : Tab!Go(p)
  PROVE  TabSound'
<1>1. /\ None \notin Nat /\ serverKey \in Nat /\ DOMAIN session = SessionFields
      /\ \A c \in summaries : DOMAIN c = {"id", "key", "form", "verdict"} /\ c.key # None
  BY ConsoleAssumption DEF ConsoleAssumption, Tab!SignInAssumption, TabSound, TabTyped
<1>2. ASSUME NEW k \in 0..serverKey, Tab!Submit(k) PROVE TabSound'
  <2>1. PICK c, d : c = Tab!Summary(asked + 1, k, TRUE) /\ d = Tab!Summary(asked + 2, k, FALSE)
    OBVIOUS
  <2>2. k # None /\ k \in Nat
    BY <1>1
  <2>3. /\ DOMAIN c = {"id", "key", "form", "verdict"} /\ DOMAIN d = {"id", "key", "form", "verdict"}
        /\ c.key = k /\ d.key = k /\ c.form
    BY <2>1, <2>2, Asked
  <2>4. /\ summaries' = summaries \cup {c} \cup (IF Tab!Asks(session, k) THEN {d} ELSE {})
        /\ UNCHANGED <<serverKey, mixed>>
    BY <1>2, <2>1 DEF Tab!Submit, Tab!Ask
  <2>5. PICK w, s : w = Tab!WithKey(session, k) /\ s = [w EXCEPT !.busy = TRUE, !.loading = TRUE]
    OBVIOUS
  <2>6. DOMAIN s = SessionFields /\ s.key = k /\ Tab!Render(s, {})
    <3>1. DOMAIN w = SessionFields /\ w.key = k
      BY <1>1, <2>5, Keyed
    <3>2. Tab!Render(s, {})
      BY <1>2, <2>5 DEF Tab!Submit
    <3> QED
      BY <2>5, <3>1, <3>2 DEF SessionFields
  <2>7. /\ DOMAIN session' = SessionFields /\ session'.key = k
        /\ \A r \in rotations' : /\ DOMAIN r = {"key", "mounted", "verdict", "secret"}
                                 /\ r.verdict = "ok" => r.secret # None
    BY <2>6, Rendered DEF TabSound
  <2>8. c \in summaries' /\ \A e \in summaries' : e \in summaries \/ e = c \/ e = d
    BY <2>4
  <2>9. TabTyped'
    BY <1>1, <2>2, <2>3, <2>4, <2>7, <2>8 DEF TabTyped
  <2> QED
    BY <2>2, <2>3, <2>7, <2>8, <2>9 DEF TabSound, TabWaits, TabFits
<1>3. CASE Tab!Refresh
  <2>1. PICK c : c = Tab!Summary(asked + 1, session.key, FALSE)
    OBVIOUS
  <2>2. session.key # None
    BY <1>3 DEF Tab!Refresh, TabSound, TabWaits
  <2>3. /\ summaries' = summaries \cup {c} /\ session' = [session EXCEPT !.loading = TRUE]
        /\ UNCHANGED <<serverKey, rotations, mixed>>
    BY <1>3, <2>1 DEF Tab!Refresh, Tab!Ask
  <2>4. DOMAIN c = {"id", "key", "form", "verdict"} /\ c.key = session.key
    BY <2>1, <2>2, Asked
  <2>5. /\ DOMAIN session' = SessionFields /\ session'.key = session.key
        /\ session'.page = session.page /\ session'.busy = session.busy
    BY <1>1, <2>3 DEF SessionFields
  <2> QED
    BY <1>1, <2>2, <2>3, <2>4, <2>5 DEF TabSound, TabTyped, TabWaits, TabFits
<1>4. CASE Tab!SignOut
  <2>1. PICK s : s = [Tab!WithKey(session, None) EXCEPT !.page = "login"]
    OBVIOUS
  <2>2. session.key # None
    BY <1>4 DEF Tab!SignOut, TabSound, TabWaits
  <2>3. /\ DOMAIN s = SessionFields /\ s.key = None /\ s.overview = None /\ s.loading = FALSE
        /\ s.busy = session.busy
    BY <1>1, <2>1, <2>2, Keyed DEF SessionFields
  <2>4. Tab!Render(s, {}) /\ UNCHANGED <<serverKey, summaries>>
    BY <1>4, <2>1 DEF Tab!SignOut
  <2> QED
    BY <1>1, <2>3, <2>4, Rendered DEF TabSound, TabTyped, TabWaits, TabFits
<1>5. CASE Tab!CloseSecret
  <2>1. session' = [session EXCEPT !.secret = None] /\ UNCHANGED <<serverKey, summaries, rotations, mixed>>
    BY <1>5 DEF Tab!CloseSecret
  <2>2. /\ DOMAIN session' = SessionFields /\ session'.key = session.key /\ session'.error = session.error
        /\ session'.overview = session.overview /\ session'.loading = session.loading
        /\ session'.page = session.page /\ session'.busy = session.busy
    BY <1>1, <2>1 DEF SessionFields
  <2> QED
    BY <2>1, <2>2 DEF TabSound, TabTyped, TabWaits, TabFits
<1>6. CASE Tab!AskRotation
  <2>1. PICK r : r = [key |-> session.key, mounted |-> TRUE, verdict |-> "none", secret |-> None]
    OBVIOUS
  <2>2. /\ session' = [session EXCEPT !.rotating = TRUE] /\ UNCHANGED <<serverKey, summaries, mixed>>
        /\ rotations' = rotations \cup {r}
    BY <1>6, <2>1 DEF Tab!AskRotation
  <2>3. /\ DOMAIN session' = SessionFields /\ session'.key = session.key /\ session'.error = session.error
        /\ session'.overview = session.overview /\ session'.loading = session.loading
        /\ session'.page = session.page /\ session'.busy = session.busy
    BY <1>1, <2>2 DEF SessionFields
  <2>4. DOMAIN r = {"key", "mounted", "verdict", "secret"} /\ r.verdict # "ok"
    BY <2>1
  <2> QED
    BY <2>2, <2>3, <2>4 DEF TabSound, TabTyped, TabWaits, TabFits
<1>7. ASSUME NEW p \in Tab!Console, Tab!Go(p) PROVE TabSound'
  <2>1. PICK s : s = [session EXCEPT !.page = p]
    OBVIOUS
  <2>2. /\ DOMAIN s = SessionFields /\ s.key = session.key /\ s.overview = session.overview
        /\ s.error = session.error /\ s.loading = session.loading /\ s.busy = session.busy
    BY <1>1, <2>1 DEF SessionFields
  <2>3. Tab!Render(s, {}) /\ UNCHANGED <<serverKey, summaries, mixed>> /\ session.key # None
    BY <1>7, <2>1 DEF Tab!Go, TabSound, TabWaits
  <2> QED
    BY <1>1, <2>2, <2>3, Rendered DEF TabSound, TabTyped, TabWaits, TabFits
<1> QED
  BY <1>2, <1>3, <1>4, <1>5, <1>6, <1>7

\* An answer c is taken: the session s that is rendered waits for no answer of a form
\* that came, and fits what came.
LEMMA AnswerTaken ==
  ASSUME TabSound, NEW c \in summaries, summaries' = summaries \ {c}, serverKey' = serverKey,
         NEW s, DOMAIN s = SessionFields, Tab!Render(s, {}),
         ~s.loading, s.busy => session.busy /\ ~c.form,
         ~mixed' => /\ s.key = None => s.overview = None
                    /\ s.key # None /\ s.error = None => s.overview = s.key
  PROVE  TabSound'
<1>1. /\ serverKey \in Nat
      /\ \A d \in summaries : DOMAIN d = {"id", "key", "form", "verdict"} /\ d.key # None
  BY DEF TabSound, TabTyped
<1>2. /\ DOMAIN session' = SessionFields
      /\ session'.key = s.key /\ session'.overview = s.overview /\ session'.error = s.error
      /\ session'.loading = s.loading /\ (session'.busy => s.busy)
      /\ s.key = None => session'.page \notin Tab!Console
      /\ s.key = None /\ s.overview = None => session'.page = "login"
      /\ s.key # None /\ s.overview # None => session'.page \in Tab!Console
      /\ \A r \in rotations' : /\ DOMAIN r = {"key", "mounted", "verdict", "secret"}
                               /\ r.verdict = "ok" => r.secret # None
  BY Rendered DEF TabSound
<1>3. TabTyped'
  BY <1>1, <1>2 DEF TabTyped
<1>4. TabWaits'
  <2>1. s.busy => \E d \in summaries' : d.form
    BY DEF TabSound, TabWaits
  <2> QED
    BY <1>2, <2>1 DEF TabWaits
<1> QED
  BY <1>2, <1>3, <1>4 DEF TabSound, TabFits

\* What the server and its answers do.
LEMMA ServerSteps ==
  ASSUME TabSound,
         \/ Tab!RotateElsewhere
         \/ \E c \in summaries : \/ Tab!Judge(c) \/ Tab!SummaryAnswered(c)
                                 \/ Tab!SummaryRefused(c) \/ Tab!SummaryFailed(c)
         \/ \E r \in rotations : Tab!Rotate(r) \/ Tab!RotationAnswered(r) \/ Tab!RotationFailed(r)
  PROVE  TabSound'
<1>1. /\ None \notin Nat /\ serverKey \in Nat /\ DOMAIN session = SessionFields
      /\ \A c \in summaries : DOMAIN c = {"id", "key", "form", "verdict"} /\ c.key # None
      /\ \A r \in rotations : /\ DOMAIN r = {"key", "mounted", "verdict", "secret"}
                              /\ r.verdict = "ok" => r.secret # None
  BY ConsoleAssumption DEF ConsoleAssumption, Tab!SignInAssumption, TabSound, TabTyped
<1>2. CASE Tab!RotateElsewhere
  <2>1. serverKey' = serverKey + 1 /\ UNCHANGED <<session, summaries, rotations, mixed>>
    BY <1>2 DEF Tab!RotateElsewhere
  <2>2. serverKey' \in Nat
    BY <1>1, <2>1
  <2> QED
    BY <2>1, <2>2 DEF TabSound, TabTyped, TabWaits, TabFits
<1>3. ASSUME NEW c \in summaries, Tab!Judge(c) PROVE TabSound'
  <2>1. PICK v : v = IF c.key = serverKey THEN "ok" ELSE "unauthorized"
    OBVIOUS
  <2>2. PICK d : d = [c EXCEPT !.verdict = v]
    OBVIOUS
  <2>3. /\ summaries' = (summaries \ {c}) \cup {d} /\ UNCHANGED <<serverKey, session, rotations, mixed>>
    BY <1>3, <2>1, <2>2 DEF Tab!Judge
  <2>4. DOMAIN d = {"id", "key", "form", "verdict"} /\ d.key = c.key /\ d.form = c.form
    BY <1>1, <2>2
  <2>5. /\ d \in summaries' /\ \A e \in summaries : e \in summaries' \/ e = c
        /\ \A e \in summaries' : e \in summaries \/ e = d
    BY <2>3
  <2>6. TabTyped'
    BY <1>1, <2>3, <2>4, <2>5 DEF TabSound, TabTyped
  <2>7. TabWaits'
    BY <2>3, <2>4, <2>5 DEF TabSound, TabWaits
  <2>8. TabFits'
    BY <2>3, <2>4, <2>5 DEF TabSound, TabFits
  <2> QED
    BY <2>6, <2>7, <2>8 DEF TabSound
<1>4. ASSUME NEW c \in summaries, Tab!SummaryAnswered(c) PROVE TabSound'
  <2>1. PICK p, b : /\ b = (session.busy /\ ~c.form)
                    /\ Tab!Render([session EXCEPT !.overview = c.key, !.error = None, !.loading = FALSE,
                                                  !.page = p, !.busy = b], {})
    BY <1>4 DEF Tab!SummaryAnswered
  <2>2. PICK s : s = [session EXCEPT !.overview = c.key, !.error = None, !.loading = FALSE,
                                     !.page = p, !.busy = b]
    OBVIOUS
  <2>3. /\ DOMAIN s = SessionFields /\ s.key = session.key /\ s.overview = c.key /\ s.loading = FALSE
        /\ s.busy = b
    BY <1>1, <2>2 DEF SessionFields
  <2>4. /\ summaries' = summaries \ {c} /\ serverKey' = serverKey /\ mixed' = (c.key # session.key)
    BY <1>4 DEF Tab!SummaryAnswered
  <2> QED
    BY <1>1, <2>1, <2>2, <2>3, <2>4, AnswerTaken
<1>5. ASSUME NEW c \in summaries, Tab!SummaryRefused(c) PROVE TabSound'
  <2>1. PICK t, b : t = [session EXCEPT !.overview = None, !.error = "unauthorized"] /\ b = (session.busy /\ ~c.form)
    OBVIOUS
  <2>2. DOMAIN t = SessionFields /\ t.overview = None /\ t.busy = session.busy /\ t.key = session.key
    BY <1>1, <2>1 DEF SessionFields
  <2>3. PICK w : w = Tab!WithKey(t, None)
    OBVIOUS
  <2>4. DOMAIN w = SessionFields /\ w.key = None /\ w.overview = None /\ w.busy = session.busy
    BY <2>2, <2>3, Keyed
  <2>5. PICK s : s = [w EXCEPT !.loading = FALSE, !.busy = b]
    OBVIOUS
  <2>6. DOMAIN s = SessionFields /\ s.key = None /\ s.overview = None /\ s.loading = FALSE /\ s.busy = b
    BY <2>4, <2>5 DEF SessionFields
  <2>7. [w EXCEPT !.loading = FALSE, !.busy = @ /\ ~c.form] = s
    BY <2>1, <2>4, <2>5
  <2>8. /\ Tab!Render(s, {}) /\ summaries' = summaries \ {c} /\ serverKey' = serverKey
    BY <1>5, <2>1, <2>3, <2>7 DEF Tab!SummaryRefused
  <2> QED
    BY <2>1, <2>6, <2>8, AnswerTaken
<1>6. ASSUME NEW c \in summaries, Tab!SummaryFailed(c) PROVE TabSound'
  <2>1. PICK b : b = (session.busy /\ ~c.form)
    OBVIOUS
  <2>2. PICK s : s = [session EXCEPT !.overview = None, !.error = "other", !.loading = FALSE, !.busy = b]
    OBVIOUS
  <2>3. /\ DOMAIN s = SessionFields /\ s.key = session.key /\ s.overview = None /\ s.error = "other"
        /\ s.loading = FALSE /\ s.busy = b
    BY <1>1, <2>2 DEF SessionFields
  <2>4. Tab!Render(s, {}) /\ summaries' = summaries \ {c} /\ serverKey' = serverKey
    BY <1>6, <2>1, <2>2 DEF Tab!SummaryFailed
  <2>5. s.error # None
    BY <2>3, ConsoleAssumption DEF ConsoleAssumption, Tab!SignInAssumption
  <2> QED
    BY <2>1, <2>3, <2>4, <2>5, AnswerTaken
<1>7. ASSUME NEW r \in rotations, Tab!Rotate(r) PROVE TabSound'
  <2>1. UNCHANGED <<session, summaries, mixed>>
    BY <1>7 DEF Tab!Rotate
  <2>2. PICK q : /\ rotations' = (rotations \ {r}) \cup {q}
                 /\ \/ /\ serverKey' = serverKey + 1
                       /\ \E v \in {"ok", "failed"} :
                             q = [r EXCEPT !.verdict = v, !.secret = IF v = "ok" THEN serverKey + 1 ELSE None]
                    \/ serverKey' = serverKey /\ q = [r EXCEPT !.verdict = "failed"]
    BY <1>7 DEF Tab!Rotate
  <2>3. serverKey' \in Nat /\ serverKey + 1 # None
    BY <1>1, <2>2
  <2>4. DOMAIN r = {"key", "mounted", "verdict", "secret"}
    BY <1>1
  <2>5. DOMAIN q = {"key", "mounted", "verdict", "secret"} /\ (q.verdict = "ok" => q.secret # None)
    <3>1. ASSUME NEW v, q = [r EXCEPT !.verdict = v, !.secret = IF v = "ok" THEN serverKey + 1 ELSE None]
          PROVE  DOMAIN q = {"key", "mounted", "verdict", "secret"} /\ (q.verdict = "ok" => q.secret # None)
      <4>1. PICK x : x = (IF v = "ok" THEN serverKey + 1 ELSE None)
        OBVIOUS
      <4>2. DOMAIN q = DOMAIN r /\ q.verdict = v /\ q.secret = x
        BY <2>4, <3>1, <4>1
      <4> QED
        BY <2>3, <2>4, <4>1, <4>2
    <3>2. ASSUME q = [r EXCEPT !.verdict = "failed"]
          PROVE  DOMAIN q = {"key", "mounted", "verdict", "secret"} /\ (q.verdict = "ok" => q.secret # None)
      BY <2>4, <3>2
    <3> QED
      BY <2>2, <3>1, <3>2
  <2>6. \A e \in rotations' : e \in rotations \/ e = q
    BY <2>2
  <2> QED
    BY <1>1, <2>1, <2>3, <2>5, <2>6 DEF TabSound, TabTyped, TabWaits, TabFits
<1>8. ASSUME NEW r \in rotations, Tab!RotationAnswered(r) PROVE TabSound'
  <2>1. PICK k, c, w : k = r.secret /\ c = Tab!Summary(asked + 1, k, FALSE) /\ w = Tab!WithKey(session, k)
    OBVIOUS
  <2>2. k # None
    BY <1>1, <1>8, <2>1 DEF Tab!RotationAnswered
  <2>3. /\ DOMAIN w = SessionFields /\ w.key = k /\ w.page = session.page /\ w.busy = session.busy
        /\ (k = session.key => w = session)
    BY <1>1, <2>1, Keyed
  <2>4. PICK x, t : /\ x = IF r.mounted THEN k ELSE w.secret
                    /\ t = (w.rotating /\ ~r.mounted)
    OBVIOUS
  <2>5. PICK s : s = [w EXCEPT !.secret = x, !.rotating = t]
    OBVIOUS
  <2>6. /\ DOMAIN s = SessionFields /\ s.key = k /\ s.page = w.page /\ s.busy = w.busy
        /\ s.overview = w.overview /\ s.error = w.error /\ s.loading = w.loading
    BY <2>3, <2>5 DEF SessionFields
  <2>7. /\ Tab!Render(s, {r}) /\ UNCHANGED <<serverKey, mixed>>
        /\ summaries' = summaries \cup (IF Tab!Asks(session, k) THEN {c} ELSE {})
    BY <1>8, <2>1, <2>4, <2>5 DEF Tab!RotationAnswered, Tab!Ask
  <2>8. /\ DOMAIN session' = SessionFields
        /\ session'.key = s.key /\ session'.overview = s.overview /\ session'.error = s.error
        /\ session'.loading = s.loading /\ (session'.busy => s.busy)
        /\ s.key # None /\ s.overview # None => session'.page \in Tab!Console
        /\ \A q \in rotations' : /\ DOMAIN q = {"key", "mounted", "verdict", "secret"}
                                 /\ q.verdict = "ok" => q.secret # None
    BY <2>6, <2>7, Rendered DEF TabSound
  <2>9. DOMAIN c = {"id", "key", "form", "verdict"} /\ c.key = k
    BY <2>1, <2>2, Asked
  <2>10. TabTyped'
    BY <1>1, <2>2, <2>7, <2>8, <2>9 DEF TabTyped
  <2>11. CASE k = session.key
    <3>1. ~Tab!Asks(session, k)
      BY <2>11 DEF Tab!Asks
    <3>2. summaries' = summaries
      BY <2>7, <3>1
    <3> QED
      BY <2>2, <2>3, <2>6, <2>7, <2>8, <2>10, <2>11, <3>2 DEF TabSound, TabWaits, TabFits
  <2>12. CASE k # session.key
    <3>1. summaries' = summaries \cup {c}
      BY <2>2, <2>7, <2>12 DEF Tab!Asks
    <3> QED
      BY <2>2, <2>3, <2>6, <2>7, <2>8, <2>9, <2>10, <3>1 DEF TabSound, TabWaits, TabFits
  <2> QED
    BY <2>11, <2>12
<1>9. ASSUME NEW r \in rotations, Tab!RotationFailed(r) PROVE TabSound'
  <2>1. PICK t : t = (session.rotating /\ ~r.mounted)
    OBVIOUS
  <2>2. /\ session' = [session EXCEPT !.rotating = t] /\ UNCHANGED <<serverKey, summaries, mixed>>
        /\ rotations' = rotations \ {r}
    BY <1>9, <2>1 DEF Tab!RotationFailed
  <2>3. /\ DOMAIN session' = SessionFields /\ session'.key = session.key /\ session'.error = session.error
        /\ session'.overview = session.overview /\ session'.loading = session.loading
        /\ session'.page = session.page /\ session'.busy = session.busy
    BY <1>1, <2>2 DEF SessionFields
  <2> QED
    BY <2>2, <2>3 DEF TabSound, TabTyped, TabWaits, TabFits
<1> QED
  BY <1>2, <1>3, <1>4, <1>5, <1>6, <1>7, <1>8, <1>9

\* Every step of the tab.
LEMMA TabStep == ASSUME TabSound, Tab!SignInNext PROVE TabSound'
BY OperatorSteps, ServerSteps DEF Tab!SignInNext

-----------------------------------------------------------------------------
(* Proofs: the accounts *)

\* The page counts as everybody does.
LEMMA AccountsCount ==
  ASSUME NEW S
  PROVE  (Accounts!IsFiniteSet(S) <=> IsFiniteSet(S)) /\ Accounts!Cardinality(S) = Cardinality(S)
<1>1. Accounts!IsFiniteSet(S) <=> IsFiniteSet(S)
  BY DEF Accounts!IsFiniteSet, IsFiniteSet
<1>2. Accounts!Cardinality(S) = Cardinality(S)
  BY DEF Accounts!Cardinality, Cardinality
<1> QED
  BY <1>1, <1>2

\* What is assumed of the accounts, and what None is not.
LEMMA AccountsGiven ==
  /\ IsFiniteSet(Account) /\ RefreshBatch \in Nat \ {0} /\ PageSize \in Nat \ {0}
  /\ None \notin Account /\ None \notin Rows /\ None \notin Accounts!Reply /\ None \notin Accounts!OperationType
BY ConsoleAssumption, AccountsCount DEF ConsoleAssumption, Accounts!AccountsAssumption, Rows

\* Pages: there is one, and the last has rows.
LEMMA LastPage ==
  ASSUME NEW n \in Nat
  PROVE  /\ Accounts!PageTotal(n) \in Nat \ {0}
         /\ \A p \in Nat \ {0} : n > 0 /\ p <= Accounts!PageTotal(n) => (p - 1) * PageSize < n
<1>1. PageSize \in Nat \ {0}
  BY AccountsGiven
<1>2. CASE n = 0
  BY <1>2 DEF Accounts!PageTotal
<1>3. CASE n # 0
  <2>1. PICK q : q = (n + PageSize - 1) \div PageSize
    OBVIOUS
  <2>2. Accounts!PageTotal(n) = q
    BY <1>3, <2>1 DEF Accounts!PageTotal
  <2>3. q \in Int /\ q * PageSize <= n + PageSize - 1 /\ n + PageSize - 1 < q * PageSize + PageSize
    BY <1>1, <2>1
  <2>4. q > 0
    <3>1. SUFFICES ASSUME q <= 0 PROVE FALSE
      BY <2>3
    <3>2. q * PageSize <= 0
      BY <1>1, <2>3, <3>1
    <3> QED
      BY <1>1, <1>3, <2>3, <3>2
  <2>5. ASSUME NEW p \in Nat \ {0}, p <= q PROVE (p - 1) * PageSize < n
    <3>1. (p - 1) * PageSize <= (q - 1) * PageSize
      BY <1>1, <2>3, <2>5
    <3>2. (q - 1) * PageSize = q * PageSize - PageSize
      BY <1>1, <2>3
    <3>3. (p - 1) * PageSize \in Int /\ q * PageSize \in Int
      BY <1>1, <2>3
    <3> QED
      BY <1>1, <2>3, <3>1, <3>2, <3>3
  <2> QED
    BY <2>2, <2>3, <2>4, <2>5
<1> QED
  BY <1>2, <1>3

\* The rows a filter leaves are finitely many.
LEMMA MatchingCount ==
  ASSUME NEW rws, NEW msk, NEW f
  PROVE  /\ Cardinality(Accounts!Matching(rws, msk, f)) \in Nat
         /\ Accounts!Cardinality(Accounts!Matching(rws, msk, f)) = Cardinality(Accounts!Matching(rws, msk, f))
<1>1. Accounts!Matching(rws, msk, f) \subseteq Account
  BY DEF Accounts!Matching
<1> QED
  BY <1>1, AccountsGiven, AccountsCount, FS_Subset, FS_CardinalityType

\* A render leaves a page there is.
LEMMA Viewed ==
  ASSUME NEW v, DOMAIN v = {"filter", "page", "loading"}, v.page \in Nat \ {0}, NEW rws, NEW msk, NEW f
  PROVE  /\ DOMAIN Accounts!AccountsView(v, rws, msk, f) = {"filter", "page", "loading"}
         /\ Accounts!AccountsView(v, rws, msk, f).filter = f
         /\ Accounts!AccountsView(v, rws, msk, f).page \in Nat \ {0}
         /\ Accounts!AccountsView(v, rws, msk, f).page
              <= Accounts!PageTotal(Cardinality(Accounts!Matching(rws, msk, f)))
<1>1. PICK last, p : /\ last = Accounts!PageTotal(Cardinality(Accounts!Matching(rws, msk, f)))
                     /\ p = IF v.filter # f THEN 1 ELSE v.page
  OBVIOUS
<1>2. last \in Nat \ {0} /\ p \in Nat \ {0}
  BY <1>1, MatchingCount, LastPage
<1>3. PICK x : x = IF p > last THEN last ELSE p
  OBVIOUS
<1>4. Accounts!AccountsView(v, rws, msk, f) = [v EXCEPT !.filter = f, !.page = x]
  BY <1>1, <1>3, MatchingCount DEF Accounts!AccountsView
<1>5. x \in Nat \ {0} /\ x <= last
  BY <1>2, <1>3
<1> QED
  BY <1>1, <1>4, <1>5

\* Rows are loaded for good: the server only goes on, the page only takes what was read.
LEMMA OpKept ==
  ASSUME NEW op, IsOp(op), \A a \in Account : Loaded(a) => Loaded(a)'
  PROVE  IsOp(op)'
<1>1. Writes(op) => Writes(op)'
  BY DEF Writes
<1>2. Lists(op) => Lists(op)'
  BY DEF Lists
<1>3. Refreshes(op) => Refreshes(op)'
  <2>1. SUFFICES ASSUME Refreshes(op) PROVE Refreshes(op)'
    OBVIOUS
  <2>2. \A c \in op.calls : c \in CallOf("row", Account) /\ Loaded(c.id)'
    BY <2>1 DEF Refreshes, CallOf
  <2>3. ASSUME NEW ids \in SUBSET Account, \A a \in ids : Loaded(a) PROVE \A a \in ids : Loaded(a)'
    BY <2>3
  <2> QED
    BY <2>1, <2>2, <2>3 DEF Refreshes
<1>4. Exports(op)' <=> Exports(op)
  BY DEF Exports
<1> QED
  BY <1>1, <1>2, <1>3, <1>4 DEF IsOp

\* What an operation's request is.
LEMMA CallIs ==
  ASSUME NEW op, IsOp(op), NEW c \in op.calls
  PROVE  /\ c \in Accounts!Call /\ DOMAIN c = {"what", "id", "back"}
         /\ c.what = "write" => Writes(op) /\ op.calls = {c} /\ c.id = op.id
         /\ c.what = "list" => Lists(op) /\ op.calls = {c} /\ c.id = op.id
         /\ c.what = "row" => Refreshes(op) /\ c.id \in Account /\ Loaded(c.id)
         /\ c.what = "read" => Exports(op)
<1>1. c \in Accounts!Call /\ DOMAIN c = {"what", "id", "back"}
  BY DEF IsOp, Accounts!OperationType, Accounts!Call
<1>2. CASE Writes(op)
  BY <1>1, <1>2 DEF Writes, CallOf
<1>3. CASE Lists(op)
  BY <1>1, <1>3 DEF Lists, CallOf
<1>4. CASE Refreshes(op)
  BY <1>1, <1>4 DEF Refreshes, CallOf
<1>5. CASE Exports(op)
  BY <1>1, <1>5 DEF Exports, CallOf
<1> QED
  BY <1>2, <1>3, <1>4, <1>5 DEF IsOp

ReqType == [what : Accounts!Question, ids : SUBSET (Account \cup {None})]

\* The requests a chain can hold.
LEMMA Chains ==
  /\ <<>> \in Seq(ReqType)
  /\ \A what \in Accounts!Question, ids \in SUBSET (Account \cup {None}) :
       /\ Accounts!Req(what, ids) \in ReqType /\ Accounts!Req(what, ids).what = what
       /\ Accounts!Req(what, ids).ids = ids
  /\ \A r \in ReqType : /\ <<r>> \in Seq(ReqType) /\ <<r>> # <<>> /\ Head(<<r>>) = r /\ Tail(<<r>>) = <<>>
                        /\ <<r>> \o <<>> = <<r>>
  /\ \A r, s \in ReqType : /\ <<r, s>> \in Seq(ReqType) /\ <<r, s>> # <<>>
                           /\ Head(<<r, s>>) = r /\ Tail(<<r, s>>) = <<s>>
  /\ \A r, s, t \in ReqType : /\ <<r, s, t>> \in Seq(ReqType) /\ <<r, s, t>> # <<>>
                              /\ Head(<<r, s, t>>) = r /\ Tail(<<r, s, t>>) = <<s, t>>
<1>1. \A what \in Accounts!Question, ids \in SUBSET (Account \cup {None}) :
        /\ Accounts!Req(what, ids) \in ReqType /\ Accounts!Req(what, ids).what = what
        /\ Accounts!Req(what, ids).ids = ids
  BY DEF Accounts!Req, ReqType
<1>2. \A r \in ReqType : /\ <<r>> \in Seq(ReqType) /\ <<r>> # <<>> /\ Head(<<r>>) = r /\ Tail(<<r>>) = <<>>
                         /\ <<r>> \o <<>> = <<r>>
  <2>1. ASSUME NEW r \in ReqType PROVE <<r>> \in Seq(ReqType) /\ <<r>> # <<>>
    OBVIOUS
  <2>2. ASSUME NEW r \in ReqType PROVE Head(<<r>>) = r /\ Tail(<<r>>) = <<>>
    OBVIOUS
  <2>3. ASSUME NEW r \in ReqType PROVE <<r>> \o <<>> = <<r>>
    BY <2>1, ConcatEmptySeq
  <2> QED
    BY <2>1, <2>2, <2>3
<1>3. \A r, s \in ReqType : /\ <<r, s>> \in Seq(ReqType) /\ <<r, s>> # <<>>
                            /\ Head(<<r, s>>) = r /\ Tail(<<r, s>>) = <<s>>
  OBVIOUS
<1>4. \A r, s, t \in ReqType : /\ <<r, s, t>> \in Seq(ReqType) /\ <<r, s, t>> # <<>>
                               /\ Head(<<r, s, t>>) = r /\ Tail(<<r, s, t>>) = <<s, t>>
  OBVIOUS
<1>5. <<>> \in Seq(ReqType)
  OBVIOUS
<1> QED
  BY <1>1, <1>2, <1>3, <1>4, <1>5

\* An operation with other calls and another chain, and the calls for some accounts.
With(op, calls, chain) == [op EXCEPT !.calls = calls, !.chain = chain]
Asks(what, ids) == {[what |-> what, id |-> a, back |-> None] : a \in ids}

\* Such an operation is one.
LEMMA OpWith ==
  ASSUME NEW op \in Accounts!OperationType, NEW calls \in SUBSET Accounts!Call, NEW chain \in Seq(ReqType),
         NEW n, n = With(op, calls, chain)
  PROVE  /\ n \in Accounts!OperationType /\ n.kind = op.kind /\ n.id = op.id /\ n.on = op.on
         /\ n.calls = calls /\ n.chain = chain
BY DEF Accounts!OperationType, ReqType, With

\* Calls for one account are one call.
LEMMA AsksOne == ASSUME NEW what, NEW x PROVE Asks(what, {x}) = {[what |-> what, id |-> x, back |-> None]}
BY DEF Asks

\* A sent request, or batch of them: a batch is all there is, or of the batch's size.
SentAs(op, head, n) ==
  \E batch \in SUBSET head.ids : \E chain :
    /\ batch = head.ids \/ Accounts!Cardinality(batch) = RefreshBatch
    /\ n = With(op, Asks(head.what, batch), chain)
    /\ chain = IF batch = head.ids THEN Tail(op.chain)
               ELSE <<Accounts!Req(head.what, head.ids \ batch)>> \o Tail(op.chain)

\* What is sent is sent so.
LEMMA SentIs ==
  ASSUME NEW op, op.chain # <<>>, NEW n \in Accounts!Sent(op)
  PROVE  SentAs(op, Head(op.chain), n)
<1>0. PICK head : head = Head(op.chain)
  OBVIOUS
<1> DEFINE F(batch) == [op EXCEPT !.calls = {[what |-> Head(op.chain).what, id |-> a, back |-> None] : a \in batch},
                                  !.chain = IF batch = Head(op.chain).ids THEN Tail(@)
                                            ELSE <<Accounts!Req(Head(op.chain).what, Head(op.chain).ids \ batch)>>
                                                 \o Tail(@)]
           B == {b \in SUBSET Head(op.chain).ids :
                   \/ b = Head(op.chain).ids /\ Accounts!Cardinality(b) <= RefreshBatch
                   \/ Accounts!Cardinality(b) = RefreshBatch}
<1>1. Accounts!Sent(op) = {F(batch) : batch \in B}
  BY Zenon DEF Accounts!Sent
<1> HIDE DEF F, B
<1>2. PICK batch \in B : n = F(batch)
  BY <1>1
<1>3. batch \in SUBSET head.ids /\ (batch = head.ids \/ Accounts!Cardinality(batch) = RefreshBatch)
  BY <1>0 DEF B
<1>4. PICK chain : chain = IF batch = head.ids THEN Tail(op.chain)
                           ELSE <<Accounts!Req(head.what, head.ids \ batch)>> \o Tail(op.chain)
  OBVIOUS
<1>5. n = With(op, Asks(head.what, batch), chain)
  BY <1>0, <1>2, <1>4 DEF F, With, Asks
<1> QED
  BY <1>0, <1>3, <1>4, <1>5 DEF SentAs

\* A request for one thing is sent alone, since a batch has at least one.
LEMMA SentOne ==
  ASSUME NEW op, op.chain # <<>>, NEW head, head = Head(op.chain), NEW x, head.ids = {x},
         NEW n \in Accounts!Sent(op)
  PROVE  n = With(op, {[what |-> head.what, id |-> x, back |-> None]}, Tail(op.chain))
<1>1. PICK batch \in SUBSET head.ids : \E chain :
        /\ batch = head.ids \/ Accounts!Cardinality(batch) = RefreshBatch
        /\ n = With(op, Asks(head.what, batch), chain)
        /\ chain = IF batch = head.ids THEN Tail(op.chain)
                   ELSE <<Accounts!Req(head.what, head.ids \ batch)>> \o Tail(op.chain)
  <2>1. SentAs(op, head, n)
    BY SentIs
  <2> QED
    BY <2>1 DEF SentAs
<1>2. batch = {x}
  <2>1. SUFFICES ASSUME batch = {} PROVE Accounts!Cardinality(batch) # RefreshBatch
    BY <1>1
  <2>2. Accounts!Cardinality({}) = 0
    BY AccountsCount, FS_EmptySet
  <2> QED
    BY <2>1, <2>2, AccountsGiven
<1>3. n = With(op, Asks(head.what, {x}), Tail(op.chain))
  BY <1>1, <1>2
<1> QED
  BY <1>3, AsksOne

\* Rows are refreshed in batches.
LEMMA SentRows ==
  ASSUME NEW op, NEW ids \in SUBSET Account, op.chain = <<Accounts!Req("row", ids)>>, NEW n \in Accounts!Sent(op)
  PROVE  \E batch \in SUBSET ids : \E chain \in {<<>>, <<Accounts!Req("row", ids \ batch)>>} :
           n = With(op, Asks("row", batch), chain)
<1>1. ids \in SUBSET (Account \cup {None}) /\ "row" \in Accounts!Question
  BY DEF Accounts!Question
<1>2. PICK head : head = Accounts!Req("row", ids)
  OBVIOUS
<1>3. /\ head \in ReqType /\ head.what = "row" /\ head.ids = ids /\ op.chain = <<head>>
      /\ op.chain # <<>> /\ Head(op.chain) = head /\ Tail(op.chain) = <<>>
  BY <1>1, <1>2, Chains
<1>4. PICK batch \in SUBSET head.ids : \E chain :
        /\ batch = head.ids \/ Accounts!Cardinality(batch) = RefreshBatch
        /\ n = With(op, Asks(head.what, batch), chain)
        /\ chain = IF batch = head.ids THEN Tail(op.chain)
                   ELSE <<Accounts!Req(head.what, head.ids \ batch)>> \o Tail(op.chain)
  <2>1. SentAs(op, head, n)
    BY <1>3, SentIs
  <2> QED
    BY <2>1 DEF SentAs
<1>5. PICK r : r = Accounts!Req("row", ids \ batch)
  OBVIOUS
<1>6. <<r>> \o <<>> = <<r>>
  <2>1. ids \ batch \in SUBSET (Account \cup {None})
    BY <1>1
  <2>2. r \in ReqType
    BY <1>1, <1>5, <2>1, Chains
  <2> QED
    BY <2>2, Chains
<1>7. PICK chain : /\ n = With(op, Asks("row", batch), chain)
                   /\ chain = IF batch = ids THEN <<>> ELSE <<r>> \o <<>>
  BY <1>3, <1>4, <1>5
<1>8. chain \in {<<>>, <<Accounts!Req("row", ids \ batch)>>}
  BY <1>5, <1>6, <1>7
<1>9. batch \in SUBSET ids
  BY <1>3
<1> QED
  BY <1>7, <1>8, <1>9

\* A chain that an operation begins or goes on with.
ReadyList(op) ==
  \/ op.chain = <<Accounts!Req("list", {op.id})>>
  \/ /\ op.id \in Account /\ Loaded(op.id)
     /\ op.chain = <<Accounts!Req("list", {op.id}), Accounts!Req("row", {op.id})>>

ReadyWrite(op) ==
  /\ op.id \in Account
  /\ \/ op.chain = <<Accounts!Req("write", {op.id}), Accounts!Req("list", {op.id})>>
     \/ /\ Loaded(op.id)
        /\ op.chain = <<Accounts!Req("write", {op.id}), Accounts!Req("list", {op.id}),
                        Accounts!Req("row", {op.id})>>

ReadyRows(op) ==
  \E ids \in SUBSET Account : (\A a \in ids : Loaded(a)) /\ op.chain = <<Accounts!Req("row", ids)>>

ReadyRead(op) == \E a \in Account : op.chain = <<Accounts!Req("read", {a})>>

Ready(op) ==
  /\ op \in Accounts!OperationType
  /\ op.kind \notin {"reload", "credits"} => op.id \in Account
  /\ ReadyList(op) \/ ReadyWrite(op) \/ ReadyRows(op) \/ ReadyRead(op)

\* What is sent for account x, and whose answers are all awaited.
Fresh(n) == \A c \in n.calls : c.back = None

CallFor(what, x) == [what |-> what, id |-> x, back |-> None]

\* Such a call is one of its kind.
LEMMA CallForIs ==
  ASSUME NEW what \in Accounts!Question, NEW x \in Account \cup {None}
  PROVE  /\ CallFor(what, x) \in CallOf(what, {x}) /\ CallFor(what, x) \in Accounts!Call
         /\ CallFor(what, x).back = None /\ CallFor(what, x).what = what /\ CallFor(what, x).id = x
BY DEF CallFor, CallOf, Accounts!Call

\* A request for x.
One(what, x) == Accounts!Req(what, {x})

\* It is one.
LEMMA ReqFor ==
  ASSUME NEW what \in Accounts!Question, NEW x \in Account \cup {None}
  PROVE  One(what, x) \in ReqType /\ One(what, x).what = what /\ One(what, x).ids = {x}
BY Chains DEF One

\* What a chain asks next, and then.
Leads(op, r, tl) == op.chain # <<>> /\ Head(op.chain) = r /\ Tail(op.chain) = tl

\* Chains of one, two and three requests.
LEMMA LeadsOne ==
  ASSUME NEW op, NEW r \in ReqType, op.chain = <<r>>
  PROVE  Leads(op, r, <<>>) /\ <<>> \in Seq(ReqType)
BY Chains DEF Leads

\* Two.
LEMMA LeadsTwo ==
  ASSUME NEW op, NEW r \in ReqType, NEW s \in ReqType, op.chain = <<r, s>>
  PROVE  Leads(op, r, <<s>>) /\ <<s>> \in Seq(ReqType)
<1>1. Head(<<r, s>>) = r /\ Tail(<<r, s>>) = <<s>> /\ <<r, s>> # <<>> /\ <<s>> \in Seq(ReqType)
  BY Chains
<1> QED
  BY <1>1 DEF Leads

\* Three.
LEMMA LeadsThree ==
  ASSUME NEW op, NEW r \in ReqType, NEW s \in ReqType, NEW t \in ReqType, op.chain = <<r, s, t>>
  PROVE  Leads(op, r, <<s, t>>) /\ <<s, t>> \in Seq(ReqType)
<1>1. Head(<<r, s, t>>) = r /\ Tail(<<r, s, t>>) = <<s, t>> /\ <<r, s, t>> # <<>> /\ <<s, t>> \in Seq(ReqType)
  BY Chains
<1> QED
  BY <1>1 DEF Leads

\* The next request of an operation, when it is for one thing.
LEMMA SentFor ==
  ASSUME NEW op \in Accounts!OperationType, NEW what \in Accounts!Question, NEW x \in Account \cup {None},
         NEW r, r = One(what, x),
         NEW tl \in Seq(ReqType), Leads(op, r, tl),
         NEW n \in Accounts!Sent(op)
  PROVE  /\ n \in Accounts!OperationType /\ n.kind = op.kind /\ n.id = op.id
         /\ n.calls = {CallFor(what, x)} /\ n.chain = tl
<1>1. PICK head : head = Head(op.chain)
  OBVIOUS
<1>0. op.chain # <<>> /\ Head(op.chain) = r /\ Tail(op.chain) = tl
  BY DEF Leads
<1>2. head.what = what /\ head.ids = {x}
  BY <1>0, <1>1, ReqFor
<1>3. n = With(op, {[what |-> head.what, id |-> x, back |-> None]}, Tail(op.chain))
  BY <1>0, <1>1, <1>2, SentOne
<1>4. n = With(op, {CallFor(what, x)}, Tail(op.chain))
  BY <1>2, <1>3 DEF CallFor
<1>5. CallFor(what, x) \in Accounts!Call
  BY CallForIs
<1>6. PICK cs, chain : cs = {CallFor(what, x)} /\ chain = tl
  OBVIOUS
<1>7. cs \in SUBSET Accounts!Call /\ chain \in Seq(ReqType) /\ n = With(op, cs, chain)
  BY <1>0, <1>4, <1>5, <1>6
<1>8. /\ n \in Accounts!OperationType /\ n.kind = op.kind /\ n.id = op.id
      /\ n.calls = cs /\ n.chain = chain
  BY <1>7, OpWith
<1> QED
  BY <1>6, <1>8

\* What is sent is an operation under way.
LEMMA SentOp ==
  ASSUME NEW op, Ready(op), NEW n \in Accounts!Sent(op)
  PROVE  /\ IsOp(n) /\ n.kind = op.kind /\ n.id = op.id /\ Fresh(n)
         /\ ReadyList(op) => n.calls = {CallFor("list", op.id)}
<1>1. op \in Accounts!OperationType /\ (op.kind \notin {"reload", "credits"} => op.id \in Account)
  BY DEF Ready
<1>2. /\ op.id \in Account \cup {None}
      /\ "write" \in Accounts!Question /\ "list" \in Accounts!Question
      /\ "row" \in Accounts!Question /\ "read" \in Accounts!Question
  BY <1>1 DEF Accounts!OperationType, Accounts!Question
<1>3. CASE ReadyList(op)
  <2>1. PICK r, s : r = One("list", op.id) /\ s = One("row", op.id)
    OBVIOUS
  <2>2. r \in ReqType /\ s \in ReqType
    BY <1>2, <2>1, ReqFor
  <2>3. PICK tl \in Seq(ReqType) :
          Leads(op, r, tl) /\ (tl = <<>> \/ (op.id \in Account /\ Loaded(op.id) /\ tl = <<s>>))
    <3>1. CASE op.chain = <<r>>
      BY <2>2, <3>1, LeadsOne
    <3>2. CASE op.id \in Account /\ Loaded(op.id) /\ op.chain = <<r, s>>
      BY <2>2, <3>2, LeadsTwo
    <3> QED
      BY <1>3, <2>1, <3>1, <3>2 DEF ReadyList, One
  <2>4. /\ n \in Accounts!OperationType /\ n.kind = op.kind /\ n.id = op.id
        /\ n.calls = {CallFor("list", op.id)} /\ n.chain = tl
    BY <1>1, <1>2, <2>1, <2>3, SentFor
  <2>5. CallFor("list", op.id) \in CallOf("list", {op.id}) /\ CallFor("list", op.id).back = None
    BY <1>2, CallForIs
  <2>6. Lists(n)
    BY <2>1, <2>3, <2>4, <2>5 DEF Lists, One
  <2> QED
    BY <1>1, <2>4, <2>5, <2>6 DEF IsOp, Fresh
<1>4. CASE ReadyWrite(op) /\ ~ReadyList(op)
  <2>1. PICK q, r, s : /\ q = One("write", op.id) /\ r = One("list", op.id)
                       /\ s = One("row", op.id)
    OBVIOUS
  <2>2. q \in ReqType /\ r \in ReqType /\ s \in ReqType
    BY <1>2, <2>1, ReqFor
  <2>3. op.chain = <<q, r>> \/ (Loaded(op.id) /\ op.chain = <<q, r, s>>)
    BY <1>4, <2>1 DEF ReadyWrite, One
  <2>4. PICK tl \in Seq(ReqType) : Leads(op, q, tl) /\ (tl = <<r>> \/ (Loaded(op.id) /\ tl = <<r, s>>))
    BY <2>2, <2>3, LeadsTwo, LeadsThree
  <2>5. /\ n \in Accounts!OperationType /\ n.kind = op.kind /\ n.id = op.id
        /\ n.calls = {CallFor("write", op.id)} /\ n.chain = tl
    BY <1>1, <1>2, <2>1, <2>4, SentFor
  <2>6. CallFor("write", op.id) \in CallOf("write", {op.id}) /\ CallFor("write", op.id).back = None
    BY <1>2, CallForIs
  <2>7. Writes(n)
    BY <1>4, <2>1, <2>4, <2>5, <2>6 DEF Writes, ReadyWrite, One
  <2> QED
    BY <1>1, <1>4, <2>5, <2>6, <2>7 DEF IsOp, Fresh
<1>5. CASE ReadyRead(op) /\ ~ReadyList(op)
  <2>1. PICK a \in Account : op.chain = <<Accounts!Req("read", {a})>>
    BY <1>5 DEF ReadyRead
  <2>2. PICK r : r = One("read", a)
    OBVIOUS
  <2>3. r \in ReqType
    BY <1>2, <2>2, ReqFor
  <2>4. PICK tl \in Seq(ReqType) : Leads(op, r, tl) /\ tl = <<>>
    BY <2>1, <2>2, <2>3, LeadsOne DEF One
  <2>0. a \in Account \cup {None} /\ Leads(op, r, tl)
    BY <2>4
  <2>5. /\ n \in Accounts!OperationType /\ n.kind = op.kind /\ n.id = op.id
        /\ n.calls = {CallFor("read", a)} /\ n.chain = tl
    BY <1>1, <1>2, <2>0, <2>2, SentFor
  <2>6. CallFor("read", a) \in CallOf("read", {a}) /\ CallFor("read", a).back = None
    BY <1>2, CallForIs
  <2>7. CallFor("read", a) \in CallOf("read", Account)
    BY <2>6 DEF CallOf
  <2> QED
    BY <1>1, <1>5, <2>4, <2>5, <2>6, <2>7 DEF IsOp, Fresh, Exports
<1>6. CASE ReadyRows(op) /\ ~ReadyList(op)
  <2>1. PICK ids \in SUBSET Account : (\A a \in ids : Loaded(a)) /\ op.chain = <<Accounts!Req("row", ids)>>
    BY <1>6 DEF ReadyRows
  <2>2. PICK batch \in SUBSET ids : \E chain \in {<<>>, <<Accounts!Req("row", ids \ batch)>>} :
          n = With(op, Asks("row", batch), chain)
    BY <2>1, SentRows
  <2>3. PICK chain : /\ chain \in {<<>>, <<Accounts!Req("row", ids \ batch)>>}
                     /\ n = With(op, Asks("row", batch), chain)
    BY <2>2
  <2>4. PICK r : r = Accounts!Req("row", ids \ batch)
    OBVIOUS
  <2>5. ids \ batch \in SUBSET (Account \cup {None}) /\ ids \ batch \in SUBSET Account
    OBVIOUS
  <2>6. r \in ReqType
    BY <1>2, <2>4, <2>5, Chains
  <2>7. chain \in Seq(ReqType)
    BY <2>3, <2>4, <2>6, Chains
  <2>8. \A c \in Asks("row", batch) : /\ c \in Accounts!Call /\ c \in CallOf("row", Account)
                                      /\ c.back = None /\ c.id \in batch
    <3>1. SUFFICES ASSUME NEW x \in batch
                   PROVE  /\ CallFor("row", x) \in Accounts!Call /\ CallFor("row", x) \in CallOf("row", Account)
                          /\ CallFor("row", x).back = None /\ CallFor("row", x).id = x
      BY DEF Asks, CallFor
    <3>2. x \in Account
      OBVIOUS
    <3>3. CallFor("row", x) \in CallOf("row", {x}) /\ CallFor("row", x) \in Accounts!Call
          /\ CallFor("row", x).back = None /\ CallFor("row", x).id = x
      BY <1>2, <3>2, CallForIs
    <3>4. CallFor("row", x) \in CallOf("row", Account)
      BY <3>2, <3>3 DEF CallOf
    <3> QED
      BY <3>3, <3>4
  <2>9. Asks("row", batch) \in SUBSET Accounts!Call
    BY <2>8
  <2>10. /\ n \in Accounts!OperationType /\ n.kind = op.kind /\ n.id = op.id
         /\ n.calls = Asks("row", batch) /\ n.chain = chain
    BY <1>1, <2>3, <2>7, <2>9, OpWith
  <2>11. \A a \in ids \ batch : Loaded(a)
    BY <2>1
  <2>12. \A c \in n.calls : c \in CallOf("row", Account) /\ Loaded(c.id)
    BY <2>1, <2>8, <2>10
  <2>13. Refreshes(n)
    BY <2>3, <2>5, <2>10, <2>11, <2>12 DEF Refreshes
  <2> QED
    BY <1>1, <1>6, <2>8, <2>10, <2>13 DEF IsOp, Fresh
<1> QED
  BY <1>3, <1>4, <1>5, <1>6 DEF Ready

\* A pressed operation is ready to be sent.
LEMMA PressReady ==
  ASSUME AccountsTyped, NEW a \in Account,
         NEW kind \in {"toggle", "settings", "auto", "delete", "checkin", "login", "refresh", "export", "reload"},
         kind # "reload" => Loaded(a)
  PROVE  /\ Ready(Accounts!NewOp(kind, a, Accounts!Chain(kind, a)))
         /\ kind = "reload" => ReadyList(Accounts!NewOp(kind, a, Accounts!Chain(kind, a)))
         /\ Accounts!NewOp(kind, a, Accounts!Chain(kind, a)).kind = kind
         /\ Accounts!NewOp(kind, a, Accounts!Chain(kind, a)).id = a
<1>1. PICK op, chain : chain = Accounts!Chain(kind, a) /\ op = Accounts!NewOp(kind, a, chain)
  OBVIOUS
<1>2. PICK q, r, s, t : /\ q = One("write", a) /\ r = One("list", a)
                        /\ s = One("row", a) /\ t = One("read", a)
  OBVIOUS
<1>3. q \in ReqType /\ r \in ReqType /\ s \in ReqType /\ t \in ReqType
  BY <1>2, ReqFor DEF Accounts!Question
<1>4. CASE kind \in {"toggle", "settings", "auto", "delete", "checkin"}
  <2>1. chain = <<q, r>>
    BY <1>1, <1>2, <1>4 DEF Accounts!Chain, One
  <2>2. chain \in Seq(ReqType)
    BY <1>3, <2>1
  <2>3. op \in Accounts!OperationType /\ op.kind = kind /\ op.id = a /\ op.chain = chain
    BY <1>1, <1>4, <2>2 DEF Accounts!NewOp, Accounts!OperationType, ReqType
  <2>4. ReadyWrite(op)
    BY <1>2, <2>1, <2>3 DEF ReadyWrite, One
  <2> QED
    BY <1>1, <1>4, <2>3, <2>4 DEF Ready
<1>5. CASE kind = "login"
  <2>1. chain = <<q, r, s>>
    BY <1>1, <1>2, <1>5 DEF Accounts!Chain, One
  <2>2. chain \in Seq(ReqType)
    BY <1>3, <2>1
  <2>3. op \in Accounts!OperationType /\ op.kind = kind /\ op.id = a /\ op.chain = chain
    BY <1>1, <1>5, <2>2 DEF Accounts!NewOp, Accounts!OperationType, ReqType
  <2>4. ReadyWrite(op)
    BY <1>2, <1>5, <2>1, <2>3 DEF ReadyWrite, One
  <2> QED
    BY <1>1, <1>5, <2>3, <2>4 DEF Ready
<1>6. CASE kind = "refresh"
  <2>1. chain = <<s>>
    BY <1>1, <1>2, <1>6 DEF Accounts!Chain, One
  <2>2. chain \in Seq(ReqType)
    BY <1>3, <2>1
  <2>3. op \in Accounts!OperationType /\ op.kind = kind /\ op.id = a /\ op.chain = chain
    BY <1>1, <1>6, <2>2 DEF Accounts!NewOp, Accounts!OperationType, ReqType
  <2>4. ReadyRows(op)
    <3>1. PICK ids : ids = {a}
      OBVIOUS
    <3>2. ids \in SUBSET Account /\ (\A x \in ids : Loaded(x)) /\ op.chain = <<Accounts!Req("row", ids)>>
      BY <1>2, <1>6, <2>1, <2>3, <3>1 DEF One
    <3> QED
      BY <3>2 DEF ReadyRows
  <2> QED
    BY <1>1, <1>6, <2>3, <2>4 DEF Ready
<1>7. CASE kind = "export"
  <2>1. chain = <<t>>
    BY <1>1, <1>2, <1>7 DEF Accounts!Chain, One
  <2>2. chain \in Seq(ReqType)
    BY <1>3, <2>1
  <2>3. op \in Accounts!OperationType /\ op.kind = kind /\ op.id = a /\ op.chain = chain
    BY <1>1, <1>7, <2>2 DEF Accounts!NewOp, Accounts!OperationType, ReqType
  <2>4. ReadyRead(op)
    BY <1>2, <2>1, <2>3 DEF ReadyRead, One
  <2> QED
    BY <1>1, <1>7, <2>3, <2>4 DEF Ready
<1>8. CASE kind = "reload"
  <2>1. chain = <<r>>
    BY <1>1, <1>2, <1>8 DEF Accounts!Chain, One
  <2>2. chain \in Seq(ReqType)
    BY <1>3, <2>1
  <2>3. op \in Accounts!OperationType /\ op.kind = kind /\ op.id = a /\ op.chain = chain
    BY <1>1, <1>8, <2>2 DEF Accounts!NewOp, Accounts!OperationType, ReqType
  <2>4. ReadyList(op)
    BY <1>2, <2>1, <2>3 DEF ReadyList, One
  <2> QED
    BY <1>1, <1>8, <2>3, <2>4 DEF Ready
<1> QED
  BY <1>4, <1>5, <1>6, <1>7, <1>8

\* What is begun is one operation more.
LEMMA Begun ==
  ASSUME NEW kind, NEW a, NEW chain, Accounts!Begin(kind, a, chain), NEW op,
         op = Accounts!NewOp(kind, a, chain), Ready(op)
  PROVE  \E o \in Operation : \E n :
           /\ ops[o] = None /\ ops' = [ops EXCEPT ![o] = n]
           /\ IsOp(n) /\ n.kind = op.kind /\ n.id = op.id /\ Fresh(n)
           /\ ReadyList(op) => n.calls = {CallFor("list", op.id)}
<1>1. PICK o \in Operation : ops[o] = None /\ \E n \in Accounts!Sent(op) : ops' = [ops EXCEPT ![o] = n]
  BY DEF Accounts!Begin
<1>2. PICK n \in Accounts!Sent(op) : ops' = [ops EXCEPT ![o] = n]
  BY <1>1
<1>3. /\ IsOp(n) /\ n.kind = op.kind /\ n.id = op.id /\ Fresh(n)
      /\ ReadyList(op) => n.calls = {CallFor("list", op.id)}
  BY SentOp
<1> QED
  BY <1>1, <1>2, <1>3

\* An operation that is there is not None.
LEMMA IsNotNone == ASSUME NEW op, IsOp(op) PROVE op # None
BY AccountsGiven DEF IsOp

\* A begun operation disturbs no other: what comes still comes, what is held is held.
LEMMA Started ==
  ASSUME AccountsTyped, SnapshotsHold, NEW o \in Operation, NEW n, ops[o] = None, IsOp(n), Fresh(n),
         ops' = [ops EXCEPT ![o] = n], UNCHANGED <<server, list, heard, missed>>
  PROVE  /\ SnapshotsHold'
         /\ DOMAIN ops' = Operation /\ \A p \in Operation : (ops[p] # None => IsOp(ops[p]))'
         /\ AccountsCome => AccountsCome'
         /\ \A a \in Account : \A kind : Held(a, kind) => Held(a, kind)'
         /\ \A a \in Account : n.id = a => Held(a, n.kind)'
<1>1. /\ DOMAIN ops = Operation /\ DOMAIN ops' = Operation /\ ops'[o] = n
      /\ \A p \in Operation : p # o => ops'[p] = ops[p]
  BY DEF AccountsTyped
<1>2. \A p \in Operation : ops[p] # None => ops'[p] = ops[p]
  BY <1>1
<1>3. \A a \in Account : Loaded(a)' <=> Loaded(a)
  BY DEF Loaded, Snapshot
<1>4. SnapshotsHold'
  <2>1. \A p \in Operation : ops'[p] # None /\ p # o => ops[p] # None /\ ops'[p].calls = ops[p].calls
    BY <1>1
  <2>2. \A c \in ops'[o].calls : c.back = None
    BY <1>1 DEF Fresh
  <2> QED
    BY <1>3, <2>1, <2>2 DEF SnapshotsHold, Snapshot
<1>5. ASSUME NEW p \in Operation PROVE (ops[p] # None => IsOp(ops[p]))'
  <2>1. PICK x : x = ops'[p]
    OBVIOUS
  <2>2. x # None => IsOp(x)
    BY <1>1, <2>1 DEF AccountsTyped
  <2>3. x # None => IsOp(x)'
    BY <1>3, <2>2, OpKept
  <2> QED
    BY <2>1, <2>3
<1>6. ASSUME AccountsCome PROVE AccountsCome'
  <2>1. \A a \in Account : Coming(a) => Coming(a)'
    BY <1>2 DEF Coming, Brings
  <2>2. \A a \in Account : Heard(a) => Heard(a)'
    BY DEF Heard
  <2> QED
    BY <1>6, <2>1, <2>2 DEF AccountsCome
<1>7. \A a \in Account : \A kind : Held(a, kind) => Held(a, kind)'
  BY <1>2 DEF Held
<1>8. \A a \in Account : n.id = a => Held(a, n.kind)'
  BY <1>1, IsNotNone DEF Held
<1> QED
  BY <1>1, <1>4, <1>5, <1>6, <1>7, <1>8

\* The server goes on with one account: what was read stays a snapshot.
LEMMA ServerOn ==
  ASSUME AccountsTyped, SnapshotsHold, NEW x \in Account, NEW r \in Accounts!AccountRow,
         r.ver = server[x].ver + 1, server' = [server EXCEPT ![x] = r], UNCHANGED <<list, heard>>
  PROVE  /\ server' \in Rows /\ server'[x] = r /\ \A a \in Account \ {x} : server'[a] = server[a]
         /\ \A a \in Account : \A row \in Accounts!AccountRow :
              Snapshot(row, server[a]) => Snapshot(row, server'[a])
         /\ \A a \in Account : heard[a] <= server'[a].ver /\ list[a].ver <= server'[a].ver
         /\ \A a \in Account : Loaded(a) => Loaded(a)'
<1>1. server \in Rows /\ list \in Rows /\ heard \in [Account -> Nat]
  BY DEF AccountsTyped
<1>2. server' \in Rows /\ server'[x] = r /\ \A a \in Account \ {x} : server'[a] = server[a]
  BY <1>1 DEF Rows
<1>3. \A a \in Account : /\ server[a] \in Accounts!AccountRow /\ list[a] \in Accounts!AccountRow
                         /\ heard[a] \in Nat /\ heard[a] <= server[a].ver /\ list[a].ver <= server[a].ver
  BY <1>1 DEF Rows, SnapshotsHold
<1>4. \A row \in Accounts!AccountRow : row.ver \in Nat
  BY DEF Accounts!AccountRow
<1>5. \A a \in Account : heard[a] <= server'[a].ver /\ list[a].ver <= server'[a].ver
  BY <1>2, <1>3, <1>4
<1>6. ASSUME NEW a \in Account, NEW row \in Accounts!AccountRow, Snapshot(row, server[a])
      PROVE  Snapshot(row, server'[a])
  <2>1. CASE a = x
    BY <1>2, <1>3, <1>4, <1>6, <2>1 DEF Snapshot
  <2>2. CASE a # x
    BY <1>2, <1>6, <2>2
  <2> QED
    BY <2>1, <2>2
<1>7. \A a \in Account : Loaded(a) => Loaded(a)'
  BY <1>3, <1>6 DEF Loaded, Snapshot
<1> QED
  BY <1>2, <1>5, <1>6, <1>7

\* An operation one of whose calls is answered is what it was.
LEMMA AnswerIs ==
  ASSUME NEW op, IsOp(op), NEW c \in op.calls, NEW ans \in Accounts!Reply, NEW d, d = [c EXCEPT !.back = ans],
         NEW n, n = [op EXCEPT !.calls = (@ \ {c}) \cup {d}]
  PROVE  /\ IsOp(n) /\ n.kind = op.kind /\ n.id = op.id /\ n.calls = (op.calls \ {c}) \cup {d}
         /\ d.back = ans /\ d.what = c.what /\ d.id = c.id
<1>1. /\ c \in Accounts!Call /\ DOMAIN c = {"what", "id", "back"}
      /\ c.what = "write" => Writes(op) /\ op.calls = {c} /\ c.id = op.id
      /\ c.what = "list" => Lists(op) /\ op.calls = {c} /\ c.id = op.id
      /\ c.what = "row" => Refreshes(op) /\ c.id \in Account /\ Loaded(c.id)
      /\ c.what = "read" => Exports(op)
  BY CallIs
<1>2. d.back = ans /\ d.what = c.what /\ d.id = c.id /\ d \in Accounts!Call
  BY <1>1 DEF Accounts!Call
<1>3. /\ n \in Accounts!OperationType /\ n.kind = op.kind /\ n.id = op.id /\ n.chain = op.chain
      /\ n.calls = (op.calls \ {c}) \cup {d}
  BY <1>2 DEF IsOp, Accounts!OperationType
<1>4. \A what, ids : c \in CallOf(what, ids) => d \in CallOf(what, ids)
  BY <1>1, <1>2 DEF CallOf
<1>5. Writes(op) => Writes(n)
  BY <1>3, <1>4 DEF Writes
<1>6. Lists(op) => Lists(n)
  BY <1>3, <1>4 DEF Lists
<1>7. Refreshes(op) => Refreshes(n)
  <2>1. SUFFICES ASSUME Refreshes(op) PROVE Refreshes(n)
    OBVIOUS
  <2>2. \A e \in op.calls : e \in CallOf("row", Account) /\ Loaded(e.id)
    BY <2>1 DEF Refreshes
  <2>3. d \in CallOf("row", Account) /\ Loaded(d.id)
    BY <1>2, <1>4, <2>2
  <2>4. \A e \in n.calls : e \in CallOf("row", Account) /\ Loaded(e.id)
    BY <1>3, <2>2, <2>3
  <2> QED
    BY <1>3, <2>1, <2>4 DEF Refreshes
<1>8. Exports(op) => Exports(n)
  BY <1>3, <1>4 DEF Exports
<1> QED
  BY <1>2, <1>3, <1>5, <1>6, <1>7, <1>8 DEF IsOp

\* An operation that is replaced by itself further on holds what it held.
LEMMA HeldOn ==
  ASSUME AccountsTyped, NEW o \in Operation, ops[o] # None, NEW n, n # None,
         n.kind = ops[o].kind, n.id = ops[o].id, ops' = [ops EXCEPT ![o] = n]
  PROVE  /\ \A a \in Account : \A kind : Held(a, kind) => Held(a, kind)'
         /\ DOMAIN ops' = Operation /\ ops'[o] = n /\ \A p \in Operation : p # o => ops'[p] = ops[p]
<1>1. DOMAIN ops' = Operation /\ ops'[o] = n /\ \A p \in Operation : p # o => ops'[p] = ops[p]
  BY DEF AccountsTyped
<1> QED
  BY <1>1 DEF Held

\* How the server serves a call: it answers with what it has, after the change if the
\* call asks for one, or with an error.
LEMMA ServeIs ==
  ASSUME AccountsTyped, NEW o \in Operation, ops[o] # None, NEW c \in ops[o].calls, Accounts!Serve(o, c)
  PROVE  \E ans \in Accounts!Reply :
           /\ ops' = [ops EXCEPT ![o].calls = (@ \ {c}) \cup {[c EXCEPT !.back = ans]}]
           /\ \/ c.what \in {"list", "read"} /\ ans.ok /\ ans.rows = server /\ server' = server
              \/ /\ c.what \in {"row", "write"} /\ c.id \in Account /\ ans.rows = server'
                 /\ \E r \in Accounts!AccountRow :
                      r.ver = server[c.id].ver + 1 /\ server' = [server EXCEPT ![c.id] = r]
              \/ ~ans.ok /\ ans.rows = None /\ server' = server
<1>1. IsOp(ops[o]) /\ server \in Rows
  BY DEF AccountsTyped
<1>2. PICK op : op = ops[o]
  OBVIOUS
<1>3. /\ c.what = "write" => Writes(op) /\ op.calls = {c} /\ c.id = op.id
      /\ c.what = "row" => Refreshes(op) /\ c.id \in Account /\ Loaded(c.id)
  BY <1>1, <1>2, CallIs
<1>4. ASSUME NEW x \in Rows, NEW b \in BOOLEAN PROVE [ok |-> b, rows |-> x] \in Accounts!Reply
  BY DEF Accounts!Reply, Rows
<1>5. [ok |-> FALSE, rows |-> None] \in Accounts!Reply
  BY DEF Accounts!Reply
<1>6. CASE /\ c.what \in {"list", "read"}
           /\ ops' = [ops EXCEPT ![o].calls = (@ \ {c}) \cup {[c EXCEPT !.back = [ok |-> TRUE, rows |-> server]]}]
           /\ UNCHANGED <<server, faults>>
  <2>1. PICK ans : ans = [ok |-> TRUE, rows |-> server]
    OBVIOUS
  <2>2. ans \in Accounts!Reply /\ ans.ok /\ ans.rows = server
    BY <1>1, <1>4, <2>1
  <2> QED
    BY <1>6, <2>1, <2>2
<1>7. CASE /\ c.what = "row" \/ c.what = "write"
           /\ server' = [server EXCEPT ![c.id] = Accounts!Changed(ops[o], c, @)]
           /\ \E b \in BOOLEAN :
                ops' = [ops EXCEPT ![o].calls =
                          (@ \ {c}) \cup {[c EXCEPT !.back = [ok |-> b, rows |-> server']]}]
  <2>1. PICK r : r = Accounts!Changed(op, c, server[c.id])
    OBVIOUS
  <2>2. c.id \in Account
    BY <1>3, <1>7 DEF Writes
  <2>3. server[c.id] \in Accounts!AccountRow /\ op.on \in BOOLEAN
    BY <1>1, <1>2, <2>2 DEF Rows, IsOp, Accounts!OperationType
  <2>4. r \in Accounts!AccountRow /\ r.ver = server[c.id].ver + 1
    <3>1. PICK x, new : x = server[c.id] /\ new = [x EXCEPT !.ver = @ + 1]
      OBVIOUS
    <3>2. new \in Accounts!AccountRow /\ new.ver = x.ver + 1
      BY <2>3, <3>1 DEF Accounts!AccountRow
    <3>3. \A b \in BOOLEAN : /\ [new EXCEPT !.on = b] \in Accounts!AccountRow
                             /\ [new EXCEPT !.on = b].ver = new.ver
      BY <3>2 DEF Accounts!AccountRow
    <3>4. [new EXCEPT !.there = FALSE] \in Accounts!AccountRow /\ [new EXCEPT !.there = FALSE].ver = new.ver
      BY <3>2 DEF Accounts!AccountRow
    <3>5. r \in {new, [new EXCEPT !.on = op.on], [new EXCEPT !.there = FALSE]}
      BY <2>1, <3>1 DEF Accounts!Changed
    <3> QED
      BY <2>3, <3>1, <3>2, <3>3, <3>4, <3>5
  <2>5. server' = [server EXCEPT ![c.id] = r]
    BY <1>2, <1>7, <2>1
  <2>6. server' \in Rows
    BY <1>1, <2>2, <2>4, <2>5 DEF Rows
  <2>7. PICK b \in BOOLEAN :
          ops' = [ops EXCEPT ![o].calls = (@ \ {c}) \cup {[c EXCEPT !.back = [ok |-> b, rows |-> server']]}]
    BY <1>7
  <2>8. PICK ans : ans = [ok |-> b, rows |-> server']
    OBVIOUS
  <2>9. ans \in Accounts!Reply /\ ans.rows = server'
    BY <1>4, <2>6, <2>8
  <2>10. ops' = [ops EXCEPT ![o].calls = (@ \ {c}) \cup {[c EXCEPT !.back = ans]}]
    BY <2>7, <2>8
  <2> QED
    BY <1>7, <2>2, <2>4, <2>5, <2>9, <2>10
<1>8. CASE /\ ops' = [ops EXCEPT ![o].calls = (@ \ {c}) \cup {[c EXCEPT !.back = [ok |-> FALSE, rows |-> None]]}]
           /\ UNCHANGED server
  <2>1. PICK ans : ans = [ok |-> FALSE, rows |-> None]
    OBVIOUS
  <2>2. ans \in Accounts!Reply /\ ~ans.ok /\ ans.rows = None
    BY <1>5, <2>1
  <2> QED
    BY <1>8, <2>1, <2>2
<1> QED
  BY <1>6, <1>7, <1>8 DEF Accounts!Serve

\* Serving a call.
LEMMA ServeStep ==
  ASSUME AccountsSound, NEW o \in Operation, ops[o] # None, NEW c \in ops[o].calls, Accounts!Serve(o, c)
  PROVE  AccountsSound'
<1>1. AccountsTyped /\ SnapshotsHold /\ AccountsCome /\ MasksAreHeld /\ PageExists
  BY DEF AccountsSound
<1>2. c.back = None /\ UNCHANGED <<list, masks, busy, view, heard, missed>>
  BY DEF Accounts!Serve
<1>3. PICK op : op = ops[o] /\ IsOp(op)
  BY <1>1 DEF AccountsTyped
<1>4. PICK ans \in Accounts!Reply :
        /\ ops' = [ops EXCEPT ![o].calls = (@ \ {c}) \cup {[c EXCEPT !.back = ans]}]
        /\ \/ c.what \in {"list", "read"} /\ ans.ok /\ ans.rows = server /\ server' = server
           \/ /\ c.what \in {"row", "write"} /\ c.id \in Account /\ ans.rows = server'
              /\ \E r \in Accounts!AccountRow :
                   r.ver = server[c.id].ver + 1 /\ server' = [server EXCEPT ![c.id] = r]
           \/ ~ans.ok /\ ans.rows = None /\ server' = server
  BY <1>1, ServeIs
<1>5. PICK d : d = [c EXCEPT !.back = ans]
  OBVIOUS
<1>6. PICK n : n = [op EXCEPT !.calls = (@ \ {c}) \cup {d}]
  OBVIOUS
<1>7. ops' = [ops EXCEPT ![o] = n]
  BY <1>3, <1>4, <1>5, <1>6
<1>8. /\ IsOp(n) /\ n.kind = op.kind /\ n.id = op.id /\ n.calls = (op.calls \ {c}) \cup {d}
      /\ d.back = ans /\ d.what = c.what /\ d.id = c.id
  BY <1>3, <1>5, <1>6, AnswerIs
<1>9. n # None /\ ans # None /\ ans.rows \in Rows \cup {None}
  BY <1>8, IsNotNone, AccountsGiven DEF Accounts!Reply, Rows
<1>10. /\ \A a \in Account : \A kind : Held(a, kind) => Held(a, kind)'
       /\ DOMAIN ops' = Operation /\ ops'[o] = n /\ \A p \in Operation : p # o => ops'[p] = ops[p]
  BY <1>1, <1>3, <1>7, <1>8, <1>9, HeldOn
<1>11. /\ server' \in Rows
       /\ \A a \in Account : \A row \in Accounts!AccountRow :
            Snapshot(row, server[a]) => Snapshot(row, server'[a])
       /\ \A a \in Account : heard[a] <= server'[a].ver /\ list[a].ver <= server'[a].ver
       /\ \A a \in Account : Loaded(a) => Loaded(a)'
  <2>1. CASE server' = server
    BY <1>1, <1>2, <2>1 DEF AccountsTyped, SnapshotsHold, Loaded
  <2>2. CASE \E r \in Accounts!AccountRow :
               c.id \in Account /\ r.ver = server[c.id].ver + 1 /\ server' = [server EXCEPT ![c.id] = r]
    BY <1>1, <1>2, <2>2, ServerOn
  <2> QED
    BY <1>4, <2>1, <2>2
<1>12. AccountsTyped'
  <2>1. ASSUME NEW p \in Operation PROVE (ops[p] # None => IsOp(ops[p]))'
    <3>1. PICK x : x = ops'[p]
      OBVIOUS
    <3>2. x # None => IsOp(x)
      BY <1>1, <1>8, <1>10, <3>1 DEF AccountsTyped
    <3>3. x # None => IsOp(x)'
      BY <1>11, <3>2, OpKept
    <3> QED
      BY <3>1, <3>3
  <2> QED
    BY <1>1, <1>2, <1>10, <1>11, <2>1 DEF AccountsTyped
<1>13. SnapshotsHold'
  <2>1. \A e \in n.calls : e.back # None =>
          /\ e.back.ok => e.back.rows # None
          /\ e.back.rows # None => \A a \in Account : Snapshot(e.back.rows[a], server'[a])
    <3>1. ASSUME NEW e \in op.calls, e.back # None
          PROVE  /\ e.back.ok => e.back.rows # None
                 /\ e.back.rows # None => \A a \in Account : Snapshot(e.back.rows[a], server'[a])
      <4>1. /\ e.back.ok => e.back.rows # None
            /\ e.back.rows # None => \A a \in Account : Snapshot(e.back.rows[a], server[a])
        BY <1>1, <1>3, <3>1, IsNotNone DEF SnapshotsHold
      <4>2. e.back.rows # None => e.back.rows \in Rows
        BY <1>3, <3>1, CallIs DEF Accounts!Call, Accounts!Reply, Rows
      <4>3. \A rws \in Rows, a \in Account : rws[a] \in Accounts!AccountRow
        BY DEF Rows
      <4> QED
        BY <1>11, <4>1, <4>2, <4>3
    <3>2. /\ ans.ok => ans.rows # None
          /\ ans.rows # None => \A a \in Account : Snapshot(ans.rows[a], server'[a])
      <4>1. \A row \in Accounts!AccountRow : Snapshot(row, row)
        BY DEF Snapshot, Accounts!AccountRow
      <4>2. \A a \in Account : server'[a] \in Accounts!AccountRow
        BY <1>11 DEF Rows
      <4>3. server' # None
        BY <1>11, AccountsGiven
      <4> QED
        BY <1>4, <4>1, <4>2, <4>3
    <3> QED
      BY <1>8, <3>1, <3>2
  <2>2. ASSUME NEW p \in Operation, p # o, ops[p] # None, NEW e \in ops[p].calls, e.back # None
        PROVE  /\ e.back.ok => e.back.rows # None
               /\ e.back.rows # None => \A a \in Account : Snapshot(e.back.rows[a], server'[a])
    <3>1. /\ e.back.ok => e.back.rows # None
          /\ e.back.rows # None => \A a \in Account : Snapshot(e.back.rows[a], server[a])
      BY <1>1, <2>2 DEF SnapshotsHold
    <3>2. PICK x : x = ops[p] /\ IsOp(x)
      BY <1>1, <2>2 DEF AccountsTyped
    <3>3. e.back.rows # None => e.back.rows \in Rows
      BY <2>2, <3>2, CallIs DEF Accounts!Call, Accounts!Reply, Rows
    <3>4. \A rws \in Rows, a \in Account : rws[a] \in Accounts!AccountRow
      BY DEF Rows
    <3> QED
      BY <1>11, <3>1, <3>3, <3>4
  <2>3. \A a \in Account : list'[a].there => Loaded(a)'
    BY <1>1, <1>2, <1>11 DEF SnapshotsHold
  <2>4. ASSUME NEW p \in Operation, ops'[p] # None, NEW e \in ops'[p].calls, e.back # None
        PROVE  /\ e.back.ok => e.back.rows # None
               /\ e.back.rows # None => \A a \in Account : Snapshot(e.back.rows[a], server'[a])
    BY <1>10, <2>1, <2>2, <2>4
  <2>5. \A a \in Account : heard'[a] <= server'[a].ver /\ list'[a].ver <= server'[a].ver
    BY <1>2, <1>11
  <2> QED
    BY <2>3, <2>4, <2>5 DEF SnapshotsHold, Snapshot
<1>14. AccountsCome'
  <2>1. SUFFICES ASSUME NEW a \in Account PROVE (a \in missed \/ Coming(a) \/ Heard(a))'
    BY DEF AccountsCome
  <2>2. CASE server'[a] = server[a]
    <3>1. CASE a \in missed \/ Heard(a)
      BY <1>2, <2>2, <3>1 DEF Heard
    <3>2. ASSUME NEW p \in Operation, ops[p] # None, NEW e \in ops[p].calls, Brings(ops[p].id, e, a)
          PROVE  Coming(a)'
      <4>1. PICK id : id = ops[p].id
        OBVIOUS
      <4>2. Brings(id, e, a)'
        BY <2>2, <3>2, <4>1 DEF Brings
      <4>3. CASE p = o /\ e = c
        <5>1. c.what = "list" /\ id \in {None, a}
          BY <1>2, <3>2, <4>1, <4>3 DEF Brings
        <5>2. ~ans.ok \/ ans.rows[a].ver = server'[a].ver
          BY <1>4, <5>1
        <5>3. Brings(id, d, a)'
          BY <1>8, <5>1, <5>2 DEF Brings
        <5>4. ops'[o] # None /\ d \in ops'[o].calls /\ ops'[o].id = id
          BY <1>3, <1>8, <1>9, <1>10, <4>1, <4>3
        <5> QED
          BY <5>3, <5>4 DEF Coming
      <4>4. CASE ~(p = o /\ e = c)
        <5>1. ops'[p] # None /\ e \in ops'[p].calls /\ ops'[p].id = id
          BY <1>3, <1>8, <1>9, <1>10, <3>2, <4>1, <4>4
        <5> QED
          BY <4>2, <5>1 DEF Coming
      <4> QED
        BY <4>3, <4>4
    <3> QED
      BY <1>1, <3>1, <3>2 DEF AccountsCome, Coming
  <2>3. CASE server'[a] # server[a]
    <3>1. c.what \in {"row", "write"} /\ c.id \in Account /\ ans.rows = server' /\ c.id = a
      <4>1. /\ c.what \in {"row", "write"} /\ c.id \in Account /\ ans.rows = server'
            /\ \E r \in Accounts!AccountRow :
                 r.ver = server[c.id].ver + 1 /\ server' = [server EXCEPT ![c.id] = r]
        BY <1>4, <2>3
      <4>2. server \in Rows
        BY <1>1 DEF AccountsTyped
      <4> QED
        BY <1>1, <1>2, <2>3, <4>1, <4>2, ServerOn
    <3>2. ans.rows # None /\ ans.rows[a].ver = server'[a].ver
      BY <1>11, <3>1, AccountsGiven
    <3>3. PICK id : id = op.id
      OBVIOUS
    <3>4. Brings(id, d, a)'
      BY <1>8, <1>9, <3>1, <3>2 DEF Brings
    <3>5. ops'[o] # None /\ d \in ops'[o].calls /\ ops'[o].id = id
      BY <1>8, <1>9, <1>10, <3>3
    <3> QED
      BY <3>4, <3>5 DEF Coming
  <2> QED
    BY <2>2, <2>3
<1>15. MasksAreHeld'
  BY <1>1, <1>2, <1>10 DEF MasksAreHeld
<1>16. PageExists'
  BY <1>1, <1>2 DEF PageExists
<1> QED
  BY <1>12, <1>13, <1>14, <1>15, <1>16 DEF AccountsSound

\* An answer that tells of an account as it is leaves the page with it, or with an older
\* row if it shows none.
HeardAs(a, was, now, rws) ==
  \/ now[a] = rws[a]
  \/ ~was[a].there /\ now[a] = was[a]

\* What a told answer is.
LEMMA ToldIs ==
  ASSUME NEW op, IsOp(op), NEW c \in op.calls, c.back # None, list \in Rows,
         c.back.ok => c.back.rows # None
  PROVE  /\ Accounts!Took(c) \in Rows
         /\ \A a \in Account : a \notin Accounts!Told(c) => Accounts!Took(c)[a] = list[a]
         /\ \A a \in Account : a \in Accounts!Told(c) =>
              /\ c.back.ok /\ c.back.rows \in Rows /\ c.what \in {"list", "row"}
              /\ HeardAs(a, list, Accounts!Took(c), c.back.rows)
              /\ c.what = "row" => Loaded(a) /\ c.id = a
              /\ c.what = "list" => Accounts!Took(c)[a] = c.back.rows[a]
<1>1. /\ c \in Accounts!Call /\ DOMAIN c = {"what", "id", "back"}
      /\ c.what = "row" => Refreshes(op) /\ c.id \in Account /\ Loaded(c.id)
      /\ c.what = "write" => Writes(op) /\ op.calls = {c} /\ c.id = op.id
      /\ c.what = "list" => Lists(op) /\ op.calls = {c} /\ c.id = op.id
      /\ c.what = "read" => Exports(op)
  BY CallIs
<1>2. c.what \in {"write", "list", "row", "read"} /\ c.back \in Accounts!Reply
  BY <1>1 DEF Accounts!Call, Accounts!Question
<1>3. c.back.ok => c.back.rows \in Rows
  BY <1>2 DEF Accounts!Reply, Rows
<1>4. CASE ~c.back.ok \/ c.what \in {"write", "read"}
  BY <1>4 DEF Accounts!Took, Accounts!Told
<1>5. CASE c.back.ok /\ c.what = "list"
  BY <1>3, <1>5 DEF Accounts!Took, Accounts!Told, HeardAs
<1>6. CASE c.back.ok /\ c.what = "row"
  <2>1. PICK r : r = IF list[c.id].there THEN c.back.rows[c.id] ELSE list[c.id]
    OBVIOUS
  <2>2. Accounts!Took(c) = [list EXCEPT ![c.id] = r] /\ Accounts!Told(c) = {c.id}
    BY <1>6, <2>1 DEF Accounts!Took, Accounts!Told
  <2>3. r \in Accounts!AccountRow
    BY <1>1, <1>3, <1>6, <2>1 DEF Rows
  <2>4. /\ Accounts!Took(c) \in Rows /\ Accounts!Took(c)[c.id] = r
        /\ \A a \in Account : a # c.id => Accounts!Took(c)[a] = list[a]
    BY <1>1, <1>6, <2>2, <2>3 DEF Rows
  <2>5. HeardAs(c.id, list, Accounts!Took(c), c.back.rows)
    <3>1. CASE list[c.id].there
      BY <2>1, <2>4, <3>1 DEF HeardAs
    <3>2. CASE ~list[c.id].there
      BY <2>1, <2>4, <3>2 DEF HeardAs
    <3> QED
      BY <3>1, <3>2
  <2> QED
    BY <1>1, <1>3, <1>6, <2>2, <2>4, <2>5
<1> QED
  BY <1>2, <1>4, <1>5, <1>6

\* What an answer does to what the page has, and what it leaves undone.
LEMMA Taken ==
  ASSUME AccountsTyped, SnapshotsHold, NEW op, IsOp(op), NEW c \in op.calls, c.back # None,
         c.back.ok => c.back.rows # None,
         c.back.rows # None => \A a \in Account : Snapshot(c.back.rows[a], server[a]),
         server' = server, list' = Accounts!Took(c), missed' = Accounts!Missing(op, c),
         heard' = [a \in Account |-> IF a \in Accounts!Told(c) /\ c.back.rows[a].ver > heard[a]
                                     THEN c.back.rows[a].ver ELSE heard[a]]
  PROVE  /\ list' \in Rows /\ heard' \in [Account -> Nat]
         /\ \A a \in Account : /\ heard'[a] <= server[a].ver /\ list'[a].ver <= server[a].ver
                               /\ Loaded(a) => Loaded(a)'
                               /\ list'[a].there => Loaded(a)'
         /\ \A a \in Account : a \in missed \/ Heard(a) => (a \in missed \/ Heard(a))'
         /\ \A a \in Account : a \in Accounts!Told(c) /\ c.back.rows[a].ver = server[a].ver => Heard(a)'
<1>1. list \in Rows /\ server \in Rows /\ heard \in [Account -> Nat]
  BY DEF AccountsTyped
<1>2. /\ Accounts!Took(c) \in Rows
      /\ \A a \in Account : a \notin Accounts!Told(c) => Accounts!Took(c)[a] = list[a]
      /\ \A a \in Account : a \in Accounts!Told(c) =>
           /\ c.back.ok /\ c.back.rows \in Rows /\ c.what \in {"list", "row"}
           /\ HeardAs(a, list, Accounts!Took(c), c.back.rows)
           /\ c.what = "row" => Loaded(a) /\ c.id = a
           /\ c.what = "list" => Accounts!Took(c)[a] = c.back.rows[a]
  BY <1>1, ToldIs
<1>3. \A rws \in Rows : \A a \in Account : rws[a] \in Accounts!AccountRow /\ rws[a].ver \in Nat
  BY DEF Rows, Accounts!AccountRow
<1>4. \A a \in Account : /\ heard[a] \in Nat /\ heard[a] <= server[a].ver /\ list[a].ver <= server[a].ver
                         /\ list[a].there => Loaded(a)
  BY <1>1 DEF SnapshotsHold
<1>5. \A a \in Account : a \in Accounts!Told(c) =>
        Snapshot(c.back.rows[a], server[a]) /\ c.back.rows[a].ver \in Nat
  BY <1>2, <1>3
<1>6. heard' \in [Account -> Nat]
  BY <1>1, <1>5
<1>7. ASSUME NEW a \in Account
      PROVE  /\ heard'[a] <= server[a].ver /\ list'[a].ver <= server[a].ver
             /\ Loaded(a) => Loaded(a)'
             /\ list'[a].there => Loaded(a)'
             /\ a \in missed \/ Heard(a) => (a \in missed \/ Heard(a))'
             /\ a \in Accounts!Told(c) /\ c.back.rows[a].ver = server[a].ver => Heard(a)'
  <2>1. CASE a \notin Accounts!Told(c)
    <3>1. list'[a] = list[a] /\ heard'[a] = heard[a]
      BY <1>2, <2>1
    <3>2. a \in missed => a \in missed'
      BY <2>1 DEF Accounts!Missing
    <3> QED
      BY <1>4, <2>1, <3>1, <3>2 DEF Loaded, Heard
  <2>2. CASE a \in Accounts!Told(c)
    <3>1. PICK row : row = c.back.rows[a]
      OBVIOUS
    <3>2. /\ row \in Accounts!AccountRow /\ row.ver \in Nat /\ Snapshot(row, server[a])
          /\ heard'[a] = IF row.ver > heard[a] THEN row.ver ELSE heard[a]
          /\ list'[a] = row \/ (~list[a].there /\ list'[a] = list[a])
          /\ c.what \in {"list", "row"} /\ (c.what = "row" => Loaded(a)) /\ (c.what = "list" => list'[a] = row)
      BY <1>2, <1>3, <1>5, <2>2, <3>1 DEF HeardAs
    <3>3. list[a].ver \in Nat /\ server[a].ver \in Nat
      BY <1>1, <1>3
    <3>4. list'[a] = row \/ (list'[a] = list[a] /\ Loaded(a) /\ ~list[a].there)
      BY <3>2
    <3>5. /\ heard'[a] <= server[a].ver /\ list'[a].ver <= server[a].ver
          /\ (Loaded(a) => Loaded(a)') /\ (list'[a].there => Loaded(a)')
      BY <1>4, <3>2, <3>3, <3>4 DEF Loaded, Snapshot
    <3>6. row.ver = server[a].ver => Heard(a)'
      BY <1>4, <3>2, <3>3, <3>4 DEF Loaded, Snapshot, Heard
    <3>7. row.ver # server[a].ver /\ a \in missed => a \in missed'
      <4>1. row.ver < server[a].ver \/ row.ver = server[a].ver
        BY <3>2, <3>3 DEF Snapshot
      <4> QED
        BY <3>1, <4>1 DEF Accounts!Missing
    <3>8. row.ver # server[a].ver /\ Heard(a) => Heard(a)'
      BY <1>4, <3>2, <3>3, <3>4 DEF Loaded, Snapshot, Heard
    <3> QED
      BY <3>1, <3>5, <3>6, <3>7, <3>8
  <2> QED
    BY <2>1, <2>2
<1> QED
  BY <1>2, <1>6, <1>7

\* An operation without the call that was answered.
Without(op, c) == [op EXCEPT !.calls = @ \ {c}]

\* Other calls beside it are of its kind.
LEMMA RestIs ==
  ASSUME NEW op, IsOp(op), NEW c \in op.calls
  PROVE  /\ Without(op, c) \in Accounts!OperationType
         /\ Without(op, c).kind = op.kind /\ Without(op, c).id = op.id
         /\ Without(op, c).calls = op.calls \ {c} /\ Without(op, c).chain = op.chain
         /\ op.calls \ {c} # {} => /\ IsOp(Without(op, c)) /\ c.what \in {"row", "read"}
                                   /\ \A e \in op.calls : e.what = c.what
<1>1. PICK n : n = Without(op, c)
  OBVIOUS
<1>2. /\ n \in Accounts!OperationType /\ n.kind = op.kind /\ n.id = op.id
      /\ n.calls = op.calls \ {c} /\ n.chain = op.chain
  BY <1>1 DEF IsOp, Accounts!OperationType, Without
<1>3. ASSUME op.calls \ {c} # {}
      PROVE  /\ IsOp(n) /\ c.what \in {"row", "read"}
             /\ \A e \in op.calls : e.what = c.what
  <2>1. ~Writes(op) /\ ~Lists(op)
    BY <1>3 DEF Writes, Lists
  <2>2. CASE Refreshes(op)
    <3>1. Refreshes(n)
      BY <1>2, <2>2 DEF Refreshes
    <3>2. \A e \in op.calls : e.what = "row"
      BY <2>2 DEF Refreshes, CallOf
    <3> QED
      BY <1>2, <3>1, <3>2 DEF IsOp
  <2>3. CASE Exports(op)
    <3>1. Exports(n)
      BY <1>2, <2>3 DEF Exports
    <3>2. \A e \in op.calls : e.what = "read"
      BY <2>3 DEF Exports, CallOf
    <3> QED
      BY <1>2, <3>1, <3>2 DEF IsOp
  <2> QED
    BY <2>1, <2>2, <2>3 DEF IsOp
<1> QED
  BY <1>1, <1>2, <1>3

\* The last call of a request answered, the operation is ready for the next.
LEMMA RestReady ==
  ASSUME NEW op, IsOp(op), NEW c \in op.calls, op.calls \ {c} = {}, op.chain # <<>>
  PROVE  Ready(Without(op, c)) /\ (c.what = "write" => ReadyList(Without(op, c)))
<1>1. PICK n : n = Without(op, c)
  OBVIOUS
<1>2. /\ n \in Accounts!OperationType /\ n.kind = op.kind /\ n.id = op.id /\ n.chain = op.chain
  BY <1>1, RestIs
<1>3. /\ c.what = "write" => Writes(op)
      /\ n.kind \notin {"reload", "credits"} => n.id \in Account
  BY <1>2, CallIs DEF IsOp
<1>4. Writes(op) => ReadyList(n)
  BY <1>2 DEF Writes, ReadyList
<1>5. Lists(op) => ReadyRows(n)
  <2>1. SUFFICES ASSUME Lists(op) PROVE ReadyRows(n)
    OBVIOUS
  <2>2. PICK ids : ids = {op.id}
    OBVIOUS
  <2>3. op.id \in Account /\ op.chain = <<Accounts!Req("row", ids)>> /\ Loaded(op.id)
    BY <2>1, <2>2 DEF Lists
  <2>4. ids \in SUBSET Account /\ \A a \in ids : Loaded(a)
    BY <2>2, <2>3
  <2> QED
    BY <1>2, <2>3, <2>4 DEF ReadyRows
<1>6. Refreshes(op) => ReadyRows(n)
  BY <1>2 DEF Refreshes, ReadyRows
<1>7. ~Exports(op)
  BY DEF Exports
<1>8. Ready(n)
  BY <1>2, <1>3, <1>4, <1>5, <1>6, <1>7 DEF IsOp, Ready
<1> QED
  BY <1>1, <1>3, <1>4, <1>8

\* An answer ends its operation, or the operation goes on.
Ends(op, c) == ~Accounts!GoesOn(op, c) \/ (op.calls \ {c} = {} /\ op.chain = <<>>)

\* How it goes on.
LEMMA GoesOnAs ==
  ASSUME AccountsTyped, NEW o \in Operation, ops[o] # None, NEW op, op = ops[o], NEW c \in op.calls,
         Accounts!Answered(o, c), ~Ends(op, c)
  PROVE  \E n : /\ ops' = [ops EXCEPT ![o] = n] /\ masks' = masks
                /\ IsOp(n) /\ n.kind = op.kind /\ n.id = op.id
                /\ \A e \in n.calls : e.back = None \/ e \in op.calls
                /\ op.calls \ {c} # {} => n.calls = op.calls \ {c}
                /\ c.what = "write" => n.calls = {CallFor("list", op.id)}
<1>1. IsOp(op)
  BY DEF AccountsTyped
<1>2. PICK rest : rest = Without(op, c)
  OBVIOUS
<1>3. /\ rest \in Accounts!OperationType
      /\ rest.kind = op.kind /\ rest.id = op.id
      /\ rest.calls = op.calls \ {c} /\ rest.chain = op.chain
      /\ op.calls \ {c} # {} => IsOp(rest) /\ c.what \in {"row", "read"}
  BY <1>1, <1>2, RestIs
<1>4. /\ IF rest.calls # {} THEN ops' = [ops EXCEPT ![o] = rest]
         ELSE \E next \in Accounts!Sent(rest) : ops' = [ops EXCEPT ![o] = next]
      /\ UNCHANGED <<busy, masks>>
  <2>1. rest = [ops[o] EXCEPT !.calls = @ \ {c}]
    BY <1>2 DEF Without
  <2>2. Accounts!GoesOn(ops[o], c) /\ ~(rest.calls = {} /\ rest.chain = <<>>)
    BY <1>3 DEF Ends
  <2> QED
    BY <2>1, <2>2 DEF Accounts!Answered
<1>5. CASE rest.calls # {}
  BY <1>3, <1>4, <1>5
<1>6. CASE rest.calls = {}
  <2>1. PICK n \in Accounts!Sent(rest) : ops' = [ops EXCEPT ![o] = n]
    BY <1>4, <1>6
  <2>2. op.chain # <<>>
    BY <1>3, <1>6 DEF Ends
  <2>3. Ready(rest) /\ (c.what = "write" => ReadyList(rest))
    BY <1>1, <1>2, <1>3, <1>6, <2>2, RestReady
  <2>4. /\ IsOp(n) /\ n.kind = rest.kind /\ n.id = rest.id /\ Fresh(n)
        /\ ReadyList(rest) => n.calls = {CallFor("list", rest.id)}
    BY <2>1, <2>3, SentOp
  <2> QED
    BY <1>3, <1>4, <1>6, <2>1, <2>3, <2>4 DEF Fresh
<1> QED
  BY <1>5, <1>6

\* How it ends.
LEMMA EndsAs ==
  ASSUME AccountsTyped, NEW o \in Operation, ops[o] # None, NEW op, op = ops[o], NEW c \in op.calls,
         Accounts!Answered(o, c), Ends(op, c)
  PROVE  /\ ops' = [ops EXCEPT ![o] = None]
         /\ masks' \in [Account -> [on : BOOLEAN \cup {None}, fields : BOOLEAN]]
         /\ \A a \in Account : /\ a # op.id => masks'[a] = masks[a]
                               /\ a = op.id /\ masks'[a].on # None => masks[a].on # None /\ op.kind # "toggle"
                               /\ a = op.id /\ masks'[a].fields => masks[a].fields /\ op.kind # "settings"
<1>1. PICK rest : rest = Without(op, c)
  OBVIOUS
<1>2. IsOp(op) /\ masks \in [Account -> [on : BOOLEAN \cup {None}, fields : BOOLEAN]]
  BY DEF AccountsTyped
<1>3. rest.calls = op.calls \ {c} /\ rest.chain = op.chain
  BY <1>1, <1>2, RestIs
<1>4. Accounts!Ended(o, c.back.ok)
  <2>1. rest = [ops[o] EXCEPT !.calls = @ \ {c}]
    BY <1>1 DEF Without
  <2>2. ~Accounts!GoesOn(ops[o], c) \/ (rest.calls = {} /\ rest.chain = <<>>)
    BY <1>3 DEF Ends
  <2> QED
    BY <2>1, <2>2 DEF Accounts!Answered
<1>5. /\ ops' = [ops EXCEPT ![o] = None]
      /\ masks' = IF op.id = None THEN masks ELSE [masks EXCEPT ![op.id] = Accounts!Settled(op, c.back.ok)]
  BY <1>4 DEF Accounts!Ended
<1>6. CASE op.id = None
  BY <1>2, <1>5, <1>6, AccountsGiven
<1>7. CASE op.id # None
  <2>1. op.id \in Account
    BY <1>2, <1>7 DEF IsOp, Accounts!OperationType
  <2>2. PICK m, s : m = masks[op.id] /\ s = Accounts!Settled(op, c.back.ok)
    OBVIOUS
  <2>3. m \in [on : BOOLEAN \cup {None}, fields : BOOLEAN]
    BY <1>2, <2>1, <2>2
  <2>4. s = IF op.kind = "toggle" THEN [m EXCEPT !.on = None]
            ELSE IF op.kind = "settings" THEN [m EXCEPT !.fields = FALSE] ELSE m
    BY <2>2 DEF Accounts!Settled
  <2>5. /\ s \in [on : BOOLEAN \cup {None}, fields : BOOLEAN]
        /\ s.on # None => m.on # None /\ op.kind # "toggle"
        /\ s.fields => m.fields /\ op.kind # "settings"
    BY <2>3, <2>4
  <2>6. masks' = [masks EXCEPT ![op.id] = s]
    BY <1>5, <1>7, <2>2
  <2> QED
    BY <1>2, <1>5, <2>1, <2>2, <2>5, <2>6
<1> QED
  BY <1>6, <1>7

\* Every answer that is there is one the server gave.
LEMMA BackIs ==
  ASSUME AccountsTyped, SnapshotsHold, NEW o \in Operation, ops[o] # None, NEW c \in ops[o].calls, c.back # None
  PROVE  /\ c.back.ok => c.back.rows # None
         /\ c.back.rows # None => \A a \in Account : Snapshot(c.back.rows[a], server[a])
BY DEF SnapshotsHold

\* Taking an answer.
LEMMA AnsweredStep ==
  ASSUME AccountsSound, NEW o \in Operation, ops[o] # None, NEW c \in ops[o].calls, Accounts!Answered(o, c)
  PROVE  AccountsSound'
<1>1. AccountsTyped /\ SnapshotsHold /\ AccountsCome /\ MasksAreHeld /\ PageExists
  BY DEF AccountsSound
<1>2. PICK op : op = ops[o] /\ IsOp(op) /\ c \in op.calls
  BY <1>1 DEF AccountsTyped
<1>3. c.back # None
  BY DEF Accounts!Answered
<1>4. /\ c.back.ok => c.back.rows # None
      /\ c.back.rows # None => \A a \in Account : Snapshot(c.back.rows[a], server[a])
  BY <1>1, <1>3, BackIs
<1>5. /\ server' = server /\ list' = Accounts!Took(c) /\ missed' = Accounts!Missing(op, c)
      /\ heard' = [a \in Account |-> IF a \in Accounts!Told(c) /\ c.back.rows[a].ver > heard[a]
                                     THEN c.back.rows[a].ver ELSE heard[a]]
      /\ view' = [Accounts!AccountsView(view, list', masks', view.filter) EXCEPT !.loading = @ /\ c.what # "list"]
  BY <1>2 DEF Accounts!Answered
<1>6. /\ list' \in Rows /\ heard' \in [Account -> Nat]
      /\ \A a \in Account : /\ heard'[a] <= server[a].ver /\ list'[a].ver <= server[a].ver
                            /\ Loaded(a) => Loaded(a)'
                            /\ list'[a].there => Loaded(a)'
      /\ \A a \in Account : a \in missed \/ Heard(a) => (a \in missed \/ Heard(a))'
      /\ \A a \in Account : a \in Accounts!Told(c) /\ c.back.rows[a].ver = server[a].ver => Heard(a)'
  BY <1>1, <1>2, <1>3, <1>4, <1>5, Taken
<1>7. /\ DOMAIN ops' = Operation /\ \A p \in Operation : p # o => ops'[p] = ops[p]
      /\ masks' \in [Account -> [on : BOOLEAN \cup {None}, fields : BOOLEAN]]
      /\ ops'[o] # None => /\ IsOp(ops'[o]) /\ ops'[o].kind = op.kind /\ ops'[o].id = op.id
                           /\ \A e \in ops'[o].calls : e.back = None \/ e \in op.calls
                           /\ op.calls \ {c} # {} => ops'[o].calls = op.calls \ {c}
                           /\ c.what = "write" => ops'[o].calls = {CallFor("list", op.id)}
      /\ ops'[o] = None <=> Ends(op, c)
  <2>0. DOMAIN ops = Operation /\ masks \in [Account -> [on : BOOLEAN \cup {None}, fields : BOOLEAN]]
    BY <1>1 DEF AccountsTyped
  <2>1. CASE Ends(op, c)
    <3>1. /\ ops' = [ops EXCEPT ![o] = None]
          /\ masks' \in [Account -> [on : BOOLEAN \cup {None}, fields : BOOLEAN]]
      BY <1>1, <1>2, <2>1, EndsAs
    <3> QED
      BY <2>0, <2>1, <3>1
  <2>2. CASE ~Ends(op, c)
    <3>1. PICK n : /\ ops' = [ops EXCEPT ![o] = n] /\ masks' = masks
                   /\ IsOp(n) /\ n.kind = op.kind /\ n.id = op.id
                   /\ \A e \in n.calls : e.back = None \/ e \in op.calls
                   /\ op.calls \ {c} # {} => n.calls = op.calls \ {c}
                   /\ c.what = "write" => n.calls = {CallFor("list", op.id)}
      BY <1>1, <1>2, <2>2, GoesOnAs
    <3>2. n # None
      BY <3>1, IsNotNone
    <3> QED
      BY <2>0, <2>2, <3>1, <3>2
  <2> QED
    BY <2>1, <2>2
<1>8. AccountsTyped'
  <2>1. ASSUME NEW p \in Operation PROVE (ops[p] # None => IsOp(ops[p]))'
    <3>1. PICK x : x = ops'[p]
      OBVIOUS
    <3>2. x # None => IsOp(x)
      BY <1>1, <1>7, <3>1 DEF AccountsTyped
    <3>3. x # None => IsOp(x)'
      BY <1>6, <3>2, OpKept
    <3> QED
      BY <3>1, <3>3
  <2>2. DOMAIN view' = {"filter", "page", "loading"} /\ view'.page \in Nat \ {0}
    <3>1. PICK v : v = Accounts!AccountsView(view, list', masks', view.filter)
      OBVIOUS
    <3>2. DOMAIN v = {"filter", "page", "loading"} /\ v.page \in Nat \ {0}
      BY <1>1, <3>1, Viewed DEF AccountsTyped
    <3> QED
      BY <1>5, <3>1, <3>2
  <2> QED
    BY <1>1, <1>5, <1>6, <1>7, <2>1, <2>2 DEF AccountsTyped
<1>9. SnapshotsHold'
  <2>1. ASSUME NEW p \in Operation, ops'[p] # None, NEW e \in ops'[p].calls, e.back # None
        PROVE  /\ e.back.ok => e.back.rows # None
               /\ e.back.rows # None => \A a \in Account : Snapshot(e.back.rows[a], server'[a])
    <3>1. ops[p] # None /\ e \in ops[p].calls
      BY <1>2, <1>7, <2>1
    <3> QED
      BY <1>1, <1>5, <2>1, <3>1, BackIs
  <2> QED
    BY <1>5, <1>6, <2>1 DEF SnapshotsHold
<1>10. AccountsCome'
  <2>1. SUFFICES ASSUME NEW a \in Account, Coming(a) PROVE (a \in missed \/ Coming(a) \/ Heard(a))'
    BY <1>1, <1>6 DEF AccountsCome
  <2>2. PICK p \in Operation : ops[p] # None /\ \E e \in ops[p].calls : Brings(ops[p].id, e, a)
    BY <2>1 DEF Coming
  <2>3. PICK e \in ops[p].calls : Brings(ops[p].id, e, a)
    BY <2>2
  <2>4. PICK id : id = ops[p].id
    OBVIOUS
  <2>5. \A d : Brings(id, d, a) => Brings(id, d, a)'
    BY <1>5 DEF Brings
  <2>6. CASE p # o
    <3>1. ops'[p] # None /\ e \in ops'[p].calls /\ ops'[p].id = id
      BY <1>7, <2>2, <2>4, <2>6
    <3> QED
      BY <2>3, <2>4, <2>5, <3>1 DEF Coming
  <2>7. CASE p = o /\ e # c
    <3>1. e \in op.calls \ {c}
      BY <1>2, <2>7
    <3>2. e.what = c.what /\ c.what \in {"row", "read"}
      BY <1>2, <3>1, RestIs
    <3>3. e.what # "read"
      BY <2>3 DEF Brings
    <3>4. ~Ends(op, c)
      BY <3>1, <3>2, <3>3 DEF Ends, Accounts!GoesOn
    <3>5. ops'[o] # None /\ e \in ops'[o].calls /\ ops'[o].id = id
      BY <1>2, <1>7, <2>4, <2>7, <3>1, <3>4
    <3> QED
      BY <2>3, <2>4, <2>5, <3>5 DEF Coming
  <2>8. CASE p = o /\ e = c
    <3>1. Brings(id, c, a) /\ id = op.id
      BY <1>2, <2>3, <2>4, <2>8
    <3>2. CASE c.what = "list"
      <4>1. id \in {None, a} /\ (~c.back.ok \/ c.back.rows[a].ver = server[a].ver)
        BY <1>3, <3>1, <3>2 DEF Brings
      <4>2. CASE c.back.ok
        BY <1>6, <3>2, <4>1, <4>2 DEF Accounts!Told
      <4>3. CASE ~c.back.ok
        BY <1>5, <3>1, <3>2, <4>1, <4>3 DEF Accounts!Missing
      <4> QED
        BY <4>2, <4>3
    <3>3. CASE c.what = "row"
      <4>1. c.id = a /\ c.back.rows # None /\ (~c.back.ok \/ c.back.rows[a].ver = server[a].ver)
        BY <3>1, <3>3 DEF Brings
      <4>2. CASE c.back.ok
        BY <1>6, <3>3, <4>1, <4>2 DEF Accounts!Told
      <4>3. CASE ~c.back.ok
        BY <1>5, <3>3, <4>1, <4>3 DEF Accounts!Missing
      <4> QED
        BY <4>2, <4>3
    <3>4. CASE c.what = "write"
      <4>1. c.id = a /\ c.back.rows # None
        BY <3>1, <3>4 DEF Brings
      <4>2. Writes(op) /\ op.calls = {c} /\ c.id = op.id
        BY <1>2, <3>4, CallIs
      <4>3. op.chain # <<>>
        <5>1. PICK r, s : r = One("list", op.id) /\ s = One("row", op.id)
          OBVIOUS
        <5>2. op.chain = <<r>> \/ op.chain = <<r, s>>
          BY <4>2, <5>1 DEF Writes, One
        <5>3. r \in ReqType /\ s \in ReqType
          BY <4>2, <5>1, ReqFor DEF Writes, Accounts!Question
        <5> QED
          BY <5>2, <5>3, LeadsOne, LeadsTwo DEF Leads
      <4>4. CASE Ends(op, c)
        <5>1. ~c.back.ok /\ op.kind # "checkin"
          BY <3>4, <4>3, <4>4 DEF Ends, Accounts!GoesOn
        <5> QED
          BY <1>5, <3>4, <4>1, <5>1 DEF Accounts!Missing
      <4>5. CASE ~Ends(op, c)
        <5>1. PICK d : d = CallFor("list", op.id)
          OBVIOUS
        <5>2. ops'[o] # None /\ d \in ops'[o].calls /\ ops'[o].id = id
          BY <1>7, <3>1, <3>4, <4>5, <5>1
        <5>3. d.what = "list" /\ d.back = None
          BY <5>1 DEF CallFor
        <5>4. id = a
          BY <3>1, <4>1, <4>2
        <5>5. Brings(id, d, a)'
          BY <5>3, <5>4 DEF Brings
        <5> QED
          BY <5>2, <5>5 DEF Coming
      <4> QED
        BY <4>4, <4>5
    <3> QED
      BY <3>1, <3>2, <3>3, <3>4 DEF Brings
  <2> QED
    BY <2>6, <2>7, <2>8
<1>11. MasksAreHeld'
  <2>1. CASE ~Ends(op, c)
    <3>1. \A a \in Account : \A kind : Held(a, kind) => Held(a, kind)'
      BY <1>2, <1>7, <2>1 DEF Held
    <3>2. masks' = masks
      BY <1>1, <1>2, <2>1, GoesOnAs
    <3> QED
      BY <1>1, <3>1, <3>2 DEF MasksAreHeld
  <2>2. CASE Ends(op, c)
    <3>1. \A a \in Account : \A kind : Held(a, kind) /\ (a # op.id \/ kind # op.kind) => Held(a, kind)'
      BY <1>2, <1>7, <2>2 DEF Held
    <3>2. \A a \in Account : /\ a # op.id => masks'[a] = masks[a]
                             /\ a = op.id /\ masks'[a].on # None => masks[a].on # None /\ op.kind # "toggle"
                             /\ a = op.id /\ masks'[a].fields => masks[a].fields /\ op.kind # "settings"
      BY <1>1, <1>2, <2>2, EndsAs
    <3> QED
      BY <1>1, <3>1, <3>2 DEF MasksAreHeld
  <2> QED
    BY <2>1, <2>2
<1>12. PageExists'
  <2>1. PICK v : v = Accounts!AccountsView(view, list', masks', view.filter)
    OBVIOUS
  <2>2. /\ DOMAIN v = {"filter", "page", "loading"} /\ v.filter = view.filter
        /\ v.page <= Accounts!PageTotal(Cardinality(Accounts!Matching(list', masks', view.filter)))
    BY <1>1, <2>1, Viewed DEF AccountsTyped
  <2>3. view'.page = v.page /\ view'.filter = view.filter
    BY <1>5, <2>1, <2>2
  <2> QED
    BY <2>2, <2>3 DEF PageExists
<1> QED
  BY <1>8, <1>9, <1>10, <1>11, <1>12 DEF AccountsSound

\* A press begins an operation of its account, and disturbs no other.
LEMMA Pressed ==
  ASSUME AccountsSound, NEW a \in Account,
         NEW kind \in {"toggle", "settings", "auto", "delete", "checkin", "login", "refresh", "export"},
         Accounts!Press(kind, a), UNCHANGED <<server, list, heard, missed>>
  PROVE  /\ SnapshotsHold' /\ AccountsCome' /\ DOMAIN ops' = Operation
         /\ \A p \in Operation : (ops[p] # None => IsOp(ops[p]))'
         /\ \A x \in Account : \A k : Held(x, k) => Held(x, k)'
         /\ Held(a, kind)'
<1>1. AccountsTyped /\ SnapshotsHold /\ AccountsCome
  BY DEF AccountsSound
<1>2. Loaded(a)
  BY <1>1 DEF Accounts!Press, Accounts!OnPage, Accounts!Listed, SnapshotsHold
<1>3. PICK chain : chain = Accounts!Chain(kind, a) /\ Accounts!Begin(kind, a, chain)
  BY DEF Accounts!Press
<1>4. PICK op : op = Accounts!NewOp(kind, a, chain) /\ Ready(op) /\ op.kind = kind /\ op.id = a
  BY <1>1, <1>2, <1>3, PressReady
<1>5. PICK o \in Operation : \E n :
        /\ ops[o] = None /\ ops' = [ops EXCEPT ![o] = n]
        /\ IsOp(n) /\ n.kind = op.kind /\ n.id = op.id /\ Fresh(n)
        /\ ReadyList(op) => n.calls = {CallFor("list", op.id)}
  BY <1>3, <1>4, Begun
<1>6. PICK n : /\ ops[o] = None /\ ops' = [ops EXCEPT ![o] = n]
               /\ IsOp(n) /\ n.kind = op.kind /\ n.id = op.id /\ Fresh(n)
  BY <1>5
<1>7. /\ SnapshotsHold'
      /\ DOMAIN ops' = Operation /\ \A p \in Operation : (ops[p] # None => IsOp(ops[p]))'
      /\ AccountsCome => AccountsCome'
      /\ \A x \in Account : \A k : Held(x, k) => Held(x, k)'
      /\ \A x \in Account : n.id = x => Held(x, n.kind)'
  BY <1>1, <1>6, Started
<1> QED
  BY <1>1, <1>4, <1>6, <1>7

\* Flipping the switch.
LEMMA ToggleStep == ASSUME AccountsSound, NEW a \in Account, Accounts!Toggle(a) PROVE AccountsSound'
<1>1. AccountsTyped /\ MasksAreHeld
  BY DEF AccountsSound
<1>2. /\ Accounts!Press("toggle", a) /\ UNCHANGED <<server, list, faults, heard, missed>>
      /\ masks' = [masks EXCEPT ![a].on = ~Accounts!ShownOn(list, masks, a)]
      /\ view' = Accounts!AccountsView(view, list, masks', view.filter)
  BY DEF Accounts!Toggle
<1>3. /\ SnapshotsHold' /\ AccountsCome' /\ DOMAIN ops' = Operation
      /\ \A p \in Operation : (ops[p] # None => IsOp(ops[p]))'
      /\ \A x \in Account : \A k : Held(x, k) => Held(x, k)'
      /\ Held(a, "toggle")'
  BY <1>2, Pressed
<1>4. masks \in [Account -> [on : BOOLEAN \cup {None}, fields : BOOLEAN]]
  BY <1>1 DEF AccountsTyped
<1>5. PICK b \in BOOLEAN : b = ~Accounts!ShownOn(list, masks, a)
  OBVIOUS
<1>6. PICK m : m = [masks[a] EXCEPT !.on = b]
  OBVIOUS
<1>7. m \in [on : BOOLEAN \cup {None}, fields : BOOLEAN] /\ m.fields = masks[a].fields
  BY <1>4, <1>6
<1>8. masks' = [masks EXCEPT ![a] = m]
  BY <1>2, <1>4, <1>5, <1>6
<1>9. /\ masks' \in [Account -> [on : BOOLEAN \cup {None}, fields : BOOLEAN]]
      /\ masks'[a].fields = masks[a].fields /\ \A x \in Account : x # a => masks'[x] = masks[x]
  BY <1>4, <1>7, <1>8
<1>10. /\ DOMAIN view' = {"filter", "page", "loading"} /\ view'.page \in Nat \ {0} /\ view'.filter = view.filter
       /\ view'.page <= Accounts!PageTotal(Cardinality(Accounts!Matching(list, masks', view.filter)))
  BY <1>1, <1>2, Viewed DEF AccountsTyped
<1>11. AccountsTyped'
  BY <1>1, <1>2, <1>3, <1>9, <1>10 DEF AccountsTyped
<1>12. MasksAreHeld'
  BY <1>1, <1>3, <1>9 DEF MasksAreHeld
<1>13. PageExists'
  BY <1>2, <1>10 DEF PageExists
<1> QED
  BY <1>3, <1>11, <1>12, <1>13 DEF AccountsSound

\* The rows a filter leaves do not depend on the names that are shown.
LEMMA MatchingByOn ==
  ASSUME NEW m, NEW n, \A x \in Account : m[x].on = n[x].on, NEW f, NEW rws
  PROVE  Accounts!Matching(rws, m, f) = Accounts!Matching(rws, n, f)
BY DEF Accounts!Matching, Accounts!State, Accounts!ShownOn

\* Saving the fields.
LEMMA SaveStep == ASSUME AccountsSound, NEW a \in Account, Accounts!SaveSettings(a) PROVE AccountsSound'
<1>1. AccountsTyped /\ MasksAreHeld /\ PageExists
  BY DEF AccountsSound
<1>2. /\ Accounts!Press("settings", a) /\ UNCHANGED <<server, list, view, faults, heard, missed>>
      /\ masks' = [masks EXCEPT ![a].fields = TRUE]
  BY DEF Accounts!SaveSettings, Accounts!OnlyOps
<1>3. /\ SnapshotsHold' /\ AccountsCome' /\ DOMAIN ops' = Operation
      /\ \A p \in Operation : (ops[p] # None => IsOp(ops[p]))'
      /\ \A x \in Account : \A k : Held(x, k) => Held(x, k)'
      /\ Held(a, "settings")'
  BY <1>2, Pressed
<1>4. masks \in [Account -> [on : BOOLEAN \cup {None}, fields : BOOLEAN]]
  BY <1>1 DEF AccountsTyped
<1>5. PICK m : m = [masks[a] EXCEPT !.fields = TRUE]
  OBVIOUS
<1>6. m \in [on : BOOLEAN \cup {None}, fields : BOOLEAN] /\ m.on = masks[a].on
  BY <1>4, <1>5
<1>7. masks' = [masks EXCEPT ![a] = m]
  BY <1>2, <1>4, <1>5
<1>8. /\ masks' \in [Account -> [on : BOOLEAN \cup {None}, fields : BOOLEAN]]
      /\ \A x \in Account : masks'[x].on = masks[x].on /\ (x # a => masks'[x] = masks[x])
  BY <1>4, <1>6, <1>7
<1>9. AccountsTyped'
  BY <1>1, <1>2, <1>3, <1>8 DEF AccountsTyped
<1>10. MasksAreHeld'
  BY <1>1, <1>3, <1>8 DEF MasksAreHeld
<1>11. PageExists'
  <2>1. Accounts!Matching(list, masks', view.filter) = Accounts!Matching(list, masks, view.filter)
    BY <1>8, MatchingByOn
  <2> QED
    BY <1>1, <1>2, <2>1 DEF PageExists
<1> QED
  BY <1>3, <1>9, <1>10, <1>11 DEF AccountsSound

\* The presses that show nothing at once.
LEMMA PlainStep ==
  ASSUME AccountsSound, NEW a \in Account,
         NEW kind \in {"toggle", "settings", "auto", "delete", "checkin", "login", "refresh", "export"},
         Accounts!PressPlain(kind, a)
  PROVE  AccountsSound'
<1>1. AccountsTyped /\ MasksAreHeld /\ PageExists
  BY DEF AccountsSound
<1>2. Accounts!Press(kind, a) /\ UNCHANGED <<server, list, masks, view, faults, heard, missed>>
  BY DEF Accounts!PressPlain, Accounts!OnlyOps
<1>3. /\ SnapshotsHold' /\ AccountsCome' /\ DOMAIN ops' = Operation
      /\ \A p \in Operation : (ops[p] # None => IsOp(ops[p]))'
      /\ \A x \in Account : \A k : Held(x, k) => Held(x, k)'
  BY <1>2, Pressed
<1>4. AccountsTyped'
  BY <1>1, <1>2, <1>3 DEF AccountsTyped
<1>5. MasksAreHeld'
  BY <1>1, <1>2, <1>3 DEF MasksAreHeld
<1>6. PageExists'
  BY <1>1, <1>2 DEF PageExists
<1> QED
  BY <1>3, <1>4, <1>5, <1>6 DEF AccountsSound

\* Refreshing all rows.
LEMMA CreditsStep == ASSUME AccountsSound, Accounts!RefreshCredits PROVE AccountsSound'
<1>1. AccountsTyped /\ SnapshotsHold /\ AccountsCome /\ MasksAreHeld /\ PageExists
  BY DEF AccountsSound
<1>2. PICK ids : ids = Accounts!Listed
  OBVIOUS
<1>3. PICK chain : chain = <<Accounts!Req("row", ids)>>
  OBVIOUS
<1>4. Accounts!Begin("credits", None, chain) /\ UNCHANGED <<server, list, masks, busy, view, faults, heard, missed>>
  BY <1>2, <1>3 DEF Accounts!RefreshCredits, Accounts!OnlyOps
<1>5. ids \in SUBSET Account /\ \A a \in ids : Loaded(a)
  BY <1>1, <1>2 DEF Accounts!Listed, SnapshotsHold
<1>6. PICK op : op = Accounts!NewOp("credits", None, chain)
  OBVIOUS
<1>7. Ready(op)
  <2>1. chain \in Seq(ReqType)
    <3>1. ids \in SUBSET (Account \cup {None}) /\ "row" \in Accounts!Question
      BY <1>5 DEF Accounts!Question
    <3>2. PICK r : r = Accounts!Req("row", ids)
      OBVIOUS
    <3>3. r \in ReqType
      BY <3>1, <3>2, Chains
    <3> QED
      BY <1>3, <3>2, <3>3, Chains
  <2>2. op \in Accounts!OperationType /\ op.kind = "credits" /\ op.chain = chain
    BY <1>6, <2>1 DEF Accounts!NewOp, Accounts!OperationType, ReqType
  <2>3. ReadyRows(op)
    BY <1>3, <1>5, <2>2 DEF ReadyRows
  <2> QED
    BY <2>2, <2>3 DEF Ready
<1>8. PICK o \in Operation : \E n :
        /\ ops[o] = None /\ ops' = [ops EXCEPT ![o] = n]
        /\ IsOp(n) /\ n.kind = op.kind /\ n.id = op.id /\ Fresh(n)
        /\ ReadyList(op) => n.calls = {CallFor("list", op.id)}
  BY <1>4, <1>6, <1>7, Begun
<1>9. PICK n : ops[o] = None /\ ops' = [ops EXCEPT ![o] = n] /\ IsOp(n) /\ Fresh(n)
  BY <1>8
<1>10. /\ SnapshotsHold'
       /\ DOMAIN ops' = Operation /\ \A p \in Operation : (ops[p] # None => IsOp(ops[p]))'
       /\ AccountsCome => AccountsCome'
       /\ \A x \in Account : \A k : Held(x, k) => Held(x, k)'
  BY <1>1, <1>4, <1>9, Started
<1>11. AccountsTyped'
  BY <1>1, <1>4, <1>10 DEF AccountsTyped
<1>12. MasksAreHeld'
  BY <1>1, <1>4, <1>10 DEF MasksAreHeld
<1>13. PageExists'
  BY <1>1, <1>4 DEF PageExists
<1> QED
  BY <1>1, <1>10, <1>11, <1>12, <1>13 DEF AccountsSound

\* An account more, and the reload that brings it.
LEMMA AddedStep == ASSUME AccountsSound, NEW a \in Account, Accounts!AccountAdded(a) PROVE AccountsSound'
<1>1. AccountsTyped /\ SnapshotsHold /\ AccountsCome /\ MasksAreHeld /\ PageExists
  BY DEF AccountsSound
<1>2. PICK chain : chain = Accounts!Chain("reload", a)
  OBVIOUS
<1>3. /\ Accounts!Begin("reload", a, chain) /\ UNCHANGED <<list, masks, busy, view, faults, heard, missed>>
      /\ server' = [server EXCEPT ![a] = [there |-> TRUE, on |-> TRUE, ver |-> @.ver + 1]]
  BY <1>2 DEF Accounts!AccountAdded
<1>4. PICK op : op = Accounts!NewOp("reload", a, chain) /\ Ready(op) /\ ReadyList(op) /\ op.id = a
  BY <1>1, <1>2, PressReady
<1>5. PICK o \in Operation : \E n :
        /\ ops[o] = None /\ ops' = [ops EXCEPT ![o] = n]
        /\ IsOp(n) /\ n.kind = op.kind /\ n.id = op.id /\ Fresh(n)
        /\ ReadyList(op) => n.calls = {CallFor("list", op.id)}
  BY <1>3, <1>4, Begun
<1>6. PICK n : /\ ops[o] = None /\ ops' = [ops EXCEPT ![o] = n]
               /\ IsOp(n) /\ n.id = a /\ Fresh(n) /\ n.calls = {CallFor("list", a)}
  BY <1>4, <1>5
<1>7. /\ DOMAIN ops' = Operation /\ ops'[o] = n /\ n # None
      /\ \A p \in Operation : p # o => ops'[p] = ops[p]
  BY <1>1, <1>6, IsNotNone DEF AccountsTyped
<1>8. PICK r : r = [there |-> TRUE, on |-> TRUE, ver |-> server[a].ver + 1]
  OBVIOUS
<1>9. server \in Rows /\ server[a].ver \in Nat
  BY <1>1 DEF AccountsTyped, Rows, Accounts!AccountRow
<1>10. r \in Accounts!AccountRow /\ r.ver = server[a].ver + 1 /\ server' = [server EXCEPT ![a] = r]
  BY <1>3, <1>8, <1>9 DEF Accounts!AccountRow
<1>11. /\ server' \in Rows /\ server'[a] = r /\ \A x \in Account \ {a} : server'[x] = server[x]
       /\ \A x \in Account : \A row \in Accounts!AccountRow :
            Snapshot(row, server[x]) => Snapshot(row, server'[x])
       /\ \A x \in Account : heard[x] <= server'[x].ver /\ list[x].ver <= server'[x].ver
       /\ \A x \in Account : Loaded(x) => Loaded(x)'
  BY <1>1, <1>3, <1>10, ServerOn
<1>12. AccountsTyped'
  <2>1. ASSUME NEW p \in Operation PROVE (ops[p] # None => IsOp(ops[p]))'
    <3>1. PICK x : x = ops'[p]
      OBVIOUS
    <3>2. x # None => IsOp(x)
      BY <1>1, <1>6, <1>7, <3>1 DEF AccountsTyped
    <3>3. x # None => IsOp(x)'
      BY <1>11, <3>2, OpKept
    <3> QED
      BY <3>1, <3>3
  <2> QED
    BY <1>1, <1>3, <1>7, <1>11, <2>1 DEF AccountsTyped
<1>13. SnapshotsHold'
  <2>1. ASSUME NEW p \in Operation, ops'[p] # None, NEW e \in ops'[p].calls, e.back # None
        PROVE  /\ e.back.ok => e.back.rows # None
               /\ e.back.rows # None => \A x \in Account : Snapshot(e.back.rows[x], server'[x])
    <3>1. p # o
      BY <1>6, <1>7, <2>1 DEF Fresh
    <3>2. ops[p] # None /\ e \in ops[p].calls
      BY <1>7, <2>1, <3>1
    <3>3. /\ e.back.ok => e.back.rows # None
          /\ e.back.rows # None => \A x \in Account : Snapshot(e.back.rows[x], server[x])
      BY <1>1, <2>1, <3>2, BackIs
    <3>4. PICK y : y = ops[p] /\ IsOp(y)
      BY <1>1, <3>2 DEF AccountsTyped
    <3>5. e.back.rows # None => e.back.rows \in Rows
      BY <2>1, <3>2, <3>4, CallIs DEF Accounts!Call, Accounts!Reply, Rows
    <3>6. \A rws \in Rows, x \in Account : rws[x] \in Accounts!AccountRow
      BY DEF Rows
    <3> QED
      BY <1>11, <3>3, <3>5, <3>6
  <2>2. \A x \in Account : list'[x].there => Loaded(x)'
    BY <1>1, <1>3, <1>11 DEF SnapshotsHold
  <2>3. \A x \in Account : heard'[x] <= server'[x].ver /\ list'[x].ver <= server'[x].ver
    BY <1>3, <1>11
  <2> QED
    BY <2>1, <2>2, <2>3 DEF SnapshotsHold, Snapshot
<1>14. AccountsCome'
  <2>1. SUFFICES ASSUME NEW x \in Account PROVE (x \in missed \/ Coming(x) \/ Heard(x))'
    BY DEF AccountsCome
  <2>2. CASE x = a
    <3>1. PICK d : d = CallFor("list", a)
      OBVIOUS
    <3>2. d.what = "list" /\ d.back = None
      BY <3>1 DEF CallFor
    <3>3. ops'[o] # None /\ d \in ops'[o].calls /\ ops'[o].id = a
      BY <1>6, <1>7, <3>1
    <3>4. Brings(a, d, x)'
      BY <2>2, <3>2 DEF Brings
    <3> QED
      BY <3>3, <3>4 DEF Coming
  <2>3. CASE x # a
    <3>1. server'[x] = server[x]
      BY <1>11, <2>3
    <3>2. \A id, d : Brings(id, d, x) => Brings(id, d, x)'
      BY <3>1 DEF Brings
    <3>3. \A p \in Operation : ops[p] # None => ops'[p] = ops[p]
      BY <1>6, <1>7
    <3>4. Coming(x) => Coming(x)'
      BY <3>2, <3>3 DEF Coming
    <3>5. Heard(x) => Heard(x)'
      BY <1>3, <3>1 DEF Heard
    <3> QED
      BY <1>1, <1>3, <3>4, <3>5 DEF AccountsCome
  <2> QED
    BY <2>2, <2>3
<1>15. MasksAreHeld'
  <2>1. \A x \in Account : \A k : Held(x, k) => Held(x, k)'
    BY <1>6, <1>7 DEF Held
  <2> QED
    BY <1>1, <1>3, <2>1 DEF MasksAreHeld
<1>16. PageExists'
  BY <1>1, <1>3 DEF PageExists
<1> QED
  BY <1>12, <1>13, <1>14, <1>15, <1>16 DEF AccountsSound

\* Filter and page.
LEMMA TurnStep ==
  ASSUME AccountsSound, NEW x, Accounts!ChooseAccountFilter(x) \/ Accounts!ChooseAccountPage(x)
  PROVE  AccountsSound'
<1>1. AccountsTyped /\ SnapshotsHold /\ AccountsCome /\ MasksAreHeld /\ PageExists
  BY DEF AccountsSound
<1>2. UNCHANGED <<server, list, masks, busy, ops, faults, heard, missed>>
  BY DEF Accounts!ChooseAccountFilter, Accounts!ChooseAccountPage
<1>3. /\ DOMAIN view' = {"filter", "page", "loading"} /\ view'.page \in Nat \ {0}
      /\ PageExists'
  <2>1. CASE Accounts!ChooseAccountFilter(x)
    <3>1. view' = Accounts!AccountsView(view, list, masks, x)
      BY <2>1 DEF Accounts!ChooseAccountFilter
    <3>2. /\ DOMAIN view' = {"filter", "page", "loading"} /\ view'.filter = x /\ view'.page \in Nat \ {0}
          /\ view'.page <= Accounts!PageTotal(Cardinality(Accounts!Matching(list, masks, x)))
      BY <1>1, <3>1, Viewed DEF AccountsTyped
    <3> QED
      BY <1>2, <3>2 DEF PageExists
  <2>2. CASE Accounts!ChooseAccountPage(x)
    <3>1. PICK n : n = Cardinality(Accounts!Matching(list, masks, view.filter))
      OBVIOUS
    <3>2. n \in Nat /\ Accounts!Cardinality(Accounts!Matching(list, masks, view.filter)) = n
      BY <3>1, MatchingCount
    <3>3. Accounts!PageTotal(n) \in Nat
      BY <3>2, LastPage
    <3>4. x \in 1..Accounts!PageTotal(n) /\ view' = [view EXCEPT !.page = x]
      BY <2>2, <3>2 DEF Accounts!ChooseAccountPage
    <3>5. /\ DOMAIN view' = {"filter", "page", "loading"} /\ view'.page = x /\ view'.filter = view.filter
          /\ x \in Nat \ {0} /\ x <= Accounts!PageTotal(n)
      BY <1>1, <3>3, <3>4 DEF AccountsTyped
    <3> QED
      BY <1>2, <3>1, <3>5 DEF PageExists
  <2> QED
    BY <2>1, <2>2
<1>4. AccountsTyped'
  <2>1. \A a \in Account : Loaded(a) => Loaded(a)'
    BY <1>2 DEF Loaded
  <2>2. ASSUME NEW p \in Operation PROVE (ops[p] # None => IsOp(ops[p]))'
    <3>1. PICK y : y = ops'[p]
      OBVIOUS
    <3>2. y # None => IsOp(y)
      BY <1>1, <1>2, <3>1 DEF AccountsTyped
    <3>3. y # None => IsOp(y)'
      BY <2>1, <3>2, OpKept
    <3> QED
      BY <3>1, <3>3
  <2> QED
    BY <1>1, <1>2, <1>3, <2>2 DEF AccountsTyped
<1>5. SnapshotsHold'
  BY <1>1, <1>2 DEF SnapshotsHold, Loaded, Snapshot
<1>6. AccountsCome'
  BY <1>1, <1>2 DEF AccountsCome, Coming, Brings, Heard
<1>7. MasksAreHeld'
  BY <1>1, <1>2 DEF MasksAreHeld, Held
<1> QED
  BY <1>3, <1>4, <1>5, <1>6, <1>7 DEF AccountsSound

\* The page when it is mounted: nothing is listed, and the list is asked for.
LEMMA AccountsStart == ASSUME Accounts!AccountsInit PROVE AccountsSound
<1>1. /\ server \in [Account -> [there : BOOLEAN, on : {TRUE}, ver : {0}]]
      /\ list = [a \in Account |-> [there |-> FALSE, on |-> FALSE, ver |-> 0]]
      /\ masks = [a \in Account |-> [on |-> None, fields |-> FALSE]]
      /\ view = [filter |-> "all", page |-> 1, loading |-> TRUE]
      /\ heard = [a \in Account |-> 0] /\ missed = {}
  BY DEF Accounts!AccountsInit, Accounts!Unmasked
<1>2. PICK chain, r : r = One("list", None) /\ chain = <<r>>
  OBVIOUS
<1>3. PICK op : op = Accounts!NewOp("reload", None, chain)
  OBVIOUS
<1>4. PICK o \in Operation : \E n \in Accounts!Sent(op) : ops = [p \in Operation |-> IF p = o THEN n ELSE None]
  BY <1>2, <1>3 DEF Accounts!AccountsInit, One
<1>5. PICK n \in Accounts!Sent(op) : ops = [p \in Operation |-> IF p = o THEN n ELSE None]
  BY <1>4
<1>6. Ready(op) /\ ReadyList(op) /\ op.id = None
  <2>1. r \in ReqType
    BY <1>2, ReqFor DEF Accounts!Question
  <2>2. chain \in Seq(ReqType)
    BY <1>2, <2>1
  <2>3. op \in Accounts!OperationType /\ op.kind = "reload" /\ op.id = None /\ op.chain = chain
    BY <1>3, <2>2 DEF Accounts!NewOp, Accounts!OperationType, ReqType
  <2>4. ReadyList(op)
    BY <1>2, <2>3 DEF ReadyList, One
  <2> QED
    BY <2>3, <2>4 DEF Ready
<1>7. IsOp(n) /\ n.id = None /\ Fresh(n) /\ n.calls = {CallFor("list", None)} /\ n # None
  BY <1>6, SentOp, IsNotNone
<1>8. DOMAIN ops = Operation /\ ops[o] = n /\ \A p \in Operation : p # o => ops[p] = None
  BY <1>5
<1>0. /\ \A s \in [there : BOOLEAN, on : {TRUE}, ver : {0}] : s \in Accounts!AccountRow /\ s.ver = 0
      /\ [there |-> FALSE, on |-> FALSE, ver |-> 0] \in Accounts!AccountRow
  <2>1. ASSUME NEW s \in [there : BOOLEAN, on : {TRUE}, ver : {0}] PROVE s \in Accounts!AccountRow /\ s.ver = 0
    <3>1. s = [there |-> s.there, on |-> s.on, ver |-> s.ver]
      OBVIOUS
    <3>2. s.there \in BOOLEAN /\ s.on \in BOOLEAN /\ s.ver = 0
      OBVIOUS
    <3> QED
      BY <3>1, <3>2 DEF Accounts!AccountRow
  <2>2. [there |-> FALSE, on |-> FALSE, ver |-> 0] \in Accounts!AccountRow
    BY DEF Accounts!AccountRow
  <2> QED
    BY <2>1, <2>2
<1>9. server \in Rows /\ list \in Rows /\ \A a \in Account : server[a].ver = 0
  <2>1. \A a \in Account : server[a] \in [there : BOOLEAN, on : {TRUE}, ver : {0}]
    BY <1>1
  <2>2. \A a \in Account : server[a] \in Accounts!AccountRow /\ server[a].ver = 0
    BY <1>0, <2>1
  <2>3. server \in Rows
    BY <1>1, <2>2 DEF Rows
  <2>4. list \in Rows
    BY <1>0, <1>1 DEF Rows
  <2> QED
    BY <2>2, <2>3, <2>4
<1>10. AccountsTyped
  BY <1>1, <1>7, <1>8, <1>9 DEF AccountsTyped
<1>11. SnapshotsHold
  <2>1. \A a \in Account : heard[a] <= server[a].ver /\ list[a].ver <= server[a].ver /\ ~list[a].there
    BY <1>1, <1>9
  <2>2. \A p \in Operation : ops[p] # None => \A c \in ops[p].calls : c.back = None
    BY <1>7, <1>8 DEF Fresh
  <2> QED
    BY <2>1, <2>2 DEF SnapshotsHold
<1>12. AccountsCome
  <2>1. PICK d : d = CallFor("list", None)
    OBVIOUS
  <2>2. d.what = "list" /\ d.back = None
    BY <2>1 DEF CallFor
  <2>3. ops[o] # None /\ d \in ops[o].calls /\ ops[o].id = None
    BY <1>7, <1>8, <2>1
  <2>4. \A a \in Account : Brings(None, d, a)
    BY <2>2 DEF Brings
  <2> QED
    BY <2>3, <2>4 DEF AccountsCome, Coming
<1>13. MasksAreHeld
  BY <1>1 DEF MasksAreHeld
<1>14. PageExists
  <2>1. PICK k : k = Cardinality(Accounts!Matching(list, masks, view.filter))
    OBVIOUS
  <2>2. k \in Nat
    BY <2>1, MatchingCount
  <2>3. Accounts!PageTotal(k) \in Nat \ {0}
    BY <2>2, LastPage
  <2>4. view.page = 1
    BY <1>1
  <2> QED
    BY <2>1, <2>3, <2>4 DEF PageExists
<1> QED
  BY <1>10, <1>11, <1>12, <1>13, <1>14 DEF AccountsSound

\* Every step of the accounts.
LEMMA AccountsStep == ASSUME AccountsSound, Accounts!AccountsNext PROVE AccountsSound'
<1>1. ASSUME NEW a \in Account,
             \/ Accounts!Toggle(a) \/ Accounts!SaveSettings(a) \/ Accounts!SignIn(a) \/ Accounts!CheckIn(a)
             \/ Accounts!RefreshAccount(a) \/ Accounts!ExportAccount(a) \/ Accounts!DeleteAccount(a)
             \/ Accounts!AccountAdded(a)
      PROVE  AccountsSound'
  <2>1. CASE \E kind \in {"auto", "delete", "checkin", "login", "refresh", "export"} : Accounts!PressPlain(kind, a)
    BY <2>1, PlainStep
  <2>2. CASE Accounts!SignIn(a) \/ Accounts!CheckIn(a) \/ Accounts!RefreshAccount(a) \/ Accounts!ExportAccount(a)
             \/ Accounts!DeleteAccount(a)
    BY <2>1, <2>2 DEF Accounts!SignIn, Accounts!CheckIn, Accounts!RefreshAccount, Accounts!ExportAccount,
                      Accounts!DeleteAccount
  <2> QED
    BY <1>1, <2>2, ToggleStep, SaveStep, AddedStep
<1>2. CASE Accounts!RefreshCredits
  BY <1>2, CreditsStep
<1>3. ASSUME NEW f \in Filter, Accounts!ChooseAccountFilter(f) PROVE AccountsSound'
  BY <1>3, TurnStep
<1>4. ASSUME NEW p, Accounts!ChooseAccountPage(p) PROVE AccountsSound'
  BY <1>4, TurnStep
<1>5. ASSUME NEW o \in Operation, ops[o] # None, NEW c \in ops[o].calls,
             Accounts!Serve(o, c) \/ Accounts!Answered(o, c)
      PROVE  AccountsSound'
  BY <1>5, ServeStep, AnsweredStep
<1> QED
  BY <1>1, <1>2, <1>3, <1>4, <1>5 DEF Accounts!AccountsNext

\* Sound accounts are current once they rest, on a page that has rows.
LEMMA AccountsSettle ==
  ASSUME AccountsSound PROVE Accounts!SettledListIsCurrent /\ Accounts!NoEmptyPage
<1>1. AccountsTyped /\ AccountsCome /\ MasksAreHeld /\ PageExists
  BY DEF AccountsSound
<1>2. Accounts!SettledListIsCurrent
  <2>1. SUFFICES ASSUME Accounts!Resting, NEW a \in Account
                 PROVE  /\ masks[a] = Accounts!Unmasked
                        /\ a \in missed \/ list[a].ver < heard[a] \/ list[a] = server[a]
    BY DEF Accounts!SettledListIsCurrent
  <2>2. \A o \in Operation : ops[o] = None
    BY <2>1 DEF Accounts!Resting
  <2>3. masks[a] \in [on : BOOLEAN \cup {None}, fields : BOOLEAN]
    BY <1>1 DEF AccountsTyped
  <2>4. masks[a].on = None /\ ~masks[a].fields
    BY <1>1, <2>2 DEF MasksAreHeld, Held
  <2>5. masks[a] = Accounts!Unmasked
    BY <2>3, <2>4 DEF Accounts!Unmasked
  <2>6. a \in missed \/ Heard(a)
    BY <1>1, <2>2 DEF AccountsCome, Coming
  <2> QED
    BY <2>5, <2>6 DEF Heard
<1>3. Accounts!NoEmptyPage
  <2>1. PICK n : n = Cardinality(Accounts!Matching(list, masks, view.filter))
    OBVIOUS
  <2>2. n \in Nat /\ Accounts!Cardinality(Accounts!Matching(list, masks, view.filter)) = n
    BY <2>1, MatchingCount
  <2>3. view.page \in Nat \ {0} /\ view.page <= Accounts!PageTotal(n)
    BY <1>1, <2>1 DEF AccountsTyped, PageExists
  <2>4. PICK k : k = (view.page - 1) * PageSize
    OBVIOUS
  <2>5. k \in Nat
    BY <2>3, <2>4, AccountsGiven
  <2>6. n > 0 => k < n
    BY <2>2, <2>3, <2>4, LastPage
  <2>7. n > 0 => Accounts!Paged(n) > 0
    BY <2>2, <2>4, <2>5, <2>6 DEF Accounts!Paged
  <2> QED
    BY <2>2, <2>7 DEF Accounts!NoEmptyPage
<1> QED
  BY <1>2, <1>3

-----------------------------------------------------------------------------
(* Proofs: the lists, and what they show when nothing is under way *)

\* Every list is mounted sound.
LEMMA ListsStart == ASSUME Init PROVE ListsSound
<1>1. CASE part = "statistics"
  BY <1>1, StatsStart DEF Init, StatsInit, ListsSound
<1>2. CASE part = "logs"
  BY <1>2, LogsStart DEF Init, LogsInit, ListsSound
<1>3. CASE part = "models"
  BY <1>3, ModelsStart DEF Init, ModelsInit, ListsSound
<1>4. CASE part = "signin"
  BY <1>4, TabStarts DEF Init, SignInInit, ListsSound
<1>5. CASE part = "accounts"
  BY <1>5, AccountsStart DEF Init, AccountsInit, ListsSound
<1> QED
  BY <1>1, <1>2, <1>3, <1>4, <1>5 DEF ListsSound

\* A step of nobody leaves them so.
LEMMA ListsRest == ASSUME ListsSound, UNCHANGED vars PROVE ListsSound'
<1>1. /\ part' = part
      /\ UNCHANGED statsVars /\ UNCHANGED logsVars /\ UNCHANGED modelsVars
      /\ UNCHANGED signInVars /\ UNCHANGED accountsVars
  BY DEF vars
<1>2. CASE part = "statistics"
  <2>1. UNCHANGED <<figures, statLoads, masked>>
    BY <1>1 DEF statsVars
  <2>2. Stats!Query(figures)' = Stats!Query(figures)
    BY <2>1
  <2>3. StatsSound'
    BY <1>2, <2>1, <2>2 DEF ListsSound, StatsSound, StatsTyped, CurrentAsks, FiguresCome
  <2> QED
    BY <1>1, <1>2, <2>3 DEF ListsSound
<1>3. CASE part = "logs"
  <2>1. UNCHANGED <<logs, loads, overtaken>>
    BY <1>1 DEF logsVars
  <2>2. LogsTyped' /\ Wanted' = Wanted
    BY <1>3, <2>1 DEF ListsSound, LogsSound, LogsTyped, Wanted
  <2>3. \A k : Decides(k) => Decides(k)'
    BY <2>1, <2>2 DEF Decides
  <2>4. LogsSound'
    BY <1>3, <2>1, <2>2, <2>3 DEF ListsSound, LogsSound
  <2> QED
    BY <1>1, <1>3, <2>4 DEF ListsSound
<1>4. CASE part = "models"
  <2>1. UNCHANGED <<settings, memory, models, modelCalls, saved, crossed>>
    BY <1>1 DEF modelsVars
  <2>2. Models!Saves' = Models!Saves /\ Models!Catalog' = Models!Catalog
    BY <2>1 DEF Models!Saves, Models!Catalog
  <2>3. ModelsTyped' /\ CleanReads' /\ SavesAreHere'
    BY <1>4, <2>1, <2>2 DEF ListsSound, ModelsSound, ModelsTyped, CleanReads, SavesAreHere
  <2>4. \A c : SaveCarries(c) => SaveCarries(c)'
    BY <2>1, <2>2 DEF SaveCarries
  <2>5. RowsFollow'
    BY <1>4, <2>1, <2>2, <2>4 DEF ListsSound, ModelsSound, RowsFollow
  <2> QED
    BY <1>1, <1>4, <2>3, <2>5 DEF ListsSound, ModelsSound
<1>5. CASE part = "signin"
  <2>1. UNCHANGED <<serverKey, session, summaries, rotations, asked, mixed, rotated>>
    BY <1>1 DEF signInVars
  <2>2. TabSound'
    BY <1>5, <2>1 DEF ListsSound, TabSound, TabTyped, TabWaits, TabFits
  <2> QED
    BY <1>1, <1>5, <2>2 DEF ListsSound
<1>6. CASE part = "accounts"
  <2>1. UNCHANGED <<server, list, masks, busy, ops, view, faults, heard, missed>>
    BY <1>1 DEF accountsVars
  <2>2. AccountsTyped /\ SnapshotsHold /\ AccountsCome /\ MasksAreHeld /\ PageExists
    BY <1>6 DEF ListsSound, AccountsSound
  <2>3. ASSUME NEW p \in Operation PROVE (ops[p] # None => IsOp(ops[p]))'
    <3>1. PICK y : y = ops'[p]
      OBVIOUS
    <3>2. y # None => IsOp(y)
      BY <2>1, <2>2, <3>1 DEF AccountsTyped
    <3>3. \A a \in Account : Loaded(a) => Loaded(a)'
      BY <2>1 DEF Loaded
    <3>4. y # None => IsOp(y)'
      BY <3>2, <3>3, OpKept
    <3> QED
      BY <3>1, <3>4
  <2>4. AccountsTyped'
    BY <2>1, <2>2, <2>3 DEF AccountsTyped
  <2>5. SnapshotsHold'
    BY <2>1, <2>2 DEF SnapshotsHold, Loaded, Snapshot
  <2>6. AccountsCome'
    BY <2>1, <2>2 DEF AccountsCome, Coming, Brings, Heard
  <2>7. MasksAreHeld' /\ PageExists'
    BY <2>1, <2>2 DEF MasksAreHeld, Held, PageExists
  <2> QED
    BY <1>1, <1>6, <2>4, <2>5, <2>6, <2>7 DEF ListsSound, AccountsSound
<1> QED
  BY <1>1, <1>2, <1>3, <1>4, <1>5, <1>6 DEF ListsSound

\* The mounted list's step keeps it sound.
LEMMA ListsStep == ASSUME ListsSound, [Next]_vars PROVE ListsSound'
<1>1. CASE Next
  <2>1. part' = part
    BY <1>1 DEF Next
  <2>2. part = "statistics" => StatsSound'
    BY <1>1, StatsStep DEF Next, ListsSound
  <2>3. part = "logs" => LogsSound'
    BY <1>1, LogsStep DEF Next, ListsSound
  <2>4. part = "models" => ModelsSound'
    BY <1>1, ModelsStep DEF Next, ListsSound
  <2>5. part = "signin" => TabSound'
    BY <1>1, TabStep DEF Next, ListsSound
  <2>6. part = "accounts" => AccountsSound'
    BY <1>1, AccountsStep DEF Next, ListsSound
  <2> QED
    BY <2>1, <2>2, <2>3, <2>4, <2>5, <2>6 DEF ListsSound
<1> QED
  BY <1>1, ListsRest

\* Sound logs, statistics, models and tab show what they should.
LEMMA OthersSettle ==
  /\ LogsSound => Logs!SettledRowsMatch
  /\ StatsSound => Stats!SettledFiguresMatch
  /\ ModelsSound => Models!RowsShowTheSettings
  /\ TabSound => Tab!SettledSessionMatches
<1>1. ASSUME LogsSound PROVE Logs!SettledRowsMatch
  <2>1. SUFFICES ASSUME loads = <<>>, ~logs.timer, ~overtaken, ~logs.error
                 PROVE  logs.rows[logs.tab] = Wanted
    BY DEF Logs!SettledRowsMatch, Wanted
  <2>2. PICK k \in 0..Len(loads) : Decides(k)
    BY <1>1, <2>1 DEF LogsSound
  <2>3. k = 0
    BY <2>1, <2>2
  <2> QED
    BY <2>1, <2>2, <2>3 DEF Decides
<1>2. ASSUME StatsSound PROVE Stats!SettledFiguresMatch
  BY <1>2 DEF StatsSound, FiguresCome, Stats!SettledFiguresMatch
<1>3. ASSUME ModelsSound PROVE Models!RowsShowTheSettings
  <2>1. SUFFICES ASSUME models.open, models.rows # None, ~crossed, Models!Saves = {}
                 PROVE  models.rows = Models!Catalog
    BY DEF Models!RowsShowTheSettings
  <2>2. \A c : Models!Saves # {c}
    BY <2>1
  <2> QED
    BY <1>3, <2>1, <2>2 DEF ModelsSound, RowsFollow
<1>4. ASSUME TabSound PROVE Tab!SettledSessionMatches
  BY <1>4 DEF TabSound, TabWaits, TabFits, Tab!SettledSessionMatches
<1> QED
  BY <1>1, <1>2, <1>3, <1>4

\* The inductive invariant of the lists: what a list shows is what its controls or the
\* server have, or an answer that makes it so is on its way and nothing sent later undoes it.
THEOREM ListsStaySound == Spec => []ListsSound
<1>1. Init => ListsSound
  BY ListsStart
<1>2. ListsSound /\ [Next]_vars => ListsSound'
  BY ListsStep
<1> QED
  BY <1>1, <1>2, PTL DEF Spec

\* SettledPagesMatch: with nothing under way the logs, the accounts, the statistics, the
\* models and the tab show what their controls ask for and the server holds, for any
\* numbers of accounts, operations, batches, pages, filters, requests, failures and changes.
THEOREM SettledPagesHold == Spec => []SettledPagesMatch
<1>1. ListsSound => SettledPagesMatch
  BY AccountsSettle, OthersSettle DEF ListsSound, SettledPagesMatch
<1> QED
  BY <1>1, ListsStaySound, PTL
=============================================================================
