----------------------------- MODULE ModelsPage -----------------------------
(***************************************************************************)
(* The models page (frontend pages/ProvidersPage.tsx) over the console's   *)
(* memory of the catalog (api/overview.ts, fetchModelsCached,              *)
(* refreshModels). A row is a model of a region; its settings, the larger  *)
(* context and the reasoning level, are kept per provider and settings     *)
(* key, so rows of several regions share them.                             *)
(***************************************************************************)
EXTENDS Naturals, FiniteSets

CONSTANTS
    Row,           \* <<settings key, region>>
    Effort,        \* reasoning levels
    MaxCalls,      \* bound: requests under way
    MaxSaves,      \* bound: settings saved
    None

Key == {row[1] : row \in Row}

VARIABLES
    settings,      \* the server's: [max, effort] of a key
    memory,        \* the catalog the console remembers: [data, fresh], or None
    models,        \* the page: [open, loading, busy, rows, savingKey]; no rows is None
    modelCalls,    \* requests under way
    saved,         \* settings saved so far
    crossed        \* history: the rows may miss a save (see RowsShowTheSettings)

modelsVars == <<settings, memory, models, modelCalls, saved, crossed>>

\* What the server answers a catalog request with.
Catalog == [row \in Row |-> settings[row[1]]]

Away == [open |-> FALSE, loading |-> TRUE, busy |-> FALSE, rows |-> None, savingKey |-> None]

(* A request: what it is, what the server made of it, whether the mounted   *)
(* page hears of it, whether the memory hands it to others (shared), what   *)
(* it answers or saves, the rows its handler was made with, and whether no  *)
(* save was under way with it (clean).                                      *)
Read(kind, clean) ==
    [kind |-> kind, at |-> "sent", here |-> TRUE, shared |-> kind = "get", data |-> None, clean |-> clean]
Save(kind, row, value) ==
    [kind |-> kind, at |-> "sent", here |-> TRUE, row |-> row, value |-> value, rows |-> models.rows]

IsSave(c) == c.kind \in {"max", "effort"}
Saves == {c \in modelCalls : IsSave(c)}
Unshared(calls) == {IF IsSave(c) THEN c ELSE [c EXCEPT !.shared = FALSE] : c \in calls}

-----------------------------------------------------------------------------
(* Coming and going; the memory lasts 30 s *)

Forget ==
    /\ memory # None /\ memory.fresh
    /\ memory' = [memory EXCEPT !.fresh = FALSE]
    /\ UNCHANGED <<settings, models, modelCalls, saved, crossed>>

\* fetchModelsCached: what is fresh, else the request under way, else a new one.
Mount ==
    LET under == {c \in modelCalls : c.kind = "get" /\ c.shared}
    IN  /\ ~models.open
        /\ IF memory # None /\ memory.fresh
           THEN /\ models' = [Away EXCEPT !.open = TRUE, !.loading = FALSE, !.rows = memory.data]
                /\ crossed' = (memory.data # Catalog \/ Saves # {})
                /\ UNCHANGED modelCalls
           ELSE /\ under # {} \/ Cardinality(modelCalls) < MaxCalls
                /\ models' = [Away EXCEPT !.open = TRUE]
                /\ modelCalls' = IF under = {} THEN modelCalls \union {Read("get", Saves = {})}
                                 ELSE (modelCalls \ under) \union {[c EXCEPT !.here = TRUE] : c \in under}
                /\ UNCHANGED crossed
        /\ UNCHANGED <<settings, memory, saved>>

Unmount ==
    /\ models.open
    /\ models' = Away
    /\ modelCalls' = {[c EXCEPT !.here = FALSE] : c \in modelCalls}
    /\ UNCHANGED <<settings, memory, saved, crossed>>

-----------------------------------------------------------------------------
(* The page's buttons: the table gives way to a skeleton while it refreshes *)

Shown == models.open /\ ~models.loading /\ ~models.busy

\* refreshModels forgets what it had, the request under way with it.
OnRefresh ==
    /\ Shown /\ Cardinality(modelCalls) < MaxCalls
    /\ models' = [models EXCEPT !.busy = TRUE]
    /\ memory' = None
    /\ modelCalls' = Unshared(modelCalls) \union {Read("refresh", Saves = {})}
    /\ UNCHANGED <<settings, saved, crossed>>

BeginSave(c) ==
    /\ Shown /\ models.rows # None /\ Cardinality(modelCalls) < MaxCalls /\ saved < MaxSaves
    /\ models' = [models EXCEPT !.savingKey = c.row[1]]
    /\ modelCalls' = {IF IsSave(d) THEN d ELSE [d EXCEPT !.clean = FALSE] : d \in modelCalls} \union {c}
    /\ saved' = saved + 1
    /\ crossed' = (crossed \/ modelCalls # {})
    /\ UNCHANGED <<settings, memory>>

\* The switch is off for the key being saved; the list of levels is not.
OnToggleMax(row) ==
    /\ models.rows # None /\ models.savingKey # row[1]
    /\ BeginSave(Save("max", row, ~models.rows[row].max))

OnReasoningChange(row, e) ==
    BeginSave(Save("effort", row, e))

-----------------------------------------------------------------------------
(* The server, and its answers *)

Change(setting, c) == IF c.kind = "max" THEN [setting EXCEPT !.max = c.value] ELSE [setting EXCEPT !.effort = c.value]

ServeCall(c) ==
    /\ c \in modelCalls /\ c.at = "sent"
    /\ IF IsSave(c)
       THEN /\ settings' = [settings EXCEPT ![c.row[1]] = Change(@, c)]
            /\ modelCalls' = (modelCalls \ {c}) \union {[c EXCEPT !.at = "served"]}
       ELSE /\ modelCalls' = (modelCalls \ {c}) \union {[c EXCEPT !.at = "served", !.data = Catalog]}
            /\ UNCHANGED settings
    /\ UNCHANGED <<memory, models, saved, crossed>>

\* Whoever asked, the memory takes the answer; the page only what it waits for.
Fetched(c) ==
    /\ c \in modelCalls /\ ~IsSave(c) /\ c.at = "served"
    /\ memory' = [data |-> c.data, fresh |-> TRUE]
    /\ modelCalls' = Unshared(modelCalls \ {c})
    /\ models' = IF c.here THEN [models EXCEPT !.rows = c.data, !.loading = FALSE, !.busy = FALSE] ELSE models
    /\ crossed' = IF c.here THEN ~c.clean ELSE crossed
    /\ UNCHANGED <<settings, saved>>

FetchFailed(c) ==
    /\ c \in modelCalls /\ ~IsSave(c)
    /\ modelCalls' = modelCalls \ {c}
    /\ models' = IF c.here THEN [models EXCEPT !.loading = FALSE, !.busy = FALSE] ELSE models
    /\ UNCHANGED <<settings, memory, saved, crossed>>

\* Bug: only the row that was clicked shows the setting.
AppliedToRow(c) == [c.rows EXCEPT ![c.row] = Change(@, c)]

\* updateTraeInOverview, updateReasoningInOverview: every row of the key, in the
\* rows there were when the handler was made.
Applied(c) == [row \in Row |-> IF row[1] = c.row[1] THEN Change(c.rows[row], c) ELSE c.rows[row]]

SaveAnswered(c) ==
    /\ c \in Saves /\ c.at = "served"
    /\ modelCalls' = modelCalls \ {c}
    /\ models' = IF c.here THEN [models EXCEPT !.rows = Applied(c), !.savingKey = None] ELSE models
    /\ UNCHANGED <<settings, memory, saved, crossed>>

\* A refused save, or one whose answer was lost: the rows stay.
SaveFailed(c) ==
    /\ c \in Saves
    /\ modelCalls' = modelCalls \ {c}
    /\ models' = IF c.here THEN [models EXCEPT !.savingKey = None] ELSE models
    /\ crossed' = (crossed \/ c.at = "served")
    /\ UNCHANGED <<settings, memory, saved>>

-----------------------------------------------------------------------------
ModelsInit ==
    /\ \E e \in Effort : settings = [k \in Key |-> [max |-> FALSE, effort |-> e]]
    /\ memory = None /\ models = Away
    /\ modelCalls = {} /\ saved = 0 /\ crossed = FALSE

ModelsNext ==
    \/ Forget \/ Mount \/ Unmount \/ OnRefresh
    \/ \E row \in Row : OnToggleMax(row) \/ \E e \in Effort : OnReasoningChange(row, e)
    \/ \E c \in modelCalls : ServeCall(c) \/ Fetched(c) \/ FetchFailed(c) \/ SaveAnswered(c) \/ SaveFailed(c)

ModelsSpec == ModelsInit /\ [][ModelsNext]_modelsVars

-----------------------------------------------------------------------------
\* Between saves the page shows what the server holds, in every region's row of a
\* setting: after any chain of saves, refreshes, failures, visits and answers to
\* pages left. Excepted, until the rows are next read: a save that ran beside
\* another request, one whose answer was lost, and rows from a memory that was
\* not told of a save.
RowsShowTheSettings ==
    models.open /\ models.rows # None /\ ~crossed /\ Saves = {} => models.rows = Catalog
=============================================================================
