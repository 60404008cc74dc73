------------------------------ MODULE LogsPage ------------------------------
(***************************************************************************)
(* The request and runtime logs (frontend pages/LogsPage.tsx, api/logs.ts, *)
(* ListPager): two lists behind one `load`, each with a filter and a page, *)
(* a poll of the runtime list, and "clear".                                *)
(* A render and the effects it runs are one step with what caused it.      *)
(***************************************************************************)
EXTENDS Naturals, Sequences, FiniteSets, SequencesExt

CONSTANTS
    LogFilter,    \* values of a list's filter controls, page size included
    MaxPages,     \* bound: pages an answer counts
    MaxLoads,     \* bound: list requests in flight
    None

LogsAssumption == MaxPages \in Nat /\ MaxLoads \in Nat

Tab == {"requests", "runtime"}

VARIABLES
    logs,         \* the page's state
    loads,        \* list requests in flight, in the order they were sent
    overtaken     \* history: a list request was answered before an older one

logsVars == <<logs, loads, overtaken>>

(* timer: a load is scheduled by the effect.  clear: the confirm dialog.   *)
LogsInit ==
    /\ \E f \in LogFilter :   \* from the URL
          logs = [tab |-> "requests", filter |-> [t \in Tab |-> f], page |-> [t \in Tab |-> 1],
                  total |-> [t \in Tab |-> 0], rows |-> [t \in Tab |-> None],
                  loading |-> TRUE, booted |-> FALSE, error |-> FALSE, timer |-> TRUE,
                  clear |-> "closed"]
    /\ loads = << >>
    /\ overtaken = FALSE

Query(l, t) == [filter |-> l.filter[t], page |-> l.page[t]]
PageCount(l, t) == IF l.total[t] = 0 THEN 1 ELSE l.total[t]

\* Bug: the effect sees the page before it was clamped.
RenderDeaf(old, new) ==
    LET page == [t \in Tab |-> IF new.filter[t] # old.filter[t] THEN 1
                               ELSE IF new.page[t] > PageCount(new, t) THEN PageCount(new, t)
                               ELSE new.page[t]]
    IN  IF new.tab # old.tab \/ \E t \in Tab : Query(new, t) # Query(old, t)
        THEN [new EXCEPT !.page = page, !.timer = TRUE, !.loading = TRUE]
        ELSE [new EXCEPT !.page = page]

\* A render: a new filter starts at page 1, a page past the end becomes the last,
\* and if a query or the tab changed the effect schedules a load, whichever list
\* it was, in place of the one scheduled before.
Render(old, new) ==
    LET page == [t \in Tab |-> IF new.filter[t] # old.filter[t] THEN 1
                               ELSE IF new.page[t] > PageCount(new, t) THEN PageCount(new, t)
                               ELSE new.page[t]]
        next == [new EXCEPT !.page = page]
    IN  IF next.tab # old.tab \/ \E t \in Tab : Query(next, t) # Query(old, t)
        THEN [next EXCEPT !.timer = TRUE, !.loading = TRUE] ELSE next

To(new) == logs' = Render(logs, new)

\* The skeleton of the first load has no controls, nor has what is behind a dialog.
Ready == logs.booted /\ logs.clear = "closed"
OnlyLogs == UNCHANGED <<loads, overtaken>>

ChooseFilter(t, f) ==
    /\ Ready /\ logs.tab = t /\ logs.filter[t] # f
    /\ To([logs EXCEPT !.filter[t] = f])
    /\ OnlyLogs

ChooseLogsTab(t) ==
    /\ Ready /\ logs.tab # t
    /\ To([logs EXCEPT !.tab = t])
    /\ OnlyLogs

\* ListPager: no pages without rows, disabled while loading.
ChoosePage(p) ==
    /\ Ready /\ ~logs.loading /\ logs.total[logs.tab] > 0
    /\ p \in 1 .. PageCount(logs, logs.tab) /\ p # logs.page[logs.tab]
    /\ To([logs EXCEPT !.page[logs.tab] = p])
    /\ OnlyLogs

-----------------------------------------------------------------------------
(* loadRequests, loadRuntime and what calls them *)

Load(t, quiet) == [tab |-> t, query |-> Query(logs, t), quiet |-> quiet]

SendLoad(l) ==
    /\ Len(loads) < MaxLoads
    /\ loads' = Append(loads, l)
    /\ UNCHANGED overtaken

\* The effect's timer: 0 ms, or 280 ms behind a typed query.
LoadTimer ==
    /\ logs.timer
    /\ SendLoad(Load(logs.tab, FALSE))
    /\ logs' = [logs EXCEPT !.timer = FALSE]

RefreshLogs ==
    /\ Ready /\ ~logs.loading
    /\ SendLoad(Load(logs.tab, FALSE))
    /\ logs' = [logs EXCEPT !.loading = TRUE]

\* Every 3 s on the first page of the runtime list; it shows no loading and no error.
PollRuntime ==
    /\ logs.tab = "runtime" /\ logs.page["runtime"] = 1
    /\ SendLoad(Load("runtime", TRUE))
    /\ UNCHANGED logs

Done(l, new) == IF l.quiet THEN new ELSE [new EXCEPT !.loading = FALSE, !.booted = TRUE]

Arrived(i) ==
    /\ loads' = RemoveAt(loads, i)
    /\ overtaken' = (overtaken \/ i > 1)

\* Answers are taken as they come; the logs grow, expire and are cleared
\* meanwhile, so an answer may count any number of pages.
LoadAnswered(i) ==
    /\ i \in DOMAIN loads
    /\ Arrived(i)
    /\ LET l == loads[i]
       IN  \E total \in 0 .. MaxPages :
              To(Done(l, [logs EXCEPT !.rows[l.tab] = l.query, !.total[l.tab] = total, !.error = FALSE]))

LoadFailed(i) ==
    /\ i \in DOMAIN loads
    /\ Arrived(i)
    /\ logs' = Done(loads[i], [logs EXCEPT !.error = @ \/ ~loads[i].quiet])

-----------------------------------------------------------------------------
(* Clear, behind a dialog that stays while it runs *)

OpenClear ==
    /\ Ready /\ logs.tab = "requests" /\ logs.total["requests"] > 0
    /\ logs' = [logs EXCEPT !.clear = "open"]
    /\ OnlyLogs

CancelClear ==
    /\ logs.clear = "open"
    /\ logs' = [logs EXCEPT !.clear = "closed"]
    /\ OnlyLogs

ConfirmClear ==
    /\ logs.clear = "open"
    /\ logs' = [logs EXCEPT !.clear = "busy"]
    /\ OnlyLogs

\* clearRequestLogs; then the dialog closes and the list is read again.
Cleared ==
    /\ logs.clear = "busy"
    /\ \/ /\ Len(loads) < MaxLoads
          /\ logs' = [logs EXCEPT !.clear = "closed", !.loading = TRUE]
          /\ loads' = Append(loads, Load("requests", FALSE))
       \/ /\ logs' = [logs EXCEPT !.clear = "open", !.error = TRUE]
          /\ UNCHANGED loads
    /\ UNCHANGED overtaken

LogsNext ==
    \/ \E t \in Tab : ChooseLogsTab(t) \/ \E f \in LogFilter : ChooseFilter(t, f)
    \/ \E p \in 1 .. MaxPages : ChoosePage(p)
    \/ LoadTimer \/ RefreshLogs \/ PollRuntime
    \/ \E i \in 1 .. MaxLoads : LoadAnswered(i) \/ LoadFailed(i)
    \/ OpenClear \/ CancelClear \/ ConfirmClear \/ Cleared

LogsSpec == LogsInit /\ [][LogsNext]_logsVars

-----------------------------------------------------------------------------
\* When nothing is under way and no answer overtook another, the list shows what
\* its controls ask for, or an error: no chain of filters, pages that vanish,
\* polls, tabs and clears leaves it with the rows of another query.
SettledRowsMatch ==
    loads = << >> /\ ~logs.timer /\ ~overtaken /\ ~logs.error
        => logs.rows[logs.tab] = Query(logs, logs.tab)
=============================================================================
