----------------------------- MODULE Statistics -----------------------------
(***************************************************************************)
(* The traffic figures of the overview and usage pages (frontend pages/    *)
(* OverviewPage.tsx, pages/UsagePage.tsx, lib/statsWindow.ts): a window of *)
(* time, a range for the custom window, on the usage page an API key, and  *)
(* the loads that follow them, numbered so that only the last is shown.    *)
(* The usage page's dimension is chosen as a window is, and stands with it.*)
(***************************************************************************)
EXTENDS Naturals, FiniteSets

CONSTANTS
    Window,          \* the fixed windows, "today" among them
    DateRange,       \* ranges that can be picked for the custom window
    KeyFilter,       \* API keys to filter by; None is every key
    MaxStatLoads,    \* bound: requests in flight
    None

VARIABLES
    figures,         \* the mounted page's state
    statLoads,       \* requests in flight; current: the last one sent
    masked           \* history: a background refresh took the place of a first load

statsVars == <<figures, statLoads, masked>>

\* statsQuery: nothing to ask for while the custom window has no range.
Query(f) ==
    IF f.window = "custom" /\ f.range = None THEN None
    ELSE [window |-> f.window, range |-> IF f.window = "custom" THEN f.range ELSE None, key |-> f.key]

Outdated(loads) == {[l EXCEPT !.current = FALSE] : l \in loads}

\* Bug: without a range an earlier load still counts, and its window stays.
LoadLax(f, quiet) ==
    /\ Cardinality(statLoads) < MaxStatLoads
    /\ IF Query(f) = None
       THEN /\ figures' = [f EXCEPT !.loading = FALSE]
            /\ UNCHANGED statLoads
       ELSE /\ figures' = f
            /\ statLoads' = statLoads \union {[query |-> Query(f), quiet |-> quiet, current |-> TRUE]}

\* loadStats, and on the overview the effect's cleanup, which outdates what is
\* under way when the window changes.
Load(f, quiet) ==
    /\ Cardinality(statLoads) < MaxStatLoads
    /\ IF Query(f) = None
       THEN /\ figures' = [f EXCEPT !.loading = FALSE]
            /\ statLoads' = IF f.page = "overview" /\ ~quiet THEN Outdated(statLoads) ELSE statLoads
       ELSE /\ figures' = f
            /\ statLoads' = Outdated(statLoads) \union {[query |-> Query(f), quiet |-> quiet, current |-> TRUE]}

\* StatsWindowControls: onBusy shows the skeleton when a load will follow.
ChooseWindow(w) ==
    /\ w # figures.window
    /\ Load([figures EXCEPT !.window = w, !.loading = @ \/ w # "custom" \/ figures.range # None], FALSE)
    /\ masked' = FALSE

ChooseRange(r) ==
    /\ figures.window = "custom" /\ r # figures.range
    /\ Load([figures EXCEPT !.range = r, !.loading = @ \/ r # None], FALSE)
    /\ masked' = FALSE

ChooseKey(k) ==
    /\ figures.page = "usage" /\ k # figures.key
    /\ Load([figures EXCEPT !.key = k, !.loading = TRUE], FALSE)
    /\ masked' = FALSE

\* The key is also in the URL: a link to the page (the sidebar's has no key)
\* sets the filter without the skeleton.
FollowKeyLink(k) ==
    /\ figures.page = "usage" /\ k # figures.key
    /\ Load([figures EXCEPT !.key = k], FALSE)
    /\ masked' = FALSE

\* Every 30 s on the overview, or on the tab's return, unless paused.
RefreshTick ==
    /\ figures.page = "overview" /\ ~figures.paused
    /\ Load(figures, TRUE)
    /\ masked' = (masked \/ \E l \in statLoads : l.current /\ ~l.quiet)

TogglePaused ==
    /\ figures.page = "overview"
    /\ figures' = [figures EXCEPT !.paused = ~@]
    /\ UNCHANGED <<statLoads, masked>>

StatsAnswered(l) ==
    /\ l \in statLoads
    /\ statLoads' = statLoads \ {l}
    /\ IF l.current
       THEN /\ figures' = [figures EXCEPT !.shown = l.query, !.error = FALSE, !.loading = FALSE]
            /\ masked' = FALSE
       ELSE UNCHANGED <<figures, masked>>

\* A background refresh that fails keeps what is shown.
StatsFailed(l) ==
    /\ l \in statLoads
    /\ statLoads' = statLoads \ {l}
    /\ figures' = IF ~l.current THEN figures
                  ELSE IF l.quiet THEN [figures EXCEPT !.loading = FALSE]
                  ELSE [figures EXCEPT !.shown = None, !.error = TRUE, !.loading = FALSE]
    /\ UNCHANGED masked

-----------------------------------------------------------------------------
\* A page mounts and loads at once; the usage page's key comes from the URL.
StatsInit ==
    /\ \E p \in {"overview", "usage"}, k \in KeyFilter \union {None} :
          /\ p = "overview" => k = None
          /\ figures = [page |-> p, window |-> "today", range |-> None, key |-> k, loading |-> TRUE, shown |-> None,
                        error |-> FALSE, paused |-> FALSE]
    /\ statLoads = {[query |-> Query(figures), quiet |-> FALSE, current |-> TRUE]}
    /\ masked = FALSE

StatsNext ==
    \/ \E w \in Window \union {"custom"} : ChooseWindow(w)
    \/ \E r \in DateRange \union {None} : ChooseRange(r)
    \/ \E k \in KeyFilter \union {None} : ChooseKey(k) \/ FollowKeyLink(k)
    \/ RefreshTick \/ TogglePaused
    \/ \E l \in statLoads : StatsAnswered(l) \/ StatsFailed(l)

StatsSpec == StatsInit /\ [][StatsNext]_statsVars

-----------------------------------------------------------------------------
\* With nothing under way and something to ask for, the figures are those of the
\* window and key the controls show, or an error is: whatever was chosen, polled,
\* paused or answered late before. A background refresh that overtook the first
\* load and then failed is excepted: it leaves the former window's figures.
SettledFiguresMatch ==
    /\ ~figures.loading /\ ~masked /\ Query(figures) # None
    /\ \A l \in statLoads : ~l.current
    => figures.error \/ figures.shown = Query(figures)

\* UsagePage.tsx says of a click on a row: "the current key filter rides along,
\* otherwise the logs page would show every key's requests under numbers that
\* were computed for one key". Rows that can be clicked are those of the filter.
DrillKeepsTheKey ==
    figures.page = "usage" /\ ~figures.loading /\ figures.shown # None => figures.shown.key = figures.key
=============================================================================
