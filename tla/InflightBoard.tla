---------------------------- MODULE InflightBoard ---------------------------
(***************************************************************************)
(* The overview's board of requests in flight (frontend                    *)
(* components/overview/InflightLiveCard.tsx, lib/mockInflight.ts): the     *)
(* projection of /api/live answers on waiting pills and account cells, the *)
(* demo that plays when there is none, and the gate that keeps a cell      *)
(* blank until its pill has flown in.  A render, its layout effects and    *)
(* the renders they cause at once are one step; flights, reveal timers,    *)
(* answers and clicks come in any order.                                   *)
(***************************************************************************)
EXTENDS Naturals, Sequences, FiniteSets, SequencesExt

CONSTANTS
    Request,      \* requests the server may report
    Worker,       \* accounts of the board
    Cap,          \* cells of an account (max_inflight)
    MaxAnswers,   \* bound: answers taken
    MaxDemoJobs,  \* bound: jobs of the demo
    MaxToggles,   \* bound: clicks on the demo switch
    None

BoardAssumption ==
    /\ Cap \in Nat \ {0} /\ MaxAnswers \in Nat /\ MaxDemoJobs \in Nat \ {0, 1} /\ MaxToggles \in Nat

VARIABLES
    card,         \* the component's state: open, demo switch, viewing session
    live,         \* the last /api/live answer, None before the first
    board,        \* the snapshot on display
    landed,       \* landedCellIds
    reveals,      \* ids with a reveal timer
    flights       \* ids of pills on their way to a cell

boardVars == <<card, live, board, landed, reveals, flights>>

\* Ids: requests, jobs of the demo, and cells the pool counts but no request names.
Req(r)    == <<"request", r>>
Demo(n)   == <<"demo", n>>
Pad(w, k) == <<"live", w, k>>

Empty == [w \in Worker |-> << >>]

\* getIdleInflightSnapshot and the demo's first snapshot.
Idle == [live |-> TRUE, queue |-> << >>, cells |-> Empty, done |-> 0, failed |-> 0, seq |-> 2]
DemoBoard ==
    LET first == CHOOSE w \in Worker : TRUE
    IN  [Idle EXCEPT !.live = FALSE, !.queue = <<Demo(2)>>,
                     !.cells = [Empty EXCEPT ![first] = <<Demo(1)>>], !.done = 1]
IsIdle(b) == b.queue = << >> /\ b.done = 0 /\ b.failed = 0 /\ b.live /\ b.cells = Empty

Queued(b)  == Range(b.queue)
Cells(b)   == UNION {Range(b.cells[w]) : w \in Worker}
Running(b) == Cells(b) \ Queued(b)

\* An answer: the wait rail, who is bound to which account, the accounts' own
\* counts, the finishes drained.  The server reads the four one after the other, so
\* they need not agree.
Answer ==
    [queue    : {SetToSeq(Q) : Q \in SUBSET {Req(r) : r \in Request}},
     occ      : {f \in [Worker -> UNION {[1..n -> {Req(r) : r \in Request}] : n \in 0..Cap}] :
                    /\ \A w \in Worker : IsInjective(f[w])
                    /\ \A v, w \in Worker : v # w => Range(f[v]) \cap Range(f[w]) = {}},
     inFlight : [Worker -> 0..Cap],
     recents  : UNION {[R -> BOOLEAN] : R \in SUBSET {Req(r) : r \in Request}},
     sick     : BOOLEAN]

(***************************************************************************)
(* applyLiveProjection.                                                    *)
(***************************************************************************)
\* Bound requests fill the cells the account counts, anonymous cells the rest.
ProjectCells(a, w) ==
    LET named == SubSeq(a.occ[w], 1, IF Len(a.occ[w]) < a.inFlight[w] THEN Len(a.occ[w])
                                                                    ELSE a.inFlight[w])
    IN  named \o [k \in 1..(a.inFlight[w] - Len(named)) |-> Pad(w, Len(named) + k)]

\* The finishes count if there are any; if not, the jobs that left the board, as failed
\* if their account's last error is set.  A board that was not live starts at zero.
Project(base, a) ==
    LET shown == [base EXCEPT !.live = TRUE, !.queue = a.queue,
                              !.cells = [w \in Worker |-> ProjectCells(a, w)]]
        left  == Running(base) \ (Cells(shown) \cup Queued(shown))
        ended == IF DOMAIN a.recents # {} THEN a.recents ELSE [id \in left |-> ~a.sick]
        good  == Cardinality({id \in DOMAIN ended : ended[id]})
    IN  IF base.live
        THEN [shown EXCEPT !.done = @ + good, !.failed = @ + Cardinality(DOMAIN ended) - good]
        ELSE [shown EXCEPT !.done = 0, !.failed = 0]

\* A new viewing session projects on a board that is not live.
Fresh(b) == [b EXCEPT !.live = FALSE]

(***************************************************************************)
(* The land gate.                                                          *)
(***************************************************************************)
\* syncLandGate: no cell of the wait rail; at rest also none that just left it.
LandAll(b) == Running(b)
LandStable(prev, b, done) == {id \in Running(b) : id \in done \/ id \notin Queued(prev)}

\* Pills that became cells, and pills that left the board.
Inbound(prev, b) == Queued(prev) \cap Running(b)
Gone(prev, b)    == Queued(prev) \ (Cells(b) \cup Queued(b))

\* flyGhost: from here a pill flies on its own, whatever becomes of the board.
Fly(ids) == flights' = flights \cup ids

\* Bug: a pill without a rectangle to fly from is given up.
HandoffDropping(prev, b, first) ==
    LET arrived == IF prev = b THEN {} ELSE Inbound(prev, b)
    IN  \E sent \in SUBSET (arrived \cup (IF prev = b THEN {} ELSE Gone(prev, b))) :
           /\ flights' = flights \cup sent
           /\ reveals' = reveals
           /\ landed' = LandStable(prev, b, first)

\* The effect after a new board: what arrived flies, or without both rectangles is
\* revealed a little later.
Handoff(prev, b, first) ==
    LET arrived == IF prev = b THEN {} ELSE Inbound(prev, b)
    IN  \E sent \in SUBSET (arrived \cup (IF prev = b THEN {} ELSE Gone(prev, b))) :
           /\ Fly(sent)
           /\ reveals' = reveals \cup (arrived \ sent)
           /\ landed' = LandStable(prev, b, first)

(***************************************************************************)
(* The card.  viewing, entered: the refs of the same names; fallback: the  *)
(* demo plays; still: the browser asks for no motion.                      *)
(***************************************************************************)
BoardInit ==
    /\ \E demo, still \in BOOLEAN :
          card = [expanded |-> FALSE, demo |-> demo, fallback |-> FALSE, viewing |-> FALSE,
                  entered |-> FALSE, still |-> still, answers |-> 0, toggles |-> 0]
    /\ live = None /\ board = Idle
    /\ landed = {} /\ reveals = {} /\ flights = {}

\* Is there something to fade in?
Bootstrapped(c, b, a) ==
    \/ c.viewing
    \/ a = None /\ c.demo /\ c.fallback
    \/ a = None /\ ~c.demo /\ IsIdle(b)

\* The projection effect with an answer, then the handoff effect, once for the old
\* board and once for the new: the first board of a session is simply shown.
ShowLive(c, a) ==
    LET next == Project(IF c.viewing THEN board ELSE Fresh(board), a)
        seen == [c EXCEPT !.fallback = FALSE, !.viewing = TRUE]
    IN  /\ board' = next
        /\ IF c.viewing /\ c.entered /\ ~c.still
           THEN card' = seen /\ Handoff(board, next, LandStable(board, board, landed))
           ELSE /\ card' = [seen EXCEPT !.entered = ~c.still /\ Bootstrapped(seen, next, a)]
                /\ landed' = LandAll(next)
                /\ UNCHANGED <<reveals, flights>>

\* The same without an answer: the demo or the idle board.
ShowNone(c) ==
    LET next == IF ~c.demo THEN Idle ELSE IF IsIdle(board) THEN DemoBoard ELSE board
        seen == [c EXCEPT !.fallback = c.demo, !.viewing = FALSE]
    IN  /\ board' = next
        /\ card' = [seen EXCEPT !.entered = ~c.still /\ Bootstrapped(seen, next, None)]
        /\ landed' = LandAll(next)
        /\ UNCHANGED <<reveals, flights>>

Show(c, a) == IF a = None THEN ShowNone(c) ELSE ShowLive(c, a)

Expand ==
    /\ ~card.expanded
    /\ Show([card EXCEPT !.expanded = TRUE], live)
    /\ UNCHANGED live

\* Collapsing drops the gate and its timers; a demo's switching off runs the handoff
\* effect once more.
Collapse ==
    /\ card.expanded
    /\ card' = [card EXCEPT !.expanded = FALSE, !.fallback = FALSE, !.viewing = FALSE,
                            !.entered = FALSE]
    /\ landed' = IF card.fallback THEN LandAll(board) ELSE {}
    /\ reveals' = {}
    /\ UNCHANGED <<live, board, flights>>

\* useLive: an answer, early or late, is the card's next one; a collapsed card does
\* not look.
LiveAnswered(a) ==
    /\ card.answers < MaxAnswers
    /\ live' = a
    /\ IF card.expanded THEN Show([card EXCEPT !.answers = @ + 1], a)
       ELSE card' = [card EXCEPT !.answers = @ + 1] /\ UNCHANGED <<board, landed, reveals, flights>>

\* The effect depends on the switch: with an answer it projects that one again.
ToggleDemo ==
    /\ card.expanded /\ card.toggles < MaxToggles
    /\ Show([card EXCEPT !.demo = ~@, !.toggles = @ + 1], live)
    /\ UNCHANGED live

(***************************************************************************)
(* tickMockInflight.  Which cells are ready, how they end, which accounts  *)
(* are limited and which waiting jobs are urgent are choices.              *)
(***************************************************************************)
\* Free cells of the accounts that are not limited pull the queue's front.
Pull(cells, queue, open) ==
    LET pulled[n \in Nat] ==
            LET now  == IF n = 0 THEN [cells |-> cells, queue |-> queue] ELSE pulled[n - 1]
                free == {w \in open : Len(now.cells[w]) < Cap}
                w    == CHOOSE w \in free : TRUE
            IN  IF n = 0 \/ now.queue = << >> \/ free = {} THEN now
                ELSE [cells |-> [now.cells EXCEPT ![w] = Append(@, Head(now.queue))],
                      queue |-> Tail(now.queue)]
    IN  pulled[Len(queue)]

\* At most one cell of an account, ready[w], ends per tick: done, failed, or back to
\* the queue.
Tick(b, limited, ready, verdict, more, urgent) ==
    LET ends   == {w \in Worker \ limited : ready[w] \in DOMAIN b.cells[w]}
        again  == {b.cells[w][ready[w]] : w \in {w \in ends : verdict[w] = "retry"}}
        pulled == Pull([w \in Worker |-> IF w \in ends THEN RemoveAt(b.cells[w], ready[w])
                                                       ELSE b.cells[w]],
                       SetToSeq(again) \o b.queue, Worker \ limited)
        grown  == IF more THEN Append(pulled.queue, Demo(b.seq + 1)) ELSE pulled.queue
        High(id) == id \in urgent
        Low(id)  == id \notin urgent
    IN  [b EXCEPT !.cells  = pulled.cells,
                  !.queue  = SelectSeq(grown, High) \o SelectSeq(grown, Low),
                  !.seq    = IF more THEN @ + 1 ELSE @,
                  !.done   = @ + Cardinality({w \in ends : verdict[w] = "done"}),
                  !.failed = @ + Cardinality({w \in ends : verdict[w] = "failed"})]

DemoTick ==
    /\ card.expanded /\ card.fallback /\ card.demo /\ live = None /\ ~card.still
    /\ \E limited \in SUBSET Worker, verdict \in [Worker -> {"done", "failed", "retry"}],
          ready \in [Worker -> 0..Cap], more \in BOOLEAN, urgent \in SUBSET Queued(board) :
          /\ more => board.seq < MaxDemoJobs
          /\ \E next \in {Tick(board, limited, ready, verdict, more, urgent)} :
                board' = next /\ Handoff(board, next, landed)
    /\ UNCHANGED <<card, live>>

\* markCellLanded: a flight ends, or a reveal timer fires.
Lands(id) ==
    /\ id \in flights
    /\ flights' = flights \ {id}
    /\ landed' = landed \cup {id} /\ reveals' = reveals \ {id}
    /\ UNCHANGED <<card, live, board>>

Reveal(id) ==
    /\ id \in reveals
    /\ landed' = landed \cup {id} /\ reveals' = reveals \ {id}
    /\ UNCHANGED <<card, live, board, flights>>

BoardNext ==
    \/ Expand \/ Collapse \/ ToggleDemo \/ DemoTick
    \/ \E a \in Answer : LiveAnswered(a)
    \/ \E id \in flights : Lands(id)
    \/ \E id \in reveals : Reveal(id)

BoardSpec == BoardInit /\ [][BoardNext]_boardVars

-----------------------------------------------------------------------------
\* What SlotBar shows of a cell: its model and seconds once it has landed.
Chrome == {id \in Running(board) : id \in landed}

\* A request at work in a cell of the open board is shown there, or is on its way:
\* no cell stays blank.
NoBlankCell == card.expanded => Running(board) \subseteq Chrome \cup flights \cup reveals

\* The open board never stays invisible waiting for its first fade.
BodyShown == card.expanded /\ ~card.still => card.entered

\* "occupied chrome (model + elapsed) shows only after the queue→slot fly lands":
\* a pill still in the air has no cell shown.
LandsFirst == card.expanded => Chrome \cap flights = {}

\* "Later polls carry + bump": only an answer changes a live session's counts.
CountedPerAnswer ==
    [][ card.viewing /\ card'.viewing /\ <<board.done, board.failed>> # <<board'.done, board'.failed>>
        => card'.answers # card.answers ]_boardVars
=============================================================================
