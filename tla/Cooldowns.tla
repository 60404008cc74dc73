------------------------------ MODULE Cooldowns ------------------------------
(***************************************************************************)
(* The cooldowns of one account (internal/executor/pool.go and classify.go,*)
(* internal/runtime/manager.go): what failures, successes, health probes   *)
(* and quota readings do to its pool item, what of it reaches SQLite and   *)
(* what comes back after a restart.  Items never read one another's        *)
(* cooldowns, so one account is the whole story; its requests run          *)
(* concurrently and report in any order.                                   *)
(*                                                                         *)
(* Deadlines are the time that remains: None is the zero time.Time, 0 a    *)
(* deadline in the past.  One unit is backoffFloor.                        *)
(***************************************************************************)
EXTENDS Integers

CONSTANTS
  Model,       \* public models the account serves
  AutoModel,   \* the request model "auto", which scopes nothing
  None,        \* no deadline, no kind
  Kind,        \* failure kinds that cool an account
  Base,        \* Base[k]: the classifier's cooldown for a failure of kind k
  Floor,       \* backoffFloor
  Ceiling,     \* backoffCeiling
  MaxLevel,    \* backoffMaxLevel
  MaxFlights,  \* bound: concurrent requests for one model
  MaxFailures, \* bound: classified failures
  MaxRestarts  \* bound: restarts of the process

ASSUME CooldownsAssumption ==
  /\ AutoModel \notin Model /\ None \notin Kind /\ None \notin Int
  /\ {"rate_limit", "quota"} \subseteq Kind
  /\ Base \in [Kind -> Nat \ {0}]
  /\ Floor \in Nat \ {0} /\ Ceiling \in Nat \ {0} /\ MaxLevel \in Nat \ {0}
  /\ MaxFlights \in Nat /\ MaxFailures \in Nat /\ MaxRestarts \in Nat

VARIABLES
  item,     \* the pool item: DownUntil, LastKind, BackoffLevel and, per model,
            \* ModelDownUntil, ModelLastKind, ModelBackoff
  flights,  \* requests dispatched to the account that have not reported yet
  rows,     \* its account_cooldowns rows
  seen,     \* history, kept with the item: rate limits of each model since its
            \* last success, account-wide failures of one kind in a row, and the
            \* kind that set DownUntil
  stored,   \* history: seen as of the rows
  clean,    \* history: whether the item is as it was last saved
  healthy,  \* history: the last report was a success that left nothing cooling
  failures, \* how much of MaxFailures is spent
  restarts  \* how much of MaxRestarts is spent

vars == <<item, flights, rows, seen, stored, clean, healthy, failures, restarts>>

Scope == Model \cup {AutoModel}
Smaller(x, y) == IF x <= y THEN x ELSE y
Cooling(d) == d # None /\ d > 0
Later(d) == IF Cooling(d) THEN d - 1 ELSE d

Fresh == [down |-> None, kind |-> None, level |-> 0,
          mDown |-> [m \in Model |-> None], mKind |-> [m \in Model |-> None],
          mLevel |-> [m \in Model |-> 0]]
NoRows == [down |-> None, level |-> 0,
           mDown |-> [m \in Model |-> None], mLevel |-> [m \in Model |-> 0]]
Unseen == [limits |-> [m \in Model |-> 0], run |-> 0, runKind |-> None, owner |-> None]

\* itemDown, itemModelDown
Usable(m) ==
  /\ ~Cooling(item.down)
  /\ m \in Model => ~Cooling(item.mDown[m])

NextBackoff(base, level) ==
  IF level >= MaxLevel THEN Ceiling
  ELSE LET next == base * 2^level
       IN  Smaller(IF next < Floor THEN Floor ELSE next, Ceiling)

\* A first failure and its first repeat get the classifier's own duration.
Cooldown(k, level) == IF level > 1 THEN NextBackoff(Base[k], level - 1) ELSE Base[k]

\* The ladder climbs on a repeat and starts over on a new kind.
Climb(level, repeat) == IF repeat THEN Smaller(level + 1, MaxLevel) ELSE 0

-----------------------------------------------------------------------------
(* Requests.  PickRoute dispatches to a usable account only; the outcome is *)
(* reported later, whatever has become of the account by then.              *)

Dispatch(m) ==
  /\ Usable(m) /\ flights[m] < MaxFlights
  /\ flights' = [flights EXCEPT ![m] = @ + 1]
  /\ UNCHANGED <<item, rows, seen, stored, clean, healthy, failures, restarts>>

\* A request leaves without a mark: the client went away, its own content was
\* rejected, the model is not in the account's catalog.
Ends(m) ==
  /\ flights[m] > 0
  /\ flights' = [flights EXCEPT ![m] = @ - 1]
  /\ UNCHANGED <<item, rows, seen, stored, clean, healthy, failures, restarts>>

\* MarkClassified of a rate limit scoped to model m.
AfterLimit(m) ==
  LET climbed == Climb(item.mLevel[m], item.mKind[m] = "rate_limit")
  IN  [item EXCEPT !.mKind[m] = "rate_limit", !.mLevel[m] = climbed,
                   !.mDown[m] = Cooldown("rate_limit", climbed)]

\* MarkClassified of everything else, which the whole account pays for.
AfterFailure(k) ==
  LET climbed == Climb(item.level, item.kind = k)
  IN  [item EXCEPT !.kind = k, !.level = climbed, !.down = Cooldown(k, climbed)]

Limited(m) ==
  /\ item' = AfterLimit(m)
  /\ seen' = [seen EXCEPT !.limits[m] = @ + 1]

Failed(k) ==
  /\ item' = AfterFailure(k)
  /\ seen' = [seen EXCEPT !.run = IF seen.runKind = k THEN @ + 1 ELSE 1,
                          !.runKind = k, !.owner = k]

\* A dispatched request fails: before or, in a stream, after its headers.
Fails(m, k) ==
  /\ flights[m] > 0 /\ failures < MaxFailures
  /\ flights' = [flights EXCEPT ![m] = @ - 1]
  /\ IF k = "rate_limit" /\ m \in Model THEN Limited(m) ELSE Failed(k)
  /\ clean' = FALSE /\ healthy' = FALSE /\ failures' = failures + 1
  /\ UNCHANGED <<rows, stored, restarts>>

\* MUTANT of ModelOK: the model's ladder survives its success.
ModelOKKeeps(m) ==
  LET reopened == [item EXCEPT !.mDown[m] = None]
  IN  IF reopened.down = None /\ reopened.mDown = Fresh.mDown
      THEN [reopened EXCEPT !.kind = None, !.level = 0]
      ELSE reopened

\* MarkOK of one model.  The account's own failure state goes only when no
\* deadline of any scope is recorded.
ModelOK(m) ==
  LET reopened == [item EXCEPT !.mDown[m] = None, !.mKind[m] = None, !.mLevel[m] = 0]
  IN  IF reopened.down = None /\ reopened.mDown = Fresh.mDown
      THEN [reopened EXCEPT !.kind = None, !.level = 0]
      ELSE reopened

\* A 200: the request is over, or it is a stream whose body is still to come.
Succeeds(m) ==
  /\ flights[m] > 0
  /\ \E over \in {0, 1} : flights' = [flights EXCEPT ![m] = @ - over]
  /\ IF m \in Model
     THEN /\ item' = ModelOK(m)
          /\ seen' = [seen EXCEPT !.limits[m] = 0]
     ELSE /\ item' = Fresh
          /\ seen' = Unseen
  /\ clean' = FALSE /\ healthy' = \A n \in Scope : Usable(n)'
  /\ UNCHANGED <<rows, stored, failures, restarts>>

-----------------------------------------------------------------------------
(* The runtime *)

\* clearCheckinCooldown: MarkOK of the whole account.
CheckedIn ==
  /\ item' = Fresh /\ seen' = Unseen /\ clean' = FALSE /\ healthy' = FALSE
  /\ UNCHANGED <<flights, rows, stored, failures, restarts>>

\* MergeHealth of a probe that reports no error: LastKind goes, DownUntil stays,
\* and nothing is stamped for the drainer.
ProbedHealthy ==
  /\ item.kind # None
  /\ item' = [item EXCEPT !.kind = None]
  /\ UNCHANGED <<flights, rows, seen, stored, clean, healthy, failures, restarts>>

\* What clearRecoveredDevinQuota takes for a quota cooldown.
OwnedByQuota == Cooling(item.down) /\ item.kind \in {None, "quota"}

\* clearRecoveredDevinQuota, ClearAccountQuotaCooldown: a quota reading shows
\* remaining usage.
QuotaRecovered ==
  /\ OwnedByQuota
  /\ item' = [item EXCEPT !.down = None, !.kind = None, !.level = 0]
  /\ seen' = [seen EXCEPT !.run = 0, !.runKind = None, !.owner = None]
  /\ clean' = FALSE /\ healthy' = FALSE
  /\ UNCHANGED <<flights, rows, stored, failures, restarts>>

\* stopAccount or restartStuckWorker removes the item, startAccount registers
\* the account again; cooldowns come back from the file only at Start.
Reregister ==
  /\ item' = Fresh /\ seen' = Unseen /\ clean' = FALSE /\ healthy' = FALSE
  /\ UNCHANGED <<flights, rows, stored, failures, restarts>>

-----------------------------------------------------------------------------
(* The file *)

\* MUTANT of RowsOf: only the account-wide row is written.
RowsOfAccount(i) ==
  [down |-> IF Cooling(i.down) THEN i.down ELSE None,
   level |-> IF Cooling(i.down) THEN i.level ELSE 0,
   mDown |-> NoRows.mDown, mLevel |-> NoRows.mLevel]

\* cooldownRows and SaveCooldowns: a deadline in the past leaves no row.
RowsOf(i) ==
  [down |-> IF Cooling(i.down) THEN i.down ELSE None,
   level |-> IF Cooling(i.down) THEN i.level ELSE 0,
   mDown |-> [m \in Model |-> IF Cooling(i.mDown[m]) THEN i.mDown[m] ELSE None],
   mLevel |-> [m \in Model |-> IF Cooling(i.mDown[m]) THEN i.mLevel[m] ELSE 0]]

\* The drainer writes the item out.  That it may write an older snapshot than
\* the newest is the same as having saved earlier.
Save ==
  /\ ~clean
  /\ rows' = RowsOf(item) /\ stored' = seen /\ clean' = TRUE
  /\ UNCHANGED <<item, flights, seen, healthy, failures, restarts>>

\* MUTANT of Restored: a model's row also sets the account's ladder.
RestoredPolluted ==
  [down |-> rows.down, kind |-> None,
   level |-> IF \E m \in Model : rows.mLevel[m] > rows.level
             THEN CHOOSE l \in {rows.mLevel[m] : m \in Model} : l > rows.level
             ELSE rows.level,
   mDown |-> rows.mDown,
   mKind |-> [m \in Model |-> IF rows.mDown[m] # None THEN "rate_limit" ELSE None],
   mLevel |-> rows.mLevel]

\* restoreCooldowns: deadlines and ladders come back, and LastKind of the models
\* only.
Restored ==
  [down |-> rows.down, kind |-> None, level |-> rows.level,
   mDown |-> rows.mDown,
   mKind |-> [m \in Model |-> IF rows.mDown[m] # None THEN "rate_limit" ELSE None],
   mLevel |-> rows.mLevel]

Restart ==
  /\ restarts < MaxRestarts
  /\ restarts' = restarts + 1
  /\ item' = Restored
  /\ seen' = [limits |-> [m \in Model |-> IF rows.mDown[m] # None THEN stored.limits[m] ELSE 0],
              run |-> IF rows.down # None THEN stored.run ELSE 0,
              runKind |-> IF rows.down # None THEN stored.runKind ELSE None,
              owner |-> IF rows.down # None THEN stored.owner ELSE None]
  /\ flights' = [m \in Scope |-> 0]
  /\ clean' = TRUE /\ healthy' = FALSE
  /\ UNCHANGED <<rows, stored, failures>>

\* A row whose deadline passes is pruned by the next load.
Elapse(d) == IF Cooling(d) /\ d > 1 THEN d - 1 ELSE None

\* Time passes.
Tick ==
  /\ item' = [item EXCEPT !.down = Later(@), !.mDown = [m \in Model |-> Later(@[m])]]
  /\ rows' = [down |-> Elapse(rows.down),
              level |-> IF Elapse(rows.down) = None THEN 0 ELSE rows.level,
              mDown |-> [m \in Model |-> Elapse(rows.mDown[m])],
              mLevel |-> [m \in Model |->
                            IF Elapse(rows.mDown[m]) = None THEN 0 ELSE rows.mLevel[m]]]
  /\ <<item, rows>>' # <<item, rows>>
  /\ UNCHANGED <<flights, seen, stored, clean, healthy, failures, restarts>>

Init ==
  /\ item = Fresh /\ flights = [m \in Scope |-> 0]
  /\ rows = NoRows /\ seen = Unseen /\ stored = Unseen
  /\ clean = TRUE /\ healthy = FALSE /\ failures = 0 /\ restarts = 0

Next ==
  \/ CheckedIn \/ ProbedHealthy \/ QuotaRecovered \/ Reregister
  \/ Save \/ Restart \/ Tick
  \/ \E m \in Scope : Dispatch(m) \/ Ends(m) \/ Succeeds(m)
  \/ \E m \in Scope, k \in Kind : Fails(m, k)

Spec == Init /\ [][Next]_vars

-----------------------------------------------------------------------------
(* Properties *)

\* "One model's repeated failures must not inflate the ladder for a different
\* model", across restarts too: the ladder of a model counts exactly the rate
\* limits of that model since its last success, as far as the file remembers.
ModelLadderExact ==
  \A m \in Model :
    item.mLevel[m] = IF seen.limits[m] = 0 THEN 0 ELSE Smaller(seen.limits[m] - 1, MaxLevel)

\* Restoring a model's row must not "pollute the account-level ladder": the
\* account's level never exceeds what account-wide failures of one kind in a row
\* have earned.
AccountLadderEarned ==
  item.level <= IF seen.run = 0 THEN 0 ELSE seen.run - 1

\* A cooldown has a cause: the account is down only after an account-wide
\* failure, and a model only after a rate limit of its own, that no success of
\* that scope answered since.
CoolingHasCause ==
  /\ item.down # None => seen.owner # None
  /\ \A m \in Model : item.mDown[m] # None => seen.limits[m] > 0

\* Nothing cools and no ladder stands higher than what failures have earned.
CooldownsAreEarned == AccountLadderEarned /\ CoolingHasCause

\* "Without this a rate-limited account would be retried immediately on boot":
\* a restart changes the availability of no model whose state was saved.
RestartKeepsCooldowns ==
  [][Restart /\ clean =>
       /\ Cooling(item'.down) = Cooling(item.down)
       /\ \A m \in Model : Cooling(item'.mDown[m]) = Cooling(item.mDown[m])]_vars

\* BackoffLevel "climbs on repeated failures of the same kind and resets on
\* success": after a success that leaves nothing cooling, the account's ladder is
\* at its foot.
LadderResetsOnSuccess == healthy => item.level = 0

=============================================================================
