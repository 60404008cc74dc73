------------------------------- MODULE Routing -------------------------------
(***************************************************************************)
(* The request path: one chat request walks the account pool               *)
(* (internal/executor/chat.go, routeLoop) while other requests, health     *)
(* probes and account restarts change the pool (internal/executor/pool.go) *)
(* under it.                                                               *)
(*                                                                         *)
(* Every pool method takes the pool's mutex once, so one method call is    *)
(* one step here.  What the code does in several lock sections is several  *)
(* steps: PickRoute, then RetryAfter or LenRoute, then Acquire, then the   *)
(* upstream call, then MarkClassified or MarkOK, then Release.             *)
(*                                                                         *)
(* One public model and one provider family are modelled; accounts are     *)
(* numbers because the rotation cursor compares account IDs.  A cooldown   *)
(* is the set of scopes ("account", "model") whose deadline lies ahead.    *)
(***************************************************************************)
EXTENDS Integers, FiniteSets, Sequences

CONSTANTS
  Account,       \* account IDs, positive numbers (ID order = number order)
  Request,       \* concurrent chat requests
  RegionOf,      \* RegionOf[a] is the region of account a, a positive number
  DefaultRegion, \* NormalizeRegion("") = "global"
  Cap,           \* Cap[a] is MaxInFlight of account a; 0 means unlimited
  MaxAttempts,   \* ChatExecutor.MaxAttempts
  Pin,           \* the accounts clients pin (X-Qoder-Account), NoAccount for none
  MaxChanges     \* bound: pool changes made by anything but a request

NoAccount == 0
NoRegion  == 0

ASSUME RoutingAssumption ==
  /\ Account \subseteq Nat \ {NoAccount}
  /\ IsFiniteSet(Account)
  /\ IsFiniteSet(Request)
  /\ RegionOf \in [Account -> Nat \ {NoRegion}]
  /\ DefaultRegion \in Nat \ {NoRegion}
  /\ Cap \in [Account -> Nat]
  /\ MaxAttempts \in Nat \ {0}
  /\ Pin \subseteq Account \cup {NoAccount}
  /\ MaxChanges \in Nat

Region == {RegionOf[a] : a \in Account}

VARIABLES
  present,    \* present[a]: the pool has an item for a
  ready,      \* Item.Ready
  serves,     \* the item's catalog lists the public model
  exhausted,  \* Item.Quota.Exceeded
  cooling,    \* cooling[a]: the scopes whose cooldown deadline lies ahead
  inFlight,   \* Item.InFlight
  lastPicked, \* Pool.lastPicked by rotation key; the key varies with the region
  lastRegion, \* Pool.lastRegion by rotation key
  pc,         \* where each request stands in the route loop
  target,     \* the account the request's current pick returned
  loop,       \* the routeLoop struct
  outcome,    \* what the client is told once the request is done
  changes,    \* how much of MaxChanges is spent
  tried,      \* history: the accounts a request sent upstream, in order
  orphaned,   \* history: accounts removed from the pool while requests held slots
  full        \* history: requests an Acquire refused because the account was full

poolVars == <<present, ready, serves, exhausted, cooling, inFlight>>
cursorVars == <<lastPicked, lastRegion>>
requestVars == <<pc, target, loop, outcome>>
historyVars == <<tried, orphaned, full>>
vars == <<poolVars, cursorVars, requestVars, changes, historyVars>>

Scope == {"account", "model"}
Holding == {"attempt", "marked", "streaming", "closing"}
Picking == {"hint", "count", "acquire"}
Location == {"idle", "loop", "diagnose", "done"} \cup Picking \cup Holding
Outcome == {"none", "ok", "stream_error", "last_error", "cooling", "capacity",
            "quota", "model_not_available", "no_accounts"}
RouteLoop == [prefer : Account \cup {NoAccount}, region : Region \cup {NoRegion},
              excluded : SUBSET Account, index : Nat, attempts : Nat,
              erred : BOOLEAN]

Holders(a) == {r \in Request : pc[r] \in Holding /\ target[r] = a}

-----------------------------------------------------------------------------
(* Pool queries *)

\* MUTANT of Saturated: one request too many.
SaturatedLate(a) == Cap[a] > 0 /\ inFlight[a] > Cap[a]
Saturated(a) == Cap[a] > 0 /\ inFlight[a] >= Cap[a]
Idle(a) == cooling[a] = {} /\ ~Saturated(a)

\* routeReadyAndScoped: everything but the quota gate and the model.
Scoped(a, region, excluded) ==
  /\ present[a] /\ ready[a]
  /\ a \notin excluded
  /\ region # NoRegion => RegionOf[a] = region

Matching(region, excluded) ==
  {a \in Account : Scoped(a, region, excluded) /\ ~exhausted[a] /\ serves[a]}

\* LenRoute without exclusions, clamped to 1..MaxAttempts.
AttemptsFor(region) ==
  LET n == Cardinality(Matching(region, {}))
  IN  IF n = 0 THEN 1 ELSE IF n > MaxAttempts THEN MaxAttempts ELSE n

RotationKey(region) == IF region = NoRegion THEN DefaultRegion ELSE region

Within(S, g) == {a \in S : RegionOf[a] = g}

IsLargestRegion(g, S) ==
  /\ Within(S, g) # {}
  /\ \A h \in Region :
       \/ Cardinality(Within(S, h)) < Cardinality(Within(S, g))
       \/ Cardinality(Within(S, h)) = Cardinality(Within(S, g)) /\ g <= h

\* regionLatchStale: some region holds more than twice the latched one.
LatchStale(g, S) ==
  \E h \in Region : 2 * Cardinality(Within(S, g)) < Cardinality(Within(S, h))

LatchHolds(g, S) == g # NoRegion /\ Within(S, g) # {} /\ ~LatchStale(g, S)

\* The region an unpinned pick serves: the latched one while it is fair, else
\* the one with most candidates.
ServesRegion(g, S, latched) ==
  IF LatchHolds(latched, S) THEN g = latched ELSE IsLargestRegion(g, S)

\* successorIndex: the first candidate after the cursor, wrapping to the head.
IsSuccessor(a, S, last) ==
  LET after == {b \in S : b > last}
      pool  == IF after = {} THEN S ELSE after
  IN  a \in pool /\ \A b \in pool : a <= b

-----------------------------------------------------------------------------
(* The route loop of request r *)

Goto(r, there) == pc' = [pc EXCEPT ![r] = there]

Finish(r, what) ==
  /\ Goto(r, "done")
  /\ outcome' = [outcome EXCEPT ![r] = what]

\* MUTANT of PickFails: the pick's own error hides the upstream's.
PickFailsForgetful(r, what) == Finish(r, what)

\* pickFailure: a pick that fails after an upstream failure reports the latter.
PickFails(r, what) == Finish(r, IF loop[r].erred THEN "last_error" ELSE what)

CanPick(r) == pc[r] = "loop" /\ loop[r].index < loop[r].attempts

Available(r) == {a \in Matching(loop[r].region, loop[r].excluded) : Idle(a)}

\* A pin whose account is known but does not serve the model ends the pick.
PinUnserved(r) == loop[r].prefer # NoAccount /\ present[loop[r].prefer]
                    /\ ~serves[loop[r].prefer]

PinUsable(r) == loop[r].prefer # NoAccount /\ loop[r].prefer \in Available(r)

\* newRouteLoop: the region follows a pinned account the pool knows.
Begin(r) ==
  /\ pc[r] = "idle"
  /\ \E p \in Pin :
       LET known  == p # NoAccount /\ present[p]
           region == IF known THEN RegionOf[p] ELSE NoRegion
       IN  loop' = [loop EXCEPT ![r].prefer = p, ![r].region = region,
                                ![r].attempts = AttemptsFor(region)]
  /\ Goto(r, "loop")
  /\ UNCHANGED <<poolVars, cursorVars, target, outcome, changes, historyVars>>

\* MUTANT of Picked: the first pick leaves the region open.
PickedOpen(r, a) ==
  /\ target' = [target EXCEPT ![r] = a]
  /\ loop' = [loop EXCEPT ![r].prefer = NoAccount, ![r].index = @ + 1]
  /\ Goto(r, IF loop[r].region = NoRegion THEN "count" ELSE "acquire")

\* pickNext after PickRoute returned a: the pin is spent, an open region closes
\* on a's region and the attempt budget is recounted in it.
Picked(r, a) ==
  /\ target' = [target EXCEPT ![r] = a]
  /\ loop' = [loop EXCEPT ![r].prefer = NoAccount, ![r].index = @ + 1,
                           ![r].region = IF @ = NoRegion THEN RegionOf[a] ELSE @]
  /\ Goto(r, IF loop[r].region = NoRegion THEN "count" ELSE "acquire")

PickPinned(r) ==
  /\ CanPick(r)
  /\ PinUsable(r)
  /\ Picked(r, loop[r].prefer)
  /\ UNCHANGED <<poolVars, cursorVars, outcome, changes, historyVars>>

\* Round-robin over one region's ready candidates.
PickRotating(r) ==
  LET key == RotationKey(loop[r].region)
  IN  /\ CanPick(r)
      /\ ~PinUsable(r) /\ ~PinUnserved(r)
      /\ \E g \in Region, a \in Available(r) :
           /\ IF loop[r].region = NoRegion
              THEN ServesRegion(g, Available(r), lastRegion[key])
              ELSE g = loop[r].region
           /\ IsSuccessor(a, Within(Available(r), g), lastPicked[key])
           /\ Picked(r, a)
           /\ lastPicked' = [lastPicked EXCEPT ![key] = a]
           /\ lastRegion' = [lastRegion EXCEPT ![key] = RegionOf[a]]
      /\ UNCHANGED <<poolVars, outcome, changes, historyVars>>

CoolingHints(r) == {a \in Matching(loop[r].region, loop[r].excluded) : cooling[a] # {}}

\* Nothing is ready but something is cooling: PickRoute returns it as a hint.
\* Which one resumes first is left open.
PickHint(r) ==
  /\ CanPick(r)
  /\ ~PinUnserved(r)
  /\ Available(r) = {}
  /\ \E a \in CoolingHints(r) : target' = [target EXCEPT ![r] = a]
  /\ Goto(r, "hint")
  /\ UNCHANGED <<poolVars, cursorVars, loop, outcome, changes, historyVars>>

\* RetryAfter > 0: the hint becomes a classified cooling error.
HintCooling(r) ==
  /\ pc[r] = "hint"
  /\ PickFails(r, "cooling")
  /\ UNCHANGED <<poolVars, cursorVars, target, loop, changes, historyVars>>

\* RetryAfter = 0 on the copy PickRoute returned: its deadline passed since, so
\* the hint is a pick, whatever later failures did to the pool's own deadline.
HintExpired(r) ==
  /\ pc[r] = "hint"
  /\ Picked(r, target[r])
  /\ UNCHANGED <<poolVars, cursorVars, outcome, changes, historyVars>>

PickNothing(r) ==
  /\ CanPick(r)
  /\ PinUnserved(r) \/ (Available(r) = {} /\ CoolingHints(r) = {})
  /\ Goto(r, "diagnose")
  /\ UNCHANGED <<poolVars, cursorVars, target, loop, outcome, changes, historyVars>>

\* pick after PickRoute returned nothing: LenRoute, QuotaBlockedForModel and
\* LenRoute without the model are asked in this order (one step here).
Diagnose(r) ==
  LET q == loop[r]
      scoped == {a \in Account : Scoped(a, q.region, q.excluded)}
  IN  /\ pc[r] = "diagnose"
      /\ \/ /\ Matching(q.region, q.excluded) # {}
            /\ PickFails(r, "capacity")
         \/ /\ Matching(q.region, q.excluded) = {}
            /\ \E a \in scoped : exhausted[a] /\ serves[a]
            /\ PickFails(r, "quota")
         \/ /\ Matching(q.region, q.excluded) = {}
            /\ \A a \in scoped : ~(exhausted[a] /\ serves[a])
            /\ \E a \in scoped : ~exhausted[a]
            /\ PickFails(r, "model_not_available")
         \/ /\ scoped = {}
            /\ PickFails(r, "no_accounts")
         \/ /\ scoped # {}
            /\ \A a \in scoped : exhausted[a] /\ ~serves[a]
            /\ PickFails(r, "no_accounts")
      /\ UNCHANGED <<poolVars, cursorVars, target, loop, changes, historyVars>>

\* attemptsFor, after the first pick fixed the region.
CountAttempts(r) ==
  /\ pc[r] = "count"
  /\ loop' = [loop EXCEPT ![r].attempts = AttemptsFor(loop[r].region)]
  /\ Goto(r, "acquire")
  /\ UNCHANGED <<poolVars, cursorVars, target, outcome, changes, historyVars>>

-----------------------------------------------------------------------------
(* The slot and the upstream call *)

\* MUTANT of LoopExit: off by one at the end of the budget.
LoopExitLate(r) ==
  /\ pc[r] = "loop" /\ loop[r].index > loop[r].attempts
  /\ PickFails(r, "no_accounts")
  /\ UNCHANGED <<poolVars, cursorVars, target, loop, changes, historyVars>>

\* The loop ran out of attempts: the last upstream error, or "no worker
\* accounts available" when no attempt ever reached an upstream.
LoopExit(r) ==
  /\ pc[r] = "loop" /\ loop[r].index >= loop[r].attempts
  /\ PickFails(r, "no_accounts")
  /\ UNCHANGED <<poolVars, cursorVars, target, loop, changes, historyVars>>

\* MUTANT of Exclude: the failed account stays a candidate.
ExcludeForgotten(r) == loop' = [loop EXCEPT ![r].erred = @]

Exclude(r) == loop' = [loop EXCEPT ![r].excluded = @ \cup {target[r]}]

Acquire(r) ==
  LET a == target[r]
  IN  /\ pc[r] = "acquire"
      /\ present[a] /\ ~Saturated(a)
      /\ inFlight' = [inFlight EXCEPT ![a] = @ + 1]
      /\ tried' = [tried EXCEPT ![r] = Append(@, a)]
      /\ Goto(r, "attempt")
      /\ UNCHANGED <<present, ready, serves, exhausted, cooling, cursorVars, target,
                     loop, outcome, changes, orphaned, full>>

\* The account filled up, or left the pool, after PickRoute chose it.
AcquireRefused(r) ==
  LET a == target[r]
  IN  /\ pc[r] = "acquire"
      /\ present[a] => Saturated(a)
      /\ Exclude(r)
      /\ full' = IF present[a] THEN full \cup {r} ELSE full
      /\ Goto(r, "loop")
      /\ UNCHANGED <<poolVars, cursorVars, target, outcome, changes,
                     tried, orphaned>>

Failure == {"rate_limit", "unavailable", "quota", "model_not_available",
            "invalid_request", "canceled"}

\* Classify: what a failure cools, and whether another account may be tried.
Cools(kind) == CASE kind = "rate_limit" -> {"model"}
                 [] kind \in {"unavailable", "quota"} -> {"account"}
                 [] OTHER -> {}
FailsOver(kind) == kind \in {"rate_limit", "unavailable", "model_not_available"}

\* MarkClassified; a missing model evicts it from the item's catalog unless the
\* upstream only lost its own catalog (shouldEvictUnavailableModel).
Suffers(a, kind) ==
  /\ cooling' = IF present[a] THEN [cooling EXCEPT ![a] = @ \cup Cools(kind)]
                              ELSE cooling
  /\ \/ serves' = serves
     \/ /\ kind = "model_not_available" /\ present[a]
        /\ serves' = [serves EXCEPT ![a] = FALSE]

\* A failed attempt: its failure is recorded before its slot is released.
AttemptFails(r, kind) ==
  /\ pc[r] = "attempt"
  /\ Suffers(target[r], kind)
  /\ loop' = [loop EXCEPT ![r].erred = TRUE]
  /\ outcome' = IF FailsOver(kind) /\ loop[r].index < loop[r].attempts
                THEN outcome ELSE [outcome EXCEPT ![r] = "last_error"]
  /\ Goto(r, "marked")
  /\ UNCHANGED <<present, ready, exhausted, inFlight, cursorVars, target, changes,
                 historyVars>>

\* MarkOK on the routed model lifts that model's cooldown only.  A stream's
\* response keeps the slot until its body is closed (attachInFlightRelease).
AttemptSucceeds(r) ==
  LET a == target[r]
  IN  /\ pc[r] = "attempt"
      /\ cooling' = [cooling EXCEPT ![a] = @ \ {"model"}]
      /\ outcome' = [outcome EXCEPT ![r] = "ok"]
      /\ \E there \in {"marked", "streaming"} : Goto(r, there)
      /\ UNCHANGED <<present, ready, serves, exhausted, inFlight, cursorVars, target,
                     loop, changes, historyVars>>

\* ObserveStreamFailure: the upstream failed inside a 200's body.
StreamFails(r, kind) ==
  /\ pc[r] = "streaming"
  /\ Suffers(target[r], kind)
  /\ outcome' = [outcome EXCEPT ![r] = "stream_error"]
  /\ Goto(r, "closing")
  /\ UNCHANGED <<present, ready, exhausted, inFlight, cursorVars, target, loop,
                 changes, historyVars>>

\* MUTANT of StreamEnds: the body ends without the close that frees the slot.
StreamEndsUnclosed(r) ==
  /\ pc[r] = "streaming"
  /\ Goto(r, "done")
  /\ UNCHANGED <<poolVars, cursorVars, target, loop, outcome, changes, historyVars>>

StreamEnds(r) ==
  /\ pc[r] = "streaming"
  /\ Goto(r, "closing")
  /\ UNCHANGED <<poolVars, cursorVars, target, loop, outcome, changes, historyVars>>

\* Pool.Release: unknown ids are a no-op and the counter stops at zero.
Release(a) ==
  inFlight' = IF present[a] /\ inFlight[a] > 0
              THEN [inFlight EXCEPT ![a] = @ - 1] ELSE inFlight

\* The attempt's release(): an undecided request excludes the account and walks on.
ReleaseSlot(r) ==
  /\ pc[r] \in {"marked", "closing"}
  /\ Release(target[r])
  /\ IF outcome[r] = "none" THEN Exclude(r) /\ Goto(r, "loop")
                            ELSE loop' = loop /\ Goto(r, "done")
  /\ UNCHANGED <<present, ready, serves, exhausted, cooling, cursorVars, target,
                 outcome, changes, historyVars>>

-----------------------------------------------------------------------------
(* What else changes the pool: time, health probes, the quota refresher, the *)
(* catalog refresher and the runtime manager.                                *)

CooldownEnds(a, scope) ==
  /\ scope \in cooling[a]
  /\ cooling' = [cooling EXCEPT ![a] = @ \ {scope}]
  /\ UNCHANGED <<present, ready, serves, exhausted, inFlight, cursorVars, requestVars,
                 changes, historyVars>>

Changes == changes < MaxChanges /\ changes' = changes + 1

\* MergeHealth and SetRuntimeState: readiness, never InFlight.
MergeHealth(a) ==
  /\ Changes
  /\ present[a]
  /\ ready' = [ready EXCEPT ![a] = ~@]
  /\ UNCHANGED <<present, serves, exhausted, cooling, inFlight, cursorVars, requestVars,
                 historyVars>>

SetQuota(a) ==
  /\ Changes
  /\ present[a]
  /\ exhausted' = [exhausted EXCEPT ![a] = ~@]
  /\ UNCHANGED <<present, ready, serves, cooling, inFlight, cursorVars, requestVars,
                 historyVars>>

SetModels(a) ==
  /\ Changes
  /\ present[a]
  /\ serves' = [serves EXCEPT ![a] = ~@]
  /\ UNCHANGED <<present, ready, exhausted, cooling, inFlight, cursorVars, requestVars,
                 historyVars>>

\* stopAccount and restartStuckWorker drop the item, whatever it carries; a
\* rotation cursor that points at it is cleared.
Remove(a) ==
  /\ Changes
  /\ present[a]
  /\ present' = [present EXCEPT ![a] = FALSE]
  /\ inFlight' = [inFlight EXCEPT ![a] = 0]
  /\ cooling' = [cooling EXCEPT ![a] = {}]
  /\ lastPicked' = [k \in Region \cup {DefaultRegion} |->
                     IF lastPicked[k] = a THEN NoAccount ELSE lastPicked[k]]
  /\ orphaned' = IF Holders(a) = {} THEN orphaned ELSE orphaned \cup {a}
  /\ UNCHANGED <<ready, serves, exhausted, lastRegion, requestVars, tried, full>>

\* MUTANT of Register: registration wipes the counter of a known item.
RegisterWipes(a) ==
  /\ Changes
  /\ present' = [present EXCEPT ![a] = TRUE]
  /\ \E up \in BOOLEAN : ready' = [ready EXCEPT ![a] = up]
  /\ inFlight' = [inFlight EXCEPT ![a] = 0]
  /\ UNCHANGED <<serves, exhausted, cooling, cursorVars, requestVars, historyVars>>

\* startAccount's Upsert.  A known item keeps its counter, quota, catalog and
\* cooldowns; a new one starts empty.  Either may come up ready or not.
Register(a) ==
  /\ Changes
  /\ present' = [present EXCEPT ![a] = TRUE]
  /\ \E up \in BOOLEAN : ready' = [ready EXCEPT ![a] = up]
  /\ IF present[a]
     THEN UNCHANGED <<serves, exhausted, inFlight>>
     ELSE /\ serves' = [serves EXCEPT ![a] = TRUE]
          /\ exhausted' = [exhausted EXCEPT ![a] = FALSE]
          /\ inFlight' = [inFlight EXCEPT ![a] = 0]
  /\ UNCHANGED <<cooling, cursorVars, requestVars, historyVars>>

-----------------------------------------------------------------------------
Init ==
  /\ present = [a \in Account |-> TRUE]
  /\ ready = [a \in Account |-> TRUE]
  /\ serves \in [Account -> BOOLEAN]
  /\ exhausted = [a \in Account |-> FALSE]
  /\ cooling = [a \in Account |-> {}]
  /\ inFlight = [a \in Account |-> 0]
  /\ lastPicked = [k \in Region \cup {DefaultRegion} |-> NoAccount]
  /\ lastRegion = [k \in Region \cup {DefaultRegion} |-> NoRegion]
  /\ pc = [r \in Request |-> "idle"]
  /\ target = [r \in Request |-> NoAccount]
  /\ loop = [r \in Request |->
               [prefer |-> NoAccount, region |-> NoRegion, excluded |-> {},
                index |-> 0, attempts |-> 0, erred |-> FALSE]]
  /\ outcome = [r \in Request |-> "none"]
  /\ changes = 0
  /\ tried = [r \in Request |-> <<>>]
  /\ orphaned = {}
  /\ full = {}

\* What the goroutine serving r does by itself.
Walk(r) ==
  \/ PickPinned(r) \/ PickRotating(r) \/ PickHint(r) \/ PickNothing(r)
  \/ HintCooling(r) \/ HintExpired(r) \/ Diagnose(r) \/ CountAttempts(r)
  \/ LoopExit(r) \/ Acquire(r) \/ AcquireRefused(r) \/ ReleaseSlot(r)

\* What the upstream or the client decides.
Upstream(r) ==
  \/ AttemptSucceeds(r)
  \/ \E kind \in Failure : AttemptFails(r, kind)
  \/ \E kind \in Failure : StreamFails(r, kind)
  \/ StreamEnds(r)

Environment(a) ==
  \/ \E scope \in Scope : CooldownEnds(a, scope)
  \/ MergeHealth(a) \/ SetQuota(a) \/ SetModels(a) \/ Remove(a) \/ Register(a)

Next ==
  \/ \E r \in Request : Begin(r) \/ Walk(r) \/ Upstream(r)
  \/ \E a \in Account : Environment(a)

Spec == Init /\ [][Next]_vars

\* A running goroutine is scheduled, and the HTTP client's timeout, the stream
\* idle timeout or the client's departure ends every upstream call.
Fairness == \A r \in Request : WF_vars(Walk(r)) /\ WF_vars(Upstream(r))

FairSpec == Spec /\ Fairness

-----------------------------------------------------------------------------
(* Properties *)

\* Every variable stays in its domain; in particular InFlight never goes negative
\* and a request past its pick has a target.
TypeOK ==
  /\ present \in [Account -> BOOLEAN] /\ ready \in [Account -> BOOLEAN]
  /\ serves \in [Account -> BOOLEAN] /\ exhausted \in [Account -> BOOLEAN]
  /\ cooling \in [Account -> SUBSET Scope]
  /\ inFlight \in [Account -> Nat]
  /\ lastPicked \in [Region \cup {DefaultRegion} -> Account \cup {NoAccount}]
  /\ lastRegion \in [Region \cup {DefaultRegion} -> Region \cup {NoRegion}]
  /\ pc \in [Request -> Location]
  /\ target \in [Request -> Account \cup {NoAccount}]
  /\ \A r \in Request : pc[r] \in Picking \cup Holding => target[r] \in Account
  /\ loop \in [Request -> RouteLoop]
  /\ outcome \in [Request -> Outcome]
  /\ changes \in 0..MaxChanges
  /\ tried \in [Request -> Seq(Account)]
  /\ orphaned \subseteq Account
  /\ full \subseteq Request

\* Every return path of the route loop gives its slot back exactly once: an
\* account's InFlight is the number of requests that hold one of its slots,
\* unless the account was removed under them.
SlotsConserved ==
  \A a \in Account \ orphaned : inFlight[a] = Cardinality(Holders(a))

\* Removal and re-registration may lose count of slots, never invent one: no
\* account is saturated by requests that are gone.
NoLeakedSlot == \A a \in Account : inFlight[a] <= Cardinality(Holders(a))

\* PickRoute and Acquire are two lock sections; still no account serves more
\* requests at once than MaxInFlight, as long as it was never removed under one.
CapRespected ==
  \A a \in Account \ orphaned : Cap[a] > 0 => Cardinality(Holders(a)) <= Cap[a]

\* pool.go:31, "MaxInFlight caps concurrent requests routed to this account",
\* without the exception above: also when it was removed and registered again.
NoOverAdmission ==
  \A a \in Account : Cap[a] > 0 => Cardinality(Holders(a)) <= Cap[a]

\* A failed or refused account is excluded: one request never sends the same
\* prompt to the same account twice, through pin, rotation or cooling hint.
TriedOnce ==
  \A r \in Request : \A i, j \in 1..Len(tried[r]) :
    tried[r][i] = tried[r][j] => i = j

\* The first pick closes the region: failover never carries a prompt into
\* another region, even when pick and recount saw different pools.
OneRegion ==
  \A r \in Request : \A i, j \in 1..Len(tried[r]) :
    RegionOf[tried[r][i]] = RegionOf[tried[r][j]]

\* However the pool grows or shrinks during the walk, a request makes at most
\* MaxAttempts upstream calls, and refused accounts count against the budget.
WithinBudget ==
  \A r \in Request :
    LET sent == {tried[r][i] : i \in 1..Len(tried[r])}
    IN  Len(tried[r]) + Cardinality(loop[r].excluded \ sent) <= MaxAttempts

\* Failover ends: no account twice, and no more attempts than the budget.
FailoverIsBounded == TriedOnce /\ WithinBudget

\* A request that reached an upstream never ends by blaming the pool: the client
\* sees the upstream's own error (pickFailure), not "no accounts".
UpstreamErrorKept ==
  \A r \in Request : pc[r] = "done" /\ tried[r] # <<>> =>
    outcome[r] \in {"ok", "stream_error", "last_error"}

\* docs/REFACTORING.md:192: full concurrency answers 429 with Retry-After, so a
\* request that an Acquire refused for want of a slot, and that reached no
\* upstream, does not end as "no worker accounts available".
SaturationAnswered ==
  \A r \in Request : pc[r] = "done" /\ r \in full => outcome[r] # "no_accounts"

\* Every request that enters the route loop is answered.
RequestsFinish == \A r \in Request : pc[r] = "loop" ~> pc[r] = "done"

=============================================================================
