---------------------------- MODULE RoutingProofs ----------------------------
(***************************************************************************)
(* Machine-checked proofs about the request path, for every number of      *)
(* accounts, requests, regions, attempts and pool changes.                 *)
(*                                                                         *)
(* The slot argument: while an account's item is never removed under a     *)
(* request, Acquire and Release move InFlight and the set of holders       *)
(* together.  What makes it inductive is that a missing item has counter   *)
(* zero, so that a removed account with no holder may come back empty.     *)
(***************************************************************************)
EXTENDS Routing, FiniteSetTheorems, TLAPS

\* A removed item takes its counter with it.
AbsentIsEmpty == \A a \in Account : ~present[a] => inFlight[a] = 0

\* Acquire admits only below the limit, so the counter itself never exceeds it.
CounterCapped == \A a \in Account : Cap[a] > 0 => inFlight[a] <= Cap[a]

-----------------------------------------------------------------------------
(* Finite sets of requests *)

\* The holders of an account are finitely many, so they can be counted.
LEMMA HoldersFinite ==
  ASSUME NEW a
  PROVE  IsFiniteSet(Holders(a)) /\ Cardinality(Holders(a)) \in Nat
<1>1. Holders(a) \in SUBSET Request  BY DEF Holders
<1>2. IsFiniteSet(Holders(a))  BY <1>1, FS_Subset, RoutingAssumption DEF RoutingAssumption
<1> QED  BY <1>2, FS_CardinalityType

\* The attempt budget is a positive number.
LEMMA AttemptsForType ==
  ASSUME NEW region
  PROVE  AttemptsFor(region) \in Nat \ {0}
<1> DEFINE S == Matching(region, {})
<1>1. S \in SUBSET Account  BY DEF Matching
<1>2. IsFiniteSet(S)  BY <1>1, FS_Subset, RoutingAssumption DEF RoutingAssumption
<1>3. Cardinality(S) \in Nat  BY <1>2, FS_CardinalityType
<1> QED  BY <1>3, RoutingAssumption DEF AttemptsFor, RoutingAssumption

-----------------------------------------------------------------------------
(* Type correctness *)

\* The program starts in its state space.
LEMMA InitType == Init => TypeOK
<1> SUFFICES ASSUME Init PROVE TypeOK  OBVIOUS
<1>1. \A r \in Request : loop[r] \in RouteLoop  BY DEF Init, RouteLoop
<1> QED  BY <1>1, RoutingAssumption
         DEF Init, TypeOK, RoutingAssumption, NoAccount, NoRegion, Location, Picking, Holding,
             Outcome, Scope, RouteLoop

\* pickNext keeps the loop and the target in their types.
LEMMA PickedType ==
  ASSUME TypeOK, NEW r \in Request, NEW a \in Account, Picked(r, a)
  PROVE  /\ target' \in [Request -> Account \cup {NoAccount}]
         /\ pc' \in [Request -> Location]
         /\ \A q \in Request : pc'[q] \in Picking \cup Holding => target'[q] \in Account
         /\ loop' \in [Request -> RouteLoop]
<1>1. RegionOf[a] \in Region  BY DEF Region
<1>2. loop' \in [Request -> RouteLoop]
  <2> DEFINE here == IF loop[r].region = NoRegion THEN RegionOf[a] ELSE loop[r].region
             next == [loop[r] EXCEPT !.prefer = NoAccount, !.index = @ + 1, !.region = here]
  <2>1. loop[r] \in RouteLoop  BY DEF TypeOK
  <2>2. here \in Region \cup {NoRegion}  BY <1>1, <2>1 DEF RouteLoop
  <2>3. loop[r].index \in Nat  BY <2>1 DEF RouteLoop
  <2>4. loop[r].index + 1 \in Nat  BY <2>3
  <2>5. next \in RouteLoop
    <3> HIDE DEF here
    <3> QED  BY <2>1, <2>2, <2>4 DEF RouteLoop
  <2>6. loop' = [loop EXCEPT ![r] = next]  BY <2>1 DEF Picked, TypeOK, RouteLoop
  <2> HIDE DEF next
  <2> QED  BY <2>5, <2>6 DEF TypeOK
<1>3. target' \in [Request -> Account \cup {NoAccount}] /\ pc' \in [Request -> Location]
  BY DEF TypeOK, Picked, Goto, Location, Picking
<1>4. \A q \in Request : pc'[q] \in Picking \cup Holding => target'[q] \in Account
  BY DEF TypeOK, Picked, Goto
<1> QED  BY <1>2, <1>3, <1>4

\* A loop changed at one request only.
LEMMA LoopChanged ==
  ASSUME TypeOK, NEW r \in Request, NEW next \in RouteLoop,
         loop' = [loop EXCEPT ![r] = next]
  PROVE  loop' \in [Request -> RouteLoop]
BY DEF TypeOK

\* Excluding an account the request has targeted keeps its loop well typed.
LEMMA ExcludedType ==
  ASSUME TypeOK, NEW r \in Request, target[r] \in Account, Exclude(r)
  PROVE  loop' \in [Request -> RouteLoop]
<1> DEFINE next == [loop[r] EXCEPT !.excluded = @ \cup {target[r]}]
<1>1. loop[r] \in RouteLoop  BY DEF TypeOK
<1>2. loop[r].excluded \cup {target[r]} \in SUBSET Account  BY <1>1 DEF RouteLoop
<1>3. next \in RouteLoop  BY <1>1, <1>2 DEF RouteLoop
<1>4. loop' = [loop EXCEPT ![r] = next]  BY <1>1 DEF Exclude, TypeOK, RouteLoop
<1> HIDE DEF next
<1> QED  BY <1>3, <1>4, LoopChanged

\* Recording a failure keeps cooldowns and catalogs well typed.
LEMMA SuffersType ==
  ASSUME TypeOK, NEW a \in Account, NEW kind \in Failure, Suffers(a, kind)
  PROVE  cooling' \in [Account -> SUBSET Scope] /\ serves' \in [Account -> BOOLEAN]
<1>1. Cools(kind) \subseteq Scope  BY DEF Cools, Scope
<1>2. cooling' \in [Account -> SUBSET Scope]  BY <1>1 DEF Suffers, TypeOK
<1>3. serves' \in [Account -> BOOLEAN]  BY DEF Suffers, TypeOK
<1> QED  BY <1>2, <1>3

\* Every step of the system keeps every variable in its domain.
LEMMA NextType == TypeOK /\ [Next]_vars => TypeOK'
<1> SUFFICES ASSUME TypeOK, [Next]_vars PROVE TypeOK'  OBVIOUS
<1> USE DEF NoAccount, NoRegion
<1>1. ASSUME NEW r \in Request, Begin(r) PROVE TypeOK'
  <2>1. PICK p \in Pin : loop' = [loop EXCEPT
            ![r].prefer = p,
            ![r].region = IF p # NoAccount /\ present[p] THEN RegionOf[p] ELSE NoRegion,
            ![r].attempts = AttemptsFor(IF p # NoAccount /\ present[p]
                                        THEN RegionOf[p] ELSE NoRegion)]
    BY <1>1 DEF Begin
  <2> DEFINE region == IF p # NoAccount /\ present[p] THEN RegionOf[p] ELSE NoRegion
             n == AttemptsFor(region)
             next == [loop[r] EXCEPT !.prefer = p, !.region = region, !.attempts = n]
  <2>2. p \in Account \cup {NoAccount}  BY RoutingAssumption DEF RoutingAssumption
  <2>3. region \in Region \cup {NoRegion}  BY <2>2 DEF Region
  <2>4. n \in Nat  BY AttemptsForType
  <2>5. loop[r] \in RouteLoop  BY DEF TypeOK
  <2>6. loop' = [loop EXCEPT ![r] = next]  BY <2>1, <2>5 DEF TypeOK, RouteLoop
  <2>7. next \in RouteLoop
    <3> HIDE DEF region, n
    <3> QED  BY <2>2, <2>3, <2>4, <2>5 DEF RouteLoop
  <2>8. loop' \in [Request -> RouteLoop]
    <3> HIDE DEF next
    <3> QED  BY <2>6, <2>7 DEF TypeOK
  <2>9. pc' \in [Request -> Location]
          /\ \A q \in Request : pc'[q] \in Picking \cup Holding => target'[q] \in Account
    BY <1>1 DEF Begin, Goto, TypeOK, Location, Picking, Holding
  <2> QED  BY <1>1, <2>8, <2>9 DEF Begin, TypeOK, poolVars, cursorVars, historyVars
<1>2. ASSUME NEW r \in Request, PickPinned(r) PROVE TypeOK'
  <2>1. loop[r].prefer \in Account  BY <1>2 DEF PickPinned, PinUsable, Available, Matching
  <2>2. Picked(r, loop[r].prefer)  BY <1>2 DEF PickPinned
  <2> QED  BY <1>2, <2>1, <2>2, PickedType
           DEF PickPinned, TypeOK, poolVars, cursorVars, historyVars
<1>3. ASSUME NEW r \in Request, PickRotating(r) PROVE TypeOK'
  <2> DEFINE key == RotationKey(loop[r].region)
  <2>1. PICK g \in Region, a \in Available(r) :
          /\ Picked(r, a)
          /\ lastPicked' = [lastPicked EXCEPT ![key] = a]
          /\ lastRegion' = [lastRegion EXCEPT ![key] = RegionOf[a]]
    BY <1>3 DEF PickRotating
  <2>2. a \in Account  BY DEF Available, Matching
  <2>3. RegionOf[a] \in Region  BY <2>2 DEF Region
  <2>4. /\ lastPicked' \in [Region \cup {DefaultRegion} -> Account \cup {NoAccount}]
        /\ lastRegion' \in [Region \cup {DefaultRegion} -> Region \cup {NoRegion}]
    BY <2>1, <2>2, <2>3 DEF TypeOK
  <2> QED  BY <1>3, <2>1, <2>2, <2>4, PickedType
           DEF PickRotating, TypeOK, poolVars, historyVars
<1>4. ASSUME NEW r \in Request, PickHint(r) PROVE TypeOK'
  <2>1. PICK a \in CoolingHints(r) : target' = [target EXCEPT ![r] = a]  BY <1>4 DEF PickHint
  <2>2. a \in Account  BY DEF CoolingHints, Matching
  <2>3. /\ pc' \in [Request -> Location]
        /\ target' \in [Request -> Account \cup {NoAccount}]
        /\ \A q \in Request : pc'[q] \in Picking \cup Holding => target'[q] \in Account
    BY <1>4, <2>1, <2>2 DEF PickHint, Goto, TypeOK, Location, Picking
  <2> QED  BY <1>4, <2>3 DEF PickHint, TypeOK, poolVars, cursorVars, historyVars
<1>5. ASSUME NEW r \in Request, PickNothing(r) PROVE TypeOK'
  BY <1>5 DEF PickNothing, Goto, TypeOK, Location, Picking, Holding, poolVars, cursorVars,
              historyVars
<1>6. ASSUME NEW r \in Request, HintCooling(r) \/ Diagnose(r) \/ LoopExit(r) PROVE TypeOK'
  <2>1. /\ Goto(r, "done")
        /\ \E what \in Outcome : outcome' = [outcome EXCEPT ![r] = what]
        /\ UNCHANGED <<poolVars, cursorVars, target, loop, changes, historyVars>>
    BY <1>6 DEF HintCooling, Diagnose, LoopExit, PickFails, Finish, Outcome
  <2>2. /\ pc' \in [Request -> Location]
        /\ \A q \in Request : pc'[q] \in Picking \cup Holding => target'[q] \in Account
    BY <2>1 DEF Goto, TypeOK, Location, Picking, Holding
  <2>3. outcome' \in [Request -> Outcome]  BY <2>1 DEF TypeOK
  <2> QED  BY <2>1, <2>2, <2>3 DEF TypeOK, poolVars, cursorVars, historyVars
<1>7. ASSUME NEW r \in Request, HintExpired(r) PROVE TypeOK'
  <2>1. target[r] \in Account  BY <1>7 DEF HintExpired, TypeOK, Picking
  <2>2. Picked(r, target[r])  BY <1>7 DEF HintExpired
  <2> QED  BY <1>7, <2>1, <2>2, PickedType
           DEF HintExpired, TypeOK, poolVars, cursorVars, historyVars
<1>8. ASSUME NEW r \in Request, CountAttempts(r) PROVE TypeOK'
  <2> DEFINE n == AttemptsFor(loop[r].region)
  <2>1. n \in Nat  BY AttemptsForType
  <2>2. loop' \in [Request -> RouteLoop]
    <3> DEFINE next == [loop[r] EXCEPT !.attempts = n]
    <3>1. loop[r] \in RouteLoop  BY DEF TypeOK
    <3>2. loop' = [loop EXCEPT ![r] = next]  BY <1>8 DEF CountAttempts
    <3>3. next \in RouteLoop
      <4> HIDE DEF n
      <4> QED  BY <2>1, <3>1 DEF RouteLoop
    <3> HIDE DEF next
    <3> QED  BY <3>2, <3>3, LoopChanged
  <2>3. /\ pc' \in [Request -> Location]
        /\ \A q \in Request : pc'[q] \in Picking \cup Holding => target'[q] \in Account
    BY <1>8 DEF CountAttempts, Goto, TypeOK, Location, Picking
  <2> QED  BY <1>8, <2>2, <2>3 DEF CountAttempts, TypeOK, poolVars, cursorVars, historyVars
<1>9. ASSUME NEW r \in Request, Acquire(r) PROVE TypeOK'
  <2>1. target[r] \in Account  BY <1>9 DEF Acquire, TypeOK, Picking
  <2>2. inFlight' \in [Account -> Nat]  BY <1>9, <2>1 DEF Acquire, TypeOK
  <2>3. tried' \in [Request -> Seq(Account)]  BY <1>9, <2>1 DEF Acquire, TypeOK
  <2>4. /\ pc' \in [Request -> Location]
        /\ \A q \in Request : pc'[q] \in Picking \cup Holding => target'[q] \in Account
    BY <1>9, <2>1 DEF Acquire, Goto, TypeOK, Location, Holding
  <2> QED  BY <1>9, <2>2, <2>3, <2>4 DEF Acquire, TypeOK, cursorVars
<1>10. ASSUME NEW r \in Request, AcquireRefused(r) PROVE TypeOK'
  <2>1. target[r] \in Account  BY <1>10 DEF AcquireRefused, TypeOK, Picking
  <2>2. loop' \in [Request -> RouteLoop]
    BY <1>10, <2>1, ExcludedType DEF AcquireRefused
  <2>3. /\ pc' \in [Request -> Location]
        /\ \A q \in Request : pc'[q] \in Picking \cup Holding => target'[q] \in Account
    BY <1>10 DEF AcquireRefused, Goto, TypeOK, Location, Picking, Holding
  <2> QED  BY <1>10, <2>2, <2>3 DEF AcquireRefused, TypeOK, poolVars, cursorVars
<1>11. ASSUME NEW r \in Request, NEW kind \in Failure, AttemptFails(r, kind) PROVE TypeOK'
  <2>1. target[r] \in Account  BY <1>11 DEF AttemptFails, TypeOK, Holding
  <2>2. cooling' \in [Account -> SUBSET Scope] /\ serves' \in [Account -> BOOLEAN]
    BY <1>11, <2>1, SuffersType DEF AttemptFails
  <2>3. loop' \in [Request -> RouteLoop]
    <3> DEFINE next == [loop[r] EXCEPT !.erred = TRUE]
    <3>1. loop[r] \in RouteLoop  BY DEF TypeOK
    <3>2. next \in RouteLoop  BY <3>1 DEF RouteLoop
    <3>3. loop' = [loop EXCEPT ![r] = next]  BY <1>11 DEF AttemptFails
    <3> HIDE DEF next
    <3> QED  BY <3>2, <3>3, LoopChanged
  <2>4. /\ pc' \in [Request -> Location]
        /\ \A q \in Request : pc'[q] \in Picking \cup Holding => target'[q] \in Account
    BY <1>11, <2>1 DEF AttemptFails, Goto, TypeOK, Location, Holding
  <2>5. outcome' \in [Request -> Outcome]  BY <1>11 DEF AttemptFails, TypeOK, Outcome
  <2> QED  BY <1>11, <2>2, <2>3, <2>4, <2>5 DEF AttemptFails, TypeOK, cursorVars, historyVars
<1>12. ASSUME NEW r \in Request, AttemptSucceeds(r) PROVE TypeOK'
  <2>1. target[r] \in Account  BY <1>12 DEF AttemptSucceeds, TypeOK, Holding
  <2>2. cooling' \in [Account -> SUBSET Scope]  BY <1>12 DEF AttemptSucceeds, TypeOK
  <2>3. /\ pc' \in [Request -> Location]
        /\ \A q \in Request : pc'[q] \in Picking \cup Holding => target'[q] \in Account
    BY <1>12, <2>1 DEF AttemptSucceeds, Goto, TypeOK, Location, Holding
  <2>4. outcome' \in [Request -> Outcome]  BY <1>12 DEF AttemptSucceeds, TypeOK, Outcome
  <2> QED  BY <1>12, <2>2, <2>3, <2>4 DEF AttemptSucceeds, TypeOK, cursorVars, historyVars
<1>13. ASSUME NEW r \in Request, NEW kind \in Failure, StreamFails(r, kind) PROVE TypeOK'
  <2>1. target[r] \in Account  BY <1>13 DEF StreamFails, TypeOK, Holding
  <2>2. cooling' \in [Account -> SUBSET Scope] /\ serves' \in [Account -> BOOLEAN]
    BY <1>13, <2>1, SuffersType DEF StreamFails
  <2>3. /\ pc' \in [Request -> Location]
        /\ \A q \in Request : pc'[q] \in Picking \cup Holding => target'[q] \in Account
    BY <1>13, <2>1 DEF StreamFails, Goto, TypeOK, Location, Holding
  <2>4. outcome' \in [Request -> Outcome]  BY <1>13 DEF StreamFails, TypeOK, Outcome
  <2> QED  BY <1>13, <2>2, <2>3, <2>4 DEF StreamFails, TypeOK, cursorVars, historyVars
<1>14. ASSUME NEW r \in Request, StreamEnds(r) PROVE TypeOK'
  <2>1. /\ pc' \in [Request -> Location]
        /\ \A q \in Request : pc'[q] \in Picking \cup Holding => target'[q] \in Account
    BY <1>14 DEF StreamEnds, Goto, TypeOK, Location, Holding
  <2> QED  BY <1>14, <2>1 DEF StreamEnds, TypeOK, poolVars, cursorVars, historyVars
<1>15. ASSUME NEW r \in Request, ReleaseSlot(r) PROVE TypeOK'
  <2>1. target[r] \in Account  BY <1>15 DEF ReleaseSlot, TypeOK, Holding
  <2>2. inFlight' \in [Account -> Nat]  BY <1>15, <2>1 DEF ReleaseSlot, Release, TypeOK
  <2>3. loop' \in [Request -> RouteLoop]
    <3>1. CASE outcome[r] = "none"
      <4>1. Exclude(r)  BY <1>15, <3>1 DEF ReleaseSlot
      <4> QED  BY <2>1, <4>1, ExcludedType
    <3>2. CASE outcome[r] # "none"  BY <1>15, <3>2 DEF ReleaseSlot, TypeOK
    <3> QED  BY <3>1, <3>2
  <2>4. /\ pc' \in [Request -> Location]
        /\ \A q \in Request : pc'[q] \in Picking \cup Holding => target'[q] \in Account
    BY <1>15 DEF ReleaseSlot, Goto, TypeOK, Location, Picking, Holding
  <2> QED  BY <1>15, <2>2, <2>3, <2>4 DEF ReleaseSlot, TypeOK, cursorVars, historyVars
<1>16. ASSUME NEW a \in Account, NEW scope \in Scope, CooldownEnds(a, scope) PROVE TypeOK'
  BY <1>16 DEF CooldownEnds, TypeOK, cursorVars, requestVars, historyVars
<1>17. ASSUME NEW a \in Account, MergeHealth(a) \/ SetQuota(a) \/ SetModels(a) PROVE TypeOK'
  <2>1. changes' \in 0..MaxChanges
    BY <1>17, RoutingAssumption
       DEF MergeHealth, SetQuota, SetModels, Changes, TypeOK, RoutingAssumption
  <2>2. /\ ready' \in [Account -> BOOLEAN] /\ exhausted' \in [Account -> BOOLEAN]
        /\ serves' \in [Account -> BOOLEAN]
    BY <1>17 DEF MergeHealth, SetQuota, SetModels, TypeOK
  <2> QED  BY <1>17, <2>1, <2>2
           DEF MergeHealth, SetQuota, SetModels, TypeOK, cursorVars, requestVars, historyVars
<1>18. ASSUME NEW a \in Account, Remove(a) PROVE TypeOK'
  <2>1. changes' \in 0..MaxChanges
    BY <1>18, RoutingAssumption DEF Remove, Changes, TypeOK, RoutingAssumption
  <2>2. /\ present' \in [Account -> BOOLEAN] /\ inFlight' \in [Account -> Nat]
        /\ cooling' \in [Account -> SUBSET Scope] /\ orphaned' \subseteq Account
    BY <1>18 DEF Remove, TypeOK
  <2>3. lastPicked' \in [Region \cup {DefaultRegion} -> Account \cup {NoAccount}]
    BY <1>18 DEF Remove, TypeOK
  <2> QED  BY <1>18, <2>1, <2>2, <2>3 DEF Remove, TypeOK, requestVars
<1>19. ASSUME NEW a \in Account, Register(a) PROVE TypeOK'
  <2>1. changes' \in 0..MaxChanges
    BY <1>19, RoutingAssumption DEF Register, Changes, TypeOK, RoutingAssumption
  <2>2. /\ present' \in [Account -> BOOLEAN] /\ ready' \in [Account -> BOOLEAN]
        /\ serves' \in [Account -> BOOLEAN] /\ exhausted' \in [Account -> BOOLEAN]
        /\ inFlight' \in [Account -> Nat]
    <3>1. present' \in [Account -> BOOLEAN] /\ ready' \in [Account -> BOOLEAN]
      BY <1>19 DEF Register, TypeOK
    <3>2. /\ serves' = serves \/ serves' = [serves EXCEPT ![a] = TRUE]
          /\ exhausted' = exhausted \/ exhausted' = [exhausted EXCEPT ![a] = FALSE]
          /\ inFlight' = inFlight \/ inFlight' = [inFlight EXCEPT ![a] = 0]
      BY <1>19 DEF Register
    <3>3. serves' \in [Account -> BOOLEAN]  BY <3>2 DEF TypeOK
    <3>4. exhausted' \in [Account -> BOOLEAN]  BY <3>2 DEF TypeOK
    <3>5. inFlight' \in [Account -> Nat]  BY <3>2 DEF TypeOK
    <3> QED  BY <3>1, <3>3, <3>4, <3>5
  <2> QED  BY <1>19, <2>1, <2>2 DEF Register, TypeOK, cursorVars, requestVars, historyVars
<1>20. CASE UNCHANGED vars
  BY <1>20 DEF vars, poolVars, cursorVars, requestVars, historyVars, TypeOK
<1> QED
  BY <1>1, <1>2, <1>3, <1>4, <1>5, <1>6, <1>7, <1>8, <1>9, <1>10, <1>11, <1>12, <1>13,
     <1>14, <1>15, <1>16, <1>17, <1>18, <1>19, <1>20
     DEF Next, Walk, Upstream, Environment

\* Every variable of the request path stays in its domain (Routing!TypeOK).
THEOREM TypeCorrect == Spec => []TypeOK
BY InitType, NextType, PTL DEF Spec

-----------------------------------------------------------------------------
(* Slots *)

SlotParts == AbsentIsEmpty /\ CounterCapped /\ SlotsConserved /\ NoLeakedSlot

\* A step that moves one request without crossing the Acquire/Release boundary
\* changes nobody's holders.
LEMMA HoldersKept ==
  ASSUME TypeOK, NEW r \in Request, NEW there, Goto(r, there),
         pc[r] \in Holding <=> there \in Holding,
         \A q \in Request : q # r \/ there \in Holding => target'[q] = target[q]
  PROVE  \A a \in Account : Holders(a)' = Holders(a)
<1>1. \A q \in Request : pc'[q] \in Holding <=> pc[q] \in Holding  BY DEF Goto, TypeOK
<1>2. \A q \in Request : pc[q] \in Holding => target'[q] = target[q]  BY DEF Goto, TypeOK
<1> QED  BY <1>1, <1>2 DEF Holders

\* A step that changes neither counters nor holders keeps the slot invariant.
LEMMA SlotsUntouched ==
  ASSUME SlotParts, UNCHANGED <<present, inFlight, orphaned>>,
         \A a \in Account : Holders(a)' = Holders(a)
  PROVE  SlotParts'
BY DEF SlotParts, AbsentIsEmpty, CounterCapped, SlotsConserved, NoLeakedSlot

\* Acquire: the counter and the holders of one account grow together.
LEMMA AcquireSlots ==
  ASSUME TypeOK, SlotParts, NEW r \in Request, Acquire(r)
  PROVE  SlotParts'
<1>0. PICK a \in Account : a = target[r]  BY DEF Acquire, TypeOK, Picking, Holding
<1>1. a \in Account /\ pc[r] \notin Holding  BY <1>0 DEF Acquire, TypeOK, Picking, Holding
<1>2. Holders(a)' = Holders(a) \cup {r}  BY <1>0, <1>1 DEF Acquire, Holders, Goto, TypeOK, Holding
<1>3. r \notin Holders(a)  BY <1>0, <1>1 DEF Holders
<1>4. Cardinality(Holders(a)') = Cardinality(Holders(a)) + 1
  BY <1>2, <1>3, HoldersFinite, FS_AddElement
<1>5. \A b \in Account \ {a} : Holders(b)' = Holders(b)
  BY <1>0, <1>1 DEF Acquire, Holders, Goto, TypeOK, Holding
<1>6. /\ present' = present /\ orphaned' = orphaned
      /\ present[a] /\ ~Saturated(a)
      /\ inFlight' = [inFlight EXCEPT ![a] = @ + 1]
  BY <1>0 DEF Acquire
<1>7. \A b \in Account : inFlight[b] \in Nat /\ Cap[b] \in Nat
  BY RoutingAssumption DEF TypeOK, RoutingAssumption
<1>8. inFlight'[a] = inFlight[a] + 1 /\ \A b \in Account \ {a} : inFlight'[b] = inFlight[b]
  BY <1>6 DEF TypeOK
<1>9. AbsentIsEmpty'  BY <1>6, <1>8 DEF SlotParts, AbsentIsEmpty
<1>10. CounterCapped'  BY <1>1, <1>6, <1>7, <1>8 DEF SlotParts, CounterCapped, Saturated
<1>11. SlotsConserved'  BY <1>1, <1>4, <1>5, <1>6, <1>8 DEF SlotParts, SlotsConserved
<1>12. NoLeakedSlot'
  <2>1. Cardinality(Holders(a)) \in Nat  BY HoldersFinite
  <2> QED  BY <1>1, <1>4, <1>5, <1>7, <1>8, <2>1 DEF SlotParts, NoLeakedSlot
<1> QED  BY <1>9, <1>10, <1>11, <1>12 DEF SlotParts

\* Release: a holder leaves, and the counter follows unless it is already zero.
LEMMA ReleaseSlots ==
  ASSUME TypeOK, SlotParts, NEW r \in Request, ReleaseSlot(r)
  PROVE  SlotParts'
<1>0. PICK a \in Account : a = target[r]  BY DEF ReleaseSlot, TypeOK, Picking, Holding
<1>1. a \in Account /\ pc[r] \in Holding /\ pc'[r] \notin Holding
  BY DEF ReleaseSlot, TypeOK, Goto, Holding
<1>2. Holders(a)' = Holders(a) \ {r}  BY <1>0, <1>1 DEF ReleaseSlot, Holders, Goto, TypeOK
<1>3. r \in Holders(a)  BY <1>0, <1>1 DEF Holders
<1>4. Cardinality(Holders(a)') = Cardinality(Holders(a)) - 1
  BY <1>2, <1>3, HoldersFinite, FS_RemoveElement
<1>5. \A b \in Account \ {a} : Holders(b)' = Holders(b)
  BY <1>0, <1>1 DEF ReleaseSlot, Holders, Goto, TypeOK
<1>6. present' = present /\ orphaned' = orphaned /\ Release(a)
  BY <1>0 DEF ReleaseSlot, historyVars
<1>7. \A b \in Account : inFlight[b] \in Nat /\ Cap[b] \in Nat
  BY RoutingAssumption DEF TypeOK, RoutingAssumption
<1>8. \A b \in Account \ {a} : inFlight'[b] = inFlight[b]
  BY <1>6 DEF Release, TypeOK
<1>9. inFlight'[a] = IF inFlight[a] > 0 THEN inFlight[a] - 1 ELSE 0
  <2>1. CASE present[a] /\ inFlight[a] > 0  BY <1>1, <1>6, <2>1 DEF Release, TypeOK
  <2>2. CASE ~present[a]  BY <1>1, <1>6, <1>7, <2>2 DEF Release, SlotParts, AbsentIsEmpty
  <2>3. CASE present[a] /\ ~(inFlight[a] > 0)  BY <1>1, <1>6, <1>7, <2>3 DEF Release
  <2> QED  BY <2>1, <2>2, <2>3
<1>10. Cardinality(Holders(a)) \in Nat /\ Cardinality(Holders(a)) > 0
  BY <1>3, HoldersFinite, FS_EmptySet
<1>11. AbsentIsEmpty'  BY <1>1, <1>6, <1>8, <1>9 DEF SlotParts, AbsentIsEmpty
<1>12. CounterCapped'  BY <1>1, <1>6, <1>7, <1>8, <1>9 DEF SlotParts, CounterCapped
<1>13. SlotsConserved'
  BY <1>1, <1>4, <1>5, <1>6, <1>8, <1>9, <1>10 DEF SlotParts, SlotsConserved
<1>14. NoLeakedSlot'
  BY <1>1, <1>4, <1>5, <1>7, <1>8, <1>9, <1>10 DEF SlotParts, NoLeakedSlot
<1> QED  BY <1>11, <1>12, <1>13, <1>14 DEF SlotParts

\* Removing an item empties its counter; if requests still hold its slots the
\* account is orphaned, and the conserved count claims nothing about it.
LEMMA RemoveSlots ==
  ASSUME TypeOK, SlotParts, NEW a \in Account, Remove(a)
  PROVE  SlotParts'
<1>1. \A b \in Account : Holders(b)' = Holders(b)  BY DEF Remove, requestVars, Holders
<1>2. inFlight'[a] = 0 /\ \A b \in Account \ {a} : inFlight'[b] = inFlight[b]
  BY DEF Remove, TypeOK
<1>3. \A b \in Account \ {a} : present'[b] = present[b]  BY DEF Remove, TypeOK
<1>4. orphaned \subseteq orphaned' /\ (a \notin orphaned' => Holders(a) = {})  BY DEF Remove
<1>5. AbsentIsEmpty'  BY <1>2, <1>3 DEF SlotParts, AbsentIsEmpty
<1>6. CounterCapped'  BY <1>2, RoutingAssumption DEF SlotParts, CounterCapped, RoutingAssumption
<1>7. SlotsConserved'
  <2>1. a \notin orphaned' => Cardinality(Holders(a)) = 0  BY <1>4, FS_EmptySet
  <2> QED  BY <1>1, <1>2, <1>4, <2>1 DEF SlotParts, SlotsConserved
<1>8. NoLeakedSlot'
  <2>1. Cardinality(Holders(a)) \in Nat  BY HoldersFinite
  <2> QED  BY <1>1, <1>2, <2>1 DEF SlotParts, NoLeakedSlot
<1> QED  BY <1>5, <1>6, <1>7, <1>8 DEF SlotParts

\* Registration keeps a known item's counter, and a new item's counter is zero
\* because the missing item's was.
LEMMA RegisterSlots ==
  ASSUME TypeOK, SlotParts, NEW a \in Account, Register(a)
  PROVE  SlotParts'
<1>1. \A b \in Account : Holders(b)' = Holders(b)  BY DEF Register, requestVars, Holders
<1>2. inFlight' = inFlight
  <2>1. CASE present[a]  BY <2>1 DEF Register
  <2>2. CASE ~present[a]
    <3>1. inFlight[a] = 0  BY <2>2 DEF SlotParts, AbsentIsEmpty
    <3> QED  BY <2>2, <3>1 DEF Register, TypeOK
  <2> QED  BY <2>1, <2>2
<1>3. orphaned' = orphaned  BY DEF Register, historyVars
<1>4. \A b \in Account : present[b] => present'[b]  BY DEF Register, TypeOK
<1> QED  BY <1>1, <1>2, <1>3, <1>4
         DEF SlotParts, AbsentIsEmpty, CounterCapped, SlotsConserved, NoLeakedSlot

\* Every step keeps the slot invariant.
LEMMA NextSlots == TypeOK /\ SlotParts /\ [Next]_vars => SlotParts'
<1> SUFFICES ASSUME TypeOK, SlotParts, [Next]_vars PROVE SlotParts'  OBVIOUS
<1>1. ASSUME NEW r \in Request,
             \/ Begin(r) \/ PickPinned(r) \/ PickRotating(r) \/ PickHint(r)
             \/ PickNothing(r) \/ HintCooling(r) \/ HintExpired(r) \/ Diagnose(r)
             \/ CountAttempts(r) \/ LoopExit(r) \/ AcquireRefused(r)
      PROVE  SlotParts'
  <2>1. PICK there \in Location \ Holding : Goto(r, there)
    BY <1>1 DEF Begin, PickPinned, PickRotating, PickHint, PickNothing, HintCooling,
                HintExpired, Diagnose, CountAttempts, LoopExit, AcquireRefused, Picked,
                PickFails, Finish, Location, Picking, Holding
  <2>2. pc[r] \notin Holding
    BY <1>1 DEF Begin, PickPinned, PickRotating, PickHint, PickNothing, HintCooling,
                HintExpired, Diagnose, CountAttempts, LoopExit, AcquireRefused, CanPick, Holding
  <2>3. \A q \in Request : q # r => target'[q] = target[q]
    BY <1>1 DEF Begin, PickPinned, PickRotating, PickHint, PickNothing, HintCooling,
                HintExpired, Diagnose, CountAttempts, LoopExit, AcquireRefused, Picked, TypeOK
  <2>4. UNCHANGED <<present, inFlight, orphaned>>
    BY <1>1 DEF Begin, PickPinned, PickRotating, PickHint, PickNothing, HintCooling,
                HintExpired, Diagnose, CountAttempts, LoopExit, AcquireRefused,
                poolVars, historyVars
  <2> QED  BY <2>1, <2>2, <2>3, <2>4, HoldersKept, SlotsUntouched
<1>2. ASSUME NEW r \in Request, NEW kind \in Failure,
             \/ AttemptFails(r, kind) \/ AttemptSucceeds(r)
             \/ StreamFails(r, kind) \/ StreamEnds(r)
      PROVE  SlotParts'
  <2>1. PICK there \in Holding : Goto(r, there)
    BY <1>2 DEF AttemptFails, AttemptSucceeds, StreamFails, StreamEnds, Holding
  <2>2. pc[r] \in Holding /\ target' = target /\ UNCHANGED <<present, inFlight, orphaned>>
    BY <1>2 DEF AttemptFails, AttemptSucceeds, StreamFails, StreamEnds, Holding,
                poolVars, historyVars
  <2> QED  BY <2>1, <2>2, HoldersKept, SlotsUntouched
<1>3. ASSUME NEW a \in Account,
             \/ \E scope \in Scope : CooldownEnds(a, scope)
             \/ MergeHealth(a) \/ SetQuota(a) \/ SetModels(a)
      PROVE  SlotParts'
  <2>1. UNCHANGED <<present, inFlight, orphaned, pc, target>>
    BY <1>3 DEF CooldownEnds, MergeHealth, SetQuota, SetModels, requestVars, historyVars
  <2>2. \A b \in Account : Holders(b)' = Holders(b)  BY <2>1 DEF Holders
  <2> QED  BY <2>1, <2>2, SlotsUntouched
<1>4. CASE UNCHANGED vars
  <2>1. UNCHANGED <<present, inFlight, orphaned, pc, target>>
    BY <1>4 DEF vars, poolVars, requestVars, historyVars
  <2>2. \A b \in Account : Holders(b)' = Holders(b)  BY <2>1 DEF Holders
  <2> QED  BY <2>1, <2>2, SlotsUntouched
<1> QED
  BY <1>1, <1>2, <1>3, <1>4, AcquireSlots, ReleaseSlots, RemoveSlots, RegisterSlots
     DEF Next, Walk, Upstream, Environment, Failure

\* Initially nobody holds a slot.
LEMMA InitSlots == Init => SlotParts
<1> SUFFICES ASSUME Init PROVE SlotParts  OBVIOUS
<1>1. \A a \in Account : Holders(a) = {}  BY DEF Init, Holders, Holding
<1>2. \A a \in Account : Cardinality(Holders(a)) = 0  BY <1>1, FS_EmptySet
<1> QED  BY <1>2, RoutingAssumption
         DEF Init, SlotParts, AbsentIsEmpty, CounterCapped, SlotsConserved, NoLeakedSlot,
             RoutingAssumption

\* The slot invariant holds of every behaviour of the request path.
LEMMA SlotPartsHold == Spec => []SlotParts
<1>1. Init => SlotParts  BY InitSlots
<1>2. TypeOK /\ SlotParts /\ [Next]_vars => SlotParts'  BY NextSlots
<1> QED  BY <1>1, <1>2, TypeCorrect, PTL DEF Spec

\* Every return path of the route loop gives its slot back exactly once
\* (Routing!SlotsConserved: acquireInFlight / releaseInFlight / releaseCloser).
THEOREM SlotsAreConserved == Spec => []SlotsConserved
<1>1. SlotParts => SlotsConserved  BY DEF SlotParts
<1> QED  BY <1>1, SlotPartsHold, PTL

\* No removal and no registration ever leaves a counter above the requests that
\* really hold slots (Routing!NoLeakedSlot).
THEOREM NoSlotLeaks == Spec => []NoLeakedSlot
<1>1. SlotParts => NoLeakedSlot  BY DEF SlotParts
<1> QED  BY <1>1, SlotPartsHold, PTL

\* MaxInFlight is respected by every account never removed under a request
\* (Routing!CapRespected).
THEOREM CapIsRespected == Spec => []CapRespected
<1>1. SlotParts => CapRespected
  BY DEF SlotParts, CounterCapped, SlotsConserved, CapRespected
<1> QED  BY <1>1, SlotPartsHold, PTL

-----------------------------------------------------------------------------
(***************************************************************************)
(* The rules of one request's walk over the pool, for every pool and every *)
(* way it changes during the walk.                                         *)
(*                                                                         *)
(* A request's fields change only by its own steps (OthersKept), so the    *)
(* invariant is one about a request, WalkOK(r), in four parts.  Once: what *)
(* was sent to is excluded by the time of the next pick, and a pick is not *)
(* excluded.  Regional: the region is that of all accounts sent to.        *)
(* Budget: every pick pays for at most one account sent to or refused.     *)
(* Erred: who walks on after an attempt carries its error.                 *)
(***************************************************************************)

Sent(r) == {tried[r][i] : i \in 1..Len(tried[r])}

Refused(r) == loop[r].excluded \ Sent(r)

InHand(r) == IF pc[r] \in {"count", "acquire"} THEN 1 ELSE 0

Once(r) ==
  /\ \A i, j \in 1..Len(tried[r]) : tried[r][i] = tried[r][j] => i = j
  /\ pc[r] = "idle" => tried[r] = <<>>
  /\ pc[r] # "done" =>
       Sent(r) \subseteq loop[r].excluded \cup (IF pc[r] \in Holding THEN {target[r]} ELSE {})
  /\ pc[r] \in Holding => target[r] \in Sent(r)
  /\ pc[r] \in Picking => target[r] \notin loop[r].excluded

Regional(r) ==
  /\ \A i \in 1..Len(tried[r]) : RegionOf[tried[r][i]] = loop[r].region
  /\ pc[r] \in {"count", "acquire"} => RegionOf[target[r]] = loop[r].region
  /\ pc[r] = "hint" /\ loop[r].region # NoRegion => RegionOf[target[r]] = loop[r].region

Budget(r) ==
  /\ loop[r].index <= MaxAttempts
  /\ loop[r].attempts <= MaxAttempts
  /\ pc[r] = "hint" => loop[r].index < loop[r].attempts
  /\ Len(tried[r]) + Cardinality(Refused(r)) + InHand(r) <= loop[r].index

Erred(r) ==
  /\ pc[r] \in {"idle", "loop", "diagnose", "attempt"} \cup Picking => outcome[r] = "none"
  /\ pc[r] \in {"streaming", "closing"} => outcome[r] \in {"ok", "stream_error"}
  /\ pc[r] = "marked" => outcome[r] \in {"none", "ok", "last_error"}
                         /\ (outcome[r] = "none" => loop[r].erred)
  /\ pc[r] \in {"loop", "diagnose"} \cup Picking /\ tried[r] # <<>> => loop[r].erred
  /\ pc[r] = "done" /\ tried[r] # <<>> => outcome[r] \in {"ok", "stream_error", "last_error"}

WalkOK(r) == Once(r) /\ Regional(r) /\ Budget(r) /\ Erred(r)

Walks == \A r \in Request : WalkOK(r)

-----------------------------------------------------------------------------
(* Facts about a request's fields *)

\* The types of a request's fields, spelled out.
LEMMA FieldTypes ==
  ASSUME TypeOK, NEW r \in Request
  PROVE  /\ loop[r].excluded \in SUBSET Account
         /\ loop[r].index \in Nat /\ loop[r].attempts \in Nat
         /\ loop[r].erred \in BOOLEAN
         /\ tried[r] \in Seq(Account) /\ Len(tried[r]) \in Nat
         /\ Sent(r) \in SUBSET Account
         /\ IsFiniteSet(Refused(r)) /\ Cardinality(Refused(r)) \in Nat
<1>1. loop[r] \in RouteLoop /\ tried[r] \in Seq(Account)
  BY DEF TypeOK
<1>2. /\ loop[r].excluded \in SUBSET Account
      /\ loop[r].index \in Nat /\ loop[r].attempts \in Nat /\ loop[r].erred \in BOOLEAN
  BY <1>1 DEF RouteLoop
<1>3. Len(tried[r]) \in Nat /\ \A i \in 1..Len(tried[r]) : tried[r][i] \in Account
  BY <1>1
<1>4. Sent(r) \in SUBSET Account
  BY <1>3 DEF Sent
<1>5. Refused(r) \in SUBSET Account
  BY <1>2 DEF Refused
<1>6. IsFiniteSet(Refused(r)) /\ Cardinality(Refused(r)) \in Nat
  BY <1>5, FS_Subset, FS_CardinalityType, RoutingAssumption DEF RoutingAssumption
<1> QED
  BY <1>1, <1>2, <1>3, <1>4, <1>6

\* No budget is larger than MaxAttempts.
LEMMA AttemptsForBounded ==
  ASSUME NEW region
  PROVE  AttemptsFor(region) <= MaxAttempts
<1> DEFINE S == Matching(region, {})
<1>1. S \in SUBSET Account  BY DEF Matching
<1>2. IsFiniteSet(S)  BY <1>1, FS_Subset, RoutingAssumption DEF RoutingAssumption
<1>3. Cardinality(S) \in Nat  BY <1>2, FS_CardinalityType
<1> QED  BY <1>3, RoutingAssumption DEF AttemptsFor, RoutingAssumption

\* Who keeps what he sent and his excluded accounts keeps what was refused him.
LEMMA RefusedKept ==
  ASSUME NEW r, tried'[r] = tried[r]
  PROVE  /\ Sent(r)' = Sent(r)
         /\ loop'[r].excluded = loop[r].excluded => Refused(r)' = Refused(r)
BY DEF Sent, Refused

\* A request that does not move stays as it was.
LEMMA KeptWalk ==
  ASSUME NEW r, WalkOK(r), pc'[r] = pc[r], target'[r] = target[r], loop'[r] = loop[r],
         outcome'[r] = outcome[r], tried'[r] = tried[r]
  PROVE  WalkOK(r)'
<1>1. Sent(r)' = Sent(r) /\ Refused(r)' = Refused(r) /\ InHand(r)' = InHand(r)
  BY RefusedKept DEF InHand
<1> QED
  BY <1>1 DEF WalkOK, Once, Regional, Budget, Erred

-----------------------------------------------------------------------------
(* The steps of a request *)

\* The walk begins with nothing sent and a budget within MaxAttempts.
LEMMA BeginWalk ==
  ASSUME TypeOK, NEW r \in Request, WalkOK(r), Begin(r)
  PROVE  WalkOK(r)'
<1>1. PICK region : loop'[r].attempts = AttemptsFor(region)
  BY DEF Begin, TypeOK, RouteLoop
<1>2. /\ pc[r] = "idle" /\ pc'[r] = "loop"
      /\ loop'[r].excluded = loop[r].excluded /\ loop'[r].index = loop[r].index
      /\ loop'[r].erred = loop[r].erred
      /\ outcome'[r] = outcome[r] /\ tried'[r] = tried[r] /\ target'[r] = target[r]
  BY DEF Begin, Goto, TypeOK, RouteLoop, historyVars
<1>3. tried[r] = <<>> /\ Len(tried[r]) = 0
  BY <1>2 DEF WalkOK, Once
<1>4. Sent(r)' = Sent(r) /\ Refused(r)' = Refused(r)
  BY <1>2, RefusedKept
<1>5. Once(r)' /\ Regional(r)'
  BY <1>2, <1>3, <1>4 DEF WalkOK, Once, Regional, Picking, Holding
<1>6. Budget(r)'
  BY <1>1, <1>2, <1>4, AttemptsForBounded DEF WalkOK, Budget, InHand
<1>7. Erred(r)'
  BY <1>2, <1>3 DEF WalkOK, Erred, Picking
<1> QED
  BY <1>5, <1>6, <1>7 DEF WalkOK

\* A pick of an account that is not excluded and lies in the region, if there is
\* one: it pays for the account in hand.
LEMMA PickedWalk ==
  ASSUME TypeOK, NEW r \in Request, NEW a \in Account, WalkOK(r), Picked(r, a),
         pc[r] \in {"loop", "hint"}, loop[r].index < loop[r].attempts,
         a \notin loop[r].excluded,
         loop[r].region # NoRegion => RegionOf[a] = loop[r].region,
         outcome' = outcome, tried' = tried
  PROVE  WalkOK(r)'
<1>1. /\ pc'[r] \in {"count", "acquire"} /\ target'[r] = a
      /\ loop'[r].excluded = loop[r].excluded /\ loop'[r].index = loop[r].index + 1
      /\ loop'[r].attempts = loop[r].attempts /\ loop'[r].erred = loop[r].erred
      /\ loop'[r].region = RegionOf[a]
  BY DEF Picked, Goto, TypeOK, RouteLoop
<1>2. Sent(r)' = Sent(r) /\ Refused(r)' = Refused(r)
  BY <1>1, RefusedKept
<1>3. Once(r)'
  BY <1>1, <1>2 DEF WalkOK, Once, Picking, Holding
<1>4. Regional(r)'
  <2>1. \A i \in 1..Len(tried[r]) : loop[r].region # NoRegion
    <3>1. \A i \in 1..Len(tried[r]) : tried[r][i] \in Account
      BY FieldTypes
    <3> QED
      BY <3>1, RoutingAssumption DEF WalkOK, Regional, RoutingAssumption
  <2> QED
    BY <1>1, <2>1 DEF WalkOK, Regional
<1>5. Budget(r)'
  <2>1. InHand(r) = 0 /\ InHand(r)' = 1
    BY <1>1 DEF InHand
  <2>2. /\ loop[r].index \in Nat /\ loop[r].attempts \in Nat /\ MaxAttempts \in Nat
        /\ Len(tried[r]) \in Nat /\ Cardinality(Refused(r)) \in Nat
    BY FieldTypes, RoutingAssumption DEF RoutingAssumption
  <2>3. Len(tried[r]) + Cardinality(Refused(r)) + 0 <= loop[r].index /\ loop[r].attempts <= MaxAttempts
    BY <2>1 DEF WalkOK, Budget
  <2>4. Len(tried'[r]) + Cardinality(Refused(r)') + InHand(r)' <= loop'[r].index
    BY <1>1, <1>2, <2>1, <2>2, <2>3
  <2> QED
    BY <1>1, <2>2, <2>3, <2>4 DEF Budget
<1>6. Erred(r)'
  BY <1>1 DEF WalkOK, Erred, Picking
<1> QED
  BY <1>3, <1>4, <1>5, <1>6 DEF WalkOK

\* The three ways to a pick.
LEMMA PicksWalk ==
  ASSUME TypeOK, NEW r \in Request, WalkOK(r),
         PickPinned(r) \/ PickRotating(r) \/ HintExpired(r)
  PROVE  WalkOK(r)'
<1>1. CASE PickPinned(r)
  <2>1. /\ loop[r].prefer \in Account /\ loop[r].prefer \notin loop[r].excluded
        /\ loop[r].region # NoRegion => RegionOf[loop[r].prefer] = loop[r].region
    BY <1>1 DEF PickPinned, PinUsable, Available, Matching, Scoped
  <2>2. Picked(r, loop[r].prefer) /\ pc[r] = "loop" /\ loop[r].index < loop[r].attempts
        /\ outcome' = outcome /\ tried' = tried
    BY <1>1 DEF PickPinned, CanPick, historyVars
  <2> QED
    BY <2>1, <2>2, PickedWalk
<1>2. CASE PickRotating(r)
  <2>1. PICK a \in Available(r) : Picked(r, a)
    BY <1>2 DEF PickRotating
  <2>2. /\ a \in Account /\ a \notin loop[r].excluded
        /\ loop[r].region # NoRegion => RegionOf[a] = loop[r].region
    BY <2>1 DEF Available, Matching, Scoped
  <2>3. pc[r] = "loop" /\ loop[r].index < loop[r].attempts /\ outcome' = outcome /\ tried' = tried
    BY <1>2 DEF PickRotating, CanPick, historyVars
  <2> QED
    BY <2>1, <2>2, <2>3, PickedWalk
<1>3. CASE HintExpired(r)
  <2>1. pc[r] = "hint" /\ Picked(r, target[r]) /\ outcome' = outcome /\ tried' = tried
    BY <1>3 DEF HintExpired, historyVars
  <2>2. target[r] \in Account
    BY <2>1 DEF TypeOK, Picking
  <2>3. /\ target[r] \notin loop[r].excluded
        /\ loop[r].region # NoRegion => RegionOf[target[r]] = loop[r].region
        /\ loop[r].index < loop[r].attempts
    BY <2>1 DEF WalkOK, Once, Regional, Budget, Picking
  <2> QED
    BY <2>1, <2>2, <2>3, PickedWalk
<1> QED
  BY <1>1, <1>2, <1>3

\* A cooling hint is remembered, or the pool is asked why there is nothing.
LEMMA HintWalk ==
  ASSUME TypeOK, NEW r \in Request, WalkOK(r), PickHint(r) \/ PickNothing(r)
  PROVE  WalkOK(r)'
<1>1. /\ pc[r] = "loop" /\ loop[r].index < loop[r].attempts
      /\ loop'[r] = loop[r] /\ outcome'[r] = outcome[r] /\ tried'[r] = tried[r]
  BY DEF PickHint, PickNothing, CanPick, historyVars
<1>2. \/ pc'[r] = "diagnose"
      \/ /\ pc'[r] = "hint" /\ target'[r] \notin loop[r].excluded
         /\ loop[r].region # NoRegion => RegionOf[target'[r]] = loop[r].region
  BY DEF PickHint, PickNothing, CoolingHints, Matching, Scoped, Goto, TypeOK
<1>3. Sent(r)' = Sent(r) /\ Refused(r)' = Refused(r)
  BY <1>1, RefusedKept
<1>4. Once(r)' /\ Regional(r)'
  BY <1>1, <1>2, <1>3 DEF WalkOK, Once, Regional, Picking, Holding
<1>5. Budget(r)'
  BY <1>1, <1>2, <1>3 DEF WalkOK, Budget, InHand
<1>6. Erred(r)'
  BY <1>1, <1>2 DEF WalkOK, Erred, Picking
<1> QED
  BY <1>4, <1>5, <1>6 DEF WalkOK

\* The walk ends without an account: with the upstream's error if there was one.
LEMMA EndWalk ==
  ASSUME TypeOK, NEW r \in Request, WalkOK(r), HintCooling(r) \/ Diagnose(r) \/ LoopExit(r)
  PROVE  WalkOK(r)'
<1>1. /\ pc[r] \in {"hint", "diagnose", "loop"} /\ pc'[r] = "done"
      /\ loop[r].erred => outcome'[r] = "last_error"
      /\ loop'[r] = loop[r] /\ tried'[r] = tried[r]
  BY DEF HintCooling, Diagnose, LoopExit, PickFails, Finish, Goto, TypeOK, historyVars
<1>2. Sent(r)' = Sent(r) /\ Refused(r)' = Refused(r)
  BY <1>1, RefusedKept
<1>3. Once(r)' /\ Regional(r)'
  BY <1>1, <1>2 DEF WalkOK, Once, Regional, Picking, Holding
<1>4. Budget(r)'
  BY <1>1, <1>2 DEF WalkOK, Budget, InHand
<1>5. Erred(r)'
  BY <1>1 DEF WalkOK, Erred, Picking
<1> QED
  BY <1>3, <1>4, <1>5 DEF WalkOK

\* The recount changes the budget and nothing else.
LEMMA CountWalk ==
  ASSUME TypeOK, NEW r \in Request, WalkOK(r), CountAttempts(r)
  PROVE  WalkOK(r)'
<1>1. /\ pc[r] = "count" /\ pc'[r] = "acquire" /\ target'[r] = target[r]
      /\ loop'[r].attempts = AttemptsFor(loop[r].region)
      /\ loop'[r].excluded = loop[r].excluded /\ loop'[r].index = loop[r].index
      /\ loop'[r].erred = loop[r].erred /\ loop'[r].region = loop[r].region
      /\ outcome'[r] = outcome[r] /\ tried'[r] = tried[r]
  BY DEF CountAttempts, Goto, TypeOK, RouteLoop, historyVars
<1>2. Sent(r)' = Sent(r) /\ Refused(r)' = Refused(r)
  BY <1>1, RefusedKept
<1>3. Once(r)' /\ Regional(r)'
  BY <1>1, <1>2 DEF WalkOK, Once, Regional, Picking, Holding
<1>4. Budget(r)'
  BY <1>1, <1>2, AttemptsForBounded DEF WalkOK, Budget, InHand
<1>5. Erred(r)'
  BY <1>1 DEF WalkOK, Erred, Picking
<1> QED
  BY <1>3, <1>4, <1>5 DEF WalkOK

\* The account in hand is sent to: it was not before, and lies in the region.
LEMMA AcquireWalk ==
  ASSUME TypeOK, NEW r \in Request, WalkOK(r), Acquire(r)
  PROVE  WalkOK(r)'
<1> DEFINE a == target[r]
           n == Len(tried[r])
<1>1. /\ pc[r] = "acquire" /\ pc'[r] = "attempt" /\ target'[r] = a
      /\ loop'[r] = loop[r] /\ outcome'[r] = outcome[r]
      /\ tried'[r] = Append(tried[r], a)
  BY DEF Acquire, Goto, TypeOK
<1>2. a \in Account /\ tried[r] \in Seq(Account) /\ n \in Nat
  BY <1>1, FieldTypes DEF TypeOK, Picking
<1>3. /\ Len(tried'[r]) = n + 1
      /\ \A i \in 1..n : tried'[r][i] = tried[r][i]
      /\ tried'[r][n + 1] = a
  BY <1>1, <1>2
<1>4. Sent(r)' = Sent(r) \cup {a}
  <2>1. 1..(n + 1) = (1..n) \cup {n + 1}
    BY <1>2
  <2> QED
    BY <1>3, <2>1 DEF Sent
<1>5. a \notin loop[r].excluded /\ Sent(r) \subseteq loop[r].excluded
  BY <1>1 DEF WalkOK, Once, Picking, Holding
<1>6. Once(r)'
  <2>1. \A i \in 1..n : tried[r][i] # a
    BY <1>5 DEF Sent
  <2>2. \A i, j \in 1..(n + 1) : tried'[r][i] = tried'[r][j] => i = j
    BY <1>2, <1>3, <2>1 DEF WalkOK, Once
  <2>3. pc'[r] \in Holding /\ pc'[r] \notin Picking /\ pc'[r] # "idle"
    BY <1>1 DEF Holding, Picking
  <2> QED
    BY <1>1, <1>3, <1>4, <1>5, <2>2, <2>3 DEF Once
<1>7. Regional(r)'
  <2>1. RegionOf[a] = loop[r].region
    BY <1>1 DEF WalkOK, Regional
  <2>2. \A i \in 1..(n + 1) : RegionOf[tried'[r][i]] = loop[r].region
    BY <1>2, <1>3, <2>1 DEF WalkOK, Regional
  <2> QED
    BY <1>1, <1>3, <2>2 DEF Regional
<1>8. Budget(r)'
  <2>1. Refused(r)' \in SUBSET Refused(r)
    BY <1>1, <1>4 DEF Refused
  <2>2. Cardinality(Refused(r)') <= Cardinality(Refused(r)) /\ Cardinality(Refused(r)') \in Nat
    BY <2>1, FieldTypes, FS_Subset, FS_CardinalityType
  <2>3. InHand(r) = 1 /\ InHand(r)' = 0
    BY <1>1 DEF InHand
  <2>4. loop[r].index \in Nat /\ Cardinality(Refused(r)) \in Nat
    BY FieldTypes
  <2>5. n + Cardinality(Refused(r)) + 1 <= loop[r].index
    BY <2>3 DEF WalkOK, Budget
  <2>6. Len(tried'[r]) + Cardinality(Refused(r)') + InHand(r)' <= loop'[r].index
    BY <1>1, <1>2, <1>3, <2>2, <2>3, <2>4, <2>5
  <2> QED
    BY <1>1, <2>6 DEF WalkOK, Budget
<1>9. Erred(r)'
  BY <1>1 DEF WalkOK, Erred, Picking
<1> QED
  BY <1>6, <1>7, <1>8, <1>9 DEF WalkOK

\* The account in hand is refused: it is excluded, and was paid for.
LEMMA RefusedWalk ==
  ASSUME TypeOK, NEW r \in Request, WalkOK(r), AcquireRefused(r)
  PROVE  WalkOK(r)'
<1> DEFINE a == target[r]
<1>1. /\ pc[r] = "acquire" /\ pc'[r] = "loop" /\ target'[r] = a
      /\ loop'[r].excluded = loop[r].excluded \cup {a} /\ loop'[r].index = loop[r].index
      /\ loop'[r].attempts = loop[r].attempts
      /\ loop'[r].erred = loop[r].erred /\ loop'[r].region = loop[r].region
      /\ outcome'[r] = outcome[r] /\ tried'[r] = tried[r]
  BY DEF AcquireRefused, Exclude, Goto, TypeOK, RouteLoop
<1>2. Sent(r)' = Sent(r)
  BY <1>1, RefusedKept
<1>3. Once(r)' /\ Regional(r)'
  BY <1>1, <1>2 DEF WalkOK, Once, Regional, Picking, Holding
<1>4. Budget(r)'
  <2>1. Refused(r)' \in SUBSET (Refused(r) \cup {a})
    BY <1>1, <1>2 DEF Refused
  <2>2. /\ IsFiniteSet(Refused(r) \cup {a})
        /\ Cardinality(Refused(r) \cup {a}) <= Cardinality(Refused(r)) + 1
        /\ Cardinality(Refused(r) \cup {a}) \in Nat
    <3>1. IsFiniteSet(Refused(r)) /\ Cardinality(Refused(r)) \in Nat
      BY FieldTypes
    <3> HIDE DEF a
    <3>2. /\ IsFiniteSet(Refused(r) \cup {a})
          /\ Cardinality(Refused(r) \cup {a}) =
               IF a \in Refused(r) THEN Cardinality(Refused(r)) ELSE Cardinality(Refused(r)) + 1
      BY <3>1, FS_AddElement
    <3> QED
      BY <3>1, <3>2
  <2>3. /\ Cardinality(Refused(r)') <= Cardinality(Refused(r) \cup {a})
        /\ Cardinality(Refused(r)') \in Nat
    BY <2>1, <2>2, FS_Subset, FS_CardinalityType
  <2>4. InHand(r) = 1 /\ InHand(r)' = 0
    BY <1>1 DEF InHand
  <2>5. loop[r].index \in Nat /\ Cardinality(Refused(r)) \in Nat /\ Len(tried[r]) \in Nat
    BY FieldTypes
  <2>6. Len(tried[r]) + Cardinality(Refused(r)) + 1 <= loop[r].index
    BY <2>4 DEF WalkOK, Budget
  <2>7. Len(tried'[r]) + Cardinality(Refused(r)') + InHand(r)' <= loop'[r].index
    BY <1>1, <2>2, <2>3, <2>4, <2>5, <2>6
  <2> QED
    BY <1>1, <2>7 DEF WalkOK, Budget
<1>5. Erred(r)'
  BY <1>1 DEF WalkOK, Erred, Picking
<1> QED
  BY <1>3, <1>4, <1>5 DEF WalkOK

\* The upstream answers: what was sent to, and the account held, stay.
LEMMA UpstreamWalk ==
  ASSUME TypeOK, NEW r \in Request, WalkOK(r), Upstream(r)
  PROVE  WalkOK(r)'
<1>1. /\ pc[r] \in Holding /\ pc'[r] \in Holding /\ target'[r] = target[r]
      /\ loop'[r].excluded = loop[r].excluded /\ loop'[r].index = loop[r].index
      /\ loop'[r].attempts = loop[r].attempts /\ loop'[r].region = loop[r].region
      /\ tried'[r] = tried[r]
  BY DEF Upstream, AttemptSucceeds, AttemptFails, StreamFails, StreamEnds, Goto, TypeOK,
         RouteLoop, Holding, historyVars
<1>2. \/ pc'[r] = "marked" /\ outcome'[r] \in {outcome[r], "last_error"} /\ loop'[r].erred
         /\ pc[r] = "attempt"
      \/ pc'[r] \in {"marked", "streaming"} /\ outcome'[r] = "ok"
      \/ pc'[r] = "closing" /\ outcome'[r] = "stream_error"
      \/ pc[r] = "streaming" /\ pc'[r] = "closing" /\ outcome'[r] = outcome[r]
  BY DEF Upstream, AttemptSucceeds, AttemptFails, StreamFails, StreamEnds, Goto, TypeOK, RouteLoop
<1>3. Sent(r)' = Sent(r) /\ Refused(r)' = Refused(r)
  BY <1>1, RefusedKept
<1>4. Once(r)' /\ Regional(r)'
  BY <1>1, <1>3 DEF WalkOK, Once, Regional, Picking, Holding
<1>5. Budget(r)'
  BY <1>1, <1>3 DEF WalkOK, Budget, InHand, Holding
<1>6. Erred(r)'
  BY <1>1, <1>2 DEF WalkOK, Erred, Picking, Holding
<1> QED
  BY <1>4, <1>5, <1>6 DEF WalkOK

\* The slot is given back: an undecided request excludes the account, which it
\* has sent to, and walks on.
LEMMA ReleaseWalk ==
  ASSUME TypeOK, NEW r \in Request, WalkOK(r), ReleaseSlot(r)
  PROVE  WalkOK(r)'
<1>1. /\ pc[r] \in {"marked", "closing"} /\ target'[r] = target[r]
      /\ loop'[r].index = loop[r].index /\ loop'[r].attempts = loop[r].attempts
      /\ loop'[r].region = loop[r].region /\ loop'[r].erred = loop[r].erred
      /\ outcome'[r] = outcome[r] /\ tried'[r] = tried[r]
      /\ \/ outcome[r] = "none" /\ pc'[r] = "loop"
            /\ loop'[r].excluded = loop[r].excluded \cup {target[r]}
         \/ outcome[r] # "none" /\ pc'[r] = "done" /\ loop'[r].excluded = loop[r].excluded
  BY DEF ReleaseSlot, Exclude, Goto, TypeOK, RouteLoop, historyVars
<1>2. Sent(r)' = Sent(r)
  BY <1>1, RefusedKept
<1>3. Once(r)' /\ Regional(r)'
  BY <1>1, <1>2 DEF WalkOK, Once, Regional, Picking, Holding
<1>4. Budget(r)'
  <2> DEFINE a == target[r]
  <2>1. InHand(r) = 0 /\ InHand(r)' = 0
    BY <1>1 DEF InHand
  <2>2. /\ loop[r].index \in Nat /\ Cardinality(Refused(r)) \in Nat /\ Len(tried[r]) \in Nat
    BY FieldTypes
  <2>4. CASE a \in Sent(r)
    <3>1. Refused(r)' = Refused(r)
      BY <1>1, <1>2, <2>4 DEF Refused
    <3> QED
      BY <1>1, <2>1, <3>1 DEF WalkOK, Budget
  <2>5. a \in Sent(r)
    BY <1>1 DEF WalkOK, Once, Holding
  <2> QED
    BY <2>4, <2>5
<1>5. Erred(r)'
  BY <1>1 DEF WalkOK, Erred, Picking
<1> QED
  BY <1>3, <1>4, <1>5 DEF WalkOK

-----------------------------------------------------------------------------
(* Every request, every step *)

MineKept(q) ==
  /\ pc'[q] = pc[q] /\ target'[q] = target[q] /\ loop'[q] = loop[q]
  /\ outcome'[q] = outcome[q] /\ tried'[q] = tried[q]

\* The steps of one request leave the fields of every other as they are.
LEMMA OthersKept ==
  ASSUME TypeOK, NEW r \in Request, NEW q \in Request, q # r,
         Begin(r) \/ Walk(r) \/ Upstream(r)
  PROVE  MineKept(q)
<1>1. CASE Begin(r)
  BY <1>1 DEF Begin, Goto, TypeOK, MineKept, historyVars
<1>2. CASE PickPinned(r) \/ PickRotating(r) \/ HintExpired(r)
  <2>1. PICK a : Picked(r, a)
    BY <1>2 DEF PickPinned, PickRotating, HintExpired
  <2>2. outcome' = outcome /\ tried' = tried
    BY <1>2 DEF PickPinned, PickRotating, HintExpired, historyVars
  <2> QED
    BY <2>1, <2>2 DEF Picked, Goto, TypeOK, MineKept
<1>3. CASE PickHint(r) \/ PickNothing(r)
  BY <1>3 DEF PickHint, PickNothing, Goto, TypeOK, MineKept, historyVars
<1>4. CASE HintCooling(r) \/ LoopExit(r) \/ Diagnose(r)
  <2>1. PICK what : PickFails(r, what)
    BY <1>4 DEF HintCooling, LoopExit, Diagnose
  <2>2. target' = target /\ loop' = loop /\ tried' = tried
    BY <1>4 DEF HintCooling, LoopExit, Diagnose, historyVars
  <2> QED
    BY <2>1, <2>2 DEF PickFails, Finish, Goto, TypeOK, MineKept
<1>5. CASE CountAttempts(r)
  BY <1>5 DEF CountAttempts, Goto, TypeOK, MineKept, historyVars
<1>6. CASE Acquire(r)
  BY <1>6 DEF Acquire, Goto, TypeOK, MineKept
<1>7. CASE AcquireRefused(r)
  BY <1>7 DEF AcquireRefused, Exclude, Goto, TypeOK, MineKept
<1>8. CASE ReleaseSlot(r)
  BY <1>8 DEF ReleaseSlot, Exclude, Goto, TypeOK, MineKept, historyVars
<1>9. CASE Upstream(r)
  BY <1>9 DEF Upstream, AttemptSucceeds, AttemptFails, StreamFails, StreamEnds, Goto,
              TypeOK, MineKept, historyVars
<1> QED
  BY <1>1, <1>2, <1>3, <1>4, <1>5, <1>6, <1>7, <1>8, <1>9 DEF Walk

\* The request that moves keeps its own walk right.
LEMMA MoverWalk ==
  ASSUME TypeOK, NEW r \in Request, WalkOK(r), Begin(r) \/ Walk(r) \/ Upstream(r)
  PROVE  WalkOK(r)'
BY BeginWalk, PicksWalk, HintWalk, EndWalk, CountWalk, AcquireWalk, RefusedWalk,
   ReleaseWalk, UpstreamWalk DEF Walk

\* Whatever changes the pool, no request's fields do.
LEMMA EnvironmentKeeps ==
  ASSUME NEW a \in Account, Environment(a), NEW q \in Request
  PROVE  MineKept(q)
BY DEF Environment, CooldownEnds, MergeHealth, SetQuota, SetModels, Remove, Register,
       requestVars, historyVars, MineKept

\* No request has sent anything when the gateway starts.
LEMMA InitWalks == Init => Walks
<1> SUFFICES ASSUME Init, NEW r \in Request PROVE WalkOK(r)
  BY DEF Walks
<1>1. /\ pc[r] = "idle" /\ tried[r] = <<>> /\ outcome[r] = "none"
      /\ loop[r].excluded = {} /\ loop[r].index = 0 /\ loop[r].attempts = 0
  BY DEF Init
<1>2. Len(tried[r]) = 0 /\ Sent(r) = {} /\ Refused(r) = {}
  BY <1>1 DEF Sent, Refused
<1>3. Cardinality(Refused(r)) = 0
  BY <1>2, FS_EmptySet
<1>4. Once(r) /\ Regional(r)
  BY <1>1, <1>2 DEF Once, Regional, Picking, Holding
<1>5. Budget(r)
  BY <1>1, <1>2, <1>3, RoutingAssumption DEF Budget, InHand, RoutingAssumption
<1>6. Erred(r)
  BY <1>1 DEF Erred, Picking
<1> QED
  BY <1>4, <1>5, <1>6 DEF WalkOK

\* Every step keeps every request's walk right.
LEMMA NextWalks == TypeOK /\ Walks /\ [Next]_vars => Walks'
<1> SUFFICES ASSUME TypeOK, Walks, [Next]_vars, NEW q \in Request PROVE WalkOK(q)'
  BY DEF Walks
<1>1. WalkOK(q)
  BY DEF Walks
<1>2. CASE MineKept(q)
  BY <1>1, <1>2, KeptWalk DEF MineKept
<1>3. ASSUME NEW r \in Request, Begin(r) \/ Walk(r) \/ Upstream(r) PROVE WalkOK(q)'
  <2>1. CASE q = r
    BY <1>1, <1>3, <2>1, MoverWalk
  <2>2. CASE q # r
    BY <1>2, <1>3, <2>2, OthersKept
  <2> QED
    BY <2>1, <2>2
<1>4. ASSUME NEW a \in Account, Environment(a) PROVE WalkOK(q)'
  BY <1>2, <1>4, EnvironmentKeeps
<1>5. CASE UNCHANGED vars
  BY <1>2, <1>5 DEF vars, requestVars, historyVars, MineKept
<1> QED
  BY <1>3, <1>4, <1>5 DEF Next

\* The walk of every request is right in every state.
THEOREM AlwaysWalks == Spec => []Walks
<1>1. Init => Walks
  BY InitWalks
<1>2. TypeOK /\ Walks /\ [Next]_vars => Walks'
  BY NextWalks
<1> QED
  BY <1>1, <1>2, TypeCorrect, PTL DEF Spec

-----------------------------------------------------------------------------
(* The rules *)

\* No request sends to one account twice, nor sends and is refused more often
\* than MaxAttempts, however the pool changes under it (Routing!FailoverIsBounded).
THEOREM WalksAreBounded == Spec => []FailoverIsBounded
<1>1. TypeOK /\ Walks => FailoverIsBounded
  <2> SUFFICES ASSUME TypeOK, Walks PROVE TriedOnce /\ WithinBudget
    BY DEF FailoverIsBounded
  <2>1. TriedOnce
    BY DEF Walks, WalkOK, Once, TriedOnce
  <2>2. ASSUME NEW r \in Request
        PROVE  Len(tried[r]) + Cardinality(Refused(r)) <= MaxAttempts
    <3>1. /\ Len(tried[r]) \in Nat /\ Cardinality(Refused(r)) \in Nat /\ loop[r].index \in Nat
          /\ MaxAttempts \in Nat
      BY FieldTypes, RoutingAssumption DEF RoutingAssumption
    <3>2. /\ Len(tried[r]) + Cardinality(Refused(r)) + InHand(r) <= loop[r].index
          /\ loop[r].index <= MaxAttempts
      BY DEF Walks, WalkOK, Budget
    <3>3. InHand(r) \in {0, 1}
      BY DEF InHand
    <3> QED
      BY <3>1, <3>2, <3>3
  <2>3. WithinBudget
    BY <2>2 DEF WithinBudget, Refused, Sent
  <2> QED
    BY <2>1, <2>3
<1> QED
  BY <1>1, TypeCorrect, AlwaysWalks, PTL

\* No walk ever leaves the region of its first account (Routing!OneRegion).
THEOREM OneRegionOnly == Spec => []OneRegion
<1>1. Walks => OneRegion
  BY DEF Walks, WalkOK, Regional, OneRegion
<1> QED
  BY <1>1, AlwaysWalks, PTL

\* Who reached an upstream is told what the upstream said (Routing!UpstreamErrorKept:
\* pickFailure).
THEOREM ErrorsAreKept == Spec => []UpstreamErrorKept
<1>1. Walks => UpstreamErrorKept
  BY DEF Walks, WalkOK, Erred, UpstreamErrorKept
<1> QED
  BY <1>1, AlwaysWalks, PTL

=============================================================================
