--------------------------- MODULE CooldownProofs ---------------------------
(***************************************************************************)
(* The ladders and deadlines of an account, for every set of models and    *)
(* kinds, every ladder, and any number of failures and restarts.           *)
(*                                                                         *)
(* The argument: Ladders relates the item to what was seen of it, and      *)
(* StoredLadders says the same of the rows and of what was seen when they  *)
(* were written; a save and a restart carry the one into the other.  The   *)
(* kind a scope remembers is what tells a repeat from a first failure, so  *)
(* it belongs to the invariant.  Mirrored compares the rows of a clean     *)
(* item with the item while time passes over both.                         *)
(***************************************************************************)
EXTENDS Cooldowns, TLAPS

Deadline == Int \cup {None}

Typed ==
  /\ item \in [down : Deadline, kind : Kind \cup {None}, level : Nat,
               mDown : [Model -> Deadline], mKind : [Model -> {None, "rate_limit"}],
               mLevel : [Model -> Nat]]
  /\ rows \in [down : Deadline, level : Nat, mDown : [Model -> Deadline], mLevel : [Model -> Nat]]
  /\ seen \in [limits : [Model -> Nat], run : Nat, runKind : Kind \cup {None},
               owner : Kind \cup {None}]
  /\ stored \in [limits : [Model -> Nat], run : Nat, runKind : Kind \cup {None},
                 owner : Kind \cup {None}]

Earned(n) == IF n = 0 THEN 0 ELSE Smaller(n - 1, MaxLevel)

\* What a model's item fields say of the rate limits seen of it.
ModelLadder(m) ==
  /\ item.mLevel[m] = Earned(seen.limits[m])
  /\ item.mKind[m] = None <=> seen.limits[m] = 0
  /\ item.mDown[m] # None => seen.limits[m] > 0

\* What the account's item fields say of its own failures.
AccountLadder ==
  /\ item.level <= IF seen.run = 0 THEN 0 ELSE seen.run - 1
  /\ item.kind # None => seen.runKind = item.kind /\ seen.run > 0
  /\ item.down # None => seen.owner # None

Ladders == AccountLadder /\ \A m \in Model : ModelLadder(m)

\* The same of the rows, in which a scope without a deadline has no ladder.
StoredLadders ==
  /\ rows.level <= IF stored.run = 0 THEN 0 ELSE stored.run - 1
  /\ rows.down # None => stored.owner # None
  /\ rows.down = None => rows.level = 0
  /\ \A m \in Model :
       /\ rows.mDown[m] # None => /\ stored.limits[m] > 0
                                  /\ rows.mLevel[m] = Earned(stored.limits[m])
       /\ rows.mDown[m] = None => rows.mLevel[m] = 0

\* No row has a deadline in the past, and a clean item cools exactly as its rows.
Mirrors(row, deadline) == row = IF Cooling(deadline) THEN deadline ELSE None

Kept(row) == row = None \/ Cooling(row)

Mirrored ==
  /\ Kept(rows.down) /\ \A m \in Model : Kept(rows.mDown[m])
  /\ clean => /\ Mirrors(rows.down, item.down)
              /\ \A m \in Model : Mirrors(rows.mDown[m], item.mDown[m])

Sound == Typed /\ Ladders /\ StoredLadders /\ Mirrored

-----------------------------------------------------------------------------
(* Ladders and deadlines *)

\* Every failure that cools sets a deadline.
LEMMA CooldownType ==
  ASSUME NEW k \in Kind, NEW level \in Nat
  PROVE  Cooldown(k, level) \in Int
<1>1. Base[k] \in Nat /\ Floor \in Nat /\ Ceiling \in Nat /\ MaxLevel \in Nat
  BY CooldownsAssumption DEF CooldownsAssumption
<1>2. ASSUME NEW n \in Nat PROVE NextBackoff(Base[k], n) \in Int
  <2>1. Base[k] * 2^n \in Int
    BY <1>1, <1>2
  <2> QED
    BY <1>1, <2>1 DEF NextBackoff, Smaller
<1>3. CASE level > 1
  <2>1. level - 1 \in Nat
    BY <1>3
  <2> QED
    BY <1>2, <1>3, <2>1 DEF Cooldown
<1>4. CASE ~(level > 1)
  BY <1>1, <1>4 DEF Cooldown
<1> QED
  BY <1>3, <1>4

\* A repeat climbs one step at most, anything else starts over.
LEMMA ClimbBounds ==
  ASSUME NEW level \in Nat, NEW repeat \in BOOLEAN
  PROVE  /\ Climb(level, repeat) \in Nat
         /\ repeat => Climb(level, repeat) <= level + 1
         /\ ~repeat => Climb(level, repeat) = 0
BY CooldownsAssumption DEF Climb, Smaller, CooldownsAssumption

\* The ladder that n failures earned is, one failure later, what n + 1 earn.
LEMMA ClimbEarns ==
  ASSUME NEW n \in Nat, NEW repeat \in BOOLEAN, repeat <=> n > 0
  PROVE  /\ Climb(Earned(n), repeat) = Earned(n + 1)
         /\ Earned(n) \in Nat /\ Earned(n + 1) \in Nat
BY CooldownsAssumption DEF Climb, Earned, Smaller, CooldownsAssumption

\* A row goes out when the deadline it mirrors is reached.
LEMMA TimePasses ==
  ASSUME NEW row, NEW deadline \in Deadline, Mirrors(row, deadline)
  PROVE  Mirrors(Elapse(row), Later(deadline))
BY CooldownsAssumption DEF Mirrors, Elapse, Later, Cooling, Deadline, CooldownsAssumption

\* No row outlives its deadline, and none begins a new one.
LEMMA RowsElapse ==
  ASSUME NEW row \in Deadline
  PROVE  /\ Kept(Elapse(row)) /\ Elapse(row) \in Deadline
         /\ Elapse(row) # None => row # None
BY CooldownsAssumption DEF Kept, Elapse, Cooling, Deadline, CooldownsAssumption

\* Who cools in the item cools in its mirror.
LEMMA MirrorsCool ==
  ASSUME NEW row, NEW deadline, Mirrors(row, deadline)
  PROVE  Cooling(row) <=> Cooling(deadline)
BY DEF Mirrors, Cooling

-----------------------------------------------------------------------------
(* The steps *)

\* A rate limit of a model climbs that model's ladder and no other.
LEMMA LimitedIsSound ==
  ASSUME Sound, NEW m \in Model, Limited(m), clean' = FALSE, UNCHANGED <<rows, stored>>
  PROVE  Sound'
<1> USE CooldownsAssumption DEF CooldownsAssumption
<1> DEFINE n == seen.limits[m]
           climbed == Climb(item.mLevel[m], item.mKind[m] = "rate_limit")
<1>1. /\ n \in Nat /\ item.mLevel[m] = Earned(n)
      /\ item.mKind[m] = "rate_limit" <=> n > 0
  BY DEF Sound, Typed, Ladders, ModelLadder
<1>2. climbed = Earned(n + 1) /\ climbed \in Nat
  <2> DEFINE repeat == item.mKind[m] = "rate_limit"
  <2>1. repeat \in BOOLEAN /\ (repeat <=> n > 0) /\ n \in Nat
    BY <1>1
  <2>2. climbed = Climb(Earned(n), repeat)
    BY <1>1
  <2> HIDE DEF n, repeat, climbed
  <2> QED
    BY <2>1, <2>2, ClimbEarns
<1>3. Cooldown("rate_limit", climbed) \in Int
  BY <1>2, CooldownType
<1> HIDE DEF climbed
<1>4. /\ item' = [item EXCEPT !.mKind[m] = "rate_limit", !.mLevel[m] = climbed,
                              !.mDown[m] = Cooldown("rate_limit", climbed)]
      /\ seen' = [seen EXCEPT !.limits[m] = n + 1]
  BY DEF Limited, AfterLimit, climbed
<1> HIDE DEF n
<1>5. Typed'
  <2>1. /\ item' = [down |-> item.down, kind |-> item.kind, level |-> item.level,
                    mDown |-> [item.mDown EXCEPT ![m] = Cooldown("rate_limit", climbed)],
                    mKind |-> [item.mKind EXCEPT ![m] = "rate_limit"],
                    mLevel |-> [item.mLevel EXCEPT ![m] = climbed]]
        /\ seen' = [limits |-> [seen.limits EXCEPT ![m] = n + 1], run |-> seen.run,
                    runKind |-> seen.runKind, owner |-> seen.owner]
    BY <1>4 DEF Sound, Typed
  <2>2. /\ [item.mDown EXCEPT ![m] = Cooldown("rate_limit", climbed)] \in [Model -> Deadline]
        /\ [item.mKind EXCEPT ![m] = "rate_limit"] \in [Model -> {None, "rate_limit"}]
        /\ [item.mLevel EXCEPT ![m] = climbed] \in [Model -> Nat]
        /\ [seen.limits EXCEPT ![m] = n + 1] \in [Model -> Nat]
    BY <1>1, <1>2, <1>3 DEF Sound, Typed, Deadline
  <2> QED
    BY <2>1, <2>2 DEF Sound, Typed
<1>6. \A j \in Model : ModelLadder(j)'
  <2>1. ModelLadder(m)'
    BY <1>1, <1>2, <1>4 DEF Sound, Typed, ModelLadder
  <2>2. ASSUME NEW j \in Model, j # m PROVE ModelLadder(j)'
    BY <1>4, <2>2 DEF Sound, Typed, Ladders, ModelLadder
  <2> QED
    BY <2>1, <2>2
<1>7. AccountLadder'
  BY <1>4 DEF Sound, Typed, Ladders, AccountLadder
<1>8. StoredLadders' /\ Mirrored'
  BY DEF Sound, StoredLadders, Mirrored
<1> QED
  BY <1>5, <1>6, <1>7, <1>8 DEF Sound, Ladders

\* Any other failure climbs the account's ladder if it repeats the last kind.
LEMMA FailedIsSound ==
  ASSUME Sound, NEW k \in Kind, Failed(k), clean' = FALSE, UNCHANGED <<rows, stored>>
  PROVE  Sound'
<1> USE CooldownsAssumption DEF CooldownsAssumption
<1> DEFINE climbed == Climb(item.level, item.kind = k)
           run == IF seen.runKind = k THEN seen.run + 1 ELSE 1
<1>1. item.level \in Nat /\ seen.run \in Nat
  BY DEF Sound, Typed
<1>2. climbed \in Nat /\ climbed <= run - 1 /\ run \in Nat \ {0}
  <2>1. item.level <= IF seen.run = 0 THEN 0 ELSE seen.run - 1
    BY DEF Sound, Ladders, AccountLadder
  <2>2. CASE item.kind = k
    <3>1. climbed \in Nat /\ climbed <= item.level + 1
      BY <1>1, <2>2, ClimbBounds
    <3>2. seen.runKind = k /\ seen.run > 0
      BY <2>2 DEF Sound, Ladders, AccountLadder
    <3> QED
      BY <1>1, <2>1, <3>1, <3>2
  <2>3. CASE item.kind # k
    <3>1. climbed = 0
      BY <1>1, <2>3, ClimbBounds
    <3> QED
      BY <1>1, <3>1
  <2> QED
    BY <2>2, <2>3
<1>3. Cooldown(k, climbed) \in Int
  BY <1>2, CooldownType
<1> HIDE DEF climbed, run
<1>4. /\ item' = [item EXCEPT !.kind = k, !.level = climbed, !.down = Cooldown(k, climbed)]
      /\ seen' = [seen EXCEPT !.run = run, !.runKind = k, !.owner = k]
  BY DEF Failed, AfterFailure, climbed, run
<1>5. Typed'
  BY <1>2, <1>3, <1>4 DEF Sound, Typed, Deadline
<1>6. AccountLadder'
  BY <1>2, <1>4 DEF Sound, Typed, AccountLadder
<1>7. \A m \in Model : ModelLadder(m)'
  BY <1>4 DEF Sound, Typed, Ladders, ModelLadder
<1>8. StoredLadders' /\ Mirrored'
  BY DEF Sound, StoredLadders, Mirrored
<1> QED
  BY <1>5, <1>6, <1>7, <1>8 DEF Sound, Ladders

\* A success clears its model, and the account's own ladder only with the last
\* deadline.
LEMMA ModelOKIsSound ==
  ASSUME Sound, NEW m \in Model, item' = ModelOK(m), seen' = [seen EXCEPT !.limits[m] = 0],
         clean' = FALSE, UNCHANGED <<rows, stored>>
  PROVE  Sound'
<1> DEFINE reopened == [item EXCEPT !.mDown[m] = None, !.mKind[m] = None, !.mLevel[m] = 0]
<1>1. /\ item' \in {reopened, [reopened EXCEPT !.kind = None, !.level = 0]}
  BY DEF ModelOK
<1>2. /\ item'.mDown = [item.mDown EXCEPT ![m] = None]
      /\ item'.mKind = [item.mKind EXCEPT ![m] = None]
      /\ item'.mLevel = [item.mLevel EXCEPT ![m] = 0]
      /\ item'.down = item.down
      /\ \/ item'.kind = item.kind /\ item'.level = item.level
         \/ item'.kind = None /\ item'.level = 0
  BY <1>1 DEF Sound, Typed
<1>3. Typed'
  <2>1. /\ item' = [down |-> item.down, kind |-> item'.kind, level |-> item'.level,
                    mDown |-> [item.mDown EXCEPT ![m] = None],
                    mKind |-> [item.mKind EXCEPT ![m] = None],
                    mLevel |-> [item.mLevel EXCEPT ![m] = 0]]
        /\ seen' = [limits |-> [seen.limits EXCEPT ![m] = 0], run |-> seen.run,
                    runKind |-> seen.runKind, owner |-> seen.owner]
    BY <1>1 DEF Sound, Typed
  <2>2. /\ [item.mDown EXCEPT ![m] = None] \in [Model -> Deadline]
        /\ [item.mKind EXCEPT ![m] = None] \in [Model -> {None, "rate_limit"}]
        /\ [item.mLevel EXCEPT ![m] = 0] \in [Model -> Nat]
        /\ [seen.limits EXCEPT ![m] = 0] \in [Model -> Nat]
    BY DEF Sound, Typed, Deadline
  <2>3. item'.kind \in Kind \cup {None} /\ item'.level \in Nat
    BY <1>2 DEF Sound, Typed
  <2> QED
    BY <2>1, <2>2, <2>3 DEF Sound, Typed
<1>4. AccountLadder'
  BY <1>2 DEF Sound, Typed, Ladders, AccountLadder
<1>5. \A j \in Model : ModelLadder(j)'
  <2>1. ModelLadder(m)'
    BY <1>2 DEF Sound, Typed, ModelLadder, Earned
  <2>2. ASSUME NEW j \in Model, j # m PROVE ModelLadder(j)'
    BY <1>2, <2>2 DEF Sound, Typed, Ladders, ModelLadder
  <2> QED
    BY <2>1, <2>2
<1>6. StoredLadders' /\ Mirrored'
  BY DEF Sound, StoredLadders, Mirrored
<1> QED
  BY <1>3, <1>4, <1>5, <1>6 DEF Sound, Ladders

\* A success of the whole account, or a registration, forgets everything.
LEMMA FreshIsSound ==
  ASSUME Sound, item' = Fresh, seen' = Unseen, clean' = FALSE, UNCHANGED <<rows, stored>>
  PROVE  Sound'
<1>1. Typed'
  BY DEF Sound, Typed, Fresh, Unseen, Deadline
<1>2. Ladders'
  BY DEF Ladders, AccountLadder, ModelLadder, Earned, Fresh, Unseen
<1>3. StoredLadders' /\ Mirrored'
  BY DEF Sound, StoredLadders, Mirrored
<1> QED
  BY <1>1, <1>2, <1>3 DEF Sound

\* A probe and a quota reading never raise a ladder.
LEMMA ReadingsAreSound ==
  ASSUME Sound, ProbedHealthy \/ QuotaRecovered
  PROVE  Sound'
<1>1. CASE ProbedHealthy
  BY <1>1 DEF ProbedHealthy, Sound, Typed, Ladders, AccountLadder, ModelLadder, StoredLadders,
              Mirrored
<1>2. CASE QuotaRecovered
  <2>1. /\ item' = [item EXCEPT !.down = None, !.kind = None, !.level = 0]
        /\ seen' = [seen EXCEPT !.run = 0, !.runKind = None, !.owner = None]
        /\ clean' = FALSE /\ rows' = rows /\ stored' = stored
    BY <1>2 DEF QuotaRecovered
  <2>2. Typed'
    BY <2>1 DEF Sound, Typed, Deadline
  <2>3. Ladders'
    BY <2>1 DEF Sound, Typed, Ladders, AccountLadder, ModelLadder
  <2>4. StoredLadders' /\ Mirrored'
    BY <2>1 DEF Sound, StoredLadders, Mirrored
  <2> QED
    BY <2>2, <2>3, <2>4 DEF Sound
<1> QED
  BY <1>1, <1>2

\* The rows take the ladders of the scopes that cool.
LEMMA SaveIsSound == ASSUME Sound, Save PROVE Sound'
<1>1. rows' = RowsOf(item) /\ stored' = seen /\ item' = item /\ seen' = seen
  BY DEF Save
<1>2. Typed'
  BY <1>1 DEF Sound, Typed, RowsOf, Deadline
<1>3. StoredLadders'
  <2>1. /\ rows'.level <= IF seen.run = 0 THEN 0 ELSE seen.run - 1
        /\ rows'.down # None => seen.owner # None
        /\ rows'.down = None => rows'.level = 0
    BY <1>1 DEF RowsOf, Cooling, Sound, Typed, Ladders, AccountLadder
  <2>2. \A m \in Model :
          /\ rows'.mDown[m] # None => /\ seen.limits[m] > 0
                                      /\ rows'.mLevel[m] = Earned(seen.limits[m])
          /\ rows'.mDown[m] = None => rows'.mLevel[m] = 0
    BY <1>1 DEF RowsOf, Cooling, Sound, Typed, Ladders, ModelLadder
  <2> QED
    BY <1>1, <2>1, <2>2 DEF StoredLadders
<1>4. Ladders'
  BY <1>1 DEF Sound, Ladders, AccountLadder, ModelLadder
<1>5. Mirrored'
  BY <1>1 DEF Mirrored, Mirrors, Kept, RowsOf, Cooling
<1> QED
  BY <1>2, <1>3, <1>4, <1>5 DEF Sound

\* A restart takes the ladders back from the rows.
LEMMA RestartIsSound == ASSUME Sound, Restart PROVE Sound'
<1> USE CooldownsAssumption DEF CooldownsAssumption
<1>1. /\ item' = Restored /\ rows' = rows /\ stored' = stored
      /\ seen' = [limits |-> [m \in Model |-> IF rows.mDown[m] # None THEN stored.limits[m] ELSE 0],
                  run |-> IF rows.down # None THEN stored.run ELSE 0,
                  runKind |-> IF rows.down # None THEN stored.runKind ELSE None,
                  owner |-> IF rows.down # None THEN stored.owner ELSE None]
  BY DEF Restart
<1>2. Typed'
  BY <1>1 DEF Sound, Typed, Restored, Deadline
<1>3. AccountLadder'
  BY <1>1 DEF Sound, Typed, StoredLadders, AccountLadder, Restored
<1>4. \A m \in Model : ModelLadder(m)'
  BY <1>1 DEF Sound, Typed, StoredLadders, ModelLadder, Restored, Earned
<1>5. StoredLadders'
  BY <1>1 DEF Sound, StoredLadders
<1>6. Mirrored'
  <2>1. Kept(rows.down) /\ \A m \in Model : Kept(rows.mDown[m])
    BY DEF Sound, Mirrored
  <2>2. /\ Mirrors(rows.down, rows.down) /\ \A m \in Model : Mirrors(rows.mDown[m], rows.mDown[m])
    BY <2>1 DEF Kept, Mirrors
  <2> QED
    BY <1>1, <2>1, <2>2 DEF Mirrored, Restored
<1> QED
  BY <1>2, <1>3, <1>4, <1>5, <1>6 DEF Sound, Ladders

\* Time passes over the item and the rows alike, and over no ladder.
LEMMA TickIsSound == ASSUME Sound, Tick PROVE Sound'
<1>1. /\ item' = [item EXCEPT !.down = Later(item.down),
                              !.mDown = [m \in Model |-> Later(item.mDown[m])]]
      /\ rows' = [down |-> Elapse(rows.down),
                  level |-> IF Elapse(rows.down) = None THEN 0 ELSE rows.level,
                  mDown |-> [m \in Model |-> Elapse(rows.mDown[m])],
                  mLevel |-> [m \in Model |->
                                IF Elapse(rows.mDown[m]) = None THEN 0 ELSE rows.mLevel[m]]]
      /\ seen' = seen /\ stored' = stored /\ clean' = clean
  BY DEF Tick, Sound, Typed
<1>2. \A d \in Deadline : Later(d) \in Deadline /\ (Later(d) # None => d # None)
  BY DEF Later, Cooling, Deadline
<1>3. /\ item.down \in Deadline /\ rows.down \in Deadline
      /\ \A m \in Model : item.mDown[m] \in Deadline /\ rows.mDown[m] \in Deadline
  BY DEF Sound, Typed
<1>4. /\ item' = [down |-> Later(item.down), kind |-> item.kind, level |-> item.level,
                  mDown |-> [m \in Model |-> Later(item.mDown[m])],
                  mKind |-> item.mKind, mLevel |-> item.mLevel]
  BY <1>1 DEF Sound, Typed
<1>5. Typed'
  <2>1. [m \in Model |-> Later(item.mDown[m])] \in [Model -> Deadline] /\ Later(item.down) \in Deadline
    BY <1>2, <1>3
  <2>2. [m \in Model |-> Elapse(rows.mDown[m])] \in [Model -> Deadline] /\ Elapse(rows.down) \in Deadline
    BY <1>3, RowsElapse
  <2>3. /\ [m \in Model |-> IF Elapse(rows.mDown[m]) = None THEN 0 ELSE rows.mLevel[m]]
             \in [Model -> Nat]
        /\ (IF Elapse(rows.down) = None THEN 0 ELSE rows.level) \in Nat
    BY DEF Sound, Typed
  <2>4. /\ item.kind \in Kind \cup {None} /\ item.level \in Nat
        /\ item.mKind \in [Model -> {None, "rate_limit"}] /\ item.mLevel \in [Model -> Nat]
    BY DEF Sound, Typed
  <2>5. item' \in [down : Deadline, kind : Kind \cup {None}, level : Nat,
                   mDown : [Model -> Deadline], mKind : [Model -> {None, "rate_limit"}],
                   mLevel : [Model -> Nat]]
    <3> DEFINE down == Later(item.down)
               mDown == [m \in Model |-> Later(item.mDown[m])]
    <3>1. down \in Deadline /\ mDown \in [Model -> Deadline]
      BY <2>1
    <3>2. item' = [down |-> down, kind |-> item.kind, level |-> item.level, mDown |-> mDown,
                   mKind |-> item.mKind, mLevel |-> item.mLevel]
      BY <1>4
    <3> HIDE DEF down, mDown
    <3> QED
      BY <2>4, <3>1, <3>2
  <2>6. rows' \in [down : Deadline, level : Nat, mDown : [Model -> Deadline],
                   mLevel : [Model -> Nat]]
    <3> DEFINE down == Elapse(rows.down)
               level == IF Elapse(rows.down) = None THEN 0 ELSE rows.level
               mDown == [m \in Model |-> Elapse(rows.mDown[m])]
               mLevel == [m \in Model |-> IF Elapse(rows.mDown[m]) = None THEN 0
                                          ELSE rows.mLevel[m]]
    <3>1. down \in Deadline /\ level \in Nat /\ mDown \in [Model -> Deadline] /\ mLevel \in [Model -> Nat]
      BY <2>2, <2>3
    <3>2. rows' = [down |-> down, level |-> level, mDown |-> mDown, mLevel |-> mLevel]
      BY <1>1
    <3> HIDE DEF down, level, mDown, mLevel
    <3> QED
      BY <3>1, <3>2
  <2> QED
    BY <1>1, <2>5, <2>6 DEF Sound, Typed
<1>6. Ladders'
  <2>1. /\ item'.level = item.level /\ item'.kind = item.kind /\ item'.down = Later(item.down)
        /\ item'.mKind = item.mKind /\ item'.mLevel = item.mLevel
    BY <1>4
  <2>2. \A m \in Model : item'.mDown[m] = Later(item.mDown[m])
    BY <1>4
  <2>3. seen' = seen
    BY <1>1
  <2>4. AccountLadder'
    BY <1>2, <1>3, <2>1, <2>3 DEF Sound, Ladders, AccountLadder
  <2>5. \A m \in Model : ModelLadder(m)'
    BY <1>2, <1>3, <2>1, <2>2, <2>3 DEF Sound, Ladders, ModelLadder
  <2> QED
    BY <2>4, <2>5 DEF Ladders
<1>7. StoredLadders'
  <2>1. /\ rows'.level = (IF Elapse(rows.down) = None THEN 0 ELSE rows.level)
        /\ rows'.down = Elapse(rows.down)
        /\ \A m \in Model :
             /\ rows'.mDown[m] = Elapse(rows.mDown[m])
             /\ rows'.mLevel[m] = IF Elapse(rows.mDown[m]) = None THEN 0 ELSE rows.mLevel[m]
    <3>1. rows' = [down |-> Elapse(rows.down),
                   level |-> IF Elapse(rows.down) = None THEN 0 ELSE rows.level,
                   mDown |-> [m \in Model |-> Elapse(rows.mDown[m])],
                   mLevel |-> [m \in Model |-> IF Elapse(rows.mDown[m]) = None THEN 0
                                               ELSE rows.mLevel[m]]]
      BY <1>1
    <3>2. rows'.down = Elapse(rows.down)
      BY <3>1
    <3>3. rows'.level = IF Elapse(rows.down) = None THEN 0 ELSE rows.level
      BY <3>1
    <3>4. rows'.mDown = [m \in Model |-> Elapse(rows.mDown[m])]
      BY <3>1
    <3>5. rows'.mLevel = [m \in Model |-> IF Elapse(rows.mDown[m]) = None THEN 0 ELSE rows.mLevel[m]]
      BY <3>1
    <3> QED
      BY <3>2, <3>3, <3>4, <3>5
  <2>2. /\ Elapse(rows.down) # None => rows.down # None
        /\ \A m \in Model : Elapse(rows.mDown[m]) # None => rows.mDown[m] # None
    BY <1>3, RowsElapse
  <2>3. stored.run \in Nat
    BY DEF Sound, Typed
  <2> QED
    BY <1>1, <2>1, <2>2, <2>3 DEF Sound, StoredLadders
<1>8. Mirrored'
  <2>1. Kept(Elapse(rows.down)) /\ \A m \in Model : Kept(Elapse(rows.mDown[m]))
    BY <1>3, RowsElapse
  <2>2. clean => /\ Mirrors(Elapse(rows.down), Later(item.down))
                 /\ \A m \in Model : Mirrors(Elapse(rows.mDown[m]), Later(item.mDown[m]))
    BY <1>3, TimePasses DEF Sound, Mirrored
  <2>3. rows'.down = Elapse(rows.down) /\ \A m \in Model : rows'.mDown[m] = Elapse(rows.mDown[m])
    BY <1>1
  <2>4. item'.down = Later(item.down) /\ \A m \in Model : item'.mDown[m] = Later(item.mDown[m])
    BY <1>4
  <2>5. clean' = clean
    BY <1>1
  <2> QED
    BY <2>1, <2>2, <2>3, <2>4, <2>5 DEF Mirrored
<1> QED
  BY <1>5, <1>6, <1>7, <1>8 DEF Sound

-----------------------------------------------------------------------------
(* Every step *)

\* A new account has no ladder and no rows.
LEMMA InitIsSound == Init => Sound
<1> SUFFICES ASSUME Init PROVE Sound
  OBVIOUS
<1>1. item = Fresh /\ rows = NoRows /\ seen = Unseen /\ stored = Unseen
  BY DEF Init
<1>2. Typed
  BY <1>1 DEF Typed, Fresh, NoRows, Unseen, Deadline
<1>3. Ladders /\ StoredLadders
  BY <1>1 DEF Ladders, AccountLadder, ModelLadder, StoredLadders, Earned, Fresh, NoRows, Unseen
<1>4. Mirrored
  BY <1>1 DEF Mirrored, Mirrors, Kept, Cooling, Fresh, NoRows
<1> QED
  BY <1>2, <1>3, <1>4 DEF Sound

\* Every step keeps the ladders, the rows and the mirror.
LEMMA NextIsSound == Sound /\ [Next]_vars => Sound'
<1> SUFFICES ASSUME Sound, [Next]_vars PROVE Sound'
  OBVIOUS
<1>1. ASSUME UNCHANGED <<item, rows, seen, stored, clean>> PROVE Sound'
  BY <1>1 DEF Sound, Typed, Ladders, AccountLadder, ModelLadder, StoredLadders, Mirrored
<1>2. ASSUME NEW m \in Scope, Dispatch(m) \/ Ends(m) PROVE Sound'
  BY <1>1, <1>2 DEF Dispatch, Ends
<1>3. ASSUME NEW m \in Scope, Succeeds(m) PROVE Sound'
  <2>1. CASE m \in Model
    BY <1>3, <2>1, ModelOKIsSound DEF Succeeds
  <2>2. CASE m \notin Model
    BY <1>3, <2>2, FreshIsSound DEF Succeeds
  <2> QED
    BY <2>1, <2>2
<1>4. ASSUME NEW m \in Scope, NEW k \in Kind, Fails(m, k) PROVE Sound'
  <2>1. CASE k = "rate_limit" /\ m \in Model
    BY <1>4, <2>1, LimitedIsSound DEF Fails
  <2>2. CASE ~(k = "rate_limit" /\ m \in Model)
    BY <1>4, <2>2, FailedIsSound DEF Fails
  <2> QED
    BY <2>1, <2>2
<1>5. CASE CheckedIn \/ Reregister
  BY <1>5, FreshIsSound DEF CheckedIn, Reregister
<1>6. CASE UNCHANGED vars
  BY <1>1, <1>6 DEF vars
<1> QED
  BY <1>2, <1>3, <1>4, <1>5, <1>6, ReadingsAreSound, SaveIsSound, RestartIsSound, TickIsSound
     DEF Next

\* The ladders and the rows are right in every state.
THEOREM AlwaysSound == Spec => []Sound
BY InitIsSound, NextIsSound, PTL DEF Spec

\* A model's ladder counts the rate limits of that model since its last success,
\* restarts included (Cooldowns!ModelLadderExact: Pool.MarkClassified, Pool.MarkOK
\* and restoreCooldowns).
THEOREM ModelLaddersAreExact == Spec => []ModelLadderExact
<1>1. Sound => ModelLadderExact
  BY DEF Sound, Ladders, ModelLadder, ModelLadderExact, Earned
<1> QED
  BY <1>1, AlwaysSound, PTL

\* Nothing cools without a cause, and no account-wide ladder is inflated by a
\* model's (Cooldowns!CooldownsAreEarned).
THEOREM EveryCooldownIsEarned == Spec => []CooldownsAreEarned
<1>1. Sound => CooldownsAreEarned
  BY DEF Sound, Ladders, AccountLadder, ModelLadder, CooldownsAreEarned, AccountLadderEarned,
         CoolingHasCause
<1> QED
  BY <1>1, AlwaysSound, PTL

\* A restart after the last change was saved cools exactly what was cooling
\* (Cooldowns!RestartKeepsCooldowns: cooldownRows, SaveCooldowns, restoreCooldowns).
THEOREM RestartsKeepCooldowns == Spec => RestartKeepsCooldowns
<1>1. Sound /\ Restart /\ clean =>
        /\ Cooling(item'.down) = Cooling(item.down)
        /\ \A m \in Model : Cooling(item'.mDown[m]) = Cooling(item.mDown[m])
  <2> SUFFICES ASSUME Sound, Restart, clean
               PROVE  /\ Cooling(item'.down) = Cooling(item.down)
                      /\ \A m \in Model : Cooling(item'.mDown[m]) = Cooling(item.mDown[m])
    OBVIOUS
  <2>1. item'.down = rows.down /\ item'.mDown = rows.mDown
    BY DEF Restart, Restored
  <2>2. Mirrors(rows.down, item.down) /\ \A m \in Model : Mirrors(rows.mDown[m], item.mDown[m])
    BY DEF Sound, Mirrored
  <2>3. /\ Cooling(rows.down) <=> Cooling(item.down)
        /\ \A m \in Model : Cooling(rows.mDown[m]) <=> Cooling(item.mDown[m])
    BY <2>2, MirrorsCool
  <2>4. \A d : Cooling(d) \in BOOLEAN
    BY DEF Cooling
  <2> QED
    BY <2>1, <2>3, <2>4, Zenon
<1> QED
  BY <1>1, AlwaysSound, PTL DEF RestartKeepsCooldowns

=============================================================================
