-------------------------- MODULE WorkerPartsProofs --------------------------
(***************************************************************************)
(* The worker's check-in, its streams and its tool history, for any number *)
(* of callers, campaigns, calls and expiring tokens, for any lines, ends   *)
(* and deadlines of an answer, and for any messages of a client.           *)
(***************************************************************************)
EXTENDS WorkerParts, Integers, FiniteSetTheorems, SequenceTheorems, TLAPS

-----------------------------------------------------------------------------
(* The check-in *)

Members(s) == {s[i] : i \in DOMAIN s}
Distinct(s) == \A i, j \in DOMAIN s : s[i] = s[j] => i = j

Status == {"CLAIMABLE", "CLAIMED", "UPCOMING"}
Answers == {"none", "error", "skipped", "already", "success"}
Places == {"idle", "auth", "machine", "list", "claim", "relist"}
OpType == [at : Places, todo : Seq(Campaign), confirmed : Nat, recovered : Nat,
           refreshed : BOOLEAN, headers : SUBSET Daily!Identity, seen : SUBSET Campaign]

CheckinTyped ==
  /\ pending \in Caller \cup {None}
  /\ op \in [Caller -> OpType]
  /\ waiting \in [Caller -> Caller \cup {None}]
  /\ answer \in [Caller -> Answers]
  /\ campaign \in [Campaign -> Status]
  /\ ours \subseteq Campaign

\* One operation runs, and whoever started it waits for it.
OneOperation == \A c \in Caller : op[c].at # "idle" => pending = c /\ waiting[c] = c

\* An operation o knows where every campaign it found open is: claimed, or yet to be
\* asked for.  While it asks, none of those to be asked for has been claimed by the
\* worker, but perhaps the one whose answer is in doubt.
Keeps(o, status, claimed) ==
  /\ o.at \in {"auth", "machine", "list"} => o.seen = {} /\ o.confirmed = 0
  /\ o.at \in {"claim", "relist"} =>
       /\ o.todo # <<>> /\ Distinct(o.todo)
       /\ \A k \in o.seen : k \in Members(o.todo) \/ status[k] = "CLAIMED"
       /\ \A i \in DOMAIN o.todo : o.todo[i] \in claimed => o.at = "relist" /\ i = 1
       /\ o.confirmed > 0 => claimed # {}

CheckinSound ==
  /\ CheckinTyped /\ OneOperation
  /\ \A k \in ours : campaign[k] = "CLAIMED"
  /\ \A c \in Caller : Keeps(op[c], campaign, ours)

\* What the upstream does with campaigns: what is claimed stays so.
Advances ==
  /\ campaign' \in [Campaign -> Status] /\ ours' \subseteq Campaign
  /\ \A k \in Campaign : campaign[k] = "CLAIMED" => campaign'[k] = "CLAIMED"
  /\ \A k \in ours' : campaign'[k] = "CLAIMED"

\* A worker just started checks nothing in.
LEMMA CheckinStarts == ASSUME Daily!Init PROVE CheckinSound
<1>1. Daily!Idle \in OpType /\ Daily!Idle.at = "idle"
  BY DEF Daily!Idle, OpType, Places
<1>2. /\ op = [c \in Caller |-> Daily!Idle] /\ pending = None
      /\ waiting = [c \in Caller |-> None] /\ answer = [c \in Caller |-> "none"]
      /\ campaign \in [Campaign -> Status] /\ ours = {}
  BY DEF Daily!Init, Status
<1> QED
  BY <1>1, <1>2 DEF CheckinSound, CheckinTyped, OneOperation, Keeps, Answers

\* The rest of a sequence without repetitions lacks its head alone.
LEMMA RestOf ==
  ASSUME NEW S, NEW s \in Seq(S), s # <<>>, Distinct(s)
  PROVE  /\ Tail(s) \in Seq(S) /\ Len(Tail(s)) = Len(s) - 1 /\ Distinct(Tail(s))
         /\ \A i \in DOMAIN Tail(s) : i + 1 \in DOMAIN s /\ i + 1 # 1 /\ Tail(s)[i] = s[i + 1]
         /\ \A e \in Members(s) : e = Head(s) \/ e \in Members(Tail(s))
<1>1. /\ Tail(s) \in Seq(S) /\ Len(Tail(s)) = Len(s) - 1
      /\ \A i \in 1..Len(Tail(s)) : Tail(s)[i] = s[i + 1]
  BY HeadTailProperties
<1>2. /\ Len(s) \in Nat \ {0} /\ Head(s) = s[1]
      /\ DOMAIN s = 1..Len(s) /\ DOMAIN Tail(s) = 1..(Len(s) - 1)
  BY <1>1, LenProperties, EmptySeq
<1>3. \A i \in DOMAIN Tail(s) : i + 1 \in DOMAIN s /\ i + 1 # 1 /\ Tail(s)[i] = s[i + 1]
  BY <1>1, <1>2
<1>4. \A i \in DOMAIN s : i # 1 => i - 1 \in DOMAIN Tail(s) /\ Tail(s)[i - 1] = s[i]
  BY <1>1, <1>2
<1>5. Distinct(Tail(s))
  <2> SUFFICES ASSUME NEW i \in DOMAIN Tail(s), NEW j \in DOMAIN Tail(s),
                      Tail(s)[i] = Tail(s)[j]
               PROVE  i = j
    BY DEF Distinct
  <2>1. i + 1 = j + 1
    BY <1>3 DEF Distinct
  <2> QED
    BY <2>1, <1>2
<1>6. ASSUME NEW e \in Members(s), e # Head(s) PROVE e \in Members(Tail(s))
  <2>1. PICK i \in DOMAIN s : e = s[i]
    BY DEF Members
  <2>2. i # 1
    BY <1>2, <1>6, <2>1
  <2> QED
    BY <1>4, <2>1, <2>2 DEF Members
<1> QED
  BY <1>1, <1>3, <1>5, <1>6

\* The check-in counts as everybody does.
LEMMA SameCount ==
  ASSUME NEW S
  PROVE  (Daily!IsFiniteSet(S) <=> IsFiniteSet(S)) /\ Daily!Cardinality(S) = Cardinality(S)
<1>1. Daily!IsFiniteSet(S) <=> IsFiniteSet(S)
  BY DEF Daily!IsFiniteSet, IsFiniteSet
<1>2. Daily!Cardinality(S) = Cardinality(S)
  BY DEF Daily!Cardinality, Cardinality
<1> QED
  BY <1>1, <1>2

\* An order of a finite set has each of its elements, once.
LEMMA OrderCovers ==
  ASSUME NEW S, IsFiniteSet(S), NEW s \in Daily!SetToSeqs(S)
  PROVE  s \in Seq(S) /\ Distinct(s) /\ Members(s) = S
<1> DEFINE n == Cardinality(S)
<1>1. n \in Nat /\ s \in [1..n -> S] /\ DOMAIN s = 1..n
  BY FS_CardinalityType, SameCount DEF Daily!SetToSeqs
<1>2. s \in Seq(S)
  BY <1>1, SeqDef
<1>3. Distinct(s)
  BY DEF Daily!SetToSeqs, Distinct
<1>4. s \in Injection(1..n, S)
  BY <1>1, <1>3 DEF Injection, IsInjective, Distinct
<1>5. IsFiniteSet(1..n) /\ Cardinality(1..n) = n
  BY <1>1, FS_Interval
<1>6. s \in Surjection(1..n, S)
  BY <1>4, <1>5, FS_Injection
<1>7. Members(s) = S
  BY <1>1, <1>6 DEF Surjection, Members
<1> QED
  BY <1>2, <1>3, <1>7

\* An operation that goes on keeps what it knows; nobody else has one.
LEMMA GoesOn ==
  ASSUME CheckinSound, NEW c \in Caller, op[c].at # "idle", Advances,
         NEW o \in OpType, o.at # "idle", Keeps(o, campaign', ours'),
         op' = [op EXCEPT ![c] = o], UNCHANGED <<pending, waiting, answer>>
  PROVE  CheckinSound' /\ Daily!AnswersTruly
<1>1. /\ op \in [Caller -> OpType] /\ pending = c /\ waiting[c] = c
      /\ \A d \in Caller : d # c => op[d].at = "idle"
  BY DEF CheckinSound, CheckinTyped, OneOperation
<1>2. \A d \in Caller : op'[d] = IF d = c THEN o ELSE op[d]
  BY <1>1
<1>3. CheckinTyped'
  BY <1>1 DEF CheckinSound, CheckinTyped, Advances
<1>4. OneOperation'
  BY <1>1, <1>2 DEF OneOperation
<1>5. \A d \in Caller : Keeps(op'[d], campaign', ours')
  BY <1>1, <1>2 DEF Keeps
<1>6. Daily!AnswersTruly
  BY <1>1, <1>2 DEF Daily!AnswersTruly
<1> QED
  BY <1>3, <1>4, <1>5, <1>6 DEF CheckinSound, Advances

\* An operation that settles tells the truth, if what it tells is true.
LEMMA Settles ==
  ASSUME CheckinSound, NEW c \in Caller, op[c].at # "idle", Advances,
         NEW told \in Answers, Daily!Settle(c, told),
         told \in {"success", "already"} =>
            /\ \A k \in op[c].seen : campaign'[k] = "CLAIMED"
            /\ told = "success" => ours' # {}
  PROVE  CheckinSound' /\ Daily!AnswersTruly
<1>1. /\ op \in [Caller -> OpType] /\ pending = c /\ waiting[c] = c
      /\ \A d \in Caller : d # c => op[d].at = "idle"
  BY DEF CheckinSound, CheckinTyped, OneOperation
<1>2. PICK o : o = [op[c] EXCEPT !.at = "idle", !.todo = <<>>]
  OBVIOUS
<1>3. o \in OpType /\ o.at = "idle"
  <2>1. op[c] \in OpType /\ "idle" \in Places /\ <<>> \in Seq(Campaign)
    BY <1>1 DEF Places
  <2> QED
    BY <1>2, <2>1 DEF OpType
<1>4. op' = [op EXCEPT ![c] = o]
  BY <1>1, <1>2 DEF Daily!Settle
<1>5. \A d \in Caller : op'[d].at = "idle" /\ (d # c => op'[d] = op[d])
  BY <1>1, <1>3, <1>4
<1>6. /\ pending' = None
      /\ answer' = [d \in Caller |-> IF waiting[d] = c THEN told ELSE answer[d]]
      /\ waiting' = [d \in Caller |-> IF waiting[d] = c THEN None ELSE waiting[d]]
  BY DEF Daily!Settle
<1>7. CheckinTyped'
  BY <1>1, <1>3, <1>4, <1>6 DEF CheckinSound, CheckinTyped, Advances
<1>8. OneOperation' /\ \A d \in Caller : Keeps(op'[d], campaign', ours')
  BY <1>5 DEF OneOperation, Keeps
<1>9. Daily!AnswersTruly
  BY <1>1, <1>5, <1>6 DEF Daily!AnswersTruly
<1> QED
  BY <1>7, <1>8, <1>9 DEF CheckinSound, Advances

\* The campaign in hand is claimed: with the next one in hand, or at the end, all
\* that was found open and is not ahead is claimed.
LEMMA NextSound ==
  ASSUME CheckinSound, NEW c \in Caller, op[c].at \in {"claim", "relist"}, Advances,
         NEW o \in OpType, o.todo = op[c].todo, o.seen = op[c].seen,
         o.confirmed > 0 => ours' # {},
         Daily!NextCampaign(c, o),
         campaign'[Head(o.todo)] = "CLAIMED",
         \A k \in ours' : k \in ours \/ k = Head(o.todo)
  PROVE  CheckinSound' /\ Daily!AnswersTruly
<1>1. /\ op[c] \in OpType /\ o.todo \in Seq(Campaign) /\ o.todo # <<>> /\ Distinct(o.todo)
      /\ \A k \in o.seen : k \in Members(o.todo) \/ campaign[k] = "CLAIMED"
      /\ \A i \in DOMAIN o.todo : o.todo[i] \in ours => i = 1
      /\ o.seen \subseteq Campaign
  BY DEF CheckinSound, CheckinTyped, Keeps, OpType
<1>2. /\ Tail(o.todo) \in Seq(Campaign) /\ Len(Tail(o.todo)) = Len(o.todo) - 1 /\ Distinct(Tail(o.todo))
      /\ \A i \in DOMAIN Tail(o.todo) :
            i + 1 \in DOMAIN o.todo /\ i + 1 # 1 /\ Tail(o.todo)[i] = o.todo[i + 1]
      /\ \A e \in Members(o.todo) : e = Head(o.todo) \/ e \in Members(Tail(o.todo))
  BY <1>1, RestOf
<1>3. Len(o.todo) \in Nat \ {0} /\ Head(o.todo) = o.todo[1] /\ DOMAIN o.todo = 1..Len(o.todo)
  BY <1>1, LenProperties, EmptySeq
<1>4. \A k \in o.seen : k \in Members(Tail(o.todo)) \/ campaign'[k] = "CLAIMED"
  BY <1>1, <1>2 DEF Advances
<1>5. CASE Len(o.todo) > 1
  <2>1. PICK q : q = [o EXCEPT !.at = "claim", !.todo = Tail(@), !.refreshed = FALSE]
    OBVIOUS
  <2>2. /\ q \in OpType /\ q.at = "claim" /\ q.todo = Tail(o.todo) /\ q.seen = o.seen
        /\ q.confirmed = o.confirmed
    BY <1>2, <2>1 DEF OpType, Places
  <2>3. \A i \in DOMAIN q.todo : q.todo[i] \notin ours'
    <3> SUFFICES ASSUME NEW i \in DOMAIN Tail(o.todo), Tail(o.todo)[i] \in ours' PROVE FALSE
      BY <2>2
    <3>1. i + 1 \in DOMAIN o.todo /\ i + 1 # 1 /\ o.todo[i + 1] \in ours'
      BY <1>2
    <3>2. o.todo[i + 1] # o.todo[1] /\ o.todo[i + 1] \notin ours
      BY <1>1, <1>3, <3>1 DEF Distinct
    <3> QED
      BY <1>3, <3>1, <3>2
  <2>4. q.todo # <<>>
    <3>1. Len(q.todo) = Len(o.todo) - 1 /\ Len(<<>>) = 0
      BY <1>2, <2>2
    <3> QED
      BY <1>3, <1>5, <3>1
  <2>5. Keeps(q, campaign', ours')
    BY <1>2, <1>4, <2>2, <2>3, <2>4 DEF Keeps
  <2>6. op' = [op EXCEPT ![c] = q] /\ UNCHANGED <<pending, waiting, answer>>
    BY <1>5, <2>1 DEF Daily!NextCampaign, Daily!callers
  <2> QED
    BY <2>2, <2>5, <2>6, GoesOn
<1>6. CASE ~(Len(o.todo) > 1)
  <2>1. PICK told : told = IF o.confirmed > 0 THEN "success" ELSE "already"
    OBVIOUS
  <2>2. Daily!Settle(c, told)
    <3>1. Daily!Settle(c, IF o.confirmed > 0 THEN "success" ELSE "already")
      BY <1>6 DEF Daily!NextCampaign
    <3> QED
      BY <2>1, <3>1
  <2>3. DOMAIN Tail(o.todo) = {}
    BY <1>2, <1>3, <1>6
  <2>4. \A k \in op[c].seen : campaign'[k] = "CLAIMED"
    BY <1>4, <2>3 DEF Members
  <2>5. told \in Answers /\ (told = "success" => ours' # {})
    BY <2>1 DEF Answers
  <2> QED
    BY <2>2, <2>4, <2>5, Settles
<1> QED
  BY <1>5, <1>6

\* Nothing happens to a campaign: that is an advance too.
LEMMA Stays == ASSUME CheckinSound, UNCHANGED <<campaign, ours>> PROVE Advances
BY DEF CheckinSound, CheckinTyped, Advances

\* A call starts an operation, or waits for the one that runs.
LEMMA CallSound ==
  ASSUME CheckinSound, NEW c \in Caller, Daily!Checkin(c)
  PROVE  CheckinSound' /\ Daily!AnswersTruly
<1>1. /\ waiting[c] = None /\ op[c].at = "idle" /\ None \notin Caller
      /\ UNCHANGED <<answer, campaign, ours>>
  BY PartsAssumption DEF Daily!Checkin, Daily!upstream, PartsAssumption, Daily!CheckinAssumption
<1>2. CASE pending = None
  <2>1. PICK o : o = [Daily!Idle EXCEPT !.at = "auth"]
    OBVIOUS
  <2>2. o \in OpType /\ o.at = "auth" /\ o.seen = {} /\ o.confirmed = 0
    <3>3. Daily!Idle = [at |-> "idle", todo |-> <<>>, confirmed |-> 0, recovered |-> 0,
                        refreshed |-> FALSE, headers |-> {}, seen |-> {}]
      BY DEF Daily!Idle
    <3>1. o = [at |-> "auth", todo |-> <<>>, confirmed |-> 0, recovered |-> 0,
               refreshed |-> FALSE, headers |-> {}, seen |-> {}]
      BY <2>1, <3>3
    <3>2. <<>> \in Seq(Campaign) /\ {} \in SUBSET Daily!Identity
      OBVIOUS
    <3> QED
      BY <3>1, <3>2 DEF OpType, Places
  <2>3. pending' = c /\ waiting' = [waiting EXCEPT ![c] = c] /\ op' = [op EXCEPT ![c] = o]
    BY <1>2, <2>1 DEF Daily!Checkin
  <2>4. \A d \in Caller : op[d].at = "idle"
    BY <1>1, <1>2 DEF CheckinSound, OneOperation
  <2>5. op \in [Caller -> OpType] /\ waiting \in [Caller -> Caller \cup {None}]
    BY DEF CheckinSound, CheckinTyped
  <2>6. \A d \in Caller : op'[d] = IF d = c THEN o ELSE op[d]
    BY <2>3, <2>5
  <2>7. CheckinTyped'
    BY <1>1, <2>2, <2>3 DEF CheckinSound, CheckinTyped
  <2>8. OneOperation'
    BY <2>2, <2>3, <2>4, <2>5, <2>6 DEF OneOperation
  <2>9. \A d \in Caller : Keeps(op'[d], campaign', ours')
    BY <2>2, <2>4, <2>6 DEF Keeps
  <2>10. Daily!AnswersTruly
    BY <2>4 DEF Daily!AnswersTruly
  <2> QED
    BY <1>1, <2>7, <2>8, <2>9, <2>10 DEF CheckinSound
<1>3. CASE pending # None
  <2>1. UNCHANGED <<op, pending>> /\ waiting' = [waiting EXCEPT ![c] = pending]
    BY <1>3 DEF Daily!Checkin
  <2>2. CheckinTyped' /\ OneOperation'
    BY <1>1, <1>3, <2>1 DEF CheckinSound, CheckinTyped, OneOperation
  <2>3. Daily!AnswersTruly
    BY <2>1 DEF Daily!AnswersTruly
  <2> QED
    BY <1>1, <2>1, <2>2, <2>3 DEF CheckinSound
<1> QED
  BY <1>2, <1>3

\* The login, the identity and a refreshed token lead on, or end in an error.
LEMMA PreparationSound ==
  ASSUME CheckinSound, NEW c \in Caller,
         Daily!Authenticate(c) \/ Daily!SpawnRuntimeInfo(c) \/ Daily!ReadIdentity(c) \/ Daily!Unauthorized(c)
  PROVE  CheckinSound' /\ Daily!AnswersTruly
<1>1. op \in [Caller -> OpType] /\ op[c] \in OpType /\ Keeps(op[c], campaign, ours)
  BY DEF CheckinSound, CheckinTyped
<1>2. Advances
  BY Stays DEF Daily!Authenticate, Daily!SpawnRuntimeInfo, Daily!ReadIdentity, Daily!Unauthorized,
               Daily!upstream
<1>3. CASE Daily!Authenticate(c) /\ Daily!Settle(c, "error")
  BY <1>2, <1>3, Settles DEF Daily!Authenticate, Answers
<1>4. ASSUME NEW o \in OpType, op' = [op EXCEPT ![c] = o], UNCHANGED <<campaign, ours>>,
             op[c].at # "idle", o.at # "idle", UNCHANGED <<pending, waiting, answer>>,
             Keeps(o, campaign, ours)
      PROVE  CheckinSound' /\ Daily!AnswersTruly
  BY <1>2, <1>4, GoesOn
<1>5. CASE Daily!Authenticate(c) /\ ~Daily!Settle(c, "error")
  <2>1. PICK o : o = [op[c] EXCEPT !.at = "machine"]
    OBVIOUS
  <2>2. o \in OpType /\ o.at = "machine" /\ Keeps(o, campaign, ours) /\ op[c].at = "auth"
    BY <1>1, <1>5, <2>1 DEF OpType, Places, Keeps, Daily!Authenticate
  <2>3. /\ op' = [op EXCEPT ![c] = o]
        /\ UNCHANGED <<pending, waiting, answer, campaign, ours>>
    BY <1>1, <1>5, <2>1 DEF Daily!Authenticate, Daily!callers
  <2> QED
    BY <1>4, <2>2, <2>3
<1>6. CASE Daily!SpawnRuntimeInfo(c)
  <2>1. UNCHANGED <<pending, waiting, answer, campaign, ours>> /\ op[c].at = "machine"
    BY <1>6 DEF Daily!SpawnRuntimeInfo, Daily!callers, Daily!upstream
  <2>2. CASE UNCHANGED op
    <3>1. op' = [op EXCEPT ![c] = op[c]]
      BY <1>1, <2>2
    <3> QED
      BY <1>1, <1>4, <2>1, <3>1
  <2>3. CASE op' = [op EXCEPT ![c].at = "list"]
    <3>1. PICK o : o = [op[c] EXCEPT !.at = "list"]
      OBVIOUS
    <3>2. o \in OpType /\ o.at = "list" /\ Keeps(o, campaign, ours)
      BY <1>1, <2>1, <3>1 DEF OpType, Places, Keeps
    <3>3. op' = [op EXCEPT ![c] = o]
      BY <1>1, <2>3, <3>1
    <3> QED
      BY <1>4, <2>1, <3>2, <3>3
  <2> QED
    BY <1>6, <2>2, <2>3 DEF Daily!SpawnRuntimeInfo
<1>7. CASE Daily!ReadIdentity(c)
  <2>1. UNCHANGED <<pending, waiting, answer, campaign, ours>> /\ op[c].at = "machine"
    BY <1>7 DEF Daily!ReadIdentity, Daily!callers, Daily!upstream
  <2>2. PICK h \in SUBSET Daily!Identity : op' = [op EXCEPT ![c].at = "list", ![c].headers = h]
    BY <1>7 DEF Daily!ReadIdentity
  <2>3. PICK o : o = [op[c] EXCEPT !.at = "list", !.headers = h]
    OBVIOUS
  <2>4. o \in OpType /\ o.at = "list" /\ Keeps(o, campaign, ours)
    BY <1>1, <2>1, <2>3 DEF OpType, Places, Keeps
  <2>5. op' = [op EXCEPT ![c] = o]
    BY <1>1, <2>2, <2>3
  <2> QED
    BY <1>4, <2>1, <2>4, <2>5
<1>8. CASE Daily!Unauthorized(c)
  <2>1. /\ UNCHANGED <<pending, waiting, answer, campaign, ours>>
        /\ op[c].at \in {"list", "claim", "relist"} /\ op' = [op EXCEPT ![c].refreshed = TRUE]
    BY <1>8 DEF Daily!Unauthorized, Daily!callers
  <2>2. PICK o : o = [op[c] EXCEPT !.refreshed = TRUE]
    OBVIOUS
  <2>3. o \in OpType /\ o.at = op[c].at /\ Keeps(o, campaign, ours)
    BY <1>1, <2>2 DEF OpType, Keeps
  <2>4. op' = [op EXCEPT ![c] = o]
    BY <1>1, <2>1, <2>2
  <2> QED
    BY <1>4, <2>1, <2>3, <2>4
<1> QED
  BY <1>3, <1>5, <1>6, <1>7, <1>8

\* The list: what can be claimed is what will be asked for, each campaign once.
LEMMA ListSound ==
  ASSUME CheckinSound, NEW c \in Caller, Daily!List(c)
  PROVE  CheckinSound' /\ Daily!AnswersTruly
<1>1. /\ op \in [Caller -> OpType] /\ op[c] \in OpType /\ op[c].at = "list" /\ op[c].seen = {}
      /\ op[c].confirmed = 0 /\ UNCHANGED <<campaign, ours>>
  BY DEF CheckinSound, CheckinTyped, Keeps, Daily!List, Daily!upstream
<1>2. Advances
  BY <1>1, Stays
<1>3. PICK claimable : claimable = {k \in Campaign : campaign[k] = "CLAIMABLE"}
  OBVIOUS
<1>4. ASSUME NEW told \in {"error", "skipped", "already"}, Daily!Settle(c, told)
      PROVE  CheckinSound' /\ Daily!AnswersTruly
  BY <1>1, <1>2, <1>4, Settles DEF Answers
<1>5. ASSUME NEW order \in Daily!SetToSeqs(claimable), claimable # {},
             op' = [op EXCEPT ![c].at = "claim", ![c].todo = order, ![c].seen = claimable,
                              ![c].refreshed = FALSE],
             UNCHANGED <<pending, waiting, answer>>
      PROVE  CheckinSound' /\ Daily!AnswersTruly
  <2>1. IsFiniteSet(claimable) /\ claimable \subseteq Campaign
    BY <1>3, PartsAssumption, FS_Subset, SameCount DEF PartsAssumption, Daily!CheckinAssumption
  <2>2. order \in Seq(claimable) /\ Distinct(order) /\ Members(order) = claimable
    BY <2>1, OrderCovers
  <2>3. order \in Seq(Campaign) /\ order # <<>>
    <3>1. \A i \in 1..Len(order) : order[i] \in Campaign
      BY <2>1, <2>2
    <3>2. order \in Seq(Campaign)
      BY <2>2, <3>1
    <3>3. order # <<>>
      BY <1>5, <2>2 DEF Members
    <3> QED
      BY <3>2, <3>3
  <2>4. PICK o : o = [op[c] EXCEPT !.at = "claim", !.todo = order, !.seen = claimable, !.refreshed = FALSE]
    OBVIOUS
  <2>5. /\ o \in OpType /\ o.at = "claim" /\ o.todo = order /\ o.seen = claimable /\ o.confirmed = 0
    BY <1>1, <2>1, <2>3, <2>4 DEF OpType, Places
  <2>6. \A i \in DOMAIN order : order[i] \notin ours
    BY <1>3, <2>2 DEF Members, CheckinSound
  <2>7. Keeps(o, campaign', ours')
    BY <1>1, <2>2, <2>3, <2>5, <2>6 DEF Keeps
  <2>8. op' = [op EXCEPT ![c] = o]
    BY <1>1, <1>5, <2>4
  <2> QED
    BY <1>1, <1>2, <1>5, <2>5, <2>7, <2>8, GoesOn
<1> QED
  BY <1>3, <1>4, <1>5 DEF Daily!List, Daily!callers

\* A claim: carried out and heard of, or in doubt.
LEMMA ClaimSound ==
  ASSUME CheckinSound, NEW c \in Caller, Daily!Claim(c)
  PROVE  CheckinSound' /\ Daily!AnswersTruly
<1>1. /\ op \in [Caller -> OpType] /\ op[c] \in OpType /\ op[c].at = "claim" /\ op[c].todo # <<>>
      /\ op[c].todo \in Seq(Campaign) /\ Keeps(op[c], campaign, ours)
      /\ campaign \in [Campaign -> Status] /\ ours \subseteq Campaign
      /\ \A k \in ours : campaign[k] = "CLAIMED"
  BY DEF CheckinSound, CheckinTyped, Keeps, Daily!Claim, OpType
<1>2. PICK k : k = Head(op[c].todo)
  OBVIOUS
<1>3. k \in Campaign /\ k = op[c].todo[1]
  BY <1>1, <1>2
<1>4. ASSUME campaign[k] = "CLAIMABLE", campaign' = Daily!Claimed(k), ours' = ours \cup {k}
      PROVE  Advances /\ campaign'[k] = "CLAIMED"
  BY <1>1, <1>3, <1>4 DEF Advances, Daily!Claimed, Status
<1>5. CASE /\ campaign[k] = "CLAIMABLE" /\ campaign' = Daily!Claimed(k) /\ ours' = ours \cup {k}
           /\ Daily!NextCampaign(c, [op[c] EXCEPT !.confirmed = @ + 1])
  <2>1. PICK o : o = [op[c] EXCEPT !.confirmed = @ + 1]
    OBVIOUS
  <2>2. o \in OpType /\ o.todo = op[c].todo /\ o.seen = op[c].seen
    <3>1. op[c].confirmed + 1 \in Nat /\ o = [op[c] EXCEPT !.confirmed = op[c].confirmed + 1]
      BY <1>1, <2>1 DEF OpType
    <3> QED
      BY <1>1, <3>1 DEF OpType
  <2>3. \A j \in ours' : j \in ours \/ j = Head(o.todo)
    BY <1>2, <1>5, <2>2
  <2>4. Advances /\ campaign'[Head(o.todo)] = "CLAIMED" /\ ours' # {}
    BY <1>2, <1>4, <1>5, <2>2
  <2>5. Daily!NextCampaign(c, o)
    BY <1>5, <2>1
  <2> QED
    BY <1>1, <2>2, <2>3, <2>4, <2>5, NextSound
<1>6. CASE /\ \/ campaign[k] = "CLAIMABLE" /\ campaign' = Daily!Claimed(k) /\ ours' = ours \cup {k}
              \/ UNCHANGED <<campaign, ours>>
           /\ op' = [op EXCEPT ![c].at = "relist", ![c].refreshed = FALSE]
           /\ UNCHANGED <<pending, waiting, answer>>
  <2>1. PICK o : o = [op[c] EXCEPT !.at = "relist", !.refreshed = FALSE]
    OBVIOUS
  <2>2. /\ o \in OpType /\ o.at = "relist" /\ o.todo = op[c].todo /\ o.seen = op[c].seen
        /\ o.confirmed = op[c].confirmed
    BY <1>1, <2>1 DEF OpType, Places
  <2>3. Advances /\ \A j \in ours' : j \in ours \/ j = k
    BY <1>4, <1>6, Stays
  <2>4. ours \subseteq ours'
    BY <1>6
  <2>5. \A i \in DOMAIN o.todo : o.todo[i] \in ours' => i = 1
    <3> SUFFICES ASSUME NEW i \in DOMAIN op[c].todo, op[c].todo[i] \in ours' PROVE i = 1
      BY <2>2
    <3>1. op[c].todo[i] \notin ours /\ Distinct(op[c].todo) /\ 1 \in DOMAIN op[c].todo
      BY <1>1 DEF Keeps
    <3> QED
      BY <1>3, <2>3, <3>1 DEF Distinct
  <2>6. o.seen \subseteq Campaign
    BY <2>2 DEF OpType
  <2>7. Keeps(o, campaign', ours')
    BY <1>1, <2>2, <2>3, <2>4, <2>5, <2>6 DEF Keeps, Advances
  <2>8. op' = [op EXCEPT ![c] = o]
    BY <1>1, <1>6, <2>1
  <2> QED
    BY <1>1, <1>6, <2>2, <2>3, <2>7, <2>8, GoesOn
<1> QED
  BY <1>2, <1>5, <1>6 DEF Daily!Claim, Daily!callers

\* The second look settles, or finds the campaign in hand claimed.
LEMMA RelistSound ==
  ASSUME CheckinSound, NEW c \in Caller, Daily!Relist(c)
  PROVE  CheckinSound' /\ Daily!AnswersTruly
<1>1. /\ op[c] \in OpType /\ op[c].at = "relist" /\ Keeps(op[c], campaign, ours)
      /\ UNCHANGED <<campaign, ours>>
  BY DEF CheckinSound, CheckinTyped, Daily!Relist, Daily!upstream
<1>2. Advances
  BY <1>1, Stays
<1>3. CASE Daily!Settle(c, "error")
  BY <1>1, <1>2, <1>3, Settles DEF Answers
<1>4. CASE /\ campaign[Head(op[c].todo)] = "CLAIMED"
           /\ Daily!NextCampaign(c, [op[c] EXCEPT !.recovered = @ + 1])
  <2>1. PICK o : o = [op[c] EXCEPT !.recovered = @ + 1]
    OBVIOUS
  <2>2. o \in OpType /\ o.todo = op[c].todo /\ o.seen = op[c].seen /\ o.confirmed = op[c].confirmed
    BY <1>1, <2>1 DEF OpType
  <2>3. Daily!NextCampaign(c, o)
    BY <1>4, <2>1
  <2>4. o.confirmed > 0 => ours' # {}
    BY <1>1, <2>2 DEF Keeps
  <2>5. campaign'[Head(o.todo)] = "CLAIMED" /\ \A k \in ours' : k \in ours \/ k = Head(o.todo)
    BY <1>1, <1>4, <2>2
  <2> QED
    BY <1>1, <1>2, <2>2, <2>3, <2>4, <2>5, NextSound
<1> QED
  BY <1>3, <1>4 DEF Daily!Relist

\* Who claims elsewhere, and a token that expires, touch no operation.
LEMMA OthersSound ==
  ASSUME CheckinSound, (\E k \in Campaign : Daily!Elsewhere(k)) \/ Daily!Expire
  PROVE  CheckinSound' /\ Daily!AnswersTruly
<1>1. UNCHANGED <<pending, waiting, answer, op, ours>>
  BY DEF Daily!Elsewhere, Daily!Expire, Daily!callers
<1>2. /\ campaign' \in [Campaign -> Status]
      /\ \A k \in Campaign : campaign[k] = "CLAIMED" => campaign'[k] = "CLAIMED"
  BY DEF Daily!Elsewhere, Daily!Expire, Daily!Claimed, CheckinSound, CheckinTyped, Status
<1>3. CheckinTyped' /\ OneOperation'
  BY <1>1, <1>2 DEF CheckinSound, CheckinTyped, OneOperation
<1>4. ASSUME NEW c \in Caller PROVE Keeps(op[c], campaign', ours)
  <2>1. Keeps(op[c], campaign, ours) /\ op[c].seen \subseteq Campaign
    BY DEF CheckinSound, CheckinTyped, OpType
  <2> QED
    BY <1>2, <2>1 DEF Keeps
<1>5. \A k \in ours' : campaign'[k] = "CLAIMED"
  BY <1>1, <1>2 DEF CheckinSound, CheckinTyped
<1>6. Daily!AnswersTruly
  BY <1>1 DEF Daily!AnswersTruly
<1> QED
  BY <1>1, <1>3, <1>4, <1>5, <1>6 DEF CheckinSound

\* Who is about to ask for a campaign has not claimed it: the state says so.
LEMMA AsksOnce == ASSUME CheckinSound PROVE Daily!ClaimsOnce
<1> SUFFICES ASSUME NEW c \in Caller, op[c].at = "claim" PROVE Head(op[c].todo) \notin ours
  BY DEF Daily!ClaimsOnce
<1>1. op[c].todo \in Seq(Campaign) /\ op[c].todo # <<>> /\ \A i \in DOMAIN op[c].todo : op[c].todo[i] \notin ours
  BY DEF CheckinSound, CheckinTyped, OpType, Keeps
<1>2. 1 \in DOMAIN op[c].todo /\ Head(op[c].todo) = op[c].todo[1]
  BY <1>1
<1> QED
  BY <1>1, <1>2

\* Every step of the check-in keeps the invariant and tells the truth.
LEMMA CheckinStep == ASSUME CheckinSound, Daily!Next PROVE CheckinSound' /\ Daily!AnswersTruly
<1>1. ASSUME NEW c \in Caller, Daily!Checkin(c) \/ Daily!Step(c)
      PROVE  CheckinSound' /\ Daily!AnswersTruly
  <2>1. CASE Daily!Checkin(c)
    BY <2>1, CallSound
  <2>2. CASE Daily!Authenticate(c) \/ Daily!SpawnRuntimeInfo(c) \/ Daily!ReadIdentity(c) \/ Daily!Unauthorized(c)
    BY <2>2, PreparationSound
  <2>3. CASE Daily!List(c)
    BY <2>3, ListSound
  <2>4. CASE Daily!Claim(c)
    BY <2>4, ClaimSound
  <2>5. CASE Daily!Relist(c)
    BY <2>5, RelistSound
  <2> QED
    BY <1>1, <2>1, <2>2, <2>3, <2>4, <2>5 DEF Daily!Step
<1> QED
  BY <1>1, OthersSound DEF Daily!Next

-----------------------------------------------------------------------------
(* The streams *)

Words == Sse!Texts \cup Sse!Frames
Endings == {"finish", "usage", "[DONE]", "error"}
Fields == {"event", "done", "finished", "error", "calls", "byKey", "next", "text"}

\* A parser, as far as the client hears of it.
IsParser(p) ==
  /\ p = [f \in Fields |-> p[f]]
  /\ p.error \in Sse!ErrorType \cup {None}
  /\ p.text \in Seq(Sse!Texts)

StreamTyped ==
  /\ phase \in {"head", "body", "ok", "failed"}
  /\ lines \in Seq(Sse!Read) /\ buffer \in Lines \cup {None}
  /\ IsParser(parser) /\ out \in Seq(Words)
  /\ unary = [f \in Fields |-> unary[f]]

\* No error is forgotten.
ErrorKept == \A i \in DOMAIN lines : lines[i].is \in {"error", "refused"} => parser.error # None

\* Under way the client has all the text there was, in order, and no ending.
Unended ==
  phase \in {"head", "body"} =>
    /\ \A i \in DOMAIN out : out[i] \notin Endings
    /\ Sse!Carries(out, parser.text)

\* While no error came, the unary parser u is where the streaming parser p is, but for
\* the indexes it gives to calls; what has a name in one has one in the other.
Agree(p, u) ==
  p.error = None =>
    /\ u.error = None /\ u.text = p.text /\ u.event = p.event
    /\ Sse!Named(p.calls) # {} => Sse!Named(u.calls) # {}

\* An answer that is reported complete has text or a call with a name.
Answered == phase = "ok" => parser.error = None /\ (parser.text # <<>> \/ Sse!Named(parser.calls) # {})

StreamSound ==
  /\ StreamTyped /\ ErrorKept /\ Sse!TellingErrorWins /\ Unended /\ Sse!NoSilentTruncation
  /\ Agree(parser, unary) /\ Answered

\* The lines are of the kinds there are, and texts are no frames.
LEMMA LinesRead ==
  /\ \A l \in Sse!Read : /\ l.is \in Sse!Kinds
                         /\ l.is = "error" => l.score \in Int
                         /\ l.is = "text" => l.text \in Sse!Texts
  /\ Sse!Texts \cap Sse!Frames = {}
  /\ None \notin Sse!ErrorType
<1>1. /\ \A l \in Lines : /\ l.is \in Sse!Kinds
                          /\ l.is = "error" => l.score \in Int
                          /\ l.is = "text" => l.text \notin Sse!Frames
      /\ None \notin Sse!ErrorType
  BY PartsAssumption DEF PartsAssumption, Sse!SseAssumption
<1>2. \A l \in Sse!Read : l \in Lines \/ l.is = "junk"
  BY DEF Sse!Read
<1>3. "junk" \in Sse!Kinds /\ "junk" # "error" /\ "junk" # "text"
  BY DEF Sse!Kinds
<1>4. \A l \in Lines : l.is = "text" => l.text \in Sse!Texts
  BY DEF Sse!Texts
<1>5. Sse!Texts \cap Sse!Frames = {}
  BY <1>1 DEF Sse!Texts
<1> QED
  BY <1>1, <1>2, <1>3, <1>4, <1>5

\* The error of a line has a score.
LEMMA ErrorsAreErrors ==
  ASSUME NEW line \in Sse!Read
  PROVE  /\ Sse!ErrorOf(line) \in Sse!ErrorType
         /\ Sse!ErrorOf(line).line = line
         /\ line.is = "error" => Sse!ErrorOf(line).score = line.score
<1>1. PICK score : score = IF line.is = "error" THEN line.score ELSE Sse!PlainScore
  OBVIOUS
<1>2. score \in Int
  BY <1>1, LinesRead DEF Sse!PlainScore
<1>3. Sse!ErrorOf(line) = [score |-> score, line |-> line]
  BY <1>1 DEF Sse!ErrorOf
<1> QED
  BY <1>1, <1>2, <1>3 DEF Sse!ErrorType

\* What a line does to the parser, as far as the client hears of it.
LEMMA LineParsed ==
  ASSUME NEW p, IsParser(p), NEW line \in Sse!Read,
         NEW q, q = Sse!StreamLine(p, line)
  PROVE  /\ IsParser(q)
         /\ q.text = IF p.event # "error" /\ line.is = "text" THEN Append(p.text, line.text) ELSE p.text
         /\ \/ q.error = p.error /\ line.is \notin {"error", "refused"}
            \/ q.error = Sse!Remember(p.error, Sse!ErrorOf(line))
<1>1. /\ p = [f \in Fields |-> p[f]] /\ p.error \in Sse!ErrorType \cup {None} /\ p.text \in Seq(Sse!Texts)
  BY DEF IsParser
<1>2. line.is \in {"event", "text", "call", "finish", "error", "refused", "done", "junk"}
  BY LinesRead DEF Sse!Kinds
<1>3. PICK e : e = Sse!Remember(p.error, Sse!ErrorOf(line))
  OBVIOUS
<1>4. e \in Sse!ErrorType \cup {None}
  BY <1>1, <1>3, ErrorsAreErrors DEF Sse!Remember
<1>5. CASE line.is = "event"
  <2>1. q = [p EXCEPT !.event = line.name]
    BY <1>5 DEF Sse!StreamLine
  <2> QED
    BY <1>1, <1>5, <2>1 DEF IsParser, Fields
<1>6. CASE line.is # "event" /\ p.event = "error"
  <2>1. q = [p EXCEPT !.error = e, !.event = "message"]
    BY <1>3, <1>6 DEF Sse!StreamLine
  <2> QED
    BY <1>1, <1>3, <1>4, <1>6, <2>1 DEF IsParser, Fields
<1>7. CASE p.event # "error" /\ line.is = "done"
  <2>1. q = [p EXCEPT !.done = TRUE]
    BY <1>7 DEF Sse!StreamLine
  <2> QED
    BY <1>1, <1>7, <2>1 DEF IsParser, Fields
<1>8. CASE p.event # "error" /\ line.is \in {"error", "refused"}
  <2>1. q = [p EXCEPT !.error = e]
    BY <1>3, <1>8 DEF Sse!StreamLine
  <2> QED
    BY <1>1, <1>3, <1>4, <1>8, <2>1 DEF IsParser, Fields
<1>9. CASE p.event # "error" /\ line.is = "junk"
  <2>1. q = [p EXCEPT !.event = "message"]
    BY <1>9 DEF Sse!StreamLine
  <2> QED
    BY <1>1, <1>9, <2>1 DEF IsParser, Fields
<1>10. CASE p.event # "error" /\ line.is = "text"
  <2>1. PICK t : t = Append(p.text, line.text)
    OBVIOUS
  <2>2. t \in Seq(Sse!Texts)
    BY <1>1, <1>10, <2>1, LinesRead, AppendProperties
  <2>3. q = [p EXCEPT !.text = t, !.event = "message"]
    BY <1>10, <2>1 DEF Sse!StreamLine
  <2> QED
    BY <1>1, <1>10, <2>1, <2>2, <2>3 DEF IsParser, Fields
<1>11. CASE p.event # "error" /\ line.is = "call"
  <2>1. q = Sse!StreamCall(p, line)
    BY <1>11 DEF Sse!StreamLine
  <2>2. PICK i : i = Sse!IndexOf(p, line)
    OBVIOUS
  <2>3. PICK grown, keys, next :
          /\ grown = Sse!Put(p.calls, i, Sse!Grow(Sse!At(p.calls, i, Sse!NoCall), line))
          /\ keys = IF line.id = None THEN p.byKey ELSE Sse!Put(p.byKey, line.id, i)
          /\ next = IF i + 1 > p.next THEN i + 1 ELSE p.next
    OBVIOUS
  <2>4. q = [p EXCEPT !.calls = grown, !.byKey = keys, !.next = next, !.event = "message"]
    BY ZenonT(30), <2>1, <2>2, <2>3 DEF Sse!StreamCall
  <2> QED
    BY <1>1, <1>11, <2>4 DEF IsParser, Fields
<1>12. CASE p.event # "error" /\ line.is = "finish"
  <2>1. q = [p EXCEPT !.finished = TRUE, !.event = "message"]
    BY <1>12 DEF Sse!StreamLine
  <2> QED
    BY <1>1, <1>12, <2>1 DEF IsParser, Fields
<1> QED
  BY <1>2, <1>5, <1>6, <1>7, <1>8, <1>9, <1>10, <1>11, <1>12

\* A fragment that joins a call: some call has a name if one had, or the fragment has.
LEMMA NameKept ==
  ASSUME NEW known, NEW i, NEW line, NEW grown,
         grown = Sse!Put(known, i, Sse!Grow(Sse!At(known, i, Sse!NoCall), line))
  PROVE  Sse!Named(grown) # {} <=> Sse!Named(known) # {} \/ line.named
<1>1. PICK old : old = Sse!At(known, i, Sse!NoCall)
  OBVIOUS
<1>2. PICK call : call = Sse!Grow(old, line)
  OBVIOUS
<1>3. call.named <=> old.named \/ line.named
  BY <1>2 DEF Sse!Grow
<1>4. /\ DOMAIN grown = DOMAIN known \cup {i}
      /\ \A x \in DOMAIN known \cup {i} : grown[x] = IF x = i THEN call ELSE known[x]
  BY <1>1, <1>2 DEF Sse!Put
<1>5. CASE i \in DOMAIN known
  <2>1. old = known[i]
    BY <1>1, <1>5 DEF Sse!At
  <2> QED
    BY <1>3, <1>4, <1>5, <2>1 DEF Sse!Named
<1>6. CASE i \notin DOMAIN known
  <2>1. old.named = FALSE
    BY <1>1, <1>6 DEF Sse!At, Sse!NoCall
  <2> QED
    BY <1>3, <1>4, <1>6, <2>1 DEF Sse!Named
<1> QED
  BY <1>5, <1>6

\* A line leaves the unary parser a parser.
LEMMA UnaryParsed ==
  ASSUME NEW u, u = [f \in Fields |-> u[f]], NEW line \in Sse!Read, NEW v, v = Sse!UnaryLine(u, line)
  PROVE  v = [f \in Fields |-> v[f]]
<1>1. line.is \in {"event", "text", "call", "finish", "error", "refused", "done", "junk"}
  BY LinesRead DEF Sse!Kinds
<1>2. CASE line.is = "event"
  <2>1. v = [u EXCEPT !.event = line.name]
    BY <1>2 DEF Sse!UnaryLine
  <2> QED
    BY <2>1 DEF Fields
<1>3. CASE line.is = "done"
  BY <1>3 DEF Sse!UnaryLine
<1>4. CASE line.is \notin {"event", "done"} /\ u.event = "error"
  <2>1. PICK e : e = IF line.is = "junk" THEN u.error ELSE Sse!Remember(u.error, Sse!ErrorOf(line))
    OBVIOUS
  <2>2. v = [u EXCEPT !.error = e, !.event = "message"]
    BY <1>4, <2>1 DEF Sse!UnaryLine
  <2> QED
    BY <2>2 DEF Fields
<1>5. CASE u.event # "error" /\ line.is = "error"
  <2>1. v = [u EXCEPT !.error = Sse!Remember(u.error, Sse!ErrorOf(line)), !.event = "message"]
    BY <1>5 DEF Sse!UnaryLine
  <2> QED
    BY <2>1 DEF Fields
<1>6. CASE u.event # "error" /\ line.is \in {"junk", "refused"}
  <2>1. v = [u EXCEPT !.event = "message"]
    BY <1>6 DEF Sse!UnaryLine
  <2> QED
    BY <2>1 DEF Fields
<1>7. CASE u.event # "error" /\ line.is = "text"
  <2>1. v = [u EXCEPT !.text = Append(u.text, line.text), !.event = "message"]
    BY <1>7 DEF Sse!UnaryLine
  <2> QED
    BY <2>1 DEF Fields
<1>8. CASE u.event # "error" /\ line.is = "call"
  <2>1. PICK grown : v = [u EXCEPT !.calls = grown, !.event = "message"]
    BY <1>8 DEF Sse!UnaryLine
  <2> QED
    BY <2>1 DEF Fields
<1>9. CASE u.event # "error" /\ line.is = "finish"
  <2>1. v = [u EXCEPT !.finished = TRUE, !.event = "message"]
    BY <1>9 DEF Sse!UnaryLine
  <2> QED
    BY <2>1 DEF Fields
<1> QED
  BY <1>1, <1>2, <1>3, <1>4, <1>5, <1>6, <1>7, <1>8, <1>9

\* The two parsers take a line alike, as long as there is no error.
LEMMA LinesAgree ==
  ASSUME NEW p, IsParser(p), NEW u, u = [f \in Fields |-> u[f]], Agree(p, u),
         NEW line \in Sse!Read,
         NEW q, q = Sse!StreamLine(p, line), NEW v, v = Sse!UnaryLine(u, line)
  PROVE  Agree(q, v)
<1> SUFFICES ASSUME q.error = None PROVE Agree(q, v)
  BY DEF Agree
<1>1. line.is \in {"event", "text", "call", "finish", "error", "refused", "done", "junk"}
  BY LinesRead DEF Sse!Kinds
<1>2. p = [f \in Fields |-> p[f]] /\ p.error \in Sse!ErrorType \cup {None} /\ None \notin Sse!ErrorType
  BY LinesRead DEF IsParser
<1>3. q.error = p.error /\ line.is \notin {"error", "refused"}
  <2>1. Sse!ErrorOf(line) \in Sse!ErrorType
    BY ErrorsAreErrors
  <2>2. Sse!Remember(p.error, Sse!ErrorOf(line)) # None
    BY <1>2, <2>1 DEF Sse!Remember
  <2> QED
    BY <2>2, LineParsed
<1>4. /\ p.error = None /\ u.error = None /\ u.text = p.text /\ u.event = p.event
      /\ Sse!Named(p.calls) # {} => Sse!Named(u.calls) # {}
  BY <1>3 DEF Agree
<1>5. CASE line.is = "event"
  <2>1. q = [p EXCEPT !.event = line.name] /\ v = [u EXCEPT !.event = line.name]
    BY <1>5 DEF Sse!StreamLine, Sse!UnaryLine
  <2>2. /\ q.event = line.name /\ q.text = p.text /\ q.calls = p.calls
        /\ v.event = line.name /\ v.text = u.text /\ v.calls = u.calls /\ v.error = u.error
    BY <1>2, <2>1 DEF Fields
  <2> QED
    BY <1>4, <2>2 DEF Agree
<1>6. CASE line.is # "event" /\ p.event = "error"
  <2>1. q = [p EXCEPT !.error = Sse!Remember(p.error, Sse!ErrorOf(line)), !.event = "message"]
    BY <1>6 DEF Sse!StreamLine
  <2>2. q.error = Sse!Remember(p.error, Sse!ErrorOf(line))
    BY <1>2, <2>1 DEF Fields
  <2>3. Sse!ErrorOf(line) \in Sse!ErrorType
    BY ErrorsAreErrors
  <2> QED
    BY <1>2, <1>4, <2>2, <2>3 DEF Sse!Remember
<1>7. CASE p.event # "error" /\ line.is = "done"
  <2>1. q = [p EXCEPT !.done = TRUE] /\ v = u
    BY <1>7 DEF Sse!StreamLine, Sse!UnaryLine
  <2>2. q.event = p.event /\ q.text = p.text /\ q.calls = p.calls
    BY <1>2, <2>1 DEF Fields
  <2> QED
    BY <1>4, <2>1, <2>2 DEF Agree
<1>8. CASE p.event # "error" /\ line.is = "junk"
  <2>1. q = [p EXCEPT !.event = "message"] /\ v = [u EXCEPT !.event = "message"]
    BY <1>4, <1>8 DEF Sse!StreamLine, Sse!UnaryLine
  <2>2. /\ q.event = "message" /\ q.text = p.text /\ q.calls = p.calls
        /\ v.event = "message" /\ v.text = u.text /\ v.calls = u.calls /\ v.error = u.error
    BY <1>2, <2>1 DEF Fields
  <2> QED
    BY <1>4, <2>2 DEF Agree
<1>9. CASE p.event # "error" /\ line.is = "text"
  <2>1. PICK t : t = Append(p.text, line.text)
    OBVIOUS
  <2>2. q = [p EXCEPT !.text = t, !.event = "message"] /\ v = [u EXCEPT !.text = t, !.event = "message"]
    BY <1>4, <1>9, <2>1 DEF Sse!StreamLine, Sse!UnaryLine
  <2>3. /\ q.event = "message" /\ q.text = t /\ q.calls = p.calls
        /\ v.event = "message" /\ v.text = t /\ v.calls = u.calls /\ v.error = u.error
    BY <1>2, <2>2 DEF Fields
  <2> QED
    BY <1>4, <2>3 DEF Agree
<1>10. CASE p.event # "error" /\ line.is = "call"
  <2>1. q = Sse!StreamCall(p, line)
    BY <1>10 DEF Sse!StreamLine
  <2>2. PICK i, k : /\ i = Sse!IndexOf(p, line)
                    /\ k = IF line.index # None THEN line.index ELSE Sse!Cardinality(DOMAIN u.calls)
    OBVIOUS
  <2>3. PICK grown, keys, next, other :
          /\ grown = Sse!Put(p.calls, i, Sse!Grow(Sse!At(p.calls, i, Sse!NoCall), line))
          /\ keys = IF line.id = None THEN p.byKey ELSE Sse!Put(p.byKey, line.id, i)
          /\ next = IF i + 1 > p.next THEN i + 1 ELSE p.next
          /\ other = Sse!Put(u.calls, k, Sse!Grow(Sse!At(u.calls, k, Sse!NoCall), line))
    OBVIOUS
  <2>4. q = [p EXCEPT !.calls = grown, !.byKey = keys, !.next = next, !.event = "message"]
    BY ZenonT(30), <2>1, <2>2, <2>3 DEF Sse!StreamCall
  <2>5. v = [u EXCEPT !.calls = other, !.event = "message"]
    BY <1>4, <1>10, <2>2, <2>3 DEF Sse!UnaryLine
  <2>6. /\ q.event = "message" /\ q.text = p.text /\ q.calls = grown
        /\ v.event = "message" /\ v.text = u.text /\ v.calls = other /\ v.error = u.error
    BY <1>2, <2>4, <2>5 DEF Fields
  <2>7. Sse!Named(grown) # {} => Sse!Named(other) # {}
    BY <1>4, <2>3, NameKept
  <2> QED
    BY <1>4, <2>6, <2>7 DEF Agree
<1>11. CASE p.event # "error" /\ line.is = "finish"
  <2>1. q = [p EXCEPT !.finished = TRUE, !.event = "message"] /\ v = [u EXCEPT !.finished = TRUE, !.event = "message"]
    BY <1>4, <1>11 DEF Sse!StreamLine, Sse!UnaryLine
  <2>2. /\ q.event = "message" /\ q.text = p.text /\ q.calls = p.calls
        /\ v.event = "message" /\ v.text = u.text /\ v.calls = u.calls /\ v.error = u.error
    BY <1>2, <2>1 DEF Fields
  <2> QED
    BY <1>4, <2>2 DEF Agree
<1> QED
  BY <1>1, <1>3, <1>5, <1>6, <1>7, <1>8, <1>9, <1>10, <1>11

\* One more thing written: text joins the text, a frame leaves it as it was.
LEMMA CarriesOn ==
  ASSUME NEW written \in Seq(Words), NEW text \in Seq(Sse!Texts), Sse!Carries(written, text),
         NEW w \in Words
  PROVE  /\ w \notin Sse!Texts => Sse!Carries(Append(written, w), text)
         /\ w \in Sse!Texts => Sse!Carries(Append(written, w), Append(text, w))
<1>1. PICK n, m : n = Len(written) /\ m = Len(text)
  OBVIOUS
<1>2. PICK v, t : v = Append(written, w) /\ t = Append(text, w)
  OBVIOUS
<1>3. n \in Nat /\ m \in Nat /\ DOMAIN written = 1..n /\ DOMAIN text = 1..m
  BY <1>1, LenProperties
<1>4. DOMAIN v = 1..(n + 1) /\ v[n + 1] = w /\ \A k \in 1..n : v[k] = written[k]
  BY <1>1, <1>2, AppendProperties, LenProperties
<1>5. PICK place \in [1..m -> 1..n] :
        /\ \A i, j \in 1..m : i < j => place[i] < place[j]
        /\ \A i \in 1..m : written[place[i]] = text[i]
        /\ \A k \in 1..n : written[k] \in Sse!Texts => \E i \in 1..m : place[i] = k
  <2>1. PICK D, E : D = DOMAIN text /\ E = DOMAIN written
    OBVIOUS
  <2>2. PICK place \in [D -> E] :
          /\ \A i, j \in D : i < j => place[i] < place[j]
          /\ \A i \in D : written[place[i]] = text[i]
          /\ \A k \in E : written[k] \in Sse!Texts => \E i \in D : place[i] = k
    BY <2>1 DEF Sse!Carries
  <2>3. D = 1..m /\ E = 1..n
    BY <1>3, <2>1
  <2> QED
    BY <2>2, <2>3
<1>6. ASSUME w \notin Sse!Texts PROVE Sse!Carries(v, text)
  <2>1. place \in [1..m -> 1..(n + 1)]
    BY <1>3, <1>5
  <2>2. \A i \in 1..m : v[place[i]] = text[i]
    BY <1>4, <1>5
  <2>3. ASSUME NEW k \in 1..(n + 1), v[k] \in Sse!Texts PROVE \E i \in 1..m : place[i] = k
    <3>1. k \in 1..n /\ written[k] \in Sse!Texts
      BY <1>3, <1>4, <1>6, <2>3
    <3> QED
      BY <1>5, <3>1
  <2>4. PICK D, E : D = DOMAIN text /\ E = DOMAIN v
    OBVIOUS
  <2>5. D = 1..m /\ E = 1..(n + 1)
    BY <1>3, <1>4, <2>4
  <2>6. /\ place \in [D -> E]
        /\ \A i, j \in D : i < j => place[i] < place[j]
        /\ \A i \in D : v[place[i]] = text[i]
        /\ \A k \in E : v[k] \in Sse!Texts => \E i \in D : place[i] = k
    BY <1>5, <2>1, <2>2, <2>3, <2>5
  <2> QED
    BY <2>4, <2>6 DEF Sse!Carries
<1>7. ASSUME w \in Sse!Texts PROVE Sse!Carries(v, t)
  <2>1. DOMAIN t = 1..(m + 1) /\ t[m + 1] = w /\ \A k \in 1..m : t[k] = text[k]
    BY <1>1, <1>2, <1>7, AppendProperties, LenProperties
  <2>2. PICK at : at = [i \in 1..(m + 1) |-> IF i = m + 1 THEN n + 1 ELSE place[i]]
    OBVIOUS
  <2>3. \A i \in 1..(m + 1) : at[i] = (IF i = m + 1 THEN n + 1 ELSE place[i]) /\ (i # m + 1 => i \in 1..m)
    BY <1>3, <2>2
  <2>4. at \in [1..(m + 1) -> 1..(n + 1)]
    BY <1>3, <1>5, <2>2, <2>3
  <2>5. ASSUME NEW i \in 1..(m + 1), NEW j \in 1..(m + 1), i < j PROVE at[i] < at[j]
    <3>1. i \in 1..m /\ at[i] = place[i] /\ place[i] \in 1..n
      BY <1>3, <1>5, <2>3, <2>5
    <3>2. CASE j = m + 1
      BY <1>3, <2>3, <3>1, <3>2
    <3>3. CASE j # m + 1
      BY <1>5, <2>3, <2>5, <3>1, <3>3
    <3> QED
      BY <3>2, <3>3
  <2>6. ASSUME NEW i \in 1..(m + 1) PROVE v[at[i]] = t[i]
    BY <1>4, <1>5, <2>1, <2>3
  <2>7. ASSUME NEW k \in 1..(n + 1), v[k] \in Sse!Texts PROVE \E i \in 1..(m + 1) : at[i] = k
    <3>1. CASE k = n + 1
      BY <1>3, <2>3, <3>1
    <3>2. CASE k # n + 1
      <4>1. k \in 1..n /\ written[k] \in Sse!Texts
        BY <1>3, <1>4, <2>7, <3>2
      <4>2. PICK i \in 1..m : place[i] = k
        BY <1>5, <4>1
      <4>3. i \in 1..(m + 1) /\ i # m + 1
        BY <1>3
      <4> QED
        BY <2>3, <4>2, <4>3
    <3> QED
      BY <3>1, <3>2
  <2>8. PICK D, E : D = DOMAIN t /\ E = DOMAIN v
    OBVIOUS
  <2>9. D = 1..(m + 1) /\ E = 1..(n + 1)
    BY <1>4, <2>1, <2>8
  <2>10. /\ at \in [D -> E]
         /\ \A i, j \in D : i < j => at[i] < at[j]
         /\ \A i \in D : v[at[i]] = t[i]
         /\ \A k \in E : v[k] \in Sse!Texts => \E i \in D : at[i] = k
    BY <2>4, <2>5, <2>6, <2>7, <2>9
  <2> QED
    BY <2>8, <2>10 DEF Sse!Carries
<1> QED
  BY <1>2, <1>6, <1>7

\* A request begins with nothing read and nothing written.
LEMMA StreamStarts == ASSUME Sse!Init PROVE StreamSound
<1>1. /\ phase = "head" /\ lines = <<>> /\ buffer = None /\ parser = Sse!Start /\ out = <<>>
      /\ unary = parser
  BY DEF Sse!Init
<1>2. /\ parser = [event |-> "message", done |-> FALSE, finished |-> FALSE, error |-> None,
                   calls |-> <<>>, byKey |-> <<>>, next |-> 0, text |-> <<>>]
  BY <1>1 DEF Sse!Start
<1>3. parser = [f \in Fields |-> parser[f]] /\ parser.error = None /\ parser.text = <<>>
  BY <1>2 DEF Fields
<1>4. <<>> \in Seq(Sse!Texts) /\ <<>> \in Seq(Sse!Read) /\ <<>> \in Seq(Words) /\ DOMAIN <<>> = {}
  OBVIOUS
<1>5. StreamTyped
  BY <1>1, <1>3, <1>4 DEF StreamTyped, IsParser
<1>6. Sse!Carries(out, parser.text)
  <2>1. PICK D, E : D = DOMAIN parser.text /\ E = DOMAIN out
    OBVIOUS
  <2>2. D = {} /\ E = {}
    BY <1>1, <1>3, <1>4, <2>1
  <2>3. PICK at : at = [i \in {} |-> 0]
    OBVIOUS
  <2>4. /\ at \in [D -> E]
        /\ \A i, j \in D : i < j => at[i] < at[j]
        /\ \A i \in D : out[at[i]] = parser.text[i]
        /\ \A k \in E : out[k] \in Sse!Texts => \E i \in D : at[i] = k
    BY <2>2, <2>3
  <2> QED
    BY <2>1, <2>4 DEF Sse!Carries
<1>7. ErrorKept /\ Sse!TellingErrorWins
  BY <1>1, <1>4 DEF ErrorKept, Sse!TellingErrorWins
<1>8. Unended /\ Sse!NoSilentTruncation
  BY <1>1, <1>4, <1>6 DEF Unended, Sse!NoSilentTruncation
<1>9. Agree(parser, unary) /\ Answered
  BY <1>1, <1>3 DEF Agree, Answered
<1> QED
  BY <1>5, <1>7, <1>8, <1>9 DEF StreamSound

\* What a line makes the pipe write carries what it makes the parser read.
LEMMA WritingCarries ==
  ASSUME StreamTyped, Sse!Carries(out, parser.text), \A i \in DOMAIN out : out[i] \notin Endings,
         NEW line \in Sse!Read, Sse!Take(line)
  PROVE  /\ out' \in Seq(Words)
         /\ \A i \in DOMAIN out' : out'[i] \notin Endings
         /\ Sse!Carries(out', parser'.text)
<1>1. PICK p, q : p = parser /\ q = parser'
  OBVIOUS
<1>2. /\ IsParser(p) /\ q = Sse!StreamLine(p, line) /\ out \in Seq(Words) /\ p.text \in Seq(Sse!Texts)
      /\ out' = out \o Sse!Written(p, line) /\ Sse!Carries(out, p.text)
  BY <1>1 DEF StreamTyped, Sse!Take, IsParser
<1>3. q.text = IF p.event # "error" /\ line.is = "text" THEN Append(p.text, line.text) ELSE p.text
  BY <1>2, LineParsed
<1>4. ASSUME NEW written \in Seq(Words), NEW w \in Words, \A i \in DOMAIN written : written[i] \notin Endings,
             w \notin Endings
      PROVE  /\ Append(written, w) \in Seq(Words)
             /\ \A i \in DOMAIN Append(written, w) : Append(written, w)[i] \notin Endings
  <2>1. PICK v : v = Append(written, w)
    OBVIOUS
  <2>2. /\ v \in Seq(Words) /\ Len(v) = Len(written) + 1 /\ v[Len(written) + 1] = w
        /\ \A i \in 1..Len(written) : v[i] = written[i]
    BY <2>1, AppendProperties
  <2>3. Len(written) \in Nat /\ DOMAIN v = 1..(Len(written) + 1) /\ DOMAIN written = 1..Len(written)
    BY <2>2, LenProperties
  <2>4. \A i \in DOMAIN v : v[i] \notin Endings
    BY <1>4, <2>2, <2>3
  <2> QED
    BY <2>1, <2>2, <2>4
<1>5. "role" \in Words /\ "role" \notin Endings /\ "role" \notin Sse!Texts
  BY LinesRead DEF Words, Sse!Frames, Endings
<1>6. CASE ~(p.event # "error" /\ line.is \in {"text", "call"})
  <2>1. Sse!Written(p, line) = <<>>
    BY <1>6 DEF Sse!Written
  <2>2. out' = out
    BY <1>2, <2>1, ConcatEmptySeq
  <2>3. q.text = p.text
    BY <1>3, <1>6
  <2> QED
    BY <1>1, <1>2, <2>2, <2>3
<1>7. CASE p.event # "error" /\ line.is \in {"text", "call"}
  <2>1. PICK w : w = IF line.is = "text" THEN line.text ELSE "call"
    OBVIOUS
  <2>2. /\ w \in Words /\ w \notin Endings
        /\ (line.is = "text" => w \in Sse!Texts) /\ (line.is # "text" => w \notin Sse!Texts)
    <3>1. CASE line.is = "text"
      <4>1. w \in Sse!Texts
        BY <2>1, <3>1, LinesRead
      <4>2. Endings \subseteq Sse!Frames
        BY DEF Endings, Sse!Frames
      <4> QED
        BY <3>1, <4>1, <4>2, LinesRead DEF Words
    <3>2. CASE line.is # "text"
      <4>1. w = "call" /\ "call" \in Sse!Frames /\ "call" \notin Endings
        BY <2>1, <3>2 DEF Endings, Sse!Frames
      <4> QED
        BY <3>2, <4>1, LinesRead DEF Words
    <3> QED
      BY <3>1, <3>2
  <2>3. PICK start : start = IF out = <<>> THEN Append(out, "role") ELSE out
    OBVIOUS
  <2>4. /\ start \in Seq(Words) /\ \A i \in DOMAIN start : start[i] \notin Endings
    BY <1>2, <1>4, <1>5, <2>3
  <2>5. Sse!Carries(start, p.text)
    BY <1>2, <1>5, <2>3, CarriesOn
  <2>6. out' = Append(start, w)
    <3>1. Sse!Written(p, line) = (IF out = <<>> THEN <<"role">> ELSE <<>>) \o <<w>>
      BY <1>7, <2>1 DEF Sse!Written
    <3>2. <<w>> \in Seq(Words) /\ <<"role">> \in Seq(Words) /\ <<>> \in Seq(Words)
      BY <1>5, <2>2
    <3>3. CASE out = <<>>
      <4>1. out' = <<"role">> \o <<w>>
        BY <1>2, <3>1, <3>2, <3>3, ConcatProperties, ConcatEmptySeq
      <4>2. start = <<"role">>
        BY <2>3, <3>3
      <4> QED
        BY <2>2, <3>2, <4>1, <4>2, AppendIsConcat
    <3>4. CASE out # <<>>
      <4>1. <<>> \o <<w>> = <<w>>
        BY <3>2, ConcatEmptySeq
      <4>2. out' = out \o <<w>> /\ start = out
        BY <1>2, <2>3, <3>1, <3>4, <4>1
      <4> QED
        BY <1>2, <2>2, <4>2, AppendIsConcat
    <3> QED
      BY <3>3, <3>4
  <2>7. out' \in Seq(Words) /\ \A i \in DOMAIN out' : out'[i] \notin Endings
    BY <1>4, <2>2, <2>4, <2>6
  <2>8. Sse!Carries(out', q.text)
    <3>1. line.is = "text" => q.text = Append(p.text, w)
      BY <1>3, <1>7, <2>1
    <3>2. line.is # "text" => q.text = p.text
      BY <1>3
    <3> QED
      BY <1>2, <2>2, <2>4, <2>5, <2>6, <3>1, <3>2, CarriesOn
  <2> QED
    BY <1>1, <2>7, <2>8
<1> QED
  BY <1>6, <1>7

\* A line read: no error is lost to a weaker or an earlier one, and none is forgotten.
LEMMA LineSound ==
  ASSUME StreamSound, phase = "body", NEW line \in Sse!Read, Sse!Take(line),
         phase' = "body", buffer' = None
  PROVE  StreamSound'
<1>1. PICK p, q, n : p = parser /\ q = parser' /\ n = Len(lines)
  OBVIOUS
<1>2. /\ IsParser(p) /\ q = Sse!StreamLine(p, line)
      /\ lines \in Seq(Sse!Read) /\ lines' = Append(lines, line)
  BY <1>1 DEF StreamSound, StreamTyped, Sse!Take
<1>3. /\ IsParser(q)
      /\ \/ q.error = p.error /\ line.is \notin {"error", "refused"}
         \/ q.error = Sse!Remember(p.error, Sse!ErrorOf(line))
  BY <1>2, LineParsed
<1>4. /\ out' \in Seq(Words) /\ \A i \in DOMAIN out' : out'[i] \notin Endings
      /\ Sse!Carries(out', parser'.text)
  BY WritingCarries DEF StreamSound, Unended
<1>5. /\ n \in Nat /\ DOMAIN lines = 1..n /\ DOMAIN lines' = 1..(n + 1) /\ lines' \in Seq(Sse!Read)
      /\ Len(lines') = n + 1 /\ lines'[n + 1] = line /\ \A i \in 1..n : lines'[i] = lines[i]
  BY <1>1, <1>2, AppendProperties, LenProperties
<1>6. StreamTyped' /\ Agree(parser', unary')
  <2>1. PICK u, v : u = unary /\ v = unary'
    OBVIOUS
  <2>2. u = [f \in Fields |-> u[f]] /\ v = Sse!UnaryLine(u, line) /\ Agree(p, u)
    BY <1>1, <2>1 DEF StreamSound, StreamTyped, Sse!Take
  <2>3. v = [f \in Fields |-> v[f]] /\ Agree(q, v)
    BY <1>2, <2>2, UnaryParsed, LinesAgree
  <2> QED
    BY <1>1, <1>3, <1>4, <1>5, <2>1, <2>3 DEF StreamTyped
<1>7. PICK e : e = Sse!ErrorOf(line)
  OBVIOUS
<1>8. /\ e \in Sse!ErrorType /\ e.line = line /\ (line.is = "error" => e.score = line.score)
      /\ None \notin Sse!ErrorType
  BY <1>7, ErrorsAreErrors, LinesRead
<1>9. /\ p.error \in Sse!ErrorType \cup {None}
      /\ \/ q.error = p.error /\ line.is \notin {"error", "refused"}
         \/ p.error # None /\ q.error = p.error /\ e.score < p.error.score
         \/ q.error = e /\ (p.error # None => e.score >= p.error.score)
  BY <1>2, <1>3, <1>7, <1>8 DEF IsParser, Sse!Remember, Sse!ErrorType
<1>10. ErrorKept'
  <2> SUFFICES ASSUME NEW i \in 1..(n + 1), lines'[i].is \in {"error", "refused"} PROVE q.error # None
    BY <1>1, <1>5 DEF ErrorKept
  <2>1. CASE i = n + 1
    BY <1>5, <1>8, <1>9, <2>1
  <2>2. CASE i # n + 1
    <3>1. i \in 1..n /\ lines[i].is \in {"error", "refused"}
      BY <1>5, <2>2
    <3>2. p.error # None
      BY <1>1, <1>5, <3>1 DEF StreamSound, ErrorKept
    <3> QED
      BY <1>8, <1>9, <3>2
  <2> QED
    BY <2>1, <2>2
<1>11. Sse!TellingErrorWins'
  <2>1. ASSUME NEW i \in 1..(n + 1), lines'[i].is = "error"
        PROVE  /\ q.error # None /\ q.error.score >= lines'[i].score
               /\ q.error.score = lines'[i].score =>
                     q.error.line = lines'[i] \/ \E j \in i + 1 .. n + 1 : q.error.line = lines'[j]
    <3>0. q.error # None
      BY <1>1, <1>5, <1>10, <2>1 DEF ErrorKept
    <3>1. CASE i = n + 1
      <4>1. lines'[i] = line /\ line.is = "error" /\ line.score = e.score /\ e.score \in Int
        BY <1>5, <1>8, <2>1, <3>1 DEF Sse!ErrorType
      <4>2. CASE q.error = e
        BY <1>8, <3>0, <4>1, <4>2
      <4>3. CASE p.error # None /\ q.error = p.error /\ e.score < p.error.score
        <5>1. p.error.score \in Int
          BY <1>8, <1>9, <4>3 DEF Sse!ErrorType
        <5> QED
          BY <3>0, <4>1, <4>3, <5>1
      <4> QED
        BY <1>9, <4>1, <4>2, <4>3
    <3>2. CASE i # n + 1
      <4>1. i \in 1..n /\ lines'[i] = lines[i] /\ lines[i].is = "error" /\ lines[i].score \in Int
        BY <1>2, <1>5, <2>1, <3>2, LinesRead
      <4>2. /\ p.error # None /\ p.error.score >= lines[i].score
            /\ p.error.score = lines[i].score =>
                  p.error.line = lines[i] \/ \E j \in i + 1 .. n : p.error.line = lines[j]
        BY <1>1, <1>5, <4>1 DEF StreamSound, Sse!TellingErrorWins
      <4>3. p.error.score \in Int /\ e.score \in Int
        BY <1>8, <1>9, <4>2 DEF Sse!ErrorType
      <4>4. CASE q.error = p.error
        <5>1. ASSUME NEW j \in i + 1 .. n PROVE j \in i + 1 .. n + 1 /\ lines'[j] = lines[j]
          BY <1>5, <4>1
        <5> QED
          BY <3>0, <4>1, <4>2, <4>4, <5>1
      <4>5. CASE q.error = e /\ e.score >= p.error.score
        <5>1. n + 1 \in i + 1 .. n + 1 /\ e.line = lines'[n + 1]
          BY <1>5, <1>8, <4>1
        <5> QED
          BY <3>0, <4>1, <4>2, <4>3, <4>5, <5>1
      <4> QED
        BY <1>9, <4>2, <4>4, <4>5
    <3> QED
      BY <3>1, <3>2
  <2> QED
    BY <1>1, <1>5, <2>1 DEF Sse!TellingErrorWins
<1>12. Unended' /\ Sse!NoSilentTruncation' /\ Answered'
  BY <1>4 DEF Unended, Sse!NoSilentTruncation, Answered
<1> QED
  BY <1>6, <1>10, <1>11, <1>12 DEF StreamSound

\* A request that fails leaves what was written, and perhaps an error behind it.
LEMMA FailureSound ==
  ASSUME StreamSound, NEW w \in Seq(Words), Sse!Over("failed", w), UNCHANGED <<lines, buffer, parser, unary>>
  PROVE  StreamSound'
<1>1. phase' = "failed" /\ out' = out \o w
  BY DEF Sse!Over
<1>2. out' \in Seq(Words)
  BY <1>1, ConcatProperties DEF StreamSound, StreamTyped
<1>3. StreamTyped'
  BY <1>1, <1>2 DEF StreamSound, StreamTyped
<1>4. ErrorKept' /\ Sse!TellingErrorWins'
  BY DEF StreamSound, ErrorKept, Sse!TellingErrorWins
<1> QED
  BY <1>1, <1>3, <1>4 DEF StreamSound, Unended, Sse!NoSilentTruncation, Answered

\* A request that succeeds writes its ending behind all the text.
LEMMA SuccessSound ==
  ASSUME StreamSound, phase = "body", Sse!Over("ok", <<"finish", "usage", "[DONE]">>),
         parser.error = None, parser.done \/ parser.finished,
         parser.text # <<>> \/ Sse!Named(parser.calls) # {}, UNCHANGED <<lines, buffer, parser, unary>>
  PROVE  StreamSound'
<1>1. phase' = "ok" /\ out' = out \o <<"finish", "usage", "[DONE]">>
  BY DEF Sse!Over
<1>2. out \in Seq(Words) /\ parser.text \in Seq(Sse!Texts) /\ Sse!Carries(out, parser.text)
      /\ \A i \in DOMAIN out : out[i] \notin Endings
  BY DEF StreamSound, StreamTyped, IsParser, Unended
<1>3. \A w \in {"finish", "usage", "[DONE]"} : w \in Words /\ w \notin Sse!Texts
  BY LinesRead DEF Words, Sse!Frames
<1>4. PICK a, b, c : a = Append(out, "finish") /\ b = Append(a, "usage") /\ c = Append(b, "[DONE]")
  OBVIOUS
<1>5. a \in Seq(Words) /\ Sse!Carries(a, parser.text)
  BY <1>2, <1>3, <1>4, CarriesOn, AppendProperties
<1>6. b \in Seq(Words) /\ Sse!Carries(b, parser.text)
  BY <1>2, <1>3, <1>4, <1>5, CarriesOn, AppendProperties
<1>7. c \in Seq(Words) /\ Sse!Carries(c, parser.text)
  BY <1>2, <1>3, <1>4, <1>6, CarriesOn, AppendProperties
<1>8. PICK n : n = Len(out)
  OBVIOUS
<1>9. n \in Nat /\ DOMAIN out = 1..n
  BY <1>2, <1>8, LenProperties
<1>10. /\ Len(c) = n + 3 /\ DOMAIN c = 1..(n + 3)
       /\ \A i \in 1..n : c[i] = out[i]
       /\ c[n + 1] = "finish" /\ c[n + 2] = "usage" /\ c[n + 3] = "[DONE]"
  <2>1. Len(a) = n + 1 /\ a[n + 1] = "finish" /\ \A i \in 1..n : a[i] = out[i]
    BY <1>2, <1>3, <1>4, <1>8, AppendProperties
  <2>2. Len(b) = n + 2 /\ b[n + 2] = "usage" /\ \A i \in 1..(n + 1) : b[i] = a[i]
    BY <1>3, <1>4, <1>5, <1>9, <2>1, AppendProperties
  <2>3. Len(c) = n + 3 /\ c[n + 3] = "[DONE]" /\ \A i \in 1..(n + 2) : c[i] = b[i]
    BY <1>3, <1>4, <1>6, <1>9, <2>2, AppendProperties
  <2> QED
    BY <1>7, <1>9, <2>1, <2>2, <2>3, LenProperties
<1>11. out' = c
  <2>1. PICK w : w = <<"finish", "usage", "[DONE]">>
    OBVIOUS
  <2>2. w \in Seq(Words) /\ Len(w) = 3 /\ w[1] = "finish" /\ w[2] = "usage" /\ w[3] = "[DONE]"
    BY <1>3, <2>1
  <2>3. /\ out' \in Seq(Words) /\ Len(out') = n + 3
        /\ \A i \in 1..(n + 3) : out'[i] = IF i <= n THEN out[i] ELSE w[i - n]
    BY <1>1, <1>2, <1>8, <2>1, <2>2, ConcatProperties
  <2>4. ASSUME NEW i \in 1..(n + 3) PROVE out'[i] = c[i]
    <3>1. i \in 1..n \/ i = n + 1 \/ i = n + 2 \/ i = n + 3
      BY <1>9
    <3>2. (n + 1) - n = 1 /\ (n + 2) - n = 2 /\ (n + 3) - n = 3
      BY <1>9
    <3> QED
      BY <1>9, <1>10, <2>2, <2>3, <3>1, <3>2
  <2> QED
    BY <1>7, <1>10, <2>3, <2>4, SeqEqual
<1>12. StreamTyped'
  BY <1>1, <1>7, <1>11 DEF StreamSound, StreamTyped
<1>13. ErrorKept' /\ Sse!TellingErrorWins'
  BY DEF StreamSound, ErrorKept, Sse!TellingErrorWins
<1>14. \A i \in DOMAIN out' : out'[i] \in Endings => i > Len(out') - 3
  BY <1>2, <1>9, <1>10, <1>11
<1>15. \A i \in DOMAIN lines' : lines'[i].is \notin {"error", "refused"}
  BY DEF StreamSound, ErrorKept
<1>16. Sse!NoSilentTruncation'
  BY <1>7, <1>11, <1>14, <1>15 DEF Sse!NoSilentTruncation, Endings
<1>17. Agree(parser', unary') /\ Answered'
  BY DEF StreamSound, Answered
<1> QED
  BY <1>1, <1>12, <1>13, <1>16, <1>17 DEF StreamSound, Unended

\* Every step of a stream keeps the invariant.
LEMMA StreamStep == ASSUME StreamSound, Sse!Next PROVE StreamSound'
<1>1. <<>> \in Seq(Words) /\ <<"error">> \in Seq(Words)
  BY DEF Words, Sse!Frames
<1>2. CASE Sse!Head_
  BY <1>2 DEF Sse!Head_, StreamSound, StreamTyped, ErrorKept, Sse!TellingErrorWins, Unended,
              Sse!NoSilentTruncation, Answered
<1>3. CASE Sse!ReadLine
  <2>1. PICK line \in Lines : Sse!Take(line)
    BY <1>3 DEF Sse!ReadLine
  <2>2. line \in Sse!Read /\ phase = "body" /\ phase' = "body" /\ buffer' = None
    BY <1>3 DEF Sse!ReadLine, Sse!Read
  <2> QED
    BY <2>1, <2>2, LineSound
<1>4. CASE Sse!ReadPart
  <2>1. UNCHANGED <<phase, lines, parser, unary, out>> /\ buffer' \in Lines
    BY <1>4 DEF Sse!ReadPart
  <2> QED
    BY <2>1 DEF StreamSound, StreamTyped, ErrorKept, Sse!TellingErrorWins, Unended, Sse!NoSilentTruncation,
               Answered
<1>5. CASE Sse!LastLine
  <2>1. PICK line \in {buffer, [is |-> "junk"]} : Sse!Take(line)
    BY <1>5 DEF Sse!LastLine
  <2>2. phase = "body" /\ phase' = "body" /\ buffer' = None /\ buffer # None
    BY <1>5 DEF Sse!LastLine
  <2>3. line \in Sse!Read
    BY <2>1, <2>2 DEF StreamSound, StreamTyped, Sse!Read
  <2> QED
    BY <2>1, <2>2, <2>3, LineSound
<1>6. CASE Sse!EndOfBody
  <2>1. phase = "body" /\ UNCHANGED <<lines, buffer, parser, unary>>
    BY <1>6 DEF Sse!EndOfBody
  <2>2. CASE Sse!Over("failed", <<"error">>)
    BY <1>1, <2>1, <2>2, FailureSound
  <2>3. CASE /\ Sse!Over("ok", <<"finish", "usage", "[DONE]">>)
             /\ parser.error = None /\ (parser.done \/ parser.finished)
             /\ parser.text # <<>> \/ Sse!Named(parser.calls) # {}
    BY <2>1, <2>3, SuccessSound
  <2> QED
    BY <1>6, <2>2, <2>3 DEF Sse!EndOfBody
<1>7. CASE Sse!Breaks \/ Sse!Deadline
  <2>1. UNCHANGED <<lines, buffer, parser, unary>>
    BY <1>7 DEF Sse!Breaks, Sse!Deadline
  <2>2. PICK w : w = IF phase = "body" THEN <<"error">> ELSE <<>>
    OBVIOUS
  <2>3. w \in Seq(Words) /\ Sse!Over("failed", w)
    BY <1>1, <1>7, <2>2 DEF Sse!Breaks, Sse!Deadline
  <2> QED
    BY <2>1, <2>3, FailureSound
<1>8. CASE Sse!Tick
  BY <1>8 DEF Sse!Tick, StreamSound, StreamTyped, ErrorKept, Sse!TellingErrorWins, Unended,
              Sse!NoSilentTruncation, Answered
<1> QED
  BY <1>2, <1>3, <1>4, <1>5, <1>6, <1>7, <1>8 DEF Sse!Next

-----------------------------------------------------------------------------
(* The tool history.  What the model computes message by message is a      *)
(* recursive function on a finite interval; that it is defined, and what   *)
(* it returns, goes by induction over sets: a set of naturals that has 0   *)
(* and n + 1 with every n has them all.                                    *)

\* Induction over the naturals for a set H of them: were n not in H, adding one would
\* map those of 0 .. n that are in H one to one to those of them above 0.
LEMMA Induction ==
  ASSUME NEW H, 0 \in H, \A n \in Nat : n \in H => n + 1 \in H
  PROVE  Nat \subseteq H
<1>1. SUFFICES ASSUME NEW n \in Nat, n \notin H PROVE FALSE
  OBVIOUS
<1> DEFINE A == {k \in 0 .. n : k \in H}
           f == [k \in A |-> k + 1]
<1>2. A \in SUBSET Nat /\ \A s \in A : s <= n
  OBVIOUS
<1>3. IsFiniteSet(A)
  <2> HIDE DEF A
  <2> QED BY <1>2, FS_BoundedSetOfNaturals
<1>4. 0 \in A
  OBVIOUS
<1>5. \A k \in A : k + 1 \in A \ {0}
  BY <1>1
<1>6. f \in Injection(A, A \ {0})
  BY <1>5, <1>2 DEF Injection, IsInjective
<1> HIDE DEF A, f
<1>7. IsFiniteSet(A \ {0}) /\ Cardinality(A \ {0}) = Cardinality(A) - 1
  BY <1>3, <1>4, FS_RemoveElement
<1>8. Cardinality(A) <= Cardinality(A \ {0})
  BY <1>6, <1>7, FS_Injection
<1>9. Cardinality(A) \in Nat
  BY <1>3, FS_CardinalityType
<1> QED BY <1>7, <1>8, <1>9

\* A set of naturals with a member has a least one.
LEMMA LeastOf ==
  ASSUME NEW T, T \subseteq Nat, T # {}
  PROVE  \E m \in T : \A k \in T : m <= k
<1>1. SUFFICES ASSUME \A m \in T : \E k \in T : k < m PROVE FALSE
  OBVIOUS
<1> DEFINE H == {n \in Nat : \A k \in T : n < k}
<1>2. 0 \in H
  BY <1>1
<1>3. \A n \in Nat : n \in H => n + 1 \in H
  <2>1. SUFFICES ASSUME NEW n \in Nat, n \in H, NEW k \in T, k = n + 1 PROVE FALSE
    OBVIOUS
  <2>2. PICK j \in T : j < k
    BY <1>1
  <2> QED BY <2>1, <2>2
<1> HIDE DEF H
<1>4. Nat \subseteq H
  BY <1>2, <1>3, Induction
<1>5. PICK m \in T : TRUE
  OBVIOUS
<1> QED BY <1>4, <1>5 DEF H

\* Induction over the sequences of S for a set H of them.
LEMMA SequencesIn ==
  ASSUME NEW S, NEW H, << >> \in H,
         \A s \in Seq(S), x \in S : s \in H => Append(s, x) \in H
  PROVE  Seq(S) \subseteq H
<1> DEFINE N == {n \in Nat : \A s \in Seq(S) : Len(s) = n => s \in H}
<1>1. 0 \in N
  BY EmptySeq
<1>2. \A n \in Nat : n \in N => n + 1 \in N
  <2>1. SUFFICES ASSUME NEW n \in Nat, n \in N, NEW s \in Seq(S), Len(s) = n + 1
                 PROVE  s \in H
    OBVIOUS
  <2>2. s # << >>
    BY <2>1, EmptySeq
  <2>3. PICK t \in Seq(S), x \in S : s = Append(t, x)
    BY <2>2, SequenceEmptyOrAppend
  <2>4. Len(t) = n
    BY <2>1, <2>3, AppendProperties, LenProperties
  <2> QED BY <2>1, <2>3, <2>4
<1> HIDE DEF N
<1>3. Nat \subseteq N
  BY <1>1, <1>2, Induction
<1> QED BY <1>3, LenProperties DEF N

\* p[i] is what Pick has of the first i members of s.
Picking(p, n, s, I) ==
  /\ p = [i \in 0 .. n |-> p[i]]
  /\ p[0] = << >>
  /\ \A i \in 1 .. n : p[i] = IF i \in I THEN Append(p[i - 1], s[i]) ELSE p[i - 1]

\* The equation Pick defines its function by, point by point.
LEMMA PickingIs ==
  ASSUME NEW n \in Nat, NEW s, NEW I, NEW p
  PROVE  Picking(p, n, s, I) <=>
         p = [i \in 0 .. n |-> IF i = 0 THEN << >>
                               ELSE IF i \in I THEN Append(p[i - 1], s[i]) ELSE p[i - 1]]
<1> DEFINE g == [i \in 0 .. n |-> IF i = 0 THEN << >>
                                  ELSE IF i \in I THEN Append(p[i - 1], s[i]) ELSE p[i - 1]]
<1>1. /\ g[0] = << >>
      /\ g = [i \in 0 .. n |-> g[i]]
      /\ \A i \in 1 .. n : g[i] = IF i \in I THEN Append(p[i - 1], s[i]) ELSE p[i - 1]
  OBVIOUS
<1>2. ASSUME p = g PROVE Picking(p, n, s, I)
  <2> HIDE DEF g
  <2> QED BY <1>1, <1>2 DEF Picking
<1>3. ASSUME Picking(p, n, s, I) PROVE p = g
  <2>1. \A i \in 0 .. n : i = 0 \/ i \in 1 .. n
    OBVIOUS
  <2> HIDE DEF g
  <2>2. \A i \in 0 .. n : p[i] = g[i]
    BY <2>1, <1>1, <1>3 DEF Picking
  <2> QED BY <2>2, <1>1, <1>3 DEF Picking
<1> QED BY <1>2, <1>3

\* There is exactly one such function.
LEMMA PickingExists ==
  ASSUME NEW n \in Nat, NEW s, NEW I
  PROVE  \E p : Picking(p, n, s, I)
<1> DEFINE N == {k \in Nat : \E p : Picking(p, k, s, I)}
<1>1. 0 \in N
  <2> DEFINE p == [i \in 0 .. 0 |-> << >>]
  <2>1. p[0] = << >> /\ p = [i \in 0 .. 0 |-> p[i]]
    OBVIOUS
  <2> HIDE DEF p
  <2>2. Picking(p, 0, s, I)
    BY <2>1 DEF Picking
  <2> QED BY <2>2
<1>2. \A k \in Nat : k \in N => k + 1 \in N
  <2>1. SUFFICES ASSUME NEW k \in Nat, NEW p, Picking(p, k, s, I)
                 PROVE  \E q : Picking(q, k + 1, s, I)
    OBVIOUS
  <2> DEFINE last == IF k + 1 \in I THEN Append(p[k], s[k + 1]) ELSE p[k]
  <2> HIDE DEF last
  <2> DEFINE q == [i \in 0 .. k + 1 |-> IF i = k + 1 THEN last ELSE p[i]]
  <2>2. (\A i \in 0 .. k : q[i] = p[i]) /\ q[k + 1] = last /\ q = [i \in 0 .. k + 1 |-> q[i]]
    OBVIOUS
  <2> HIDE DEF q
  <2>3. \A i \in 1 .. k + 1 : i \in 1 .. k \/ i = k + 1
    OBVIOUS
  <2>4. ASSUME NEW i \in 1 .. k PROVE q[i] = IF i \in I THEN Append(q[i - 1], s[i]) ELSE q[i - 1]
    <3>1. i \in 0 .. k /\ i - 1 \in 0 .. k
      OBVIOUS
    <3>2. q[i] = p[i] /\ q[i - 1] = p[i - 1]
      BY <3>1, <2>2
    <3>3. p[i] = IF i \in I THEN Append(p[i - 1], s[i]) ELSE p[i - 1]
      BY <2>1 DEF Picking
    <3> QED BY <3>2, <3>3
  <2>5. q[k + 1] = IF k + 1 \in I THEN Append(q[k], s[k + 1]) ELSE q[k]
    BY <2>2 DEF last
  <2>6. (k + 1) - 1 = k
    OBVIOUS
  <2>7. \A i \in 1 .. k + 1 : q[i] = IF i \in I THEN Append(q[i - 1], s[i]) ELSE q[i - 1]
    BY <2>3, <2>4, <2>5, <2>6
  <2>8. q[0] = << >>
    BY <2>1, <2>2 DEF Picking
  <2>9. Picking(q, k + 1, s, I)
    BY <2>2, <2>7, <2>8 DEF Picking
  <2> QED BY <2>9
<1> HIDE DEF N
<1>3. Nat \subseteq N
  BY <1>1, <1>2, Induction
<1> QED BY <1>3 DEF N

\* There is only one.
LEMMA PickingUnique ==
  ASSUME NEW n \in Nat, NEW s, NEW I, NEW p, NEW q, Picking(p, n, s, I), Picking(q, n, s, I)
  PROVE  p = q
<1> DEFINE M == {k \in Nat : k <= n => p[k] = q[k]}
<1>1. 0 \in M
  BY DEF Picking
<1>2. \A k \in Nat : k \in M => k + 1 \in M
  <2>1. SUFFICES ASSUME NEW k \in Nat, k + 1 <= n, p[k] = q[k] PROVE p[k + 1] = q[k + 1]
    OBVIOUS
  <2>2. k + 1 \in 1 .. n /\ (k + 1) - 1 = k
    BY <2>1
  <2>3. p[k + 1] = IF k + 1 \in I THEN Append(p[k], s[k + 1]) ELSE p[k]
    BY <2>2 DEF Picking
  <2>4. q[k + 1] = IF k + 1 \in I THEN Append(q[k], s[k + 1]) ELSE q[k]
    BY <2>2 DEF Picking
  <2> QED BY <2>1, <2>3, <2>4
<1> HIDE DEF M
<1>3. Nat \subseteq M
  BY <1>1, <1>2, Induction
<1>4. \A k \in 0 .. n : p[k] = q[k]
  BY <1>3 DEF M
<1> QED BY <1>4 DEF Picking

\* Pick ends where any such function does.
LEMMA PickIs ==
  ASSUME NEW s, Len(s) \in Nat, NEW I, NEW p, Picking(p, Len(s), s, I)
  PROVE  History!Pick(s, I) = p[Len(s)]
<1> DEFINE Eqn(f) == f = [n \in 0 .. Len(s) |-> IF n = 0 THEN << >>
                            ELSE IF n \in I THEN Append(f[n - 1], s[n]) ELSE f[n - 1]]
           c == CHOOSE f : Eqn(f)
<1>1. History!Pick(s, I) = c[Len(s)]
  BY DEF History!Pick
<1>2. Eqn(p)
  BY PickingIs
<1> HIDE DEF Eqn
<1>3. Eqn(c)
  BY <1>2
<1> HIDE DEF c
<1>4. Picking(c, Len(s), s, I)
  BY <1>3, PickingIs DEF Eqn
<1> QED BY <1>1, <1>4, PickingUnique

\* Pick, one member after the other.
LEMMA PickNone == ASSUME NEW I PROVE History!Pick(<< >>, I) = << >>
<1>1. Len(<< >>) = 0
  OBVIOUS
<1>2. PICK p : Picking(p, 0, << >>, I)
  BY PickingExists
<1> QED BY <1>1, <1>2, PickIs DEF Picking

\* A member behind the others is picked, or not.
LEMMA PickAppend ==
  ASSUME NEW S, NEW s \in Seq(S), NEW x \in S, NEW I
  PROVE  History!Pick(Append(s, x), I) =
         IF Len(s) + 1 \in I THEN Append(History!Pick(s, I), x) ELSE History!Pick(s, I)
<1> DEFINE n == Len(s)
           t == Append(s, x)
<1>1. n \in Nat /\ Len(t) = n + 1 /\ t[n + 1] = x /\ \A i \in 1 .. n : t[i] = s[i]
  BY AppendProperties, LenProperties
<1> HIDE DEF n, t
<1>2. PICK p : Picking(p, n + 1, t, I)
  <2>1. n + 1 \in Nat
    BY <1>1
  <2> QED BY <2>1, PickingExists
<1> DEFINE q == [i \in 0 .. n |-> p[i]]
<1>3. (\A i \in 0 .. n : q[i] = p[i]) /\ q = [i \in 0 .. n |-> q[i]]
  OBVIOUS
<1> HIDE DEF q
<1>4. q[0] = << >>
  <2>1. 0 \in 0 .. n
    BY <1>1
  <2>2. p[0] = << >>
    BY <1>2 DEF Picking
  <2> QED BY <1>3, <2>1, <2>2
<1>5. ASSUME NEW i \in 1 .. n PROVE q[i] = IF i \in I THEN Append(q[i - 1], s[i]) ELSE q[i - 1]
  <2>1. i \in 1 .. n + 1 /\ i - 1 \in 0 .. n /\ i \in 0 .. n
    BY <1>1
  <2>2. p[i] = IF i \in I THEN Append(p[i - 1], t[i]) ELSE p[i - 1]
    BY <2>1, <1>2 DEF Picking
  <2> QED BY <2>1, <2>2, <1>1, <1>3
<1>6. Picking(q, n, s, I)
  BY <1>3, <1>4, <1>5 DEF Picking
<1>7. History!Pick(s, I) = q[n]
  BY <1>1, <1>6, PickIs DEF n
<1>8. History!Pick(t, I) = p[n + 1]
  BY <1>1, <1>2, PickIs
<1>9. p[n + 1] = IF n + 1 \in I THEN Append(p[n], t[n + 1]) ELSE p[n]
  <2>1. n + 1 \in 1 .. n + 1 /\ (n + 1) - 1 = n
    BY <1>1
  <2> QED BY <2>1, <1>2 DEF Picking
<1>10. q[n] = p[n]
  BY <1>1, <1>3
<1> QED BY <1>1, <1>7, <1>8, <1>9, <1>10 DEF n, t

\* What is in a sequence: behind a member more, behind another sequence, and at its places.
LEMMA MembersOfAppend ==
  ASSUME NEW S, NEW s \in Seq(S), NEW x \in S
  PROVE  Members(Append(s, x)) = Members(s) \cup {x}
<1>1. Len(s) \in Nat /\ DOMAIN s = 1 .. Len(s)
  BY LenProperties
<1>2. /\ DOMAIN Append(s, x) = 1 .. Len(s) + 1
      /\ \A i \in 1 .. Len(s) : Append(s, x)[i] = s[i]
      /\ Append(s, x)[Len(s) + 1] = x
  BY AppendProperties, LenProperties
<1>3. 1 .. Len(s) + 1 = (1 .. Len(s)) \cup {Len(s) + 1}
  BY <1>1
<1> QED BY <1>1, <1>2, <1>3 DEF Members

\* A sequence behind another adds its members.
LEMMA MembersOfConcat ==
  ASSUME NEW S, NEW s \in Seq(S), NEW t \in Seq(S)
  PROVE  Members(s \o t) = Members(s) \cup Members(t)
<1>1. Len(s) \in Nat /\ DOMAIN s = 1 .. Len(s) /\ Len(t) \in Nat /\ DOMAIN t = 1 .. Len(t)
  BY LenProperties
<1>2. /\ s \o t \in Seq(S) /\ Len(s \o t) = Len(s) + Len(t)
      /\ \A i \in 1 .. Len(s) + Len(t) : (s \o t)[i] = IF i <= Len(s) THEN s[i] ELSE t[i - Len(s)]
  BY ConcatProperties
<1>3. DOMAIN (s \o t) = 1 .. Len(s) + Len(t)
  BY <1>2, LenProperties
<1> DEFINE u == s \o t
<1>4. \A i \in 1 .. Len(s) : i \in DOMAIN u /\ u[i] = s[i]
  BY <1>1, <1>2, <1>3
<1>5. \A i \in 1 .. Len(t) : i + Len(s) \in DOMAIN u /\ u[i + Len(s)] = t[i]
  <2>1. SUFFICES ASSUME NEW i \in 1 .. Len(t) PROVE i + Len(s) \in DOMAIN u /\ u[i + Len(s)] = t[i]
    OBVIOUS
  <2>2. i + Len(s) \in 1 .. Len(s) + Len(t) /\ ~(i + Len(s) <= Len(s)) /\ (i + Len(s)) - Len(s) = i
    BY <1>1
  <2> QED BY <2>2, <1>2, <1>3
<1>6. \A i \in DOMAIN u : (i \in 1 .. Len(s) /\ u[i] = s[i])
                          \/ (i - Len(s) \in 1 .. Len(t) /\ u[i] = t[i - Len(s)])
  <2>1. SUFFICES ASSUME NEW i \in 1 .. Len(s) + Len(t)
        PROVE (i \in 1 .. Len(s) /\ u[i] = s[i])
              \/ (i - Len(s) \in 1 .. Len(t) /\ u[i] = t[i - Len(s)])
    BY <1>3
  <2>2. CASE i <= Len(s)
    BY <2>2, <1>1, <1>2
  <2>3. CASE ~(i <= Len(s))
    <3>1. i - Len(s) \in 1 .. Len(t)
      BY <2>3, <1>1
    <3> QED BY <3>1, <2>3, <1>2
  <2> QED BY <2>2, <2>3
<1> HIDE DEF u
<1>7. Members(u) \subseteq Members(s) \cup Members(t)
  BY <1>6, <1>1 DEF Members
<1>8. Members(s) \subseteq Members(u) /\ Members(t) \subseteq Members(u)
  BY <1>4, <1>5, <1>1 DEF Members
<1> QED BY <1>7, <1>8 DEF u

\* The members of a sequence are of its set, each at some place.
LEMMA MembersAre ==
  ASSUME NEW S, NEW s \in Seq(S)
  PROVE  Members(s) \subseteq S /\ \A x : x \in Members(s) <=> \E i \in 1 .. Len(s) : s[i] = x
<1>1. DOMAIN s = 1 .. Len(s) /\ \A i \in 1 .. Len(s) : s[i] \in S
  BY LenProperties, ElementOfSeq
<1> QED BY <1>1 DEF Members

\* What Pick returns: a sequence of the members of s at I, as many as there are.
LEMMA Picked ==
  ASSUME NEW S, NEW s \in Seq(S), NEW I
  PROVE  /\ History!Pick(s, I) \in Seq(S)
         /\ Members(History!Pick(s, I)) = {s[i] : i \in {j \in 1 .. Len(s) : j \in I}}
<1> DEFINE At(t) == {t[i] : i \in {j \in 1 .. Len(t) : j \in I}}
           H == {t \in Seq(S) : History!Pick(t, I) \in Seq(S) /\ Members(History!Pick(t, I)) = At(t)}
<1>1. << >> \in H
  <2>1. << >> \in Seq(S) /\ Len(<< >>) = 0
    OBVIOUS
  <2>2. At(<< >>) = {} /\ Members(<< >>) = {}
    BY <2>1 DEF Members
  <2> QED BY <2>1, <2>2, PickNone
<1>2. \A t \in Seq(S), x \in S : t \in H => Append(t, x) \in H
  <2>1. SUFFICES ASSUME NEW t \in Seq(S), NEW x \in S, t \in H PROVE Append(t, x) \in H
    OBVIOUS
  <2> DEFINE n == Len(t)
             u == Append(t, x)
             p == History!Pick(t, I)
  <2>2. n \in Nat /\ u \in Seq(S) /\ Len(u) = n + 1 /\ u[n + 1] = x /\ \A i \in 1 .. n : u[i] = t[i]
    BY AppendProperties, LenProperties
  <2>3. p \in Seq(S) /\ Members(p) = At(t)
    BY <2>1
  <2>4. History!Pick(u, I) = IF n + 1 \in I THEN Append(p, x) ELSE p
    BY PickAppend
  <2>5. Append(p, x) \in Seq(S) /\ Members(Append(p, x)) = Members(p) \cup {x}
    BY <2>3, MembersOfAppend, AppendProperties
  <2> HIDE DEF n, u, p
  <2>6. {j \in 1 .. n + 1 : j \in I} = {j \in 1 .. n : j \in I} \cup (IF n + 1 \in I THEN {n + 1} ELSE {})
    BY <2>2
  <2>7. At(u) = At(t) \cup (IF n + 1 \in I THEN {x} ELSE {})
    BY <2>2, <2>6 DEF n
  <2> HIDE DEF At
  <2> QED BY <2>2, <2>3, <2>4, <2>5, <2>7 DEF u
<1> HIDE DEF H
<1>3. Seq(S) \subseteq H
  BY <1>1, <1>2, SequencesIn
<1> QED BY <1>3 DEF H

\* Pick returns as many as it was told to.
LEMMA PickedCount ==
  ASSUME NEW S, NEW s \in Seq(S), NEW I
  PROVE  Len(History!Pick(s, I)) = Cardinality({i \in 1 .. Len(s) : i \in I})
<1> DEFINE At(t) == {i \in 1 .. Len(t) : i \in I}
           H == {t \in Seq(S) : Len(History!Pick(t, I)) = Cardinality(At(t))}
<1>1. << >> \in H
  <2>1. << >> \in Seq(S) /\ Len(<< >>) = 0
    OBVIOUS
  <2>2. At(<< >>) = {}
    BY <2>1
  <2> QED BY <2>1, <2>2, PickNone, FS_EmptySet
<1>2. \A t \in Seq(S), x \in S : t \in H => Append(t, x) \in H
  <2>1. SUFFICES ASSUME NEW t \in Seq(S), NEW x \in S, t \in H PROVE Append(t, x) \in H
    OBVIOUS
  <2> DEFINE n == Len(t)
             u == Append(t, x)
             p == History!Pick(t, I)
  <2>2. n \in Nat /\ u \in Seq(S) /\ Len(u) = n + 1
    BY AppendProperties, LenProperties
  <2>3. p \in Seq(S) /\ Len(p) = Cardinality(At(t))
    BY <2>1, Picked
  <2>4. History!Pick(u, I) = IF n + 1 \in I THEN Append(p, x) ELSE p
    BY PickAppend
  <2>5. Len(Append(p, x)) = Len(p) + 1
    BY <2>3, AppendProperties, LenProperties
  <2>6. At(t) \subseteq 1 .. n /\ IsFiniteSet(At(t))
    <3>1. At(t) \in SUBSET (1 .. n) /\ 1 \in Int /\ n \in Int
      BY <2>2
    <3>2. IsFiniteSet(1 .. n)
      BY <3>1, FS_Interval
    <3> HIDE DEF At
    <3> QED BY <3>1, <3>2, FS_Subset
  <2> HIDE DEF n, u, p
  <2>7. At(u) = IF n + 1 \in I THEN At(t) \cup {n + 1} ELSE At(t)
    BY <2>2 DEF n
  <2>8. n + 1 \notin At(t)
    BY <2>2, <2>6
  <2> HIDE DEF At
  <2>9. Cardinality(At(t) \cup {n + 1}) = Cardinality(At(t)) + 1
    BY <2>6, <2>8, FS_AddElement
  <2> QED BY <2>2, <2>3, <2>4, <2>5, <2>7, <2>9 DEF u
<1> HIDE DEF H
<1>3. Seq(S) \subseteq H
  BY <1>1, <1>2, SequencesIn
<1> QED BY <1>3 DEF H

\* Places that are none of s do not matter.
LEMMA PickSame ==
  ASSUME NEW S, NEW s \in Seq(S), NEW I, NEW J, \A i \in 1 .. Len(s) : i \in I <=> i \in J
  PROVE  History!Pick(s, I) = History!Pick(s, J)
<1> DEFINE H == {t \in Seq(S) : (\A i \in 1 .. Len(t) : i \in I <=> i \in J)
                                   => History!Pick(t, I) = History!Pick(t, J)}
<1>1. << >> \in H
  BY PickNone
<1>2. \A t \in Seq(S), x \in S : t \in H => Append(t, x) \in H
  <2>1. SUFFICES ASSUME NEW t \in Seq(S), NEW x \in S, t \in H,
                        \A i \in 1 .. Len(Append(t, x)) : i \in I <=> i \in J
                 PROVE  History!Pick(Append(t, x), I) = History!Pick(Append(t, x), J)
    BY AppendProperties
  <2>2. Len(t) \in Nat /\ Len(Append(t, x)) = Len(t) + 1
    BY AppendProperties, LenProperties
  <2>3. (\A i \in 1 .. Len(t) : i \in I <=> i \in J) /\ (Len(t) + 1 \in I <=> Len(t) + 1 \in J)
    BY <2>1, <2>2
  <2>4. History!Pick(t, I) = History!Pick(t, J)
    BY <2>1, <2>3
  <2>5. /\ History!Pick(Append(t, x), I) = IF Len(t) + 1 \in I THEN Append(History!Pick(t, I), x)
                                           ELSE History!Pick(t, I)
        /\ History!Pick(Append(t, x), J) = IF Len(t) + 1 \in J THEN Append(History!Pick(t, J), x)
                                           ELSE History!Pick(t, J)
    BY PickAppend
  <2> QED BY <2>3, <2>4, <2>5
<1> HIDE DEF H
<1>3. Seq(S) \subseteq H
  BY <1>1, <1>2, SequencesIn
<1> QED BY <1>3 DEF H

\* All of s, or nothing of it.
LEMMA PickAll ==
  ASSUME NEW S, NEW s \in Seq(S), NEW I, \A i \in 1 .. Len(s) : i \in I
  PROVE  History!Pick(s, I) = s
<1> DEFINE H == {t \in Seq(S) : (\A i \in 1 .. Len(t) : i \in I) => History!Pick(t, I) = t}
<1>1. << >> \in H
  BY PickNone
<1>2. \A t \in Seq(S), x \in S : t \in H => Append(t, x) \in H
  <2>1. SUFFICES ASSUME NEW t \in Seq(S), NEW x \in S, t \in H,
                        \A i \in 1 .. Len(Append(t, x)) : i \in I
                 PROVE  History!Pick(Append(t, x), I) = Append(t, x)
    BY AppendProperties
  <2>2. Len(t) \in Nat /\ Len(Append(t, x)) = Len(t) + 1
    BY AppendProperties, LenProperties
  <2>3. (\A i \in 1 .. Len(t) : i \in I) /\ Len(t) + 1 \in I
    BY <2>1, <2>2
  <2>4. History!Pick(t, I) = t
    BY <2>1, <2>3
  <2> QED BY <2>3, <2>4, PickAppend
<1> HIDE DEF H
<1>3. Seq(S) \subseteq H
  BY <1>1, <1>2, SequencesIn
<1> QED BY <1>3 DEF H

\* Nothing of s.
LEMMA PickNothing ==
  ASSUME NEW S, NEW s \in Seq(S), NEW I, \A i \in 1 .. Len(s) : i \notin I
  PROVE  History!Pick(s, I) = << >>
<1>1. History!Pick(s, I) \in Seq(S) /\ Members(History!Pick(s, I)) = {}
  BY Picked
<1>2. DOMAIN History!Pick(s, I) = {}
  BY <1>1 DEF Members
<1>3. Len(History!Pick(s, I)) = 0
  BY <1>1, <1>2, LenProperties
<1> QED BY <1>1, <1>3, EmptySeq

\* To append to the second of two sequences is to append to both.
AppendsBehind(p, q, x) == Append(p \o q, x) = p \o Append(q, x)

\* It is so for every two sequences of a set and every member of it.
LEMMA AppendBehind ==
  ASSUME NEW S, NEW p \in Seq(S), NEW q \in Seq(S), NEW x \in S
  PROVE  AppendsBehind(p, q, x)
<1> DEFINE one == <<x>>
           w == p \o q
<1>1. one \in Seq(S)
  OBVIOUS
<1>2. Append(q, x) = q \o one
  BY AppendIsConcat
<1>3. w \in Seq(S)
  BY ConcatProperties
<1> HIDE DEF w
<1>4. Append(w, x) = w \o one
  BY <1>3, AppendIsConcat
<1> HIDE DEF one
<1>5. (p \o q) \o one = p \o (q \o one)
  BY <1>1, ConcatAssociative
<1> QED BY <1>2, <1>4, <1>5 DEF w, AppendsBehind

\* Picking from two sequences, one behind the other.
LEMMA PickConcat ==
  ASSUME NEW S, NEW s \in Seq(S), NEW t \in Seq(S), NEW I, NEW J,
         \A j \in 1 .. Len(t) : j \in J <=> Len(s) + j \in I
  PROVE  History!Pick(s \o t, I) = History!Pick(s, I) \o History!Pick(t, J)
<1> DEFINE H == {u \in Seq(S) : (\A j \in 1 .. Len(u) : j \in J <=> Len(s) + j \in I)
                 => History!Pick(s \o u, I) = History!Pick(s, I) \o History!Pick(u, J)}
<1>1. << >> \in H
  <2>1. s \o << >> = s /\ History!Pick(s, I) \o << >> = History!Pick(s, I)
    BY Picked, ConcatEmptySeq
  <2>2. History!Pick(<< >>, J) = << >> /\ << >> \in Seq(S)
    BY PickNone
  <2> QED BY <2>1, <2>2
<1>2. \A u \in Seq(S), x \in S : u \in H => Append(u, x) \in H
  <2>1. SUFFICES ASSUME NEW u \in Seq(S), NEW x \in S, u \in H,
                        \A j \in 1 .. Len(Append(u, x)) : j \in J <=> Len(s) + j \in I
                 PROVE  History!Pick(s \o Append(u, x), I) =
                        History!Pick(s, I) \o History!Pick(Append(u, x), J)
    BY AppendProperties
  <2>2. Len(u) \in Nat /\ Len(Append(u, x)) = Len(u) + 1 /\ Len(s) \in Nat
    BY AppendProperties, LenProperties
  <2>3. (\A j \in 1 .. Len(u) : j \in J <=> Len(s) + j \in I)
        /\ (Len(u) + 1 \in J <=> Len(s) + (Len(u) + 1) \in I)
    BY <2>1, <2>2
  <2>4. History!Pick(s \o u, I) = History!Pick(s, I) \o History!Pick(u, J)
    BY <2>1, <2>3
  <2>5. s \o Append(u, x) = Append(s \o u, x) /\ s \o u \in Seq(S) /\ Len(s \o u) = Len(s) + Len(u)
    <3>1. <<x>> \in Seq(S)
      OBVIOUS
    <3>2. Append(u, x) = u \o <<x>> /\ s \o u \in Seq(S)
      BY AppendIsConcat, ConcatProperties
    <3>3. Append(s \o u, x) = (s \o u) \o <<x>>
      BY <3>2, AppendIsConcat
    <3> QED BY <3>1, <3>2, <3>3, ConcatAssociative, ConcatProperties
  <2>6. History!Pick(s \o Append(u, x), I) = IF Len(s) + (Len(u) + 1) \in I
            THEN Append(History!Pick(s \o u, I), x) ELSE History!Pick(s \o u, I)
    <3>1. Len(s \o u) + 1 = Len(s) + (Len(u) + 1)
      BY <2>2, <2>5
    <3> DEFINE w == s \o u
    <3>2. w \in Seq(S)
      BY <2>5
    <3> HIDE DEF w
    <3>3. History!Pick(Append(w, x), I) = IF Len(w) + 1 \in I
              THEN Append(History!Pick(w, I), x) ELSE History!Pick(w, I)
      BY <3>2, PickAppend
    <3> QED BY <2>5, <3>1, <3>3 DEF w
  <2> DEFINE p == History!Pick(s, I)
             q == History!Pick(u, J)
  <2>7. p \in Seq(S) /\ q \in Seq(S)
    BY Picked
  <2> HIDE DEF p, q
  <2>8. Append(p \o q, x) = p \o Append(q, x)
    <3>1. AppendsBehind(p, q, x)
      BY <2>7, AppendBehind
    <3> QED BY <3>1 DEF AppendsBehind
  <2>9. History!Pick(Append(u, x), J) = IF Len(u) + 1 \in J THEN Append(q, x) ELSE q
    BY PickAppend DEF q
  <2> QED BY <2>3, <2>4, <2>6, <2>8, <2>9 DEF p, q
<1> HIDE DEF H
<1>3. Seq(S) \subseteq H
  BY <1>1, <1>2, SequencesIn
<1> QED BY <1>3 DEF H

CallId == ResultId \cup (Nat \X Nat \X Nat)
ToolNames == UNION {{b[i].tool : i \in DOMAIN b} : b \in Batches}
CallType == [id : CallId, tool : ToolNames]
MessageType == [role : {"user", "system", "assistant", "tool"}, calls : Seq(CallType),
                id : CallId, text : BOOLEAN, image : BOOLEAN]

\* The results that answer one call.
LEMMA AnsweringIs ==
  ASSUME NEW results \in Seq(MessageType), NEW id
  PROVE  /\ History!Answering(results, id) \in Seq(MessageType)
         /\ Members(History!Answering(results, id)) = {r \in Members(results) : r.id = id}
         /\ Len(History!Answering(results, id)) = Cardinality({i \in 1 .. Len(results) : results[i].id = id})
<1> DEFINE I == {i \in DOMAIN results : results[i].id = id}
           A == History!Answering(results, id)
<1>1. A = History!Pick(results, I)
  BY DEF History!Answering
<1>2. DOMAIN results = 1 .. Len(results)
  BY LenProperties
<1>3. {i \in 1 .. Len(results) : i \in I} = {i \in 1 .. Len(results) : results[i].id = id}
  BY <1>2
<1>4. {results[i] : i \in {j \in 1 .. Len(results) : j \in I}} = {r \in Members(results) : r.id = id}
  BY <1>2 DEF Members
<1> HIDE DEF I, A
<1> QED BY <1>1, <1>3, <1>4, Picked, PickedCount DEF A

Joined(sorted, results, id) == sorted \o History!Answering(results, id)

\* p[i] is what InBatchOrder has of the first i calls of the batch.
Sorting(p, k, batch, results) ==
  /\ p = [i \in 0 .. k |-> p[i]]
  /\ p[0] = << >>
  /\ \A i \in 1 .. k : p[i] = Joined(p[i - 1], results, batch[i])

\* The equation InBatchOrder defines its function by, point by point.
LEMMA SortingIs ==
  ASSUME NEW k \in Nat, NEW batch, NEW results, NEW p
  PROVE  Sorting(p, k, batch, results) <=>
         p = [i \in 0 .. k |-> IF i = 0 THEN << >>
                               ELSE Joined(p[i - 1], results, batch[i])]
<1> DEFINE g == [i \in 0 .. k |-> IF i = 0 THEN << >>
                                  ELSE Joined(p[i - 1], results, batch[i])]
<1>0. ASSUME NEW i \in 1 .. k PROVE g[i] = Joined(p[i - 1], results, batch[i])
  OBVIOUS
<1>1. /\ g[0] = << >>
      /\ g = [i \in 0 .. k |-> g[i]]
      /\ \A i \in 1 .. k : g[i] = Joined(p[i - 1], results, batch[i])
  BY <1>0
<1>2. ASSUME p = g PROVE Sorting(p, k, batch, results)
  <2> HIDE DEF g
  <2> QED BY <1>1, <1>2 DEF Sorting
<1>3. ASSUME Sorting(p, k, batch, results) PROVE p = g
  <2>1. \A i \in 0 .. k : i = 0 \/ i \in 1 .. k
    OBVIOUS
  <2> HIDE DEF g
  <2>2. \A i \in 0 .. k : p[i] = g[i]
    BY <2>1, <1>1, <1>3 DEF Sorting
  <2> QED BY <2>2, <1>1, <1>3 DEF Sorting
<1> QED BY <1>2, <1>3

\* There is such a function.
LEMMA SortingExists ==
  ASSUME NEW n \in Nat, NEW batch, NEW results
  PROVE  \E p : Sorting(p, n, batch, results)
<1> DEFINE N == {k \in Nat : \E p : Sorting(p, k, batch, results)}
<1>1. 0 \in N
  <2> DEFINE p == [i \in 0 .. 0 |-> << >>]
  <2>1. p[0] = << >> /\ p = [i \in 0 .. 0 |-> p[i]]
    OBVIOUS
  <2> HIDE DEF p
  <2>2. Sorting(p, 0, batch, results)
    BY <2>1 DEF Sorting
  <2> QED BY <2>2
<1>2. \A k \in Nat : k \in N => k + 1 \in N
  <2>1. SUFFICES ASSUME NEW k \in Nat, NEW p, Sorting(p, k, batch, results)
                 PROVE  \E q : Sorting(q, k + 1, batch, results)
    OBVIOUS
  <2> DEFINE last == Joined(p[k], results, batch[k + 1])
  <2> HIDE DEF last
  <2> DEFINE q == [i \in 0 .. k + 1 |-> IF i = k + 1 THEN last ELSE p[i]]
  <2>2. (\A i \in 0 .. k : q[i] = p[i]) /\ q[k + 1] = last /\ q = [i \in 0 .. k + 1 |-> q[i]]
    OBVIOUS
  <2> HIDE DEF q
  <2>3. \A i \in 1 .. k + 1 : i \in 1 .. k \/ i = k + 1
    OBVIOUS
  <2>4. ASSUME NEW i \in 1 .. k PROVE q[i] = Joined(q[i - 1], results, batch[i])
    <3>1. i \in 0 .. k /\ i - 1 \in 0 .. k
      OBVIOUS
    <3>2. q[i] = p[i] /\ q[i - 1] = p[i - 1]
      BY <3>1, <2>2
    <3>3. p[i] = Joined(p[i - 1], results, batch[i])
      BY <2>1 DEF Sorting
    <3> QED BY <3>2, <3>3
  <2>5. q[k + 1] = Joined(q[k], results, batch[k + 1])
    <3>1. k \in 0 .. k
      OBVIOUS
    <3> QED BY <2>2, <3>1 DEF last
  <2>6. (k + 1) - 1 = k
    OBVIOUS
  <2>7. \A i \in 1 .. k + 1 : q[i] = Joined(q[i - 1], results, batch[i])
    BY <2>3, <2>4, <2>5, <2>6
  <2>8. q[0] = << >>
    BY <2>1, <2>2 DEF Sorting
  <2>9. Sorting(q, k + 1, batch, results)
    BY <2>2, <2>7, <2>8 DEF Sorting
  <2> QED BY <2>9
<1> HIDE DEF N
<1>3. Nat \subseteq N
  BY <1>1, <1>2, Induction
<1> QED BY <1>3 DEF N

\* InBatchOrder ends where such a function does.
LEMMA SortedBy ==
  ASSUME NEW n, NEW batch, n.batch = batch, Len(batch) \in Nat, NEW results
  PROVE  \E p : /\ Sorting(p, Len(batch), batch, results)
                /\ History!InBatchOrder(n, results) = p[Len(batch)]
<1> DEFINE Eqn(f) == f = [k \in 0 .. Len(batch) |-> IF k = 0 THEN << >>
                            ELSE Joined(f[k - 1], results, batch[k])]
           c == CHOOSE f : Eqn(f)
<1>1. History!InBatchOrder(n, results) = c[Len(batch)]
  BY DEF History!InBatchOrder, Joined
<1>2. PICK p : Sorting(p, Len(batch), batch, results)
  BY SortingExists
<1>3. Eqn(p)
  BY <1>2, SortingIs
<1> HIDE DEF Eqn
<1>4. Eqn(c)
  BY <1>3
<1> HIDE DEF c
<1>5. Sorting(c, Len(batch), batch, results)
  BY <1>4, SortingIs DEF Eqn
<1> QED BY <1>1, <1>5

\* The naturals from one to n are n.
LEMMA UpTo == ASSUME NEW n \in Nat PROVE IsFiniteSet(1 .. n) /\ Cardinality(1 .. n) = n
<1>1. 1 \in Int /\ n \in Int /\ (1 > n => n = 0) /\ n - 1 + 1 = n
  OBVIOUS
<1> QED BY <1>1, FS_Interval

\* Neighbours in q answer calls of the batch in its order.
Ascends(q, batch) ==
  \A i \in 2 .. Len(q) : \E a, b \in 1 .. Len(batch) :
     a <= b /\ batch[a] = q[i - 1].id /\ batch[b] = q[i].id

AskedFor(k, batch, results) == {i \in 1 .. Len(results) : \E a \in 1 .. k : batch[a] = results[i].id}

\* q is what the first k calls of the batch take of the results.
Sorted(q, k, batch, results) ==
  /\ q \in Seq(MessageType)
  /\ \A r \in Members(q) : r \in Members(results) /\ \E a \in 1 .. k : batch[a] = r.id
  /\ \A r \in Members(results) : (\E a \in 1 .. k : batch[a] = r.id) => r \in Members(q)
  /\ Ascends(q, batch)

\* One more call takes its results: behind the others, and theirs are after it.
LEMMA SortedOn ==
  ASSUME NEW batch \in Seq(CallId), NEW results \in Seq(MessageType), NEW k \in Nat,
         k + 1 <= Len(batch), NEW q, Sorted(q, k, batch, results)
  PROVE  Sorted(Joined(q, results, batch[k + 1]), k + 1, batch, results)
<1> DEFINE id == batch[k + 1]
           t == History!Answering(results, id)
           u == q \o t
<1>1. /\ q \in Seq(MessageType) /\ t \in Seq(MessageType) /\ u \in Seq(MessageType)
      /\ Len(q) \in Nat /\ Len(t) \in Nat /\ Len(batch) \in Nat
      /\ \A i \in 1 .. Len(q) : q[i] \in Members(q)
      /\ \A i \in 1 .. Len(t) : t[i] \in Members(t)
  BY AnsweringIs, ConcatProperties, LenProperties DEF Sorted, Members
<1>2. Members(t) = {r \in Members(results) : r.id = id}
  BY AnsweringIs
<1>3. Members(u) = Members(q) \cup Members(t)
  BY <1>1, MembersOfConcat
<1>4. /\ Len(u) = Len(q) + Len(t)
      /\ \A i \in 1 .. Len(q) : u[i] = q[i]
      /\ \A i \in Len(q) + 1 .. Len(q) + Len(t) : u[i] = t[i - Len(q)]
  BY <1>1, ConcatProperties
<1> HIDE DEF id, t, u
<1>5. \A a \in 1 .. k + 1 : a \in 1 .. k \/ a = k + 1
  OBVIOUS
<1>6. 1 .. k \subseteq 1 .. k + 1 /\ k + 1 \in 1 .. k + 1
  OBVIOUS
<1>7. \A r \in Members(u) : r \in Members(results) /\ \E a \in 1 .. k + 1 : batch[a] = r.id
  BY <1>2, <1>3, <1>6 DEF Sorted, id
<1>8. \A r \in Members(results) : (\E a \in 1 .. k + 1 : batch[a] = r.id) => r \in Members(u)
  BY <1>2, <1>3, <1>5 DEF Sorted, id
<1>9. Ascends(u, batch)
  <2>1. SUFFICES ASSUME NEW i \in 2 .. Len(u)
        PROVE \E a, b \in 1 .. Len(batch) : a <= b /\ batch[a] = u[i - 1].id /\ batch[b] = u[i].id
    BY DEF Ascends
  <2>2. CASE i <= Len(q)
    <3>1. i \in 2 .. Len(q) /\ i \in 1 .. Len(q) /\ i - 1 \in 1 .. Len(q)
      BY <2>2, <1>1
    <3>2. u[i] = q[i] /\ u[i - 1] = q[i - 1]
      BY <3>1, <1>4
    <3> QED BY <3>1, <3>2 DEF Sorted, Ascends
  <2>3. CASE i = Len(q) + 1
    <3>1. i \in Len(q) + 1 .. Len(q) + Len(t) /\ i - Len(q) \in 1 .. Len(t)
          /\ i - 1 \in 1 .. Len(q)
      BY <2>3, <1>1, <1>4
    <3>2. u[i] \in Members(t) /\ u[i - 1] \in Members(q)
      BY <3>1, <1>1, <1>4
    <3>3. u[i].id = batch[k + 1]
      BY <3>2, <1>2 DEF id
    <3>4. PICK a \in 1 .. k : batch[a] = u[i - 1].id
      BY <3>2 DEF Sorted
    <3>5. a \in 1 .. Len(batch) /\ k + 1 \in 1 .. Len(batch) /\ a <= k + 1
      BY <1>1
    <3> QED BY <3>3, <3>4, <3>5
  <2>4. CASE i > Len(q) + 1
    <3>1. /\ i \in Len(q) + 1 .. Len(q) + Len(t) /\ i - Len(q) \in 1 .. Len(t)
          /\ i - 1 \in Len(q) + 1 .. Len(q) + Len(t) /\ (i - 1) - Len(q) \in 1 .. Len(t)
      BY <2>4, <1>1, <1>4
    <3>2. u[i] \in Members(t) /\ u[i - 1] \in Members(t)
      BY <3>1, <1>1, <1>4
    <3>3. u[i].id = batch[k + 1] /\ u[i - 1].id = batch[k + 1]
      BY <3>2, <1>2 DEF id
    <3>4. k + 1 \in 1 .. Len(batch) /\ k + 1 <= k + 1
      BY <1>1
    <3> QED BY <3>3, <3>4
  <2> QED BY <2>2, <2>3, <2>4, <1>1, <1>4
<1>10. Sorted(u, k + 1, batch, results)
  BY <1>1, <1>7, <1>8, <1>9 DEF Sorted
<1> QED BY <1>10 DEF Joined, u, t, id

\* InBatchOrder: the results that answer the batch and no others, in its order.
LEMMA BatchIsSorted ==
  ASSUME NEW n, NEW batch \in Seq(CallId), n.batch = batch, NEW results \in Seq(MessageType)
  PROVE  Sorted(History!InBatchOrder(n, results), Len(batch), batch, results)
<1>1. Len(batch) \in Nat
  BY LenProperties
<1>2. PICK p : /\ Sorting(p, Len(batch), batch, results)
               /\ History!InBatchOrder(n, results) = p[Len(batch)]
  BY <1>1, SortedBy
<1> DEFINE K == {k \in Nat : k <= Len(batch) => Sorted(p[k], k, batch, results)}
<1>3. 0 \in K
  <2>1. p[0] = << >> /\ << >> \in Seq(MessageType) /\ Len(<< >>) = 0
    BY <1>2 DEF Sorting
  <2>2. Members(<< >>) = {} /\ 1 .. 0 = {} /\ 2 .. 0 = {}
    BY DEF Members
  <2>3. Sorted(<< >>, 0, batch, results)
    BY <2>1, <2>2 DEF Sorted, Ascends
  <2> QED BY <2>1, <2>3
<1>4. \A k \in Nat : k \in K => k + 1 \in K
  <2>1. SUFFICES ASSUME NEW k \in Nat, k + 1 <= Len(batch), k \in K
                 PROVE  Sorted(p[k + 1], k + 1, batch, results)
    OBVIOUS
  <2>2. Sorted(p[k], k, batch, results)
    BY <2>1, <1>1
  <2>3. k + 1 \in 1 .. Len(batch) /\ (k + 1) - 1 = k
    BY <2>1, <1>1
  <2>4. p[k + 1] = Joined(p[k], results, batch[k + 1])
    BY <2>3, <1>2 DEF Sorting
  <2> QED BY <2>1, <2>2, <2>4, SortedOn
<1> HIDE DEF K
<1>5. Nat \subseteq K
  BY <1>3, <1>4, Induction
<1> QED BY <1>1, <1>2, <1>5 DEF K

\* If each answers the batch, whose ids are different, none is lost and none doubled.
LEMMA BatchTakesAll ==
  ASSUME NEW n, NEW batch \in Seq(CallId), n.batch = batch, NEW results \in Seq(MessageType),
         Distinct(batch), \A r \in Members(results) : r.id \in Members(batch)
  PROVE  Len(History!InBatchOrder(n, results)) = Len(results)
<1>1. Len(batch) \in Nat /\ Len(results) \in Nat /\ DOMAIN batch = 1 .. Len(batch)
      /\ DOMAIN results = 1 .. Len(results)
  BY LenProperties
<1>2. PICK p : /\ Sorting(p, Len(batch), batch, results)
               /\ History!InBatchOrder(n, results) = p[Len(batch)]
  BY <1>1, SortedBy
<1> DEFINE A(k) == AskedFor(k, batch, results)
           K == {k \in Nat : k <= Len(batch) =>
                   p[k] \in Seq(MessageType) /\ Len(p[k]) = Cardinality(A(k))}
<1>3. \A k \in Nat : A(k) \subseteq 1 .. Len(results) /\ IsFiniteSet(A(k))
  <2>1. SUFFICES ASSUME NEW k \in Nat PROVE A(k) \subseteq 1 .. Len(results) /\ IsFiniteSet(A(k))
    OBVIOUS
  <2>2. A(k) \in SUBSET (1 .. Len(results))
    BY DEF AskedFor
  <2>3. IsFiniteSet(1 .. Len(results))
    BY <1>1, UpTo
  <2> HIDE DEF A
  <2> QED BY <2>2, <2>3, FS_Subset
<1>4. 0 \in K
  <2>1. p[0] = << >> /\ << >> \in Seq(MessageType) /\ Len(<< >>) = 0
    BY <1>2 DEF Sorting
  <2>2. A(0) = {}
    BY DEF AskedFor
  <2> QED BY <2>1, <2>2, FS_EmptySet
<1>5. \A k \in Nat : k \in K => k + 1 \in K
  <2>1. SUFFICES ASSUME NEW k \in Nat, k + 1 <= Len(batch), k \in K
                 PROVE  p[k + 1] \in Seq(MessageType) /\ Len(p[k + 1]) = Cardinality(A(k + 1))
    OBVIOUS
  <2>2. p[k] \in Seq(MessageType) /\ Len(p[k]) = Cardinality(A(k))
    BY <2>1, <1>1
  <2>3. k + 1 \in 1 .. Len(batch) /\ (k + 1) - 1 = k
    BY <2>1, <1>1
  <2> DEFINE t == History!Answering(results, batch[k + 1])
             B == {i \in 1 .. Len(results) : results[i].id = batch[k + 1]}
  <2>4. p[k + 1] = p[k] \o t
    BY <2>3, <1>2 DEF Sorting, Joined
  <2>5. t \in Seq(MessageType) /\ Len(t) = Cardinality(B)
    BY AnsweringIs
  <2>6. A(k + 1) = A(k) \cup B
    <3>1. \A a \in 1 .. k + 1 : a \in 1 .. k \/ a = k + 1
      OBVIOUS
    <3>2. 1 .. k \subseteq 1 .. k + 1 /\ k + 1 \in 1 .. k + 1
      OBVIOUS
    <3> QED BY <3>1, <3>2 DEF AskedFor
  <2>7. A(k) \cap B = {}
    <3>1. SUFFICES ASSUME NEW i \in 1 .. Len(results), NEW a \in 1 .. k,
                          batch[a] = results[i].id, results[i].id = batch[k + 1]
                   PROVE  FALSE
      BY DEF AskedFor
    <3>2. a \in DOMAIN batch /\ k + 1 \in DOMAIN batch /\ a # k + 1
      BY <1>1, <2>3
    <3> QED BY <3>1, <3>2 DEF Distinct
  <2>8. IsFiniteSet(B)
    <3>1. B \in SUBSET (1 .. Len(results))
      OBVIOUS
    <3>2. IsFiniteSet(1 .. Len(results))
      BY <1>1, UpTo
    <3> HIDE DEF B
    <3> QED BY <3>1, <3>2, FS_Subset
  <2>9. IsFiniteSet(A(k))
    BY <1>3
  <2> HIDE DEF A, B, t
  <2>10. Cardinality(A(k) \cup B) = Cardinality(A(k)) + Cardinality(B)
    <3>1. Cardinality(A(k) \cup B) = Cardinality(A(k)) + Cardinality(B) - Cardinality(A(k) \cap B)
      BY <2>8, <2>9, FS_Union
    <3>2. Cardinality(A(k) \cap B) = 0
      BY <2>7, FS_EmptySet
    <3>3. Cardinality(A(k)) \in Nat /\ Cardinality(B) \in Nat
      BY <2>8, <2>9, FS_CardinalityType
    <3> QED BY <3>1, <3>2, <3>3
  <2>11. p[k] \o t \in Seq(MessageType) /\ Len(p[k] \o t) = Len(p[k]) + Len(t)
    BY <2>2, <2>5, ConcatProperties
  <2> QED BY <2>2, <2>4, <2>5, <2>6, <2>10, <2>11
<1>6. A(Len(batch)) = 1 .. Len(results)
  BY <1>1 DEF AskedFor, Members
<1> HIDE DEF K, A
<1>7. Nat \subseteq K
  BY <1>4, <1>5, Induction
<1>8. Len(p[Len(batch)]) = Cardinality(A(Len(batch)))
  BY <1>1, <1>7 DEF K
<1>9. Cardinality(1 .. Len(results)) = Len(results)
  BY <1>1, UpTo
<1> QED BY <1>2, <1>6, <1>8, <1>9

SourceType == UNION {[D -> CallId] : D \in SUBSET CallId}
NormType == [used : SUBSET CallId, source : SourceType, calls : SUBSET CallId,
             out : Seq(MessageType), count : Nat, batch : Seq(CallId),
             consumed : SUBSET CallId, pending : Seq(MessageType)]

\* The cardinality of the module ToolHistory is that of FiniteSets.
LEMMA SameCardinality == \A S : History!Cardinality(S) = Cardinality(S)
BY DEF History!Cardinality, Cardinality

\* An id is found for every call: were all of them taken, there would be more ids than
\* calls have.
LEMMA MadeUpIsFree ==
  ASSUME NEW used, IsFiniteSet(used), NEW count \in Nat, NEW index \in Nat
  PROVE  /\ History!MadeUp(used, count, index) \in Nat \X Nat \X Nat
         /\ History!MadeUp(used, count, index) \notin used
<1> DEFINE c == Cardinality(used)
           free(r) == <<count, index, r>> \notin used
           first(r) == free(r) /\ \A q \in 0 .. r - 1 : ~free(q)
           T == {r \in 0 .. c : free(r)}
<1>1. c \in Nat
  BY FS_CardinalityType
<1>2. T # {}
  <2>1. SUFFICES ASSUME \A r \in 0 .. c : <<count, index, r>> \in used PROVE FALSE
    OBVIOUS
  <2> DEFINE f == [r \in 0 .. c |-> <<count, index, r>>]
  <2>2. f \in [0 .. c -> used]
    BY <2>1
  <2>3. \A r, q \in 0 .. c : f[r] = f[q] => r = q
    OBVIOUS
  <2> HIDE DEF f
  <2>4. f \in Injection(0 .. c, used)
    BY <2>2, <2>3 DEF Injection, IsInjective
  <2>5. Cardinality(0 .. c) <= Cardinality(used)
    BY <2>4, FS_Injection
  <2>6. Cardinality(0 .. c) = c + 1
    <3>1. 0 \in Int /\ c \in Int /\ ~(0 > c) /\ c - 0 + 1 = c + 1
      BY <1>1
    <3> HIDE DEF c
    <3> QED BY <3>1, FS_Interval
  <2> QED BY <1>1, <2>5, <2>6
<1>3. PICK m \in T : \A k \in T : m <= k
  <2>1. T \subseteq Nat
    OBVIOUS
  <2> HIDE DEF T
  <2> QED BY <1>2, <2>1, LeastOf
<1>4. m \in 0 .. c /\ free(m)
  OBVIOUS
<1>5. \A q \in 0 .. m - 1 : ~free(q)
  <2>1. SUFFICES ASSUME NEW q \in 0 .. m - 1, free(q) PROVE FALSE
    OBVIOUS
  <2>2. q \in 0 .. c /\ ~(m <= q)
    BY <1>1, <1>4
  <2> QED BY <2>1, <2>2, <1>3
<1> HIDE DEF free
<1> DEFINE w == CHOOSE r \in 0 .. c : first(r)
<1>6. w \in 0 .. c /\ first(w)
  BY <1>4, <1>5
<1>7. History!MadeUp(used, count, index) = <<count, index, w>>
  BY SameCardinality DEF History!MadeUp, free
<1> HIDE DEF w
<1>8. w \in Nat
  BY <1>1, <1>6
<1> QED BY <1>6, <1>7, <1>8 DEF free

\* What a call does: an id nobody has yet, its own if it can be, is its id.
CallMakes(next, n, c) ==
  \E id \in CallId, source \in SourceType :
     /\ id \notin n.used
     /\ c.id # None /\ c.id \notin n.used => id = c.id
     /\ c.id # None /\ c.id \notin DOMAIN n.source =>
           source = [i \in DOMAIN n.source \cup {c.id} |-> IF i = c.id THEN id ELSE n.source[i]]
     /\ next = [n EXCEPT !.used = @ \cup {id}, !.source = source,
                         !.calls = @ \cup {id}, !.batch = Append(@, id)]

\* Call makes just that (normalizeToolCall).
LEMMA CallIs ==
  ASSUME NEW n \in NormType, NEW c \in CallType, NEW index \in Nat, IsFiniteSet(n.used)
  PROVE  CallMakes(History!Call(n, c, index), n, c)
<1> DEFINE id == IF c.id = None \/ c.id \in n.used
                 THEN History!MadeUp(n.used, n.count, index) ELSE c.id
           wider == [i \in DOMAIN n.source \cup {c.id} |-> IF i = c.id THEN id ELSE n.source[i]]
           source == IF c.id = None \/ c.id \in DOMAIN n.source THEN n.source ELSE wider
<1>1. n.count \in Nat /\ c.id \in CallId /\ n.source \in SourceType
  BY DEF NormType, CallType
<1>2. id \in CallId /\ id \notin n.used
  <2>1. CASE c.id = None \/ c.id \in n.used
    <3>1. History!MadeUp(n.used, n.count, index) \in Nat \X Nat \X Nat
          /\ History!MadeUp(n.used, n.count, index) \notin n.used
      BY <1>1, MadeUpIsFree
    <3> QED BY <2>1, <3>1 DEF CallId
  <2>2. CASE ~(c.id = None \/ c.id \in n.used)
    BY <2>2, <1>1
  <2> QED BY <2>1, <2>2
<1>3. History!Call(n, c, index) = [n EXCEPT !.used = @ \cup {id}, !.source = source,
                            !.calls = @ \cup {id}, !.batch = Append(@, id)]
  BY DEF History!Call
<1>4. c.id # None /\ c.id \notin n.used => id = c.id
  OBVIOUS
<1> HIDE DEF id
<1>5. PICK D \in SUBSET CallId : n.source \in [D -> CallId]
  BY <1>1 DEF SourceType
<1>6. DOMAIN n.source \cup {c.id} \in SUBSET CallId
  BY <1>1, <1>5
<1>7. wider \in [DOMAIN n.source \cup {c.id} -> CallId]
  BY <1>2, <1>5
<1>8. source \in SourceType
  BY <1>1, <1>6, <1>7 DEF SourceType
<1>9. c.id # None /\ c.id \notin DOMAIN n.source => source = wider
  OBVIOUS
<1> HIDE DEF source
<1> QED BY <1>2, <1>3, <1>4, <1>8, <1>9 DEF CallMakes

\* p[i] are the locals behind the first i calls.
Calling(p, k, n, b) ==
  /\ p = [i \in 0 .. k |-> p[i]]
  /\ p[0] = n
  /\ \A i \in 1 .. k : p[i] = History!Call(p[i - 1], b[i], i)

\* The equation Called defines its function by, point by point.
LEMMA CallingIs ==
  ASSUME NEW k \in Nat, NEW n, NEW b, NEW p
  PROVE  Calling(p, k, n, b) <=>
         p = [i \in 0 .. k |-> IF i = 0 THEN n ELSE History!Call(p[i - 1], b[i], i)]
<1> DEFINE g == [i \in 0 .. k |-> IF i = 0 THEN n ELSE History!Call(p[i - 1], b[i], i)]
<1>1. /\ g[0] = n
      /\ g = [i \in 0 .. k |-> g[i]]
      /\ \A i \in 1 .. k : g[i] = History!Call(p[i - 1], b[i], i)
  OBVIOUS
<1>2. ASSUME p = g PROVE Calling(p, k, n, b)
  <2> HIDE DEF g
  <2> QED BY <1>1, <1>2 DEF Calling
<1>3. ASSUME Calling(p, k, n, b) PROVE p = g
  <2>1. \A i \in 0 .. k : i = 0 \/ i \in 1 .. k
    OBVIOUS
  <2> HIDE DEF g
  <2>2. \A i \in 0 .. k : p[i] = g[i]
    BY <2>1, <1>1, <1>3 DEF Calling
  <2> QED BY <2>2, <1>1, <1>3 DEF Calling
<1> QED BY <1>2, <1>3

\* There is such a function.
LEMMA CallingExists ==
  ASSUME NEW m \in Nat, NEW n, NEW b
  PROVE  \E p : Calling(p, m, n, b)
<1> DEFINE N == {k \in Nat : \E p : Calling(p, k, n, b)}
<1>1. 0 \in N
  <2> DEFINE p == [i \in 0 .. 0 |-> n]
  <2>1. p[0] = n /\ p = [i \in 0 .. 0 |-> p[i]]
    OBVIOUS
  <2> HIDE DEF p
  <2>2. Calling(p, 0, n, b)
    BY <2>1 DEF Calling
  <2> QED BY <2>2
<1>2. \A k \in Nat : k \in N => k + 1 \in N
  <2>1. SUFFICES ASSUME NEW k \in Nat, NEW p, Calling(p, k, n, b)
                 PROVE  \E q : Calling(q, k + 1, n, b)
    OBVIOUS
  <2> DEFINE last == History!Call(p[k], b[k + 1], k + 1)
  <2> HIDE DEF last
  <2> DEFINE q == [i \in 0 .. k + 1 |-> IF i = k + 1 THEN last ELSE p[i]]
  <2>2. (\A i \in 0 .. k : q[i] = p[i]) /\ q[k + 1] = last /\ q = [i \in 0 .. k + 1 |-> q[i]]
    OBVIOUS
  <2> HIDE DEF q
  <2>3. \A i \in 1 .. k + 1 : i \in 1 .. k \/ i = k + 1
    OBVIOUS
  <2>4. ASSUME NEW i \in 1 .. k PROVE q[i] = History!Call(q[i - 1], b[i], i)
    <3>1. i \in 0 .. k /\ i - 1 \in 0 .. k
      OBVIOUS
    <3>2. q[i] = p[i] /\ q[i - 1] = p[i - 1]
      BY <3>1, <2>2
    <3>3. p[i] = History!Call(p[i - 1], b[i], i)
      BY <2>1 DEF Calling
    <3> QED BY <3>2, <3>3
  <2>5. q[k + 1] = History!Call(q[k], b[k + 1], k + 1)
    <3>1. k \in 0 .. k
      OBVIOUS
    <3> QED BY <2>2, <3>1 DEF last
  <2>6. (k + 1) - 1 = k
    OBVIOUS
  <2>7. \A i \in 1 .. k + 1 : q[i] = History!Call(q[i - 1], b[i], i)
    BY <2>3, <2>4, <2>5, <2>6
  <2>8. q[0] = n
    <3>1. 0 \in 0 .. k /\ p[0] = n
      BY <2>1 DEF Calling
    <3> QED BY <2>2, <3>1
  <2>9. Calling(q, k + 1, n, b)
    BY <2>2, <2>7, <2>8 DEF Calling
  <2> QED BY <2>9
<1> HIDE DEF N
<1>3. Nat \subseteq N
  BY <1>1, <1>2, Induction
<1> QED BY <1>3 DEF N

\* Called ends where such a function does.
LEMMA CalledBy ==
  ASSUME NEW n, NEW b, Len(b) \in Nat
  PROVE  \E p : Calling(p, Len(b), n, b) /\ History!Called(n, b) = p[Len(b)]
<1> DEFINE Eqn(f) == f = [i \in 0 .. Len(b) |-> IF i = 0 THEN n ELSE History!Call(f[i - 1], b[i], i)]
           c == CHOOSE f : Eqn(f)
<1>1. History!Called(n, b) = c[Len(b)]
  BY DEF History!Called
<1>2. PICK p : Calling(p, Len(b), n, b)
  BY CallingExists
<1>3. Eqn(p)
  BY <1>2, CallingIs
<1> HIDE DEF Eqn
<1>4. Eqn(c)
  BY <1>3
<1> HIDE DEF c
<1>5. Calling(c, Len(b), n, b)
  BY <1>4, CallingIs DEF Eqn
<1> QED BY <1>1, <1>5

\* m is what the first k calls of b make of n: their ids are new and different.
Behind(m, k, n) ==
  /\ m \in NormType /\ IsFiniteSet(m.used)
  /\ m.out = n.out /\ m.count = n.count /\ m.consumed = n.consumed /\ m.pending = n.pending
  /\ Len(m.batch) = k /\ Distinct(m.batch) /\ Members(m.batch) \cap n.used = {}
  /\ m.used = n.used \cup Members(m.batch) /\ m.calls = n.calls \cup Members(m.batch)

\* Calls with new and different ids of their own keep them.
Plain(b, n) ==
  /\ \A i \in 1 .. Len(b) : b[i].id # None /\ b[i].id \notin n.used
  /\ \A i, j \in 1 .. Len(b) : b[i].id = b[j].id => i = j
  /\ n.source = [i \in n.used |-> i]

Plainly(m, k, b) ==
  /\ \A i \in 1 .. k : m.batch[i] = b[i].id
  /\ m.source = [i \in m.used |-> i]

\* A new member keeps a sequence distinct.
LEMMA DistinctAppend ==
  ASSUME NEW S, NEW s \in Seq(S), Distinct(s), NEW x \in S, x \notin Members(s)
  PROVE  Distinct(Append(s, x))
<1>1. Len(s) \in Nat /\ DOMAIN s = 1 .. Len(s)
  BY LenProperties
<1>2. DOMAIN Append(s, x) = 1 .. Len(s) + 1 /\ Append(s, x)[Len(s) + 1] = x
      /\ \A i \in 1 .. Len(s) : Append(s, x)[i] = s[i] /\ s[i] # x
  <2>1. Append(s, x) \in Seq(S)
    BY AppendProperties
  <2> QED BY <1>1, <2>1, AppendProperties, LenProperties DEF Members
<1>3. \A i \in 1 .. Len(s) + 1 : i \in 1 .. Len(s) \/ i = Len(s) + 1
  BY <1>1
<1> QED BY <1>1, <1>2, <1>3 DEF Distinct

\* One more call.
LEMMA CallOn ==
  ASSUME NEW n \in NormType, NEW b \in Seq(CallType), NEW k \in Nat, k + 1 <= Len(b),
         NEW m, Behind(m, k, n), Plain(b, n) => Plainly(m, k, b)
  PROVE  LET next == History!Call(m, b[k + 1], k + 1)
         IN  Behind(next, k + 1, n) /\ (Plain(b, n) => Plainly(next, k + 1, b))
<1> DEFINE c == b[k + 1]
           next == History!Call(m, c, k + 1)
<1>1. Len(b) \in Nat /\ k + 1 \in 1 .. Len(b) /\ k + 1 \in Nat /\ c \in CallType
  BY LenProperties, ElementOfSeq
<1>2. m \in NormType /\ IsFiniteSet(m.used)
  BY DEF Behind
<1>3. /\ m.batch \in Seq(CallId) /\ m.used \subseteq CallId /\ m.calls \subseteq CallId
      /\ n.used \subseteq CallId
  BY <1>2 DEF NormType
<1> HIDE DEF c
<1>4. PICK id \in CallId, source \in SourceType :
            /\ id \notin m.used
            /\ c.id # None /\ c.id \notin m.used => id = c.id
            /\ c.id # None /\ c.id \notin DOMAIN m.source =>
                  source = [i \in DOMAIN m.source \cup {c.id} |-> IF i = c.id THEN id ELSE m.source[i]]
            /\ next = [m EXCEPT !.used = @ \cup {id}, !.source = source,
                            !.calls = @ \cup {id}, !.batch = Append(@, id)]
  <2>1. CallMakes(next, m, c)
    BY <1>1, <1>2, CallIs
  <2> QED BY <2>1 DEF CallMakes
<1> HIDE DEF next
<1>5. Append(m.batch, id) \in Seq(CallId) /\ Len(Append(m.batch, id)) = k + 1
  BY <1>3, AppendProperties, LenProperties DEF Behind
<1>6. Members(Append(m.batch, id)) = Members(m.batch) \cup {id}
  BY <1>3, MembersOfAppend
<1>7. id \notin Members(m.batch) /\ id \notin n.used
  BY <1>4 DEF Behind
<1>8. Distinct(Append(m.batch, id))
  BY <1>3, <1>7, DistinctAppend DEF Behind
<1>9. IsFiniteSet(m.used \cup {id})
  BY <1>2, FS_AddElement
<1>10. /\ next \in NormType
       /\ next.used = m.used \cup {id} /\ next.source = source /\ next.calls = m.calls \cup {id}
       /\ next.batch = Append(m.batch, id) /\ next.out = m.out /\ next.count = m.count
       /\ next.consumed = m.consumed /\ next.pending = m.pending
  BY <1>2, <1>3, <1>4, <1>5 DEF NormType
<1>11. Behind(next, k + 1, n)
  BY <1>5, <1>6, <1>7, <1>8, <1>9, <1>10 DEF Behind
<1>12. ASSUME Plain(b, n) PROVE Plainly(next, k + 1, b)
  <2>1. Plainly(m, k, b)
    BY <1>12
  <2>2. c.id # None /\ c.id \notin n.used
    BY <1>1, <1>12 DEF Plain, c
  <2>3. DOMAIN m.batch = 1 .. k
    BY <1>3, LenProperties DEF Behind
  <2>4. c.id \notin Members(m.batch)
    <3>1. SUFFICES ASSUME NEW i \in 1 .. k, m.batch[i] = c.id PROVE FALSE
      BY <2>3 DEF Members
    <3>2. b[i].id = b[k + 1].id
      BY <3>1, <2>1 DEF Plainly, c
    <3>3. i \in 1 .. Len(b) /\ i # k + 1
      BY <1>1
    <3> QED BY <1>1, <1>12, <3>2, <3>3 DEF Plain
  <2>5. c.id \notin m.used
    BY <2>2, <2>4 DEF Behind
  <2>6. id = c.id
    BY <1>4, <2>2, <2>5
  <2>7. m.source = [i \in m.used |-> i]
    BY <2>1 DEF Plainly
  <2>8. source = [i \in m.used \cup {id} |-> i]
    <3>1. DOMAIN m.source = m.used /\ \A i \in m.used : m.source[i] = i
      BY <2>7
    <3>2. source = [i \in m.used \cup {c.id} |-> IF i = c.id THEN id ELSE m.source[i]]
      BY <1>4, <2>2, <2>5, <3>1
    <3>3. \A i \in m.used \cup {c.id} : (IF i = c.id THEN id ELSE m.source[i]) = i
      BY <2>6, <3>1
    <3> QED BY <2>6, <3>2, <3>3
  <2>9. \A i \in 1 .. k + 1 : Append(m.batch, id)[i] = b[i].id
    <3>1. SUFFICES ASSUME NEW i \in 1 .. k + 1 PROVE Append(m.batch, id)[i] = b[i].id
      OBVIOUS
    <3>2. CASE i = k + 1
      <4>1. Append(m.batch, id)[k + 1] = id
        BY <1>3, AppendProperties DEF Behind
      <4> QED BY <3>2, <4>1, <2>6 DEF c
    <3>3. CASE i \in 1 .. k
      <4>1. Append(m.batch, id)[i] = m.batch[i]
        BY <1>3, <3>3, AppendProperties DEF Behind
      <4> QED BY <3>3, <4>1, <2>1 DEF Plainly
    <3>4. i \in 1 .. k \/ i = k + 1
      OBVIOUS
    <3> QED BY <3>2, <3>3, <3>4
  <2> QED BY <1>10, <2>8, <2>9 DEF Plainly
<1> QED BY <1>11, <1>12 DEF next, c

\* All the calls of a message.
LEMMA CalledIs ==
  ASSUME NEW n \in NormType, IsFiniteSet(n.used), n.batch = << >>, NEW b \in Seq(CallType)
  PROVE  /\ Behind(History!Called(n, b), Len(b), n)
         /\ Plain(b, n) => Plainly(History!Called(n, b), Len(b), b)
<1>1. Len(b) \in Nat
  BY LenProperties
<1>2. PICK p : Calling(p, Len(b), n, b) /\ History!Called(n, b) = p[Len(b)]
  BY <1>1, CalledBy
<1> DEFINE Good(m, k) == Behind(m, k, n) /\ (Plain(b, n) => Plainly(m, k, b))
           K == {k \in Nat : k <= Len(b) => Good(p[k], k)}
<1>3. 0 \in K
  <2>1. p[0] = n
    BY <1>2 DEF Calling
  <2>2. Len(<< >>) = 0 /\ Members(<< >>) = {} /\ Distinct(<< >>)
    BY DEF Members, Distinct
  <2>3. Behind(n, 0, n)
    BY <2>2 DEF Behind
  <2>4. Plain(b, n) => Plainly(n, 0, b)
    BY DEF Plain, Plainly
  <2> QED BY <2>1, <2>3, <2>4
<1>4. \A k \in Nat : k \in K => k + 1 \in K
  <2>1. SUFFICES ASSUME NEW k \in Nat, k + 1 <= Len(b), k \in K PROVE Good(p[k + 1], k + 1)
    OBVIOUS
  <2>2. Good(p[k], k)
    BY <2>1, <1>1
  <2>3. k + 1 \in 1 .. Len(b) /\ (k + 1) - 1 = k
    BY <2>1, <1>1
  <2>4. p[k + 1] = History!Call(p[k], b[k + 1], k + 1)
    BY <2>3, <1>2 DEF Calling
  <2> QED BY <2>1, <2>2, <2>4, CallOn
<1> HIDE DEF K
<1>5. Nat \subseteq K
  BY <1>3, <1>4, Induction
<1> QED BY <1>1, <1>2, <1>5 DEF K

IsResult(m) == m.role = "tool"
CallIdsOf(o) == {x \in CallId : \E i \in 1 .. Len(o) : \E k \in 1 .. Len(o[i].calls) : o[i].calls[k].id = x}

\* Calls have different ids ...
AllDifferent(o) ==
  \A i, j \in 1 .. Len(o) : \A k \in 1 .. Len(o[i].calls), l \in 1 .. Len(o[j].calls) :
     o[i].calls[k].id = o[j].calls[l].id => i = j /\ k = l

\* ... and a result names one before it, and one of those it comes behind, in order.
Placed(o, i) ==
  /\ \E j \in 1 .. i - 1 : \E k \in 1 .. Len(o[j].calls) : o[j].calls[k].id = o[i].id
  /\ \E j \in 1 .. i - 1 :
        /\ ~IsResult(o[j]) /\ \A h \in j + 1 .. i - 1 : IsResult(o[h])
        /\ \/ o[j].calls = << >>
           \/ /\ \E k \in 1 .. Len(o[j].calls) : o[j].calls[k].id = o[i].id
              /\ j < i - 1 => \E a, b \in 1 .. Len(o[j].calls) :
                    a <= b /\ o[j].calls[a].id = o[i - 1].id /\ o[j].calls[b].id = o[i].id

Tidy(o) == AllDifferent(o) /\ \A i \in 1 .. Len(o) : IsResult(o[i]) => Placed(o, i)

\* A result stays in its place whatever comes behind it.
LEMMA PlacedStays ==
  ASSUME NEW o, NEW u, NEW i \in Nat, \A j \in 1 .. i : u[j] = o[j], Placed(o, i)
  PROVE  Placed(u, i)
<1>1. \A j \in 1 .. i - 1 : j \in 1 .. i /\ u[j] = o[j]
  OBVIOUS
<1>2. PICK j \in 1 .. i - 1 : \E k \in 1 .. Len(o[j].calls) : o[j].calls[k].id = o[i].id
  BY DEF Placed
<1>3. i \in 1 .. i /\ u[i] = o[i]
  BY <1>2
<1>4. \E k \in 1 .. Len(u[j].calls) : u[j].calls[k].id = u[i].id
  BY <1>1, <1>2, <1>3
<1>5. PICK g \in 1 .. i - 1 :
        /\ ~IsResult(o[g]) /\ \A h \in g + 1 .. i - 1 : IsResult(o[h])
        /\ \/ o[g].calls = << >>
           \/ /\ \E k \in 1 .. Len(o[g].calls) : o[g].calls[k].id = o[i].id
              /\ g < i - 1 => \E a, b \in 1 .. Len(o[g].calls) :
                    a <= b /\ o[g].calls[a].id = o[i - 1].id /\ o[g].calls[b].id = o[i].id
  BY DEF Placed
<1>6. u[g] = o[g] /\ u[i] = o[i]
  BY <1>1, <1>3
<1>7. \A h \in g + 1 .. i - 1 : IsResult(u[h])
  <2>1. SUFFICES ASSUME NEW h \in g + 1 .. i - 1 PROVE IsResult(u[h])
    OBVIOUS
  <2>2. h \in 1 .. i
    OBVIOUS
  <2> QED BY <2>2, <1>5
<1>8. u[i - 1] = o[i - 1]
  <2>1. i - 1 \in 1 .. i
    BY <1>5
  <2> QED BY <2>1
<1>9. /\ ~IsResult(u[g]) /\ \A h \in g + 1 .. i - 1 : IsResult(u[h])
      /\ \/ u[g].calls = << >>
         \/ /\ \E k \in 1 .. Len(u[g].calls) : u[g].calls[k].id = u[i].id
            /\ g < i - 1 => \E a, b \in 1 .. Len(u[g].calls) :
                  a <= b /\ u[g].calls[a].id = u[i - 1].id /\ u[g].calls[b].id = u[i].id
  BY <1>5, <1>6, <1>7, <1>8
<1> QED BY <1>4, <1>9 DEF Placed

\* The calls of messages are sequences.
LEMMA CallsAre ==
  ASSUME NEW o \in Seq(MessageType), NEW i \in 1 .. Len(o)
  PROVE  /\ o[i] \in MessageType /\ o[i].calls \in Seq(CallType) /\ Len(o[i].calls) \in Nat
         /\ DOMAIN o[i].calls = 1 .. Len(o[i].calls)
         /\ \A k \in 1 .. Len(o[i].calls) : o[i].calls[k].id \in CallId
<1>1. o[i] \in MessageType
  BY ElementOfSeq
<1>2. o[i].calls \in Seq(CallType)
  BY <1>1 DEF MessageType
<1>3. \A k \in 1 .. Len(o[i].calls) : o[i].calls[k] \in CallType
  BY <1>2, ElementOfSeq
<1> QED BY <1>1, <1>2, <1>3, LenProperties DEF CallType

\* A message that is no result, with new and different ids, keeps a history tidy.
LEMMA TidyAppend ==
  ASSUME NEW o \in Seq(MessageType), Tidy(o), NEW m \in MessageType, ~IsResult(m),
         \A k, l \in 1 .. Len(m.calls) : m.calls[k].id = m.calls[l].id => k = l,
         \A k \in 1 .. Len(m.calls) : m.calls[k].id \notin CallIdsOf(o)
  PROVE  /\ Tidy(Append(o, m))
         /\ CallIdsOf(Append(o, m)) = CallIdsOf(o) \cup {m.calls[k].id : k \in 1 .. Len(m.calls)}
<1> DEFINE u == Append(o, m)
           n == Len(o)
<1>1. u \in Seq(MessageType) /\ n \in Nat /\ Len(u) = n + 1 /\ u[n + 1] = m
      /\ \A i \in 1 .. n : u[i] = o[i]
  BY AppendProperties, LenProperties
<1> HIDE DEF u, n
<1>2. \A i \in 1 .. n + 1 : i \in 1 .. n \/ i = n + 1
  BY <1>1
<1>3. \A i \in 1 .. n : \A k \in 1 .. Len(o[i].calls) :
         o[i].calls[k].id \in CallId /\ o[i].calls[k].id \in CallIdsOf(o)
  BY CallsAre DEF n, CallIdsOf
<1>4. AllDifferent(u)
  <2>1. SUFFICES ASSUME NEW i \in 1 .. n + 1, NEW j \in 1 .. n + 1,
                        NEW k \in 1 .. Len(u[i].calls), NEW l \in 1 .. Len(u[j].calls),
                        u[i].calls[k].id = u[j].calls[l].id
                 PROVE  i = j /\ k = l
    BY <1>1 DEF AllDifferent
  <2>2. CASE i \in 1 .. n /\ j \in 1 .. n
    <3>1. u[i] = o[i] /\ u[j] = o[j]
      BY <2>2, <1>1
    <3> QED BY <2>1, <2>2, <3>1 DEF Tidy, AllDifferent, n
  <2>3. CASE i \in 1 .. n /\ j = n + 1
    BY <2>1, <2>3, <1>1, <1>3
  <2>4. CASE i = n + 1 /\ j \in 1 .. n
    BY <2>1, <2>4, <1>1, <1>3
  <2>5. CASE i = n + 1 /\ j = n + 1
    BY <2>1, <2>5, <1>1
  <2> QED BY <1>2, <2>2, <2>3, <2>4, <2>5
<1>5. ASSUME NEW i \in 1 .. n + 1, IsResult(u[i]) PROVE Placed(u, i)
  <2>1. i \in 1 .. n
    BY <1>1, <1>2, <1>5
  <2>2. u[i] = o[i] /\ \A j \in 1 .. i : u[j] = o[j]
    BY <2>1, <1>1
  <2>3. Placed(o, i)
    BY <2>1, <2>2, <1>5 DEF Tidy, n
  <2> QED BY <2>2, <2>3, PlacedStays
<1>6. Tidy(u)
  BY <1>1, <1>4, <1>5 DEF Tidy
<1> DEFINE M == {m.calls[k].id : k \in 1 .. Len(m.calls)}
<1>7. M \subseteq CallId
  <2>1. n + 1 \in 1 .. Len(u)
    BY <1>1
  <2>2. \A k \in 1 .. Len(u[n + 1].calls) : u[n + 1].calls[k].id \in CallId
    BY <1>1, <2>1, CallsAre
  <2> QED BY <2>2, <1>1
<1>8. ASSUME NEW x \in CallId PROVE x \in CallIdsOf(u) <=> x \in CallIdsOf(o) \cup M
  <2>1. ASSUME x \in CallIdsOf(u) PROVE x \in CallIdsOf(o) \cup M
    <3>1. PICK i \in 1 .. n + 1 : \E k \in 1 .. Len(u[i].calls) : u[i].calls[k].id = x
      BY <2>1, <1>1 DEF CallIdsOf
    <3>2. CASE i \in 1 .. n
      BY <3>1, <3>2, <1>1 DEF CallIdsOf, n
    <3>3. CASE i = n + 1
      BY <3>1, <3>3, <1>1
    <3> QED BY <3>2, <3>3, <1>2
  <2>2. ASSUME x \in CallIdsOf(o) PROVE x \in CallIdsOf(u)
    <3>1. PICK i \in 1 .. n : \E k \in 1 .. Len(o[i].calls) : o[i].calls[k].id = x
      BY <2>2 DEF CallIdsOf, n
    <3>2. i \in 1 .. Len(u) /\ u[i] = o[i]
      BY <1>1
    <3> QED BY <3>1, <3>2 DEF CallIdsOf
  <2>3. ASSUME x \in M PROVE x \in CallIdsOf(u)
    <3>1. n + 1 \in 1 .. Len(u) /\ u[n + 1] = m
      BY <1>1
    <3> QED BY <3>1, <2>3 DEF CallIdsOf
  <2> QED BY <2>1, <2>2, <2>3
<1>9. CallIdsOf(u) = CallIdsOf(o) \cup M
  <2>1. CallIdsOf(u) \subseteq CallId /\ CallIdsOf(o) \subseteq CallId
    BY DEF CallIdsOf
  <2> HIDE DEF M
  <2> QED BY <2>1, <1>7, <1>8
<1> QED BY <1>6, <1>9 DEF u

\* What a flush of n sends up: results, and one message of their images.
Sent(n) == IF n.batch = << >> THEN n.pending ELSE History!InBatchOrder(n, n.pending)
Pictures(s) == IF \E i \in DOMAIN s : s[i].image THEN <<History!Images>> ELSE << >>

\* What the client sends, and the message of the images, are messages.
LEMMA KindsOfMessages ==
  ASSUME NEW call \in Seq(CallType), NEW id \in ResultId, NEW b \in BOOLEAN
  PROVE  /\ History!Blank \in MessageType /\ History!Images \in MessageType
         /\ History!User \in MessageType /\ History!System \in MessageType
         /\ History!Assistant(call, b) \in MessageType /\ History!Result(id, b) \in MessageType
<1>1. None \in CallId /\ id \in CallId /\ << >> \in Seq(CallType)
  BY PartsAssumption DEF History!HistoryAssumption, CallId
<1>2. History!Blank \in MessageType
  BY <1>1 DEF MessageType, History!Blank
<1>3. History!Images \in MessageType /\ History!User \in MessageType /\ History!System \in MessageType
  BY <1>1 DEF MessageType, History!Blank, History!Images, History!User, History!System
<1>4. History!Assistant(call, b) \in MessageType
  BY <1>1 DEF MessageType, History!Blank, History!Assistant
<1>5. History!Result(id, b) \in MessageType
  BY <1>1 DEF MessageType, History!Blank, History!Result
<1> QED BY <1>2, <1>3, <1>4, <1>5

\* The message of the images is no result and calls nothing.
LEMMA ImagesAre ==
  /\ History!Images \in MessageType /\ ~IsResult(History!Images) /\ History!Images.calls = << >>
<1>1. << >> \in Seq(CallType) /\ None \in ResultId /\ TRUE \in BOOLEAN
  BY PartsAssumption DEF History!HistoryAssumption
<1>2. History!Images \in MessageType
  BY <1>1, KindsOfMessages
<1> QED BY <1>2 DEF History!Images, History!Blank, IsResult

\* There is at most one message of images.
LEMMA PicturesAre ==
  ASSUME NEW s
  PROVE  Pictures(s) = << >> \/ Pictures(s) = <<History!Images>>
BY DEF Pictures

\* What is pending in n may go up: each is the result of a call that went up before.
Waiting(n) ==
  \A r \in Members(n.pending) : IsResult(r) /\ r.calls = << >> /\ r.id \in CallIdsOf(n.out)

\* The last message that went up is no result, and the batch are the ids of its calls.
Batched(n) ==
  \/ n.out = << >> /\ n.batch = << >>
  \/ /\ Len(n.out) > 0 /\ ~IsResult(n.out[Len(n.out)])
     /\ Len(n.out[Len(n.out)].calls) = Len(n.batch)
     /\ \A k \in 1 .. Len(n.batch) : n.out[Len(n.out)].calls[k].id = n.batch[k]

NormSound(n) ==
  /\ n \in NormType /\ IsFiniteSet(n.used) /\ Distinct(n.batch)
  /\ n.used = CallIdsOf(n.out) /\ n.calls = CallIdsOf(n.out)
  /\ Tidy(n.out) /\ Waiting(n) /\ Batched(n)

\* What a flush sends up was pending, and behind a batch answers it in its order.
LEMMA SentAre ==
  ASSUME NEW n \in NormType
  PROVE  /\ Sent(n) \in Seq(MessageType)
         /\ \A r \in Members(Sent(n)) : r \in Members(n.pending)
         /\ n.batch # << >> =>
              /\ Ascends(Sent(n), n.batch)
              /\ \A r \in Members(Sent(n)) : \E k \in 1 .. Len(n.batch) : n.batch[k] = r.id
<1>1. n.batch \in Seq(CallId) /\ n.pending \in Seq(MessageType)
  BY DEF NormType
<1>2. CASE n.batch = << >>
  BY <1>1, <1>2 DEF Sent
<1>3. CASE n.batch # << >>
  <2>1. Sorted(History!InBatchOrder(n, n.pending), Len(n.batch), n.batch, n.pending)
    BY <1>1, BatchIsSorted
  <2> QED BY <2>1, <1>3 DEF Sent, Sorted
<1> QED BY <1>2, <1>3

\* A flush appends what it sends and its images, and leaves nothing pending (flushToolResults).
LEMMA FlushIs ==
  ASSUME NEW n \in NormType
  PROVE  /\ History!Flush(n) = [n EXCEPT !.out = (@ \o Sent(n)) \o Pictures(Sent(n)), !.pending = << >>]
         /\ Pictures(Sent(n)) \in Seq(MessageType) /\ n.out \o Sent(n) \in Seq(MessageType)
         /\ (n.out \o Sent(n)) \o Pictures(Sent(n)) \in Seq(MessageType)
         /\ History!Flush(n) \in NormType
<1>1. History!Flush(n) = [n EXCEPT !.out = (@ \o Sent(n)) \o Pictures(Sent(n)), !.pending = << >>]
  BY DEF History!Flush, Sent, Pictures
<1>2. Sent(n) \in Seq(MessageType) /\ n.out \in Seq(MessageType)
  BY SentAre DEF NormType
<1>3. Pictures(Sent(n)) \in Seq(MessageType)
  <2>1. << >> \in Seq(MessageType) /\ <<History!Images>> \in Seq(MessageType)
    BY ImagesAre
  <2> QED BY <2>1, PicturesAre
<1>4. n.out \o Sent(n) \in Seq(MessageType)
  BY <1>2, ConcatProperties
<1>5. (n.out \o Sent(n)) \o Pictures(Sent(n)) \in Seq(MessageType)
  BY <1>3, <1>4, ConcatProperties
<1>6. << >> \in Seq(MessageType)
  OBVIOUS
<1>7. History!Flush(n) \in NormType
  BY <1>1, <1>5, <1>6 DEF NormType
<1> QED BY <1>1, <1>3, <1>4, <1>5, <1>7

\* What a flush changes, and what it leaves alone.
LEMMA FlushKeeps ==
  ASSUME NEW n \in NormType
  PROVE  /\ History!Flush(n) \in NormType /\ History!Flush(n).pending = << >>
         /\ History!Flush(n).used = n.used /\ History!Flush(n).calls = n.calls
         /\ History!Flush(n).source = n.source /\ History!Flush(n).count = n.count
         /\ History!Flush(n).batch = n.batch /\ History!Flush(n).consumed = n.consumed
         /\ History!Flush(n).out = (n.out \o Sent(n)) \o Pictures(Sent(n))
<1> DEFINE o == (n.out \o Sent(n)) \o Pictures(Sent(n))
           f == History!Flush(n)
<1>1. f = [n EXCEPT !.out = o, !.pending = << >>] /\ f \in NormType /\ o \in Seq(MessageType)
  <2>1. History!Flush(n) = [n EXCEPT !.out = (@ \o Sent(n)) \o Pictures(Sent(n)), !.pending = << >>]
    BY FlushIs
  <2>2. [n EXCEPT !.out = (@ \o Sent(n)) \o Pictures(Sent(n)), !.pending = << >>]
          = [n EXCEPT !.out = o, !.pending = << >>]
    BY Zenon
  <2> QED BY <2>1, <2>2, FlushIs
<1> HIDE DEF o, f
<1>2. /\ f.used = n.used /\ f.calls = n.calls /\ f.source = n.source /\ f.count = n.count
      /\ f.batch = n.batch /\ f.consumed = n.consumed /\ f.out = o /\ f.pending = << >>
  BY <1>1 DEF NormType
<1> QED BY <1>1, <1>2 DEF o, f

\* Results go up behind the calls they answer.
LEMMA SentTidy ==
  ASSUME NEW n, NormSound(n)
  PROVE  Tidy(n.out \o Sent(n)) /\ CallIdsOf(n.out \o Sent(n)) = CallIdsOf(n.out)
<1> DEFINE o == n.out
           s == Sent(n)
           u == o \o s
           L == Len(o)
<1>1. n \in NormType
  BY DEF NormSound
<1>2. o \in Seq(MessageType) /\ s \in Seq(MessageType) /\ L \in Nat /\ Len(s) \in Nat
  BY <1>1, SentAre, LenProperties DEF NormType
<1>3. u \in Seq(MessageType) /\ Len(u) = L + Len(s)
  BY <1>2, ConcatProperties
<1>4. \A i \in 1 .. L : u[i] = o[i]
  BY <1>2, ConcatProperties
<1>5. \A i \in L + 1 .. L + Len(s) : u[i] = s[i - L]
  BY <1>2, ConcatProperties
<1>6. \A i \in 1 .. Len(s) : s[i] \in Members(s) /\ s[i] \in Members(n.pending)
  <2>1. \A i \in 1 .. Len(s) : s[i] \in Members(s)
    BY <1>2, LenProperties DEF Members
  <2> QED BY <1>1, <2>1, SentAre
<1>7. \A i \in 1 .. Len(s) : IsResult(s[i]) /\ s[i].calls = << >> /\ s[i].id \in CallIdsOf(o)
  BY <1>6 DEF NormSound, Waiting
<1>8. n.batch # << >> =>
        /\ Ascends(s, n.batch)
        /\ \A i \in 1 .. Len(s) : \E k \in 1 .. Len(n.batch) : n.batch[k] = s[i].id
  BY <1>1, <1>6, SentAre
<1>9. n.batch \in Seq(CallId) /\ Len(n.batch) \in Nat
  BY <1>1, LenProperties DEF NormType
<1> HIDE DEF u, s
<1>10. \A i \in 1 .. Len(u) : i \in 1 .. L \/ i \in L + 1 .. L + Len(s)
  BY <1>2, <1>3
<1>11. \A i \in L + 1 .. L + Len(s) : i - L \in 1 .. Len(s)
  BY <1>2
<1>12. ASSUME NEW i \in L + 1 .. L + Len(s) PROVE 1 .. Len(u[i].calls) = {}
  <2>1. u[i].calls = << >>
    BY <1>5, <1>7, <1>11
  <2>2. Len(<< >>) = 0 /\ 1 .. 0 = {}
    OBVIOUS
  <2> QED BY <2>1, <2>2
<1>13. AllDifferent(u)
  <2>1. SUFFICES ASSUME NEW i \in 1 .. Len(u), NEW j \in 1 .. Len(u),
                        NEW k \in 1 .. Len(u[i].calls), NEW l \in 1 .. Len(u[j].calls),
                        u[i].calls[k].id = u[j].calls[l].id
                 PROVE  i = j /\ k = l
    BY DEF AllDifferent
  <2>2. i \in 1 .. L /\ j \in 1 .. L
    BY <1>10, <1>12
  <2>3. u[i] = o[i] /\ u[j] = o[j]
    BY <2>2, <1>4
  <2>4. AllDifferent(o)
    BY DEF NormSound, Tidy
  <2> HIDE DEF o, L
  <2> QED BY <2>1, <2>2, <2>3, <2>4 DEF AllDifferent, L
<1>14. ASSUME NEW i \in L + 1 .. L + Len(s) PROVE Placed(u, i)
  <2>1. i - L \in 1 .. Len(s) /\ u[i] = s[i - L]
    BY <1>5, <1>11
  <2>2. u[i].id \in CallIdsOf(o)
    BY <2>1, <1>7
  <2>3. PICK j \in 1 .. L : \E k \in 1 .. Len(o[j].calls) : o[j].calls[k].id = u[i].id
    BY <2>2 DEF CallIdsOf
  <2>4. j \in 1 .. i - 1 /\ u[j] = o[j] /\ L > 0
    BY <2>3, <1>2, <1>4
  <2>5. o # << >>
    BY <2>4
  <2>6. /\ ~IsResult(o[L]) /\ Len(o[L].calls) = Len(n.batch)
        /\ \A k \in 1 .. Len(n.batch) : o[L].calls[k].id = n.batch[k]
    BY <2>5 DEF NormSound, Batched
  <2>7. L \in 1 .. L /\ u[L] = o[L] /\ L \in 1 .. i - 1
    BY <2>4, <1>2, <1>4
  <2>8. \A h \in L + 1 .. i - 1 : IsResult(u[h])
    <3>1. SUFFICES ASSUME NEW h \in L + 1 .. i - 1 PROVE IsResult(u[h])
      OBVIOUS
    <3>2. h \in L + 1 .. L + Len(s)
      BY <1>2
    <3>3. u[h] = s[h - L] /\ h - L \in 1 .. Len(s)
      BY <3>2, <1>5, <1>11
    <3> QED BY <3>3, <1>7
  <2>9. o[L].calls \in Seq(CallType)
    BY <1>2, <2>7, CallsAre
  <2>10. \/ u[L].calls = << >>
         \/ /\ \E k \in 1 .. Len(u[L].calls) : u[L].calls[k].id = u[i].id
            /\ L < i - 1 => \E a, b \in 1 .. Len(u[L].calls) :
                  a <= b /\ u[L].calls[a].id = u[i - 1].id /\ u[L].calls[b].id = u[i].id
    <3>1. CASE n.batch = << >>
      <4>1. Len(o[L].calls) = 0
        BY <3>1, <2>6
      <4> QED BY <4>1, <2>7, <2>9, EmptySeq
    <3>2. CASE n.batch # << >>
      <4>1. \E k \in 1 .. Len(u[L].calls) : u[L].calls[k].id = u[i].id
        <5>1. PICK k \in 1 .. Len(n.batch) : n.batch[k] = s[i - L].id
          BY <3>2, <1>8, <2>1
        <5>2. o[L].calls[k].id = u[i].id /\ k \in 1 .. Len(o[L].calls)
          BY <5>1, <2>1, <2>6
        <5> QED BY <5>2, <2>7
      <4>2. ASSUME L < i - 1
            PROVE  \E a, b \in 1 .. Len(u[L].calls) :
                      a <= b /\ u[L].calls[a].id = u[i - 1].id /\ u[L].calls[b].id = u[i].id
        <5>1. i - L \in 2 .. Len(s) /\ (i - L) - 1 = (i - 1) - L /\ i - 1 \in L + 1 .. L + Len(s)
          BY <4>2, <1>2, <2>1
        <5>2. u[i - 1] = s[(i - L) - 1]
          BY <5>1, <1>5
        <5>3. PICK a, b \in 1 .. Len(n.batch) :
                 a <= b /\ n.batch[a] = s[(i - L) - 1].id /\ n.batch[b] = s[i - L].id
          BY <3>2, <5>1, <1>8 DEF Ascends
        <5>4. o[L].calls[a].id = u[i - 1].id /\ o[L].calls[b].id = u[i].id
          BY <5>2, <5>3, <2>1, <2>6
        <5>5. a \in 1 .. Len(o[L].calls) /\ b \in 1 .. Len(o[L].calls)
          BY <2>6
        <5> QED BY <5>3, <5>4, <5>5, <2>7
      <4> QED BY <4>1, <4>2
    <3> QED BY <3>1, <3>2
  <2>11. \E k \in 1 .. Len(u[j].calls) : u[j].calls[k].id = u[i].id
    BY <2>3, <2>4
  <2>12. ~IsResult(u[L])
    BY <2>6, <2>7
  <2> QED BY <2>4, <2>7, <2>8, <2>10, <2>11, <2>12 DEF Placed
<1>15. ASSUME NEW i \in 1 .. L, IsResult(u[i]) PROVE Placed(u, i)
  <2>1. u[i] = o[i] /\ \A j \in 1 .. i : u[j] = o[j]
    BY <1>4
  <2>2. Placed(o, i)
    BY <1>15, <2>1 DEF NormSound, Tidy
  <2> HIDE DEF o, L
  <2> QED BY <2>1, <2>2, PlacedStays
<1>16. Tidy(u)
  BY <1>10, <1>13, <1>14, <1>15 DEF Tidy
<1>17. ASSUME NEW x \in CallId PROVE x \in CallIdsOf(u) <=> x \in CallIdsOf(o)
  <2>1. ASSUME x \in CallIdsOf(u) PROVE x \in CallIdsOf(o)
    <3>1. PICK i \in 1 .. Len(u) : \E k \in 1 .. Len(u[i].calls) : u[i].calls[k].id = x
      BY <2>1 DEF CallIdsOf
    <3>2. i \in 1 .. L
      BY <3>1, <1>10, <1>12
    <3>3. u[i] = o[i]
      BY <3>2, <1>4
    <3> QED BY <3>1, <3>2, <3>3 DEF CallIdsOf
  <2>2. ASSUME x \in CallIdsOf(o) PROVE x \in CallIdsOf(u)
    <3>1. PICK i \in 1 .. L : \E k \in 1 .. Len(o[i].calls) : o[i].calls[k].id = x
      BY <2>2 DEF CallIdsOf
    <3>2. i \in 1 .. Len(u) /\ u[i] = o[i]
      BY <1>2, <1>3, <1>4
    <3> QED BY <3>1, <3>2 DEF CallIdsOf
  <2> QED BY <2>1, <2>2
<1>18. CallIdsOf(u) \subseteq CallId /\ CallIdsOf(o) \subseteq CallId
  BY DEF CallIdsOf
<1>19. CallIdsOf(u) = CallIdsOf(o)
  BY <1>17, <1>18
<1> QED BY <1>16, <1>19 DEF u, s

\* A flush leaves the history tidy.
LEMMA FlushTidy ==
  ASSUME NEW n, NormSound(n)
  PROVE  /\ Tidy(History!Flush(n).out) /\ CallIdsOf(History!Flush(n).out) = CallIdsOf(n.out)
<1>1. n \in NormType
  BY DEF NormSound
<1> DEFINE o == n.out \o Sent(n)
           s == Sent(n)
<1>2. o \in Seq(MessageType) /\ Tidy(o) /\ CallIdsOf(o) = CallIdsOf(n.out)
  BY <1>1, SentTidy, FlushIs
<1>3. History!Flush(n).out = o \o Pictures(s)
  BY <1>1, FlushIs DEF NormType
<1> HIDE DEF o, s
<1>4. CASE Pictures(s) = << >>
  <2>1. o \o << >> = o
    BY <1>2, ConcatEmptySeq
  <2> QED BY <1>2, <1>3, <1>4, <2>1
<1>5. CASE Pictures(s) = <<History!Images>>
  <2> DEFINE m == History!Images
  <2>1. m \in MessageType /\ ~IsResult(m) /\ m.calls = << >>
    BY ImagesAre
  <2> HIDE DEF m
  <2>2. 1 .. Len(m.calls) = {}
    <3>1. Len(<< >>) = 0 /\ 1 .. 0 = {}
      OBVIOUS
    <3> QED BY <3>1, <2>1
  <2>3. o \o <<m>> = Append(o, m)
    BY <1>2, <2>1, AppendIsConcat
  <2>4. /\ Tidy(Append(o, m))
        /\ CallIdsOf(Append(o, m)) = CallIdsOf(o) \cup {m.calls[k].id : k \in 1 .. Len(m.calls)}
    BY <1>2, <2>1, <2>2, TidyAppend
  <2>5. CallIdsOf(Append(o, m)) = CallIdsOf(o)
    BY <2>2, <2>4
  <2> QED BY <1>2, <1>3, <1>5, <2>3, <2>4, <2>5 DEF m
<1> QED BY <1>4, <1>5, PicturesAre

\* A message of the client's: calls are an assistant's.
Told(m) == m \in MessageType /\ (m.role # "assistant" => m.calls = << >>)

\* An empty sequence has no places, no members and nothing twice.
LEMMA NoneIn == 1 .. Len(<< >>) = {} /\ Members(<< >>) = {} /\ Distinct(<< >>)
BY DEF Members, Distinct

\* The locals an assistant message starts its calls with.
Start(n) == [History!Flush(n) EXCEPT !.consumed = {}, !.batch = << >>]

\* They are those behind a flush, with no batch.
LEMMA StartIs ==
  ASSUME NEW n \in NormType
  PROVE  /\ Start(n) \in NormType /\ Start(n).batch = << >> /\ Start(n).pending = << >>
         /\ Start(n).consumed = {} /\ Start(n).used = n.used /\ Start(n).calls = n.calls
         /\ Start(n).source = n.source /\ Start(n).count = n.count
         /\ Start(n).out = History!Flush(n).out
<1> DEFINE f == History!Flush(n)
<1>1. /\ f \in NormType /\ f.pending = << >> /\ f.used = n.used /\ f.calls = n.calls
      /\ f.source = n.source /\ f.count = n.count
  BY FlushKeeps
<1>3. Start(n) = [f EXCEPT !.consumed = {}, !.batch = << >>]
  BY DEF Start
<1> HIDE DEF f
<1>2. << >> \in Seq(CallId) /\ {} \in SUBSET CallId
  OBVIOUS
<1>4. [f EXCEPT !.consumed = {}, !.batch = << >>] \in NormType
  BY <1>1, <1>2 DEF NormType
<1>5. /\ Start(n).batch = << >> /\ Start(n).pending = << >> /\ Start(n).consumed = {}
      /\ Start(n).used = n.used /\ Start(n).calls = n.calls /\ Start(n).source = n.source
      /\ Start(n).count = n.count /\ Start(n).out = f.out
  BY <1>1, <1>3 DEF NormType
<1> QED BY <1>3, <1>4, <1>5 DEF f

\* What an assistant message goes up as, and the locals behind it.
Named(m, batch) == [m EXCEPT !.calls = [i \in DOMAIN m.calls |-> [m.calls[i] EXCEPT !.id = batch[i]]]]

\* A message whose calls get the ids of a batch is the same but for them.
LEMMA NamedIs ==
  ASSUME NEW m \in MessageType, NEW batch \in Seq(CallId), Len(batch) = Len(m.calls)
  PROVE  /\ Named(m, batch) \in MessageType /\ Named(m, batch).role = m.role
         /\ Len(Named(m, batch).calls) = Len(batch)
         /\ \A k \in 1 .. Len(batch) : Named(m, batch).calls[k] = [m.calls[k] EXCEPT !.id = batch[k]]
         /\ \A k \in 1 .. Len(batch) : Named(m, batch).calls[k].id = batch[k]
<1> DEFINE b == m.calls
           c == [i \in DOMAIN b |-> [b[i] EXCEPT !.id = batch[i]]]
<1>1. b \in Seq(CallType) /\ Len(b) \in Nat /\ DOMAIN b = 1 .. Len(b)
  BY LenProperties DEF MessageType
<1>2. \A k \in 1 .. Len(b) : b[k] \in CallType /\ batch[k] \in CallId
  BY <1>1, ElementOfSeq
<1>3. \A k \in 1 .. Len(b) : [b[k] EXCEPT !.id = batch[k]] \in CallType
                             /\ [b[k] EXCEPT !.id = batch[k]].id = batch[k]
  BY <1>2 DEF CallType
<1>4. c \in [1 .. Len(b) -> CallType] /\ \A k \in 1 .. Len(b) : c[k] = [b[k] EXCEPT !.id = batch[k]]
  <2> HIDE DEF b
  <2> QED BY <1>1, <1>3
<1> HIDE DEF c
<1>5. c \in Seq(CallType)
  BY <1>1, <1>4, SeqDef
<1>6. Len(c) = Len(b)
  BY <1>1, <1>4, <1>5, LenProperties
<1>7. Named(m, batch) = [m EXCEPT !.calls = c]
  BY DEF Named, c
<1>8. Named(m, batch) \in MessageType /\ Named(m, batch).role = m.role /\ Named(m, batch).calls = c
  BY <1>5, <1>7 DEF MessageType
<1> QED BY <1>3, <1>4, <1>6, <1>8

\* An assistant message: what is pending goes up, then its calls under new ids.
LEMMA AssistantKeeps ==
  ASSUME NEW n, NormSound(n), NEW m \in MessageType, m.role = "assistant"
  PROVE  NormSound(History!AssistantMessage(n, m))
<1> DEFINE st == Start(n)
           c == History!Called(st, m.calls)
           v == Named(m, c.batch)
           r == History!AssistantMessage(n, m)
<1>1. n \in NormType /\ IsFiniteSet(n.used) /\ n.used = CallIdsOf(n.out) /\ n.calls = n.used
  BY DEF NormSound
<1>2. /\ st \in NormType /\ st.batch = << >> /\ st.pending = << >> /\ st.used = n.used
      /\ st.calls = n.calls /\ st.out = History!Flush(n).out
  BY <1>1, StartIs
<1>3. m.calls \in Seq(CallType)
  BY DEF MessageType
<1>4. r = [c EXCEPT !.out = Append(@, v)]
  BY DEF History!AssistantMessage, Start, Named
<1> HIDE DEF st, r
<1>5. Behind(c, Len(m.calls), st)
  BY <1>1, <1>2, <1>3, CalledIs
<1> HIDE DEF c
<1>6. /\ c \in NormType /\ IsFiniteSet(c.used) /\ c.out = st.out /\ c.pending = << >>
      /\ Len(c.batch) = Len(m.calls) /\ Distinct(c.batch) /\ Members(c.batch) \cap n.used = {}
      /\ c.used = n.used \cup Members(c.batch) /\ c.calls = n.calls \cup Members(c.batch)
  BY <1>2, <1>5 DEF Behind
<1>7. c.batch \in Seq(CallId) /\ c.out \in Seq(MessageType)
      /\ DOMAIN c.batch = 1 .. Len(c.batch) /\ Len(c.out) \in Nat
  BY <1>6, LenProperties DEF NormType
<1>8. /\ v \in MessageType /\ v.role = "assistant" /\ Len(v.calls) = Len(c.batch)
      /\ \A k \in 1 .. Len(c.batch) : v.calls[k].id = c.batch[k]
  BY <1>6, <1>7, NamedIs
<1> HIDE DEF v
<1>9. Tidy(c.out) /\ CallIdsOf(c.out) = n.used
  BY <1>1, <1>2, <1>6, FlushTidy
<1>10. \A k, l \in 1 .. Len(v.calls) : v.calls[k].id = v.calls[l].id => k = l
  <2>1. \A k, l \in 1 .. Len(c.batch) : c.batch[k] = c.batch[l] => k = l
    <3>1. Distinct(c.batch) /\ DOMAIN c.batch = 1 .. Len(c.batch)
      BY <1>6, <1>7
    <3> QED BY <3>1, Zenon DEF Distinct
  <2> QED BY <1>8, <2>1
<1>11. {v.calls[k].id : k \in 1 .. Len(v.calls)} = Members(c.batch)
  BY <1>7, <1>8 DEF Members
<1>12. \A k \in 1 .. Len(v.calls) : v.calls[k].id \notin CallIdsOf(c.out)
  BY <1>6, <1>9, <1>11
<1>13. ~IsResult(v)
  BY <1>8 DEF IsResult
<1>14. Tidy(Append(c.out, v)) /\ CallIdsOf(Append(c.out, v)) = n.used \cup Members(c.batch)
  BY <1>7, <1>8, <1>9, <1>10, <1>11, <1>12, <1>13, TidyAppend
<1>15. /\ Append(c.out, v) \in Seq(MessageType) /\ Len(Append(c.out, v)) = Len(c.out) + 1
       /\ Append(c.out, v)[Len(c.out) + 1] = v
  BY <1>7, <1>8, AppendProperties, LenProperties
<1>16. /\ r \in NormType /\ r.out = Append(c.out, v) /\ r.used = c.used /\ r.calls = c.calls
       /\ r.batch = c.batch /\ r.pending = << >>
  BY <1>4, <1>6, <1>15 DEF NormType
<1>17. Waiting(r)
  BY <1>16, NoneIn DEF Waiting
<1>18. Batched(r)
  <2>1. Len(r.out) > 0 /\ r.out[Len(r.out)] = v
    BY <1>7, <1>15, <1>16
  <2> QED BY <2>1, <1>8, <1>13, <1>16 DEF Batched
<1>19. r.used = CallIdsOf(r.out) /\ r.calls = CallIdsOf(r.out)
  BY <1>1, <1>6, <1>14, <1>16
<1>20. IsFiniteSet(r.used) /\ Distinct(r.batch) /\ Tidy(r.out)
  BY <1>6, <1>14, <1>16
<1>21. NormSound(r)
  BY <1>16, <1>17, <1>18, <1>19, <1>20 DEF NormSound
<1> QED BY <1>21 DEF r

\* A result waits if it answers a call, and is gone otherwise.
LEMMA ToolKeeps ==
  ASSUME NEW n, NormSound(n), NEW m \in MessageType, m.role = "tool", m.calls = << >>
  PROVE  NormSound(History!ToolMessage(n, m))
<1> DEFINE id == History!Answers(n, m)
           w == [m EXCEPT !.id = id]
           r == [n EXCEPT !.consumed = @ \cup {id}, !.pending = Append(@, w)]
<1>1. n \in NormType /\ n.calls = CallIdsOf(n.out)
  BY DEF NormSound
<1>2. History!ToolMessage(n, m) = IF id \notin n.calls THEN n ELSE r
  BY DEF History!ToolMessage
<1>3. CASE id \notin n.calls
  BY <1>2, <1>3
<1>4. CASE id \in n.calls
  <2> HIDE DEF id
  <2>1. id \in CallId
    BY <1>1, <1>4 DEF NormType
  <2>2. w \in MessageType /\ w.role = "tool" /\ w.calls = << >> /\ w.id = id
    BY <2>1 DEF MessageType
  <2> HIDE DEF w
  <2>3. n.pending \in Seq(MessageType) /\ Append(n.pending, w) \in Seq(MessageType)
    BY <1>1, <2>2, AppendProperties DEF NormType
  <2>4. Members(Append(n.pending, w)) = Members(n.pending) \cup {w}
    BY <2>2, <2>3, MembersOfAppend
  <2>5. /\ r \in NormType /\ r.out = n.out /\ r.used = n.used /\ r.calls = n.calls
        /\ r.batch = n.batch /\ r.pending = Append(n.pending, w)
    BY <1>1, <2>1, <2>3 DEF NormType
  <2> HIDE DEF r
  <2>6. Waiting(r)
    BY <1>1, <1>4, <2>2, <2>4, <2>5 DEF NormSound, Waiting, IsResult
  <2>7. Batched(r)
    BY <2>5 DEF NormSound, Batched
  <2>8. NormSound(r)
    BY <2>5, <2>6, <2>7 DEF NormSound
  <2> QED BY <1>2, <1>4, <2>8
<1> QED BY <1>3, <1>4

\* Any other message goes up behind what is pending, and there is no batch.
LEMMA OtherKeeps ==
  ASSUME NEW n, NormSound(n), NEW m \in MessageType, m.role # "tool", m.calls = << >>
  PROVE  NormSound(History!OtherMessage(n, m))
<1> DEFINE f == History!Flush(n)
           r == History!OtherMessage(n, m)
<1>1. n \in NormType /\ IsFiniteSet(n.used) /\ n.used = CallIdsOf(n.out) /\ n.calls = CallIdsOf(n.out)
  BY DEF NormSound
<1>2. /\ f \in NormType /\ f.used = n.used /\ f.calls = n.calls /\ f.pending = << >>
  BY <1>1, FlushKeeps
<1>3. r = [f EXCEPT !.batch = << >>, !.consumed = {}, !.out = Append(@, m)]
  BY DEF History!OtherMessage
<1>4. Tidy(f.out) /\ CallIdsOf(f.out) = CallIdsOf(n.out)
  BY FlushTidy
<1> HIDE DEF f, r
<1>5. f.out \in Seq(MessageType) /\ Len(f.out) \in Nat
  BY <1>2, LenProperties DEF NormType
<1>6. ~IsResult(m) /\ 1 .. Len(m.calls) = {}
  BY NoneIn DEF IsResult
<1>7. /\ Tidy(Append(f.out, m))
      /\ CallIdsOf(Append(f.out, m)) = CallIdsOf(f.out) \cup {m.calls[k].id : k \in 1 .. Len(m.calls)}
  BY <1>4, <1>5, <1>6, TidyAppend
<1>8. CallIdsOf(Append(f.out, m)) = CallIdsOf(n.out)
  BY <1>4, <1>6, <1>7
<1>9. /\ Append(f.out, m) \in Seq(MessageType) /\ Len(Append(f.out, m)) = Len(f.out) + 1
      /\ Append(f.out, m)[Len(f.out) + 1] = m
  BY <1>5, AppendProperties, LenProperties
<1>10. << >> \in Seq(CallId) /\ {} \in SUBSET CallId
  OBVIOUS
<1>11. /\ r \in NormType /\ r.out = Append(f.out, m) /\ r.used = n.used /\ r.calls = n.calls
       /\ r.batch = << >> /\ r.pending = << >>
  BY <1>2, <1>3, <1>9, <1>10 DEF NormType
<1>12. Waiting(r) /\ Distinct(r.batch)
  BY <1>11, NoneIn DEF Waiting
<1>13. Batched(r)
  <2>1. Len(r.out) > 0 /\ r.out[Len(r.out)] = m /\ Len(r.batch) = 0 /\ Len(m.calls) = 0
    BY <1>5, <1>9, <1>11
  <2>2. 1 .. Len(r.batch) = {}
    BY <2>1
  <2> QED BY <2>1, <2>2, <1>6 DEF Batched
<1>14. NormSound(r)
  BY <1>1, <1>7, <1>8, <1>11, <1>12, <1>13 DEF NormSound
<1> QED BY <1>14 DEF r

\* One message more.
LEMMA NormalizeKeeps ==
  ASSUME NEW n, NormSound(n), NEW m, Told(m)
  PROVE  NormSound(History!Normalize(n, m))
<1> DEFINE w == CASE m.role = "assistant" -> History!AssistantMessage(n, m)
                  [] m.role = "tool" -> History!ToolMessage(n, m)
                  [] OTHER -> History!OtherMessage(n, m)
<1>1. m \in MessageType
  BY DEF Told
<1>2. NormSound(w)
  <2>1. CASE m.role = "assistant"
    BY <1>1, <2>1, AssistantKeeps
  <2>2. CASE m.role = "tool"
    <3>1. m.calls = << >> /\ w = History!ToolMessage(n, m)
      BY <2>2 DEF Told
    <3> QED BY <1>1, <2>2, <3>1, ToolKeeps
  <2>3. CASE m.role # "assistant" /\ m.role # "tool"
    <3>1. m.calls = << >> /\ w = History!OtherMessage(n, m)
      BY <2>3 DEF Told
    <3> QED BY <1>1, <2>3, <3>1, OtherKeeps
  <2> QED BY <2>1, <2>2, <2>3
<1>3. History!Normalize(n, m) = [w EXCEPT !.count = @ + 1]
  BY DEF History!Normalize
<1> HIDE DEF w
<1> DEFINE r == [w EXCEPT !.count = @ + 1]
<1>4. w \in NormType
  BY <1>2 DEF NormSound
<1>5. r \in NormType
  <2>1. w.count + 1 \in Nat
    BY <1>4 DEF NormType
  <2> QED BY <1>4, <2>1 DEF NormType
<1>8. /\ r.out = w.out /\ r.used = w.used /\ r.calls = w.calls
      /\ r.batch = w.batch /\ r.pending = w.pending
  BY <1>4 DEF NormType
<1> HIDE DEF r
<1>6. Waiting(r) /\ Batched(r)
  BY <1>2, <1>8 DEF NormSound, Waiting, Batched
<1>7. NormSound(r)
  BY <1>2, <1>5, <1>6, <1>8 DEF NormSound
<1> QED BY <1>3, <1>7 DEF r

\* The call a result of a tidy history answers is found by the nearest message before it
\* that is none, and by the ids, which are all different.
LEMMA AskedByIs ==
  ASSUME NEW o, NEW i \in Nat, NEW j \in 1 .. i - 1, ~IsResult(o[j]),
         \A h \in j + 1 .. i - 1 : IsResult(o[h])
  PROVE  History!AskedBy(o, i) = o[j].calls
<1> DEFINE before == {h \in 1 .. i - 1 : ~History!IsResult(o[h])}
<1>1. j \in before
  BY DEF IsResult, History!IsResult
<1>2. \A h \in before : h \in 1 .. i - 1 /\ h <= j
  <2>1. SUFFICES ASSUME NEW h \in before PROVE h \in 1 .. i - 1 /\ h <= j
    OBVIOUS
  <2>2. h \in 1 .. i - 1 /\ ~IsResult(o[h])
    BY DEF IsResult, History!IsResult
  <2>3. ~(h \in j + 1 .. i - 1)
    BY <2>2
  <2> QED BY <2>2, <2>3
<1>3. History!AskedBy(o, i) = IF before = {} THEN << >>
                              ELSE o[CHOOSE h \in before : \A k \in before : k <= h].calls
  BY DEF History!AskedBy
<1> HIDE DEF before
<1>4. (CHOOSE h \in before : \A k \in before : k <= h) = j
  <2>1. \A h \in before : (\A k \in before : k <= h) => h = j
    <3>1. SUFFICES ASSUME NEW h \in before, \A k \in before : k <= h PROVE h = j
      OBVIOUS
    <3>2. j <= h /\ h <= j /\ h \in Nat /\ j \in Nat
      BY <1>1, <1>2, <3>1
    <3> QED BY <3>2
  <2>2. \A k \in before : k <= j
    BY <1>2
  <2> QED BY <1>1, <2>1, <2>2
<1> QED BY <1>1, <1>3, <1>4

\* What goes up of a sound history is tidy.
LEMMA SoundIsTidy == ASSUME NormSound(norm) PROVE History!UpstreamIsTidy
<1> DEFINE o == History!Flush(norm).out
           CallsOf(i) == DOMAIN o[i].calls
<1>1. norm \in NormType
  BY DEF NormSound
<1>2. o \in Seq(MessageType)
  <2>1. History!Flush(norm) \in NormType
    BY <1>1, FlushKeeps
  <2> QED BY <2>1 DEF NormType
<1>3. Tidy(o)
  BY FlushTidy
<1> HIDE DEF o
<1>4. DOMAIN o = 1 .. Len(o) /\ Len(o) \in Nat
  BY <1>2, LenProperties
<1>5. \A i \in 1 .. Len(o) : o[i].calls \in Seq(CallType) /\ CallsOf(i) = 1 .. Len(o[i].calls)
  BY <1>2, CallsAre
<1>6. \A i, j \in DOMAIN o : \A k \in CallsOf(i), l \in CallsOf(j) :
        o[i].calls[k].id = o[j].calls[l].id => i = j /\ k = l
  <2>1. AllDifferent(o)
    BY <1>3 DEF Tidy
  <2>2. SUFFICES ASSUME NEW i \in DOMAIN o, NEW j \in DOMAIN o, NEW k \in CallsOf(i), NEW l \in CallsOf(j),
                        o[i].calls[k].id = o[j].calls[l].id
                 PROVE  i = j /\ k = l
    OBVIOUS
  <2>3. /\ i \in 1 .. Len(o) /\ j \in 1 .. Len(o)
        /\ k \in 1 .. Len(o[i].calls) /\ l \in 1 .. Len(o[j].calls)
    BY <1>4, <1>5
  <2> QED BY <2>1, <2>2, <2>3 DEF AllDifferent
<1>7. ASSUME NEW i \in DOMAIN o, IsResult(o[i])
      PROVE  /\ \E j \in 1 .. i - 1 : \E k \in CallsOf(j) : o[j].calls[k].id = o[i].id
             /\ LET asked == History!AskedBy(o, i)
                    place(id) == CHOOSE k \in DOMAIN asked : asked[k].id = id
                IN  asked # << >> =>
                       /\ \E k \in DOMAIN asked : asked[k].id = o[i].id
                       /\ IsResult(o[i - 1]) => place(o[i - 1].id) <= place(o[i].id)
  <2>1. Placed(o, i) /\ i \in 1 .. Len(o) /\ i \in Nat
    BY <1>3, <1>4, <1>7 DEF Tidy
  <2>2. \A j \in 1 .. i - 1 : j \in 1 .. Len(o)
    BY <1>4, <2>1
  <2>3. \E j \in 1 .. i - 1 : \E k \in CallsOf(j) : o[j].calls[k].id = o[i].id
    <3>1. PICK j \in 1 .. i - 1 : \E k \in 1 .. Len(o[j].calls) : o[j].calls[k].id = o[i].id
      BY <2>1 DEF Placed
    <3> QED BY <1>5, <2>2, <3>1
  <2>4. PICK j \in 1 .. i - 1 :
           /\ ~IsResult(o[j]) /\ \A h \in j + 1 .. i - 1 : IsResult(o[h])
           /\ \/ o[j].calls = << >>
              \/ /\ \E k \in 1 .. Len(o[j].calls) : o[j].calls[k].id = o[i].id
                 /\ j < i - 1 => \E a, b \in 1 .. Len(o[j].calls) :
                       a <= b /\ o[j].calls[a].id = o[i - 1].id /\ o[j].calls[b].id = o[i].id
    BY <2>1 DEF Placed
  <2> DEFINE asked == o[j].calls
             place(id) == CHOOSE k \in DOMAIN asked : asked[k].id = id
  <2>5. History!AskedBy(o, i) = asked
    BY <2>1, <2>4, AskedByIs
  <2>6. DOMAIN asked = 1 .. Len(asked) /\ j \in DOMAIN o
    BY <1>4, <1>5, <2>2
  <2>7. \A k, l \in DOMAIN asked : asked[k].id = asked[l].id => k = l
    BY <1>6, <2>6
  <2>8. ASSUME NEW k \in DOMAIN asked PROVE place(asked[k].id) = k
    BY <2>7, <2>8
  <2>9. ASSUME asked # << >>
        PROVE  /\ \E k \in DOMAIN asked : asked[k].id = o[i].id
               /\ IsResult(o[i - 1]) => place(o[i - 1].id) <= place(o[i].id)
    <3>1. /\ \E k \in 1 .. Len(asked) : asked[k].id = o[i].id
          /\ j < i - 1 => \E a, b \in 1 .. Len(asked) :
                a <= b /\ asked[a].id = o[i - 1].id /\ asked[b].id = o[i].id
      BY <2>4, <2>9
    <3>2. ASSUME IsResult(o[i - 1]) PROVE place(o[i - 1].id) <= place(o[i].id)
      <4>1. j # i - 1
        BY <2>4, <3>2
      <4>2. j < i - 1
        BY <2>1, <4>1
      <4>3. PICK a, b \in 1 .. Len(asked) :
               a <= b /\ asked[a].id = o[i - 1].id /\ asked[b].id = o[i].id
        BY <3>1, <4>2
      <4>4. place(asked[a].id) = a /\ place(asked[b].id) = b
        BY <2>6, <2>8
      <4> HIDE DEF place
      <4> QED BY <4>3, <4>4
    <3> QED BY <2>6, <3>1, <3>2
  <2> HIDE DEF asked
  <2>10. QED BY <2>3, <2>5, <2>9
<1>8. History!UpstreamIsTidy <=>
        /\ \A i, j \in DOMAIN o : \A k \in CallsOf(i), l \in CallsOf(j) :
              o[i].calls[k].id = o[j].calls[l].id => i = j /\ k = l
        /\ \A i \in DOMAIN o : IsResult(o[i]) =>
              /\ \E j \in 1 .. i - 1 : \E k \in CallsOf(j) : o[j].calls[k].id = o[i].id
              /\ LET asked == History!AskedBy(o, i)
                     place(id) == CHOOSE k \in DOMAIN asked : asked[k].id = id
                 IN  asked # << >> =>
                        /\ \E k \in DOMAIN asked : asked[k].id = o[i].id
                        /\ IsResult(o[i - 1]) => place(o[i - 1].id) <= place(o[i].id)
  BY Zenon DEF o, History!UpstreamIsTidy, History!Upstream, IsResult, History!IsResult
<1> QED BY <1>6, <1>7, <1>8

\* A message of the client's without the calls nobody defined.
LEMMA FilteredIs ==
  ASSUME NEW m, Told(m)
  PROVE  /\ Told(History!Filtered(m)) /\ History!Filtered(m).role = m.role
         /\ History!Filtered(m).id = m.id
<1> DEFINE p == History!Pick(m.calls, History!Known(m.calls))
<1>1. m \in MessageType /\ m.calls \in Seq(CallType)
  BY DEF Told, MessageType
<1>2. p \in Seq(CallType)
  BY <1>1, Picked
<1>3. CASE tools # {} /\ m.role = "assistant"
  <2>1. History!Filtered(m) = [m EXCEPT !.calls = p]
    BY <1>3 DEF History!Filtered
  <2> HIDE DEF p
  <2> QED BY <1>1, <1>2, <1>3, <2>1 DEF Told, MessageType
<1>4. CASE ~(tools # {} /\ m.role = "assistant")
  BY <1>4 DEF History!Filtered
<1> QED BY <1>3, <1>4

\* The messages the client may send.
LEMMA ClientsTell ==
  ASSUME History!HistoryNext
  PROVE  \E m : Told(m) /\ m # History!Images /\ History!Message(m)
<1>1. Batches \subseteq Seq(CallType)
  <2>1. Batches \subseteq Seq([id : ResultId, tool : ToolNames])
    BY PartsAssumption DEF History!HistoryAssumption, ToolNames
  <2>2. [id : ResultId, tool : ToolNames] \subseteq CallType
    BY DEF CallType, CallId
  <2>3. Seq([id : ResultId, tool : ToolNames]) \subseteq Seq(CallType)
    <3> DEFINE A == [id : ResultId, tool : ToolNames]
    <3>1. SUFFICES ASSUME NEW s \in Seq(A) PROVE s \in Seq(CallType)
      OBVIOUS
    <3>2. A \subseteq CallType
      BY <2>2
    <3> HIDE DEF A
    <3>3. Len(s) \in Nat /\ s \in [1 .. Len(s) -> A]
      BY LenProperties
    <3>4. s \in [1 .. Len(s) -> CallType]
      BY <3>2, <3>3
    <3> QED BY <3>3, <3>4, SeqDef
  <2> QED BY <2>1, <2>3
<1>2. None \in ResultId /\ << >> \in Seq(CallType) /\ TRUE \in BOOLEAN
  BY PartsAssumption DEF History!HistoryAssumption
<1>3. CASE History!Message(History!User)
  <2>1. Told(History!User)
    BY <1>2, KindsOfMessages DEF Told, History!User, History!Blank
  <2>2. History!User # History!Images
    BY DEF History!User, History!Images, History!Blank
  <2> QED BY <1>3, <2>1, <2>2
<1>4. CASE History!Message(History!System)
  <2>1. Told(History!System)
    BY <1>2, KindsOfMessages DEF Told, History!System, History!User, History!Blank
  <2>2. History!System # History!Images
    BY DEF History!User, History!System, History!Images, History!Blank
  <2> QED BY <1>4, <2>1, <2>2
<1>5. CASE \E b \in Batches, text \in BOOLEAN : History!Message(History!Assistant(b, text))
  <2>1. PICK b \in Batches, text \in BOOLEAN : History!Message(History!Assistant(b, text))
    BY <1>5
  <2>2. Told(History!Assistant(b, text))
    BY <1>1, <1>2, KindsOfMessages DEF Told, History!Assistant, History!Blank
  <2>3. History!Assistant(b, text).role = "assistant" /\ History!Images.role = "user"
    BY DEF History!Assistant, History!Images, History!Blank
  <2> QED BY <2>1, <2>2, <2>3
<1>6. CASE \E id \in ResultId, image \in BOOLEAN : History!Message(History!Result(id, image))
  <2>1. PICK id \in ResultId, image \in BOOLEAN : History!Message(History!Result(id, image))
    BY <1>6
  <2>2. Told(History!Result(id, image))
    BY <1>2, KindsOfMessages DEF Told, History!Result, History!Blank
  <2>3. History!Result(id, image).role = "tool" /\ History!Images.role = "user"
    BY DEF History!Result, History!Images, History!Blank
  <2> QED BY <2>1, <2>2, <2>3
<1> QED BY <1>3, <1>4, <1>5, <1>6 DEF History!HistoryNext

\* A history that begins is sound.
LEMMA NormStarts == ASSUME History!HistoryInit PROVE NormSound(norm)
<1>1. norm = [used |-> {}, source |-> << >>, calls |-> {}, out |-> << >>, count |-> 0,
              batch |-> << >>, consumed |-> {}, pending |-> << >>]
  BY DEF History!HistoryInit
<1>2. << >> \in SourceType
  <2>1. << >> \in [{} -> CallId]
    OBVIOUS
  <2> QED BY <2>1 DEF SourceType
<1>3. norm \in NormType
  <2>1. {} \in SUBSET CallId /\ << >> \in Seq(MessageType) /\ << >> \in Seq(CallId) /\ 0 \in Nat
    OBVIOUS
  <2> QED BY <1>1, <1>2, <2>1 DEF NormType
<1>4. /\ norm.used = {} /\ norm.calls = {} /\ norm.out = << >> /\ norm.batch = << >>
      /\ norm.pending = << >>
  BY <1>1
<1>5. CallIdsOf(<< >>) = {} /\ Tidy(<< >>)
  BY NoneIn DEF CallIdsOf, Tidy, AllDifferent
<1>6. IsFiniteSet(norm.used)
  BY <1>4, FS_EmptySet
<1> QED BY <1>3, <1>4, <1>5, <1>6, NoneIn DEF NormSound, Waiting, Batched

\* Whatever the client sends.
LEMMA MessageKeeps ==
  ASSUME NormSound(norm), NEW m, Told(m), History!Message(m)
  PROVE  NormSound(norm)'
<1>1. norm' = IF History!Lost(m) THEN norm ELSE History!Normalize(norm, History!Filtered(m))
  BY DEF History!Message
<1>2. NormSound(History!Normalize(norm, History!Filtered(m)))
  BY FilteredIs, NormalizeKeeps
<1>3. PICK n : n = norm' /\ NormSound(n)
  BY <1>1, <1>2
<1> QED BY <1>3 DEF NormSound

\* The members of s that are in T, in their order.
Chosen(s, T) == History!Pick(s, {i \in DOMAIN s : s[i] \in T})

\* One member after the other.
LEMMA ChosenAppend ==
  ASSUME NEW S, NEW s \in Seq(S), NEW x \in S, NEW T
  PROVE  Chosen(Append(s, x), T) = IF x \in T THEN Append(Chosen(s, T), x) ELSE Chosen(s, T)
<1> DEFINE u == Append(s, x)
           I == {i \in DOMAIN u : u[i] \in T}
           J == {i \in DOMAIN s : s[i] \in T}
<1>1. u \in Seq(S) /\ Len(u) = Len(s) + 1 /\ u[Len(s) + 1] = x /\ \A i \in 1 .. Len(s) : u[i] = s[i]
  BY AppendProperties
<1>2. Len(s) \in Nat /\ DOMAIN s = 1 .. Len(s) /\ DOMAIN u = 1 .. Len(s) + 1
  BY <1>1, LenProperties
<1>3. History!Pick(u, I) = IF Len(s) + 1 \in I THEN Append(History!Pick(s, I), x) ELSE History!Pick(s, I)
  <2> HIDE DEF I
  <2> QED BY PickAppend
<1> HIDE DEF u
<1>4. Len(s) + 1 \in I <=> x \in T
  BY <1>1, <1>2
<1>5. \A i \in 1 .. Len(s) : i \in I <=> i \in J
  BY <1>1, <1>2
<1> HIDE DEF I, J
<1>6. History!Pick(s, I) = History!Pick(s, J)
  BY <1>5, PickSame
<1>7. Chosen(u, T) = History!Pick(u, I) /\ Chosen(s, T) = History!Pick(s, J)
  BY DEF Chosen, I, J
<1> QED BY <1>3, <1>4, <1>6, <1>7 DEF u

\* One sequence behind the other.
LEMMA ChosenConcat ==
  ASSUME NEW S, NEW s \in Seq(S), NEW t \in Seq(S), NEW T
  PROVE  Chosen(s \o t, T) = Chosen(s, T) \o Chosen(t, T)
<1> DEFINE u == s \o t
           I == {i \in DOMAIN u : u[i] \in T}
           J == {i \in DOMAIN s : s[i] \in T}
           K == {i \in DOMAIN t : t[i] \in T}
<1>1. /\ u \in Seq(S) /\ Len(u) = Len(s) + Len(t) /\ \A i \in 1 .. Len(s) : u[i] = s[i]
      /\ \A i \in Len(s) + 1 .. Len(s) + Len(t) : u[i] = t[i - Len(s)]
  BY ConcatProperties
<1>2. /\ Len(s) \in Nat /\ DOMAIN s = 1 .. Len(s) /\ DOMAIN u = 1 .. Len(s) + Len(t)
      /\ Len(t) \in Nat /\ DOMAIN t = 1 .. Len(t)
  BY <1>1, LenProperties
<1> HIDE DEF u
<1>3. \A i \in 1 .. Len(s) : i \in I <=> i \in J
  BY <1>1, <1>2
<1>4. \A j \in 1 .. Len(t) : j \in K <=> Len(s) + j \in I
  <2>1. SUFFICES ASSUME NEW j \in 1 .. Len(t) PROVE j \in K <=> Len(s) + j \in I
    OBVIOUS
  <2>2. /\ Len(s) + j \in Len(s) + 1 .. Len(s) + Len(t) /\ (Len(s) + j) - Len(s) = j
        /\ Len(s) + j \in 1 .. Len(s) + Len(t)
    BY <1>2
  <2>3. u[Len(s) + j] = t[j]
    BY <1>1, <2>2
  <2> QED BY <1>2, <2>2, <2>3
<1> HIDE DEF I, J, K
<1>5. History!Pick(s, I) = History!Pick(s, J)
  BY <1>3, PickSame
<1>6. History!Pick(s \o t, I) = History!Pick(s, I) \o History!Pick(t, K)
  BY <1>4, PickConcat
<1>7. /\ Chosen(u, T) = History!Pick(u, I) /\ Chosen(s, T) = History!Pick(s, J)
      /\ Chosen(t, T) = History!Pick(t, K)
  BY DEF Chosen, I, J, K
<1> QED BY <1>5, <1>6, <1>7 DEF u

\* All of them, or none.
LEMMA ChosenAll ==
  ASSUME NEW S, NEW s \in Seq(S), NEW T, \A x \in Members(s) : x \in T
  PROVE  Chosen(s, T) = s
<1>1. \A i \in 1 .. Len(s) : i \in {j \in DOMAIN s : s[j] \in T}
  BY LenProperties DEF Members
<1>2. History!Pick(s, {j \in DOMAIN s : s[j] \in T}) = s
  BY <1>1, PickAll
<1> QED BY <1>2 DEF Chosen

\* None of them.
LEMMA ChosenNone ==
  ASSUME NEW S, NEW s \in Seq(S), NEW T, \A x \in Members(s) : x \notin T
  PROVE  Chosen(s, T) = << >>
<1>1. \A i \in 1 .. Len(s) : i \notin {j \in DOMAIN s : s[j] \in T}
  BY LenProperties DEF Members
<1>2. History!Pick(s, {j \in DOMAIN s : s[j] \in T}) = << >>
  BY <1>1, PickNothing
<1> QED BY <1>2 DEF Chosen

\* Chosen are members of the same kind.
LEMMA ChosenIn ==
  ASSUME NEW S, NEW s \in Seq(S), NEW T
  PROVE  Chosen(s, T) \in Seq(S)
BY Picked DEF Chosen

\* If there are as many new ids as calls, each call has one of its own.
LEMMA AllNew ==
  ASSUME NEW b \in Seq(CallType), NEW seen,
         History!Cardinality(History!IdsOf(b) \ seen) = Len(b)
  PROVE  /\ \A i \in 1 .. Len(b) : b[i].id # None /\ b[i].id \notin seen
         /\ \A i, j \in 1 .. Len(b) : b[i].id = b[j].id => i = j
         /\ History!IdsOf(b) = {b[i].id : i \in 1 .. Len(b)}
<1> DEFINE n == Len(b)
           X == History!IdsOf(b) \ seen
           f == [i \in 1 .. n |-> b[i].id]
           Y == {b[i].id : i \in 1 .. n}
<1>1. n \in Nat /\ DOMAIN b = 1 .. n
  BY LenProperties
<1>2. History!IdsOf(b) = Y \ {None}
  BY <1>1 DEF History!IdsOf
<1>3. IsFiniteSet(1 .. n) /\ Cardinality(1 .. n) = n
  BY <1>1, UpTo
<1>4. Cardinality(X) = n
  BY SameCardinality
<1>5. X \subseteq Y
  BY <1>2
<1>6. f \in Surjection(1 .. n, Y)
  BY DEF Surjection
<1> HIDE DEF n, X, Y
<1>7. IsFiniteSet(Y) /\ Cardinality(Y) <= n /\ (Cardinality(Y) = n => f \in Injection(1 .. n, Y))
  <2> HIDE DEF f
  <2> QED BY <1>3, <1>6, FS_Surjection
<1>8. Cardinality(Y) \in Nat
  BY <1>7, FS_CardinalityType
<1>9. Cardinality(X) <= Cardinality(Y) /\ (Cardinality(Y) = Cardinality(X) => Y = X)
  BY <1>5, <1>7, FS_Subset
<1>10. Cardinality(Y) = n /\ Y = X
  BY <1>1, <1>4, <1>7, <1>8, <1>9
<1>11. \A i, j \in 1 .. n : b[i].id = b[j].id => i = j
  <2>1. f \in Injection(1 .. n, Y)
    BY <1>7, <1>10
  <2>2. \A i, j \in 1 .. n : f[i] = f[j] => i = j
    <3>1. DOMAIN f = 1 .. n
      BY DEF f
    <3> HIDE DEF f
    <3> QED BY <2>1, <3>1 DEF Injection, IsInjective
  <2> QED BY <2>2
<1>12. \A i \in 1 .. n : b[i].id \in X
  BY <1>10 DEF Y
<1>13. \A x \in X : x # None /\ x \notin seen
  BY <1>2 DEF X
<1>14. History!IdsOf(b) = Y
  BY <1>2, <1>10 DEF X
<1> QED BY <1>11, <1>12, <1>13, <1>14 DEF n, Y

(* What a valid history keeps *)

ResultsOf == {m \in MessageType : IsResult(m)}
OthersOf == {m \in MessageType : ~IsResult(m) /\ m # History!Images}

\* Every result that waits behind a batch answers one of its calls.
AnswersBatch(n) == n.batch # << >> => \A r \in Members(n.pending) : r.id \in Members(n.batch)

\* What a flush sends up of what is pending: all of it.
LEMMA FlushLoses ==
  ASSUME NEW n, NormSound(n), AnswersBatch(n)
  PROVE  LET f == History!Flush(n)
         IN  /\ Chosen(f.out, OthersOf) = Chosen(n.out, OthersOf)
             /\ Members(Chosen(f.out, ResultsOf)) = Members(Chosen(n.out, ResultsOf)) \cup Members(n.pending)
             /\ Len(Chosen(f.out, ResultsOf)) = Len(Chosen(n.out, ResultsOf)) + Len(n.pending)
<1> DEFINE s == Sent(n)
           p == Pictures(s)
           o == n.out
           u == o \o s
<1>1. n \in NormType
  BY DEF NormSound
<1>2. n.batch \in Seq(CallId) /\ n.pending \in Seq(MessageType) /\ o \in Seq(MessageType)
  BY <1>1 DEF NormType
<1>3. s \in Seq(MessageType) /\ p \in Seq(MessageType) /\ u \in Seq(MessageType)
  BY <1>1, SentAre, FlushIs
<1>4. History!Flush(n).out = u \o p
  BY <1>1, FlushKeeps
<1>5. Members(s) = Members(n.pending) /\ Len(s) = Len(n.pending)
  <2>1. CASE n.batch = << >>
    BY <2>1 DEF Sent
  <2>2. CASE n.batch # << >>
    <3> DEFINE q == History!InBatchOrder(n, n.pending)
    <3>1. s = q
      BY <2>2 DEF Sent
    <3>2. Sorted(q, Len(n.batch), n.batch, n.pending)
      BY <1>2, BatchIsSorted
    <3>3. \A r \in Members(n.pending) : r.id \in Members(n.batch)
      BY <2>2 DEF AnswersBatch
    <3>4. Distinct(n.batch)
      BY DEF NormSound
    <3>5. Len(q) = Len(n.pending)
      BY <1>2, <3>3, <3>4, BatchTakesAll
    <3> HIDE DEF s, q
    <3>6. \A r \in Members(n.pending) : \E a \in 1 .. Len(n.batch) : n.batch[a] = r.id
      BY <1>2, <3>3, MembersAre
    <3>7. \A r \in Members(q) : r \in Members(n.pending)
      BY <3>2 DEF Sorted
    <3>8. \A r \in Members(n.pending) : r \in Members(q)
      BY <3>2, <3>6 DEF Sorted
    <3> QED BY <3>1, <3>5, <3>7, <3>8
  <2> QED BY <2>1, <2>2
<1>6. \A r \in Members(s) : r \in ResultsOf /\ r \notin OthersOf
  <2>1. \A r \in Members(s) : r \in MessageType
    BY <1>3, MembersAre
  <2>2. \A r \in Members(s) : IsResult(r)
    BY <1>5 DEF NormSound, Waiting
  <2> QED BY <2>1, <2>2 DEF ResultsOf, OthersOf
<1>7. \A r \in Members(p) : r \notin ResultsOf /\ r \notin OthersOf
  <2>1. \A r \in Members(p) : r = History!Images
    <3>1. p = << >> \/ p = <<History!Images>>
      BY PicturesAre
    <3> HIDE DEF p
    <3>2. Members(<<History!Images>>) = {History!Images}
      <4> DEFINE w == History!Images
      <4> HIDE DEF w
      <4>1. DOMAIN <<w>> = {1} /\ <<w>>[1] = w
        OBVIOUS
      <4> QED BY <4>1 DEF Members, w
    <3> QED BY <3>1, <3>2, NoneIn
  <2> QED BY <2>1, ImagesAre DEF ResultsOf, OthersOf
<1> HIDE DEF s, p, o
<1>8. Chosen(s, ResultsOf) = s /\ Chosen(s, OthersOf) = << >>
  BY <1>3, <1>6, ChosenAll, ChosenNone
<1>9. Chosen(p, ResultsOf) = << >> /\ Chosen(p, OthersOf) = << >>
  BY <1>3, <1>7, ChosenNone
<1>10. /\ Chosen(u, ResultsOf) = Chosen(o, ResultsOf) \o s
       /\ Chosen(u, OthersOf) = Chosen(o, OthersOf) \o << >>
  <2>1. \A T : Chosen(u, T) = Chosen(o, T) \o Chosen(s, T)
    <3>1. o \in Seq(MessageType) /\ s \in Seq(MessageType)
      BY <1>2, <1>3 DEF o
    <3> QED BY <3>1, ChosenConcat
  <2> HIDE DEF u
  <2> QED BY <1>8, <2>1
<1> HIDE DEF u
<1>11. /\ Chosen(u \o p, ResultsOf) = Chosen(u, ResultsOf) \o << >>
       /\ Chosen(u \o p, OthersOf) = Chosen(u, OthersOf) \o << >>
  <2>1. \A T : Chosen(u \o p, T) = Chosen(u, T) \o Chosen(p, T)
    BY <1>3, ChosenConcat
  <2> QED BY <1>9, <2>1
<1>12. /\ Chosen(o, ResultsOf) \in Seq(MessageType) /\ Chosen(o, OthersOf) \in Seq(MessageType)
       /\ Chosen(u, ResultsOf) \in Seq(MessageType) /\ Chosen(u, OthersOf) \in Seq(MessageType)
  BY <1>2, <1>3, ChosenIn DEF o
<1>13. /\ Chosen(u \o p, ResultsOf) = Chosen(o, ResultsOf) \o s
       /\ Chosen(u \o p, OthersOf) = Chosen(o, OthersOf)
  BY <1>10, <1>11, <1>12, ConcatEmptySeq
<1>14. /\ Members(Chosen(o, ResultsOf) \o s) = Members(Chosen(o, ResultsOf)) \cup Members(s)
       /\ Len(Chosen(o, ResultsOf) \o s) = Len(Chosen(o, ResultsOf)) + Len(s)
  BY <1>3, <1>12, MembersOfConcat, ConcatProperties
<1> QED BY <1>4, <1>5, <1>13, <1>14 DEF o

\* Calls with new and different ids of their own go up with them.
LEMMA AssistantPlain ==
  ASSUME NEW n, NormSound(n), NEW m \in MessageType, m.role = "assistant", Plain(m.calls, n)
  PROVE  LET r == History!AssistantMessage(n, m)
             ids == {m.calls[k].id : k \in 1 .. Len(m.calls)}
         IN  /\ r.out = Append(History!Flush(n).out, m) /\ r.pending = << >>
             /\ r.used = n.used \cup ids /\ r.source = [i \in r.used |-> i]
             /\ Members(r.batch) = ids
<1> DEFINE b == m.calls
           st == Start(n)
           c == History!Called(st, b)
           v == Named(m, c.batch)
           r == History!AssistantMessage(n, m)
           ids == {b[k].id : k \in 1 .. Len(b)}
<1>1. n \in NormType /\ IsFiniteSet(n.used)
  BY DEF NormSound
<1>2. /\ st \in NormType /\ st.batch = << >> /\ st.pending = << >> /\ st.used = n.used
      /\ st.source = n.source /\ st.out = History!Flush(n).out
  BY <1>1, StartIs
<1>3. b \in Seq(CallType)
  BY DEF MessageType
<1>4. r = [c EXCEPT !.out = Append(@, v)]
  BY DEF History!AssistantMessage, Start, Named
<1> HIDE DEF st, r
<1>5. Plain(b, st)
  BY <1>2 DEF Plain
<1>6. Behind(c, Len(b), st) /\ Plainly(c, Len(b), b)
  BY <1>1, <1>2, <1>3, <1>5, CalledIs
<1> HIDE DEF c
<1>7. /\ c \in NormType /\ c.out = st.out /\ c.pending = << >> /\ Len(c.batch) = Len(b)
      /\ c.used = n.used \cup Members(c.batch)
  BY <1>2, <1>6 DEF Behind
<1>8. (\A i \in 1 .. Len(b) : c.batch[i] = b[i].id) /\ c.source = [i \in c.used |-> i]
  BY <1>6 DEF Plainly
<1>9. c.batch \in Seq(CallId) /\ DOMAIN c.batch = 1 .. Len(b) /\ Len(b) \in Nat /\ DOMAIN b = 1 .. Len(b)
  BY <1>3, <1>7, LenProperties DEF NormType
<1>10. Members(c.batch) = ids
  BY <1>8, <1>9 DEF Members
<1>11. v = m
  <2> DEFINE d == [i \in DOMAIN b |-> [b[i] EXCEPT !.id = c.batch[i]]]
  <2>1. \A i \in 1 .. Len(b) : b[i] \in CallType
    BY <1>3, ElementOfSeq
  <2>2. \A i \in 1 .. Len(b) : [b[i] EXCEPT !.id = c.batch[i]] = b[i]
    BY <1>8, <2>1 DEF CallType
  <2>3. b \in [1 .. Len(b) -> CallType]
    BY <1>3, LenProperties
  <2>4. d = b
    <3>1. DOMAIN d = DOMAIN b /\ \A i \in DOMAIN b : d[i] = b[i]
      <4> HIDE DEF b
      <4> QED BY <1>9, <2>2
    <3>2. d = [i \in DOMAIN d |-> d[i]]
      OBVIOUS
    <3>3. b = [i \in DOMAIN b |-> b[i]]
      BY <1>9, <2>3
    <3> HIDE DEF d, b
    <3> QED BY <3>1, <3>2, <3>3
  <2>5. v = [m EXCEPT !.calls = d]
    BY DEF Named
  <2>6. [m EXCEPT !.calls = b] = m
    BY DEF MessageType
  <2> HIDE DEF v, d
  <2> QED BY <2>4, <2>5, <2>6
<1> HIDE DEF v, b
<1>12. /\ r.out = Append(c.out, m) /\ r.pending = c.pending /\ r.used = c.used
       /\ r.source = c.source /\ r.batch = c.batch
  BY <1>4, <1>7, <1>11 DEF NormType
<1>13. /\ r.out = Append(History!Flush(n).out, m) /\ r.pending = << >> /\ r.used = n.used \cup ids
       /\ r.source = [i \in r.used |-> i] /\ Members(r.batch) = ids
  BY <1>2, <1>7, <1>8, <1>10, <1>12
<1> QED BY <1>13 DEF r, b

DiagnosisType == [seen : SUBSET CallId, open : SUBSET CallId, valid : BOOLEAN, overlap : BOOLEAN]
Valid(d) == d.valid /\ ~d.overlap

\* The messages, results aside, that a filter of unknown calls leaves.
HeardOf == {m \in MessageType : /\ ~IsResult(m)
                                /\ ~(/\ tools # {} /\ m.role = "assistant"
                                     /\ History!Known(m.calls) = {} /\ ~m.text)}

\* In a valid history ids go up as they came, and those that are open can be answered.
Settled(n, d) ==
  /\ n.source = [i \in n.used |-> i] /\ d.seen = n.used
  /\ d.open \subseteq n.used /\ None \notin d.open
  /\ n.batch # << >> => d.open \subseteq Members(n.batch)
  /\ AnswersBatch(n)

\* All that was heard of s went up, or waits.
Carries(n, s, heard) ==
  /\ Chosen(n.out, OthersOf) = Chosen(s, heard)
  /\ Members(Chosen(n.out, ResultsOf)) \cup Members(n.pending) = Members(Chosen(s, ResultsOf))
  /\ Len(Chosen(n.out, ResultsOf)) + Len(n.pending) = Len(Chosen(s, ResultsOf))

\* What the diagnosis says of an assistant's message.
LEMMA AssistantIsValid ==
  ASSUME NEW d \in DiagnosisType, NEW m \in MessageType, m.role = "assistant",
         Valid(History!Diagnose(d, m))
  PROVE  LET ids == {m.calls[k].id : k \in 1 .. Len(m.calls)}
         IN  /\ Valid(d) /\ d.open = {}
             /\ \A i \in 1 .. Len(m.calls) : m.calls[i].id # None /\ m.calls[i].id \notin d.seen
             /\ \A i, j \in 1 .. Len(m.calls) : m.calls[i].id = m.calls[j].id => i = j
             /\ tools # {} => History!Known(m.calls) = DOMAIN m.calls
             /\ History!Diagnose(d, m).seen = d.seen \cup ids
             /\ History!Diagnose(d, m).open = ids
<1> DEFINE b == m.calls
           ids == {b[k].id : k \in 1 .. Len(b)}
           dd == History!Diagnose(d, m)
<1>1. b \in Seq(CallType) /\ DOMAIN b = 1 .. Len(b) /\ \A k \in 1 .. Len(b) : b[k].id \in CallId
  <2>1. b \in Seq(CallType)
    BY DEF MessageType
  <2> HIDE DEF b
  <2>2. \A k \in 1 .. Len(b) : b[k] \in CallType
    BY <2>1, ElementOfSeq
  <2> QED BY <2>1, <2>2, LenProperties DEF CallType
<1>2. CASE b = << >>
  <2>1. 1 .. Len(b) = {} /\ ids = {} /\ DOMAIN b = {}
    BY <1>1, <1>2, NoneIn
  <2>2. dd = [d EXCEPT !.valid = @ /\ d.open = {}]
    BY <1>2 DEF History!Diagnose
  <2>3. dd.seen = d.seen /\ dd.open = d.open /\ dd.overlap = d.overlap
    BY <2>2 DEF DiagnosisType
  <2>4. dd.valid = (d.valid /\ d.open = {})
    BY <2>2 DEF DiagnosisType
  <2>5. dd.valid /\ ~dd.overlap
    BY DEF Valid
  <2>6. d.valid /\ d.open = {} /\ ~d.overlap
    BY <2>3, <2>4, <2>5
  <2>7. History!Known(b) = {}
    BY <2>1 DEF History!Known
  <2> QED BY <2>1, <2>3, <2>6, <2>7 DEF Valid
<1>3. CASE b # << >>
  <2> DEFINE v == /\ d.valid
                  /\ History!Cardinality(History!IdsOf(b) \ d.seen) = Len(b)
                  /\ tools # {} => History!Known(b) = DOMAIN b
             w == d.overlap \/ d.open # {}
  <2>1. dd = [seen |-> d.seen \cup History!IdsOf(b), open |-> d.open \cup (History!IdsOf(b) \ d.seen),
              overlap |-> w, valid |-> v]
    BY <1>3 DEF History!Diagnose
  <2> HIDE DEF v, w
  <2>2. /\ dd.seen = d.seen \cup History!IdsOf(b) /\ dd.open = d.open \cup (History!IdsOf(b) \ d.seen)
        /\ dd.overlap = w /\ dd.valid = v
    BY <2>1
  <2>3. v /\ ~w
    BY <2>2 DEF Valid
  <2>4. d.valid /\ ~d.overlap /\ d.open = {}
    BY <2>3 DEF v, w
  <2>5. History!Cardinality(History!IdsOf(b) \ d.seen) = Len(b) /\ (tools # {} => History!Known(b) = DOMAIN b)
    BY <2>3 DEF v
  <2>6. /\ \A i \in 1 .. Len(b) : b[i].id # None /\ b[i].id \notin d.seen
        /\ \A i, j \in 1 .. Len(b) : b[i].id = b[j].id => i = j
        /\ History!IdsOf(b) = ids
    <3> HIDE DEF b
    <3> QED BY <1>1, <2>5, AllNew
  <2>7. ids \subseteq CallId /\ ids \ d.seen = ids
    BY <1>1, <2>6
  <2>8. dd.seen = d.seen \cup ids /\ dd.open = ids
    BY <2>2, <2>4, <2>6, <2>7
  <2> QED BY <2>4, <2>5, <2>6, <2>8 DEF Valid
<1> QED BY <1>2, <1>3

\* What it says of a result, and of another message.
LEMMA ToolIsValid ==
  ASSUME NEW d \in DiagnosisType, NEW m \in MessageType, m.role = "tool",
         Valid(History!Diagnose(d, m))
  PROVE  /\ Valid(d) /\ m.id \in d.open
         /\ History!Diagnose(d, m).seen = d.seen
         /\ History!Diagnose(d, m).open = d.open \ {m.id}
<1> DEFINE dd == History!Diagnose(d, m)
<1>1. dd = [d EXCEPT !.open = @ \ {m.id}, !.valid = @ /\ m.id \in d.open]
  BY DEF History!Diagnose
<1>2. dd.seen = d.seen /\ dd.open = d.open \ {m.id} /\ dd.overlap = d.overlap
  BY <1>1 DEF DiagnosisType
<1>3. dd.valid = (d.valid /\ m.id \in d.open)
  BY <1>1 DEF DiagnosisType
<1> QED BY <1>2, <1>3 DEF Valid

\* And of a message of the user or the system.
LEMMA OtherIsValid ==
  ASSUME NEW d \in DiagnosisType, NEW m \in MessageType, m.role \in {"user", "system"},
         Valid(History!Diagnose(d, m))
  PROVE  /\ Valid(d)
         /\ History!Diagnose(d, m).seen = d.seen /\ History!Diagnose(d, m).open = d.open
<1> DEFINE dd == History!Diagnose(d, m)
<1>1. CASE m.role = "system"
  BY <1>1 DEF History!Diagnose
<1>2. CASE m.role = "user"
  <2>1. dd = [d EXCEPT !.valid = @ /\ d.open = {}]
    BY <1>2 DEF History!Diagnose
  <2>2. dd.seen = d.seen /\ dd.open = d.open /\ dd.overlap = d.overlap
    BY <2>1 DEF DiagnosisType
  <2>3. dd.valid = (d.valid /\ d.open = {})
    BY <2>1 DEF DiagnosisType
  <2> QED BY <2>2, <2>3 DEF Valid
<1> QED BY <1>1, <1>2

\* A diagnosis is one whatever it is told.
LEMMA DiagnosisIs ==
  ASSUME NEW d \in DiagnosisType, NEW m \in MessageType
  PROVE  History!Diagnose(d, m) \in DiagnosisType
<1>1. CASE m.role = "assistant" /\ m.calls # << >>
  <2> DEFINE b == m.calls
             v == /\ d.valid
                  /\ History!Cardinality(History!IdsOf(b) \ d.seen) = Len(b)
                  /\ tools # {} => History!Known(b) = DOMAIN b
             w == d.overlap \/ d.open # {}
  <2>1. b \in Seq(CallType) /\ DOMAIN b = 1 .. Len(b) /\ \A k \in 1 .. Len(b) : b[k].id \in CallId
    <3>1. b \in Seq(CallType)
      BY DEF MessageType
    <3> HIDE DEF b
    <3>2. \A k \in 1 .. Len(b) : b[k] \in CallType
      BY <3>1, ElementOfSeq
    <3> QED BY <3>1, <3>2, LenProperties DEF CallType
  <2>2. History!IdsOf(b) \subseteq CallId
    BY <2>1 DEF History!IdsOf
  <2>3. History!Diagnose(d, m) =
           [seen |-> d.seen \cup History!IdsOf(b), open |-> d.open \cup (History!IdsOf(b) \ d.seen),
            overlap |-> w, valid |-> v]
    BY <1>1 DEF History!Diagnose
  <2>4. v \in BOOLEAN /\ w \in BOOLEAN
    BY DEF DiagnosisType
  <2>5. /\ d.seen \cup History!IdsOf(b) \in SUBSET CallId
        /\ d.open \cup (History!IdsOf(b) \ d.seen) \in SUBSET CallId
    BY <2>2 DEF DiagnosisType
  <2> HIDE DEF b, v, w
  <2> QED BY <2>3, <2>4, <2>5 DEF DiagnosisType
<1>2. CASE m.role = "tool"
  <2>1. History!Diagnose(d, m) = [d EXCEPT !.open = @ \ {m.id}, !.valid = @ /\ m.id \in d.open]
    BY <1>2 DEF History!Diagnose
  <2> QED BY <2>1 DEF DiagnosisType
<1>3. CASE m.role = "system"
  BY <1>3 DEF History!Diagnose
<1>4. CASE ~(m.role = "assistant" /\ m.calls # << >>) /\ m.role # "tool" /\ m.role # "system"
  <2>1. History!Diagnose(d, m) = [d EXCEPT !.valid = @ /\ d.open = {}]
    BY <1>4 DEF History!Diagnose
  <2> QED BY <2>1 DEF DiagnosisType
<1> QED BY <1>1, <1>2, <1>3, <1>4

\* A message that goes up behind what was pending.
LEMMA GoesUp ==
  ASSUME NEW n, NormSound(n), AnswersBatch(n), NEW m \in OthersOf, NEW heard, m \in heard,
         NEW s \in Seq(MessageType), Carries(n, s, heard),
         NEW r, r.out = Append(History!Flush(n).out, m), r.pending = << >>
  PROVE  Carries(r, Append(s, m), heard)
<1> DEFINE o == History!Flush(n).out
           u == Append(s, m)
<1>1. n \in NormType /\ m \in MessageType /\ m \notin ResultsOf
  BY DEF NormSound, OthersOf, ResultsOf
<1>2. o \in Seq(MessageType)
  <2>1. History!Flush(n) \in NormType
    BY <1>1, FlushKeeps
  <2> QED BY <2>1 DEF NormType
<1>3. /\ Chosen(o, OthersOf) = Chosen(n.out, OthersOf)
      /\ Members(Chosen(o, ResultsOf)) = Members(Chosen(n.out, ResultsOf)) \cup Members(n.pending)
      /\ Len(Chosen(o, ResultsOf)) = Len(Chosen(n.out, ResultsOf)) + Len(n.pending)
  BY FlushLoses
<1> HIDE DEF o
<1>4. \A T : Chosen(Append(o, m), T) = IF m \in T THEN Append(Chosen(o, T), m) ELSE Chosen(o, T)
  BY <1>1, <1>2, ChosenAppend
<1>5. \A T : Chosen(u, T) = IF m \in T THEN Append(Chosen(s, T), m) ELSE Chosen(s, T)
  BY <1>1, ChosenAppend
<1> HIDE DEF u
<1>6. /\ Chosen(r.out, OthersOf) = Append(Chosen(o, OthersOf), m)
      /\ Chosen(r.out, ResultsOf) = Chosen(o, ResultsOf)
  BY <1>1, <1>4 DEF o
<1>7. Chosen(u, heard) = Append(Chosen(s, heard), m) /\ Chosen(u, ResultsOf) = Chosen(s, ResultsOf)
  BY <1>1, <1>5
<1>8. /\ Chosen(n.out, OthersOf) = Chosen(s, heard)
      /\ Members(Chosen(n.out, ResultsOf)) \cup Members(n.pending) = Members(Chosen(s, ResultsOf))
      /\ Len(Chosen(n.out, ResultsOf)) + Len(n.pending) = Len(Chosen(s, ResultsOf))
  BY DEF Carries
<1>9. Members(r.pending) = {} /\ Len(r.pending) = 0
  BY NoneIn
<1>10. Chosen(r.out, OthersOf) = Chosen(u, heard)
  BY <1>3, <1>6, <1>7, <1>8
<1>11. Members(Chosen(r.out, ResultsOf)) \cup Members(r.pending) = Members(Chosen(u, ResultsOf))
  BY <1>3, <1>6, <1>7, <1>8, <1>9
<1>12. Len(Chosen(r.out, ResultsOf)) + Len(r.pending) = Len(Chosen(u, ResultsOf))
  <2>1. Len(Chosen(r.out, ResultsOf)) = Len(Chosen(u, ResultsOf))
    BY <1>3, <1>6, <1>7, <1>8
  <2>2. Len(Chosen(u, ResultsOf)) \in Nat
    <3>1. Chosen(s, ResultsOf) \in Seq(MessageType)
      BY ChosenIn
    <3> QED BY <3>1, <1>7, LenProperties
  <2> QED BY <2>1, <2>2, <1>9
<1> QED BY <1>10, <1>11, <1>12 DEF Carries, u

\* Counting a message changes nothing else.
LEMMA Counted ==
  ASSUME NEW w \in NormType, NEW n, n = [w EXCEPT !.count = @ + 1]
  PROVE  /\ n.used = w.used /\ n.source = w.source /\ n.calls = w.calls /\ n.out = w.out
         /\ n.batch = w.batch /\ n.pending = w.pending
BY DEF NormType

\* A message an assistant of a valid history sends is filtered of nothing.
LEMMA FilteredOfNothing ==
  ASSUME NEW m \in MessageType, tools # {} /\ m.role = "assistant" => History!Known(m.calls) = DOMAIN m.calls
  PROVE  History!Filtered(m) = m
<1> DEFINE b == m.calls
           p == History!Pick(b, History!Known(b))
<1>1. b \in Seq(CallType)
  BY DEF MessageType
<1>2. CASE tools # {} /\ m.role = "assistant"
  <2>1. History!Filtered(m) = [m EXCEPT !.calls = p]
    BY <1>2 DEF History!Filtered
  <2>2. \A i \in 1 .. Len(b) : i \in History!Known(b)
    <3>1. History!Known(b) = DOMAIN b
      BY <1>2
    <3> HIDE DEF b
    <3> QED BY <1>1, <3>1, LenProperties
  <2>3. p = b
    <3> HIDE DEF b
    <3> QED BY <1>1, <2>2, PickAll
  <2>4. [m EXCEPT !.calls = b] = m
    BY DEF MessageType
  <2> HIDE DEF p
  <2> QED BY <2>1, <2>3, <2>4
<1>3. CASE ~(tools # {} /\ m.role = "assistant")
  BY <1>3 DEF History!Filtered
<1> QED BY <1>2, <1>3

\* The locals behind a message.
Onward(n, m) == IF History!Lost(m) THEN n ELSE History!Normalize(n, History!Filtered(m))

\* An assistant's message of a valid history.
LEMMA AssistantCarries ==
  ASSUME NEW n, NormSound(n), NEW d \in DiagnosisType, NEW m, Told(m), m.role = "assistant",
         NEW s \in Seq(MessageType), Valid(History!Diagnose(d, m)), Settled(n, d),
         Carries(n, s, HeardOf)
  PROVE  /\ Settled(Onward(n, m), History!Diagnose(d, m))
         /\ Carries(Onward(n, m), Append(s, m), HeardOf)
<1> DEFINE ids == {m.calls[k].id : k \in 1 .. Len(m.calls)}
           dd == History!Diagnose(d, m)
           r == History!AssistantMessage(n, m)
<1>1. m \in MessageType /\ ~IsResult(m) /\ m # History!Images
  BY DEF Told, IsResult, History!Images, History!Blank
<1>2. m \in OthersOf /\ m \notin ResultsOf
  BY <1>1 DEF OthersOf, ResultsOf
<1>3. /\ d.open = {} /\ dd.seen = d.seen \cup ids /\ dd.open = ids
      /\ \A i \in 1 .. Len(m.calls) : m.calls[i].id # None /\ m.calls[i].id \notin d.seen
      /\ \A i, j \in 1 .. Len(m.calls) : m.calls[i].id = m.calls[j].id => i = j
      /\ tools # {} => History!Known(m.calls) = DOMAIN m.calls
  BY <1>1, AssistantIsValid
<1>4. n.source = [i \in n.used |-> i] /\ d.seen = n.used /\ AnswersBatch(n)
  BY DEF Settled
<1>5. History!Filtered(m) = m
  BY <1>1, <1>3, FilteredOfNothing
<1>6. CASE History!Lost(m)
  <2>1. tools # {} /\ History!Known(m.calls) = {} /\ ~m.text
    BY <1>6 DEF History!Lost
  <2>2. m \notin HeardOf /\ ids = {}
    <3>1. DOMAIN m.calls = {}
      BY <1>3, <2>1
    <3>2. DOMAIN m.calls = 1 .. Len(m.calls)
      <4>1. m.calls \in Seq(CallType)
        BY <1>1 DEF MessageType
      <4> QED BY <4>1, LenProperties
    <3> QED BY <2>1, <3>1, <3>2 DEF HeardOf
  <2>3. Onward(n, m) = n
    BY <1>6 DEF Onward
  <2>4. \A T : Chosen(Append(s, m), T) = IF m \in T THEN Append(Chosen(s, T), m) ELSE Chosen(s, T)
    BY <1>1, ChosenAppend
  <2>5. Chosen(Append(s, m), HeardOf) = Chosen(s, HeardOf)
        /\ Chosen(Append(s, m), ResultsOf) = Chosen(s, ResultsOf)
    BY <1>2, <2>2, <2>4
  <2>6. Carries(n, Append(s, m), HeardOf)
    BY <2>5 DEF Carries
  <2>7. Settled(n, dd)
    <3>1. dd.seen = d.seen /\ dd.open = d.open
      BY <1>3, <2>2
    <3> HIDE DEF dd
    <3> QED BY <3>1 DEF Settled
  <2> QED BY <2>3, <2>6, <2>7
<1>7. CASE ~History!Lost(m)
  <2>1. m \in HeardOf
    BY <1>1, <1>7 DEF HeardOf, History!Lost
  <2>2. Onward(n, m) = History!Normalize(n, m)
    BY <1>5, <1>7 DEF Onward
  <2>3. History!Normalize(n, m) = [r EXCEPT !.count = @ + 1]
    BY DEF History!Normalize
  <2>4. Plain(m.calls, n)
    BY <1>3, <1>4 DEF Plain
  <2>5. /\ r.out = Append(History!Flush(n).out, m) /\ r.pending = << >>
        /\ r.used = n.used \cup ids /\ r.source = [i \in r.used |-> i] /\ Members(r.batch) = ids
    BY <1>1, <2>4, AssistantPlain
  <2>6. r \in NormType
    BY <1>1, AssistantKeeps DEF NormSound
  <2> HIDE DEF r, ids, dd
  <2> DEFINE nn == History!Normalize(n, m)
  <2>7. /\ nn.used = r.used /\ nn.source = r.source /\ nn.out = r.out
        /\ nn.batch = r.batch /\ nn.pending = r.pending
    BY <2>3, <2>6, Counted
  <2> HIDE DEF nn
  <2>8. Carries(nn, Append(s, m), HeardOf)
    <3>1. nn.out = Append(History!Flush(n).out, m) /\ nn.pending = << >>
      BY <2>5, <2>7
    <3> QED BY <1>2, <1>4, <2>1, <3>1, GoesUp
  <2>9. Settled(nn, dd)
    <3>1. None \notin ids
      BY <1>3 DEF ids
    <3>2. AnswersBatch(nn)
      BY <2>5, <2>7, NoneIn DEF AnswersBatch
    <3> QED BY <1>3, <1>4, <2>5, <2>7, <3>1, <3>2 DEF Settled
  <2> QED BY <2>2, <2>8, <2>9 DEF nn, dd
<1> QED BY <1>6, <1>7

\* A result of a valid history.
LEMMA ToolCarries ==
  ASSUME NEW n, NormSound(n), NEW d \in DiagnosisType, NEW m, Told(m), m.role = "tool",
         NEW s \in Seq(MessageType), Valid(History!Diagnose(d, m)), Settled(n, d),
         Carries(n, s, HeardOf), dropped = {}
  PROVE  /\ Settled(Onward(n, m), History!Diagnose(d, m))
         /\ Carries(Onward(n, m), Append(s, m), HeardOf)
<1> DEFINE dd == History!Diagnose(d, m)
           r == History!ToolMessage(n, m)
           nn == History!Normalize(n, m)
<1>1. m \in MessageType /\ m \in ResultsOf /\ m \notin HeardOf /\ m.calls = << >>
  BY DEF Told, IsResult, ResultsOf, HeardOf
<1>2. m.id \in d.open /\ dd.seen = d.seen /\ dd.open = d.open \ {m.id}
  BY <1>1, ToolIsValid
<1>3. /\ n.source = [i \in n.used |-> i] /\ d.seen = n.used /\ d.open \subseteq n.used
      /\ None \notin d.open /\ (n.batch # << >> => d.open \subseteq Members(n.batch)) /\ AnswersBatch(n)
  BY DEF Settled
<1>4. n \in NormType /\ n.calls = n.used
  BY DEF NormSound
<1>5. ~History!Lost(m) /\ History!Filtered(m) = m
  BY DEF History!Lost, History!Filtered
<1>6. Onward(n, m) = nn
  BY <1>5 DEF Onward
<1>7. History!Answers(n, m) = m.id
  <2>1. m.id # None /\ m.id \in n.used
    BY <1>2, <1>3
  <2>2. m.id \in DOMAIN n.source /\ n.source[m.id] = m.id
    BY <1>3, <2>1
  <2> QED BY <2>1, <2>2 DEF History!Answers
<1>8. r = [n EXCEPT !.consumed = @ \cup {m.id}, !.pending = Append(@, m)]
  <2>1. [m EXCEPT !.id = m.id] = m
    BY <1>1 DEF MessageType
  <2>2. m.id \in n.calls
    BY <1>2, <1>3, <1>4
  <2> QED BY <1>7, <2>1, <2>2 DEF History!ToolMessage
<1>9. nn = [r EXCEPT !.count = @ + 1]
  BY DEF History!Normalize
<1>10. r \in NormType
  BY <1>1, ToolKeeps DEF NormSound
<1> HIDE DEF dd, nn, r
<1>11. /\ r.used = n.used /\ r.source = n.source /\ r.out = n.out /\ r.batch = n.batch
       /\ r.pending = Append(n.pending, m)
  BY <1>4, <1>8 DEF NormType
<1>12. /\ nn.used = n.used /\ nn.source = n.source /\ nn.out = n.out /\ nn.batch = n.batch
       /\ nn.pending = Append(n.pending, m)
  BY <1>9, <1>10, <1>11, Counted
<1>13. n.pending \in Seq(MessageType) /\ n.out \in Seq(MessageType)
  BY <1>4 DEF NormType
<1>14. Members(nn.pending) = Members(n.pending) \cup {m} /\ Len(nn.pending) = Len(n.pending) + 1
  BY <1>1, <1>12, <1>13, MembersOfAppend, AppendProperties
<1>15. Settled(nn, dd)
  <2>1. AnswersBatch(nn)
    BY <1>2, <1>3, <1>12, <1>14 DEF AnswersBatch
  <2> QED BY <1>2, <1>3, <1>12, <2>1 DEF Settled
<1>16. Carries(nn, Append(s, m), HeardOf)
  <2>1. \A T : Chosen(Append(s, m), T) = IF m \in T THEN Append(Chosen(s, T), m) ELSE Chosen(s, T)
    BY <1>1, ChosenAppend
  <2> DEFINE u == Append(s, m)
             q == Chosen(s, ResultsOf)
             p == Chosen(n.out, ResultsOf)
  <2>2. Chosen(u, HeardOf) = Chosen(s, HeardOf) /\ Chosen(u, ResultsOf) = Append(q, m)
    BY <1>1, <2>1
  <2>3. q \in Seq(MessageType) /\ p \in Seq(MessageType)
    BY <1>13, ChosenIn
  <2>4. /\ Chosen(n.out, OthersOf) = Chosen(s, HeardOf)
        /\ Members(p) \cup Members(n.pending) = Members(q) /\ Len(p) + Len(n.pending) = Len(q)
    BY DEF Carries
  <2> HIDE DEF u, q, p
  <2>5. Members(Append(q, m)) = Members(q) \cup {m} /\ Len(Append(q, m)) = Len(q) + 1
    BY <1>1, <2>3, MembersOfAppend, AppendProperties
  <2>6. Len(p) \in Nat /\ Len(n.pending) \in Nat /\ Len(q) \in Nat
    BY <1>13, <2>3, LenProperties
  <2>7. Members(p) \cup Members(nn.pending) = Members(Append(q, m))
    BY <1>14, <2>4, <2>5
  <2>8. Len(p) + Len(nn.pending) = Len(Append(q, m))
    BY <1>14, <2>4, <2>5, <2>6
  <2> QED BY <1>12, <2>2, <2>4, <2>7, <2>8 DEF Carries, u, p
<1> QED BY <1>6, <1>15, <1>16 DEF dd

\* Any other message of a valid history.
LEMMA OtherCarries ==
  ASSUME NEW n, NormSound(n), NEW d \in DiagnosisType, NEW m, Told(m), m # History!Images,
         m.role \in {"user", "system"},
         NEW s \in Seq(MessageType), Valid(History!Diagnose(d, m)), Settled(n, d),
         Carries(n, s, HeardOf)
  PROVE  /\ Settled(Onward(n, m), History!Diagnose(d, m))
         /\ Carries(Onward(n, m), Append(s, m), HeardOf)
<1> DEFINE dd == History!Diagnose(d, m)
           f == History!Flush(n)
           r == History!OtherMessage(n, m)
           nn == History!Normalize(n, m)
<1>1. m \in MessageType /\ m \in OthersOf /\ m \in HeardOf /\ m.calls = << >> /\ m.role # "tool"
  BY DEF Told, IsResult, OthersOf, HeardOf
<1>2. dd.seen = d.seen /\ dd.open = d.open
  BY <1>1, OtherIsValid
<1>3. /\ n.source = [i \in n.used |-> i] /\ d.seen = n.used /\ d.open \subseteq n.used
      /\ None \notin d.open /\ AnswersBatch(n)
  BY DEF Settled
<1>4. n \in NormType
  BY DEF NormSound
<1>5. ~History!Lost(m) /\ History!Filtered(m) = m
  BY DEF History!Lost, History!Filtered
<1>6. Onward(n, m) = nn
  BY <1>5 DEF Onward
<1>7. r = [f EXCEPT !.batch = << >>, !.consumed = {}, !.out = Append(@, m)]
  BY DEF History!OtherMessage
<1>8. nn = [r EXCEPT !.count = @ + 1]
  BY DEF History!Normalize
<1>9. r \in NormType
  BY <1>1, OtherKeeps DEF NormSound
<1>10. f \in NormType /\ f.used = n.used /\ f.source = n.source /\ f.pending = << >>
  BY <1>4, FlushKeeps
<1> HIDE DEF dd, nn, r
<1>11. /\ r.used = n.used /\ r.source = n.source /\ r.out = Append(f.out, m) /\ r.batch = << >>
       /\ r.pending = << >>
  <2> HIDE DEF f
  <2> QED BY <1>7, <1>10 DEF NormType
<1>12. /\ nn.used = n.used /\ nn.source = n.source /\ nn.out = Append(f.out, m) /\ nn.batch = << >>
       /\ nn.pending = << >>
  BY <1>8, <1>9, <1>11, Counted
<1>13. Settled(nn, dd)
  <2>1. AnswersBatch(nn)
    BY <1>12 DEF AnswersBatch
  <2> QED BY <1>2, <1>3, <1>12, <2>1 DEF Settled
<1>14. Carries(nn, Append(s, m), HeardOf)
  BY <1>1, <1>3, <1>12, GoesUp
<1> QED BY <1>6, <1>13, <1>14 DEF dd

\* A history is sound: what goes up is tidy, and a valid one is carried, nothing dropped.
HistorySound ==
  /\ NormSound(norm) /\ history \in Seq(MessageType) /\ diagnosis \in DiagnosisType
  /\ Valid(diagnosis) =>
       dropped = {} /\ Settled(norm, diagnosis) /\ Carries(norm, history, HeardOf)

\* A history of no messages.
LEMMA HistoryStarts == ASSUME History!HistoryInit PROVE HistorySound
<1>1. norm = [used |-> {}, source |-> << >>, calls |-> {}, out |-> << >>, count |-> 0,
              batch |-> << >>, consumed |-> {}, pending |-> << >>]
  BY DEF History!HistoryInit
<1>2. /\ norm.used = {} /\ norm.source = << >> /\ norm.out = << >> /\ norm.batch = << >>
      /\ norm.pending = << >>
  BY <1>1
<1>3. history = << >> /\ dropped = {}
      /\ diagnosis = [seen |-> {}, open |-> {}, valid |-> TRUE, overlap |-> FALSE]
  BY DEF History!HistoryInit
<1>4. diagnosis \in DiagnosisType /\ diagnosis.seen = {} /\ diagnosis.open = {}
  BY <1>3 DEF DiagnosisType
<1>5. history \in Seq(MessageType)
  BY <1>3
<1>6. Settled(norm, diagnosis)
  <2>1. [i \in {} |-> i] = << >>
    OBVIOUS
  <2> QED BY <1>2, <1>4, <2>1 DEF Settled, AnswersBatch
<1>7. Carries(norm, history, HeardOf)
  <2>1. << >> \in Seq(MessageType) /\ \A x \in Members(<< >>) : FALSE
    BY NoneIn
  <2>2. \A T : Chosen(<< >>, T) = << >>
    BY <2>1, ChosenNone
  <2>3. Len(<< >>) + Len(<< >>) = Len(<< >>)
    OBVIOUS
  <2> QED BY <1>2, <1>3, <2>1, <2>2, <2>3 DEF Carries
<1> QED BY <1>3, <1>4, <1>5, <1>6, <1>7, NormStarts DEF HistorySound

\* Whatever message comes.
LEMMA HistoryStep == ASSUME HistorySound, History!HistoryNext PROVE HistorySound'
<1>1. PICK m : Told(m) /\ m # History!Images /\ History!Message(m)
  BY ClientsTell
<1>2. m \in MessageType
  BY <1>1 DEF Told
<1>3. /\ norm' = Onward(norm, m) /\ history' = Append(history, m) /\ tools' = tools
      /\ diagnosis' = History!Diagnose(diagnosis, m)
      /\ dropped' = dropped \cup History!DroppedBy(m)
  BY <1>1 DEF History!Message, Onward
<1>4. NormSound(norm)'
  BY <1>1, MessageKeeps DEF HistorySound
<1>5. history' \in Seq(MessageType) /\ diagnosis' \in DiagnosisType
  BY <1>2, <1>3, AppendProperties, DiagnosisIs DEF HistorySound
<1>6. HeardOf' = HeardOf
  BY <1>3 DEF HeardOf, History!Known
<1>7. ASSUME Valid(diagnosis')
      PROVE  dropped' = {} /\ Settled(norm', diagnosis') /\ Carries(norm', history', HeardOf)
  <2>1. m.role \in {"user", "system", "assistant", "tool"} /\ Valid(History!Diagnose(diagnosis, m))
    BY <1>2, <1>3, <1>7 DEF MessageType
  <2>2. Valid(diagnosis)
    BY <1>2, <2>1, AssistantIsValid, ToolIsValid, OtherIsValid DEF HistorySound
  <2>3. dropped = {} /\ Settled(norm, diagnosis) /\ Carries(norm, history, HeardOf)
    BY <2>2 DEF HistorySound
  <2>4. History!DroppedBy(m) = {}
    <3>1. CASE tools # {} /\ m.role = "assistant"
      <4>1. History!Known(m.calls) = DOMAIN m.calls
        BY <1>2, <2>1, <3>1, AssistantIsValid DEF HistorySound
      <4> QED BY <3>1, <4>1 DEF History!DroppedBy
    <3>2. CASE ~(tools # {} /\ m.role = "assistant")
      BY <3>2 DEF History!DroppedBy
    <3> QED BY <3>1, <3>2
  <2>5. /\ Settled(Onward(norm, m), History!Diagnose(diagnosis, m))
        /\ Carries(Onward(norm, m), Append(history, m), HeardOf)
    <3>1. NormSound(norm) /\ diagnosis \in DiagnosisType /\ history \in Seq(MessageType)
      BY DEF HistorySound
    <3>2. CASE m.role = "assistant"
      BY <1>1, <2>1, <2>3, <3>1, <3>2, AssistantCarries
    <3>3. CASE m.role = "tool"
      BY <1>1, <2>1, <2>3, <3>1, <3>3, ToolCarries
    <3>4. CASE m.role \in {"user", "system"}
      BY <1>1, <2>1, <2>3, <3>1, <3>4, OtherCarries
    <3> QED BY <2>1, <3>2, <3>3, <3>4
  <2> QED BY <1>3, <2>3, <2>4, <2>5
<1>8. (Valid(diagnosis) => dropped = {} /\ Settled(norm, diagnosis) /\ Carries(norm, history, HeardOf))'
  <2>1. Valid(diagnosis)' => Valid(diagnosis')
    BY DEF Valid
  <2>2. Settled(norm', diagnosis') => Settled(norm, diagnosis)'
    BY DEF Settled, AnswersBatch, Members
  <2>3. Carries(norm', history', HeardOf) => Carries(norm, history, HeardOf)'
    BY <1>6 DEF Carries
  <2> QED BY <1>7, <2>1, <2>2, <2>3
<1> QED BY <1>4, <1>5, <1>8 DEF HistorySound

\* Where no message comes, nothing changes.
LEMMA HistoryStays ==
  ASSUME HistorySound, UNCHANGED <<tools, history, dropped, norm, diagnosis>>
  PROVE  HistorySound'
<1>1. HeardOf' = HeardOf
  BY DEF HeardOf, History!Known
<1>2. NormSound(norm)'
  BY DEF HistorySound, NormSound
<1>3. Settled(norm, diagnosis) => Settled(norm, diagnosis)'
  BY DEF Settled, AnswersBatch
<1>4. Carries(norm, history, HeardOf) => Carries(norm, history, HeardOf)'
  BY <1>1 DEF Carries
<1> QED BY <1>2, <1>3, <1>4 DEF HistorySound, Valid

\* A sound history is tidy and kept.
LEMMA SoundIsKept == ASSUME HistorySound PROVE History!UpstreamIsTidy /\ History!ValidHistoryIsKept
<1>1. History!UpstreamIsTidy
  BY SoundIsTidy DEF HistorySound
<1>2. ASSUME Valid(diagnosis)
      PROVE  LET up == History!Upstream
                 Results(s) == History!Pick(s, {i \in DOMAIN s : History!IsResult(s[i])})
             IN  /\ History!Pick(up, {i \in DOMAIN up : ~History!IsResult(up[i]) /\ up[i] # History!Images})
                      = History!Pick(history, {i \in DOMAIN history :
                                                  ~History!IsResult(history[i]) /\ ~History!Lost(history[i])})
                 /\ History!ToSet(Results(up)) = History!ToSet(Results(history))
                 /\ Len(Results(up)) = Len(Results(history))
  <2> DEFINE up == History!Upstream
             Results(s) == History!Pick(s, {i \in DOMAIN s : History!IsResult(s[i])})
  <2>1. NormSound(norm) /\ history \in Seq(MessageType) /\ AnswersBatch(norm) /\ Carries(norm, history, HeardOf)
    BY <1>2 DEF HistorySound, Settled
  <2>2. up = History!Flush(norm).out
    BY DEF History!Upstream
  <2>3. up \in Seq(MessageType)
    <3>1. History!Flush(norm) \in NormType
      BY <2>1, FlushKeeps DEF NormSound
    <3> QED BY <2>2, <3>1 DEF NormType
  <2>4. /\ Chosen(up, OthersOf) = Chosen(history, HeardOf)
        /\ Members(Chosen(up, ResultsOf)) = Members(Chosen(history, ResultsOf))
        /\ Len(Chosen(up, ResultsOf)) = Len(Chosen(history, ResultsOf))
    BY <2>1, <2>2, FlushLoses DEF Carries
  <2> HIDE DEF up
  <2>5. ASSUME NEW s \in Seq(MessageType) PROVE Results(s) = Chosen(s, ResultsOf)
    <3>1. \A i \in DOMAIN s : s[i] \in MessageType
      BY LenProperties, ElementOfSeq
    <3>2. {i \in DOMAIN s : History!IsResult(s[i])} = {i \in DOMAIN s : s[i] \in ResultsOf}
      BY <3>1 DEF ResultsOf, IsResult, History!IsResult
    <3> QED BY <3>2 DEF Chosen
  <2>6. History!Pick(up, {i \in DOMAIN up : ~History!IsResult(up[i]) /\ up[i] # History!Images})
          = Chosen(up, OthersOf)
    <3>1. \A i \in DOMAIN up : up[i] \in MessageType
      BY <2>3, LenProperties, ElementOfSeq
    <3>2. {i \in DOMAIN up : ~History!IsResult(up[i]) /\ up[i] # History!Images}
            = {i \in DOMAIN up : up[i] \in OthersOf}
      BY <3>1 DEF OthersOf, IsResult, History!IsResult
    <3> QED BY <3>2 DEF Chosen
  <2>7. History!Pick(history, {i \in DOMAIN history :
                                 ~History!IsResult(history[i]) /\ ~History!Lost(history[i])})
          = Chosen(history, HeardOf)
    <3>1. \A i \in DOMAIN history : history[i] \in MessageType
      BY <2>1, LenProperties, ElementOfSeq
    <3>2. \A m \in MessageType : (~History!IsResult(m) /\ ~History!Lost(m)) <=> m \in HeardOf
      BY DEF HeardOf, IsResult, History!IsResult, History!Lost
    <3>3. {i \in DOMAIN history : ~History!IsResult(history[i]) /\ ~History!Lost(history[i])}
            = {i \in DOMAIN history : history[i] \in HeardOf}
      BY <3>1, <3>2
    <3> QED BY <3>3 DEF Chosen
  <2>8. Results(up) = Chosen(up, ResultsOf) /\ Results(history) = Chosen(history, ResultsOf)
    BY <2>1, <2>3, <2>5
  <2>9. \A s : History!ToSet(s) = Members(s)
    BY DEF History!ToSet, Members
  <2> HIDE DEF Results
  <2>10. /\ History!Pick(up, {i \in DOMAIN up : ~History!IsResult(up[i]) /\ up[i] # History!Images})
              = History!Pick(history, {i \in DOMAIN history :
                                          ~History!IsResult(history[i]) /\ ~History!Lost(history[i])})
         /\ History!ToSet(Results(up)) = History!ToSet(Results(history))
         /\ Len(Results(up)) = Len(Results(history))
    BY <2>4, <2>6, <2>7, <2>8, <2>9
  <2> QED BY <2>10 DEF up, Results
<1>3. History!ValidHistoryIsKept
  BY <1>2, Zenon DEF History!ValidHistoryIsKept, Valid
<1> QED BY <1>1, <1>3

-----------------------------------------------------------------------------
(* The worker's parts: one of them runs *)

\* What holds of the part that runs.
PartsSound ==
  /\ part = "stream" => StreamSound
  /\ part = "history" => HistorySound
  /\ part = "checkin" => CheckinSound

\* A part that begins is sound.
LEMMA PartsStart == ASSUME Init PROVE PartsSound
BY StreamStarts, HistoryStarts, CheckinStarts DEF Init, SseInit, HistoryInit, CheckinInit, PartsSound

\* A part is as sound after its steps, and nothing else moves it.
LEMMA PartsStep == ASSUME PartsSound, [Next]_vars PROVE PartsSound'
<1>1. CASE Next
  <2>1. part' = part
    BY <1>1 DEF Next
  <2>2. CASE part = "stream"
    BY <1>1, <2>1, <2>2, StreamStep DEF Next, PartsSound
  <2>3. CASE part = "checkin"
    BY <1>1, <2>1, <2>3, CheckinStep DEF Next, PartsSound
  <2>4. CASE part = "history"
    BY <1>1, <2>1, <2>4, HistoryStep DEF Next, PartsSound
  <2> QED
    BY <2>1, <2>2, <2>3, <2>4 DEF PartsSound
<1>2. CASE UNCHANGED vars
  <2>1. UNCHANGED <<part, phase, lines, buffer, parser, unary, out>>
    BY <1>2 DEF vars, sseVars
  <2>2. UNCHANGED <<pending, op, waiting, answer, campaign, ours>>
    BY <1>2 DEF vars, checkinVars
  <2>3. StreamSound => StreamSound'
    BY <2>1 DEF StreamSound, StreamTyped, ErrorKept, Sse!TellingErrorWins, Unended, Sse!NoSilentTruncation,
                 Answered
  <2>4. CheckinSound => CheckinSound'
    BY <2>2 DEF CheckinSound, CheckinTyped, OneOperation
  <2>5. UNCHANGED <<tools, history, dropped, norm, diagnosis>>
    BY <1>2 DEF vars, historyVars
  <2>6. HistorySound => HistorySound'
    BY <2>5, HistoryStays
  <2> QED
    BY <2>1, <2>3, <2>4, <2>6 DEF PartsSound
<1> QED
  BY <1>1, <1>2

\* Whatever part runs, its invariant holds in every state.
THEOREM PartsStaySound == Spec => []PartsSound
<1>1. Init => PartsSound
  BY PartsStart
<1>2. PartsSound /\ [Next]_vars => PartsSound'
  BY PartsStep
<1> QED
  BY <1>1, <1>2, PTL DEF Spec

\* NoSilentTruncation: a stream reported complete was ended by the upstream, had no
\* error in it, and reached the client with all its text in order and one ending,
\* for any lines, deadlines, breaks and ends of the body (pipeNestedSseToOpenAI).
THEOREM StreamsAreNotTruncated == Spec => []NoSilentTruncation
<1>1. PartsSound => NoSilentTruncation
  BY DEF PartsSound, StreamSound, NoSilentTruncation
<1> QED
  BY <1>1, PartsStaySound, PTL

\* ParsersAgree: of any number of errors in a stream the client gets the most telling
\* one, and of equals the latest (rememberError); and of an answer that streams well the
\* unary parser makes the same text and no error, and takes it for an answer.
THEOREM TheParsersAgree == Spec => []ParsersAgree
<1>1. PartsSound => ParsersAgree
  BY DEF PartsSound, StreamSound, ParsersAgree, Sse!UnaryAgrees, Agree, Answered, Sse!UnaryOK
<1> QED
  BY <1>1, PartsStaySound, PTL

\* HistoryIsSound: whatever history a client sends, of any length, with any calls and
\* any ids of them, the upstream gets one whose call ids are all different and whose
\* results answer the batch they come behind, in its order; and of a history the
\* diagnosis calls valid, where no call comes on top of an open one, every message and
\* every result goes up under its own id (normalizeMessagesForUpstream).
THEOREM HistoryStaysSound == Spec => []HistoryIsSound
<1>1. PartsSound => HistoryIsSound
  BY SoundIsKept DEF PartsSound, HistoryIsSound
<1> QED
  BY <1>1, PartsStaySound, PTL

\* CheckinIsHonest: no campaign this worker has claimed is asked for again, and who
\* hears "success" or "already" has every campaign claimed that was found open, for
\* any number of callers, campaigns, calls, lost answers and expiring tokens.
THEOREM CheckinStaysHonest == Spec => CheckinIsHonest
<1>1. PartsSound /\ Next => (part = "checkin" => Daily!ClaimsOnce /\ Daily!AnswersTruly)
  BY CheckinStep, AsksOnce DEF PartsSound, Next
<1> QED
  BY <1>1, PartsStaySound, PTL DEF Spec, CheckinIsHonest
=============================================================================
