---------------------------- MODULE WorkerProofs ----------------------------
(***************************************************************************)
(* The worker's slots, retries and context, for any number of chats and    *)
(* logins and any bounds.                                                  *)
(*                                                                         *)
(* The argument: Sound is inductive.  The slots in use are a finite set of *)
(* chats that changes by one chat, or by those a shared promise fails; a   *)
(* chat that has not arrived has no retry behind it; and a context that is *)
(* not the account's has a login behind it until it is adopted.  Nothing   *)
(* of this depends on the order of the chain, only on the fact that a chat *)
(* which asked for a rewarm waits for the promise to settle.               *)
(***************************************************************************)
EXTENDS Worker, FiniteSetTheorems, SequenceTheorems, TLAPS

Where == {"idle", "busy", "ready", "catalog", "encode", "upstream", "rewarm", "done"}

Chats == [Chat -> [at : Where, retried : BOOLEAN, sent : BOOLEAN, stale : BOOLEAN]]

Typed ==
  /\ account \in Nat
  /\ inFlight \in Nat
  /\ chat \in Chats
  /\ DOMAIN login = Login

Holders == {c \in Chat : Holds(c)}

\* A chat before its arrival has not been retried.
NotYetRetried == \A c \in Chat : chat[c].at = "idle" => ~chat[c].retried

\* The slots are counted over a finite set, however many chats there may be.
Slots == IsFiniteSet(Holders) /\ SlotsAreChats

Sound == Typed /\ NotYetRetried /\ RetryIsFresh /\ Slots /\ ContextIsCurrent

-----------------------------------------------------------------------------
(* Slots *)

\* One chat takes a slot, and the count follows.
LEMMA OneMore ==
  ASSUME NEW S, IsFiniteSet(S), NEW c, c \notin S
  PROVE  IsFiniteSet(S \cup {c}) /\ Cardinality(S \cup {c}) = Cardinality(S) + 1
BY FS_AddElement

\* One chat gives its slot back, and the count follows.
LEMMA OneLess ==
  ASSUME NEW S, IsFiniteSet(S), NEW c \in S
  PROVE  /\ IsFiniteSet(S \ {c}) /\ Cardinality(S \ {c}) = Cardinality(S) - 1
         /\ Cardinality(S \ {c}) \in Nat /\ Cardinality(S) \in Nat
BY FS_RemoveElement, FS_CardinalityType

\* A shared promise gives back the slots of all its waiters T at once.
LEMMA ManyLess ==
  ASSUME NEW S, IsFiniteSet(S), NEW T \in SUBSET S
  PROVE  /\ IsFiniteSet(S \ T)
         /\ Cardinality(S \ T) = Cardinality(S) - Cardinality(T)
         /\ Cardinality(S \ T) \in Nat /\ Cardinality(T) \in Nat /\ Cardinality(S) \in Nat
<1>1. S \cap T = T
  OBVIOUS
<1>2. IsFiniteSet(T) /\ IsFiniteSet(S \ T)
  BY FS_Subset
<1>3. Cardinality(S \ T) = Cardinality(S) - Cardinality(T)
  BY <1>1, FS_Difference
<1>4. Cardinality(S \ T) \in Nat /\ Cardinality(T) \in Nat /\ Cardinality(S) \in Nat
  BY <1>2, FS_CardinalityType
<1> QED
  BY <1>2, <1>3, <1>4

-----------------------------------------------------------------------------
(* Every operator that moves chats, by what it does to them *)

\* A chat in the hands of its handler gives its slot back and is done.
LEMMA AnswerIsSound ==
  ASSUME Sound, NEW c \in Chat, Holds(c), Answer(c)
  PROVE  /\ chat' \in Chats /\ inFlight' \in Nat
         /\ NotYetRetried' /\ RetryIsFresh' /\ Slots'
<1>1. chat' \in Chats
  BY DEF Sound, Typed, Chats, Answer, Where
<1>2. Holders' = Holders \ {c} /\ c \in Holders
  BY <1>1 DEF Sound, Typed, Chats, Answer, Holders, Holds
<1>3. NotYetRetried' /\ RetryIsFresh'
  BY DEF Sound, Typed, Chats, Answer, NotYetRetried, RetryIsFresh
<1>4. Slots' /\ inFlight' \in Nat
  <2>1. /\ IsFiniteSet(Holders \ {c})
        /\ Cardinality(Holders \ {c}) = inFlight - 1
        /\ Cardinality(Holders \ {c}) \in Nat
    BY <1>2, OneLess DEF Sound, Slots, SlotsAreChats, Holders
  <2>2. inFlight' = inFlight - 1 /\ inFlight <= MaxInFlight /\ inFlight \in Nat /\ MaxInFlight \in Nat
    BY WorkerAssumption DEF Sound, Typed, Slots, SlotsAreChats, Answer, WorkerAssumption
  <2>3. inFlight' = Cardinality(Holders') /\ inFlight' <= MaxInFlight /\ IsFiniteSet(Holders')
    BY <1>2, <2>1, <2>2
  <2> QED
    BY <2>1, <2>2, <2>3 DEF Slots, SlotsAreChats, Holders
<1> QED
  BY <1>1, <1>3, <1>4

\* A step that leaves every slot where it is and every retry as fresh as it was.
LEMMA KeptSlots ==
  ASSUME Sound, chat' \in Chats, inFlight' = inFlight,
         \A c \in Chat : Holds(c)' <=> Holds(c)
  PROVE  Slots' /\ inFlight' \in Nat
<1>1. Holders' = Holders
  BY DEF Holders
<1> QED
  BY <1>1 DEF Sound, Typed, Slots, SlotsAreChats, Holders

\* A failed chat waits for the rewarm with its slot, or is answered.
LEMMA FailedIsSound ==
  ASSUME Sound, NEW c \in Chat, Holds(c), Failed(c)
  PROVE  /\ chat' \in Chats /\ inFlight' \in Nat
         /\ NotYetRetried' /\ RetryIsFresh' /\ Slots'
<1>1. CASE Retries(c)
  <2>1. /\ chat' = [chat EXCEPT ![c].at = "rewarm", ![c].retried = TRUE, ![c].stale = TRUE]
        /\ inFlight' = inFlight
    BY <1>1 DEF Failed
  <2>2. chat' \in Chats
    <3> DEFINE next == [chat[c] EXCEPT !.at = "rewarm", !.retried = TRUE, !.stale = TRUE]
    <3>1. chat \in Chats
      BY DEF Sound, Typed
    <3>2. next \in [at : Where, retried : BOOLEAN, sent : BOOLEAN, stale : BOOLEAN]
      BY <3>1 DEF Chats, Where
    <3>3. chat' = [chat EXCEPT ![c] = next]
      BY <2>1, <3>1 DEF Chats
    <3> HIDE DEF next
    <3> QED
      BY <3>1, <3>2, <3>3 DEF Chats
  <2>3. \A d \in Chat : Holds(d)' <=> Holds(d)
    BY <2>1 DEF Sound, Typed, Chats, Holds
  <2>4. NotYetRetried' /\ RetryIsFresh'
    BY <2>1 DEF Sound, Typed, Chats, NotYetRetried, RetryIsFresh
  <2> QED
    BY <2>1, <2>2, <2>3, <2>4, KeptSlots
<1>2. CASE ~Retries(c)
  BY <1>2, AnswerIsSound DEF Failed
<1> QED
  BY <1>1, <1>2

\* The end of a shared rewarm: its waiters go on with a context adopted since
\* they failed, or all of them give their slots back.
LEMMA AfterRewarmIsSound ==
  ASSUME Sound, NEW ok \in BOOLEAN, AfterRewarm(ok)
  PROVE  /\ chat' \in Chats /\ inFlight' \in Nat
         /\ NotYetRetried' /\ RetryIsFresh' /\ Slots'
<1> DEFINE waiting == {c \in Chat : chat[c].at = "rewarm"}
<1>1. /\ chat' = [c \in Chat |->
                    [chat[c] EXCEPT !.at = IF c \notin waiting THEN @ ELSE IF ok THEN "ready" ELSE "done",
                                    !.stale = @ /\ ~ok]]
      /\ inFlight' = IF ok THEN inFlight ELSE inFlight - Cardinality(waiting)
  BY DEF AfterRewarm
<1>0. \A c \in Chat : chat[c] \in [at : Where, retried : BOOLEAN, sent : BOOLEAN, stale : BOOLEAN]
  BY DEF Sound, Typed, Chats
<1>2. \A c \in Chat :
        /\ chat'[c].at = IF chat[c].at # "rewarm" THEN chat[c].at ELSE IF ok THEN "ready" ELSE "done"
        /\ chat'[c].retried = chat[c].retried
        /\ ok => ~chat'[c].stale
        /\ ~ok => chat'[c].stale = chat[c].stale
  <2> TAKE c \in Chat
  <2> DEFINE at == IF c \notin waiting THEN chat[c].at ELSE IF ok THEN "ready" ELSE "done"
  <2>1. chat'[c] = [chat[c] EXCEPT !.at = at, !.stale = chat[c].stale /\ ~ok]
    BY <1>1
  <2>2. chat'[c].at = at /\ chat'[c].retried = chat[c].retried
    BY <1>0, <2>1
  <2>3. chat'[c].stale = (chat[c].stale /\ ~ok)
    BY <1>0, <2>1
  <2> QED
    BY <1>0, <2>2, <2>3
<1>3. chat' \in Chats
  <2> SUFFICES ASSUME NEW c \in Chat
               PROVE  chat'[c] \in [at : Where, retried : BOOLEAN, sent : BOOLEAN, stale : BOOLEAN]
    BY <1>1 DEF Chats
  <2> DEFINE at == IF c \notin waiting THEN chat[c].at ELSE IF ok THEN "ready" ELSE "done"
  <2>1. chat'[c] = [chat[c] EXCEPT !.at = at, !.stale = chat[c].stale /\ ~ok]
    BY <1>1
  <2>2. at \in Where
    BY <1>0 DEF Where
  <2> HIDE DEF at
  <2> QED
    BY <1>0, <2>1, <2>2
<1>4. NotYetRetried' /\ RetryIsFresh'
  BY <1>2 DEF Sound, NotYetRetried, RetryIsFresh
<1>5. CASE ok
  <2>1. \A c \in Chat : Holds(c)' <=> Holds(c)
    BY <1>2, <1>5 DEF Holds
  <2> QED
    BY <1>1, <1>3, <1>4, <1>5, <2>1, KeptSlots
<1>6. CASE ~ok
  <2>1. Holders' = Holders \ waiting /\ waiting \in SUBSET Holders
    BY <1>2, <1>6 DEF Holders, Holds
  <2>2. /\ IsFiniteSet(Holders \ waiting)
        /\ Cardinality(Holders \ waiting) = inFlight - Cardinality(waiting)
        /\ Cardinality(Holders \ waiting) \in Nat /\ Cardinality(waiting) \in Nat
    BY <2>1, ManyLess DEF Sound, Slots, SlotsAreChats, Holders
  <2>3. inFlight <= MaxInFlight /\ inFlight \in Nat /\ MaxInFlight \in Nat
    BY WorkerAssumption DEF Sound, Typed, Slots, SlotsAreChats, WorkerAssumption
  <2>4. inFlight' = inFlight - Cardinality(waiting)
    BY <1>1, <1>6
  <2>5. inFlight' = Cardinality(Holders') /\ inFlight' <= MaxInFlight /\ IsFiniteSet(Holders')
    BY <2>1, <2>2, <2>3, <2>4
  <2> QED
    BY <1>3, <1>4, <2>2, <2>4, <2>5 DEF Slots, SlotsAreChats, Holders
<1> QED
  BY <1>5, <1>6

-----------------------------------------------------------------------------
(* The next-state relation *)

\* What a step of a chat or of the shared promises must re-establish.
ChatsSound ==
  /\ chat' \in Chats /\ inFlight' \in Nat
  /\ NotYetRetried' /\ RetryIsFresh' /\ Slots'

\* A chat arrives: turned away when the slots are taken, else it has one.
LEMMA ArriveIsSound ==
  ASSUME Sound, NEW c \in Chat, Arrive(c)
  PROVE  ChatsSound
<1>1. chat' \in Chats
  BY DEF Sound, Typed, Chats, Where, Arrive
<1>2. NotYetRetried' /\ RetryIsFresh'
  BY DEF Sound, Typed, Chats, Arrive, NotYetRetried, RetryIsFresh
<1>3. CASE inFlight >= MaxInFlight
  <2>1. inFlight' = inFlight /\ chat' = [chat EXCEPT ![c].at = "busy"] /\ chat[c].at = "idle"
    BY <1>3 DEF Arrive
  <2>2. \A d \in Chat : Holds(d)' <=> Holds(d)
    BY <2>1 DEF Sound, Typed, Chats, Holds
  <2> QED
    BY <1>1, <1>2, <2>1, <2>2, KeptSlots DEF ChatsSound
<1>4. CASE ~(inFlight >= MaxInFlight)
  <2>1. inFlight' = inFlight + 1 /\ chat' = [chat EXCEPT ![c].at = "ready"] /\ chat[c].at = "idle"
    BY <1>4 DEF Arrive
  <2>2. Holders' = Holders \cup {c} /\ c \notin Holders
    BY <2>1 DEF Sound, Typed, Chats, Holders, Holds
  <2>3. IsFiniteSet(Holders \cup {c}) /\ Cardinality(Holders \cup {c}) = inFlight + 1
    BY <2>2, OneMore DEF Sound, Slots, SlotsAreChats, Holders
  <2>4. inFlight \in Nat /\ MaxInFlight \in Nat
    BY WorkerAssumption DEF Sound, Typed, WorkerAssumption
  <2>5. inFlight' = Cardinality(Holders') /\ inFlight' <= MaxInFlight /\ IsFiniteSet(Holders')
    BY <1>4, <2>1, <2>2, <2>3, <2>4
  <2> QED
    BY <1>1, <1>2, <2>1, <2>4, <2>5 DEF ChatsSound, Slots, SlotsAreChats, Holders
<1> QED
  BY <1>3, <1>4

\* A chat that moves on within the handler keeps its slot.
LEMMA MovesOn ==
  ASSUME Sound, NEW c \in Chat, Holds(c), chat[c].at # "rewarm",
         NEW where \in {"catalog", "encode", "upstream"},
         chat' = [chat EXCEPT ![c].at = where], inFlight' = inFlight
  PROVE  ChatsSound
<1>1. chat' \in Chats
  BY DEF Sound, Typed, Chats, Where
<1>2. NotYetRetried' /\ RetryIsFresh'
  BY DEF Sound, Typed, Chats, Holds, NotYetRetried, RetryIsFresh
<1>3. \A d \in Chat : Holds(d)' <=> Holds(d)
  BY DEF Sound, Typed, Chats, Holds
<1> QED
  BY <1>1, <1>2, <1>3, KeptSlots DEF ChatsSound

\* Every step of a chat that was admitted.
LEMMA ChatStepIsSound ==
  ASSUME Sound, NEW c \in Chat, ChatStep(c)
  PROVE  ChatsSound
<1>1. CASE Prepare(c)
  <2>1. Holds(c) /\ chat[c].at # "rewarm"
    BY <1>1 DEF Prepare, Holds
  <2>2. \/ Answer(c)
        \/ \E where \in {"catalog", "encode", "upstream"} :
             chat' = [chat EXCEPT ![c].at = where] /\ inFlight' = inFlight
    BY <1>1 DEF Prepare
  <2> QED
    BY <2>1, <2>2, AnswerIsSound, MovesOn DEF ChatsSound
<1>2. CASE Encode(c)
  <2>1. Holds(c) /\ chat[c].at # "rewarm"
        /\ chat' = [chat EXCEPT ![c].at = "upstream"] /\ inFlight' = inFlight
    BY <1>2 DEF Encode, Holds
  <2> QED
    BY <2>1, MovesOn
<1>3. CASE EncodeFails(c)
  BY <1>3, FailedIsSound DEF EncodeFails, Holds, ChatsSound
<1>4. CASE Replied(c)
  BY <1>4, AnswerIsSound DEF Replied, Holds, ChatsSound
<1>5. CASE Rejected(c)
  BY <1>5, FailedIsSound DEF Rejected, Holds, ChatsSound
<1> QED
  BY <1>1, <1>2, <1>3, <1>4, <1>5 DEF ChatStep

\* The end of a shared catalog refresh: the chats whose model is listed go on
\* to the chain, the others give their slots back.
LEMMA CatalogEndsIsSound ==
  ASSUME Sound, CatalogEnds
  PROVE  ChatsSound
<1> DEFINE waiting == {c \in Chat : chat[c].at = "catalog"}
<1>1. PICK served \in SUBSET waiting :
        /\ chat' = [c \in Chat |-> IF c \in waiting
                                  THEN [chat[c] EXCEPT !.at = IF c \in served THEN "encode" ELSE "done"]
                                  ELSE chat[c]]
        /\ inFlight' = inFlight - Cardinality(waiting \ served)
  BY DEF CatalogEnds
<1>2. \A c \in Chat :
        /\ chat'[c].at = IF c \in waiting THEN IF c \in served THEN "encode" ELSE "done"
                         ELSE chat[c].at
        /\ chat'[c].retried = chat[c].retried
        /\ chat'[c].stale = chat[c].stale
  BY <1>1 DEF Sound, Typed, Chats
<1>3. chat' \in Chats
  BY <1>1 DEF Sound, Typed, Chats, Where
<1>4. NotYetRetried' /\ RetryIsFresh'
  BY <1>2 DEF Sound, NotYetRetried, RetryIsFresh
<1>5. Holders' = Holders \ (waiting \ served) /\ (waiting \ served) \in SUBSET Holders
  BY <1>2 DEF Holders, Holds
<1>6. /\ IsFiniteSet(Holders \ (waiting \ served))
      /\ Cardinality(Holders \ (waiting \ served)) = inFlight - Cardinality(waiting \ served)
      /\ Cardinality(Holders \ (waiting \ served)) \in Nat /\ Cardinality(waiting \ served) \in Nat
  BY <1>5, ManyLess DEF Sound, Slots, SlotsAreChats, Holders
<1>7. inFlight <= MaxInFlight /\ inFlight \in Nat /\ MaxInFlight \in Nat
  BY WorkerAssumption DEF Sound, Typed, Slots, SlotsAreChats, WorkerAssumption
<1>8. inFlight' = Cardinality(Holders') /\ inFlight' <= MaxInFlight /\ IsFiniteSet(Holders')
  BY <1>1, <1>5, <1>6, <1>7
<1> QED
  BY <1>1, <1>3, <1>4, <1>6, <1>8 DEF ChatsSound, Slots, SlotsAreChats, Holders

\* The first bytes of a stream change nothing but the mark that they were sent.
LEMMA FirstBytesIsSound ==
  ASSUME Sound, NEW c \in Chat, FirstBytes(c)
  PROVE  ChatsSound
<1>1. chat' = [chat EXCEPT ![c].sent = TRUE] /\ inFlight' = inFlight
  BY DEF FirstBytes
<1>2. chat' \in Chats
  BY <1>1 DEF Sound, Typed, Chats
<1>3. NotYetRetried' /\ RetryIsFresh'
  BY <1>1 DEF Sound, Typed, Chats, NotYetRetried, RetryIsFresh
<1>4. \A d \in Chat : Holds(d)' <=> Holds(d)
  BY <1>1 DEF Sound, Typed, Chats, Holds
<1> QED
  BY <1>1, <1>2, <1>3, <1>4, KeptSlots DEF ChatsSound

\* Steps of logins, of the chain's rewarm and of the catalog leave chats alone.
LEMMA OthersAreSound ==
  ASSUME Sound, UNCHANGED <<chat, inFlight>>
  PROVE  ChatsSound
<1>1. chat' \in Chats /\ NotYetRetried' /\ RetryIsFresh'
  BY DEF Sound, Typed, NotYetRetried, RetryIsFresh
<1>2. \A d \in Chat : Holds(d)' <=> Holds(d)
  BY DEF Holds
<1> QED
  BY <1>1, <1>2, KeptSlots DEF ChatsSound

\* Chats, retries and slots stay sound over every step of the worker.
LEMMA NextChatsSound ==
  ASSUME Sound, [Next]_vars
  PROVE  ChatsSound
<1>1. CASE RewarmEnds
  <2>1. AfterRewarm(TRUE) \/ AfterRewarm(FALSE)
    BY <1>1 DEF RewarmEnds, Adopt, RewarmFails
  <2> QED
    BY <2>1, AfterRewarmIsSound DEF ChatsSound
<1>2. CASE CatalogEnds
  BY <1>2, CatalogEndsIsSound
<1>3. ASSUME NEW c \in Chat, Arrive(c) \/ ChatStep(c) \/ FirstBytes(c)
      PROVE  ChatsSound
  BY <1>3, ArriveIsSound, ChatStepIsSound, FirstBytesIsSound
<1>4. CASE RewarmStart \/ AdminRewarm \/ ListModels
  BY <1>4, OthersAreSound DEF RewarmStart, AdminRewarm, ListModels
<1>5. ASSUME NEW d \in Device, DeviceStart(d) \/ DeviceUrl(d) \/ DeviceRefused(d)
                               \/ DeviceDenied(d) \/ DeviceCommitted(d)
      PROVE  ChatsSound
  BY <1>5, OthersAreSound
     DEF DeviceStart, DeviceUrl, DeviceRefused, DeviceDenied, DeviceCommitted
<1>6. ASSUME NEW l \in Login, Commit(l)
      PROVE  ChatsSound
  BY <1>6, OthersAreSound DEF Commit
<1>7. ASSUME NEW p \in Pat, PatCommitted(p)
      PROVE  ChatsSound
  BY <1>7, OthersAreSound DEF PatCommitted
<1>8. CASE UNCHANGED vars
  BY <1>8, OthersAreSound DEF vars
<1> QED
  BY <1>1, <1>2, <1>3, <1>4, <1>5, <1>6, <1>7, <1>8 DEF Next

-----------------------------------------------------------------------------
(* The context *)

\* A login between its commit and the end of its rewarm, or whose rewarm failed.
Behind(l) == login[l] \in {"committed", "warming", "cold"}

\* A step that adopts no context and commits no login leaves the logins that
\* explain an older context where they explain it.
LEMMA StillBehind ==
  ASSUME Sound, account' = account, hot' = hot,
         \A l \in Login : Behind(l) => Behind(l)'
  PROVE  ContextIsCurrent'
BY DEF Sound, ContextIsCurrent, Behind

\* The account, the logins and the context over every step of the worker.
LEMMA NextContextCurrent ==
  ASSUME Sound, [Next]_vars
  PROVE  account' \in Nat /\ DOMAIN login' = Login /\ ContextIsCurrent'
<1> USE DEF Sound, Typed
<1>1. CASE Adopt
  BY <1>1 DEF Adopt, AfterRewarm, ContextIsCurrent
<1>2. CASE RewarmFails
  <2>1. /\ account' = account /\ hot' = hot
        /\ DOMAIN login' = Login
        /\ \A l \in Login : login'[l] = login[l] \/ login'[l] = "cold"
    BY <1>2 DEF RewarmFails, AfterRewarm
  <2>2. \A l \in Login : Behind(l) => Behind(l)'
    BY <2>1 DEF Behind
  <2> QED
    BY <2>1, <2>2, StillBehind
<1>3. CASE CatalogEnds
  <2>1. /\ account' = account /\ hot' = hot
        /\ DOMAIN login' = Login
        /\ \A l \in Login : login'[l] = IF login[l] = "listing" THEN "warm" ELSE login[l]
    BY <1>3 DEF CatalogEnds
  <2>2. \A l \in Login : Behind(l) => Behind(l)'
    BY <2>1 DEF Behind
  <2> QED
    BY <2>1, <2>2, StillBehind
<1>4. ASSUME account' = account, hot' = hot, login' = login
      PROVE  account' \in Nat /\ DOMAIN login' = Login /\ ContextIsCurrent'
  BY <1>4 DEF ContextIsCurrent
<1>5. CASE RewarmStart \/ AdminRewarm \/ ListModels \/ UNCHANGED vars
  BY <1>4, <1>5 DEF RewarmStart, AdminRewarm, ListModels, vars, contextVars, loginVars
<1>6. ASSUME NEW c \in Chat, Arrive(c) \/ ChatStep(c) \/ FirstBytes(c)
      PROVE  account' = account /\ hot' = hot /\ login' = login
  <2>1. CASE Arrive(c) \/ FirstBytes(c)
    BY <2>1 DEF Arrive, FirstBytes, contextVars, loginVars
  <2>2. CASE ChatStep(c)
    BY <2>2 DEF ChatStep, Prepare, Encode, EncodeFails, Replied, Rejected, contextVars, loginVars
  <2> QED
    BY <1>6, <2>1, <2>2
<1>7. ASSUME NEW d \in Device, DeviceStart(d) \/ DeviceUrl(d) \/ DeviceRefused(d)
                               \/ DeviceDenied(d) \/ DeviceCommitted(d)
      PROVE  account' \in Nat /\ DOMAIN login' = Login /\ ContextIsCurrent'
  <2>1. /\ account' = account /\ hot' = hot
        /\ d \in Login
        /\ \E at \in {"starting", "waiting", "refused", "warming"} : login' = [login EXCEPT ![d] = at]
        /\ login[d] \in {"idle", "starting", "waiting", "committed"}
        /\ login[d] = "committed" => login' = [login EXCEPT ![d] = "warming"]
    BY <1>7 DEF DeviceStart, DeviceUrl, DeviceRefused, DeviceDenied, DeviceCommitted,
                contextVars, Login
  <2>2. DOMAIN login' = Login
    BY <2>1
  <2>3. \A l \in Login : Behind(l) => Behind(l)'
    BY <2>1 DEF Behind
  <2> QED
    BY <2>1, <2>2, <2>3, StillBehind
<1>8. ASSUME NEW l \in Login, Commit(l)
      PROVE  account' \in Nat /\ DOMAIN login' = Login /\ ContextIsCurrent'
  <2>1. account' = account + 1 /\ login' = [login EXCEPT ![l] = "committed"]
    BY <1>8 DEF Commit
  <2> QED
    BY <2>1 DEF ContextIsCurrent
<1>9. ASSUME NEW p \in Pat, PatCommitted(p)
      PROVE  account' \in Nat /\ DOMAIN login' = Login /\ ContextIsCurrent'
  <2>1. /\ account' = account /\ hot' = hot /\ p \in Login
        /\ login' = [login EXCEPT ![p] = "warming"]
    BY <1>9 DEF PatCommitted, Login
  <2>2. \A l \in Login : Behind(l) => Behind(l)'
    BY <2>1 DEF Behind
  <2> QED
    BY <2>1, <2>2, StillBehind
<1> QED
  BY <1>1, <1>2, <1>3, <1>4, <1>5, <1>6, <1>7, <1>8, <1>9 DEF Next, RewarmEnds

-----------------------------------------------------------------------------
(* The theorems *)

\* The daemon boots sound: no chat, no slot, and the context of its account.
LEMMA InitSound == Init => Sound
<1> SUFFICES ASSUME Init PROVE Sound
  OBVIOUS
<1>1. Typed /\ NotYetRetried /\ RetryIsFresh
  BY DEF Init, Typed, Chats, Where, NotYetRetried, RetryIsFresh
<1>2. Holders = {}
  BY DEF Init, Holders, Holds
<1>3. Slots
  <2>1. IsFiniteSet(Holders) /\ Cardinality(Holders) = 0
    BY <1>2, FS_EmptySet
  <2>2. inFlight = 0 /\ 0 <= MaxInFlight
    BY WorkerAssumption DEF Init, WorkerAssumption
  <2> QED
    BY <2>1, <2>2 DEF Slots, SlotsAreChats, Holders
<1>4. ContextIsCurrent
  BY DEF Init, ContextIsCurrent
<1> QED
  BY <1>1, <1>3, <1>4 DEF Sound

\* Soundness is inductive.
LEMMA SoundIsInductive == Sound /\ [Next]_vars => Sound'
<1> SUFFICES ASSUME Sound, [Next]_vars PROVE Sound'
  OBVIOUS
<1>1. ChatsSound
  BY NextChatsSound
<1>2. account' \in Nat /\ DOMAIN login' = Login /\ ContextIsCurrent'
  BY NextContextCurrent
<1> QED
  BY <1>1, <1>2 DEF Sound, Typed, ChatsSound

\* Soundness holds in every state of the daemon.
THEOREM AlwaysSound == Spec => []Sound
BY InitSound, SoundIsInductive, PTL DEF Spec

\* The slots the worker reports are the chats it holds, within its limit, for
\* any number of chats: acquireInFlight and the finally of the chat route.
THEOREM SlotsHold == Spec => []SlotsAreChats
<1>1. Sound => SlotsAreChats
  BY DEF Sound, Slots
<1> QED
  BY <1>1, AlwaysSound, PTL

\* No second attempt is made with the context the first one failed with: the
\* retry of the chat route awaits the rewarm it started or joined.
THEOREM RetriesHaveFreshContexts == Spec => []RetryIsFresh
<1>1. Sound => RetryIsFresh
  BY DEF Sound
<1> QED
  BY <1>1, AlwaysSound, PTL

\* A context older than the account's identity has a login on its way to its
\* rewarm, or one whose rewarm failed, behind it.
THEOREM ContextsAreCurrent == Spec => []ContextIsCurrent
<1>1. Sound => ContextIsCurrent
  BY DEF Sound
<1> QED
  BY <1>1, AlwaysSound, PTL

-----------------------------------------------------------------------------
(***************************************************************************)
(* The worker's promise chain and its streams, for any number of chats and *)
(* logins.                                                                 *)
(*                                                                         *)
(* The argument: the chain holds the chats at their encode, each once, and *)
(* the rewarm's job exactly while there is a shared rewarm (Queue).  What  *)
(* a step does to the chain is one of three things, and Ordered is kept by *)
(* each: somebody joins at the end, the head leaves, a group joins.  A     *)
(* group is those a catalog refresh lets on; that all of them are in the   *)
(* order they join in is a pigeonhole argument (OrdersCover).              *)
(***************************************************************************)

Job == Chat \cup {Rewarm}

Members(s) == {s[i] : i \in DOMAIN s}

Distinct(s) == \A i, j \in DOMAIN s : s[i] = s[j] => i = j

\* A chain s under a rewarm that is as far as w.
Ordered(s, w) ==
  /\ s \in Seq(Job) /\ Distinct(s)
  /\ w \in {None, "queued", "running"}
  /\ w # None <=> Rewarm \in Members(s)
  /\ w = "running" => Head(s) = Rewarm

Encoding == {c \in Chat : chat[c].at = "encode"}

Queue ==
  /\ Ordered(encodeChain, rewarm)
  /\ Members(encodeChain) \ {Rewarm} = Encoding
  /\ \A c \in Chat : chat[c].at = "rewarm" => rewarm # None

\* Whose client has bytes is a stream under way or over.
SentAreStreams ==
  \A c \in Chat : chat[c].sent => c \in Streams /\ chat[c].at \in {"upstream", "done"}

Orderly == Sound /\ Queue /\ SentAreStreams

-----------------------------------------------------------------------------
(* Sequences without repetitions *)

\* Somebody new at the end: he is added, and the head stays.
LEMMA AppendMember ==
  ASSUME NEW S, NEW s \in Seq(S), Distinct(s), NEW e \in S, e \notin Members(s)
  PROVE  /\ Append(s, e) \in Seq(S) /\ Distinct(Append(s, e))
         /\ Members(Append(s, e)) = Members(s) \cup {e}
         /\ s # <<>> => Head(Append(s, e)) = Head(s)
<1>1. /\ Append(s, e) \in Seq(S)
      /\ Len(Append(s, e)) = Len(s) + 1
      /\ \A i \in 1..Len(s) : Append(s, e)[i] = s[i]
      /\ Append(s, e)[Len(s) + 1] = e
  BY AppendProperties
<1>2. /\ Len(s) \in Nat
      /\ DOMAIN s = 1..Len(s) /\ DOMAIN Append(s, e) = 1..(Len(s) + 1)
  BY <1>1, LenProperties
<1>3. DOMAIN Append(s, e) = DOMAIN s \cup {Len(s) + 1}
  BY <1>2
<1>4. \A i \in DOMAIN s : i # Len(s) + 1 /\ s[i] \in Members(s) /\ Append(s, e)[i] = s[i]
  BY <1>1, <1>2 DEF Members
<1>5. Distinct(Append(s, e))
  BY <1>1, <1>3, <1>4 DEF Distinct
<1>6. Members(Append(s, e)) = Members(s) \cup {e}
  BY <1>1, <1>3, <1>4 DEF Members
<1>7. s # <<>> => Head(Append(s, e)) = Head(s)
  BY HeadTailAppend
<1> QED
  BY <1>1, <1>5, <1>6, <1>7

\* The head goes: it is the only one missing.
LEMMA TailMembers ==
  ASSUME NEW S, NEW s \in Seq(S), Distinct(s), s # <<>>
  PROVE  /\ Tail(s) \in Seq(S) /\ Distinct(Tail(s))
         /\ Head(s) \in Members(s)
         /\ Members(Tail(s)) = Members(s) \ {Head(s)}
<1>1. /\ Tail(s) \in Seq(S)
      /\ Len(Tail(s)) = Len(s) - 1
      /\ \A i \in 1..Len(Tail(s)) : Tail(s)[i] = s[i + 1]
  BY HeadTailProperties
<1>2. /\ Len(s) \in Nat \ {0} /\ Head(s) = s[1]
      /\ DOMAIN s = 1..Len(s) /\ DOMAIN Tail(s) = 1..(Len(s) - 1)
  BY <1>1, LenProperties, EmptySeq
<1>3. \A i \in DOMAIN Tail(s) : i + 1 \in DOMAIN s /\ i + 1 # 1 /\ Tail(s)[i] = s[i + 1]
  BY <1>1, <1>2
<1>4. \A i \in DOMAIN s : i # 1 => i - 1 \in DOMAIN Tail(s) /\ Tail(s)[i - 1] = s[i]
  BY <1>1, <1>2
<1>5. 1 \in DOMAIN s
  BY <1>2
<1>6. Head(s) \in Members(s)
  BY <1>2, <1>5 DEF Members
<1>7. Distinct(Tail(s))
  <2> SUFFICES ASSUME NEW i \in DOMAIN Tail(s), NEW j \in DOMAIN Tail(s),
                      Tail(s)[i] = Tail(s)[j]
               PROVE  i = j
    BY DEF Distinct
  <2>1. i + 1 = j + 1
    BY <1>3 DEF Distinct
  <2> QED
    BY <2>1, <1>2
<1>8. ASSUME NEW e \in Members(Tail(s))
      PROVE  e \in Members(s) \ {Head(s)}
  <2>1. PICK i \in DOMAIN Tail(s) : e = Tail(s)[i]
    BY <1>8 DEF Members
  <2> QED
    BY <2>1, <1>2, <1>3, <1>5 DEF Members, Distinct
<1>9. ASSUME NEW e \in Members(s) \ {Head(s)}
      PROVE  e \in Members(Tail(s))
  <2>1. PICK i \in DOMAIN s : e = s[i]
    BY <1>9 DEF Members
  <2>2. i # 1
    BY <2>1, <1>2
  <2> QED
    BY <2>1, <2>2, <1>4 DEF Members
<1> QED
  BY <1>1, <1>6, <1>7, <1>8, <1>9

\* Others at the end, none of them there already: all are in, each once.
LEMMA ConcatMembers ==
  ASSUME NEW S, NEW s \in Seq(S), NEW t \in Seq(S), Distinct(s), Distinct(t),
         Members(s) \cap Members(t) = {}
  PROVE  /\ s \o t \in Seq(S) /\ Distinct(s \o t)
         /\ Members(s \o t) = Members(s) \cup Members(t)
         /\ s # <<>> => Head(s \o t) = Head(s)
<1> DEFINE n == Len(s)
           m == Len(t)
           u == s \o t
<1>1. /\ u \in Seq(S) /\ Len(u) = n + m
      /\ \A i \in 1..(n + m) : u[i] = IF i <= n THEN s[i] ELSE t[i - n]
  BY ConcatProperties
<1>2. /\ n \in Nat /\ m \in Nat
      /\ DOMAIN s = 1..n /\ DOMAIN t = 1..m /\ DOMAIN u = 1..(n + m)
  BY <1>1, LenProperties
<1>3. \A i \in DOMAIN s : i \in DOMAIN u /\ u[i] = s[i] /\ s[i] \in Members(s)
  BY <1>1, <1>2 DEF Members
<1>4. \A i \in DOMAIN t : i + n \in DOMAIN u /\ u[i + n] = t[i] /\ t[i] \in Members(t)
  BY <1>1, <1>2 DEF Members
<1>5. \A i \in DOMAIN u : \/ i \in DOMAIN s /\ u[i] = s[i]
                          \/ i - n \in DOMAIN t /\ u[i] = t[i - n]
  BY <1>1, <1>2
<1>6. Distinct(u)
  <2> SUFFICES ASSUME NEW i \in DOMAIN u, NEW j \in DOMAIN u, u[i] = u[j]
               PROVE  i = j
    BY DEF Distinct
  <2>1. CASE i \in DOMAIN s /\ u[i] = s[i] /\ j \in DOMAIN s /\ u[j] = s[j]
    BY <2>1 DEF Distinct
  <2>2. CASE i - n \in DOMAIN t /\ u[i] = t[i - n] /\ j - n \in DOMAIN t /\ u[j] = t[j - n]
    <3>1. i - n = j - n
      BY <2>2 DEF Distinct
    <3> QED
      BY <3>1, <1>2
  <2>3. CASE \/ i \in DOMAIN s /\ u[i] = s[i] /\ j - n \in DOMAIN t /\ u[j] = t[j - n]
             \/ j \in DOMAIN s /\ u[j] = s[j] /\ i - n \in DOMAIN t /\ u[i] = t[i - n]
    <3>1. u[i] \in Members(s) \cap Members(t)
      BY <2>3, <1>3, <1>4
    <3> QED
      BY <3>1
  <2> QED
    BY <1>5, <2>1, <2>2, <2>3
<1>7. Members(u) = Members(s) \cup Members(t)
  <2>1. Members(u) \subseteq Members(s) \cup Members(t)
    BY <1>3, <1>4, <1>5 DEF Members
  <2>2. Members(s) \cup Members(t) \subseteq Members(u)
    BY <1>3, <1>4 DEF Members
  <2> QED
    BY <2>1, <2>2
<1>8. s # <<>> => Head(u) = Head(s)
  <2> SUFFICES ASSUME s # <<>> PROVE Head(u) = Head(s)
    OBVIOUS
  <2>1. n # 0
    BY EmptySeq
  <2>2. 1 \in 1..n /\ u # <<>>
    BY <2>1, <1>1, <1>2, EmptySeq
  <2>3. Head(u) = u[1] /\ Head(s) = s[1]
    BY <2>2, <1>1
  <2> QED
    BY <2>2, <2>3, <1>2, <1>3
<1> QED
  BY <1>1, <1>6, <1>7, <1>8

\* An order of a finite set has each of its elements, once.
LEMMA OrdersCover ==
  ASSUME NEW S, IsFiniteSet(S), NEW s \in Orders(S)
  PROVE  s \in Seq(S) /\ Distinct(s) /\ Members(s) = S
<1> DEFINE n == Cardinality(S)
<1>1. n \in Nat /\ s \in [1..n -> S] /\ DOMAIN s = 1..n
  BY FS_CardinalityType DEF Orders
<1>2. s \in Seq(S)
  BY <1>1, SeqDef
<1>3. Distinct(s)
  BY DEF Orders, Distinct
<1>4. s \in Injection(1..n, S)
  BY <1>1, <1>3 DEF Injection, IsInjective, Distinct
<1>5. IsFiniteSet(1..n) /\ Cardinality(1..n) = n
  BY <1>1, FS_Interval
<1>6. s \in Surjection(1..n, S)
  BY <1>4, <1>5, FS_Injection
<1>7. Members(s) = S
  BY <1>1, <1>6 DEF Surjection, Members
<1> QED
  BY <1>2, <1>3, <1>7

-----------------------------------------------------------------------------
(* What a step does to the chain *)

\* Whoever asks for a rewarm finds its job in the chain, or puts it there.
LEMMA JoinOrders ==
  ASSUME NEW s, Ordered(s, rewarm), JoinRewarm(s)
  PROVE  /\ Ordered(encodeChain', rewarm')
         /\ Members(encodeChain') = Members(s) \cup {Rewarm}
         /\ rewarm' # None
<1> USE WorkerAssumption DEF WorkerAssumption, Ordered
<1>1. CASE rewarm = None
  <2>1. rewarm' = "queued" /\ encodeChain' = Append(s, Rewarm) /\ Rewarm \notin Members(s)
    BY <1>1 DEF JoinRewarm
  <2>2. s \in Seq(Job) /\ Rewarm \in Job /\ Distinct(s)
    BY DEF Job
  <2>3. /\ Append(s, Rewarm) \in Seq(Job) /\ Distinct(Append(s, Rewarm))
        /\ Members(Append(s, Rewarm)) = Members(s) \cup {Rewarm}
    BY <2>1, <2>2, AppendMember
  <2>4. "queued" # None /\ "queued" # "running"
    OBVIOUS
  <2> QED
    BY <2>1, <2>3, <2>4
<1>2. CASE rewarm # None
  BY <1>2 DEF JoinRewarm
<1> QED
  BY <1>1, <1>2

\* A chat takes its place behind everybody.
LEMMA EnterOrders ==
  ASSUME NEW s, NEW w, Ordered(s, w), NEW c \in Chat, c \notin Members(s)
  PROVE  Ordered(Append(s, c), w) /\ Members(Append(s, c)) = Members(s) \cup {c}
<1>1. c \in Job /\ c # Rewarm
  BY WorkerAssumption DEF WorkerAssumption, Job, Rewarm
<1>2. /\ Append(s, c) \in Seq(Job) /\ Distinct(Append(s, c))
      /\ Members(Append(s, c)) = Members(s) \cup {c}
      /\ s # <<>> => Head(Append(s, c)) = Head(s)
  BY <1>1, AppendMember DEF Ordered
<1>3. w = "running" => s # <<>>
  <2>1. w = "running" => Rewarm \in Members(s)
    BY WorkerAssumption DEF WorkerAssumption, Ordered
  <2>2. Members(<<>>) = {}
    BY DEF Members
  <2> QED
    BY <2>1, <2>2
<1> QED
  BY <1>1, <1>2, <1>3 DEF Ordered

\* The chat at the head leaves the lock; no rewarm runs then.
LEMMA LeaveOrders ==
  ASSUME NEW s, NEW w, Ordered(s, w), NEW c \in Chat, s # <<>>, Head(s) = c
  PROVE  /\ Ordered(Tail(s), w) /\ w # "running"
         /\ Members(Tail(s)) = Members(s) \ {c} /\ c \in Members(s)
<1>1. c # Rewarm
  BY WorkerAssumption DEF WorkerAssumption, Rewarm
<1>2. /\ Tail(s) \in Seq(Job) /\ Distinct(Tail(s))
      /\ c \in Members(s) /\ Members(Tail(s)) = Members(s) \ {c}
  BY TailMembers DEF Ordered
<1> QED
  BY <1>1, <1>2 DEF Ordered

\* The job of the rewarm leaves the lock, and there is no shared rewarm then.
LEMMA SettleOrders ==
  ASSUME NEW s, Ordered(s, "running")
  PROVE  Ordered(Tail(s), None) /\ Members(Tail(s)) = Members(s) \ {Rewarm}
<1>1. Rewarm \in Members(s) /\ Head(s) = Rewarm
  BY WorkerAssumption DEF WorkerAssumption, Ordered
<1>2. s # <<>>
  BY <1>1 DEF Members
<1>3. /\ Tail(s) \in Seq(Job) /\ Distinct(Tail(s))
      /\ Members(Tail(s)) = Members(s) \ {Rewarm}
  BY <1>1, <1>2, TailMembers DEF Ordered
<1> QED
  BY <1>3, WorkerAssumption DEF Ordered, WorkerAssumption

\* A group of chats takes its places in an order of its own.
LEMMA GroupOrders ==
  ASSUME NEW s, NEW w, Ordered(s, w), NEW S \in SUBSET Chat, IsFiniteSet(S),
         S \cap Members(s) = {}, NEW t \in Orders(S)
  PROVE  Ordered(s \o t, w) /\ Members(s \o t) = Members(s) \cup S
<1>1. t \in Seq(S) /\ Distinct(t) /\ Members(t) = S
  BY OrdersCover
<1>2. t \in Seq(Job)
  BY <1>1, SeqMonotonic DEF Job
<1>3. /\ s \o t \in Seq(Job) /\ Distinct(s \o t)
      /\ Members(s \o t) = Members(s) \cup S
      /\ s # <<>> => Head(s \o t) = Head(s)
  BY <1>1, <1>2, ConcatMembers DEF Ordered
<1>4. Rewarm \notin S
  BY WorkerAssumption DEF WorkerAssumption, Rewarm
<1>5. w = "running" => s # <<>>
  <2>1. w = "running" => Rewarm \in Members(s)
    BY WorkerAssumption DEF WorkerAssumption, Ordered
  <2>2. Members(<<>>) = {}
    BY DEF Members
  <2> QED
    BY <2>1, <2>2
<1> QED
  BY <1>3, <1>4, <1>5 DEF Ordered

-----------------------------------------------------------------------------
(* Every step *)

QueueKept == Queue' /\ SentAreStreams'

\* A chat whose place is not the encode before or after a step that leaves the
\* chain alone, and which does not wait for a rewarm after it.
LEMMA Elsewhere ==
  ASSUME Orderly, NEW c \in Chat, UNCHANGED <<encodeChain, rewarm>>,
         NEW row, chat' = [chat EXCEPT ![c] = row],
         chat[c].at # "encode", row.at \notin {"encode", "rewarm"},
         row.sent => c \in Streams /\ row.at \in {"upstream", "done"}
  PROVE  QueueKept
<1>1. chat'[c] = row /\ \A d \in Chat : d # c => chat'[d] = chat[d]
  BY DEF Orderly, Sound, Typed, Chats
<1>2. Encoding' = Encoding
  BY <1>1 DEF Encoding
<1>3. \A d \in Chat : chat'[d].at = "rewarm" => chat[d].at = "rewarm"
  BY <1>1
<1>4. Queue'
  BY <1>2, <1>3 DEF Orderly, Queue
<1>5. SentAreStreams'
  BY <1>1 DEF Orderly, SentAreStreams
<1> QED
  BY <1>4, <1>5 DEF QueueKept

\* A step that leaves the chats alone and joins a rewarm, or leaves the chain
\* alone too.
LEMMA Bystanders ==
  ASSUME Orderly, chat' = chat,
         UNCHANGED <<encodeChain, rewarm>> \/ JoinRewarm(encodeChain)
  PROVE  QueueKept
<1>1. Encoding' = Encoding /\ SentAreStreams'
  BY DEF Encoding, Orderly, SentAreStreams
<1>2. CASE UNCHANGED <<encodeChain, rewarm>>
  BY <1>1, <1>2 DEF Orderly, Queue, QueueKept
<1>3. CASE JoinRewarm(encodeChain)
  <2>1. /\ Ordered(encodeChain', rewarm')
        /\ Members(encodeChain') = Members(encodeChain) \cup {Rewarm}
        /\ rewarm' # None
    BY <1>3, JoinOrders DEF Orderly, Queue
  <2>2. Members(encodeChain') \ {Rewarm} = Encoding'
    BY <1>1, <2>1 DEF Orderly, Queue
  <2> QED
    BY <1>1, <2>1, <2>2 DEF Queue, QueueKept
<1> QED
  BY <1>2, <1>3

\* An encode at the head of the chain: the chat leaves, and goes on upstream,
\* or fails and joins a rewarm behind the rest, or is answered.
LEMMA EncodeKeeps ==
  ASSUME Orderly, NEW c \in Chat, Encode(c) \/ EncodeFails(c)
  PROVE  QueueKept
<1>1. chat[c].at = "encode" /\ Head(encodeChain) = c /\ c # Rewarm
  BY WorkerAssumption DEF Encode, EncodeFails, WorkerAssumption, Rewarm
<1>2. c \in Members(encodeChain)
  BY <1>1 DEF Orderly, Queue, Encoding
<1>3. encodeChain # <<>>
  BY <1>2 DEF Members
<1>4. /\ Ordered(Tail(encodeChain), rewarm)
      /\ Members(Tail(encodeChain)) = Members(encodeChain) \ {c}
  BY <1>1, <1>3, LeaveOrders DEF Orderly, Queue
<1>5. ~chat[c].sent
  BY <1>1 DEF Orderly, SentAreStreams
<1>6. ASSUME encodeChain' = Tail(encodeChain), rewarm' = rewarm,
             NEW where \in {"upstream", "done"}, chat' = [chat EXCEPT ![c].at = where]
      PROVE  QueueKept
  <2>1. /\ chat'[c].at = where /\ chat'[c].sent = chat[c].sent
        /\ \A d \in Chat : d # c => chat'[d] = chat[d]
    BY <1>6 DEF Orderly, Sound, Typed, Chats
  <2>2. Encoding' = Encoding \ {c}
    BY <2>1 DEF Encoding
  <2>3. Queue'
    BY <1>4, <1>6, <2>1, <2>2 DEF Orderly, Queue
  <2>4. SentAreStreams'
    BY <1>5, <2>1 DEF Orderly, SentAreStreams
  <2> QED
    BY <2>3, <2>4 DEF QueueKept
<1>7. CASE EncodeFails(c) /\ Retries(c)
  <2>1. /\ JoinRewarm(Tail(encodeChain))
        /\ chat' = [chat EXCEPT ![c].at = "rewarm", ![c].retried = TRUE, ![c].stale = TRUE]
    BY <1>7 DEF EncodeFails, Failed
  <2>2. /\ chat'[c].at = "rewarm" /\ chat'[c].sent = chat[c].sent
        /\ \A d \in Chat : d # c => chat'[d] = chat[d]
    BY <2>1 DEF Orderly, Sound, Typed, Chats
  <2>3. /\ Ordered(encodeChain', rewarm') /\ rewarm' # None
        /\ Members(encodeChain') = Members(Tail(encodeChain)) \cup {Rewarm}
    BY <1>4, <2>1, JoinOrders
  <2>4. Encoding' = Encoding \ {c}
    BY <2>2 DEF Encoding
  <2>5. Members(encodeChain') \ {Rewarm} = Encoding'
    BY <1>4, <2>3, <2>4 DEF Orderly, Queue
  <2>6. SentAreStreams'
    BY <1>5, <2>2 DEF Orderly, SentAreStreams
  <2> QED
    BY <2>3, <2>5, <2>6 DEF Queue, QueueKept
<1>8. CASE EncodeFails(c) /\ ~Retries(c)
  BY <1>6, <1>8 DEF EncodeFails, Failed, Answer
<1>9. CASE Encode(c)
  BY <1>6, <1>9 DEF Encode
<1> QED
  BY <1>7, <1>8, <1>9

\* A chat that is prepared: it joins the chain, waits for the catalog or is answered.
LEMMA PrepareKeeps ==
  ASSUME Orderly, NEW c \in Chat, Prepare(c)
  PROVE  QueueKept
<1>1. chat[c].at = "ready" /\ ~chat[c].sent /\ rewarm' = rewarm
  BY DEF Prepare, Orderly, SentAreStreams
<1>2. ASSUME encodeChain' = encodeChain, NEW where \in {"catalog", "done"},
             chat' = [chat EXCEPT ![c].at = where]
      PROVE  QueueKept
  <2>1. chat' = [chat EXCEPT ![c] = [chat[c] EXCEPT !.at = where]]
    BY <1>2
  <2>2. [chat[c] EXCEPT !.at = where].at = where /\ [chat[c] EXCEPT !.at = where].sent = chat[c].sent
    BY DEF Orderly, Sound, Typed, Chats
  <2> QED
    BY <1>1, <1>2, <2>1, <2>2, Elsewhere
<1>3. CASE encodeChain' = Append(encodeChain, c) /\ chat' = [chat EXCEPT ![c].at = "encode"]
  <2>1. c # Rewarm
    BY WorkerAssumption DEF WorkerAssumption, Rewarm
  <2>2. c \notin Members(encodeChain)
    BY <1>1, <2>1 DEF Orderly, Queue, Encoding
  <2>3. /\ Ordered(encodeChain', rewarm')
        /\ Members(encodeChain') = Members(encodeChain) \cup {c}
    BY <1>1, <1>3, <2>2, EnterOrders DEF Orderly, Queue
  <2>4. /\ chat'[c].at = "encode" /\ chat'[c].sent = chat[c].sent
        /\ \A d \in Chat : d # c => chat'[d] = chat[d]
    BY <1>3 DEF Orderly, Sound, Typed, Chats
  <2>5. Encoding' = Encoding \cup {c}
    BY <2>4 DEF Encoding
  <2>6. Members(encodeChain') \ {Rewarm} = Encoding'
    BY <2>1, <2>3, <2>5 DEF Orderly, Queue
  <2>7. Queue'
    BY <1>1, <2>3, <2>4, <2>6 DEF Orderly, Queue
  <2>8. SentAreStreams'
    BY <1>1, <2>4 DEF Orderly, SentAreStreams
  <2> QED
    BY <2>7, <2>8 DEF QueueKept
<1> QED
  BY <1>2, <1>3 DEF Prepare, Answer

\* A chat under way upstream: its first bytes, its answer, or a failure that
\* joins a rewarm, which a stream's is not.
LEMMA UpstreamKeeps ==
  ASSUME Orderly, NEW c \in Chat, Replied(c) \/ Rejected(c) \/ FirstBytes(c)
  PROVE  QueueKept
<1>1. chat[c].at = "upstream"
  BY DEF Replied, Rejected, FirstBytes
<1>2. ASSUME UNCHANGED <<encodeChain, rewarm>>, chat' = [chat EXCEPT ![c].at = "done"]
      PROVE  QueueKept
  <2>1. chat' = [chat EXCEPT ![c] = [chat[c] EXCEPT !.at = "done"]]
    BY <1>2
  <2>2. [chat[c] EXCEPT !.at = "done"].at = "done" /\ [chat[c] EXCEPT !.at = "done"].sent = chat[c].sent
    BY DEF Orderly, Sound, Typed, Chats
  <2>3. chat[c].sent => c \in Streams
    BY DEF Orderly, SentAreStreams
  <2> QED
    BY <1>1, <1>2, <2>1, <2>2, <2>3, Elsewhere
<1>3. CASE Replied(c)
  BY <1>2, <1>3 DEF Replied, Answer, contextVars
<1>4. CASE Rejected(c) /\ ~Retries(c)
  BY <1>2, <1>4 DEF Rejected, Failed, Answer
<1>5. CASE FirstBytes(c)
  <2>1. /\ chat' = [chat EXCEPT ![c] = [chat[c] EXCEPT !.sent = TRUE]]
        /\ UNCHANGED <<encodeChain, rewarm>> /\ c \in Streams
    BY <1>5 DEF FirstBytes, contextVars
  <2>2. [chat[c] EXCEPT !.sent = TRUE].at = "upstream"
    BY <1>1 DEF Orderly, Sound, Typed, Chats
  <2> QED
    BY <1>1, <2>1, <2>2, Elsewhere
<1>6. CASE Rejected(c) /\ Retries(c)
  <2>1. /\ JoinRewarm(encodeChain) /\ ~chat[c].sent
        /\ chat' = [chat EXCEPT ![c].at = "rewarm", ![c].retried = TRUE, ![c].stale = TRUE]
    BY <1>6 DEF Rejected, Failed, Retries
  <2>2. /\ chat'[c].at = "rewarm" /\ chat'[c].sent = chat[c].sent
        /\ \A d \in Chat : d # c => chat'[d] = chat[d]
    BY <2>1 DEF Orderly, Sound, Typed, Chats
  <2>3. /\ Ordered(encodeChain', rewarm') /\ rewarm' # None
        /\ Members(encodeChain') = Members(encodeChain) \cup {Rewarm}
    BY <2>1, JoinOrders DEF Orderly, Queue
  <2>4. Encoding' = Encoding
    BY <1>1, <2>2 DEF Encoding
  <2>5. Members(encodeChain') \ {Rewarm} = Encoding'
    BY <2>3, <2>4 DEF Orderly, Queue
  <2>6. SentAreStreams'
    BY <2>1, <2>2 DEF Orderly, SentAreStreams
  <2> QED
    BY <2>3, <2>5, <2>6 DEF Queue, QueueKept
<1> QED
  BY <1>3, <1>4, <1>5, <1>6

\* A chat arrives, far from the chain.
LEMMA ArriveKeeps ==
  ASSUME Orderly, NEW c \in Chat, Arrive(c)
  PROVE  QueueKept
<1>1. chat[c].at = "idle" /\ ~chat[c].sent /\ UNCHANGED <<encodeChain, rewarm>>
  BY DEF Arrive, contextVars, Orderly, SentAreStreams
<1>2. PICK where \in {"busy", "ready"} : chat' = [chat EXCEPT ![c].at = where]
  BY DEF Arrive
<1>3. chat' = [chat EXCEPT ![c] = [chat[c] EXCEPT !.at = where]]
  BY <1>2
<1>4. [chat[c] EXCEPT !.at = where].at = where /\ [chat[c] EXCEPT !.at = where].sent = chat[c].sent
  BY DEF Orderly, Sound, Typed, Chats
<1> QED
  BY <1>1, <1>3, <1>4, Elsewhere

\* The shared rewarm settles: its job leaves, and its waiters go on or are over.
LEMMA RewarmEndsKeeps ==
  ASSUME Orderly, RewarmEnds
  PROVE  QueueKept
<1>1. PICK ok \in BOOLEAN : AfterRewarm(ok)
  BY DEF RewarmEnds, Adopt, RewarmFails
<1>2. rewarm = "running" /\ rewarm' = None /\ encodeChain' = Tail(encodeChain)
  BY DEF RewarmEnds, Adopt, RewarmFails
<1>3. /\ Ordered(encodeChain', rewarm')
      /\ Members(encodeChain') = Members(encodeChain) \ {Rewarm}
  BY <1>2, SettleOrders DEF Orderly, Queue
<1>4. \A c \in Chat :
        /\ chat'[c].at = IF chat[c].at # "rewarm" THEN chat[c].at ELSE IF ok THEN "ready" ELSE "done"
        /\ chat'[c].sent = chat[c].sent
  BY <1>1 DEF AfterRewarm, Orderly, Sound, Typed, Chats
<1>5. Encoding' = Encoding
  BY <1>4 DEF Encoding
<1>6. Members(encodeChain') \ {Rewarm} = Encoding'
  BY <1>3, <1>5 DEF Orderly, Queue
<1>7. \A c \in Chat : chat'[c].at # "rewarm"
  BY <1>4
<1>8. SentAreStreams'
  BY <1>4 DEF Orderly, SentAreStreams
<1> QED
  BY <1>3, <1>6, <1>7, <1>8 DEF Queue, QueueKept

\* The catalog is settled: the chats it serves join the chain as a group.
LEMMA CatalogEndsKeeps ==
  ASSUME Orderly, CatalogEnds
  PROVE  QueueKept
<1> DEFINE waiting == {c \in Chat : chat[c].at = "catalog"}
<1>1. PICK served \in SUBSET waiting :
        /\ chat' = [c \in Chat |-> IF c \in waiting
                                  THEN [chat[c] EXCEPT !.at = IF c \in served THEN "encode" ELSE "done"]
                                  ELSE chat[c]]
        /\ \E order \in Orders(served) : encodeChain' = encodeChain \o order
  BY DEF CatalogEnds
<1>2. PICK order \in Orders(served) : encodeChain' = encodeChain \o order
  BY <1>1
<1>3. rewarm' = rewarm
  BY DEF CatalogEnds
<1>4. IsFiniteSet(served)
  <2>1. served \subseteq Holders /\ IsFiniteSet(Holders)
    BY DEF Orderly, Sound, Slots, Holders, Holds
  <2> QED
    BY <2>1, FS_Subset
<1>5. served \in SUBSET Chat /\ Rewarm \notin served
  BY WorkerAssumption DEF WorkerAssumption, Rewarm
<1>6. served \cap Members(encodeChain) = {}
  <2>1. served \cap Encoding = {}
    BY DEF Encoding
  <2> QED
    BY <2>1, <1>5 DEF Orderly, Queue
<1>7. /\ Ordered(encodeChain', rewarm')
      /\ Members(encodeChain') = Members(encodeChain) \cup served
  BY <1>2, <1>3, <1>4, <1>5, <1>6, GroupOrders DEF Orderly, Queue
<1>8. \A c \in Chat :
        /\ chat'[c].at = IF c \in waiting THEN IF c \in served THEN "encode" ELSE "done"
                         ELSE chat[c].at
        /\ chat'[c].sent = chat[c].sent
  BY <1>1 DEF Orderly, Sound, Typed, Chats
<1>9. Encoding' = Encoding \cup served
  BY <1>8 DEF Encoding
<1>10. Members(encodeChain') \ {Rewarm} = Encoding'
  BY <1>5, <1>7, <1>9 DEF Orderly, Queue
<1>11. \A c \in Chat : chat'[c].at = "rewarm" => rewarm' # None
  BY <1>3, <1>8 DEF Orderly, Queue
<1>12. SentAreStreams'
  BY <1>8 DEF Orderly, SentAreStreams
<1> QED
  BY <1>7, <1>10, <1>11, <1>12 DEF Queue, QueueKept

\* The job of the rewarm starts when it is at the head.
LEMMA RewarmStartKeeps ==
  ASSUME Orderly, RewarmStart
  PROVE  QueueKept
<1>1. /\ rewarm = "queued" /\ rewarm' = "running" /\ Head(encodeChain) = Rewarm
      /\ encodeChain' = encodeChain /\ chat' = chat
  BY DEF RewarmStart
<1>2. Ordered(encodeChain', rewarm') /\ rewarm' # None
  BY <1>1, WorkerAssumption DEF Orderly, Queue, Ordered, WorkerAssumption
<1>3. Encoding' = Encoding /\ SentAreStreams'
  BY <1>1 DEF Encoding, Orderly, SentAreStreams
<1> QED
  BY <1>1, <1>2, <1>3 DEF Orderly, Queue, QueueKept

\* Chain and streams stay in order over every step of the worker.
LEMMA NextKeepsQueue ==
  ASSUME Orderly, [Next]_vars
  PROVE  QueueKept
<1>1. CASE RewarmStart \/ RewarmEnds \/ CatalogEnds
  BY <1>1, RewarmStartKeeps, RewarmEndsKeeps, CatalogEndsKeeps
<1>2. CASE AdminRewarm \/ ListModels \/ UNCHANGED vars
  BY <1>2, Bystanders DEF AdminRewarm, ListModels, contextVars, vars
<1>3. ASSUME NEW c \in Chat, Arrive(c) \/ ChatStep(c) \/ FirstBytes(c)
      PROVE  QueueKept
  BY <1>3, ArriveKeeps, PrepareKeeps, EncodeKeeps, UpstreamKeeps DEF ChatStep
<1>4. ASSUME NEW d \in Device, DeviceStart(d) \/ DeviceUrl(d) \/ DeviceRefused(d)
                               \/ DeviceDenied(d) \/ DeviceCommitted(d)
      PROVE  QueueKept
  BY <1>4, Bystanders
     DEF DeviceStart, DeviceUrl, DeviceRefused, DeviceDenied, DeviceCommitted, contextVars
<1>5. ASSUME NEW l \in Login, Commit(l)
      PROVE  QueueKept
  BY <1>5, Bystanders DEF Commit
<1>6. ASSUME NEW p \in Pat, PatCommitted(p)
      PROVE  QueueKept
  BY <1>6, Bystanders DEF PatCommitted
<1> QED
  BY <1>1, <1>2, <1>3, <1>4, <1>5, <1>6 DEF Next

-----------------------------------------------------------------------------
(* The theorems *)

\* The daemon boots with an empty chain and no chat.
LEMMA InitOrderly == Init => Orderly
<1> SUFFICES ASSUME Init PROVE Orderly
  OBVIOUS
<1>1. encodeChain = <<>> /\ rewarm = None /\ Encoding = {}
  BY DEF Init, Encoding
<1>2. Members(encodeChain) = {} /\ Distinct(encodeChain) /\ encodeChain \in Seq(Job)
  BY <1>1 DEF Members, Distinct
<1>3. Ordered(encodeChain, rewarm)
  BY <1>1, <1>2, WorkerAssumption DEF Ordered, WorkerAssumption
<1>4. Queue
  BY <1>1, <1>2, <1>3 DEF Queue, Init
<1>5. SentAreStreams
  BY DEF Init, SentAreStreams
<1> QED
  BY <1>4, <1>5, InitSound DEF Orderly

\* Order is inductive, given soundness.
LEMMA OrderlyIsInductive == Orderly /\ [Next]_vars => Orderly'
BY SoundIsInductive, NextKeepsQueue DEF Orderly, QueueKept

\* Order holds in every state of the daemon.
LEMMA AlwaysOrderly == Spec => []Orderly
BY InitOrderly, OrderlyIsInductive, PTL DEF Spec

\* The lock of withEncodeLock and the one rewarm behind rewarmPromise: no chat
\* encodes with a context under construction, nobody is in the chain twice, and
\* who waits for a rewarm has its job ahead, for any number of chats and logins.
THEOREM ChainsAreSound == Spec => []ChainIsSound
<1>1. Orderly => ChainIsSound
  <2> SUFFICES ASSUME Orderly PROVE ChainIsSound
    OBVIOUS
  <2>1. \A i \in DOMAIN encodeChain : encodeChain[i] # Rewarm => encodeChain[i] \in Encoding
    BY DEF Orderly, Queue, Members
  <2>2. rewarm # None => \E i \in DOMAIN encodeChain : encodeChain[i] = Rewarm
    BY DEF Orderly, Queue, Ordered, Members
  <2> QED
    BY <2>1, <2>2 DEF ChainIsSound, Orderly, Queue, Ordered, Distinct, Encoding
<1> QED
  BY <1>1, AlwaysOrderly, PTL

\* A client that has bytes of an answer never gets the start of a second one:
\* the retry of the chat route asks whether headers were sent.
THEOREM StreamsAreSentOnce == Spec => StreamSentOnce
<1>1. Orderly' => \A c \in Chat : chat'[c].sent => chat'[c].at \in {"upstream", "done"}
  BY DEF Orderly, SentAreStreams
<1>2. Orderly /\ [Next]_vars => \A c \in Chat : chat[c].sent => chat'[c].sent
  <2> SUFFICES ASSUME Orderly, [Next]_vars, NEW c \in Chat, chat[c].sent
               PROVE  chat'[c].sent
    OBVIOUS
  <2> USE DEF Orderly, Sound, Typed, Chats
  <2>1. CASE RewarmEnds \/ CatalogEnds
    <3>1. chat[c].at # "rewarm" /\ chat[c].at # "catalog"
      BY DEF SentAreStreams
    <3>2. CASE CatalogEnds
      BY <3>1, <3>2 DEF CatalogEnds
    <3>3. CASE RewarmEnds
      <4>1. PICK ok \in BOOLEAN : AfterRewarm(ok)
        BY <3>3 DEF RewarmEnds, Adopt, RewarmFails
      <4> QED
        BY <4>1 DEF AfterRewarm
    <3> QED
      BY <2>1, <3>2, <3>3
  <2>2. ASSUME NEW d \in Chat, Arrive(d) \/ ChatStep(d) \/ FirstBytes(d)
        PROVE  chat'[c].sent
    BY <2>2 DEF Arrive, ChatStep, Prepare, Encode, EncodeFails, Replied, Rejected,
                Failed, Answer, FirstBytes
  <2>3. CASE chat' = chat
    BY <2>3
  <2> QED
    BY <2>1, <2>2, <2>3
       DEF Next, RewarmStart, AdminRewarm, ListModels, DeviceStart, DeviceUrl, DeviceRefused,
           DeviceDenied, DeviceCommitted, Commit, PatCommitted, vars
<1>3. Orderly /\ Orderly' /\ [Next]_vars
        => [\A c \in Chat : chat[c].sent => chat'[c].at \in {"upstream", "done"}]_vars
  BY <1>1, <1>2
<1> QED
  BY <1>3, AlwaysOrderly, PTL DEF Spec, StreamSentOnce

=============================================================================
