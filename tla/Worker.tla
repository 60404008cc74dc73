------------------------------- MODULE Worker -------------------------------
(***************************************************************************)
(* The Node worker of one Qoder account (worker/src/daemon.mjs): its hot   *)
(* WASM context, the promise chain that serialises every use of it, the    *)
(* coalesced rewarm, the model catalog, the in-flight slots, chats with    *)
(* their one retry, and the two console logins.                            *)
(*                                                                         *)
(* One action is one turn of the event loop: what runs between two awaits. *)
(* Everyone awaiting a promise goes on in the turn that settles it.        *)
(* The auth manager, the catalog and the upstream are other programs'; of  *)
(* them only what daemon.mjs relies on is here.  An identity is the number *)
(* of the login that installed it; 0 is "not logged in".                   *)
(***************************************************************************)
EXTENDS Naturals, Sequences, FiniteSets

CONSTANTS
    Chat,         \* requests to /v1/chat/completions
    Streams,      \* those with stream: true
    Device,       \* calls of /admin/login/device
    Pat,          \* calls of /admin/login/pat
    MaxInFlight,  \* QODER_MAX_INFLIGHT
    MaxRejects,   \* bound: authentication failures the upstream may answer
    MaxRewarms,   \* bound: calls of /admin/rewarm
    None          \* no context, no catalog, nobody

ASSUME WorkerAssumption ==
    /\ Streams \subseteq Chat
    /\ MaxInFlight \in Nat \ {0}
    /\ MaxRejects \in Nat
    /\ MaxRewarms \in Nat
    /\ None \notin Nat \cup {"queued", "running"}
    /\ "rewarm" \notin Chat

Rewarm == "rewarm"   \* the job rewarmContext puts into the chain
Login == Device \cup Pat

VARIABLES
    account,    \* the identity the auth manager holds
    hot,        \* hotContext: the identity it was built from
    rewarm,     \* rewarmPromise: how far its job is
    encodeChain,\* jobs of withEncodeLock in order; the head may run
    inFlight,
    catalog,    \* cachedCatalog is there
    refreshing, \* catalogRefreshPromise is on its way
    chat,       \* where it is, its retry, whether its client has bytes, and (a
                \* history) whether no context was adopted since it failed
    login,      \* how far each login call is
    loginState, \* loginState.status
    loginWait,  \* loginWaitPromise: the device login that set it last
    rejects, rewarmCalls

contextVars == <<account, hot, rewarm, encodeChain>>
loginVars == <<login, loginState, loginWait>>
catalogVars == <<catalog, refreshing>>
budgets == <<rejects, rewarmCalls>>
vars == <<contextVars, inFlight, catalogVars, chat, loginVars, budgets>>

Holds(c) == chat[c].at \in {"ready", "catalog", "encode", "upstream", "rewarm"}

Init ==
    /\ account \in {0, 1}                 \* initAuth found a login, or none
    /\ hot = IF account = 0 THEN None ELSE account
    /\ rewarm = None
    /\ encodeChain = <<>>
    /\ inFlight = 0
    /\ catalog \in BOOLEAN                \* the refresh of the boot
    /\ refreshing = FALSE
    /\ chat = [c \in Chat |-> [at |-> "idle", retried |-> FALSE, sent |-> FALSE, stale |-> FALSE]]
    /\ login = [l \in Login |-> "idle"]
    /\ loginState = "idle"
    /\ loginWait = None
    /\ rejects = 0
    /\ rewarmCalls = 0

-----------------------------------------------------------------------------
(* rewarmContext *)

\* Bug: every caller queues a rewarm of its own.
JoinRewarmEach(chain) ==
    /\ rewarm' = IF rewarm = None THEN "queued" ELSE rewarm
    /\ encodeChain' = Append(chain, Rewarm)

\* Everyone who asks while a rewarm is on its way shares it; the first puts the
\* job at the end of the chain.
JoinRewarm(chain) ==
    IF rewarm = None
    THEN /\ rewarm' = "queued"
         /\ encodeChain' = Append(chain, Rewarm)
    ELSE /\ encodeChain' = chain
         /\ UNCHANGED rewarm

\* The job runs: the token is refreshed, then the context is built.
RewarmStart ==
    /\ rewarm = "queued"
    /\ Head(encodeChain) = Rewarm
    /\ rewarm' = "running"
    /\ UNCHANGED <<account, hot, encodeChain, inFlight, catalogVars, chat, loginVars, budgets>>

\* After a shared rewarm: a chat makes its second attempt or fails for good,
\* a device login is over either way, a PAT login goes on to the catalog or fails.
AfterRewarm(ok) ==
    LET waiting == {c \in Chat : chat[c].at = "rewarm"}
        devices == {d \in Device : login[d] = "warming"}
        pats == {p \in Pat : login[p] = "warming"}
    IN  /\ chat' = [c \in Chat |->
                      [chat[c] EXCEPT !.at = IF c \notin waiting THEN @ ELSE IF ok THEN "ready" ELSE "done",
                                      !.stale = @ /\ ~ok]]
        /\ inFlight' = IF ok THEN inFlight ELSE inFlight - Cardinality(waiting)
        /\ login' = [l \in Login |->
                        CASE l \in devices -> IF ok THEN "warm" ELSE "cold"
                          [] l \in pats -> IF ok THEN "listing" ELSE "cold"
                          [] OTHER -> login[l]]
        /\ loginWait' = IF devices = {} THEN loginWait ELSE None
        /\ catalog' = (catalog /\ devices = {})
        /\ refreshing' = (refreshing \/ (ok /\ pats # {}))

\* createWasmContext reads the identity and hands the context over in one turn.
Adopt ==
    /\ rewarm = "running"
    /\ hot' = account
    /\ rewarm' = None
    /\ encodeChain' = Tail(encodeChain)
    /\ AfterRewarm(TRUE)
    /\ UNCHANGED <<account, loginState, budgets>>

\* Bug: the chain follows the job's own promise, which a failure rejects.
RewarmFailsHolding ==
    /\ rewarm = "running"
    /\ rewarm' = None
    /\ AfterRewarm(FALSE)
    /\ UNCHANGED <<account, hot, encodeChain, loginState, budgets>>

RewarmFails ==
    /\ rewarm = "running"
    /\ rewarm' = None
    /\ encodeChain' = Tail(encodeChain)
    /\ AfterRewarm(FALSE)
    /\ UNCHANGED <<account, hot, loginState, budgets>>

AdminRewarm ==
    /\ rewarmCalls < MaxRewarms
    /\ rewarmCalls' = rewarmCalls + 1
    /\ JoinRewarm(encodeChain)
    /\ UNCHANGED <<account, hot, inFlight, catalogVars, chat, loginVars, rejects>>

-----------------------------------------------------------------------------
(* refreshModelCatalog *)

Orders(S) == {s \in [1 .. Cardinality(S) -> S] : \A i, j \in DOMAIN s : s[i] = s[j] => i = j}

\* A failed refresh answers the snapshot there was, if any; a refresh is shared
\* by all who ask for one, forced or not.  The chats and logins that wait go on;
\* a chat whose model is not in the snapshot is answered so.
CatalogEnds ==
    /\ refreshing
    /\ refreshing' = FALSE
    /\ catalog' \in {TRUE, catalog}
    /\ LET waiting == {c \in Chat : chat[c].at = "catalog"}
       IN  \E served \in SUBSET waiting :
             /\ ~catalog' => served = {}
             /\ chat' = [c \in Chat |-> IF c \in waiting
                                       THEN [chat[c] EXCEPT !.at = IF c \in served THEN "encode" ELSE "done"]
                                       ELSE chat[c]]
             /\ inFlight' = inFlight - Cardinality(waiting \ served)
             /\ \E order \in Orders(served) : encodeChain' = encodeChain \o order
    /\ login' = [l \in Login |-> IF login[l] = "listing" THEN "warm" ELSE login[l]]
    /\ loginState' = IF \E l \in Login : login[l] = "listing" THEN "ok" ELSE loginState
    /\ UNCHANGED <<account, hot, rewarm, loginWait, budgets>>

\* GET /admin/models with refresh=1, or when the snapshot is too old.
ListModels ==
    /\ ~refreshing
    /\ refreshing' = TRUE
    /\ UNCHANGED <<contextVars, inFlight, catalog, chat, loginVars, budgets>>

-----------------------------------------------------------------------------
(* chats *)

\* acquireInFlight, then the body is read.
Arrive(c) ==
    /\ chat[c].at = "idle"
    /\ IF inFlight >= MaxInFlight
       THEN /\ chat' = [chat EXCEPT ![c].at = "busy"]
            /\ UNCHANGED inFlight
       ELSE /\ chat' = [chat EXCEPT ![c].at = "ready"]
            /\ inFlight' = inFlight + 1
    /\ UNCHANGED <<contextVars, catalogVars, loginVars, budgets>>

\* The finally block of the chat route.
Answer(c) ==
    /\ chat' = [chat EXCEPT ![c].at = "done"]
    /\ inFlight' = inFlight - 1

\* An authentication failure rewarms and is tried once more, unless the client
\* has seen bytes of this answer; every other failure is the answer.
Retries(c) == ~chat[c].retried /\ ~chat[c].sent

\* Bug: the slot is returned by each attempt.
FailedReleasing(c) ==
    /\ inFlight' = inFlight - 1
    /\ chat' = IF Retries(c)
               THEN [chat EXCEPT ![c].at = "rewarm", ![c].retried = TRUE, ![c].stale = TRUE]
               ELSE [chat EXCEPT ![c].at = "done"]

\* Bug: the rewarm is started but not awaited.
FailedHasty(c) ==
    IF Retries(c)
    THEN /\ chat' = [chat EXCEPT ![c].at = "ready", ![c].retried = TRUE, ![c].stale = TRUE]
         /\ UNCHANGED inFlight
    ELSE Answer(c)

Failed(c) ==
    IF Retries(c)
    THEN /\ chat' = [chat EXCEPT ![c].at = "rewarm", ![c].retried = TRUE, ![c].stale = TRUE]
         /\ UNCHANGED inFlight
    ELSE Answer(c)

\* prepareUpstream up to the encode, which joins the chain at once when there is
\* a snapshot with the model; one older than its TTL is refreshed first.
Prepare(c) ==
    /\ chat[c].at = "ready"
    /\ \/ /\ hot = None \/ catalog
          /\ Answer(c)
          /\ UNCHANGED <<encodeChain, refreshing>>
       \/ /\ hot # None /\ catalog
          /\ chat' = [chat EXCEPT ![c].at = "encode"]
          /\ encodeChain' = Append(encodeChain, c)
          /\ UNCHANGED <<inFlight, refreshing>>
       \/ /\ hot # None
          /\ chat' = [chat EXCEPT ![c].at = "catalog"]
          /\ refreshing' = TRUE
          /\ UNCHANGED <<encodeChain, inFlight>>
    /\ UNCHANGED <<account, hot, rewarm, catalog, loginVars, budgets>>

\* The job under the lock: prepareInferRequest answers, or throws.
Encode(c) ==
    /\ chat[c].at = "encode"
    /\ Head(encodeChain) = c
    /\ encodeChain' = Tail(encodeChain)
    /\ chat' = [chat EXCEPT ![c].at = "upstream"]
    /\ UNCHANGED <<account, hot, rewarm, inFlight, catalogVars, loginVars, budgets>>

\* The throw of a dead context is an authentication failure; both leave the lock.
EncodeFails(c) ==
    /\ chat[c].at = "encode"
    /\ Head(encodeChain) = c
    /\ rejects < MaxRejects
    /\ rejects' = rejects + 1
    /\ Failed(c)
    /\ IF Retries(c) THEN JoinRewarm(Tail(encodeChain))
       ELSE encodeChain' = Tail(encodeChain) /\ UNCHANGED rewarm
    /\ UNCHANGED <<account, hot, catalogVars, loginVars, rewarmCalls>>

\* The whole answer of a unary chat, or the end of a stream: also the deadline
\* of the head and of a silent body, and an error frame, end it.
Replied(c) ==
    /\ chat[c].at = "upstream"
    /\ Answer(c)
    /\ UNCHANGED <<contextVars, catalogVars, loginVars, budgets>>

\* Bug: a stream is retried whatever its client has seen.
RejectedStream(c) ==
    /\ chat[c].at = "upstream" /\ ~chat[c].retried
    /\ rejects < MaxRejects
    /\ rejects' = rejects + 1
    /\ chat' = [chat EXCEPT ![c].at = "rewarm", ![c].retried = TRUE, ![c].stale = TRUE]
    /\ JoinRewarm(encodeChain)
    /\ UNCHANGED <<account, hot, inFlight, catalogVars, loginVars, rewarmCalls>>

\* A unary answer that is an authentication failure.  A stream writes the
\* error frame it reads to the client before it throws, and is not retried.
Rejected(c) ==
    /\ chat[c].at = "upstream" /\ c \notin Streams
    /\ rejects < MaxRejects
    /\ rejects' = rejects + 1
    /\ Failed(c)
    /\ IF Retries(c) THEN JoinRewarm(encodeChain) ELSE UNCHANGED <<rewarm, encodeChain>>
    /\ UNCHANGED <<account, hot, catalogVars, loginVars, rewarmCalls>>

\* The first bytes of a stream reach the client.
FirstBytes(c) ==
    /\ chat[c].at = "upstream" /\ c \in Streams /\ ~chat[c].sent
    /\ chat' = [chat EXCEPT ![c].sent = TRUE]
    /\ UNCHANGED <<contextVars, inFlight, catalogVars, loginVars, budgets>>

-----------------------------------------------------------------------------
(* logins *)

\* startDeviceLogin up to its first await; a login that waits turns others away.
DeviceStart(d) ==
    /\ login[d] = "idle"
    /\ loginWait = None
    /\ login' = [login EXCEPT ![d] = "starting"]
    /\ loginState' = "pending"
    /\ UNCHANGED <<contextVars, inFlight, catalogVars, chat, loginWait, budgets>>

DeviceUrl(d) ==
    /\ login[d] = "starting"
    /\ login' = [login EXCEPT ![d] = "waiting"]
    /\ loginWait' = d
    /\ UNCHANGED <<contextVars, inFlight, catalogVars, chat, loginState, budgets>>

\* The flow does not start: the call fails and the status stays as it is.
DeviceRefused(d) ==
    /\ login[d] = "starting"
    /\ login' = [login EXCEPT ![d] = "refused"]
    /\ UNCHANGED <<contextVars, inFlight, catalogVars, chat, loginState, loginWait, budgets>>

\* The user finishes, or the manager accepts the PAT: the identity is replaced.
Commit(l) ==
    /\ \/ l \in Device /\ login[l] = "waiting"
       \/ l \in Pat /\ login[l] = "idle"
    /\ account' = account + 1
    /\ login' = [login EXCEPT ![l] = "committed"]
    /\ UNCHANGED <<hot, rewarm, encodeChain, inFlight, catalogVars, chat, loginState, loginWait, budgets>>

DeviceDenied(d) ==
    /\ login[d] = "waiting"
    /\ login' = [login EXCEPT ![d] = "refused"]
    /\ loginState' = "error"
    /\ loginWait' = None
    /\ UNCHANGED <<contextVars, inFlight, catalogVars, chat, budgets>>

DeviceCommitted(d) ==
    /\ d \in Device /\ login[d] = "committed"
    /\ login' = [login EXCEPT ![d] = "warming"]
    /\ loginState' = "ok"
    /\ JoinRewarm(encodeChain)
    /\ UNCHANGED <<account, hot, inFlight, catalogVars, chat, loginWait, budgets>>

\* Bug: a worker that is hot already is not rewarmed.
PatCommittedHot(p) ==
    /\ p \in Pat /\ login[p] = "committed"
    /\ catalog' = FALSE
    /\ IF hot = None
       THEN /\ login' = [login EXCEPT ![p] = "warming"]
            /\ JoinRewarm(encodeChain)
            /\ UNCHANGED refreshing
       ELSE /\ login' = [login EXCEPT ![p] = "listing"]
            /\ refreshing' = TRUE
            /\ UNCHANGED <<rewarm, encodeChain>>
    /\ UNCHANGED <<account, hot, inFlight, chat, loginState, loginWait, budgets>>

PatCommitted(p) ==
    /\ p \in Pat /\ login[p] = "committed"
    /\ login' = [login EXCEPT ![p] = "warming"]
    /\ catalog' = FALSE
    /\ JoinRewarm(encodeChain)
    /\ UNCHANGED <<account, hot, inFlight, refreshing, chat, loginState, loginWait, budgets>>

-----------------------------------------------------------------------------
ChatStep(c) ==
    \/ Prepare(c) \/ Encode(c) \/ EncodeFails(c)
    \/ Replied(c) \/ Rejected(c)

RewarmEnds == Adopt \/ RewarmFails

Next ==
    \/ RewarmStart \/ RewarmEnds \/ AdminRewarm
    \/ CatalogEnds \/ ListModels
    \/ \E c \in Chat : Arrive(c) \/ ChatStep(c) \/ FirstBytes(c)
    \/ \E d \in Device : DeviceStart(d) \/ DeviceUrl(d) \/ DeviceRefused(d)
                         \/ DeviceDenied(d) \/ DeviceCommitted(d)
    \/ \E l \in Login : Commit(l)
    \/ \E p \in Pat : PatCommitted(p)

Spec == Init /\ [][Next]_vars

(* The upstream answers or a deadline of upstream.mjs does; the manager and  *)
(* the catalog settle their promises.  No client and no user has to act.     *)
FairSpec ==
    /\ Spec
    /\ WF_vars(RewarmStart) /\ WF_vars(RewarmEnds)
    /\ WF_vars(CatalogEnds)
    /\ \A c \in Chat : WF_vars(ChatStep(c))

-----------------------------------------------------------------------------
TypeOK ==
    /\ account \in Nat /\ hot \in Nat \cup {None}
    /\ rewarm \in {None, "queued", "running"}
    /\ encodeChain \in Seq(Chat \cup {Rewarm})
    /\ inFlight \in Nat
    /\ catalog \in BOOLEAN /\ refreshing \in BOOLEAN
    /\ chat \in [Chat -> [at : {"idle", "busy", "ready", "catalog", "encode", "upstream",
                                "rewarm", "done"},
                          retried : BOOLEAN, sent : BOOLEAN, stale : BOOLEAN]]
    /\ login \in [Login -> {"idle", "starting", "waiting", "refused", "committed", "warming",
                             "listing", "warm", "cold"}]
    /\ loginState \in {"idle", "pending", "ok", "error"}
    /\ loginWait \in Device \cup {None}
    /\ rejects \in 0 .. MaxRejects /\ rewarmCalls \in 0 .. MaxRewarms

\* Slots: what inFlight counts is the chats between acquireInFlight and the
\* finally of the route, over retries, shared waits and failures, and they are
\* never more than the limit the gateway was told.
SlotsAreChats ==
    /\ inFlight = Cardinality({c \in Chat : Holds(c)})
    /\ inFlight <= MaxInFlight

\* The chain: no chat takes part in the encode while the context is being
\* rebuilt, nobody waits in it twice, and everyone in it or waiting for the
\* rewarm has the job that will let him on still ahead.
ChainIsSound ==
    /\ rewarm = "running" => Head(encodeChain) = Rewarm
    /\ \A i, j \in DOMAIN encodeChain : encodeChain[i] = encodeChain[j] => i = j
    /\ \A i \in DOMAIN encodeChain : encodeChain[i] # Rewarm => chat[encodeChain[i]].at = "encode"
    /\ (\E c \in Chat : chat[c].at = "rewarm") => \E i \in DOMAIN encodeChain : encodeChain[i] = Rewarm

\* The retry is worth making: a chat's second attempt goes on only after a
\* context was adopted since the first one failed, also when the rewarm was
\* somebody else's and under way.
RetryIsFresh ==
    \A c \in Chat : chat[c].retried /\ chat[c].at \in {"ready", "catalog", "encode", "upstream"}
                     => ~chat[c].stale

\* After a login the context is that of the new identity, although the login
\* may have joined a rewarm begun for the old one; an older context means that
\* a login is still on its way or that its rewarm failed.
ContextIsCurrent ==
    account # 0 /\ hot # account => \E l \in Login : login[l] \in {"committed", "warming", "cold"}

\* A client that has seen bytes of an answer never gets the start of another.
StreamSentOnce ==
    [][\A c \in Chat : chat[c].sent => chat'[c].at \in {"upstream", "done"}]_vars

\* Every admitted chat is answered, whatever holds the chain before it.
ChatsAnswered == \A c \in Chat : Holds(c) ~> chat[c].at = "done"
=============================================================================
