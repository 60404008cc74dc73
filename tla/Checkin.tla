------------------------------ MODULE Checkin ------------------------------
(***************************************************************************)
(* The daily check-in of a worker (worker/src/checkin.mjs): callers share  *)
(* one operation, which reads the machine identity from a child process,   *)
(* lists the campaigns and claims those that can be claimed, over an       *)
(* upstream that may refuse, expire the token, or do what was asked and    *)
(* lose the answer.  The account may also be used elsewhere.               *)
(***************************************************************************)
EXTENDS Naturals, Sequences, FiniteSets, SequencesExt

CONSTANTS
    Caller,     \* who asks: the scheduler, the console
    Campaign,   \* the credit campaigns (CLAIM_BENEFIT with an id)
    MaxCalls,   \* bound: calls of one caller
    MaxStale,   \* bound: tokens that expire
    None        \* no operation, no campaign

CheckinAssumption ==
    /\ IsFiniteSet(Caller) /\ IsFiniteSet(Campaign)
    /\ MaxCalls \in Nat /\ MaxStale \in Nat
    /\ None \notin Caller \cup Campaign

VARIABLES
    pending,    \* the caller whose operation runs, or None
    op,         \* op[c]: the operation c started
    waiting,    \* waiting[c]: the operation whose promise c holds, or None
    answer,     \* answer[c]: what c was told last
    calls,      \* bounds c's calls
    campaign,   \* the server's claimStatus of each campaign
    ours,       \* history: the campaigns claimed by a POST of this worker
    token,      \* fresh or stale
    stales,     \* bounds expiries
    child       \* the runtime-info process: none or running

vars == <<pending, op, waiting, answer, calls, campaign, ours, token, stales, child>>
upstream == <<campaign, ours, token, stales>>
callers == <<pending, waiting, answer, calls>>

Identity == {"machineToken", "machineType", "machineCode"}

(* at: idle, auth, machine, list, claim, relist.  todo: the campaigns yet  *)
(* to be claimed, the first in hand.  refreshed: the request in hand has   *)
(* its second token.                                                       *)
Idle == [at |-> "idle", todo |-> << >>, confirmed |-> 0, recovered |-> 0,
         refreshed |-> FALSE, headers |-> {}, seen |-> {}]

Init ==
    /\ pending = None
    /\ op = [c \in Caller |-> Idle]
    /\ waiting = [c \in Caller |-> None]
    /\ answer = [c \in Caller |-> "none"]
    /\ calls = [c \in Caller |-> 0]
    /\ campaign \in [Campaign -> {"CLAIMABLE", "CLAIMED", "UPCOMING"}]
    /\ ours = {}
    /\ token = "fresh"
    /\ stales = 0
    /\ child = "none"

-----------------------------------------------------------------------------
(* The callers *)

\* checkin(): one operation for all who ask while it runs.
Checkin(c) ==
    /\ waiting[c] = None /\ op[c].at = "idle" /\ calls[c] < MaxCalls
    /\ calls' = [calls EXCEPT ![c] = @ + 1]
    /\ IF pending = None
       THEN /\ pending' = c
            /\ waiting' = [waiting EXCEPT ![c] = c]
            /\ op' = [op EXCEPT ![c] = [Idle EXCEPT !.at = "auth"]]
       ELSE /\ waiting' = [waiting EXCEPT ![c] = pending]
            /\ UNCHANGED <<op, pending>>
    /\ UNCHANGED <<answer, upstream, child>>

\* The operation of c settles: its callers are told, the next call runs anew.
Settle(c, told) ==
    /\ op' = [op EXCEPT ![c].at = "idle", ![c].todo = << >>]
    /\ pending' = None
    /\ answer' = [d \in Caller |-> IF waiting[d] = c THEN told ELSE answer[d]]
    /\ waiting' = [d \in Caller |-> IF waiting[d] = c THEN None ELSE waiting[d]]
    /\ UNCHANGED calls

-----------------------------------------------------------------------------
(* The operation *)

\* Login, accessors, refreshTokenIfNeeded: refused, or on to the identity.
Authenticate(c) ==
    /\ op[c].at = "auth"
    /\ \/ Settle(c, "error") /\ UNCHANGED <<upstream, child>>
       \/ /\ token' = "fresh"
          /\ op' = [op EXCEPT ![c].at = "machine"]
          /\ UNCHANGED <<callers, campaign, ours, stales, child>>

\* runtime-info starts, or there is none and no header is sent.
SpawnRuntimeInfo(c) ==
    /\ op[c].at = "machine" /\ child = "none"
    /\ \/ child' = "running" /\ UNCHANGED op
       \/ child' = "none" /\ op' = [op EXCEPT ![c].at = "list"]
    /\ UNCHANGED <<callers, upstream>>

\* Exit code zero and a first line with the three fields in printable form, or
\* nothing: an error, a timeout and too much output (after which it is killed)
\* are no identity, and what happens to the process later changes nothing.
ReadIdentity(c) ==
    /\ op[c].at = "machine" /\ child = "running"
    /\ \E fields \in SUBSET Identity, code \in {"zero", "other", "killed"} :
          op' = [op EXCEPT ![c].at = "list",
                           ![c].headers = IF code = "zero" /\ fields = Identity THEN fields ELSE {}]
    /\ child' = "none"
    /\ UNCHANGED <<callers, upstream>>

\* What the server does with the claim of k, and whether the answer comes.
Claimed(k) == IF campaign[k] = "CLAIMABLE" THEN [campaign EXCEPT ![k] = "CLAIMED"] ELSE campaign

\* request(): a stale token is refreshed and the request sent once more; when the
\* refresh fails, or the second answer is 401 too, the request has failed.
Unauthorized(c) ==
    /\ op[c].at \in {"list", "claim", "relist"} /\ token = "stale" /\ ~op[c].refreshed
    /\ token' = "fresh"
    /\ op' = [op EXCEPT ![c].refreshed = TRUE]
    /\ UNCHANGED <<callers, campaign, ours, stales, child>>

\* The list: a failure ends the operation, 404 and nothing to claim skip it.
List(c) ==
    /\ op[c].at = "list"
    /\ \/ Settle(c, "error")
       \/ token = "fresh" /\ Settle(c, "skipped")
       \/ LET claimable == {k \in Campaign : campaign[k] = "CLAIMABLE"}
              claimed == {k \in Campaign : campaign[k] = "CLAIMED"}
          IN  /\ token = "fresh"
              /\ IF claimable = {}
                 THEN Settle(c, IF claimed = {} THEN "skipped" ELSE "already")
                 ELSE /\ \E order \in SetToSeqs(claimable) :
                            op' = [op EXCEPT ![c].at = "claim", ![c].todo = order, ![c].seen = claimable,
                                             ![c].refreshed = FALSE]
                      /\ UNCHANGED callers
    /\ UNCHANGED <<upstream, child>>

\* The campaign in hand is done: the next one, or the result of all.
NextCampaign(c, o) ==
    IF Len(o.todo) > 1
    THEN /\ op' = [op EXCEPT ![c] = [o EXCEPT !.at = "claim", !.todo = Tail(@), !.refreshed = FALSE]]
         /\ UNCHANGED callers
    ELSE Settle(c, IF o.confirmed > 0 THEN "success" ELSE "already")

\* The POST is carried out, or not, and the answer says CLAIMED, or does not come
\* or says something else: then the list is read again.
Claim(c) ==
    /\ op[c].at = "claim"
    /\ LET k == Head(op[c].todo)
           won == token = "fresh" /\ campaign[k] = "CLAIMABLE"
       IN  \/ /\ won
              /\ campaign' = Claimed(k) /\ ours' = ours \cup {k}
              /\ NextCampaign(c, [op[c] EXCEPT !.confirmed = @ + 1])
              /\ UNCHANGED <<token, stales, child>>
           \/ /\ \/ won /\ campaign' = Claimed(k) /\ ours' = ours \cup {k}
                 \/ UNCHANGED <<campaign, ours>>
              /\ op' = [op EXCEPT ![c].at = "relist", ![c].refreshed = FALSE]
              /\ UNCHANGED <<callers, token, stales, child>>

\* Bug: a claim in doubt is sent again.
RelistAgain(c) ==
    /\ op[c].at = "relist"
    /\ op' = [op EXCEPT ![c].at = "claim"]
    /\ UNCHANGED <<callers, upstream, child>>

\* The second look: a campaign that is CLAIMED now is a success of its own, any
\* other, and a list that cannot be read, is the error of the claim.
Relist(c) ==
    /\ op[c].at = "relist"
    /\ \/ Settle(c, "error")
       \/ /\ token = "fresh" /\ campaign[Head(op[c].todo)] = "CLAIMED"
          /\ NextCampaign(c, [op[c] EXCEPT !.recovered = @ + 1])
    /\ UNCHANGED <<upstream, child>>

-----------------------------------------------------------------------------
(* The account elsewhere, and the token *)

Elsewhere(k) ==
    /\ campaign[k] = "CLAIMABLE"
    /\ campaign' = Claimed(k)
    /\ UNCHANGED <<callers, op, ours, token, stales, child>>

Expire ==
    /\ token = "fresh" /\ stales < MaxStale
    /\ token' = "stale" /\ stales' = stales + 1
    /\ UNCHANGED <<callers, op, campaign, ours, child>>

Step(c) ==
    \/ Authenticate(c) \/ SpawnRuntimeInfo(c) \/ ReadIdentity(c) \/ Unauthorized(c)
    \/ List(c) \/ Claim(c) \/ Relist(c)

Next ==
    \/ \E c \in Caller : Checkin(c) \/ Step(c)
    \/ \E k \in Campaign : Elsewhere(k)
    \/ Expire

Spec == Init /\ [][Next]_vars

\* Every await of the operation ends: the requests and the process have
\* deadlines of 15 s, the auth manager is trusted to answer.
FairSpec == Spec /\ \A c \in Caller : WF_vars(Step(c))

-----------------------------------------------------------------------------
\* A campaign this worker has claimed is never asked for again, whoever calls,
\* though answers are lost and lists fail.
ClaimsOnce ==
    \A c \in Caller :
        op[c].at = "claim" /\ op'[c] # op[c] /\ ~(op'[c].refreshed /\ ~op[c].refreshed)
            => Head(op[c].todo) \notin ours

\* Who hears "success" or "already" has every campaign claimed that the operation
\* found open; with "success" one of them is this worker's.
AnswersTruly ==
    \A c \in Caller :
        op[c].at # "idle" /\ op'[c].at = "idle" /\ answer'[c] \in {"success", "already"} =>
            /\ \A k \in op[c].seen : campaign'[k] = "CLAIMED"
            /\ answer'[c] = "success" => ours' # {}

\* Who asks is answered.
CallersAnswered == \A c \in Caller : waiting[c] # None ~> waiting[c] = None
=============================================================================
