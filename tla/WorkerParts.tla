---------------------------- MODULE WorkerParts ----------------------------
(***************************************************************************)
(* The parts of the worker (worker/) that keep a state of their own beside *)
(* the daemon's: an upstream answer on its way to the client, the tool     *)
(* history of a request on its way up, and the daily check-in. They share  *)
(* no variable, so each is explored by itself; those of the others are     *)
(* None.                                                                   *)
(***************************************************************************)
EXTENDS Naturals, Sequences, FiniteSets

CONSTANTS
    None,
    Lines, MaxLines, Ttfb, Stall,
    Batches, ResultId, Tool, MaxMessages,
    Caller, Campaign, MaxCalls, MaxStale

VARIABLES
    part,    \* "stream", "history" or "checkin"
    phase, lines, buffer, parser, unary, out, now, timer, lastChunk,
    tools, history, dropped, norm, diagnosis,
    pending, op, waiting, answer, calls, campaign, ours, token, stales, child

Sse     == INSTANCE NestedSse WITH Nil <- None
History == INSTANCE ToolHistory
Daily   == INSTANCE Checkin

ASSUME PartsAssumption == Sse!SseAssumption /\ History!HistoryAssumption /\ Daily!CheckinAssumption

sseVars     == <<phase, lines, buffer, parser, unary, out, now, timer, lastChunk>>
historyVars == <<tools, history, dropped, norm, diagnosis>>
checkinVars == <<pending, op, waiting, answer, calls, campaign, ours, token, stales, child>>
vars        == <<part, sseVars, historyVars, checkinVars>>

SseInit ==
    IF part = "stream" THEN Sse!Init
    ELSE /\ phase = None /\ lines = None /\ buffer = None /\ parser = None /\ unary = None
         /\ out = None /\ now = None /\ timer = None /\ lastChunk = None

HistoryInit ==
    IF part = "history" THEN History!HistoryInit
    ELSE tools = None /\ history = None /\ dropped = None /\ norm = None /\ diagnosis = None

CheckinInit ==
    IF part = "checkin" THEN Daily!Init
    ELSE /\ pending = None /\ op = None /\ waiting = None /\ answer = None /\ calls = None
         /\ campaign = None /\ ours = None /\ token = None /\ stales = None /\ child = None

Init == part \in {"stream", "history", "checkin"} /\ SseInit /\ HistoryInit /\ CheckinInit

Next ==
    /\ UNCHANGED part
    /\ IF part = "stream"  THEN Sse!Next            ELSE UNCHANGED sseVars
    /\ IF part = "history" THEN History!HistoryNext ELSE UNCHANGED historyVars
    /\ IF part = "checkin" THEN Daily!Next          ELSE UNCHANGED checkinVars

Spec == Init /\ [][Next]_vars

\* The clock runs, a deadline that has come fires, and every await of the
\* check-in has a deadline of its own or is settled by the auth manager.
FairSpec ==
    /\ Spec
    /\ WF_sseVars(part = "stream" /\ Sse!Tick)
    /\ WF_sseVars(part = "stream" /\ Sse!Deadline)
    /\ WF_sseVars(part = "stream" /\ (Sse!LastLine \/ Sse!EndOfBody))
    /\ \A c \in Caller : WF_checkinVars(part = "checkin" /\ Daily!Step(c))

-----------------------------------------------------------------------------
\* A stream is reported complete only if the upstream said so and said nothing of an
\* error, and the client has then all its text in order and one ending.
NoSilentTruncation == part = "stream" => Sse!NoSilentTruncation

\* The client gets the most telling of the errors, and a unary caller of an answer
\* that streams well the same text and no error: the two parsers agree.
ParsersAgree == part = "stream" => Sse!TellingErrorWins /\ Sse!UnaryAgrees

\* Whatever history a client sends, the upstream gets a tidy one, and all of one that
\* the worker's own diagnosis calls valid.
HistoryIsSound == part = "history" => History!UpstreamIsTidy /\ History!ValidHistoryIsKept

\* No campaign this worker has claimed is asked for again, whoever calls and whatever
\* answer was lost; who hears "success" or "already" has every campaign claimed that
\* was found open.
CheckinIsHonest == [][part = "checkin" => Daily!ClaimsOnce /\ Daily!AnswersTruly]_vars

\* Every request of an answer comes to an end and leaves no deadline behind, and every
\* caller of the check-in is answered.
PartsAnswer ==
    /\ part = "stream" => <>(part = "stream" => phase \in {"ok", "failed"} /\ timer = None)
    /\ \A c \in Caller : (part = "checkin" /\ waiting[c] # None) ~> (part = "checkin" => waiting[c] = None)
=============================================================================
