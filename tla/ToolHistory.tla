---------------------------- MODULE ToolHistory -----------------------------
(***************************************************************************)
(* The tool history of a chat on its way to the Qoder upstream (worker     *)
(* plaintext.mjs): filterUnknownToolHistory, normalizeMessagesForUpstream  *)
(* and diagnoseOpenAIToolHistory each walk the messages once, so one step  *)
(* is one message of the client's through all three.                       *)
(***************************************************************************)
EXTENDS Naturals, Sequences, FiniteSets, SequencesExt

CONSTANTS
    Batches,     \* sequences of [id, tool] an assistant message may carry
    ResultId,    \* tool_call_id of a result, None for a blank one
    Tool,        \* tool names the request may define
    MaxMessages, \* bound: messages of a history
    None

\* A call comes with an id of ResultId, or none, and names any tool.
HistoryAssumption ==
    /\ MaxMessages \in Nat /\ None \in ResultId
    /\ LET named == UNION {{calls[i].tool : i \in DOMAIN calls} : calls \in Batches}
       IN  Batches \subseteq Seq([id : ResultId, tool : named])

(* A message is [role, calls, id, text, image]; calls are an assistant's   *)
(* tool_calls, an array that may be empty; id and image a tool result's.   *)
VARIABLES
    tools,       \* the names the request defines
    history,     \* what the client sent so far
    dropped,     \* droppedToolCallIds
    norm,        \* normalizeMessagesForUpstream's locals
    diagnosis    \* diagnoseOpenAIToolHistory's, as far as `valid` needs them

historyVars == <<tools, history, dropped, norm, diagnosis>>

Blank == [role |-> "user", calls |-> << >>, id |-> None, text |-> FALSE, image |-> FALSE]
User == [Blank EXCEPT !.text = TRUE]
System == [User EXCEPT !.role = "system"]
Assistant(calls, text) == [Blank EXCEPT !.role = "assistant", !.calls = calls, !.text = text]
Result(id, image) == [Blank EXCEPT !.role = "tool", !.id = id, !.image = image]
Images == [Blank EXCEPT !.image = TRUE]

HistoryInit ==
    /\ tools \in {{}, Tool}
    /\ history = << >>
    /\ dropped = {}
    /\ norm = [used |-> {}, source |-> << >>, calls |-> {}, out |-> << >>, count |-> 0,
               batch |-> << >>, consumed |-> {}, pending |-> << >>]
    /\ diagnosis = [seen |-> {}, open |-> {}, valid |-> TRUE, overlap |-> FALSE]

\* The members of s at the places I, in their order (a filter of the code's).
Pick(s, I) ==
    LET picked[n \in 0 .. Len(s)] ==
            IF n = 0 THEN << >>
            ELSE IF n \in I THEN Append(picked[n - 1], s[n]) ELSE picked[n - 1]
    IN  picked[Len(s)]

-----------------------------------------------------------------------------
(* filterUnknownToolHistory *)

Known(calls) == {i \in DOMAIN calls : calls[i].tool \in tools}
IdsOf(calls) == {calls[i].id : i \in DOMAIN calls} \ {None}

\* A request without tools is not filtered.  An assistant message loses its
\* unknown calls, and goes when nothing is left; so do results of dropped ids.
Lost(m) ==
    /\ tools # {}
    /\ \/ m.role = "assistant" /\ Known(m.calls) = {} /\ ~m.text
       \/ m.role = "tool" /\ m.id # None /\ m.id \in dropped

Filtered(m) ==
    IF tools # {} /\ m.role = "assistant"
    THEN [m EXCEPT !.calls = Pick(@, Known(@))] ELSE m

DroppedBy(m) ==
    IF tools # {} /\ m.role = "assistant"
    THEN {m.calls[i].id : i \in DOMAIN m.calls \ Known(m.calls)} \ {None} ELSE {}

-----------------------------------------------------------------------------
(* normalizeMessagesForUpstream *)

\* The results that answer the call `id`, as they came.
Answering(results, id) == Pick(results, {i \in DOMAIN results : results[i].id = id})

\* Sorted by the batch, and without those that answer none of its calls.
InBatchOrder(n, results) ==
    LET sorted[k \in 0 .. Len(n.batch)] ==
            IF k = 0 THEN << >> ELSE sorted[k - 1] \o Answering(results, n.batch[k])
    IN  sorted[Len(n.batch)]

\* Bug: results go up in the order they came.
FlushUnsorted(n) ==
    LET asked(r) == \E k \in DOMAIN n.batch : n.batch[k] = r.id
        kept == IF n.batch = << >> THEN n.pending
                ELSE Pick(n.pending, {i \in DOMAIN n.pending : asked(n.pending[i])})
        images == IF \E i \in DOMAIN kept : kept[i].image THEN <<Images>> ELSE << >>
    IN  [n EXCEPT !.out = @ \o kept \o images, !.pending = << >>]

\* flushToolResults: those of the open batch in its order, or, behind another
\* message, whatever names a call; their images follow as one user message.
Flush(n) ==
    LET kept == IF n.batch = << >> THEN n.pending ELSE InBatchOrder(n, n.pending)
        images == IF \E i \in DOMAIN kept : kept[i].image THEN <<Images>> ELSE << >>
    IN  [n EXCEPT !.out = @ \o kept \o images, !.pending = << >>]

\* The id made up for a call: _retry is put behind it until nobody has it.
MadeUp(used, count, index) ==
    LET free(retries) == <<count, index, retries>> \notin used
        retries == CHOOSE r \in 0 .. Cardinality(used) : free(r) /\ \A q \in 0 .. r - 1 : ~free(q)
    IN  <<count, index, retries>>

\* normalizeToolCall: a blank or used id is replaced; the first call that comes
\* with an id is the one results with that id are for.
Call(n, c, index) ==
    LET id == IF c.id = None \/ c.id \in n.used THEN MadeUp(n.used, n.count, index) ELSE c.id
    IN  [n EXCEPT !.used = @ \cup {id},
                  !.source = IF c.id = None \/ c.id \in DOMAIN @ THEN @
                             ELSE [i \in DOMAIN @ \cup {c.id} |-> IF i = c.id THEN id ELSE @[i]],
                  !.calls = @ \cup {id}, !.batch = Append(@, id)]

\* The locals behind each of the calls.
Called(n, calls) ==
    LET after[i \in 0 .. Len(calls)] == IF i = 0 THEN n ELSE Call(after[i - 1], calls[i], i)
    IN  after[Len(calls)]

AssistantMessage(n, m) ==
    LET called == Called([Flush(n) EXCEPT !.consumed = {}, !.batch = << >>], m.calls)
        named == [i \in DOMAIN m.calls |-> [m.calls[i] EXCEPT !.id = called.batch[i]]]
    IN  [called EXCEPT !.out = Append(@, [m EXCEPT !.calls = named])]

\* The call a result answers: by its id, or the first one nobody answered yet.
Answers(n, m) ==
    LET free == {k \in DOMAIN n.batch : n.batch[k] \notin n.consumed}
    IN  IF m.id # None THEN (IF m.id \in DOMAIN n.source THEN n.source[m.id] ELSE m.id)
        ELSE IF free = {} THEN None ELSE n.batch[CHOOSE k \in free : \A j \in free : k <= j]

ToolMessage(n, m) ==
    LET id == Answers(n, m)
    IN  IF id \notin n.calls THEN n
        ELSE [n EXCEPT !.consumed = @ \cup {id}, !.pending = Append(@, [m EXCEPT !.id = id])]

OtherMessage(n, m) ==
    LET flushed == Flush(n)
    IN  [flushed EXCEPT !.batch = << >>, !.consumed = {}, !.out = Append(@, m)]

Normalize(n, m) ==
    [(CASE m.role = "assistant" -> AssistantMessage(n, m)
        [] m.role = "tool" -> ToolMessage(n, m)
        [] OTHER -> OtherMessage(n, m)) EXCEPT !.count = @ + 1]

-----------------------------------------------------------------------------
(* diagnoseOpenAIToolHistory *)

\* What makes a history invalid: blank and repeated ids, unknown tools, results
\* nobody asked for, and other messages while calls are open.  (overlap is no
\* finding of the code's: calls on top of open calls.)
Diagnose(d, m) ==
    CASE m.role = "assistant" /\ m.calls # << >> ->
             [seen |-> d.seen \cup IdsOf(m.calls),
              open |-> d.open \cup (IdsOf(m.calls) \ d.seen),
              overlap |-> d.overlap \/ d.open # {},
              valid |-> /\ d.valid
                        /\ Cardinality(IdsOf(m.calls) \ d.seen) = Len(m.calls)
                        /\ tools # {} => Known(m.calls) = DOMAIN m.calls]
      [] m.role = "tool" -> [d EXCEPT !.open = @ \ {m.id}, !.valid = @ /\ m.id \in d.open]
      [] m.role = "system" -> d
      [] OTHER -> [d EXCEPT !.valid = @ /\ d.open = {}]

-----------------------------------------------------------------------------
Message(m) ==
    /\ Len(history) < MaxMessages
    /\ history' = Append(history, m)
    /\ dropped' = dropped \cup DroppedBy(m)
    /\ norm' = IF Lost(m) THEN norm ELSE Normalize(norm, Filtered(m))
    /\ diagnosis' = Diagnose(diagnosis, m)
    /\ UNCHANGED tools

HistoryNext ==
    \/ Message(User) \/ Message(System)
    \/ \E calls \in Batches, text \in BOOLEAN : Message(Assistant(calls, text))
    \/ \E id \in ResultId, image \in BOOLEAN : Message(Result(id, image))

HistorySpec == HistoryInit /\ [][HistoryNext]_historyVars

-----------------------------------------------------------------------------
Upstream == Flush(norm).out
IsResult(m) == m.role = "tool"

\* The call results at i answer: of the nearest message before that is none.
AskedBy(out, i) ==
    LET before == {j \in 1 .. i - 1 : ~IsResult(out[j])}
    IN  IF before = {} THEN << >> ELSE out[CHOOSE j \in before : \A k \in before : k <= j].calls

\* Whatever history a client sends, the upstream gets one whose call ids are all
\* different, whose results each name an earlier call, and where the results
\* behind a batch answer that batch, in its order.
UpstreamIsTidy ==
    LET out == Upstream
        CallsOf(i) == DOMAIN out[i].calls
    IN  /\ \A i, j \in DOMAIN out : \A k \in CallsOf(i), l \in CallsOf(j) :
              out[i].calls[k].id = out[j].calls[l].id => i = j /\ k = l
        /\ \A i \in DOMAIN out : IsResult(out[i]) =>
              /\ \E j \in 1 .. i - 1 : \E k \in CallsOf(j) : out[j].calls[k].id = out[i].id
              /\ LET asked == AskedBy(out, i)
                     place(id) == CHOOSE k \in DOMAIN asked : asked[k].id = id
                 IN  asked # << >> =>
                        /\ \E k \in DOMAIN asked : asked[k].id = out[i].id
                        /\ IsResult(out[i - 1]) => place(out[i - 1].id) <= place(out[i].id)

\* A history its own diagnosis calls valid loses nothing on the way, as long as
\* calls are answered before the next calls: every message and every result goes
\* up, under the ids it came with.
ValidHistoryIsKept ==
    diagnosis.valid /\ ~diagnosis.overlap =>
        LET up == Upstream
            Results(s) == Pick(s, {i \in DOMAIN s : IsResult(s[i])})
        IN  /\ Pick(up, {i \in DOMAIN up : ~IsResult(up[i]) /\ up[i] # Images})
                 = Pick(history, {i \in DOMAIN history : ~IsResult(history[i]) /\ ~Lost(history[i])})
            /\ ToSet(Results(up)) = ToSet(Results(history))
            /\ Len(Results(up)) = Len(Results(history))
=============================================================================
