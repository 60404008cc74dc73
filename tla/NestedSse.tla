----------------------------- MODULE NestedSse -----------------------------
(***************************************************************************)
(* One answer of the Qoder upstream on its way through the worker          *)
(* (worker/src/sse.mjs, upstream.mjs): lines of nested SSE come in         *)
(* arbitrary chunks under two deadlines, pipeNestedSseToOpenAI turns them  *)
(* into OpenAI chunks as they come, and parseNestedOpenAIChunks would read *)
(* the same lines at once for a unary caller.                              *)
(*                                                                         *)
(* A line is a record; of a payload only what the parsers branch on is     *)
(* kept.  Time is counted in ticks, for the deadlines only.                *)
(***************************************************************************)
EXTENDS Integers, Sequences, FiniteSets

CONSTANTS
    Lines,     \* the lines the upstream may send
    MaxLines,  \* bound: lines of one answer
    Ttfb,      \* streamTtfbMs, in ticks
    Stall,     \* streamStallMs, in ticks
    Nil        \* an absent index, id, error, timer or line

(* The kinds of line:                                                      *)
(*   [is |-> "event", name]        event: error, or another name           *)
(*   [is |-> "text", text]         a delta with content                    *)
(*   [is |-> "call", index, id, named]   a fragment of a tool call         *)
(*   [is |-> "finish"]             a choice with its finish_reason         *)
(*   [is |-> "error", score]       a body that is an error; its score      *)
(*   [is |-> "refused"]            statusCodeValue >= 400, no choices      *)
(*   [is |-> "done"]  [is |-> "junk"]                                      *)

Kinds == {"event", "text", "call", "finish", "error", "refused", "done", "junk"}
Frames == {"role", "call", "finish", "usage", "[DONE]", "error"}   \* what the pipe writes beside text
Read == Lines \cup {[is |-> "junk"]}   \* a last line that breaks off is junk
ErrorType == [score : Int, line : Read]   \* a generic wrapper scores below zero

\* Text is told from the frames it is written between, and an error from none.
SseAssumption ==
    /\ MaxLines \in Nat /\ Ttfb \in Nat \ {0} /\ Stall \in Nat \ {0}
    /\ \A l \in Lines : /\ l.is \in Kinds
                        /\ l.is = "error" => l.score \in Int
                        /\ l.is = "text" => l.text \notin Frames
    /\ Nil \notin ErrorType

VARIABLES
    phase,    \* head: no response yet; body: reading; ok, failed: over
    lines,    \* history: the lines read so far
    buffer,   \* the line of which only a part has come, or Nil
    parser,   \* the locals of pipeNestedSseToOpenAI
    unary,    \* those parseNestedOpenAIChunks would have after the same lines
    out,      \* what was written to the client
    now, timer, lastChunk

vars == <<phase, lines, buffer, parser, unary, out, now, timer, lastChunk>>

-----------------------------------------------------------------------------
(* The pieces both parsers share. *)

\* rememberError: the more telling error stays, of two alike the later one.
RememberFirst(old, new) == IF old = Nil \/ new.score > old.score THEN new ELSE old
Remember(old, new) == IF old = Nil \/ new.score >= old.score THEN new ELSE old

PlainScore == 1   \* an error with a message and nothing more
ErrorOf(line) == [score |-> IF line.is = "error" THEN line.score ELSE PlainScore, line |-> line]

Start == [event |-> "message", done |-> FALSE, finished |-> FALSE, error |-> Nil,
          calls |-> << >>, byKey |-> << >>, next |-> 0, text |-> << >>]

Put(f, k, v) == [x \in DOMAIN f \cup {k} |-> IF x = k THEN v ELSE f[x]]
At(f, k, default) == IF k \in DOMAIN f THEN f[k] ELSE default
NoCall == [named |-> FALSE, ids |-> {}, parts |-> 0]

\* A fragment joins the call of its index.
Grow(call, line) == [named |-> call.named \/ line.named,
                     ids |-> IF line.id = Nil THEN call.ids ELSE call.ids \cup {line.id},
                     parts |-> call.parts + 1]

\* Every call that has a name is an answer.
Named(calls) == {i \in DOMAIN calls : calls[i].named}

-----------------------------------------------------------------------------
(* pipeNestedSseToOpenAI, one line *)

\* The index of a fragment: its own, that of its id, that of the only call,
\* else the next one that is free.
IndexOf(p, line) ==
    IF line.index # Nil THEN line.index
    ELSE IF line.id # Nil /\ line.id \in DOMAIN p.byKey THEN p.byKey[line.id]
    ELSE IF Cardinality(DOMAIN p.calls) = 1 THEN CHOOSE i \in DOMAIN p.calls : TRUE
    ELSE CHOOSE i \in p.next .. p.next + Cardinality(DOMAIN p.calls) :
            i \notin DOMAIN p.calls /\ \A j \in p.next .. i - 1 : j \in DOMAIN p.calls

StreamCall(p, line) ==
    LET i == IndexOf(p, line)
    IN  [p EXCEPT !.calls = Put(p.calls, i, Grow(At(p.calls, i, NoCall), line)),
                  !.byKey = IF line.id = Nil THEN @ ELSE Put(@, line.id, i),
                  !.next = IF i + 1 > @ THEN i + 1 ELSE @,
                  !.event = "message"]

\* A data line under "event: error" is an error whatever it says; a frame that
\* cannot be parsed is skipped.  [DONE] and error bodies leave the event name.
StreamLine(p, line) ==
    CASE line.is = "event" -> [p EXCEPT !.event = line.name]
      [] line.is # "event" /\ p.event = "error" ->
             [p EXCEPT !.error = Remember(@, ErrorOf(line)), !.event = "message"]
      [] p.event # "error" /\ line.is = "done" -> [p EXCEPT !.done = TRUE]
      [] p.event # "error" /\ line.is \in {"error", "refused"} ->
             [p EXCEPT !.error = Remember(@, ErrorOf(line))]
      [] p.event # "error" /\ line.is = "junk" -> [p EXCEPT !.event = "message"]
      [] p.event # "error" /\ line.is = "text" ->
             [p EXCEPT !.text = Append(@, line.text), !.event = "message"]
      [] p.event # "error" /\ line.is = "call" -> StreamCall(p, line)
      [] p.event # "error" /\ line.is = "finish" -> [p EXCEPT !.finished = TRUE, !.event = "message"]

\* What the line makes the pipe write: the role before the first delta.
Written(p, line) ==
    IF p.event # "error" /\ line.is \in {"text", "call"}
    THEN (IF out = << >> THEN <<"role">> ELSE << >>)
         \o << IF line.is = "text" THEN line.text ELSE "call" >>
    ELSE << >>

-----------------------------------------------------------------------------
(* parseNestedOpenAIChunks and the checks encodeAndFetch makes of its result *)

\* Here the index of a fragment without one is the number of calls, an error
\* event whose body is junk says nothing, and no status code is looked at.
UnaryLine(u, line) ==
    CASE line.is = "event" -> [u EXCEPT !.event = line.name]
      [] line.is = "done" -> u
      [] line.is \notin {"event", "done"} /\ u.event = "error" ->
             [u EXCEPT !.error = IF line.is = "junk" THEN @ ELSE Remember(@, ErrorOf(line)),
                       !.event = "message"]
      [] u.event # "error" /\ line.is = "error" ->
             [u EXCEPT !.error = Remember(@, ErrorOf(line)), !.event = "message"]
      [] u.event # "error" /\ line.is \in {"junk", "refused"} -> [u EXCEPT !.event = "message"]
      [] u.event # "error" /\ line.is = "text" ->
             [u EXCEPT !.text = Append(@, line.text), !.event = "message"]
      [] u.event # "error" /\ line.is = "call" ->
             LET i == IF line.index # Nil THEN line.index ELSE Cardinality(DOMAIN u.calls)
             IN  [u EXCEPT !.calls = Put(u.calls, i, Grow(At(u.calls, i, NoCall), line)),
                           !.event = "message"]
      [] u.event # "error" /\ line.is = "finish" -> [u EXCEPT !.finished = TRUE, !.event = "message"]

\* An error counts only when there is no text; an answer needs text or a call.
UnaryOK(u) == u.text # << >> \/ (u.error = Nil /\ Named(u.calls) # {})

-----------------------------------------------------------------------------
(* The reader, its deadlines and the end of the stream *)

Init ==
    /\ phase = "head"
    /\ lines = << >>
    /\ buffer = Nil
    /\ parser = Start
    /\ unary = Start
    /\ out = << >>
    /\ now = 0
    /\ timer = Ttfb
    /\ lastChunk = 0

\* The response head: the first-byte timer is cleared, the watchdog armed.
Head_ ==
    /\ phase = "head"
    /\ phase' = "body"
    /\ timer' = now + Stall
    /\ lastChunk' = now
    /\ UNCHANGED <<lines, buffer, parser, unary, out, now>>

Arm == timer' = now + Stall /\ lastChunk' = now

Take(line) ==
    /\ lines' = Append(lines, line)
    /\ parser' = StreamLine(parser, line)
    /\ unary' = UnaryLine(unary, line)
    /\ out' = out \o Written(parser, line)

\* A chunk with the rest of a line, a whole line, or the first part of one.
ReadLine ==
    /\ phase = "body" /\ Len(lines) < MaxLines
    /\ \E line \in Lines : (buffer = Nil \/ buffer = line) /\ Take(line)
    /\ buffer' = Nil
    /\ Arm
    /\ UNCHANGED <<phase, now>>

ReadPart ==
    /\ phase = "body" /\ Len(lines) < MaxLines /\ buffer = Nil
    /\ \E line \in Lines : buffer' = line
    /\ Arm
    /\ UNCHANGED <<phase, lines, parser, unary, out, now>>

\* Bug: the timer of a request that is over stays.
OverArmed(p, w) ==
    /\ phase' = p
    /\ out' = out \o w
    /\ UNCHANGED timer

Over(p, w) ==
    /\ phase' = p
    /\ out' = out \o w
    /\ timer' = Nil

\* The body ends between two lines, or in a line: its part is then read as a
\* line, which is whole if only the newline is missing and junk otherwise.
LastLine ==
    /\ phase = "body" /\ buffer # Nil
    /\ \E line \in {buffer, [is |-> "junk"]} : Take(line)
    /\ buffer' = Nil
    /\ UNCHANGED <<phase, now, timer, lastChunk>>

\* Bug: what was read is an answer, complete or not.
EndOfBodyHasty ==
    /\ phase = "body" /\ buffer = Nil
    /\ IF parser.error # Nil THEN Over("failed", <<"error">>)
       ELSE IF parser.text = << >> /\ Named(parser.calls) = {} THEN Over("failed", <<"error">>)
       ELSE Over("ok", <<"finish", "usage", "[DONE]">>)
    /\ UNCHANGED <<lines, buffer, parser, unary, now, lastChunk>>

EndOfBody ==
    /\ phase = "body" /\ buffer = Nil
    /\ IF \/ parser.error # Nil
          \/ ~parser.done /\ ~parser.finished
          \/ parser.text = << >> /\ Named(parser.calls) = {}
       THEN Over("failed", <<"error">>)
       ELSE Over("ok", <<"finish", "usage", "[DONE]">>)
    /\ UNCHANGED <<lines, buffer, parser, unary, now, lastChunk>>

\* The connection breaks; before the head nothing is written.
Breaks ==
    /\ phase \in {"head", "body"}
    /\ Over("failed", IF phase = "body" THEN <<"error">> ELSE << >>)
    /\ UNCHANGED <<lines, buffer, parser, unary, now, lastChunk>>

\* A deadline aborts the request, and the read fails with its code.
Deadline ==
    /\ timer # Nil /\ now >= timer
    /\ Over("failed", IF phase = "body" THEN <<"error">> ELSE << >>)
    /\ UNCHANGED <<lines, buffer, parser, unary, now, lastChunk>>

\* Time passes up to a deadline, which then comes first.
Tick ==
    /\ timer # Nil /\ now < timer
    /\ now' = now + 1
    /\ UNCHANGED <<phase, lines, buffer, parser, unary, out, timer, lastChunk>>

Next == Head_ \/ ReadLine \/ ReadPart \/ LastLine \/ EndOfBody \/ Breaks \/ Deadline \/ Tick

Spec == Init /\ [][Next]_vars

\* The clock runs and a deadline that has come fires: the upstream owes nothing.
FairSpec == Spec /\ WF_vars(Tick) /\ WF_vars(Deadline) /\ WF_vars(LastLine \/ EndOfBody)

-----------------------------------------------------------------------------
Texts == {line.text : line \in {l \in Lines : l.is = "text"}}

\* The texts among what was written are those of `text`, all of them, in order.
Carries(written, text) ==
    \E place \in [DOMAIN text -> DOMAIN written] :
        /\ \A i, j \in DOMAIN text : i < j => place[i] < place[j]
        /\ \A i \in DOMAIN text : written[place[i]] = text[i]
        /\ \A k \in DOMAIN written : written[k] \in Texts => \E i \in DOMAIN text : place[i] = k

\* A stream is reported complete only if the upstream said so in its last lines
\* and said nothing of an error, in whichever form and order they came, and the
\* client then has every piece of text in order and one ending.
NoSilentTruncation ==
    phase = "ok" =>
        /\ parser.done \/ parser.finished
        /\ \A i \in DOMAIN lines : lines[i].is \notin {"error", "refused"}
        /\ Carries(out, parser.text)
        /\ \A i \in DOMAIN out : out[i] \in {"finish", "usage", "[DONE]", "error"} => i > Len(out) - 3

\* Of several errors the client and the classifier get the most telling one,
\* and of equals the latest; a wrapper that follows it does not replace it.
TellingErrorWins ==
    \A i \in DOMAIN lines : lines[i].is = "error" =>
        /\ parser.error # Nil
        /\ parser.error.score >= lines[i].score
        /\ parser.error.score = lines[i].score =>
              \/ parser.error.line = lines[i]
              \/ \E j \in i + 1 .. Len(lines) : parser.error.line = lines[j]

\* A unary caller of an answer that streams well gets the same text, no error,
\* and an answer.
UnaryAgrees ==
    phase = "ok" => unary.text = parser.text /\ unary.error = Nil /\ UnaryOK(unary)

\* Two calls with ids of their own get two indexes.
CallsStayApart == \A i \in DOMAIN parser.calls : Cardinality(parser.calls[i].ids) <= 1

\* No deadline outlives its request, and no request outlives its deadlines.
Ends == <>(phase \in {"ok", "failed"} /\ timer = Nil)
=============================================================================
