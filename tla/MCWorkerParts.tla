--------------------------- MODULE MCWorkerParts ---------------------------
(* Lines that take every branch of the two parsers, quota errors scoring above *)
(* plain ones and the generic wrapper below them; batches of calls with ids    *)
(* that repeat, lack, and name a tool the request does not define.  One of the *)
(* client's ids is what the worker would make up for the first call of its     *)
(* second message.                                                             *)
EXTENDS WorkerParts, TLC

CONSTANTS y, t1, t2

x == <<1, 1, 0>>
MCResultId == {x, y, None}

Frag(index, id, named) == [is |-> "call", index |-> index, id |-> id, named |-> named]

MCLines ==
    {[is |-> "event", name |-> "error"], [is |-> "event", name |-> "delta"],
     [is |-> "text", text |-> "a"], [is |-> "text", text |-> "b"],
     [is |-> "finish"], [is |-> "done"], [is |-> "junk"], [is |-> "refused"],
     [is |-> "error", score |-> 0], [is |-> "error", score |-> 1], [is |-> "error", score |-> 2],
     Frag(0, None, TRUE), Frag(None, "x", TRUE), Frag(None, None, FALSE)}

Call(id, tool) == [id |-> id, tool |-> tool]

MCBatches ==
    {<< >>, <<Call(x, t1)>>, <<Call(y, t1), Call(x, t1)>>, <<Call(x, t2)>>,
     <<Call(None, t1), Call(x, t1)>>, <<Call(x, t1), Call(x, t1)>>, <<Call(x, t2), Call(y, t1)>>}
=============================================================================
