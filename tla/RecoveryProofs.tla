--------------------------- MODULE RecoveryProofs ---------------------------
(***************************************************************************)
(* No worker process is lost and no account has two recoveries, for any    *)
(* number of requests, goroutines, processes, crashes and failures.        *)
(*                                                                         *)
(* The argument: Sound is inductive.  Places says where each kind of actor *)
(* can stand, so that only a recovery goroutine is ever in the loop and    *)
(* only Close stands between "wait" and "closed".  Closing says that the   *)
(* table stays empty once Close has collected it: whoever registers looks  *)
(* at runCtx under the same lock.                                          *)
(***************************************************************************)
EXTENDS Recovery, TLAPS

Starts == {"begin", "upsert", "spawn", "register", "publish", "kill"}

Loop == {"check", "postpone", "delay", "recheck", "retire", "unwind"} \cup Starts

Label == {"idle", "detach", "remove", "erase", "recover", "mark", "watch", "wait", "closed"}
           \cup Loop

InHands == {"register", "kill", "remove"}

Typed ==
  /\ pc \in [Actor -> Label]
  /\ mine \in [Actor -> Proc \cup {None}]
  /\ todo \in [Actor -> {"none", "start", "delete", "recover"}]
  /\ status \in [Proc -> {"running", "stuck", "stopping", "exited"}]
  /\ table \in Proc \cup {None}
  /\ recovering \in BOOLEAN

Places ==
  /\ \A s \in Slot : pc[s] \in {"idle", "recover", "mark"} \cup Loop /\ todo[s] = "none"
  /\ \A p \in Proc : pc[p] \in {"idle", "watch", "recover", "mark"}
  /\ pc[Closer] \in {"idle", "wait", "kill", "closed"} /\ todo[Closer] = "none"
  /\ \A t \in Actor : pc[t] \in {"register", "publish"} => mine[t] \in Proc

Closing ==
  /\ pc[Closer] # "idle" => cancelled
  /\ pc[Closer] \in {"kill", "closed"} => table = None

Sound == Typed /\ Places /\ NoOrphan /\ Closing /\ OneRecovery

-----------------------------------------------------------------------------
(* Moves of one actor *)

\* Where t may go without entering or leaving the recovery loop, and without
\* letting go of a process.
MayMove(t, there) ==
  /\ there \in Label \ {"register", "publish"}
  /\ t \in Slot => /\ there \in {"idle", "recover", "mark"} \cup Loop
                   /\ there \in Loop <=> pc[t] \in Loop
  /\ t \in Proc => there \in {"idle", "watch", "recover", "mark"}
  /\ t = Closer => pc[t] = there
  /\ pc[t] \in InHands => there \in InHands

\* An actor that moves so, and touches no process, keeps everything.
LEMMA MoveIsSound ==
  ASSUME Sound, NEW t \in Actor, NEW there, Goto(t, there), MayMove(t, there),
         table' = table, mine' = mine, status' = status, recovering' = recovering,
         cancelled' = cancelled, todo' \in [Actor -> {"none", "start", "delete", "recover"}],
         \A u \in Actor : u \in Slot \cup {Closer} => todo'[u] = todo[u]
  PROVE  Sound'
<1>1. /\ pc' \in [Actor -> Label] /\ pc'[t] = there
      /\ \A u \in Actor : u # t => pc'[u] = pc[u]
  BY DEF Sound, Typed, Goto, MayMove
<1>2. Typed'
  BY <1>1 DEF Sound, Typed
<1>3. Places'
  BY <1>1 DEF Sound, Places, MayMove, Actor
<1>4. NoOrphan'
  <2>1. \A u \in Actor : pc[u] \in InHands => pc'[u] \in InHands
    BY <1>1 DEF MayMove
  <2> QED
    BY <2>1 DEF Sound, NoOrphan, InHands
<1>5. Closing'
  BY <1>1 DEF Sound, Closing, MayMove, Actor
<1>6. OneRecovery'
  <2>1. \A s \in Slot : InLoop(s)' <=> InLoop(s)
    BY <1>1 DEF InLoop, MayMove, Loop, Starts, Actor
  <2> QED
    BY <2>1 DEF Sound, OneRecovery
<1> QED
  BY <1>2, <1>3, <1>4, <1>5, <1>6 DEF Sound

\* The steps that only move an actor: they start, stop, ask, recover and watch
\* without touching a process, the table or the flags.
LEMMA QuietSteps ==
  ASSUME Sound, NEW t \in Actor,
         \/ Begin(t) \/ Upsert(t) \/ SpawnFails(t) \/ Remove(t) \/ Erase(t) \/ Mark(t)
         \/ t \in Slot /\ (Check(t) \/ ReadFails(t) \/ Postpone(t) \/ Delay(t)
                             \/ Recheck(t) \/ Retire(t))
         \/ t \in Proc /\ WatchEnds(t)
         \/ t \in Admin /\ Ask(t)
         \/ t = Dog /\ Bark
  PROVE  Sound'
<1> USE JobsAreSeparate DEF At, managerVars
<1>1. /\ t \in Slot => pc[t] \in {"idle", "recover", "mark"} \cup Loop
      /\ t \in Proc => pc[t] \in {"idle", "watch", "recover", "mark"}
      /\ t = Closer => pc[t] \in {"idle", "wait", "kill", "closed"}
  BY DEF Sound, Places
<1>2. todo \in [Actor -> {"none", "start", "delete", "recover"}]
  BY DEF Sound, Typed
<1>3. CASE Begin(t)
  <2>1. PICK there \in {"upsert", "unwind", "idle"} :
          Goto(t, there) /\ (t \in Slot => there # "idle") /\ (there = "unwind" => t \in Slot)
    BY <1>1, <1>3 DEF Begin, Ended, Loop, Starts
  <2>2. MayMove(t, there)
    BY <1>1, <1>3, <2>1 DEF Begin, MayMove, Label, Loop, Starts, InHands
  <2> QED
    BY <1>2, <1>3, <2>1, <2>2, MoveIsSound DEF Begin
<1>4. CASE Upsert(t)
  <2>1. Goto(t, "spawn") /\ MayMove(t, "spawn")
    BY <1>1, <1>4 DEF Upsert, MayMove, Label, Loop, Starts, InHands
  <2> QED
    BY <1>2, <1>4, <2>1, MoveIsSound DEF Upsert
<1>5. CASE SpawnFails(t)
  <2>1. PICK there \in {"check", "recover"} : Goto(t, there) /\ (t \in Slot <=> there = "check")
    BY <1>5 DEF SpawnFails
  <2>2. MayMove(t, there)
    BY <1>1, <1>5, <2>1 DEF SpawnFails, MayMove, Label, Loop, Starts, InHands
  <2> QED
    BY <1>2, <1>5, <2>1, <2>2, MoveIsSound DEF SpawnFails
<1>6. CASE Remove(t)
  <2>1. Goto(t, "kill") /\ MayMove(t, "kill")
    BY <1>1, <1>6 DEF Remove, MayMove, Label, Loop, Starts, InHands
  <2> QED
    BY <1>2, <1>6, <2>1, MoveIsSound DEF Remove
<1>7. CASE Erase(t)
  <2>1. Goto(t, "idle") /\ MayMove(t, "idle")
    BY <1>1, <1>7 DEF Erase, Ended, MayMove, Label, Loop, Starts, InHands
  <2> QED
    BY <1>2, <1>7, <2>1, MoveIsSound DEF Erase
<1>8. CASE Mark(t)
  <2>1. Goto(t, "idle") /\ MayMove(t, "idle")
    BY <1>1, <1>8 DEF Mark, MayMove, Label, Loop, Starts, InHands
  <2> QED
    BY <1>2, <1>8, <2>1, MoveIsSound DEF Mark
<1>9. ASSUME t \in Slot,
             Check(t) \/ ReadFails(t) \/ Postpone(t) \/ Delay(t) \/ Recheck(t) \/ Retire(t)
      PROVE  Sound'
  <2>1. /\ pc[t] \in {"check", "postpone", "delay", "recheck", "retire"}
        /\ table' = table /\ mine' = mine /\ status' = status /\ recovering' = recovering
        /\ cancelled' = cancelled /\ todo' = todo
    BY <1>9 DEF Check, ReadFails, Postpone, Delay, Recheck, Retire
  <2>2. PICK there \in {"check", "postpone", "delay", "recheck", "begin", "retire", "unwind"} :
          Goto(t, there)
    BY <1>9 DEF Check, ReadFails, Postpone, Delay, Recheck, Retire
  <2>3. MayMove(t, there)
    BY <1>9, <2>1, <2>2 DEF MayMove, Label, Loop, Starts, InHands
  <2> QED
    BY <1>2, <2>1, <2>2, <2>3, MoveIsSound
<1>10. ASSUME t \in Proc, WatchEnds(t) PROVE Sound'
  <2>1. Goto(t, "idle") /\ MayMove(t, "idle")
    BY <1>10 DEF WatchEnds, MayMove, Label, Loop, Starts, InHands
  <2> QED
    BY <1>2, <1>10, <2>1, MoveIsSound DEF WatchEnds
<1>11. ASSUME \/ t \in Admin /\ Ask(t)
              \/ t = Dog /\ Bark
       PROVE  Sound'
  <2>1. PICK there \in {"detach", "begin"} : Goto(t, there)
    BY <1>11 DEF Ask, Bark, Disable, Enable, Reboot, Delete
  <2>2. pc[t] = "idle" /\ t \notin Slot \cup Proc \cup {Closer}
    BY <1>11 DEF Ask, Bark, Disable, Enable, Reboot, Delete, Request
  <2>3. MayMove(t, there)
    BY <2>1, <2>2 DEF MayMove, Label, Loop, Starts, InHands
  <2>4. /\ table' = table /\ mine' = mine /\ status' = status /\ recovering' = recovering
        /\ cancelled' = cancelled
    BY <1>11 DEF Ask, Bark, Disable, Enable, Reboot, Delete
  <2>5. PICK what \in {"start", "delete", "recover"} : todo' \in {todo, [todo EXCEPT ![t] = what]}
    BY <1>11 DEF Ask, Bark, Disable, Enable, Reboot, Delete
  <2>6. /\ todo' \in [Actor -> {"none", "start", "delete", "recover"}]
        /\ \A u \in Actor : u \in Slot \cup {Closer} => todo'[u] = todo[u]
    BY <1>2, <2>2, <2>5
  <2> QED
    BY <2>1, <2>3, <2>4, <2>6, MoveIsSound
<1> QED
  BY <1>3, <1>4, <1>5, <1>6, <1>7, <1>8, <1>9, <1>10, <1>11

-----------------------------------------------------------------------------
(* Steps that hand a process over *)

\* Whoever spawns a process holds it until it is registered or stopped.
LEMMA SpawnIsSound ==
  ASSUME Sound, NEW t \in Actor, Spawn(t)
  PROVE  Sound'
<1> USE JobsAreSeparate DEF At, managerVars
<1>1. PICK p \in Proc : /\ status' = [status EXCEPT ![p] = "running"]
                        /\ mine' = [mine EXCEPT ![t] = p]
  BY DEF Spawn
<1>2. /\ pc[t] = "spawn" /\ pc' = [pc EXCEPT ![t] = "register"] /\ t \notin Proc \cup {Closer}
      /\ table' = table /\ recovering' = recovering /\ cancelled' = cancelled /\ todo' = todo
  BY DEF Spawn, Goto, Sound, Places
<1>3. Typed'
  BY <1>1, <1>2 DEF Sound, Typed, Label, Loop, Starts
<1>4. Places'
  BY <1>1, <1>2 DEF Sound, Typed, Places, Loop, Starts, Actor
<1>5. NoOrphan'
  BY <1>1, <1>2 DEF Sound, Typed, NoOrphan
<1>6. Closing'
  BY <1>2 DEF Sound, Typed, Closing, Actor
<1>7. OneRecovery'
  <2>1. \A s \in Slot : InLoop(s)' <=> InLoop(s)
    BY <1>2 DEF Sound, Typed, InLoop, Actor
  <2> QED
    BY <1>2, <2>1 DEF Sound, OneRecovery
<1> QED
  BY <1>3, <1>4, <1>5, <1>6, <1>7 DEF Sound

\* The table takes the process only while it is empty and the manager open.
LEMMA RegisterIsSound ==
  ASSUME Sound, NEW t \in Actor, Register(t)
  PROVE  Sound'
<1> USE JobsAreSeparate DEF At
<1>1. /\ pc[t] = "register" /\ t \notin Proc \cup {Closer} /\ mine[t] \in Proc
      /\ mine' = mine /\ status' = status /\ recovering' = recovering
      /\ cancelled' = cancelled /\ todo' = todo
      /\ \/ pc' = [pc EXCEPT ![t] = "kill"] /\ table' = table
         \/ /\ pc' = [pc EXCEPT ![t] = "publish"] /\ table = None /\ ~cancelled
            /\ table' = mine[t]
  BY DEF Register, Goto, Sound, Places
<1>2. Typed'
  BY <1>1 DEF Sound, Typed, Label, Loop, Starts
<1>3. Places'
  BY <1>1 DEF Sound, Typed, Places, Loop, Starts, Actor
<1>4. NoOrphan'
  BY <1>1 DEF Sound, Typed, NoOrphan
<1>5. Closing'
  BY <1>1 DEF Sound, Typed, Closing, Actor
<1>6. OneRecovery'
  <2>1. \A s \in Slot : InLoop(s)' <=> InLoop(s)
    BY <1>1 DEF Sound, Typed, InLoop, Actor
  <2> QED
    BY <1>1, <2>1 DEF Sound, OneRecovery
<1> QED
  BY <1>2, <1>3, <1>4, <1>5, <1>6 DEF Sound

\* The watcher takes over from whoever started the process.
LEMMA PublishIsSound ==
  ASSUME Sound, NEW t \in Actor, Publish(t)
  PROVE  Sound'
<1> USE JobsAreSeparate DEF At, managerVars
<1> DEFINE p == mine[t]
           there == IF t \in Slot THEN "unwind" ELSE "idle"
<1>1. /\ pc[t] = "publish" /\ t \notin Proc \cup {Closer} /\ p \in Proc
      /\ pc' = [pc EXCEPT ![t] = there, ![p] = "watch"]
      /\ mine' = [mine EXCEPT ![t] = None]
      /\ table' = table /\ status' = status /\ recovering' = recovering
      /\ cancelled' = cancelled /\ todo' = todo
  BY DEF Publish, Sound, Places
<1>2. /\ p # t /\ p \in Actor /\ pc[p] \in {"idle", "watch", "recover", "mark"}
      /\ pc'[p] = "watch" /\ pc'[t] = there
      /\ \A u \in Actor \ {p, t} : pc'[u] = pc[u]
  BY <1>1 DEF Sound, Typed, Places, Actor
<1>3. Typed'
  BY <1>1 DEF Sound, Typed, Label, Loop, Starts
<1>4. Places'
  BY <1>1, <1>2 DEF Sound, Typed, Places, Loop, Starts, Actor
<1>5. NoOrphan'
  BY <1>1, <1>2 DEF Sound, Typed, NoOrphan
<1>6. Closing'
  BY <1>1, <1>2 DEF Sound, Closing, Actor
<1>7. OneRecovery'
  <2>1. \A s \in Slot : InLoop(s)' <=> InLoop(s)
    BY <1>1, <1>2 DEF InLoop, Actor
  <2> QED
    BY <1>1, <2>1 DEF Sound, OneRecovery
<1> QED
  BY <1>3, <1>4, <1>5, <1>6, <1>7 DEF Sound

\* Whoever empties the table holds what was in it.
LEMMA DetachIsSound ==
  ASSUME Sound, NEW t \in Actor, Detach(t) \/ (t = Closer /\ Collect)
  PROVE  Sound'
<1> USE JobsAreSeparate DEF At
<1>1. PICK there \in {"remove", "kill"} :
        /\ pc' = [pc EXCEPT ![t] = there]
        /\ \/ pc[t] = "detach" /\ there = "remove" /\ t \notin Slot \cup Proc \cup {Closer}
           \/ pc[t] = "wait" /\ there = "kill" /\ t = Closer
  BY DEF Detach, Collect, Goto, Sound, Places, Loop, Starts
<1>2. /\ mine' = [mine EXCEPT ![t] = table] /\ table' = None /\ status' = status
      /\ recovering' = recovering /\ cancelled' = cancelled /\ todo' = todo
  BY DEF Detach, Collect
<1>3. Typed'
  BY <1>1, <1>2 DEF Sound, Typed, Label, Loop, Starts
<1>4. Places'
  BY <1>1, <1>2 DEF Sound, Typed, Places, Loop, Starts, Actor
<1>5. NoOrphan'
  BY <1>1, <1>2 DEF Sound, Typed, NoOrphan
<1>6. Closing'
  BY <1>1, <1>2 DEF Sound, Typed, Closing, Actor
<1>7. OneRecovery'
  <2>1. \A s \in Slot : InLoop(s)' <=> InLoop(s)
    BY <1>1 DEF Sound, Typed, InLoop, Actor
  <2> QED
    BY <1>2, <2>1 DEF Sound, OneRecovery
<1> QED
  BY <1>3, <1>4, <1>5, <1>6, <1>7 DEF Sound

\* A process is let go only after it was told to stop.
LEMMA KillIsSound ==
  ASSUME Sound, NEW t \in Actor, Kill(t)
  PROVE  Sound'
<1> USE JobsAreSeparate DEF At, managerVars
<1>1. /\ pc[t] = "kill" /\ t \notin Proc
      /\ todo[t] \in {"none", "start", "delete", "recover"}
      /\ t \in Slot \cup {Closer} => todo[t] = "none"
  BY DEF Kill, Sound, Typed, Places
<1>2. PICK there \in {"unwind", "closed", "idle", "begin", "erase", "recover"} :
        /\ pc' = [pc EXCEPT ![t] = there]
        /\ t \in Slot <=> there = "unwind"
        /\ t = Closer <=> there = "closed"
  BY <1>1 DEF Kill, Continue, Ended, Goto
<1>3. /\ mine' = [mine EXCEPT ![t] = None] /\ todo' = [todo EXCEPT ![t] = "none"]
      /\ table' = table /\ recovering' = recovering /\ cancelled' = cancelled
  BY DEF Kill
<1>4. /\ status' \in [Proc -> {"running", "stuck", "stopping", "exited"}]
      /\ \A p \in Proc : status'[p] \in {"running", "stuck"} =>
           p # mine[t] /\ status[p] \in {"running", "stuck"}
  BY DEF Kill, Sound, Typed
<1>5. Typed'
  BY <1>2, <1>3, <1>4 DEF Sound, Typed, Label, Loop, Starts
<1>6. Places'
  BY <1>1, <1>2, <1>3 DEF Sound, Typed, Places, Loop, Starts, Actor
<1>7. NoOrphan'
  BY <1>2, <1>3, <1>4 DEF Sound, Typed, NoOrphan
<1>8. Closing'
  BY <1>1, <1>2, <1>3 DEF Sound, Typed, Closing, Actor
<1>9. OneRecovery'
  <2>1. \A s \in Slot : InLoop(s)' <=> InLoop(s)
    BY <1>1, <1>2 DEF Sound, Typed, InLoop, Actor
  <2> QED
    BY <1>3, <2>1 DEF Sound, OneRecovery
<1> QED
  BY <1>5, <1>6, <1>7, <1>8, <1>9 DEF Sound

\* The watcher clears the table of a process that has exited.
LEMMA WatchIsSound ==
  ASSUME Sound, NEW p \in Proc, Watch(p)
  PROVE  Sound'
<1> USE JobsAreSeparate DEF At
<1>1. PICK there \in {"recover", "idle"} : pc' = [pc EXCEPT ![p] = there]
  BY DEF Watch, Goto
<1>2. /\ pc[p] = "watch" /\ status[p] = "exited" /\ table' \in {table, None}
      /\ table' # table => table = p
      /\ mine' = mine /\ status' = status /\ recovering' = recovering
      /\ cancelled' = cancelled /\ todo' = todo
  BY DEF Watch
<1>3. Typed'
  BY <1>1, <1>2 DEF Sound, Typed, Label, Loop, Starts
<1>4. Places'
  BY <1>1, <1>2 DEF Sound, Typed, Places, Actor
<1>5. NoOrphan'
  BY <1>1, <1>2 DEF Sound, Typed, NoOrphan
<1>6. Closing'
  BY <1>1, <1>2 DEF Sound, Typed, Closing, Actor
<1>7. OneRecovery'
  <2>1. \A s \in Slot : InLoop(s)' <=> InLoop(s)
    BY <1>1 DEF Sound, Typed, InLoop, Actor
  <2> QED
    BY <1>2, <2>1 DEF Sound, OneRecovery
<1> QED
  BY <1>3, <1>4, <1>5, <1>6, <1>7 DEF Sound

-----------------------------------------------------------------------------
(* The flags *)

\* A recovery begins only when none is running; else the failure is noted.
LEMMA RecoverIsSound ==
  ASSUME Sound, NEW t \in Actor, Recover(t)
  PROVE  Sound'
<1> USE JobsAreSeparate DEF At
<1>1. /\ pc[t] = "recover" /\ t # Closer
      /\ table' = table /\ mine' = mine /\ status' = status /\ cancelled' = cancelled
      /\ todo' = todo
  BY DEF Recover, Sound, Places
<1>2. CASE recovering' = recovering /\ Goto(t, "idle")
  <2>1. MayMove(t, "idle")
    BY <1>1 DEF MayMove, Label, Loop, Starts, InHands
  <2> QED
    BY <1>1, <1>2, <2>1, MoveIsSound DEF Sound, Typed
<1>3. CASE /\ ~recovering /\ recovering' = TRUE
           /\ \E s \in Slot :
                pc[s] = "idle" /\ pc' = [pc EXCEPT ![s] = "check", ![t] = "mark"]
  <2>1. PICK s \in Slot : pc[s] = "idle" /\ pc' = [pc EXCEPT ![s] = "check", ![t] = "mark"]
    BY <1>3
  <2>2. /\ s # t /\ s \in Actor /\ pc'[s] = "check" /\ pc'[t] = "mark"
        /\ \A u \in Actor \ {s, t} : pc'[u] = pc[u]
    BY <1>1, <2>1 DEF Sound, Typed, Actor
  <2>3. Typed'
    BY <1>1, <1>3, <2>1 DEF Sound, Typed, Label, Loop, Starts
  <2>4. Places'
    BY <1>1, <2>2 DEF Sound, Typed, Places, Loop, Starts, Actor
  <2>5. NoOrphan'
    BY <1>1, <2>1, <2>2 DEF Sound, Typed, NoOrphan
  <2>6. Closing'
    BY <1>1, <2>2 DEF Sound, Closing, Actor
  <2>7. OneRecovery'
    <3>1. \A q \in Slot : InLoop(q)' <=> q = s
      BY <1>3, <2>2 DEF Sound, OneRecovery, InLoop, Actor
    <3> QED
      BY <1>3, <3>1 DEF OneRecovery
  <2> QED
    BY <2>3, <2>4, <2>5, <2>6, <2>7 DEF Sound
<1> QED
  BY <1>2, <1>3 DEF Recover

\* The recovery that unwinds is the only one.
LEMMA UnwindIsSound ==
  ASSUME Sound, NEW s \in Slot, Unwind(s)
  PROVE  Sound'
<1> USE JobsAreSeparate DEF At
<1>1. PICK there \in {"recover", "idle"} : pc' = [pc EXCEPT ![s] = there]
  BY DEF Unwind, Goto
<1>2. /\ pc[s] = "unwind" /\ recovering' = FALSE
      /\ table' = table /\ mine' = mine /\ status' = status /\ cancelled' = cancelled
      /\ todo' = todo
  BY DEF Unwind
<1>3. Typed'
  BY <1>1, <1>2 DEF Sound, Typed, Label, Loop, Starts
<1>4. Places'
  BY <1>1, <1>2 DEF Sound, Typed, Places, Actor
<1>5. NoOrphan'
  BY <1>1, <1>2 DEF Sound, Typed, NoOrphan, Actor
<1>6. Closing'
  BY <1>1, <1>2 DEF Sound, Typed, Closing, Actor
<1>7. OneRecovery'
  <2>1. \A q \in Slot : ~InLoop(q)'
    BY <1>1, <1>2 DEF Sound, Typed, OneRecovery, InLoop, Actor
  <2> QED
    BY <1>2, <2>1 DEF OneRecovery
<1> QED
  BY <1>3, <1>4, <1>5, <1>6, <1>7 DEF Sound

\* Close begins: from here on nothing is registered.
LEMMA CancelIsSound == ASSUME Sound, Cancel PROVE Sound'
<1> USE JobsAreSeparate DEF At
<1>1. /\ pc[Closer] = "idle" /\ pc' = [pc EXCEPT ![Closer] = "wait"] /\ cancelled' = TRUE
      /\ table' = table /\ mine' = mine /\ status' = status /\ recovering' = recovering
      /\ todo' = todo
  BY DEF Cancel, Goto
<1>2. Typed'
  BY <1>1 DEF Sound, Typed, Label
<1>3. Places'
  BY <1>1 DEF Sound, Typed, Places, Actor
<1>4. NoOrphan'
  BY <1>1 DEF Sound, Typed, NoOrphan
<1>5. Closing'
  BY <1>1 DEF Sound, Typed, Closing, Actor
<1>6. OneRecovery'
  <2>1. \A s \in Slot : InLoop(s)' <=> InLoop(s)
    BY <1>1 DEF Sound, Typed, InLoop, Actor
  <2> QED
    BY <1>1, <2>1 DEF Sound, OneRecovery
<1> QED
  BY <1>2, <1>3, <1>4, <1>5, <1>6 DEF Sound

\* No process starts by itself, and no probe, nor a step that changes nothing,
\* touches more than the item.
LEMMA OtherSteps ==
  ASSUME Sound,
         \/ \E p \in Proc : Crash(p) \/ Wedge(p) \/ Exits(p)
         \/ Probe \/ MergeHealth \/ UNCHANGED vars
  PROVE  Sound'
<1>1. /\ pc' = pc /\ mine' = mine /\ todo' = todo /\ table' = table
      /\ recovering' = recovering /\ cancelled' = cancelled
  BY DEF Crash, Wedge, Exits, Probe, MergeHealth, vars, managerVars, actorVars
<1>2. /\ status' \in [Proc -> {"running", "stuck", "stopping", "exited"}]
      /\ \A p \in Proc : status'[p] \in {"running", "stuck"} => status[p] \in {"running", "stuck"}
  BY DEF Crash, Wedge, Exits, Probe, MergeHealth, vars, Sound, Typed
<1>3. NoOrphan'
  BY <1>1, <1>2 DEF Sound, NoOrphan
<1> QED
  BY <1>1, <1>2, <1>3 DEF Sound, Typed, Places, Closing, OneRecovery, InLoop

-----------------------------------------------------------------------------
(* Every step *)

\* After Start the worker is in the table and nobody recovers it.
LEMMA InitIsSound == Init => Sound
<1> SUFFICES ASSUME Init PROVE Sound
  OBVIOUS
<1> USE JobsAreSeparate
<1>1. PICK p \in Proc : /\ table = p
                        /\ status = [q \in Proc |-> IF q = p THEN "running" ELSE "exited"]
                        /\ pc = [t \in Actor |-> IF t = p THEN "watch" ELSE "idle"]
  BY DEF Init
<1>2. Typed
  BY <1>1 DEF Init, Typed, Label
<1>3. Places /\ Closing
  BY <1>1 DEF Init, Places, Closing, Actor
<1>4. NoOrphan
  BY <1>1 DEF NoOrphan
<1>5. OneRecovery
  BY <1>1 DEF Init, OneRecovery, InLoop, Actor
<1> QED
  BY <1>2, <1>3, <1>4, <1>5 DEF Sound

\* Every step keeps the invariant.
LEMMA NextIsSound == Sound /\ [Next]_vars => Sound'
<1> SUFFICES ASSUME Sound, [Next]_vars PROVE Sound'
  OBVIOUS
<1>1. ASSUME NEW t \in Actor, Step(t) PROVE Sound'
  BY <1>1, QuietSteps, SpawnIsSound, RegisterIsSound, PublishIsSound, DetachIsSound,
     KillIsSound, WatchIsSound, RecoverIsSound, UnwindIsSound DEF Step, Start, Stop, Round
<1>2. ASSUME NEW t \in Admin, Ask(t) PROVE Sound'
  BY <1>2, QuietSteps DEF Actor
<1>3. CASE Bark
  BY <1>3, QuietSteps DEF Actor
<1> QED
  BY <1>1, <1>2, <1>3, CancelIsSound, OtherSteps DEF Next

\* Every part of the invariant holds of every behaviour.
THEOREM AlwaysSound == Spec => []Sound
BY InitIsSound, NextIsSound, PTL DEF Spec

\* A running worker process is always known to the table or to whoever is about
\* to register or stop it, and after Close the table stays empty
\* (Recovery!WorkersAreKnown: manager_process.go and Manager.Close).
THEOREM NoWorkerIsLost == Spec => []WorkersAreKnown
<1>1. Sound => WorkersAreKnown
  BY JobsAreSeparate DEF Sound, NoOrphan, Closing, WorkersAreKnown, ClosedForGood, At
<1> QED
  BY <1>1, AlwaysSound, PTL

\* At most one recovery per account, and the flag says so (Recovery!OneRecovery:
\* beginAccountRecovery and the deferred function of recoverAccount).
THEOREM RecoveriesAreSingle == Spec => []OneRecovery
<1>1. Sound => OneRecovery
  BY DEF Sound
<1> QED
  BY <1>1, AlwaysSound, PTL

=============================================================================
