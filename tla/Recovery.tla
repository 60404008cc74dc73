------------------------------- MODULE Recovery -------------------------------
(***************************************************************************)
(* The life of one account's worker process (internal/runtime:             *)
(* manager_process.go, manager_recovery.go, manager_accounts.go, the       *)
(* liveness watchdog of manager_maintenance.go, Manager.Close).  The       *)
(* process table, the pool item and the account row are changed under      *)
(* three different locks by operator requests, by the goroutine that       *)
(* watches each process, by the recovery goroutine, by the watchdog and by *)
(* Close; every lock section is a step of its own here.                    *)
(*                                                                         *)
(* Accounts share nothing but the port counter, so one account is modelled.*)
(* Restart counters and the length of the backoff are left out: nothing    *)
(* else reads them.                                                        *)
(***************************************************************************)
EXTENDS Naturals

CONSTANTS
  Admin,      \* concurrent operator requests
  Slot,       \* goroutines that may be in recoverAccount at once
  Proc,       \* worker processes, reused once nothing refers to them
  Dog,        \* the watchdog of the maintenance loop
  Closer,     \* the goroutine in Manager.Close
  None,       \* no process
  Console,    \* whether the console, or the boot, refreshes accounts
  MaxOps,     \* bound: operator requests
  MaxCrashes, \* bound: processes that crash or wedge
  MaxFailures \* bound: failed spawns and failed reads of the account row

ASSUME RecoveryAssumption ==
  /\ Console \in BOOLEAN
  /\ MaxOps \in Nat /\ MaxCrashes \in Nat /\ MaxFailures \in Nat

\* Every goroutine has one job, and no process is the absent one.
ASSUME JobsAreSeparate ==
  /\ None \notin Proc
  /\ Admin \cap Slot = {} /\ Admin \cap Proc = {} /\ Slot \cap Proc = {}
  /\ {Dog, Closer} \cap (Admin \cup Slot \cup Proc) = {} /\ Dog # Closer

Actor == Admin \cup Slot \cup Proc \cup {Dog, Closer}

VARIABLES
  account,    \* the accounts row: "enabled", "disabled", "deleted"
  table,      \* Manager.processes of the account
  item,       \* its pool item: RuntimeState ("absent" without an item), Ready, URL
  recovering, \* Manager.recovering of the account
  pending,    \* Manager.recoverPending of the account
  cancelled,  \* runCtx is done
  pc,         \* where each actor stands; a process stands for its watcher
  mine,       \* the process an actor has taken or started
  todo,       \* what follows a stop: "none", "start", "delete", "recover"
  status,     \* "running", "stuck", "stopping" (told to), "exited"
  probe,      \* the health a refresh read and has not merged yet
  ops, crashes, failures

managerVars == <<table, recovering, pending, cancelled>>
actorVars == <<pc, mine, todo>>
boundVars == <<ops, crashes, failures>>
vars == <<account, item, status, probe, managerVars, actorVars, boundVars>>

Absent == [state |-> "absent", ready |-> FALSE, url |-> None]
Starting(p) == [state |-> "starting", ready |-> FALSE, url |-> p]

\* Pool.SetRuntimeState: nothing happens to an account without an item.
Marked(state) ==
  IF item = Absent THEN Absent ELSE [item EXCEPT !.state = state, !.ready = FALSE]

Goto(t, label) == pc' = [pc EXCEPT ![t] = label]
\* An operator's request is over, a recovery goroutine unwinds.
Ended(t) == Goto(t, IF t \in Slot THEN "unwind" ELSE IF t = Closer THEN "closed" ELSE "idle")
At(t, label) == pc[t] = label

Unreferenced(p) ==
  /\ status[p] = "exited" /\ table # p /\ item.url # p /\ At(p, "idle")
  /\ \A t \in Actor : mine[t] # p

-----------------------------------------------------------------------------
(* Operator requests: Create, Update, Delete, SyncAccount,                  *)
(* ReplaceProxyAPIKey, ReloadProxyURL                                        *)

Request(t) == At(t, "idle") /\ ~cancelled /\ ops < MaxOps /\ ops' = ops + 1

Disable(t) ==
  /\ Request(t) /\ account = "enabled"
  /\ account' = "disabled" /\ Goto(t, "detach")
  /\ UNCHANGED <<managerVars, item, mine, todo, status, probe, crashes, failures>>

Enable(t) ==
  /\ Request(t) /\ account = "disabled"
  /\ account' = "enabled" /\ Goto(t, "begin")
  /\ UNCHANGED <<managerVars, item, mine, todo, status, probe, crashes, failures>>

\* A change of proxy, key or cap stops the worker and starts it again.
Reboot(t) ==
  /\ Request(t) /\ account = "enabled"
  /\ Goto(t, "detach") /\ todo' = [todo EXCEPT ![t] = "start"]
  /\ UNCHANGED <<account, managerVars, item, mine, status, probe, crashes, failures>>

Delete(t) ==
  /\ Request(t) /\ account # "deleted"
  /\ Goto(t, "detach") /\ todo' = [todo EXCEPT ![t] = "delete"]
  /\ UNCHANGED <<account, managerVars, item, mine, status, probe, crashes, failures>>

\* Delete goes on to the row once the process was told to stop.
Erase(t) ==
  /\ At(t, "erase")
  /\ account' = "deleted" /\ Ended(t)
  /\ UNCHANGED <<managerVars, item, mine, todo, status, probe, boundVars>>

-----------------------------------------------------------------------------
(* startAccount, by an operator's request or by the recovery goroutine *)

Begin(t) ==
  /\ At(t, "begin")
  /\ IF cancelled \/ table # None THEN Ended(t) ELSE Goto(t, "upsert")
  /\ UNCHANGED <<account, managerVars, item, mine, todo, status, probe, boundVars>>

Upsert(t) ==
  /\ At(t, "upsert")
  /\ item' = Starting(None) /\ Goto(t, "spawn")
  /\ UNCHANGED <<account, managerVars, mine, todo, status, probe, boundVars>>

Spawn(t) ==
  /\ At(t, "spawn")
  /\ \E p \in Proc :
       /\ Unreferenced(p)
       /\ status' = [status EXCEPT ![p] = "running"]
       /\ mine' = [mine EXCEPT ![t] = p]
  /\ Goto(t, "register")
  /\ UNCHANGED <<account, managerVars, item, todo, probe, boundVars>>

SpawnFails(t) ==
  /\ At(t, "spawn") /\ failures < MaxFailures
  /\ failures' = failures + 1
  /\ Goto(t, IF t \in Slot THEN "check" ELSE "recover")
  /\ UNCHANGED <<account, managerVars, item, mine, todo, status, probe, ops, crashes>>

\* The spawn took its time: another starter or Close may have been faster.
Register(t) ==
  /\ At(t, "register")
  /\ IF cancelled \/ table # None
     THEN Goto(t, "kill") /\ UNCHANGED table
     ELSE table' = mine[t] /\ Goto(t, "publish")
  /\ UNCHANGED <<account, recovering, pending, cancelled, item, mine, todo, status, probe,
                 boundVars>>

\* The item gets its URL and the process its watcher.
Publish(t) ==
  /\ At(t, "publish")
  /\ item' = Starting(mine[t])
  /\ pc' = [pc EXCEPT ![t] = IF t \in Slot THEN "unwind" ELSE "idle", ![mine[t]] = "watch"]
  /\ mine' = [mine EXCEPT ![t] = None]
  /\ UNCHANGED <<account, managerVars, todo, status, probe, boundVars>>

-----------------------------------------------------------------------------
(* stopAccount, and restartStuckWorker up to its recovery *)

Detach(t) ==
  /\ At(t, "detach")
  /\ mine' = [mine EXCEPT ![t] = table] /\ table' = None
  /\ Goto(t, "remove")
  /\ UNCHANGED <<account, recovering, pending, cancelled, item, todo, status, probe, boundVars>>

Remove(t) ==
  /\ At(t, "remove")
  /\ item' = Absent /\ Goto(t, "kill")
  /\ UNCHANGED <<account, managerVars, mine, todo, status, probe, boundVars>>

\* What follows the stop.
Continue(t) ==
  CASE todo[t] = "none" -> Ended(t)
    [] todo[t] = "start" -> Goto(t, "begin")
    [] todo[t] = "delete" -> Goto(t, "erase")
    [] todo[t] = "recover" -> Goto(t, "recover")

\* MUTANT of Kill: the process is forgotten without a signal.
KillNothing(t) ==
  /\ At(t, "kill")
  /\ mine' = [mine EXCEPT ![t] = None] /\ todo' = [todo EXCEPT ![t] = "none"]
  /\ Continue(t)
  /\ UNCHANGED <<account, managerVars, item, status, probe, boundVars>>

\* Process.Stop sends a signal and does not wait.
Kill(t) ==
  /\ At(t, "kill")
  /\ status' = IF mine[t] # None /\ status[mine[t]] \in {"running", "stuck"}
               THEN [status EXCEPT ![mine[t]] = "stopping"] ELSE status
  /\ mine' = [mine EXCEPT ![t] = None] /\ todo' = [todo EXCEPT ![t] = "none"]
  /\ Continue(t)
  /\ UNCHANGED <<account, managerVars, item, probe, boundVars>>

-----------------------------------------------------------------------------
(* beginAccountRecovery: by a request whose start failed, by a watcher, by   *)
(* the watchdog, by an unwinding recovery goroutine                          *)

\* MUTANT of Recover: a failure during the unwinding is dropped.
RecoverDrops(t) ==
  /\ At(t, "recover")
  /\ IF cancelled \/ recovering
     THEN Goto(t, "idle") /\ UNCHANGED <<recovering, pending>>
     ELSE /\ recovering' = TRUE /\ UNCHANGED pending
          /\ \E s \in Slot :
               At(s, "idle") /\ pc' = [pc EXCEPT ![s] = "check", ![t] = "mark"]
  /\ UNCHANGED <<account, table, cancelled, item, mine, todo, status, probe, boundVars>>

\* MUTANT of Recover: nobody looks whether a recovery is running.
RecoverTwice(t) ==
  /\ At(t, "recover")
  /\ IF cancelled
     THEN Goto(t, "idle") /\ UNCHANGED <<recovering, pending>>
     ELSE /\ recovering' = TRUE /\ UNCHANGED pending
          /\ \E s \in Slot :
               At(s, "idle") /\ pc' = [pc EXCEPT ![s] = "check", ![t] = "mark"]
  /\ UNCHANGED <<account, table, cancelled, item, mine, todo, status, probe, boundVars>>

Recover(t) ==
  /\ At(t, "recover")
  /\ \/ /\ cancelled
        /\ Goto(t, "idle") /\ UNCHANGED <<recovering, pending>>
     \/ /\ ~cancelled /\ recovering
        /\ pending' = TRUE /\ Goto(t, "idle") /\ UNCHANGED recovering
     \/ /\ ~cancelled /\ ~recovering
        /\ recovering' = TRUE /\ UNCHANGED pending
        /\ \E s \in Slot :
             At(s, "idle") /\ pc' = [pc EXCEPT ![s] = "check", ![t] = "mark"]
  /\ UNCHANGED <<account, table, cancelled, item, mine, todo, status, probe, boundVars>>

\* Its last line, after the manager's lock was released.
Mark(t) ==
  /\ At(t, "mark")
  /\ item' = Marked("dead") /\ Goto(t, "idle")
  /\ UNCHANGED <<account, managerVars, mine, todo, status, probe, boundVars>>

-----------------------------------------------------------------------------
(* recoverAccount *)

\* The row is read; a failed read only means another round.
Check(s) ==
  /\ At(s, "check")
  /\ Goto(s, IF cancelled THEN "unwind"
             ELSE IF account = "enabled" THEN "postpone" ELSE "retire")
  /\ UNCHANGED <<account, managerVars, item, mine, todo, status, probe, boundVars>>

ReadFails(s) ==
  /\ pc[s] \in {"check", "recheck"} /\ ~cancelled /\ failures < MaxFailures
  /\ failures' = failures + 1
  /\ Goto(s, IF At(s, "check") THEN "postpone" ELSE "check")
  /\ UNCHANGED <<account, managerVars, item, mine, todo, status, probe, ops, crashes>>

Postpone(s) ==
  /\ At(s, "postpone")
  /\ item' = Marked("dead") /\ Goto(s, "delay")
  /\ UNCHANGED <<account, managerVars, mine, todo, status, probe, boundVars>>

\* The restart delay is over, or Close cut it short.
Delay(s) ==
  /\ At(s, "delay")
  /\ Goto(s, IF cancelled THEN "unwind" ELSE "recheck")
  /\ UNCHANGED <<account, managerVars, item, mine, todo, status, probe, boundVars>>

Recheck(s) ==
  /\ At(s, "recheck")
  /\ Goto(s, IF cancelled THEN "unwind"
             ELSE IF account = "enabled" THEN "begin" ELSE "retire")
  /\ UNCHANGED <<account, managerVars, item, mine, todo, status, probe, boundVars>>

Retire(s) ==
  /\ At(s, "retire")
  /\ item' = Marked("disabled") /\ Goto(s, "unwind")
  /\ UNCHANGED <<account, managerVars, mine, todo, status, probe, boundVars>>

\* The deferred function: a failure reported meanwhile starts a new recovery
\* (bound: when another Slot can run it).
Unwind(s) ==
  /\ At(s, "unwind") /\ (pending => \E r \in Slot : At(r, "idle"))
  /\ recovering' = FALSE /\ pending' = FALSE
  /\ Goto(s, IF pending THEN "recover" ELSE "idle")
  /\ UNCHANGED <<account, table, cancelled, item, mine, todo, status, probe, boundVars>>

-----------------------------------------------------------------------------
(* watchAccount *)

Watch(p) ==
  /\ At(p, "watch") /\ status[p] = "exited"
  /\ IF table = p
     THEN table' = None /\ Goto(p, "recover")
     ELSE UNCHANGED table /\ Goto(p, "idle")
  /\ UNCHANGED <<account, recovering, pending, cancelled, item, mine, todo, status, probe,
                 boundVars>>

\* Once runCtx is done the watcher may leave first.
WatchEnds(p) ==
  /\ At(p, "watch") /\ cancelled
  /\ Goto(p, "idle")
  /\ UNCHANGED <<account, managerVars, item, mine, todo, status, probe, boundVars>>

-----------------------------------------------------------------------------
(* probeWorkerLiveness: the third failed probe in a row *)

\* MUTANT of Bark: only workers that are still starting are watched.
BarkStarting ==
  /\ At(Dog, "idle") /\ ~cancelled
  /\ item.state = "starting" /\ item.url # None
  /\ status[item.url] # "running" /\ ~recovering
  /\ Goto(Dog, "detach") /\ todo' = [todo EXCEPT ![Dog] = "recover"]
  /\ UNCHANGED <<account, managerVars, item, mine, status, probe, crashes, ops, failures>>

Bark ==
  /\ At(Dog, "idle") /\ ~cancelled
  /\ item.state \notin {"absent", "dead"} /\ item.url # None
  /\ status[item.url] # "running" /\ ~recovering
  /\ Goto(Dog, "detach") /\ todo' = [todo EXCEPT ![Dog] = "recover"]
  /\ UNCHANGED <<account, managerVars, item, mine, status, probe, boundVars>>

(* refreshOne, at boot and when the console asks for it *)

Probe ==
  /\ Console /\ probe = "none" /\ ~cancelled
  /\ item.state \notin {"absent", "dead"} /\ item.url # None
  /\ probe' = IF status[item.url] = "running" THEN "healthy" ELSE "sick"
  /\ UNCHANGED <<account, managerVars, item, actorVars, status, boundVars>>

\* MergeHealth, on whatever item the account has by now.
MergeHealth ==
  /\ probe # "none" /\ probe' = "none"
  /\ item' = IF item = Absent \/ (item.state = "dead" /\ probe = "sick") THEN item
             ELSE IF probe = "healthy" THEN [item EXCEPT !.state = "ready", !.ready = TRUE]
             ELSE [item EXCEPT !.state = "auth_failed", !.ready = FALSE]
  /\ UNCHANGED <<account, managerVars, actorVars, status, boundVars>>

-----------------------------------------------------------------------------
(* Manager.Close *)

Cancel ==
  /\ At(Closer, "idle") /\ cancelled' = TRUE /\ Goto(Closer, "wait")
  /\ UNCHANGED <<account, table, recovering, pending, item, mine, todo, status, probe, boundVars>>

\* MUTANT of Collect: Close waits for the processes before it stops them.
CollectLast ==
  /\ At(Closer, "wait") /\ \A p \in Proc : status[p] = "exited"
  /\ mine' = [mine EXCEPT ![Closer] = table] /\ table' = None
  /\ Goto(Closer, "kill")
  /\ UNCHANGED <<account, recovering, pending, cancelled, item, todo, status, probe, boundVars>>

\* recoverDone.Wait, then every process left is told to stop.
Collect ==
  /\ At(Closer, "wait") /\ \A s \in Slot : At(s, "idle")
  /\ mine' = [mine EXCEPT ![Closer] = table] /\ table' = None
  /\ Goto(Closer, "kill")
  /\ UNCHANGED <<account, recovering, pending, cancelled, item, todo, status, probe, boundVars>>

(* The processes themselves *)

Crash(p) ==
  /\ status[p] \in {"running", "stuck"} /\ crashes < MaxCrashes
  /\ status' = [status EXCEPT ![p] = "exited"] /\ crashes' = crashes + 1
  /\ UNCHANGED <<account, managerVars, item, actorVars, probe, ops, failures>>

Wedge(p) ==
  /\ status[p] = "running" /\ crashes < MaxCrashes
  /\ status' = [status EXCEPT ![p] = "stuck"] /\ crashes' = crashes + 1
  /\ UNCHANGED <<account, managerVars, item, actorVars, probe, ops, failures>>

Exits(p) ==
  /\ status[p] = "stopping"
  /\ status' = [status EXCEPT ![p] = "exited"]
  /\ UNCHANGED <<account, managerVars, item, actorVars, probe, boundVars>>

-----------------------------------------------------------------------------
\* After Start: one enabled account whose worker runs and was found healthy.
Init ==
  /\ account = "enabled"
  /\ \E p \in Proc :
       /\ table = p
       /\ item = [state |-> "ready", ready |-> TRUE, url |-> p]
       /\ status = [q \in Proc |-> IF q = p THEN "running" ELSE "exited"]
       /\ pc = [t \in Actor |-> IF t = p THEN "watch" ELSE "idle"]
  /\ recovering = FALSE /\ pending = FALSE /\ cancelled = FALSE
  /\ mine = [t \in Actor |-> None] /\ todo = [t \in Actor |-> "none"]
  /\ probe = "none" /\ ops = 0 /\ crashes = 0 /\ failures = 0

Start(t) == Begin(t) \/ Upsert(t) \/ Spawn(t) \/ SpawnFails(t) \/ Register(t) \/ Publish(t)
Stop(t) == Detach(t) \/ Remove(t) \/ Kill(t)
Ask(t) == Disable(t) \/ Enable(t) \/ Reboot(t) \/ Delete(t)
Round(s) == Check(s) \/ ReadFails(s) \/ Postpone(s) \/ Delay(s) \/ Recheck(s) \/ Retire(s) \/ Unwind(s)

Step(t) ==
  \/ Start(t) \/ Stop(t) \/ Recover(t) \/ Mark(t) \/ Erase(t)
  \/ t \in Slot /\ Round(t)
  \/ t \in Proc /\ (Watch(t) \/ WatchEnds(t))
  \/ t = Closer /\ Collect

Next ==
  \/ \E t \in Actor : Step(t)
  \/ \E t \in Admin : Ask(t)
  \/ Bark \/ Probe \/ MergeHealth \/ Cancel
  \/ \E p \in Proc : Crash(p) \/ Wedge(p) \/ Exits(p)

Spec == Init /\ [][Next]_vars

\* Goroutines are scheduled, timers fire, a process told to stop stops, and the
\* watchdog keeps probing.  Nobody is obliged to open the console, to change the
\* account or to close the manager.
FairSpec ==
  /\ Spec
  /\ \A t \in Actor : WF_vars(Step(t))
  /\ \A p \in Proc : WF_vars(Exits(p))
  /\ WF_vars(Bark) /\ WF_vars(MergeHealth)

-----------------------------------------------------------------------------
(* Properties *)

\* No worker process is ever lost: one that runs is in the table, where the next
\* stop or Close finds it, or in the hands of an actor about to register it or to
\* stop it.
NoOrphan ==
  \A p \in Proc : status[p] \in {"running", "stuck"} =>
    table = p \/ \E t \in Actor : mine[t] = p /\ pc[t] \in {"register", "kill", "remove"}

\* Once Close has returned, nothing is registered, and whatever still runs was
\* spawned by a request that is about to stop it.
ClosedForGood ==
  At(Closer, "closed") =>
    /\ table = None
    /\ \A p \in Proc : status[p] \in {"running", "stuck"} =>
         \E t \in Actor : mine[t] = p /\ pc[t] \in {"register", "kill", "remove"}

\* A worker process is known for as long as it runs, beyond Close too.
WorkersAreKnown == NoOrphan /\ ClosedForGood

InLoop(s) ==
  \/ pc[s] \in {"check", "postpone", "delay", "recheck", "retire", "unwind"}
  \/ pc[s] \in {"begin", "upsert", "spawn", "register", "publish", "kill"}

\* An account has at most one recovery in progress, and recovering says so.
OneRecovery ==
  /\ \A r, s \in Slot : InLoop(r) /\ InLoop(s) => r = s
  /\ recovering <=> \E s \in Slot : InLoop(s)

\* "A crash during recovery unwind" is not dropped, nor is any other: while the
\* account is enabled and the manager open, an account without a process gets one.
CrashesAreRecovered ==
  (account = "enabled" /\ table = None) ~> (table # None \/ account # "enabled" \/ cancelled)

\* An account whose worker exited or got stuck does not "stay routed to forever":
\* its item loses readiness, by recovery or by the watchdog.
SickAndReady == item.ready /\ item.url # None /\ status[item.url] # "running"
SickIsNotRouted == SickAndReady ~> (~SickAndReady \/ cancelled)

\* Close always gets through.
CloseFinishes == cancelled ~> At(Closer, "closed")

Quiet == ~cancelled /\ \A t \in Actor : pc[t] \in {"idle", "watch"}

\* "disabled account was restarted": once every request and recovery is over, a
\* disabled account has no worker.
DisabledStaysDown == Quiet /\ account = "disabled" => table = None

\* A stuck worker must not "become a permanently dead account": while the account
\* stays enabled, with its worker up, it becomes routable again.
RoutableAgain ==
  ~item.ready ~> (item.ready \/ account # "enabled" \/ cancelled)

=============================================================================
