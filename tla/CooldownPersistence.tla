------------------------- MODULE CooldownPersistence -------------------------
(***************************************************************************)
(* How pool state reaches SQLite (internal/runtime/manager.go): a pool     *)
(* mutation stamps the item with Pool.stateCounter under the pool's lock   *)
(* and notifies the observer after releasing it, so notifications of one   *)
(* account may arrive out of order.  The observer merges them into a dirty *)
(* set; one drainer goroutine writes it out, two statements per account,   *)
(* retrying on error.  Flush waits for the dirty set to empty; Close lets  *)
(* the drainer finish, unless the database is failing.                     *)
(*                                                                         *)
(* A snapshot is its StateVersion.  Versions restart with the process, so  *)
(* the state of version v in a process life is stamped base + v on disk.   *)
(* A version or stamp of 0 means none.                                     *)
(***************************************************************************)
EXTENDS Naturals, FiniteSets

CONSTANTS
  Account,     \* account IDs, numbers in the order the drainer compares them
  Worker,      \* goroutines that mutate the pool and may call Flush
  MaxVersion,  \* bound: pool mutations per process life
  MaxRestarts  \* bound: crashes and restarts of the process

ASSUME PersistenceAssumption ==
  Account \subseteq Nat /\ MaxVersion \in Nat /\ MaxRestarts \in Nat

VARIABLES
  counter,    \* Pool.stateCounter
  version,    \* Item.StateVersion of each account's pool item
  held,       \* held[w]: the snapshot w is about to hand to the observer
  worker,     \* where each worker stands
  dirty,      \* persistDirty
  persisted,  \* persistedVersions
  drainer,    \* where drainCooldowns stands
  hand,       \* the snapshot the drainer took out of the dirty set
  closed,     \* persistClosed and persistCloseCh, set together by Close
  statusDisk, \* the accounts row RecordPoolState wrote
  coolDisk,   \* the account_cooldowns rows SaveCooldowns wrote
  base,       \* stamps of earlier process lives end here
  restarts,   \* how much of MaxRestarts is spent
  enqueued,   \* history: newest version the observer accepted in this life
  owed,       \* history: enqueued when the worker called Flush
  failure,    \* history: "write" while the last write failed
  latest      \* history: stamp of each account's latest change, across restarts

poolVars == <<counter, version, held>>
diskVars == <<statusDisk, coolDisk>>
lifeVars == <<base, restarts>>
historyVars == <<enqueued, owed, failure, latest>>
vars == <<poolVars, worker, dirty, persisted, drainer, hand, closed, diskVars,
          lifeVars, historyVars>>

Nothing == [account |-> 0, version |-> 0]
Versions == [Account -> 0..MaxVersion]
Blank == [a \in Account |-> 0]
Writing == {"status", "rows", "saved", "failed"}

\* The dirty set is drained lowest account ID first.
IsNextDirty(a) == dirty[a] > 0 /\ \A b \in Account : dirty[b] > 0 => a <= b

-----------------------------------------------------------------------------
(* Workers: MarkOK, MarkClassified, ClearAccountQuotaCooldown, then Flush *)

\* Under the pool's lock: change the item, stamp it, clone it.
Mutate(w, a) ==
  /\ worker[w] = "idle" /\ counter < MaxVersion
  /\ counter' = counter + 1
  /\ version' = [version EXCEPT ![a] = counter + 1]
  /\ held' = [held EXCEPT ![w] = [account |-> a, version |-> counter + 1]]
  /\ worker' = [worker EXCEPT ![w] = "notifying"]
  /\ latest' = [latest EXCEPT ![a] = base + counter + 1]
  /\ UNCHANGED <<dirty, persisted, drainer, hand, closed, diskVars, lifeVars,
                 enqueued, owed, failure>>

Merge(a, v) == IF v >= dirty[a] THEN [dirty EXCEPT ![a] = v] ELSE dirty

\* The observer, after the pool's lock was released: a closed manager drops the
\* snapshot, an older one never replaces a newer one.
Observe(w) ==
  LET a == held[w].account
      v == held[w].version
  IN  /\ worker[w] = "notifying"
      /\ dirty' = IF closed THEN dirty ELSE Merge(a, v)
      /\ enqueued' = IF closed \/ v <= enqueued[a] THEN enqueued
                     ELSE [enqueued EXCEPT ![a] = v]
      /\ held' = [held EXCEPT ![w] = Nothing]
      /\ worker' = [worker EXCEPT ![w] = "idle"]
      /\ UNCHANGED <<counter, version, persisted, drainer, hand, closed, diskVars,
                     lifeVars, owed, failure, latest>>

\* Flush queues its marker; on a closed manager it returns at once.
CallFlush(w) ==
  /\ worker[w] = "idle" /\ ~closed
  /\ worker' = [worker EXCEPT ![w] = "flushing"]
  /\ owed' = [owed EXCEPT ![w] = enqueued]
  /\ UNCHANGED <<poolVars, dirty, persisted, drainer, hand, closed, diskVars, lifeVars,
                 enqueued, failure, latest>>

\* Close cancels runCtx once the drainer is gone; a flush still queued gives up.
FlushGivesUp(w) ==
  /\ worker[w] = "flushing" /\ drainer = "exited"
  /\ worker' = [worker EXCEPT ![w] = "idle"]
  /\ owed' = [owed EXCEPT ![w] = Blank]
  /\ UNCHANGED <<poolVars, dirty, persisted, drainer, hand, closed, diskVars, lifeVars,
                 enqueued, failure, latest>>

\* The worker sees its marker closed and returns to its caller.
FlushReturns(w) ==
  /\ worker[w] = "flushed"
  /\ worker' = [worker EXCEPT ![w] = "idle"]
  /\ owed' = [owed EXCEPT ![w] = Blank]
  /\ UNCHANGED <<poolVars, dirty, persisted, drainer, hand, closed, diskVars, lifeVars,
                 enqueued, failure, latest>>

-----------------------------------------------------------------------------
(* drainCooldowns *)

\* MUTANT of FireFlushes: a flush is answered while snapshots are waiting.
FireFlushesEarly ==
  /\ drainer = "scan"
  /\ \E w \in Worker : worker[w] = "flushing"
  /\ worker' = [w \in Worker |-> IF worker[w] = "flushing" THEN "flushed" ELSE worker[w]]
  /\ UNCHANGED <<poolVars, dirty, persisted, drainer, hand, closed, diskVars, lifeVars,
                 historyVars>>

\* An empty dirty set answers every queued flush.
FireFlushes ==
  /\ drainer = "scan" /\ dirty = Blank
  /\ \E w \in Worker : worker[w] = "flushing"
  /\ worker' = [w \in Worker |-> IF worker[w] = "flushing" THEN "flushed" ELSE worker[w]]
  /\ UNCHANGED <<poolVars, dirty, persisted, drainer, hand, closed, diskVars, lifeVars,
                 historyVars>>

\* MUTANT of Exit: Close does not wait for the remainder.
ExitEarly ==
  /\ drainer = "scan" /\ closed
  /\ \A w \in Worker : worker[w] # "flushing"
  /\ drainer' = "exited"
  /\ UNCHANGED <<poolVars, worker, dirty, persisted, hand, closed, diskVars, lifeVars,
                 historyVars>>

\* Nothing to write, nobody to answer, and Close was called.
Exit ==
  /\ drainer = "scan" /\ dirty = Blank /\ closed
  /\ \A w \in Worker : worker[w] # "flushing"
  /\ drainer' = "exited"
  /\ UNCHANGED <<poolVars, worker, dirty, persisted, hand, closed, diskVars, lifeVars,
                 historyVars>>

\* MUTANT of Take: what the file already holds is not looked at.
TakeStale(a) ==
  /\ drainer = "scan" /\ IsNextDirty(a)
  /\ dirty' = [dirty EXCEPT ![a] = 0]
  /\ hand' = [account |-> a, version |-> dirty[a]]
  /\ drainer' = "status"
  /\ UNCHANGED <<poolVars, worker, persisted, closed, diskVars, lifeVars, historyVars>>

\* Take one snapshot out; one no newer than the file is dropped here.
Take(a) ==
  /\ drainer = "scan" /\ IsNextDirty(a)
  /\ dirty' = [dirty EXCEPT ![a] = 0]
  /\ IF dirty[a] <= persisted[a]
     THEN UNCHANGED <<drainer, hand>>
     ELSE /\ hand' = [account |-> a, version |-> dirty[a]]
          /\ drainer' = "status"
  /\ UNCHANGED <<poolVars, worker, persisted, closed, diskVars, lifeVars, historyVars>>

\* RecordPoolState.
WriteStatus ==
  /\ drainer = "status"
  /\ statusDisk' = [statusDisk EXCEPT ![hand.account] = base + hand.version]
  /\ drainer' = "rows"
  /\ UNCHANGED <<poolVars, worker, dirty, persisted, hand, closed, coolDisk, lifeVars,
                 historyVars>>

\* SaveCooldowns: one transaction replaces the account's rows.
WriteRows ==
  /\ drainer = "rows"
  /\ coolDisk' = [coolDisk EXCEPT ![hand.account] = base + hand.version]
  /\ drainer' = "saved"
  /\ UNCHANGED <<poolVars, worker, dirty, persisted, hand, closed, statusDisk, lifeVars,
                 historyVars>>

\* Either statement fails and leaves the file as it was.
WriteFails ==
  /\ drainer \in {"status", "rows"}
  /\ drainer' = "failed"
  /\ failure' = "write"
  /\ UNCHANGED <<poolVars, worker, dirty, persisted, hand, closed, diskVars, lifeVars,
                 enqueued, owed, latest>>

\* MUTANT of Saved: persistedVersions is not advanced.
SavedForgets ==
  /\ drainer = "saved"
  /\ drainer' = "scan" /\ hand' = Nothing
  /\ failure' = "none"
  /\ UNCHANGED <<poolVars, worker, dirty, persisted, closed, diskVars, lifeVars, enqueued,
                 owed, latest>>

\* Only a completed write advances persistedVersions.
Saved ==
  /\ drainer = "saved"
  /\ persisted' = IF persisted[hand.account] < hand.version
                  THEN [persisted EXCEPT ![hand.account] = hand.version] ELSE persisted
  /\ drainer' = "scan" /\ hand' = Nothing
  /\ failure' = "none"
  /\ UNCHANGED <<poolVars, worker, dirty, closed, diskVars, lifeVars, enqueued, owed, latest>>

\* MUTANT of PutBack: a failed snapshot is dropped.
PutBackDrops ==
  /\ drainer = "failed"
  /\ drainer' = "backoff" /\ hand' = Nothing
  /\ UNCHANGED <<poolVars, worker, dirty, persisted, closed, diskVars, lifeVars, historyVars>>

\* After an error the snapshot goes back, unless a newer one arrived.
PutBack ==
  /\ drainer = "failed"
  /\ dirty' = Merge(hand.account, hand.version)
  /\ drainer' = "backoff" /\ hand' = Nothing
  /\ UNCHANGED <<poolVars, worker, persisted, closed, diskVars, lifeVars, historyVars>>

\* MUTANT of Retry: the backoff does not watch persistCloseCh.
RetryDeaf ==
  /\ drainer = "backoff"
  /\ drainer' = "scan"
  /\ UNCHANGED <<poolVars, worker, dirty, persisted, hand, closed, diskVars, lifeVars,
                 historyVars>>

\* persistRetryBackoff elapses.  Once Close was called the other branch of the
\* select is ready first.
Retry ==
  /\ drainer = "backoff" /\ ~closed
  /\ drainer' = "scan"
  /\ UNCHANGED <<poolVars, worker, dirty, persisted, hand, closed, diskVars, lifeVars,
                 historyVars>>

\* A backed-off drainer leaves as soon as Close was called.
Abandon ==
  /\ drainer = "backoff" /\ closed
  /\ drainer' = "exited"
  /\ UNCHANGED <<poolVars, worker, dirty, persisted, hand, closed, diskVars, lifeVars,
                 historyVars>>

-----------------------------------------------------------------------------
Close ==
  /\ ~closed
  /\ closed' = TRUE
  /\ UNCHANGED <<poolVars, worker, dirty, persisted, drainer, hand, diskVars, lifeVars,
                 historyVars>>

\* The process dies wherever it is (or ends after Close) and a new one starts.
Restart ==
  /\ restarts < MaxRestarts
  /\ restarts' = restarts + 1
  /\ base' = base + counter
  /\ counter' = 0 /\ version' = Blank /\ held' = [w \in Worker |-> Nothing]
  /\ worker' = [w \in Worker |-> "idle"]
  /\ dirty' = Blank /\ persisted' = Blank
  /\ drainer' = "scan" /\ hand' = Nothing /\ closed' = FALSE
  /\ enqueued' = Blank /\ owed' = [w \in Worker |-> Blank] /\ failure' = "none"
  /\ UNCHANGED <<diskVars, latest>>

Init ==
  /\ counter = 0 /\ version = Blank /\ held = [w \in Worker |-> Nothing]
  /\ worker = [w \in Worker |-> "idle"]
  /\ dirty = Blank /\ persisted = Blank
  /\ drainer = "scan" /\ hand = Nothing /\ closed = FALSE
  /\ statusDisk = Blank /\ coolDisk = Blank
  /\ base = 0 /\ restarts = 0
  /\ enqueued = Blank /\ owed = [w \in Worker |-> Blank] /\ failure = "none"
  /\ latest = Blank

Drain ==
  \/ FireFlushes \/ Exit \/ WriteStatus \/ WriteRows \/ WriteFails \/ Saved \/ PutBack
  \/ Retry \/ Abandon
  \/ \E a \in Account : Take(a)

Work(w) ==
  \/ Observe(w) \/ CallFlush(w) \/ FlushGivesUp(w) \/ FlushReturns(w)
  \/ \E a \in Account : Mutate(w, a)

Next == Drain \/ Close \/ Restart \/ \E w \in Worker : Work(w)

Spec == Init /\ [][Next]_vars

\* The drainer and the goroutines that notified it are scheduled; nothing is
\* assumed of the database.
Fairness ==
  /\ WF_vars(Drain)
  /\ \A w \in Worker : WF_vars(Observe(w) \/ FlushGivesUp(w) \/ FlushReturns(w))

FairSpec == Spec /\ Fairness

\* A database that is tried again and again answers at last.
HealthyDatabase == SF_vars(WriteStatus) /\ SF_vars(WriteRows)

-----------------------------------------------------------------------------
(* Properties *)

\* Every variable stays in its domain.
TypeOK ==
  /\ counter \in 0..MaxVersion /\ version \in Versions
  /\ held \in [Worker -> [account : Account \cup {0}, version : 0..MaxVersion]]
  /\ worker \in [Worker -> {"idle", "notifying", "flushing", "flushed"}]
  /\ \A w \in Worker : worker[w] = "notifying" => held[w].account \in Account
  /\ dirty \in Versions /\ persisted \in Versions
  /\ drainer \in {"scan", "backoff", "exited"} \cup Writing
  /\ hand \in [account : Account \cup {0}, version : 0..MaxVersion]
  /\ drainer \in Writing => hand.account \in Account
  /\ closed \in BOOLEAN /\ failure \in {"none", "write"}
  /\ statusDisk \in [Account -> Nat] /\ coolDisk \in [Account -> Nat]
  /\ base \in Nat /\ restarts \in 0..MaxRestarts
  /\ enqueued \in Versions /\ owed \in [Worker -> Versions]
  /\ latest \in [Account -> Nat]

\* However notifications are reordered, delayed or retried, and wherever the
\* process dies between the two statements, each table holds for each account a
\* state the account really had and never goes back to an older one.
Cooldowns == INSTANCE DurableState WITH newest <- latest, disk <- coolDisk
Statuses == INSTANCE DurableState WITH newest <- latest, disk <- statusDisk
CooldownsDurable == Cooldowns!Spec
StatusesDurable == Statuses!Spec

\* "everything enqueued before the flush is persisted before Flush returns"
FlushPersists ==
  \A w \in Worker : worker[w] = "flushed" =>
    \A a \in Account : owed[w][a] > 0 =>
      coolDisk[a] >= base + owed[w][a] /\ statusDisk[a] >= base + owed[w][a]

\* "the final persisted state is the newest pool state": when every notification
\* has arrived and the drainer has nothing left, both tables hold exactly the
\* pool's latest version of every account changed in this life.
QuietMeansNewest ==
  (/\ drainer = "scan" /\ dirty = Blank /\ ~closed
   /\ \A w \in Worker : worker[w] # "notifying")
  => \A a \in Account : version[a] > 0 =>
       coolDisk[a] = base + version[a] /\ statusDisk[a] = base + version[a]

\* Close loses nothing it was told of in time, unless the last write failed.
CloseSaves ==
  drainer = "exited" /\ failure = "none" =>
    \A a \in Account : enqueued[a] > 0 => coolDisk[a] >= base + enqueued[a]

\* The file ends with the newest state, at rest and when the drainer has left.
NewestIsSaved == QuietMeansNewest /\ CloseSaves

\* Close returns whatever the database does: the drainer always exits.
CloseReturns == closed ~> (drainer = "exited" \/ ~closed)

\* On a database that answers at last, Flush always returns.
FlushIsAnswered ==
  HealthyDatabase => \A w \in Worker : worker[w] = "flushing" ~> worker[w] # "flushing"

\* Neither Close nor Flush leaves its caller waiting.
CallersReturn == CloseReturns /\ FlushIsAnswered

\* On a database that answers at last, what the observer accepted reaches the
\* file, or Close or a crash intervenes.
EventuallyPersisted ==
  HealthyDatabase =>
    \A a \in Account : \A v \in 1..MaxVersion :
      enqueued[a] = v ~> (coolDisk[a] >= base + v \/ closed \/ enqueued[a] = 0)

=============================================================================
