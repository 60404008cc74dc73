-------------------------- MODULE PersistenceProofs --------------------------
(***************************************************************************)
(* Cooldown persistence implements DurableState, for any number of         *)
(* accounts, goroutines, pool changes and restarts.                        *)
(*                                                                         *)
(* The argument: every snapshot in flight is a version its account really  *)
(* reached; the one in the drainer's hand is newer than all it completed;  *)
(* and the file never holds more than what was completed, is in hand, or   *)
(* (for the status row, written before the statement that failed) waits in *)
(* the dirty set again.                                                    *)
(***************************************************************************)
EXTENDS CooldownPersistence, TLAPS

\* A version in the pool is the account's latest stamp; no version means that
\* the account did not change in this life.
StampsReal ==
  \A a \in Account :
    /\ version[a] <= counter
    /\ version[a] > 0 => latest[a] = base + version[a]
    /\ version[a] = 0 => latest[a] <= base

\* Snapshots on their way to the file are versions their accounts reached.
SnapshotsReal ==
  /\ \A w \in Worker : worker[w] = "notifying" =>
       held[w].version <= version[held[w].account]
  /\ \A a \in Account : dirty[a] <= version[a] /\ persisted[a] <= version[a]
  /\ drainer \in Writing => hand.version <= version[hand.account]

HandIsNewer == drainer \in Writing => hand.version > persisted[hand.account]

InHand(a) == drainer \in Writing /\ hand.account = a

\* The rows hold a completed version, or the one whose write just succeeded.
RowsBounded ==
  \A a \in Account :
    \/ coolDisk[a] <= base + persisted[a]
    \/ drainer = "saved" /\ hand.account = a /\ coolDisk[a] = base + hand.version

\* The status row may also hold the version in hand, or one put back after the
\* second statement failed.
StatusBounded ==
  \A a \in Account :
    IF InHand(a)
    THEN statusDisk[a] <= base + hand.version
    ELSE \/ statusDisk[a] <= base + persisted[a]
         \/ dirty[a] > 0 /\ statusDisk[a] <= base + dirty[a]

Parts == StampsReal /\ SnapshotsReal /\ HandIsNewer /\ RowsBounded /\ StatusBounded

-----------------------------------------------------------------------------
(* Type correctness *)

\* Empty maps and the empty hand are well typed.
LEMMA BlankType ==
  /\ Blank \in Versions /\ Blank \in [Account -> Nat]
  /\ Nothing \in [account : Account \cup {0}, version : 0..MaxVersion]
BY PersistenceAssumption DEF Blank, Nothing, Versions, PersistenceAssumption

\* The manager starts in its state space.
LEMMA InitType == Init => TypeOK
<1> SUFFICES ASSUME Init PROVE TypeOK  OBVIOUS
<1>1. held \in [Worker -> [account : Account \cup {0}, version : 0..MaxVersion]]
  BY BlankType DEF Init
<1>2. owed \in [Worker -> Versions]  BY BlankType DEF Init
<1>3. counter \in 0..MaxVersion /\ base \in Nat /\ restarts \in 0..MaxRestarts
  BY PersistenceAssumption DEF Init, PersistenceAssumption
<1>4. /\ worker \in [Worker -> {"idle", "notifying", "flushing", "flushed"}]
      /\ \A w \in Worker : worker[w] # "notifying"
  BY DEF Init
<1>5. drainer = "scan" /\ drainer \notin Writing  BY DEF Init, Writing
<1>6. /\ version \in Versions /\ dirty \in Versions /\ persisted \in Versions
      /\ enqueued \in Versions /\ statusDisk \in [Account -> Nat]
      /\ coolDisk \in [Account -> Nat] /\ latest \in [Account -> Nat]
      /\ hand \in [account : Account \cup {0}, version : 0..MaxVersion]
      /\ closed \in BOOLEAN /\ failure \in {"none", "write"}
  BY BlankType DEF Init
<1> QED  BY <1>1, <1>2, <1>3, <1>4, <1>5, <1>6 DEF TypeOK

\* Merging a snapshot keeps the dirty set well typed.
LEMMA MergeType ==
  ASSUME TypeOK, NEW a \in Account, NEW v \in 0..MaxVersion
  PROVE  Merge(a, v) \in Versions
BY DEF Merge, TypeOK, Versions

\* Every step keeps every variable in its domain.
LEMMA NextType == TypeOK /\ [Next]_vars => TypeOK'
<1> SUFFICES ASSUME TypeOK, [Next]_vars PROVE TypeOK'  OBVIOUS
<1> USE PersistenceAssumption DEF PersistenceAssumption, poolVars, diskVars, lifeVars, historyVars
<1>1. ASSUME NEW w \in Worker, NEW a \in Account, Mutate(w, a) PROVE TypeOK'
  <2>1. counter + 1 \in 0..MaxVersion /\ base + counter + 1 \in Nat  BY <1>1 DEF Mutate, TypeOK
  <2>2. version' \in Versions /\ latest' \in [Account -> Nat]
    BY <1>1, <2>1 DEF Mutate, TypeOK, Versions
  <2>3. held' \in [Worker -> [account : Account \cup {0}, version : 0..MaxVersion]]
    BY <1>1, <2>1 DEF Mutate, TypeOK
  <2>4. /\ worker' \in [Worker -> {"idle", "notifying", "flushing", "flushed"}]
        /\ \A x \in Worker : worker'[x] = "notifying" => held'[x].account \in Account
    BY <1>1 DEF Mutate, TypeOK
  <2> QED  BY <1>1, <2>1, <2>2, <2>3, <2>4 DEF Mutate, TypeOK
<1>2. ASSUME NEW w \in Worker, Observe(w) PROVE TypeOK'
  <2> DEFINE a == held[w].account
             v == held[w].version
  <2>1. a \in Account /\ v \in 0..MaxVersion  BY <1>2 DEF Observe, TypeOK
  <2>2. dirty' \in Versions  BY <1>2, <2>1, MergeType DEF Observe, TypeOK
  <2>3. enqueued' \in Versions
    <3>1. enqueued' = enqueued \/ enqueued' = [enqueued EXCEPT ![a] = v]  BY <1>2 DEF Observe
    <3> HIDE DEF a, v
    <3> QED  BY <2>1, <3>1 DEF TypeOK, Versions
  <2>4. held' \in [Worker -> [account : Account \cup {0}, version : 0..MaxVersion]]
    BY <1>2 DEF Observe, TypeOK, Nothing
  <2>5. /\ worker' \in [Worker -> {"idle", "notifying", "flushing", "flushed"}]
        /\ \A x \in Worker : worker'[x] = "notifying" => held'[x].account \in Account
    BY <1>2 DEF Observe, TypeOK
  <2> QED  BY <1>2, <2>2, <2>3, <2>4, <2>5 DEF Observe, TypeOK
<1>3. ASSUME NEW w \in Worker, CallFlush(w) PROVE TypeOK'
  <2>1. owed' \in [Worker -> Versions]  BY <1>3 DEF CallFlush, TypeOK
  <2>2. /\ worker' \in [Worker -> {"idle", "notifying", "flushing", "flushed"}]
        /\ \A x \in Worker : worker'[x] = "notifying" => worker[x] = "notifying"
    BY <1>3 DEF CallFlush, TypeOK
  <2> QED  BY <1>3, <2>1, <2>2 DEF CallFlush, TypeOK
<1>4. ASSUME NEW w \in Worker, FlushGivesUp(w) \/ FlushReturns(w) PROVE TypeOK'
  <2>1. owed' \in [Worker -> Versions]
    BY <1>4, BlankType DEF FlushGivesUp, FlushReturns, TypeOK
  <2>2. /\ worker' \in [Worker -> {"idle", "notifying", "flushing", "flushed"}]
        /\ \A x \in Worker : worker'[x] = "notifying" => worker[x] = "notifying"
    BY <1>4 DEF FlushGivesUp, FlushReturns, TypeOK
  <2> QED  BY <1>4, <2>1, <2>2 DEF FlushGivesUp, FlushReturns, TypeOK
<1>5. CASE FireFlushes
  <2>1. worker' \in [Worker -> {"idle", "notifying", "flushing", "flushed"}]
    BY <1>5 DEF FireFlushes, TypeOK
  <2>2. \A x \in Worker : worker'[x] = "notifying" => worker[x] = "notifying"
    BY <1>5 DEF FireFlushes, TypeOK
  <2> QED  BY <1>5, <2>1, <2>2 DEF FireFlushes, TypeOK
<1>6. CASE Exit \/ Retry \/ Abandon
  BY <1>6 DEF Exit, Retry, Abandon, TypeOK, Writing
<1>7. ASSUME NEW a \in Account, Take(a) PROVE TypeOK'
  <2>1. dirty' \in Versions  BY <1>7 DEF Take, TypeOK, Versions
  <2>2. CASE dirty[a] <= persisted[a]  BY <1>7, <2>1, <2>2 DEF Take, TypeOK
  <2>3. CASE ~(dirty[a] <= persisted[a])
    <3>1. /\ hand' \in [account : Account \cup {0}, version : 0..MaxVersion]
          /\ hand'.account \in Account /\ drainer' = "status"
      BY <1>7, <2>3 DEF Take, TypeOK, Versions
    <3> QED  BY <1>7, <2>1, <3>1 DEF Take, TypeOK, Writing
  <2> QED  BY <2>2, <2>3
<1>8. CASE WriteStatus
  <2>1. hand.account \in Account /\ base + hand.version \in Nat
    BY <1>8 DEF WriteStatus, TypeOK, Writing
  <2> QED  BY <1>8, <2>1 DEF WriteStatus, TypeOK, Writing
<1>9. CASE WriteRows
  <2>1. hand.account \in Account /\ base + hand.version \in Nat
    BY <1>9 DEF WriteRows, TypeOK, Writing
  <2> QED  BY <1>9, <2>1 DEF WriteRows, TypeOK, Writing
<1>10. CASE WriteFails
  BY <1>10 DEF WriteFails, TypeOK, Writing
<1>11. CASE Saved
  <2>1. persisted' \in Versions  BY <1>11 DEF Saved, TypeOK, Versions, Writing
  <2> QED  BY <1>11, <2>1 DEF Saved, TypeOK, Writing, Nothing
<1>12. CASE PutBack
  <2>1. dirty' \in Versions  BY <1>12, MergeType DEF PutBack, TypeOK, Writing
  <2> QED  BY <1>12, <2>1 DEF PutBack, TypeOK, Writing, Nothing
<1>13. CASE Close
  BY <1>13 DEF Close, TypeOK
<1>14. CASE Restart
  <2>1. held' \in [Worker -> [account : Account \cup {0}, version : 0..MaxVersion]]
    BY <1>14, BlankType DEF Restart
  <2>2. owed' \in [Worker -> Versions]  BY <1>14, BlankType DEF Restart
  <2>3. base' \in Nat /\ restarts' \in 0..MaxRestarts  BY <1>14 DEF Restart, TypeOK
  <2>4. /\ worker' \in [Worker -> {"idle", "notifying", "flushing", "flushed"}]
        /\ \A w \in Worker : worker'[w] # "notifying"
    BY <1>14 DEF Restart
  <2>5. drainer' = "scan" /\ drainer' \notin Writing  BY <1>14 DEF Restart, Writing
  <2>6. /\ version' \in Versions /\ dirty' \in Versions /\ persisted' \in Versions
        /\ enqueued' \in Versions
        /\ hand' \in [account : Account \cup {0}, version : 0..MaxVersion]
    BY <1>14, BlankType DEF Restart
  <2>7. UNCHANGED <<statusDisk, coolDisk, latest>>  BY <1>14 DEF Restart
  <2>8. counter' \in 0..MaxVersion /\ failure' \in {"none", "write"}
    BY <1>14 DEF Restart
  <2>9. closed' \in BOOLEAN  BY <1>14 DEF Restart
  <2> QED  BY <2>1, <2>2, <2>3, <2>4, <2>5, <2>6, <2>7, <2>8, <2>9 DEF TypeOK
<1>15. CASE UNCHANGED vars
  BY <1>15 DEF vars, TypeOK
<1> QED
  BY <1>1, <1>2, <1>3, <1>4, <1>5, <1>6, <1>7, <1>8, <1>9, <1>10, <1>11, <1>12, <1>13,
     <1>14, <1>15 DEF Next, Drain, Work

\* Every variable of the persistence path stays in its domain.
THEOREM TypeCorrect == Spec => []TypeOK
BY InitType, NextType, PTL DEF Spec

-----------------------------------------------------------------------------
(* The strengthening *)

\* Nothing is in flight in the initial state.
LEMMA InitParts == Init => Parts
BY PersistenceAssumption
   DEF Init, Parts, StampsReal, SnapshotsReal, HandIsNewer, RowsBounded, StatusBounded,
       InHand, Writing, Blank, PersistenceAssumption

\* A pool mutation: the newest version and the latest stamp move together.
LEMMA MutateParts ==
  ASSUME TypeOK, Parts, NEW w \in Worker, NEW a \in Account, Mutate(w, a)
  PROVE  Parts'
<1>1. UNCHANGED <<dirty, persisted, drainer, hand, statusDisk, coolDisk, base>>
  BY DEF Mutate, diskVars, lifeVars
<1>2. /\ counter' = counter + 1
      /\ version' = [version EXCEPT ![a] = counter + 1]
      /\ latest' = [latest EXCEPT ![a] = base + counter + 1]
      /\ held' = [held EXCEPT ![w] = [account |-> a, version |-> counter + 1]]
      /\ worker' = [worker EXCEPT ![w] = "notifying"]
  BY DEF Mutate
<1>3. counter \in Nat /\ base \in Nat /\ \A b \in Account : version[b] \in Nat
  BY DEF TypeOK, Versions
<1>4. StampsReal'
  <2>1. version'[a] = counter + 1 /\ latest'[a] = base + counter + 1
    BY <1>2 DEF TypeOK, Versions
  <2>2. \A b \in Account \ {a} : version'[b] = version[b] /\ latest'[b] = latest[b]
    BY <1>2 DEF TypeOK, Versions
  <2> QED  BY <1>1, <1>2, <1>3, <2>1, <2>2 DEF Parts, StampsReal
<1>5. \A b \in Account : version[b] <= version'[b]
  BY <1>2, <1>3 DEF TypeOK, Versions, Parts, StampsReal
<1>6. SnapshotsReal'
  <2>1. \A x \in Worker : worker'[x] = "notifying" =>
          held'[x].version <= version'[held'[x].account]
    <3> SUFFICES ASSUME NEW x \in Worker, worker'[x] = "notifying"
                 PROVE  held'[x].version <= version'[held'[x].account]
      OBVIOUS
    <3>1. CASE x = w  BY <1>2, <1>3, <3>1 DEF TypeOK, Versions
    <3>2. CASE x # w
      <4>1. worker[x] = "notifying" /\ held'[x] = held[x]  BY <1>2, <3>2 DEF TypeOK
      <4>2. held[x].account \in Account /\ held[x].version \in Nat  BY <4>1 DEF TypeOK
      <4>3. held[x].version <= version[held[x].account]
        BY <4>1 DEF Parts, SnapshotsReal
      <4> QED  BY <1>2, <1>3, <1>5, <4>1, <4>2, <4>3 DEF TypeOK, Versions
    <3> QED  BY <3>1, <3>2
  <2>2. \A b \in Account : dirty'[b] <= version'[b] /\ persisted'[b] <= version'[b]
    <3>1. \A b \in Account : dirty[b] \in Nat /\ persisted[b] \in Nat /\ version'[b] \in Nat
      BY <1>2, <1>3 DEF TypeOK, Versions
    <3> QED  BY <1>1, <1>3, <1>5, <3>1 DEF Parts, SnapshotsReal
  <2>3. drainer' \in Writing => hand'.version <= version'[hand'.account]
    <3>1. drainer \in Writing => hand.account \in Account /\ hand.version \in Nat
      BY DEF TypeOK
    <3>2. \A b \in Account : version'[b] \in Nat  BY <1>2, <1>3 DEF TypeOK, Versions
    <3> QED  BY <1>1, <1>3, <1>5, <3>1, <3>2 DEF Parts, SnapshotsReal
  <2> QED  BY <2>1, <2>2, <2>3 DEF SnapshotsReal
<1>7. HandIsNewer' /\ RowsBounded' /\ StatusBounded'
  BY <1>1 DEF Parts, HandIsNewer, RowsBounded, StatusBounded, InHand
<1> QED  BY <1>4, <1>6, <1>7 DEF Parts

\* The dirty set only ever gains real versions, and never loses ground.
LEMMA MergeKeeps ==
  ASSUME TypeOK, NEW a \in Account, NEW v \in 0..MaxVersion
  PROVE  /\ Merge(a, v)[a] >= dirty[a] /\ Merge(a, v)[a] >= v
         /\ Merge(a, v)[a] \in {dirty[a], v}
         /\ \A b \in Account \ {a} : Merge(a, v)[b] = dirty[b]
<1>1. dirty[a] \in Nat  BY DEF TypeOK, Versions
<1>2. v \in Nat  BY PersistenceAssumption DEF PersistenceAssumption
<1> QED  BY <1>1, <1>2 DEF Merge, TypeOK, Versions

\* A notification arrives.
LEMMA ObserveParts ==
  ASSUME TypeOK, Parts, NEW w \in Worker, Observe(w)
  PROVE  Parts'
<1>0. PICK a \in Account, v \in 0..MaxVersion : a = held[w].account /\ v = held[w].version
  BY DEF Observe, TypeOK
<1>1. UNCHANGED <<counter, version, persisted, drainer, hand, statusDisk, coolDisk, base, latest>>
  BY DEF Observe, diskVars, lifeVars
<1>2. v <= version[a]  BY <1>0 DEF Observe, Parts, SnapshotsReal
<1>3. dirty' = dirty \/ dirty' = Merge(a, v)  BY <1>0 DEF Observe
<1>4. \A b \in Account : dirty[b] \in Nat /\ version[b] \in Nat /\ statusDisk[b] \in Nat
  BY DEF TypeOK, Versions
<1>5. v \in Nat /\ base \in Nat
  BY PersistenceAssumption DEF PersistenceAssumption, TypeOK
<1>6. \A b \in Account : dirty'[b] >= dirty[b] /\ dirty'[b] \in Nat /\ dirty'[b] <= version[b]
  BY <1>2, <1>3, <1>4, <1>5, MergeKeeps DEF Parts, SnapshotsReal
<1>7. StampsReal'  BY <1>1 DEF Parts, StampsReal
<1>8. SnapshotsReal'
  <2>1. \A x \in Worker : worker'[x] = "notifying" =>
          worker[x] = "notifying" /\ held'[x] = held[x]
    BY DEF Observe, TypeOK
  <2> QED  BY <1>1, <1>6, <2>1 DEF Parts, SnapshotsReal
<1>9. HandIsNewer' /\ RowsBounded'  BY <1>1 DEF Parts, HandIsNewer, RowsBounded
<1>10. StatusBounded'
  <2> SUFFICES ASSUME NEW b \in Account, ~InHand(b)
               PROVE  \/ statusDisk[b] <= base + persisted[b]
                      \/ dirty'[b] > 0 /\ statusDisk[b] <= base + dirty'[b]
    BY <1>1 DEF Parts, StatusBounded, InHand
  <2>1. \/ statusDisk[b] <= base + persisted[b]
        \/ dirty[b] > 0 /\ statusDisk[b] <= base + dirty[b]
    BY DEF Parts, StatusBounded
  <2> QED  BY <1>4, <1>5, <1>6, <2>1
<1> QED  BY <1>7, <1>8, <1>9, <1>10 DEF Parts

\* A snapshot leaves the dirty set: into the drainer's hand, or for good when
\* the file already holds it or a newer one.
LEMMA TakeParts ==
  ASSUME TypeOK, Parts, NEW a \in Account, Take(a)
  PROVE  Parts'
<1>1. /\ UNCHANGED <<counter, version, held, worker, persisted, statusDisk, coolDisk, base, latest>>
      /\ drainer = "scan" /\ dirty[a] > 0
      /\ dirty' = [dirty EXCEPT ![a] = 0]
  BY DEF Take, IsNextDirty, poolVars, diskVars, lifeVars, historyVars
<1>2. dirty'[a] = 0 /\ \A b \in Account \ {a} : dirty'[b] = dirty[b]
  BY <1>1 DEF TypeOK, Versions
<1>3. \A b \in Account : /\ dirty[b] \in Nat /\ version[b] \in Nat /\ persisted[b] \in Nat
                        /\ statusDisk[b] \in Nat
  BY DEF TypeOK, Versions
<1>4. base \in Nat  BY DEF TypeOK
<1>5. \A b \in Account : ~InHand(b)  BY <1>1 DEF InHand, Writing
<1>6. \A b \in Account : coolDisk[b] <= base + persisted[b]
  BY <1>1 DEF Parts, RowsBounded
<1>7. StampsReal'  BY <1>1 DEF Parts, StampsReal
<1>8. RowsBounded'  BY <1>1, <1>6 DEF RowsBounded
<1>9. CASE dirty[a] <= persisted[a]
  <2>1. drainer' = drainer /\ hand' = hand  BY <1>9 DEF Take
  <2>2. SnapshotsReal'  BY <1>1, <1>2, <1>3, <2>1 DEF Parts, SnapshotsReal
  <2>3. HandIsNewer'  BY <1>1, <2>1 DEF Parts, HandIsNewer
  <2>4. StatusBounded'
    <3> SUFFICES ASSUME NEW b \in Account
                 PROVE  \/ statusDisk[b] <= base + persisted[b]
                        \/ dirty'[b] > 0 /\ statusDisk[b] <= base + dirty'[b]
      BY <1>1, <1>5, <2>1 DEF StatusBounded, InHand
    <3>1. \/ statusDisk[b] <= base + persisted[b]
          \/ dirty[b] > 0 /\ statusDisk[b] <= base + dirty[b]
      BY <1>5 DEF Parts, StatusBounded
    <3> QED  BY <1>2, <1>3, <1>4, <1>9, <3>1
  <2> QED  BY <1>7, <1>8, <2>2, <2>3, <2>4 DEF Parts
<1>10. CASE dirty[a] > persisted[a]
  <2>1. drainer' = "status" /\ hand'.account = a /\ hand'.version = dirty[a]
    BY <1>3, <1>10 DEF Take
  <2>2. SnapshotsReal'  BY <1>1, <1>2, <1>3, <2>1 DEF Parts, SnapshotsReal
  <2>3. HandIsNewer'  BY <1>1, <1>10, <2>1 DEF HandIsNewer
  <2>4. StatusBounded'
    <3> SUFFICES ASSUME NEW b \in Account
                 PROVE  IF b = a THEN statusDisk[b] <= base + dirty[a]
                        ELSE \/ statusDisk[b] <= base + persisted[b]
                             \/ dirty'[b] > 0 /\ statusDisk[b] <= base + dirty'[b]
      BY <1>1, <2>1 DEF StatusBounded, InHand, Writing
    <3>1. \/ statusDisk[b] <= base + persisted[b]
          \/ dirty[b] > 0 /\ statusDisk[b] <= base + dirty[b]
      BY <1>5 DEF Parts, StatusBounded
    <3> QED  BY <1>2, <1>3, <1>4, <1>10, <3>1
  <2> QED  BY <1>7, <1>8, <2>2, <2>3, <2>4 DEF Parts
<1> QED  BY <1>3, <1>9, <1>10

\* RecordPoolState: the status row takes the version in hand.
LEMMA WriteStatusParts ==
  ASSUME TypeOK, Parts, WriteStatus
  PROVE  Parts'
<1>0. PICK a \in Account : a = hand.account  BY DEF WriteStatus, TypeOK, Writing
<1>1. /\ UNCHANGED <<counter, version, held, worker, dirty, persisted, hand, coolDisk, base, latest>>
      /\ drainer = "status" /\ drainer' = "rows"
      /\ statusDisk' = [statusDisk EXCEPT ![a] = base + hand.version]
  BY <1>0 DEF WriteStatus, poolVars, lifeVars, historyVars
<1>2. StampsReal' /\ SnapshotsReal' /\ HandIsNewer' /\ RowsBounded'
  BY <1>1 DEF Parts, StampsReal, SnapshotsReal, HandIsNewer, RowsBounded, Writing
<1>3. StatusBounded'
  <2>1. statusDisk'[a] = base + hand.version /\ \A b \in Account \ {a} : statusDisk'[b] = statusDisk[b]
    BY <1>1 DEF TypeOK
  <2>2. base + hand.version \in Nat  BY DEF TypeOK
  <2> QED  BY <1>0, <1>1, <2>1, <2>2 DEF Parts, StatusBounded, InHand, Writing
<1> QED  BY <1>2, <1>3 DEF Parts

\* SaveCooldowns: the rows take the version in hand.
LEMMA WriteRowsParts ==
  ASSUME TypeOK, Parts, WriteRows
  PROVE  Parts'
<1>0. PICK a \in Account : a = hand.account  BY DEF WriteRows, TypeOK, Writing
<1>1. /\ UNCHANGED <<counter, version, held, worker, dirty, persisted, hand, statusDisk, base, latest>>
      /\ drainer = "rows" /\ drainer' = "saved"
      /\ coolDisk' = [coolDisk EXCEPT ![a] = base + hand.version]
  BY <1>0 DEF WriteRows, poolVars, lifeVars, historyVars
<1>2. StampsReal' /\ SnapshotsReal' /\ HandIsNewer' /\ StatusBounded'
  BY <1>1 DEF Parts, StampsReal, SnapshotsReal, HandIsNewer, StatusBounded, InHand, Writing
<1>3. RowsBounded'
  <2>1. coolDisk'[a] = base + hand.version /\ \A b \in Account \ {a} : coolDisk'[b] = coolDisk[b]
    BY <1>1 DEF TypeOK
  <2> QED  BY <1>0, <1>1, <2>1 DEF Parts, RowsBounded
<1> QED  BY <1>2, <1>3 DEF Parts

\* A write fails: nothing moves but the drainer, which still holds its snapshot.
LEMMA WriteFailsParts ==
  ASSUME TypeOK, Parts, WriteFails
  PROVE  Parts'
<1>1. /\ UNCHANGED <<counter, version, held, worker, dirty, persisted, hand, statusDisk,
                     coolDisk, base, latest>>
      /\ drainer \in {"status", "rows"} /\ drainer' = "failed"
  BY DEF WriteFails, poolVars, diskVars, lifeVars
<1> QED
  BY <1>1 DEF Parts, StampsReal, SnapshotsReal, HandIsNewer, RowsBounded, StatusBounded,
              InHand, Writing

\* A completed write: the version in hand becomes the persisted one.
LEMMA SavedParts ==
  ASSUME TypeOK, Parts, Saved
  PROVE  Parts'
<1>0. PICK a \in Account : a = hand.account  BY DEF Saved, TypeOK, Writing
<1>1. /\ UNCHANGED <<counter, version, held, worker, dirty, statusDisk, coolDisk, base, latest>>
      /\ drainer = "saved" /\ drainer' = "scan"
  BY DEF Saved, poolVars, diskVars, lifeVars
<1>2. hand.version > persisted[a] /\ hand.version <= version[a]
  BY <1>0, <1>1 DEF Parts, HandIsNewer, SnapshotsReal, Writing
<1>3. \A b \in Account : persisted[b] \in Nat
  BY DEF TypeOK, Versions
<1>4. persisted' = [persisted EXCEPT ![a] = hand.version]
  BY <1>0, <1>2, <1>3 DEF Saved, TypeOK
<1>5. persisted'[a] = hand.version /\ \A b \in Account \ {a} : persisted'[b] = persisted[b]
  BY <1>4 DEF TypeOK, Versions
<1>6. StampsReal' /\ HandIsNewer'  BY <1>1 DEF Parts, StampsReal, HandIsNewer, Writing
<1>7. SnapshotsReal'  BY <1>1, <1>2, <1>5 DEF Parts, SnapshotsReal, Writing
<1>8. RowsBounded'
  <2> SUFFICES ASSUME NEW b \in Account PROVE coolDisk[b] <= base + persisted'[b]
    BY <1>1 DEF RowsBounded
  <2>1. \/ coolDisk[b] <= base + persisted[b]
        \/ b = a /\ coolDisk[b] = base + hand.version
    BY <1>0 DEF Parts, RowsBounded
  <2>2. base \in Nat /\ coolDisk[b] \in Nat /\ hand.version \in Nat  BY DEF TypeOK
  <2> QED  BY <1>2, <1>3, <1>5, <2>1, <2>2
<1>9. StatusBounded'
  <2> SUFFICES ASSUME NEW b \in Account
               PROVE  \/ statusDisk[b] <= base + persisted'[b]
                      \/ dirty[b] > 0 /\ statusDisk[b] <= base + dirty[b]
    BY <1>1 DEF StatusBounded, InHand, Writing
  <2> QED  BY <1>0, <1>1, <1>5 DEF Parts, StatusBounded, InHand, Writing
<1> QED  BY <1>6, <1>7, <1>8, <1>9 DEF Parts

\* A failed snapshot goes back to the dirty set, where it or a newer one stays.
LEMMA PutBackParts ==
  ASSUME TypeOK, Parts, PutBack
  PROVE  Parts'
<1>0. PICK a \in Account, v \in 0..MaxVersion : a = hand.account /\ v = hand.version
  BY DEF PutBack, TypeOK, Writing
<1>1. /\ UNCHANGED <<counter, version, held, worker, persisted, statusDisk, coolDisk, base, latest>>
      /\ drainer = "failed" /\ drainer' = "backoff"
      /\ dirty' = Merge(a, v)
  BY <1>0 DEF PutBack, poolVars, diskVars, lifeVars, historyVars
<1>2. v > persisted[a] /\ v <= version[a]
  BY <1>0, <1>1 DEF Parts, HandIsNewer, SnapshotsReal, Writing
<1>3. \A b \in Account : /\ dirty[b] \in Nat /\ version[b] \in Nat /\ persisted[b] \in Nat
                        /\ statusDisk[b] \in Nat
  BY DEF TypeOK, Versions
<1>4. v \in Nat /\ base \in Nat
  BY PersistenceAssumption DEF PersistenceAssumption, TypeOK
<1>5. /\ dirty'[a] >= v /\ dirty'[a] \in {dirty[a], v}
      /\ \A b \in Account \ {a} : dirty'[b] = dirty[b]
  BY <1>1, MergeKeeps
<1>6. StampsReal' /\ HandIsNewer'  BY <1>1 DEF Parts, StampsReal, HandIsNewer, Writing
<1>7. RowsBounded'  BY <1>1 DEF Parts, RowsBounded
<1>8. SnapshotsReal'  BY <1>1, <1>2, <1>3, <1>5 DEF Parts, SnapshotsReal, Writing
<1>9. StatusBounded'
  <2> SUFFICES ASSUME NEW b \in Account
               PROVE  \/ statusDisk[b] <= base + persisted[b]
                      \/ dirty'[b] > 0 /\ statusDisk[b] <= base + dirty'[b]
    BY <1>1 DEF StatusBounded, InHand, Writing
  <2>1. CASE b = a
    <3>1. statusDisk[a] <= base + v
      BY <1>0, <1>1 DEF Parts, StatusBounded, InHand, Writing
    <3> QED  BY <1>2, <1>3, <1>4, <1>5, <2>1, <3>1
  <2>2. CASE b # a
    BY <1>0, <1>5, <2>2 DEF Parts, StatusBounded, InHand
  <2> QED  BY <2>1, <2>2
<1> QED  BY <1>6, <1>7, <1>8, <1>9 DEF Parts

\* Steps that touch neither the pool, nor the dirty set, nor the file.
LEMMA BystanderParts ==
  ASSUME Parts,
         UNCHANGED <<counter, version, held, dirty, persisted, hand, statusDisk, coolDisk,
                     base, latest>>,
         \A w \in Worker : worker'[w] = "notifying" => worker[w] = "notifying",
         drainer' = drainer \/ (drainer \notin Writing /\ drainer' \notin Writing)
  PROVE  Parts'
<1>1. drainer' = "saved" => drainer = "saved"  BY DEF Writing
<1> QED
  BY <1>1 DEF Parts, StampsReal, SnapshotsReal, HandIsNewer, RowsBounded, StatusBounded,
              InHand, Writing

\* A crash: nothing is in flight, and every stamp is one of an earlier life.
LEMMA RestartParts ==
  ASSUME TypeOK, Parts, Restart
  PROVE  Parts'
<1>1. /\ UNCHANGED <<statusDisk, coolDisk, latest>>
      /\ base' = base + counter /\ counter' = 0
      /\ \A a \in Account : version'[a] = 0 /\ dirty'[a] = 0 /\ persisted'[a] = 0
      /\ drainer' \notin Writing
      /\ \A w \in Worker : worker'[w] # "notifying"
  BY DEF Restart, Blank, Writing, diskVars
<1>2. /\ counter \in Nat /\ base \in Nat
      /\ \A a \in Account : /\ version[a] \in Nat /\ persisted[a] \in Nat /\ dirty[a] \in Nat
                            /\ coolDisk[a] \in Nat /\ statusDisk[a] \in Nat
                            /\ latest[a] \in Nat
      /\ hand.version \in Nat
  BY DEF TypeOK, Versions
<1>3. \A a \in Account : version[a] <= counter /\ dirty[a] <= counter /\ persisted[a] <= counter
  BY <1>2 DEF Parts, StampsReal, SnapshotsReal
<1>4. drainer \in Writing => hand.version <= counter
  <2>1. drainer \in Writing => hand.account \in Account  BY DEF TypeOK
  <2> QED  BY <1>2, <1>3, <2>1 DEF Parts, SnapshotsReal
<1>5. StampsReal'
  <2>1. \A a \in Account : latest[a] <= base + counter
    BY <1>2, <1>3 DEF Parts, StampsReal
  <2> QED  BY <1>1, <1>2, <2>1 DEF StampsReal
<1>6. SnapshotsReal' /\ HandIsNewer'  BY <1>1 DEF SnapshotsReal, HandIsNewer
<1>7. RowsBounded'
  <2>1. \A a \in Account : coolDisk[a] <= base + counter
    BY <1>2, <1>3, <1>4 DEF Parts, RowsBounded, Writing
  <2> QED  BY <1>1, <1>2, <2>1 DEF RowsBounded
<1>8. StatusBounded'
  <2>1. \A a \in Account : statusDisk[a] <= base + counter
    BY <1>2, <1>3, <1>4 DEF Parts, StatusBounded, InHand
  <2> QED  BY <1>1, <1>2, <2>1 DEF StatusBounded, InHand
<1> QED  BY <1>5, <1>6, <1>7, <1>8 DEF Parts

\* The strengthening is inductive.
LEMMA NextParts == TypeOK /\ Parts /\ [Next]_vars => Parts'
<1> SUFFICES ASSUME TypeOK, Parts, [Next]_vars PROVE Parts'  OBVIOUS
<1>1. ASSUME NEW w \in Worker, Work(w) PROVE Parts'
  <2>1. ASSUME CallFlush(w) \/ FlushGivesUp(w) \/ FlushReturns(w) PROVE Parts'
    <3>1. UNCHANGED <<counter, version, held, dirty, persisted, hand, statusDisk, coolDisk,
                      base, latest, drainer>>
      BY <2>1 DEF CallFlush, FlushGivesUp, FlushReturns, poolVars, diskVars, lifeVars
    <3>2. \A x \in Worker : worker'[x] = "notifying" => worker[x] = "notifying"
      BY <2>1 DEF CallFlush, FlushGivesUp, FlushReturns, TypeOK
    <3> QED  BY <3>1, <3>2, BystanderParts
  <2> QED  BY <1>1, <2>1, MutateParts, ObserveParts DEF Work
<1>2. ASSUME FireFlushes \/ Exit \/ Retry \/ Abandon \/ Close \/ UNCHANGED vars PROVE Parts'
  <2>1. UNCHANGED <<counter, version, held, dirty, persisted, hand, statusDisk, coolDisk,
                    base, latest>>
    BY <1>2 DEF FireFlushes, Exit, Retry, Abandon, Close, vars, poolVars, diskVars, lifeVars,
                historyVars
  <2>2. \A x \in Worker : worker'[x] = "notifying" => worker[x] = "notifying"
    BY <1>2 DEF FireFlushes, Exit, Retry, Abandon, Close, vars
  <2>3. drainer' = drainer \/ (drainer \notin Writing /\ drainer' \notin Writing)
    BY <1>2 DEF FireFlushes, Exit, Retry, Abandon, Close, vars, Writing
  <2> QED  BY <2>1, <2>2, <2>3, BystanderParts
<1> QED
  BY <1>1, <1>2, TakeParts, WriteStatusParts, WriteRowsParts, WriteFailsParts, SavedParts,
     PutBackParts, RestartParts DEF Next, Drain

-----------------------------------------------------------------------------
(* The refinement *)

\* What is in the drainer's hand is a state its account really had.
LEMMA HandIsReal ==
  ASSUME TypeOK, Parts, drainer \in Writing, NEW a \in Account, a = hand.account
  PROVE  /\ hand.version \in Nat /\ base + hand.version \in Nat
         /\ base + hand.version <= latest[a]
         /\ base + persisted[a] < base + hand.version
<1>1. hand.version <= version[a] /\ persisted[a] < hand.version
  BY DEF Parts, SnapshotsReal, HandIsNewer
<1>2. /\ base \in Nat /\ hand.version \in Nat /\ version[a] \in Nat /\ persisted[a] \in Nat
      /\ latest[a] \in Nat
  BY DEF TypeOK, Versions
<1>3. latest[a] = base + version[a]  BY <1>1, <1>2 DEF Parts, StampsReal
<1> QED  BY <1>1, <1>2, <1>3

\* A pool mutation is a Change of either table's specification, which both say
\* only of the stamps in memory.
LEMMA MutateChanges ==
  ASSUME TypeOK, Parts, NEW w \in Worker, NEW a \in Account, Mutate(w, a)
  PROVE  /\ latest'[a] \in Nat /\ latest'[a] > latest[a]
         /\ latest' = [latest EXCEPT ![a] = latest'[a]]
         /\ UNCHANGED <<coolDisk, statusDisk>>
<1>1. latest' = [latest EXCEPT ![a] = base + counter + 1] /\ UNCHANGED <<coolDisk, statusDisk>>
  BY DEF Mutate, diskVars
<1>2. latest'[a] = base + counter + 1  BY <1>1 DEF TypeOK
<1>3. /\ base \in Nat /\ counter \in Nat /\ version[a] \in Nat /\ latest[a] \in Nat
  BY DEF TypeOK, Versions
<1>4. latest[a] <= base + counter  BY <1>3 DEF Parts, StampsReal
<1>5. latest'[a] \in Nat /\ latest'[a] > latest[a]  BY <1>2, <1>3, <1>4
<1>6. latest' = [latest EXCEPT ![a] = latest'[a]]  BY <1>1, <1>2, Zenon
<1> QED  BY <1>1, <1>5, <1>6

\* Every other step leaves the stamps in memory alone, and only the two
\* statements of a write touch the tables.
LEMMA OthersStutter ==
  ASSUME [Next]_vars
  PROVE  \/ \E w \in Worker, a \in Account : Mutate(w, a)
         \/ WriteStatus \/ WriteRows
         \/ UNCHANGED <<latest, coolDisk, statusDisk>>
<1>1. ASSUME NEW a \in Account, Take(a) PROVE UNCHANGED <<latest, coolDisk, statusDisk>>
  BY <1>1 DEF Take, diskVars, historyVars
<1>2. ASSUME NEW w \in Worker, Observe(w) \/ CallFlush(w) \/ FlushGivesUp(w) \/ FlushReturns(w)
      PROVE  UNCHANGED <<latest, coolDisk, statusDisk>>
  BY <1>2 DEF Observe, CallFlush, FlushGivesUp, FlushReturns, diskVars
<1>3. ASSUME \/ FireFlushes \/ Exit \/ WriteFails \/ Saved \/ PutBack \/ Retry \/ Abandon
             \/ Close \/ Restart \/ UNCHANGED vars
      PROVE  UNCHANGED <<latest, coolDisk, statusDisk>>
  BY <1>3 DEF FireFlushes, Exit, WriteFails, Saved, PutBack, Retry, Abandon, Close, Restart,
              vars, diskVars, historyVars
<1> QED  BY <1>1, <1>2, <1>3 DEF Next, Drain, Work

\* The cooldown rows: each step of the manager is a Change, a Save or a stutter.
LEMMA CooldownStep ==
  TypeOK /\ Parts /\ [Next]_vars => [Cooldowns!Next]_<<latest, coolDisk>>
<1> SUFFICES ASSUME TypeOK, Parts, [Next]_vars PROVE [Cooldowns!Next]_<<latest, coolDisk>>
  OBVIOUS
<1>1. ASSUME NEW w \in Worker, NEW a \in Account, Mutate(w, a) PROVE Cooldowns!Change(a)
  BY <1>1, MutateChanges DEF Cooldowns!Change
<1>2. ASSUME WriteRows PROVE \E a \in Account : Cooldowns!Save(a)
  <2>0. PICK a \in Account : a = hand.account  BY <1>2 DEF WriteRows, TypeOK, Writing
  <2>1. /\ drainer \in Writing /\ drainer # "saved" /\ UNCHANGED latest
        /\ coolDisk' = [coolDisk EXCEPT ![a] = base + hand.version]
    BY <1>2, <2>0 DEF WriteRows, Writing, historyVars
  <2>2. coolDisk'[a] = base + hand.version  BY <2>1 DEF TypeOK
  <2>3. coolDisk[a] <= base + persisted[a]  BY <2>1 DEF Parts, RowsBounded
  <2>4. coolDisk[a] \in Nat /\ base + persisted[a] \in Nat  BY DEF TypeOK, Versions
  <2>5. /\ base + hand.version \in Nat /\ base + hand.version <= latest[a]
        /\ base + persisted[a] < base + hand.version
    BY <2>0, <2>1, HandIsReal
  <2>6. coolDisk'[a] \in Nat /\ coolDisk[a] < coolDisk'[a] /\ coolDisk'[a] <= latest[a]
    BY <2>2, <2>3, <2>4, <2>5
  <2>7. coolDisk' = [coolDisk EXCEPT ![a] = coolDisk'[a]]  BY <2>1, <2>2, Zenon
  <2> QED  BY <2>1, <2>6, <2>7 DEF Cooldowns!Save
<1>3. ASSUME WriteStatus PROVE UNCHANGED <<latest, coolDisk>>
  BY <1>3 DEF WriteStatus, historyVars
<1> QED  BY <1>1, <1>2, <1>3, OthersStutter DEF Cooldowns!Next

\* The status rows: the same, except that a retry may write a row again.
LEMMA StatusStep ==
  TypeOK /\ Parts /\ [Next]_vars => [Statuses!Next]_<<latest, statusDisk>>
<1> SUFFICES ASSUME TypeOK, Parts, [Next]_vars PROVE [Statuses!Next]_<<latest, statusDisk>>
  OBVIOUS
<1>1. ASSUME NEW w \in Worker, NEW a \in Account, Mutate(w, a) PROVE Statuses!Change(a)
  BY <1>1, MutateChanges DEF Statuses!Change
<1>2. ASSUME WriteStatus
      PROVE  (\E a \in Account : Statuses!Save(a)) \/ UNCHANGED <<latest, statusDisk>>
  <2>0. PICK a \in Account : a = hand.account  BY <1>2 DEF WriteStatus, TypeOK, Writing
  <2>1. /\ drainer \in Writing /\ UNCHANGED latest
        /\ statusDisk' = [statusDisk EXCEPT ![a] = base + hand.version]
    BY <1>2, <2>0 DEF WriteStatus, Writing, historyVars
  <2>2. statusDisk'[a] = base + hand.version  BY <2>1 DEF TypeOK
  <2>3. statusDisk[a] <= base + hand.version
    BY <2>0, <2>1 DEF Parts, StatusBounded, InHand
  <2>4. statusDisk[a] \in Nat /\ statusDisk \in [Account -> Nat]  BY DEF TypeOK
  <2>5. CASE statusDisk[a] = base + hand.version  BY <2>1, <2>4, <2>5
  <2>6. CASE statusDisk[a] < base + hand.version
    <3>1. Statuses!Save(a)
      BY <2>0, <2>1, <2>2, <2>4, <2>6, HandIsReal DEF Statuses!Save
    <3> QED  BY <3>1
  <2> QED  BY <2>0, <2>1, <2>3, <2>4, <2>5, <2>6, HandIsReal
<1>3. ASSUME WriteRows PROVE UNCHANGED <<latest, statusDisk>>
  BY <1>3 DEF WriteRows, historyVars
<1> QED  BY <1>1, <1>2, <1>3, OthersStutter DEF Statuses!Next

\* The strengthening holds in every reachable state.
LEMMA AlwaysParts == Spec => [](TypeOK /\ Parts)
<1>1. Init => TypeOK /\ Parts  BY InitType, InitParts
<1>2. (TypeOK /\ Parts) /\ [Next]_vars => (TypeOK /\ Parts)'  BY NextType, NextParts
<1> QED  BY <1>1, <1>2, PTL DEF Spec

\* The manager implements DurableState for the account_cooldowns table: however
\* notifications cross, writes fail and the process dies, the rows of an account
\* are those of a state its pool item really had, and never of an older one than
\* before.
THEOREM CooldownsAreDurable == Spec => CooldownsDurable
<1>1. Init => Cooldowns!Init  BY DEF Init, Blank, Cooldowns!Init
<1> QED  BY <1>1, CooldownStep, AlwaysParts, PTL DEF Spec, CooldownsDurable, Cooldowns!Spec

\* The same of the status row, which is written by a statement of its own.
THEOREM StatusesAreDurable == Spec => StatusesDurable
<1>1. Init => Statuses!Init  BY DEF Init, Blank, Statuses!Init
<1> QED  BY <1>1, StatusStep, AlwaysParts, PTL DEF Spec, StatusesDurable, Statuses!Spec

-----------------------------------------------------------------------------
(***************************************************************************)
(* What Flush and Close promise their callers, for any number of accounts, *)
(* goroutines, pool changes, failed writes and restarts.                   *)
(*                                                                         *)
(* The argument follows a version on its way: the pool's latest version is *)
(* accepted or in the hands of whoever made it (Informed); what is         *)
(* accepted is waiting, in the drainer's hand or completed (Covered); what *)
(* is completed is in both tables (Completed, HandWritten).  So an empty   *)
(* dirty set between two writes means that all that was accepted is in the *)
(* file, and that is when a flush is answered and when the drainer leaves. *)
(***************************************************************************)

Informed ==
  ~closed => \A a \in Account :
    \/ version[a] <= enqueued[a]
    \/ \E w \in Worker : /\ worker[w] = "notifying"
                         /\ held[w].account = a /\ held[w].version = version[a]

\* No flush is owed more than was accepted, and nothing is accepted that was not.
Accepted ==
  \A a \in Account : /\ enqueued[a] <= version[a]
                     /\ \A w \in Worker : owed[w][a] <= enqueued[a]

Covered ==
  \A a \in Account :
    \/ enqueued[a] <= persisted[a]
    \/ enqueued[a] <= dirty[a]
    \/ InHand(a) /\ enqueued[a] <= hand.version

Completed ==
  \A a \in Account : persisted[a] > 0 =>
    coolDisk[a] >= base + persisted[a] /\ statusDisk[a] >= base + persisted[a]

HandWritten ==
  /\ drainer \in {"rows", "saved"} => statusDisk[hand.account] >= base + hand.version
  /\ drainer = "saved" => coolDisk[hand.account] >= base + hand.version

Answered ==
  \A w \in Worker : worker[w] = "flushed" => \A a \in Account : owed[w][a] <= persisted[a]

Leaving ==
  /\ drainer \in {"failed", "backoff"} => failure = "write"
  /\ drainer = "exited" =>
       closed /\ (failure = "none" => \A a \in Account : enqueued[a] <= persisted[a])

Promise == Informed /\ Accepted /\ Covered /\ Completed /\ HandWritten /\ Answered /\ Leaving

\* The versions of an account are numbers.
LEMMA Numbers ==
  ASSUME TypeOK
  PROVE  /\ base \in Nat /\ counter \in Nat /\ hand.version \in Nat
         /\ \A a \in Account : /\ version[a] \in Nat /\ enqueued[a] \in Nat
                               /\ dirty[a] \in Nat /\ persisted[a] \in Nat
                               /\ coolDisk[a] \in Nat /\ statusDisk[a] \in Nat
                               /\ \A w \in Worker : owed[w][a] \in Nat
         /\ \A w \in Worker : held[w].version \in Nat
BY DEF TypeOK, Versions

\* A merge keeps or raises what waits, and ends no lower than what is merged.
LEMMA MergeRaises ==
  ASSUME TypeOK, NEW a \in Account, NEW v \in Nat
  PROVE  /\ Merge(a, v)[a] >= v
         /\ \A b \in Account : Merge(a, v)[b] >= dirty[b] /\ Merge(a, v)[b] \in Nat
BY Numbers DEF Merge, TypeOK, Versions

-----------------------------------------------------------------------------
(* The steps of the goroutines *)

\* A pool change is in the hands of the goroutine that made it.
LEMMA MutatePromise ==
  ASSUME TypeOK, Parts, Promise, NEW w \in Worker, NEW a \in Account, Mutate(w, a)
  PROVE  Promise'
<1>1. /\ worker[w] = "idle" /\ worker' = [worker EXCEPT ![w] = "notifying"]
      /\ version' = [version EXCEPT ![a] = counter + 1]
      /\ held' = [held EXCEPT ![w] = [account |-> a, version |-> counter + 1]]
      /\ UNCHANGED <<dirty, persisted, drainer, hand, closed, statusDisk, coolDisk, base,
                     enqueued, owed, failure>>
  BY DEF Mutate, diskVars, lifeVars
<1>2. version[a] <= counter
  BY DEF Parts, StampsReal
<1>3. Informed'
  <2> SUFFICES ASSUME ~closed, NEW b \in Account
               PROVE  \/ version'[b] <= enqueued[b]
                      \/ \E u \in Worker : /\ worker'[u] = "notifying"
                                           /\ held'[u].account = b
                                           /\ held'[u].version = version'[b]
    BY <1>1 DEF Informed
  <2>1. CASE b = a
    <3>1. worker'[w] = "notifying" /\ held'[w].account = a /\ held'[w].version = version'[a]
      BY <1>1 DEF TypeOK, Versions
    <3> QED
      BY <2>1, <3>1
  <2>2. CASE b # a
    <3>1. version'[b] = version[b]
      BY <1>1, <2>2 DEF TypeOK, Versions
    <3>2. \A u \in Worker : worker[u] = "notifying" => worker'[u] = worker[u] /\ held'[u] = held[u]
      BY <1>1 DEF TypeOK
    <3> QED
      BY <3>1, <3>2 DEF Promise, Informed
  <2> QED
    BY <2>1, <2>2
<1>4. Accepted'
  <2>1. \A b \in Account : version'[b] >= version[b]
    BY <1>1, <1>2, Numbers DEF TypeOK, Versions
  <2> QED
    BY <1>1, <1>2, <2>1, Numbers DEF Promise, Accepted, TypeOK, Versions
<1>5. Answered'
  BY <1>1 DEF Promise, Answered, TypeOK
<1>6. Covered' /\ Completed' /\ HandWritten' /\ Leaving'
  BY <1>1 DEF Promise, Covered, InHand, Completed, HandWritten, Leaving
<1> QED
  BY <1>3, <1>4, <1>5, <1>6 DEF Promise

\* The observer accepts a snapshot and makes it wait, unless Close was called.
LEMMA ObservePromise ==
  ASSUME TypeOK, Parts, Promise, NEW w \in Worker, Observe(w)
  PROVE  Promise'
<1> DEFINE a == held[w].account
           v == held[w].version
<1>1. /\ worker[w] = "notifying" /\ worker' = [worker EXCEPT ![w] = "idle"]
      /\ held' = [held EXCEPT ![w] = Nothing]
      /\ dirty' = (IF closed THEN dirty ELSE Merge(a, v))
      /\ enqueued' = (IF closed \/ v <= enqueued[a] THEN enqueued
                      ELSE [enqueued EXCEPT ![a] = v])
      /\ UNCHANGED <<version, persisted, drainer, hand, closed, statusDisk, coolDisk, base,
                     owed, failure>>
  BY DEF Observe, diskVars, lifeVars
<1>2. a \in Account /\ v \in Nat /\ v <= version[a]
  BY <1>1, Numbers DEF TypeOK, Parts, SnapshotsReal
<1>3. /\ \A b \in Account : enqueued'[b] >= enqueued[b] /\ enqueued'[b] \in Nat
      /\ ~closed => enqueued'[a] >= v
      /\ \A b \in Account : enqueued'[b] # enqueued[b] => ~closed /\ b = a /\ enqueued'[b] = v
  BY <1>1, <1>2, Numbers DEF TypeOK, Versions
<1> HIDE DEF a, v
<1>4. Informed'
  <2> SUFFICES ASSUME ~closed, NEW b \in Account
               PROVE  \/ version[b] <= enqueued'[b]
                      \/ \E u \in Worker : /\ worker'[u] = "notifying"
                                           /\ held'[u].account = b
                                           /\ held'[u].version = version[b]
    BY <1>1 DEF Informed
  <2>1. CASE version[b] <= enqueued[b]
    BY <1>3, <2>1, Numbers
  <2>2. ASSUME NEW u \in Worker, worker[u] = "notifying", held[u].account = b,
               held[u].version = version[b]
        PROVE  \/ version[b] <= enqueued'[b]
               \/ worker'[u] = "notifying" /\ held'[u] = held[u]
    <3>1. CASE u = w
      BY <1>3, <2>2, <3>1 DEF a, v
    <3>2. CASE u # w
      BY <1>1, <2>2, <3>2 DEF TypeOK
    <3> QED
      BY <3>1, <3>2
  <2> QED
    BY <2>1, <2>2 DEF Promise, Informed
<1>5. Accepted'
  BY <1>1, <1>2, <1>3, Numbers DEF Promise, Accepted
<1>6. Covered'
  <2> SUFFICES ASSUME NEW b \in Account
               PROVE  \/ enqueued'[b] <= persisted[b]
                      \/ enqueued'[b] <= dirty'[b]
                      \/ InHand(b) /\ enqueued'[b] <= hand.version
    BY <1>1 DEF Covered, InHand
  <2>1. dirty'[b] >= dirty[b] /\ dirty'[b] \in Nat
    BY <1>1, <1>2, MergeRaises, Numbers
  <2>2. CASE enqueued'[b] = enqueued[b]
    BY <2>1, <2>2, Numbers DEF Promise, Covered
  <2>3. CASE enqueued'[b] # enqueued[b]
    BY <1>1, <1>2, <1>3, <2>3, MergeRaises
  <2> QED
    BY <2>2, <2>3
<1>7. Answered'
  BY <1>1 DEF Promise, Answered, TypeOK
<1>8. Leaving'
  BY <1>1 DEF Promise, Leaving
<1>9. Completed' /\ HandWritten'
  BY <1>1 DEF Promise, Completed, HandWritten
<1> QED
  BY <1>4, <1>5, <1>6, <1>7, <1>8, <1>9 DEF Promise

\* A flush is owed what was accepted when it was called, and nothing once it is over.
LEMMA FlushPromise ==
  ASSUME TypeOK, Parts, Promise, NEW w \in Worker,
         CallFlush(w) \/ FlushGivesUp(w) \/ FlushReturns(w)
  PROVE  Promise'
<1>1. /\ worker[w] # "notifying"
      /\ \/ worker' = [worker EXCEPT ![w] = "flushing"] /\ owed' = [owed EXCEPT ![w] = enqueued]
         \/ worker' = [worker EXCEPT ![w] = "idle"] /\ owed' = [owed EXCEPT ![w] = Blank]
      /\ UNCHANGED <<version, held, dirty, persisted, drainer, hand, closed, statusDisk,
                     coolDisk, base, enqueued, failure>>
  BY DEF CallFlush, FlushGivesUp, FlushReturns, poolVars, diskVars, lifeVars
<1>2. \A u \in Worker : worker[u] = "notifying" => worker'[u] = "notifying"
  BY <1>1 DEF TypeOK
<1>3. Informed'
  BY <1>1, <1>2 DEF Promise, Informed
<1>4. Accepted'
  BY <1>1, Numbers DEF Promise, Accepted, TypeOK, Blank
<1>5. Answered'
  BY <1>1 DEF Promise, Answered, TypeOK
<1>6. Covered' /\ Completed' /\ HandWritten' /\ Leaving'
  BY <1>1 DEF Promise, Covered, InHand, Completed, HandWritten, Leaving
<1> QED
  BY <1>3, <1>4, <1>5, <1>6 DEF Promise

-----------------------------------------------------------------------------
(* The steps of the drainer *)

\* With nothing waiting and nothing in hand all that was accepted is completed.
LEMMA EmptyIsCompleted ==
  ASSUME TypeOK, Promise, drainer \notin Writing, dirty = Blank
  PROVE  \A a \in Account : enqueued[a] <= persisted[a]
BY Numbers DEF Promise, Covered, InHand, Blank

\* An empty dirty set answers the flushes, and lets a closed drainer leave.
LEMMA EmptyPromise ==
  ASSUME TypeOK, Parts, Promise, FireFlushes \/ Exit
  PROVE  Promise'
<1>1. \A a \in Account : enqueued[a] <= persisted[a]
  BY EmptyIsCompleted DEF FireFlushes, Exit, Writing
<1>2. CASE FireFlushes
  <2>1. /\ worker' = [w \in Worker |-> IF worker[w] = "flushing" THEN "flushed" ELSE worker[w]]
        /\ UNCHANGED <<version, held, dirty, persisted, drainer, hand, closed, statusDisk,
                       coolDisk, base, enqueued, owed, failure>>
    BY <1>2 DEF FireFlushes, poolVars, diskVars, lifeVars, historyVars
  <2>2. Answered'
    BY <1>1, <2>1, Numbers DEF Promise, Accepted, Answered
  <2>3. Informed'
    BY <2>1 DEF Promise, Informed
  <2> QED
    BY <2>1, <2>2, <2>3
       DEF Promise, Accepted, Covered, InHand, Completed, HandWritten, Leaving
<1>3. CASE Exit
  <2>1. /\ closed /\ drainer = "scan" /\ drainer' = "exited"
        /\ UNCHANGED <<version, held, worker, dirty, persisted, hand, closed, statusDisk,
                       coolDisk, base, enqueued, owed, failure>>
    BY <1>3 DEF Exit, poolVars, diskVars, lifeVars, historyVars
  <2>2. Leaving'
    BY <1>1, <2>1 DEF Leaving
  <2>3. Covered'
    BY <1>1, <2>1 DEF Covered
  <2> QED
    BY <2>1, <2>2, <2>3 DEF Promise, Informed, Accepted, Completed, HandWritten, Answered
<1> QED
  BY <1>2, <1>3

\* What is taken out goes into the hand, or is completed already.
LEMMA TakePromise ==
  ASSUME TypeOK, Parts, Promise, NEW a \in Account, Take(a)
  PROVE  Promise'
<1>1. /\ drainer = "scan" /\ dirty' = [dirty EXCEPT ![a] = 0]
      /\ \/ dirty[a] <= persisted[a] /\ drainer' = drainer /\ hand' = hand
         \/ drainer' = "status" /\ hand' = [account |-> a, version |-> dirty[a]]
      /\ UNCHANGED <<version, held, worker, persisted, closed, statusDisk, coolDisk, base,
                     enqueued, owed, failure>>
  BY DEF Take, poolVars, diskVars, lifeVars, historyVars
<1>2. dirty'[a] = 0 /\ \A b \in Account \ {a} : dirty'[b] = dirty[b]
  BY <1>1 DEF TypeOK, Versions
<1>3. Covered'
  <2> SUFFICES ASSUME NEW b \in Account
               PROVE  \/ enqueued[b] <= persisted[b]
                      \/ enqueued[b] <= dirty'[b]
                      \/ InHand(b)' /\ enqueued[b] <= hand'.version
    BY <1>1 DEF Covered
  <2>1. enqueued[b] <= persisted[b] \/ enqueued[b] <= dirty[b]
    BY <1>1 DEF Promise, Covered, InHand, Writing
  <2>2. CASE b # a
    BY <1>2, <2>1, <2>2
  <2>3. CASE b = a
    <3>1. CASE dirty[a] <= persisted[a]
      BY <2>1, <2>3, <3>1, Numbers
    <3>2. CASE drainer' = "status" /\ hand' = [account |-> a, version |-> dirty[a]]
      BY <2>1, <2>3, <3>2 DEF InHand, Writing
    <3> QED
      BY <1>1, <3>1, <3>2
  <2> QED
    BY <2>2, <2>3
<1>4. HandWritten' /\ Leaving'
  BY <1>1 DEF HandWritten, Leaving
<1> QED
  BY <1>1, <1>3, <1>4 DEF Promise, Informed, Accepted, Completed, Answered

\* The two statements raise both tables to the version in hand.
LEMMA WritePromise ==
  ASSUME TypeOK, Parts, Promise, WriteStatus \/ WriteRows
  PROVE  Promise'
<1>0. PICK a \in Account : a = hand.account
  BY DEF WriteStatus, WriteRows, TypeOK, Writing
<1>1. /\ drainer \in Writing /\ drainer' \in Writing
      /\ drainer' \in {"rows", "saved"}
      /\ UNCHANGED <<version, held, worker, dirty, persisted, hand, closed, base,
                     enqueued, owed, failure>>
  BY DEF WriteStatus, WriteRows, poolVars, lifeVars, historyVars, Writing
<1>2. \/ /\ drainer = "status" /\ drainer' = "rows" /\ coolDisk' = coolDisk
         /\ statusDisk' = [statusDisk EXCEPT ![a] = base + hand.version]
      \/ /\ drainer = "rows" /\ drainer' = "saved" /\ statusDisk' = statusDisk
         /\ coolDisk' = [coolDisk EXCEPT ![a] = base + hand.version]
  BY <1>0 DEF WriteStatus, WriteRows
<1>3. hand.version > persisted[a]
  BY <1>0, <1>1 DEF Parts, HandIsNewer
<1>4. base + hand.version \in Nat /\ base + hand.version > base + persisted[a]
  BY <1>3, Numbers
<1>5. Completed'
  <2> SUFFICES ASSUME NEW b \in Account, persisted[b] > 0
               PROVE  coolDisk'[b] >= base + persisted[b] /\ statusDisk'[b] >= base + persisted[b]
    BY <1>1 DEF Completed
  <2>1. coolDisk[b] >= base + persisted[b] /\ statusDisk[b] >= base + persisted[b]
    BY DEF Promise, Completed
  <2>2. coolDisk'[b] = coolDisk[b] \/ (b = a /\ coolDisk'[b] = base + hand.version)
    BY <1>2 DEF TypeOK
  <2>3. statusDisk'[b] = statusDisk[b] \/ (b = a /\ statusDisk'[b] = base + hand.version)
    BY <1>2 DEF TypeOK
  <2>4. base + persisted[b] \in Nat
    BY Numbers
  <2> QED
    BY <1>4, <2>1, <2>2, <2>3, <2>4
<1>6. HandWritten'
  <2>1. drainer = "status" => statusDisk'[a] = base + hand.version
    BY <1>2 DEF TypeOK
  <2>2. drainer = "rows" => coolDisk'[a] = base + hand.version
    BY <1>2 DEF TypeOK
  <2> QED
    BY <1>0, <1>1, <1>2, <1>4, <2>1, <2>2 DEF Promise, HandWritten
<1>7. Covered' /\ Leaving'
  BY <1>1 DEF Promise, Covered, InHand, Leaving
<1> QED
  BY <1>1, <1>5, <1>6, <1>7 DEF Promise, Informed, Accepted, Answered

\* A completed write: the hand's version is in both tables.
LEMMA SavedPromise ==
  ASSUME TypeOK, Parts, Promise, Saved
  PROVE  Promise'
<1>0. PICK a \in Account : a = hand.account
  BY DEF Saved, TypeOK, Writing
<1>1. /\ drainer = "saved" /\ drainer' = "scan"
      /\ persisted' = (IF persisted[a] < hand.version
                       THEN [persisted EXCEPT ![a] = hand.version] ELSE persisted)
      /\ UNCHANGED <<version, held, worker, dirty, closed, statusDisk, coolDisk, base,
                     enqueued, owed>>
  BY <1>0 DEF Saved, poolVars, diskVars, lifeVars
<1>2. hand.version > persisted[a]
  BY <1>0, <1>1 DEF Parts, HandIsNewer, Writing
<1>3. persisted'[a] = hand.version /\ \A b \in Account \ {a} : persisted'[b] = persisted[b]
  BY <1>1, <1>2, Numbers DEF TypeOK, Versions
<1>4. \A b \in Account : persisted'[b] >= persisted[b] /\ persisted'[b] \in Nat
  BY <1>2, <1>3, Numbers
<1>5. Covered'
  <2>1. \A b \in Account : InHand(b) => b = a
    BY <1>0 DEF InHand
  <2>2. \A b \in Account : enqueued[b] <= persisted'[b] \/ enqueued[b] <= dirty[b]
    BY <1>3, <1>4, <2>1, Numbers DEF Promise, Covered
  <2> QED
    BY <1>1, <2>2 DEF Covered
<1>6. Completed'
  BY <1>0, <1>1, <1>3 DEF Promise, Completed, HandWritten
<1>7. Answered'
  BY <1>1, <1>4, Numbers DEF Promise, Answered
<1>8. HandWritten' /\ Leaving'
  BY <1>1 DEF HandWritten, Leaving
<1> QED
  BY <1>1, <1>5, <1>6, <1>7, <1>8 DEF Promise, Informed, Accepted

\* A failed write puts its snapshot back, or leaves the newer one that waits.
LEMMA FailurePromise ==
  ASSUME TypeOK, Parts, Promise, WriteFails \/ PutBack \/ Retry \/ Abandon
  PROVE  Promise'
<1>1. /\ UNCHANGED <<version, held, worker, persisted, closed, statusDisk, coolDisk, base,
                     enqueued, owed>>
      /\ \/ drainer \in {"status", "rows"} /\ drainer' = "failed" /\ failure' = "write"
            /\ dirty' = dirty /\ hand' = hand
         \/ drainer = "failed" /\ drainer' = "backoff" /\ failure' = failure
            /\ dirty' = Merge(hand.account, hand.version)
         \/ drainer = "backoff" /\ drainer' = "scan" /\ dirty' = dirty
         \/ drainer = "backoff" /\ drainer' = "exited" /\ closed /\ failure' = failure
            /\ dirty' = dirty
  BY DEF WriteFails, PutBack, Retry, Abandon, poolVars, diskVars, lifeVars, historyVars
<1>2. Covered'
  <2>1. CASE drainer' = "failed" /\ drainer \in Writing /\ dirty' = dirty /\ hand' = hand
    BY <1>1, <2>1 DEF Promise, Covered, InHand, Writing
  <2>2. CASE drainer = "failed" /\ dirty' = Merge(hand.account, hand.version)
    <3>1. hand.account \in Account
      BY <2>2 DEF TypeOK, Writing
    <3>2. /\ dirty'[hand.account] >= hand.version
          /\ \A b \in Account : dirty'[b] >= dirty[b] /\ dirty'[b] \in Nat
      BY <2>2, <3>1, MergeRaises, Numbers
    <3>3. \A b \in Account : enqueued[b] <= persisted[b] \/ enqueued[b] <= dirty'[b]
      BY <3>2, Numbers DEF Promise, Covered, InHand
    <3> QED
      BY <1>1, <3>3 DEF Covered
  <2>3. CASE drainer = "backoff" /\ dirty' = dirty
    <3>1. \A b \in Account : enqueued[b] <= persisted[b] \/ enqueued[b] <= dirty[b]
      BY <2>3 DEF Promise, Covered, InHand, Writing
    <3> QED
      BY <1>1, <2>3, <3>1 DEF Covered
  <2> QED
    BY <1>1, <2>1, <2>2, <2>3 DEF Writing
<1>3. Leaving'
  BY <1>1 DEF Promise, Leaving
<1>4. HandWritten'
  BY <1>1 DEF HandWritten
<1> QED
  BY <1>1, <1>2, <1>3, <1>4 DEF Promise, Informed, Accepted, Completed, Answered

-----------------------------------------------------------------------------
(* Close, restarts, and every step *)

\* Close ends what Informed promises; a new process has promised nothing yet.
LEMMA LifePromise ==
  ASSUME TypeOK, Parts, Promise, Close \/ Restart \/ UNCHANGED vars
  PROVE  Promise'
<1>1. CASE Close
  BY <1>1 DEF Close, Promise, Informed, Accepted, Covered, InHand, Completed, HandWritten,
              Answered, Leaving, poolVars, diskVars, lifeVars, historyVars
<1>2. CASE Restart
  <2>1. /\ version' = Blank /\ enqueued' = Blank /\ persisted' = Blank /\ drainer' = "scan"
        /\ owed' = [w \in Worker |-> Blank]
        /\ \A w \in Worker : worker'[w] = "idle"
    BY <1>2 DEF Restart
  <2>2. Informed' /\ Accepted' /\ Covered' /\ Completed'
    BY <2>1 DEF Informed, Accepted, Covered, Completed, Blank
  <2> QED
    BY <2>1, <2>2 DEF Promise, HandWritten, Answered, Leaving
<1>3. CASE UNCHANGED vars
  BY <1>3 DEF vars, Promise, Informed, Accepted, Covered, InHand, Completed, HandWritten,
              Answered, Leaving, poolVars, diskVars, lifeVars, historyVars
<1> QED
  BY <1>1, <1>2, <1>3

\* Nothing is promised when the manager starts.
LEMMA InitPromise == Init => Promise
BY DEF Init, Promise, Informed, Accepted, Covered, Completed, HandWritten, Answered,
       Leaving, Blank

\* Every step keeps every promise.
LEMMA NextPromise == TypeOK /\ Parts /\ Promise /\ [Next]_vars => Promise'
<1> SUFFICES ASSUME TypeOK, Parts, Promise, [Next]_vars PROVE Promise'
  OBVIOUS
<1>1. CASE Drain
  BY <1>1, EmptyPromise, TakePromise, WritePromise, SavedPromise, FailurePromise DEF Drain
<1>2. ASSUME NEW w \in Worker, Work(w) PROVE Promise'
  BY <1>2, MutatePromise, ObservePromise, FlushPromise DEF Work
<1> QED
  BY <1>1, <1>2, LifePromise DEF Next

\* Every promise is kept in every state.
LEMMA AlwaysPromise == Spec => [](TypeOK /\ Parts /\ Promise)
<1>1. Init => TypeOK /\ Parts /\ Promise
  BY InitType, InitParts, InitPromise
<1>2. (TypeOK /\ Parts /\ Promise) /\ [Next]_vars => (TypeOK /\ Parts /\ Promise)'
  BY NextType, NextParts, NextPromise
<1> QED
  BY <1>1, <1>2, PTL DEF Spec

\* Everything enqueued before a flush is in both tables before Flush returns
\* (CooldownPersistence!FlushPersists: flushCooldowns and drainCooldowns).
THEOREM FlushesPersist == Spec => []FlushPersists
<1>1. TypeOK /\ Parts /\ Promise => FlushPersists
  <2> SUFFICES ASSUME TypeOK, Promise, NEW w \in Worker, worker[w] = "flushed",
                      NEW a \in Account, owed[w][a] > 0
               PROVE  coolDisk[a] >= base + owed[w][a] /\ statusDisk[a] >= base + owed[w][a]
    BY DEF FlushPersists
  <2>1. owed[w][a] <= persisted[a] /\ persisted[a] > 0
    BY Numbers DEF Promise, Answered
  <2>2. coolDisk[a] >= base + persisted[a] /\ statusDisk[a] >= base + persisted[a]
    BY <2>1 DEF Promise, Completed
  <2> QED
    BY <2>1, <2>2, Numbers
<1> QED
  BY <1>1, AlwaysPromise, PTL

\* The final persisted state is the newest pool state, at rest, and what Close was
\* told of in time is saved, unless the last write failed
\* (CooldownPersistence!NewestIsSaved: drainCooldowns and Manager.Close).
THEOREM TheNewestIsSaved == Spec => []NewestIsSaved
<1>1. TypeOK /\ Parts /\ Promise => QuietMeansNewest
  <2> SUFFICES ASSUME TypeOK, Parts, Promise, drainer = "scan", dirty = Blank, ~closed,
                      \A w \in Worker : worker[w] # "notifying",
                      NEW a \in Account, version[a] > 0
               PROVE  coolDisk[a] = base + version[a] /\ statusDisk[a] = base + version[a]
    BY DEF QuietMeansNewest
  <2>1. version[a] <= enqueued[a]
    BY DEF Promise, Informed
  <2>2. enqueued[a] <= persisted[a]
    BY EmptyIsCompleted DEF Writing
  <2>3. persisted[a] <= version[a]
    BY DEF Parts, SnapshotsReal
  <2>4. persisted[a] = version[a]
    BY <2>1, <2>2, <2>3, Numbers
  <2>5. coolDisk[a] >= base + version[a] /\ statusDisk[a] >= base + version[a]
    BY <2>4 DEF Promise, Completed
  <2>6. coolDisk[a] <= base + version[a]
    BY <2>4 DEF Parts, RowsBounded
  <2>7. dirty[a] = 0
    BY DEF Blank
  <2>8. statusDisk[a] <= base + version[a]
    BY <2>4, <2>7 DEF Parts, StatusBounded, InHand, Writing
  <2> QED
    BY <2>5, <2>6, <2>8, Numbers
<1>2. TypeOK /\ Parts /\ Promise => CloseSaves
  <2> SUFFICES ASSUME TypeOK, Promise, drainer = "exited", failure = "none",
                      NEW a \in Account, enqueued[a] > 0
               PROVE  coolDisk[a] >= base + enqueued[a]
    BY DEF CloseSaves
  <2>1. enqueued[a] <= persisted[a] /\ persisted[a] > 0
    BY Numbers DEF Promise, Leaving
  <2>2. coolDisk[a] >= base + persisted[a]
    BY <2>1 DEF Promise, Completed
  <2> QED
    BY <2>1, <2>2, Numbers
<1> QED
  BY <1>1, <1>2, AlwaysPromise, PTL DEF NewestIsSaved

=============================================================================
