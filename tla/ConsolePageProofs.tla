-------------------------- MODULE ConsolePageProofs --------------------------
(***************************************************************************)
(* What the console's pages promise, for any number of workers, requests,  *)
(* sessions and jobs: the settings page's proxy and the workers that run   *)
(* with it, the board of requests in flight, the playground's chat, and    *)
(* the online update; and what its dialogs show and send, for any number   *)
(* of rows, accounts, keys, regions, openings and answers.                 *)
(*                                                                         *)
(* The argument for the dialogs is the same in each: an answer carries the *)
(* number of the dialog that asked, numbers are never given twice, and     *)
(* what has a number was asked for the account (the row, the boxes) of     *)
(* that dialog.                                                            *)
(***************************************************************************)
EXTENDS Console, Integers, SequenceTheorems, TLAPS

-----------------------------------------------------------------------------
(* The proxy address: stored, in the manager, in the workers *)

ProxyTyped ==
  /\ DOMAIN proxy = {"stored", "config", "pending", "running"}
  /\ proxy.pending \in BOOLEAN /\ DOMAIN proxy.running = ProxyWorker

PatchesTyped ==
  \A c \in patches : /\ {"at", "url", "changed", "failed", "left"} \subseteq DOMAIN c
                     /\ c.changed \in BOOLEAN /\ c.failed \in BOOLEAN

\* The mutex: one PATCH is between its first read and its answer.
OnePatch == \A c, d \in Settings!Holding : c = d

\* Between reloads the workers run with the manager's address.
RunsConfigured == ~proxy.pending => \A w \in ProxyWorker : proxy.running[w] = proxy.config

ConfigIsStored == ~proxy.pending => proxy.config = proxy.stored

\* What a PATCH that holds the mutex knows, by how far it has come.
PatchKnows(c) ==
  /\ c.at = "begun" => ConfigIsStored /\ (~c.changed => c.url = proxy.stored)
  /\ c.at = "saved" => c.url = proxy.stored
  /\ c.at = "reloading" =>
       /\ proxy.pending /\ proxy.config = proxy.stored
       /\ c.failed \/ \A w \in ProxyWorker \ c.left : proxy.running[w] = proxy.config

SettingsSound ==
  /\ ProxyTyped /\ PatchesTyped /\ OnePatch /\ RunsConfigured
  /\ Settings!Holding = {} => ConfigIsStored
  /\ \A c \in Settings!Holding : PatchKnows(c)

\* The server starts its workers with what is stored.
LEMMA SettingsStart == ASSUME Settings!SettingsInit PROVE SettingsSound
<1>1. PICK url : proxy = [stored |-> url, config |-> url, pending |-> FALSE,
                          running |-> [w \in ProxyWorker |-> url]]
  BY DEF Settings!SettingsInit
<1>2. patches = {} /\ Settings!Holding = {}
  BY DEF Settings!SettingsInit, Settings!Holding
<1> QED
  BY <1>1, <1>2
     DEF SettingsSound, ProxyTyped, PatchesTyped, OnePatch, RunsConfigured, ConfigIsStored

\* Requests that do not hold the mutex come, end and are answered without harm.
LEMMA OthersMove ==
  ASSUME SettingsSound, proxy' = proxy, PatchesTyped',
         \A c : c \in Settings!Holding' <=> c \in Settings!Holding
  PROVE  SettingsSound'
<1>1. Settings!Holding' = Settings!Holding
  OBVIOUS
<1> QED
  BY <1>1 DEF SettingsSound, ProxyTyped, OnePatch, RunsConfigured, ConfigIsStored, PatchKnows

\* One request moves from what it was to what it is.
LEMMA PatchMoves ==
  ASSUME NEW c \in patches, NEW d, Settings!Becomes(c, d), OnePatch,
         c \in Settings!Holding \/ Settings!Holding = {}
  PROVE  Settings!Holding' = IF d.at \in {"begun", "saved", "reloading"} THEN {d} ELSE {}
BY DEF Settings!Becomes, Settings!Holding, OnePatch

\* The holder's step keeps what it knows, and gives the mutex back in order.
LEMMA HolderMoves ==
  ASSUME SettingsSound, NEW c \in patches, NEW d, Settings!Becomes(c, d),
         c \in Settings!Holding \/ Settings!Holding = {},
         {"at", "url", "changed", "failed", "left"} \subseteq DOMAIN d,
         d.changed \in BOOLEAN, d.failed \in BOOLEAN,
         ProxyTyped', RunsConfigured',
         d.at \in {"begun", "saved", "reloading"} => PatchKnows(d)',
         d.at \notin {"begun", "saved", "reloading"} => ConfigIsStored'
  PROVE  SettingsSound'
<1>1. Settings!Holding' = IF d.at \in {"begun", "saved", "reloading"} THEN {d} ELSE {}
  BY PatchMoves DEF SettingsSound
<1>2. PatchesTyped'
  BY DEF SettingsSound, PatchesTyped, Settings!Becomes
<1> QED
  BY <1>1, <1>2 DEF SettingsSound, OnePatch

\* Every step of the pages, the PATCHes and the server.
LEMMA SettingsStep == ASSUME SettingsSound, Settings!SettingsNext PROVE SettingsSound'
<1>1. ASSUME Settings!RestartServer PROVE SettingsSound'
  <2>1. /\ proxy' = [stored |-> proxy.stored, config |-> proxy.stored, pending |-> FALSE,
                     running |-> [w \in ProxyWorker |-> proxy.stored]]
        /\ \A c \in patches' : \E e \in patches :
              \/ c = e /\ e.at \in {"answered", "failed"}
              \/ c = [e EXCEPT !.at = "failed"]
    BY <1>1 DEF Settings!RestartServer
  <2>2. PatchesTyped' /\ \A c \in patches' : c.at \in {"answered", "failed"}
    BY <2>1 DEF SettingsSound, PatchesTyped
  <2>3. Settings!Holding' = {}
    BY <2>2 DEF Settings!Holding
  <2> QED
    BY <2>1, <2>2, <2>3 DEF SettingsSound, ProxyTyped, OnePatch, RunsConfigured, ConfigIsStored
<1>2. ASSUME NEW b \in Browser,
             \/ Settings!OpenSettings(b)
             \/ \E url \in Typed \cup {Settings!NoProxy} : Settings!Type(b, url)
      PROVE  SettingsSound'
  <2>1. UNCHANGED <<proxy, patches>>
    BY <1>2 DEF Settings!OpenSettings, Settings!Type
  <2> QED
    BY <2>1, OthersMove DEF SettingsSound, PatchesTyped, Settings!Holding
<1>3. ASSUME NEW b \in Browser,
             Settings!Blur(b) \/ Settings!ChangeOther(b) \/ Settings!SaveCheckin(b)
      PROVE  SettingsSound'
  <2>1. PICK kind, url, value : Settings!Send(Settings!PageRequest(b, kind, url, value))
    BY <1>3 DEF Settings!Blur, Settings!ChangeOther, Settings!SaveCheckin
  <2>2. proxy' = proxy
    BY <1>3 DEF Settings!Blur, Settings!ChangeOther, Settings!SaveCheckin
  <2>3. PICK c : /\ patches' = patches \cup {c} /\ c.at = "sent"
                 /\ {"at", "url", "changed", "failed", "left"} \subseteq DOMAIN c
                 /\ c.changed = FALSE /\ c.failed = FALSE
    <3> DEFINE c == Settings!PageRequest(b, kind, url, value)
    <3>1. /\ c.at = "sent" /\ c.changed = FALSE /\ c.failed = FALSE
          /\ {"at", "url", "changed", "failed", "left"} \subseteq DOMAIN c
      BY DEF Settings!PageRequest
    <3>2. patches' = patches \cup {c}
      BY <2>1 DEF Settings!Send
    <3> QED
      BY <3>1, <3>2
  <2>4. PatchesTyped'
    BY <2>3 DEF SettingsSound, PatchesTyped
  <2> QED
    BY <2>2, <2>3, <2>4, OthersMove DEF Settings!Holding
<1>4. ASSUME NEW c \in patches, Settings!SettingsAnswered(c) PROVE SettingsSound'
  <2>1. proxy' = proxy /\ patches' = patches \ {c} /\ c.at \in {"answered", "failed"}
    BY <1>4 DEF Settings!SettingsAnswered
  <2> QED
    BY <2>1, OthersMove DEF SettingsSound, PatchesTyped, Settings!Holding
<1>5. ASSUME NEW c \in patches, Settings!PatchOther(c) \/ Settings!AnswerPatch(c)
      PROVE  SettingsSound'
  <2>1. proxy' = proxy /\ c.at \in {"sent", "done"}
    BY <1>5 DEF Settings!PatchOther, Settings!AnswerPatch
  <2>2. PICK d : /\ Settings!Becomes(c, d)
                 /\ \/ d = [c EXCEPT !.at = "done"]
                    \/ d = [c EXCEPT !.at = "failed"]
                    \/ d = [c EXCEPT !.at = "answered", !.data = Settings!Current]
    BY <1>5 DEF Settings!PatchOther, Settings!AnswerPatch
  <2>3. /\ {"at", "url", "changed", "failed", "left"} \subseteq DOMAIN d
        /\ d.changed \in BOOLEAN /\ d.failed \in BOOLEAN
        /\ d.at \in {"done", "failed", "answered"}
    BY <2>2 DEF SettingsSound, PatchesTyped
  <2>4. PatchesTyped'
    BY <2>2, <2>3 DEF SettingsSound, PatchesTyped, Settings!Becomes
  <2> QED
    BY <2>1, <2>2, <2>3, <2>4, OthersMove DEF Settings!Becomes, Settings!Holding
<1>6. ASSUME NEW c \in patches, Settings!Begin(c) PROVE SettingsSound'
  <2>1. PICK url, d :
          /\ url = Settings!Preserve(proxy.stored, c.url)
          /\ d = [c EXCEPT !.at = "begun", !.url = url, !.changed = url # proxy.stored]
          /\ proxy' = proxy /\ Settings!Becomes(c, d) /\ Settings!Holding = {}
    BY <1>6 DEF Settings!Begin
  <2>2. /\ {"at", "url", "changed", "failed", "left"} \subseteq DOMAIN d
        /\ d.at = "begun" /\ d.url = url /\ d.changed = (url # proxy.stored)
        /\ d.failed \in BOOLEAN
    BY <2>1 DEF SettingsSound, PatchesTyped
  <2>3. PatchKnows(d)' /\ ProxyTyped' /\ RunsConfigured'
    BY <2>1, <2>2 DEF SettingsSound, PatchKnows, ConfigIsStored, ProxyTyped, RunsConfigured
  <2>4. d.changed \in BOOLEAN
    BY <2>2
  <2> QED
    BY <2>1, <2>2, <2>3, <2>4, HolderMoves
<1>7. ASSUME NEW c \in patches, Settings!SaveProxy(c) PROVE SettingsSound'
  <2>1. c \in Settings!Holding /\ PatchKnows(c) /\ c.at = "begun" /\ c.changed \in BOOLEAN
    BY <1>7 DEF Settings!SaveProxy, Settings!Holding, SettingsSound, PatchesTyped
  <2>2. PICK d : /\ Settings!Becomes(c, d)
                 /\ \/ /\ d = [c EXCEPT !.at = "saved"]
                       /\ proxy' = IF c.changed THEN [proxy EXCEPT !.stored = c.url] ELSE proxy
                    \/ d = [c EXCEPT !.at = "failed"] /\ proxy' = proxy
    BY <1>7 DEF Settings!SaveProxy
  <2>3. /\ {"at", "url", "changed", "failed", "left"} \subseteq DOMAIN d
        /\ d.url = c.url /\ d.changed \in BOOLEAN /\ d.failed \in BOOLEAN
        /\ d.at \in {"saved", "failed"} /\ (d.at = "failed" => proxy' = proxy)
    BY <2>2 DEF SettingsSound, PatchesTyped
  <2>4. /\ ProxyTyped' /\ proxy'.pending = proxy.pending /\ proxy'.config = proxy.config
        /\ proxy'.running = proxy.running
        /\ proxy'.stored = IF d.at = "saved" THEN c.url ELSE proxy.stored
    BY <2>1, <2>2, <2>3 DEF SettingsSound, ProxyTyped, PatchKnows
  <2>5. RunsConfigured' /\ (d.at = "failed" => ConfigIsStored')
    BY <2>1, <2>4 DEF SettingsSound, RunsConfigured, PatchKnows, ConfigIsStored
  <2>6. d.at = "saved" => PatchKnows(d)'
    BY <2>3, <2>4 DEF PatchKnows
  <2> QED
    BY <2>1, <2>2, <2>3, <2>4, <2>5, <2>6, HolderMoves
<1>8. ASSUME NEW c \in patches, Settings!BeginReload(c) PROVE SettingsSound'
  <2>1. c \in Settings!Holding /\ c.url = proxy.stored
    BY <1>8 DEF Settings!BeginReload, Settings!Holding, SettingsSound, PatchKnows
  <2>2. CASE proxy.config = c.url /\ ~proxy.pending
    <3>1. PICK d : Settings!Becomes(c, d) /\ d = [c EXCEPT !.at = "done"]
      BY <1>8, <2>2 DEF Settings!BeginReload
    <3>2. /\ {"at", "url", "changed", "failed", "left"} \subseteq DOMAIN d
          /\ d.changed \in BOOLEAN /\ d.failed \in BOOLEAN /\ d.at = "done"
      BY <3>1 DEF SettingsSound, PatchesTyped
    <3>3. proxy' = proxy
      BY <1>8, <2>2 DEF Settings!BeginReload
    <3> QED
      BY <2>1, <2>2, <3>1, <3>2, <3>3, HolderMoves
         DEF SettingsSound, ProxyTyped, RunsConfigured, ConfigIsStored
  <2>3. CASE ~(proxy.config = c.url /\ ~proxy.pending)
    <3>1. PICK d : /\ Settings!Becomes(c, d)
                   /\ d = [c EXCEPT !.at = "reloading", !.left = ProxyWorker]
      BY <1>8, <2>3 DEF Settings!BeginReload
    <3>2. /\ {"at", "url", "changed", "failed", "left"} \subseteq DOMAIN d
          /\ d.changed \in BOOLEAN /\ d.failed \in BOOLEAN /\ d.at = "reloading"
          /\ d.left = ProxyWorker
      BY <3>1 DEF SettingsSound, PatchesTyped
    <3>3. proxy' = [proxy EXCEPT !.config = c.url, !.pending = TRUE]
      BY <1>8, <2>3 DEF Settings!BeginReload
    <3>4. ProxyTyped' /\ proxy'.pending = TRUE /\ proxy'.config = c.url /\ proxy'.stored = c.url
      BY <2>1, <3>3 DEF SettingsSound, ProxyTyped
    <3> QED
      BY <2>1, <3>1, <3>2, <3>4, HolderMoves DEF PatchKnows, RunsConfigured
  <2> QED
    BY <2>2, <2>3
<1>9. ASSUME NEW c \in patches, NEW w \in ProxyWorker, Settings!RestartWorker(c, w)
      PROVE  SettingsSound'
  <2>1. c \in Settings!Holding /\ PatchKnows(c) /\ c.at = "reloading"
    BY <1>9 DEF Settings!RestartWorker, Settings!Holding, SettingsSound
  <2>2. PICK d : /\ Settings!Becomes(c, d)
                 /\ \/ /\ d = [c EXCEPT !.left = @ \ {w}]
                       /\ proxy' = [proxy EXCEPT !.running[w] = proxy.config]
                    \/ d = [c EXCEPT !.left = @ \ {w}, !.failed = TRUE] /\ proxy' = proxy
    BY <1>9 DEF Settings!RestartWorker
  <2>3. /\ {"at", "url", "changed", "failed", "left"} \subseteq DOMAIN d
        /\ d.changed \in BOOLEAN /\ d.failed \in BOOLEAN /\ d.at = "reloading"
        /\ d.left = c.left \ {w}
        /\ \/ d.failed = c.failed /\ proxy' = [proxy EXCEPT !.running[w] = proxy.config]
           \/ d.failed /\ proxy' = proxy
    BY <2>1, <2>2 DEF SettingsSound, PatchesTyped
  <2>4. /\ ProxyTyped' /\ proxy'.pending = proxy.pending /\ proxy'.config = proxy.config
        /\ proxy'.stored = proxy.stored
        /\ \/ d.failed
           \/ /\ d.failed = c.failed
              /\ \A v \in ProxyWorker :
                    proxy'.running[v] = IF v = w THEN proxy.config ELSE proxy.running[v]
    BY <2>3 DEF SettingsSound, ProxyTyped
  <2>5. PatchKnows(d)' /\ RunsConfigured'
    BY <2>1, <2>3, <2>4 DEF PatchKnows, RunsConfigured
  <2> QED
    BY <2>1, <2>2, <2>3, <2>4, <2>5, HolderMoves
<1>10. ASSUME NEW c \in patches, Settings!EndReload(c) PROVE SettingsSound'
  <2>1. c \in Settings!Holding /\ PatchKnows(c) /\ c.at = "reloading" /\ c.left = {}
    BY <1>10 DEF Settings!EndReload, Settings!Holding, SettingsSound
  <2>2. PICK d : /\ Settings!Becomes(c, d)
                 /\ d = [c EXCEPT !.at = IF c.failed THEN "failed" ELSE "done"]
    BY <1>10 DEF Settings!EndReload
  <2>3. /\ {"at", "url", "changed", "failed", "left"} \subseteq DOMAIN d
        /\ d.changed \in BOOLEAN /\ d.failed \in BOOLEAN /\ d.at \in {"failed", "done"}
        /\ c.failed \in BOOLEAN
    BY <2>2 DEF SettingsSound, PatchesTyped
  <2>4. proxy' = [proxy EXCEPT !.pending = c.failed]
    BY <1>10 DEF Settings!EndReload
  <2>5. /\ ProxyTyped' /\ proxy'.pending = c.failed /\ proxy'.config = proxy.config
        /\ proxy'.stored = proxy.stored /\ proxy'.running = proxy.running
    BY <2>3, <2>4 DEF SettingsSound, ProxyTyped
  <2>6. RunsConfigured' /\ ConfigIsStored'
    BY <2>1, <2>3, <2>5 DEF PatchKnows, RunsConfigured, ConfigIsStored
  <2> QED
    BY <2>1, <2>2, <2>3, <2>5, <2>6, HolderMoves
<1> QED
  BY <1>1, <1>2, <1>3, <1>4, <1>5, <1>6, <1>7, <1>8, <1>9, <1>10 DEF Settings!SettingsNext

-----------------------------------------------------------------------------
(* The online update: who will give the coordinator's flags back *)

JobIds == {"update", "agent"} \X Nat

CoordinatorType == [job : Update!JobType \cup {None}, running : BOOLEAN, maintenance : BOOLEAN,
                    version : Int, jobs : Nat]

AgentType == [state : {"idle", "pulling", "ready_to_apply", "queued", "recreating", "succeeded",
                       "failed", "rolled_back"},
              job : Nat, target : Int, from : Int, staged : BOOLEAN, count : Nat]

GoroutineType == [job : JobIds, shot : BOOLEAN, target : Int, watch : Nat,
                  at : {"check", "submit", "watchImage", "restore", "backup", "apply", "watchUpdate"}]

CancelType == [job : JobIds \cup {None}, at : {"cancel"}, by : Panel]

\* The goroutines that end the maintenance they were started under.
Serving == {"restore", "backup", "apply", "watchUpdate"}

\* A panel that asks for an older version has been told the present one.
PanelsKnow ==
  /\ DOMAIN panel = Panel
  /\ \A p \in Panel :
       /\ {"info", "call"} \subseteq DOMAIN panel[p]
       /\ panel[p].info # None \/ panel[p].call \in {"prepare", "rollback"} =>
            panel[p].info.version \in Int
  /\ \A g \in gets : g.read # None => g.read.job \in Nat /\ g.read.target \in Int

UpdateTyped ==
  /\ coordinator \in CoordinatorType /\ agent \in AgentType
  /\ tasks \subseteq GoroutineType \cup CancelType
  /\ PanelsKnow

\* `running` belongs to the job that is there: its image waits, or a goroutine of
\* its own does.  (A goroutine of a job before it does not count: its end may
\* leave the flag alone.)
RunningIsTheJobs ==
  coordinator.running =>
    /\ coordinator.job # None
    /\ coordinator.job.state = "ready_to_apply" \/ \E t \in tasks : t.job = coordinator.job.id

MaintenanceIsServed == coordinator.maintenance => \E t \in tasks : t.at \in Serving

\* The updater's jobs are numbered; a goroutine that watches the switch of one sees
\* it fail or be overtaken: one that goes on takes the goroutine with the server.
SwitchesAreWatched ==
  /\ agent.job <= agent.count /\ (agent.job = 0 => agent.state = "idle")
  /\ \A t \in tasks : t.at = "watchUpdate" =>
       /\ t.watch # 0 /\ t.watch <= agent.count
       /\ t.watch = agent.job => agent.state \in {"queued", "failed"}

UpdateSound == UpdateTyped /\ RunningIsTheJobs /\ MaintenanceIsServed /\ SwitchesAreWatched

ChangeType == [state : Update!JobStates] \cup [target : Int] \cup [backup : BOOLEAN, state : Update!JobStates]

\* A changed job is a job, of the same id, with the state it was given.
LEMMA JobChanged ==
  ASSUME NEW job \in Update!JobType, NEW change \in ChangeType
  PROVE  /\ Update!Changed(job, change) \in Update!JobType
         /\ Update!Changed(job, change).id = job.id
         /\ "state" \in DOMAIN change => Update!Changed(job, change).state = change.state
<1> DEFINE k == Update!Changed(job, change)
<1>1. /\ DOMAIN job = {"id", "state", "target", "backup"}
      /\ DOMAIN change \subseteq {"state", "target", "backup"}
  BY DEF Update!JobType, Update!JobStates, ChangeType
<1>2. k = [f \in {"id", "state", "target", "backup"} |->
             IF f \in DOMAIN change THEN change[f] ELSE job[f]]
  <2>1. DOMAIN job \cup DOMAIN change = {"id", "state", "target", "backup"}
    BY <1>1
  <2> QED
    BY <2>1 DEF Update!Changed
<1>3. /\ "state" \in DOMAIN change => change.state \in Update!JobStates
      /\ "target" \in DOMAIN change => change.target \in Int
      /\ "backup" \in DOMAIN change => change.backup \in BOOLEAN
      /\ "id" \notin DOMAIN change
  BY DEF ChangeType
<1>4. job.id \in JobIds /\ job.state \in Update!JobStates /\ job.target \in Int /\ job.backup \in BOOLEAN
  BY DEF Update!JobType, Update!JobStates, JobIds
<1> DEFINE i == job.id
           s == IF "state" \in DOMAIN change THEN change.state ELSE job.state
           g == IF "target" \in DOMAIN change THEN change.target ELSE job.target
           b == IF "backup" \in DOMAIN change THEN change.backup ELSE job.backup
<1>5. s \in Update!JobStates /\ g \in Int /\ b \in BOOLEAN
  BY <1>3, <1>4
<1>6. k = [id |-> i, state |-> s, target |-> g, backup |-> b]
  BY <1>2, <1>3
<1> HIDE DEF k, s, g, b
<1>7. k \in Update!JobType /\ k.id = job.id /\ k.state = s
  BY <1>4, <1>5, <1>6 DEF Update!JobType, Update!JobStates, JobIds
<1> QED
  BY <1>7 DEF k, s

\* No job is None.
LEMMA JobsAreThere == ASSUME NEW job \in Update!JobType PROVE job # None
BY ConsoleAssumption DEF ConsoleAssumption, Update!UpdateAssumption

\* Mutate changes the job that is named and nothing else.
LEMMA Mutated ==
  ASSUME NEW c \in CoordinatorType, NEW id, NEW change \in ChangeType,
         NEW d, d = Update!Mutate(c, id, change)
  PROVE  /\ d \in CoordinatorType
         /\ d.running = c.running /\ d.maintenance = c.maintenance
         /\ d.version = c.version /\ d.jobs = c.jobs
         /\ d.job = None <=> c.job = None
         /\ c.job # None => d.job.id = c.job.id
         /\ c.job # None /\ c.job.id # id => d.job = c.job
         /\ c.job # None /\ c.job.id = id /\ "state" \in DOMAIN change =>
              d.job.state = change.state
<1>1. CASE c.job # None /\ c.job.id = id
  <2>1. c.job \in Update!JobType
    BY <1>1 DEF CoordinatorType
  <2>2. PICK k : k = Update!Changed(c.job, change)
    OBVIOUS
  <2>3. /\ k \in Update!JobType /\ k.id = c.job.id
        /\ "state" \in DOMAIN change => k.state = change.state
    BY <2>1, <2>2, JobChanged
  <2>4. d = [c EXCEPT !.job = k]
    BY <1>1, <2>2 DEF Update!Mutate
  <2> QED
    BY <1>1, <2>3, <2>4, JobsAreThere DEF CoordinatorType
<1>2. CASE ~(c.job # None /\ c.job.id = id)
  BY <1>2 DEF Update!Mutate
<1> QED
  BY <1>1, <1>2

\* Ended does the same, and gives back the flags it is told to.
LEMMA GivenBack ==
  ASSUME NEW c \in CoordinatorType, NEW id, NEW state \in Update!JobStates, NEW flags,
         NEW d, d = Update!Ended(c, id, state, flags)
  PROVE  /\ d \in CoordinatorType
         /\ d.running = (c.running /\ "running" \notin flags)
         /\ d.maintenance = (c.maintenance /\ "maintenance" \notin flags)
<1>1. PICK e : e = Update!Mutate(c, id, [state |-> state])
  OBVIOUS
<1>2. [state |-> state] \in ChangeType
  BY DEF ChangeType
<1>3. e \in CoordinatorType /\ e.running = c.running /\ e.maintenance = c.maintenance
  BY <1>1, <1>2, Mutated
<1>4. d = [e EXCEPT !.running = @ /\ "running" \notin flags,
                    !.maintenance = @ /\ "maintenance" \notin flags]
  BY <1>1 DEF Update!Ended
<1> QED
  BY <1>3, <1>4 DEF CoordinatorType

\* An adopted image is the job there is, or a job of its own; nothing else changes.
LEMMA Adopted ==
  ASSUME NEW c \in CoordinatorType, NEW s, s.job \in Nat, s.target \in Int,
         NEW d, d = Update!AdoptPrepared(c, s)
  PROVE  /\ d \in CoordinatorType
         /\ d.maintenance = c.maintenance
         /\ d = c \/ (d.job # None /\ d.job.state = "ready_to_apply")
<1>1. CASE s.state # "ready_to_apply" \/ Update!ApplyingJob(c.job)
  BY <1>1 DEF Update!AdoptPrepared
<1>2. CASE ~(s.state # "ready_to_apply" \/ Update!ApplyingJob(c.job))
  <2>1. ASSUME NEW job \in Update!JobType, job.state = "ready_to_apply",
               d = [c EXCEPT !.running = TRUE, !.job = job]
        PROVE  d \in CoordinatorType /\ d.maintenance = c.maintenance
               /\ d.job # None /\ d.job.state = "ready_to_apply"
    BY <2>1, JobsAreThere DEF CoordinatorType
  <2>2. CASE c.job = None
    <3> DEFINE job == [id |-> <<"agent", s.job>>, state |-> "ready_to_apply",
                       target |-> s.target, backup |-> FALSE]
    <3>1. d = [c EXCEPT !.running = TRUE, !.job = job]
      BY <1>2, <2>2, Zenon DEF Update!AdoptPrepared
    <3>2. <<"agent", s.job>> \in {"update", "agent"} \X Nat
      OBVIOUS
    <3>3. job \in Update!JobType /\ job.state = "ready_to_apply"
      BY <3>2 DEF Update!JobType, Update!JobStates
    <3> HIDE DEF job
    <3> QED
      BY <2>1, <3>1, <3>3
  <2>3. CASE c.job # None
    <3>1. c.job \in Update!JobType
      BY <2>3 DEF CoordinatorType
    <3>2. PICK target : target = IF c.job # None /\ c.job.target # 0 THEN c.job.target
                                 ELSE s.target
      OBVIOUS
    <3>3. target \in Int
      BY <3>1, <3>2 DEF Update!JobType
    <3> DEFINE job == [c.job EXCEPT !.state = "ready_to_apply", !.target = target]
    <3>4. d = [c EXCEPT !.running = TRUE, !.job = job]
      BY <1>2, <2>3, <3>2, Zenon DEF Update!AdoptPrepared
    <3>5. job \in Update!JobType /\ job.state = "ready_to_apply"
      BY <3>1, <3>3 DEF Update!JobType, Update!JobStates
    <3> HIDE DEF job
    <3> QED
      BY <2>1, <3>4, <3>5
  <2> QED
    BY <2>2, <2>3
<1> QED
  BY <1>1, <1>2

\* A server just started has neither job nor goroutine.
LEMMA UpdateStarts == ASSUME Update!UpdateInit PROVE UpdateSound
<1>1. PICK v \in 1..Latest, staged \in BOOLEAN :
        /\ coordinator = [job |-> None, running |-> FALSE, maintenance |-> FALSE, version |-> v,
                          jobs |-> 0]
        /\ tasks = {} /\ gets = {}
        /\ agent = [state |-> "idle", job |-> 0, target |-> 0, from |-> 0, staged |-> staged,
                    count |-> 0]
        /\ panel = [p \in Panel |-> Update!FreshPanel]
  BY DEF Update!UpdateInit
<1>2. v \in Int
  BY ConsoleAssumption DEF ConsoleAssumption, Update!UpdateAssumption
<1>3. coordinator \in CoordinatorType
  BY <1>1, <1>2 DEF CoordinatorType
<1>4. agent \in AgentType
  BY <1>1 DEF AgentType
<1>5. PanelsKnow
  BY <1>1 DEF PanelsKnow, Update!FreshPanel
<1> QED
  BY <1>1, <1>3, <1>4, <1>5
     DEF UpdateSound, UpdateTyped, RunningIsTheJobs, MaintenanceIsServed, SwitchesAreWatched

\* The panels' part: a press, a GET begun, read, answered or lost, a reload.
LEMMA PanelSteps ==
  ASSUME UpdateSound, NEW p \in Panel,
         \/ Update!PressPrimary(p) \/ Update!PressCancel(p) \/ Update!ConfirmRestore(p)
         \/ Update!LoadInfo(p) \/ Update!Reload(p)
  PROVE  UpdateSound'
<1>1. UNCHANGED <<coordinator, tasks, agent>>
  BY DEF Update!PressPrimary, Update!PressCancel, Update!ConfirmRestore, Update!LoadInfo,
         Update!Reload, Update!Press
<1>2. PanelsKnow'
  <2>1. CASE Update!PressPrimary(p) \/ Update!PressCancel(p) \/ Update!ConfirmRestore(p)
    <3>1. PICK what : Update!Press(p, what) /\ panel[p].info # None
      BY <2>1 DEF Update!PressPrimary, Update!PressCancel, Update!ConfirmRestore, Update!CanApply,
                  Update!CanPrepare, Update!CanCancel, Update!CanRollback, Update!Free
    <3>2. gets' = gets /\ DOMAIN panel' = DOMAIN panel
          /\ \A q \in Panel : DOMAIN panel'[q] = DOMAIN panel[q] /\ panel'[q].info = panel[q].info
          /\ \A o \in Panel \ {p} : panel'[o] = panel[o]
      BY <3>1 DEF Update!Press, UpdateSound, UpdateTyped, PanelsKnow
    <3> QED
      BY <3>1, <3>2 DEF UpdateSound, UpdateTyped, PanelsKnow
  <2>2. CASE Update!LoadInfo(p)
    <3>1. gets' = gets \cup {[of |-> p, own |-> FALSE, read |-> None]} /\ panel' = panel
      BY <2>2 DEF Update!LoadInfo
    <3> QED
      BY <3>1 DEF UpdateSound, UpdateTyped, PanelsKnow
  <2>3. CASE Update!Reload(p)
    <3>1. gets' \subseteq gets /\ panel' = [panel EXCEPT ![p] = Update!FreshPanel]
      BY <2>3 DEF Update!Reload
    <3> QED
      BY <3>1 DEF UpdateSound, UpdateTyped, PanelsKnow, Update!FreshPanel
  <2> QED
    BY <2>1, <2>2, <2>3
<1> QED
  BY <1>1, <1>2 DEF UpdateSound, UpdateTyped, RunningIsTheJobs, MaintenanceIsServed, SwitchesAreWatched

\* A coordinator with an image adopted has its reasons still.
LEMMA AdoptionKeeps ==
  ASSUME UpdateSound, NEW s, s.job \in Nat, s.target \in Int,
         coordinator' = Update!AdoptPrepared(coordinator, s), UNCHANGED <<tasks, agent>>,
         PanelsKnow'
  PROVE  UpdateSound'
<1>1. coordinator \in CoordinatorType
  BY DEF UpdateSound, UpdateTyped
<1>2. PICK d : d = Update!AdoptPrepared(coordinator, s)
  OBVIOUS
<1>3. /\ d \in CoordinatorType /\ d.maintenance = coordinator.maintenance
      /\ d = coordinator \/ (d.job # None /\ d.job.state = "ready_to_apply")
  BY <1>1, <1>2, Adopted
<1> QED
  BY <1>2, <1>3
     DEF UpdateSound, UpdateTyped, RunningIsTheJobs, MaintenanceIsServed, SwitchesAreWatched

\* A panel's GET, from the reading of the agent to its answer: whatever was read is adopted soundly.
LEMMA GetSteps ==
  ASSUME UpdateSound, NEW g \in gets,
         Update!InfoReadsAgent(g) \/ Update!InfoAnswers(g) \/ Update!InfoFails(g)
  PROVE  UpdateSound'
<1>1. CASE Update!InfoReadsAgent(g)
  <2>1. PICK s \in {agent, Update!Unavailable} :
          gets' = (gets \ {g}) \cup {[g EXCEPT !.read = s]}
    BY <1>1 DEF Update!InfoReadsAgent
  <2>2. s.job \in Nat /\ s.target \in Int
    BY DEF UpdateSound, UpdateTyped, AgentType, Update!Unavailable
  <2>3. UNCHANGED <<coordinator, tasks, agent, panel>>
    BY <1>1 DEF Update!InfoReadsAgent
  <2> DEFINE h == [g EXCEPT !.read = s]
  <2>4. h.read = s \/ h = g
    BY DEF UpdateSound, UpdateTyped, PanelsKnow
  <2>5. PanelsKnow'
    BY <2>1, <2>2, <2>3, <2>4 DEF UpdateSound, UpdateTyped, PanelsKnow
  <2> QED
    BY <2>3, <2>5
       DEF UpdateSound, UpdateTyped, RunningIsTheJobs, MaintenanceIsServed, SwitchesAreWatched
<1>2. CASE Update!InfoAnswers(g)
  <2>1. /\ g.read.job \in Nat /\ g.read.target \in Int
        /\ coordinator' = Update!AdoptPrepared(coordinator, g.read) /\ UNCHANGED <<tasks, agent>>
        /\ gets' = gets \ {g}
    BY <1>2 DEF Update!InfoAnswers, UpdateSound, UpdateTyped, PanelsKnow
  <2>2. PICK c : c = Update!AdoptPrepared(coordinator, g.read)
    OBVIOUS
  <2>3. c.version \in Int
    BY <2>1, <2>2, Adopted DEF UpdateSound, UpdateTyped, CoordinatorType
  <2>4. PICK info : info = Update!InfoOf(c, g.read)
    OBVIOUS
  <2>5. info.version \in Int
    BY <2>3, <2>4 DEF Update!InfoOf
  <2>6. panel' = [panel EXCEPT ![g.of].info = info,
                               ![g.of].first = IF @ = 0 THEN c.version ELSE @,
                               ![g.of].call = IF g.own THEN "" ELSE @]
    BY <1>2, <2>2, <2>4 DEF Update!InfoAnswers
  <2>7. /\ DOMAIN panel' = Panel
        /\ \A q \in Panel \ {g.of} : panel'[q] = panel[q]
        /\ g.of \in Panel => /\ DOMAIN panel'[g.of] = DOMAIN panel[g.of]
                             /\ panel'[g.of].info = info
    BY <2>6 DEF UpdateSound, UpdateTyped, PanelsKnow
  <2>8. PanelsKnow'
    BY <2>1, <2>5, <2>7 DEF UpdateSound, UpdateTyped, PanelsKnow
  <2> QED
    BY <2>1, <2>8, AdoptionKeeps
<1>3. CASE Update!InfoFails(g)
  <2>1. /\ gets' = gets \ {g} /\ UNCHANGED <<coordinator, tasks, agent>>
        /\ panel' = [panel EXCEPT ![g.of].call = IF g.own THEN "" ELSE @]
    BY <1>3 DEF Update!InfoFails
  <2>2. PanelsKnow'
    BY <2>1 DEF UpdateSound, UpdateTyped, PanelsKnow
  <2> QED
    BY <2>1, <2>2
       DEF UpdateSound, UpdateTyped, RunningIsTheJobs, MaintenanceIsServed, SwitchesAreWatched
<1> QED
  BY <1>1, <1>2, <1>3

\* HandlePrepare and HandleRollback, HandleApply, HandleCancel: a flag is taken
\* together with the goroutine that gives it back, for the job that is there.
LEMMA HandlerSteps ==
  ASSUME UpdateSound, NEW p \in Panel,
         Update!HandleOpen(p) \/ Update!HandleApply(p) \/ Update!HandleCancel(p)
  PROVE  UpdateSound'
<1>1. coordinator \in CoordinatorType /\ agent \in AgentType /\ PanelsKnow
  BY DEF UpdateSound, UpdateTyped
<1>2. ASSUME NEW started, Update!Loading(p, started) PROVE PanelsKnow'
  <2>1. /\ panel' = [panel EXCEPT ![p].call = "load", ![p].started = started]
        /\ gets' = gets \cup {[of |-> p, own |-> TRUE, read |-> None]}
    BY <1>2 DEF Update!Loading
  <2>2. /\ DOMAIN panel' = Panel /\ \A o \in Panel \ {p} : panel'[o] = panel[o]
        /\ DOMAIN panel'[p] = DOMAIN panel[p] /\ panel'[p].info = panel[p].info
        /\ panel'[p].call = "load"
    BY <1>1, <2>1 DEF PanelsKnow
  <2> QED
    BY <1>1, <2>1, <2>2 DEF PanelsKnow
<1>3. CASE Update!Refuse(p)
  <2>1. PanelsKnow' /\ UNCHANGED <<coordinator, tasks, agent>>
    BY <1>2, <1>3 DEF Update!Refuse
  <2> QED
    BY <2>1
       DEF UpdateSound, UpdateTyped, RunningIsTheJobs, MaintenanceIsServed, SwitchesAreWatched
<1>4. CASE Update!HandleOpen(p) /\ ~Update!Refuse(p)
  <2>1. PICK back, id, to :
          /\ back \in BOOLEAN /\ back = (panel[p].call = "rollback") /\ id = <<"update", coordinator.jobs + 1>>
          /\ to = IF back THEN panel[p].info.version - 1 ELSE 0
    OBVIOUS
  <2>2. id \in JobIds /\ to \in Int
    BY <1>1, <1>4, <2>1 DEF Update!HandleOpen, CoordinatorType, PanelsKnow, JobIds
  <2> DEFINE job == [id |-> id, state |-> "preparing", target |-> to, backup |-> FALSE]
             t == [job |-> id, at |-> IF back THEN "restore" ELSE "check", shot |-> back,
                   target |-> to, watch |-> 0]
  <2>3. /\ ~coordinator.running /\ Update!Loading(p, id) /\ UNCHANGED agent
        /\ coordinator' = [coordinator EXCEPT !.job = job, !.running = TRUE,
                                              !.maintenance = @ \/ back, !.jobs = @ + 1]
        /\ tasks' = tasks \cup {t}
    BY <1>4, <2>1 DEF Update!HandleOpen
  <2>4. job \in Update!JobType /\ job.id = id
    BY <2>2 DEF Update!JobType, Update!JobStates, JobIds
  <2>5. t \in GoroutineType /\ t.job = id /\ t.at = IF back THEN "restore" ELSE "check"
    BY <2>1, <2>2 DEF GoroutineType
  <2> HIDE DEF job, t
  <2>6. /\ coordinator' \in CoordinatorType /\ coordinator'.job = job
        /\ coordinator'.maintenance = (coordinator.maintenance \/ back)
    <3>1. /\ (coordinator.maintenance \/ back) \in BOOLEAN /\ coordinator.jobs + 1 \in Nat
          /\ coordinator.version \in Int
      BY <1>1, <2>1 DEF CoordinatorType
    <3>2. coordinator' = [job |-> job, running |-> TRUE, version |-> coordinator.version,
                          maintenance |-> coordinator.maintenance \/ back,
                          jobs |-> coordinator.jobs + 1]
      BY <1>1, <2>3 DEF CoordinatorType
    <3> QED
      BY <2>4, <3>1, <3>2 DEF CoordinatorType
  <2>7. UpdateTyped'
    BY <1>2, <2>3, <2>5, <2>6 DEF UpdateSound, UpdateTyped
  <2>8. RunningIsTheJobs' /\ MaintenanceIsServed'
    BY <2>3, <2>4, <2>5, <2>6, JobsAreThere
       DEF UpdateSound, RunningIsTheJobs, MaintenanceIsServed, Serving
  <2>9. SwitchesAreWatched'
    BY <2>3, <2>5 DEF UpdateSound, SwitchesAreWatched
  <2> QED
    BY <2>7, <2>8, <2>9 DEF UpdateSound
<1>5. CASE Update!HandleApply(p)
  <2>1. PICK c : c = Update!AdoptPrepared(coordinator, agent)
    OBVIOUS
  <2>2. agent.job \in Nat /\ agent.target \in Int
    BY <1>1 DEF AgentType
  <2>3. c \in CoordinatorType
    BY <1>1, <2>1, <2>2, Adopted
  <2>4. CASE c.job = None \/ c.job.state # "ready_to_apply" \/ ~c.running
    <3>1. /\ coordinator' = c /\ UNCHANGED <<tasks, agent>>
          /\ Update!Loading(p, panel[p].started)
      BY <1>5, <2>1, <2>4 DEF Update!HandleApply
    <3> QED
      BY <1>2, <2>1, <2>2, <3>1, AdoptionKeeps
  <2>5. CASE ~(c.job = None \/ c.job.state # "ready_to_apply" \/ ~c.running)
    <3>1. c.job \in Update!JobType
      BY <2>3, <2>5 DEF CoordinatorType
    <3>2. PICK id, to : id = c.job.id /\ to = c.job.target /\ id \in JobIds /\ to \in Int
      BY <3>1 DEF Update!JobType, JobIds
    <3>3. PICK d : d = Update!Mutate(c, id, [state |-> "backing_up"])
      OBVIOUS
    <3> DEFINE t == [job |-> id, at |-> "backup", shot |-> FALSE, target |-> to, watch |-> 0]
    <3>4. /\ coordinator' = [d EXCEPT !.maintenance = TRUE]
          /\ tasks' = tasks \cup {t} /\ UNCHANGED agent /\ Update!Loading(p, id)
      BY <1>5, <2>1, <2>5, <3>2, <3>3 DEF Update!HandleApply
    <3>5. [state |-> "backing_up"] \in ChangeType
      BY DEF ChangeType, Update!JobStates
    <3>6. d \in CoordinatorType /\ d.job # None /\ d.job.id = id
      BY <2>3, <2>5, <3>2, <3>3, <3>5, Mutated
    <3>7. t \in GoroutineType /\ t.job = id /\ t.at = "backup"
      BY <3>2 DEF GoroutineType
    <3> HIDE DEF t
    <3>8. coordinator' \in CoordinatorType /\ coordinator'.job = d.job
      BY <3>4, <3>6 DEF CoordinatorType
    <3>9. UpdateTyped'
      BY <1>2, <3>4, <3>7, <3>8 DEF UpdateSound, UpdateTyped
    <3>10. RunningIsTheJobs' /\ MaintenanceIsServed'
      BY <3>4, <3>6, <3>7, <3>8 DEF RunningIsTheJobs, MaintenanceIsServed, Serving
    <3>11. SwitchesAreWatched'
      BY <3>4, <3>7 DEF UpdateSound, SwitchesAreWatched
    <3> QED
      BY <3>9, <3>10, <3>11 DEF UpdateSound
  <2> QED
    BY <2>4, <2>5
<1>6. CASE Update!HandleCancel(p) /\ ~Update!Refuse(p)
  <2>1. PICK job : job = IF coordinator.job = None THEN None ELSE coordinator.job.id
    OBVIOUS
  <2>2. job \in JobIds \cup {None}
    BY <1>1, <2>1 DEF CoordinatorType, Update!JobType, JobIds
  <2> DEFINE t == [job |-> job, at |-> "cancel", by |-> p]
  <2>3. /\ tasks' = tasks \cup {t} /\ UNCHANGED <<coordinator, gets>>
        /\ panel' = [panel EXCEPT ![p].call = "cancelling"]
        /\ agent' = agent \/ agent' = [agent EXCEPT !.state = "idle", !.job = 0]
    BY <1>6, <2>1 DEF Update!HandleCancel
  <2>4. t \in CancelType /\ t.at = "cancel"
    BY <2>2 DEF CancelType
  <2> HIDE DEF t
  <2>5. /\ agent' \in AgentType /\ agent'.count = agent.count
        /\ agent' = agent \/ (agent'.state = "idle" /\ agent'.job = 0)
    <3>1. CASE agent' = agent
      BY <1>1, <3>1
    <3>2. CASE agent' = [agent EXCEPT !.state = "idle", !.job = 0]
      BY <1>1, <3>2 DEF AgentType
    <3> QED
      BY <2>3, <3>1, <3>2
  <2>6. PanelsKnow'
    BY <1>1, <2>3 DEF PanelsKnow
  <2>7. UpdateTyped'
    BY <1>1, <2>3, <2>4, <2>5, <2>6 DEF UpdateSound, UpdateTyped
  <2>8. RunningIsTheJobs' /\ MaintenanceIsServed'
    BY <2>3 DEF UpdateSound, RunningIsTheJobs, MaintenanceIsServed
  <2>9. SwitchesAreWatched'
    <3>1. \A s \in tasks' : s.at = "watchUpdate" => s \in tasks
      BY <2>3, <2>4
    <3> QED
      BY <1>1, <2>5, <3>1 DEF UpdateSound, SwitchesAreWatched, AgentType
  <2> QED
    BY <2>7, <2>8, <2>9 DEF UpdateSound
<1> QED
  BY <1>3, <1>4, <1>5, <1>6

\* A goroutine ends and gives its flags back: `running` in any case, and if it
\* served the maintenance then that too.
LEMMA GoroutineStops ==
  ASSUME UpdateSound, NEW t \in tasks, NEW flags, "running" \in flags,
         t.at \in Serving => "maintenance" \in flags,
         Update!Stops(t, flags), PanelsKnow', agent' \in AgentType, SwitchesAreWatched'
  PROVE  UpdateSound'
<1>1. PICK d : d = Update!Ended(coordinator, t.job, "failed", flags)
  OBVIOUS
<1>2. /\ d \in CoordinatorType /\ ~d.running
      /\ d.maintenance = (coordinator.maintenance /\ "maintenance" \notin flags)
  <2>1. "failed" \in Update!JobStates
    BY DEF Update!JobStates
  <2> QED
    BY <1>1, <2>1, GivenBack DEF UpdateSound, UpdateTyped, CoordinatorType
<1>3. coordinator' = d /\ tasks' = tasks \ {t}
  BY <1>1 DEF Update!Stops
<1> QED
  BY <1>2, <1>3
     DEF UpdateSound, UpdateTyped, RunningIsTheJobs, MaintenanceIsServed, Serving

\* A goroutine goes on with its job, and with the maintenance if it serves that.
LEMMA GoroutineGoesOn ==
  ASSUME UpdateSound, NEW t \in tasks, NEW d \in CoordinatorType, NEW next \in GoroutineType,
         Update!GoesOn(t, d, next), next.job = t.job,
         d.running = coordinator.running,
         coordinator.job # None => d.job # None /\ d.job.id = coordinator.job.id,
         coordinator.job # None /\ coordinator.job.id # t.job => d.job = coordinator.job,
         d.maintenance => coordinator.maintenance \/ next.at \in Serving,
         t.at \in Serving => next.at \in Serving,
         PanelsKnow', agent' \in AgentType, SwitchesAreWatched'
  PROVE  UpdateSound'
<1>1. coordinator' = d /\ tasks' = (tasks \ {t}) \cup {next}
  BY DEF Update!GoesOn
<1>2. UpdateTyped'
  BY <1>1 DEF UpdateSound, UpdateTyped
<1>3. RunningIsTheJobs'
  BY <1>1 DEF UpdateSound, RunningIsTheJobs
<1>4. MaintenanceIsServed'
  BY <1>1 DEF UpdateSound, MaintenanceIsServed
<1> QED
  BY <1>2, <1>3, <1>4 DEF UpdateSound

\* The updater's state is the goroutines' to read and to change by name.
LEMMA WatchesStand ==
  ASSUME UpdateSound, NEW t \in tasks, agent' = agent,
         \/ tasks' = tasks \ {t}
         \/ \E next : tasks' = (tasks \ {t}) \cup {next} /\ next.at # "watchUpdate"
  PROVE  SwitchesAreWatched'
BY DEF UpdateSound, SwitchesAreWatched

\* A call the updater takes makes it a new job, which no goroutine watches yet.
LEMMA NewJob ==
  ASSUME UpdateSound, NEW t \in tasks, NEW state \in {"pulling", "queued"}, t.target \in Int,
         agent' = [agent EXCEPT !.state = state, !.job = agent.count + 1, !.count = @ + 1,
                                !.from = coordinator.version, !.target = t.target],
         \/ tasks' = tasks \ {t}
         \/ \E next : /\ tasks' = (tasks \ {t}) \cup {next}
                      /\ next.at = "watchUpdate" => state = "queued" /\ next.watch = agent.count + 1
  PROVE  agent' \in AgentType /\ SwitchesAreWatched'
<1>1. agent \in AgentType /\ coordinator.version \in Int
  BY DEF UpdateSound, UpdateTyped, CoordinatorType
<1>2. agent' = [state |-> state, job |-> agent.count + 1, target |-> t.target,
                from |-> coordinator.version, staged |-> agent.staged, count |-> agent.count + 1]
  BY <1>1 DEF AgentType
<1>3. agent' \in AgentType /\ agent'.job = agent.count + 1 /\ agent'.count = agent.count + 1
      /\ agent'.state = state
  <2>1. PICK count, target, from, staged :
          /\ count = agent.count + 1 /\ target = t.target /\ from = coordinator.version
          /\ staged = agent.staged
    OBVIOUS
  <2>2. count \in Nat /\ target \in Int /\ from \in Int /\ staged \in BOOLEAN
    BY <1>1, <2>1 DEF AgentType
  <2>3. agent' = [state |-> state, job |-> count, target |-> target, from |-> from,
                  staged |-> staged, count |-> count]
    BY <1>2, <2>1
  <2> QED
    BY <2>1, <2>2, <2>3 DEF AgentType
<1>4. \A s \in tasks : s.at = "watchUpdate" => s.watch \in Nat
  BY DEF UpdateSound, UpdateTyped, GoroutineType, CancelType
<1> QED
  BY <1>1, <1>3, <1>4 DEF UpdateSound, SwitchesAreWatched, AgentType

\* The steps of a goroutine, from its job's start to its end.
LEMMA GoroutineSteps ==
  ASSUME UpdateSound, NEW t \in tasks,
         \/ Update!CheckRelease(t) \/ Update!SubmitPrepare(t) \/ Update!WatchImage(t)
         \/ Update!CheckRestore(t) \/ Update!Backup(t) \/ Update!SubmitApply(t)
         \/ Update!WatchUpdate(t)
  PROVE  UpdateSound'
<1>1. /\ coordinator \in CoordinatorType /\ agent \in AgentType
      /\ t.at # "cancel" /\ t \in GoroutineType
  BY DEF UpdateSound, UpdateTyped, CancelType, Update!CheckRelease, Update!SubmitPrepare,
         Update!WatchImage, Update!CheckRestore, Update!Backup, Update!SubmitApply,
         Update!WatchUpdate
<1>2. t.job \in JobIds /\ t.target \in Int /\ t.watch \in Nat
  BY <1>1 DEF GoroutineType
<1>3. PanelsKnow'
  <2>1. UNCHANGED <<panel, gets>>
    BY DEF Update!CheckRelease, Update!SubmitPrepare, Update!WatchImage, Update!CheckRestore,
           Update!Backup, Update!SubmitApply, Update!WatchUpdate
  <2> QED
    BY <2>1 DEF UpdateSound, UpdateTyped, PanelsKnow
<1>4. ASSUME agent' = agent, NEW flags, "running" \in flags,
             t.at \in Serving => "maintenance" \in flags, Update!Stops(t, flags)
      PROVE  UpdateSound'
  <2>1. SwitchesAreWatched'
    BY <1>4, WatchesStand DEF Update!Stops
  <2> QED
    BY <1>1, <1>3, <1>4, <2>1, GoroutineStops
<1>5. Latest \in Int
  BY ConsoleAssumption DEF ConsoleAssumption, Update!UpdateAssumption
<1>6. CASE Update!CheckRelease(t)
  <2>1. agent' = agent /\ t.at = "check"
    BY <1>6 DEF Update!CheckRelease
  <2>2. CASE Update!Stops(t, {"running"})
    BY <1>4, <2>1, <2>2 DEF Serving
  <2>3. CASE ~Update!Stops(t, {"running"})
    <3>1. PICK c : c = Update!Mutate(coordinator, t.job, [target |-> Latest])
      OBVIOUS
    <3>2. PICK d : d = Update!Mutate(c, t.job, [state |-> "submitting"])
      OBVIOUS
    <3>3. [target |-> Latest] \in ChangeType /\ [state |-> "submitting"] \in ChangeType
      BY <1>5 DEF ChangeType, Update!JobStates
    <3>4. /\ c \in CoordinatorType /\ c.running = coordinator.running
          /\ c.maintenance = coordinator.maintenance
          /\ coordinator.job # None => c.job # None /\ c.job.id = coordinator.job.id
          /\ coordinator.job # None /\ coordinator.job.id # t.job => c.job = coordinator.job
      BY <1>1, <3>1, <3>3, Mutated
    <3>5. /\ d \in CoordinatorType /\ d.running = coordinator.running
          /\ d.maintenance = coordinator.maintenance
          /\ coordinator.job # None => d.job # None /\ d.job.id = coordinator.job.id
          /\ coordinator.job # None /\ coordinator.job.id # t.job => d.job = coordinator.job
      BY <3>2, <3>3, <3>4, Mutated
    <3>6. \/ Update!GoesOn(t, d, [t EXCEPT !.at = "submit", !.target = Latest])
          \/ Update!GoesOn(t, [c EXCEPT !.maintenance = TRUE],
                           [t EXCEPT !.at = "backup", !.target = Latest, !.shot = TRUE])
      BY <1>6, <2>3, <3>1, <3>2 DEF Update!CheckRelease
    <3>7. PICK n \in GoroutineType, e \in CoordinatorType :
            /\ Update!GoesOn(t, e, n) /\ n.job = t.job /\ n.at # "watchUpdate"
            /\ e.job = c.job \/ e.job = d.job
            /\ e.running = coordinator.running
            /\ e.maintenance => coordinator.maintenance \/ n.at \in Serving
      <4>1. CASE Update!GoesOn(t, d, [t EXCEPT !.at = "submit", !.target = Latest])
        <5> DEFINE n == [t EXCEPT !.at = "submit", !.target = Latest]
        <5>1. n \in GoroutineType /\ n.job = t.job /\ n.at = "submit"
          BY <1>1, <1>5 DEF GoroutineType
        <5> QED
          BY <3>5, <4>1, <5>1
      <4>2. CASE Update!GoesOn(t, [c EXCEPT !.maintenance = TRUE],
                               [t EXCEPT !.at = "backup", !.target = Latest, !.shot = TRUE])
        <5> DEFINE n == [t EXCEPT !.at = "backup", !.target = Latest, !.shot = TRUE]
                   e == [c EXCEPT !.maintenance = TRUE]
        <5>1. n \in GoroutineType /\ n.job = t.job /\ n.at = "backup"
          BY <1>1, <1>5 DEF GoroutineType
        <5>2. e \in CoordinatorType /\ e.job = c.job /\ e.running = c.running
          BY <3>4 DEF CoordinatorType
        <5> HIDE DEF n, e
        <5>3. Update!GoesOn(t, e, n)
          BY <4>2 DEF n, e
        <5> QED
          BY <3>4, <5>1, <5>2, <5>3 DEF Serving
      <4> QED
        BY <3>6, <4>1, <4>2
    <3>8. SwitchesAreWatched'
      BY <2>1, <3>7, WatchesStand DEF Update!GoesOn
    <3> QED
      BY <1>1, <1>3, <2>1, <3>4, <3>5, <3>7, <3>8, GoroutineGoesOn DEF Serving
  <2> QED
    BY <2>2, <2>3
<1>7. ASSUME NEW change \in ChangeType, NEW n \in GoroutineType, n.job = t.job,
             Update!GoesOn(t, Update!Mutate(coordinator, t.job, change), n),
             t.at \in Serving => n.at \in Serving, agent' \in AgentType, SwitchesAreWatched'
      PROVE  UpdateSound'
  <2>1. PICK d : d = Update!Mutate(coordinator, t.job, change)
    OBVIOUS
  <2>2. /\ d \in CoordinatorType /\ d.running = coordinator.running
        /\ d.maintenance = coordinator.maintenance
        /\ coordinator.job # None => d.job # None /\ d.job.id = coordinator.job.id
        /\ coordinator.job # None /\ coordinator.job.id # t.job => d.job = coordinator.job
    BY <1>1, <2>1, Mutated
  <2>3. Update!GoesOn(t, d, n)
    BY <1>7, <2>1
  <2> QED
    BY <1>3, <1>7, <2>2, <2>3, GoroutineGoesOn
<1>8. CASE Update!SubmitPrepare(t)
  <2> DEFINE pulled == [agent EXCEPT !.state = "pulling", !.job = agent.count + 1, !.count = @ + 1,
                                     !.from = coordinator.version, !.target = t.target]
             n == [t EXCEPT !.at = "watchImage", !.watch = agent.count + 1]
  <2>1. t.at = "submit" /\ pulled.job = agent.count + 1
    BY <1>1, <1>8 DEF Update!SubmitPrepare, AgentType
  <2>2. \/ Update!Stops(t, {"running"}) /\ agent' \in {agent, pulled}
        \/ /\ agent' = pulled
           /\ Update!GoesOn(t, Update!Mutate(coordinator, t.job, [state |-> "preparing_image"]), n)
    BY <1>8, <2>1 DEF Update!SubmitPrepare
  <2>3. CASE Update!Stops(t, {"running"}) /\ agent' = agent
    BY <1>4, <2>1, <2>3 DEF Serving
  <2>4. CASE Update!Stops(t, {"running"}) /\ agent' = pulled
    <3>1. tasks' = tasks \ {t}
      BY <2>4 DEF Update!Stops
    <3>2. agent' \in AgentType /\ SwitchesAreWatched'
      BY <1>2, <2>4, <3>1, NewJob
    <3> QED
      BY <1>3, <2>1, <2>4, <3>2, GoroutineStops DEF Serving
  <2>5. CASE /\ agent' = pulled
             /\ Update!GoesOn(t, Update!Mutate(coordinator, t.job, [state |-> "preparing_image"]), n)
    <3>1. n \in GoroutineType /\ n.job = t.job /\ n.at = "watchImage"
      <4>1. PICK count : count = agent.count + 1
        OBVIOUS
      <4>2. count \in Nat
        BY <1>1, <4>1 DEF AgentType
      <4>3. n = [t EXCEPT !.at = "watchImage", !.watch = count]
        BY <4>1
      <4> HIDE DEF n
      <4> QED
        BY <1>1, <4>1, <4>2, <4>3 DEF GoroutineType
    <3>2. PICK m : m = n
      OBVIOUS
    <3> HIDE DEF n
    <3>3. tasks' = (tasks \ {t}) \cup {m}
      BY <2>5, <3>2 DEF Update!GoesOn
    <3>4. agent' \in AgentType /\ SwitchesAreWatched'
      BY <1>2, <2>5, <3>1, <3>2, <3>3, NewJob
    <3>5. [state |-> "preparing_image"] \in ChangeType
      BY DEF ChangeType, Update!JobStates
    <3> QED
      BY <1>7, <2>1, <2>5, <3>1, <3>2, <3>4, <3>5 DEF Serving
  <2> QED
    BY <2>2, <2>3, <2>4, <2>5
<1>9. CASE Update!WatchImage(t)
  <2>1. agent' = agent /\ t.at = "watchImage"
    BY <1>9 DEF Update!WatchImage
  <2>2. CASE Update!Stops(t, {"running"})
    BY <1>4, <2>1, <2>2 DEF Serving
  <2>3. CASE ~Update!Stops(t, {"running"})
    <3>1. PICK d : d = Update!Mutate(coordinator, t.job, [state |-> "ready_to_apply"])
      OBVIOUS
    <3>2. coordinator' = d /\ tasks' = tasks \ {t}
      BY <1>9, <2>3, <3>1 DEF Update!WatchImage
    <3>3. [state |-> "ready_to_apply"] \in ChangeType
      BY DEF ChangeType, Update!JobStates
    <3>4. /\ d \in CoordinatorType /\ d.running = coordinator.running
          /\ d.maintenance = coordinator.maintenance
          /\ coordinator.job # None => d.job # None /\ d.job.id = coordinator.job.id
          /\ coordinator.job # None /\ coordinator.job.id # t.job => d.job = coordinator.job
          /\ coordinator.job # None /\ coordinator.job.id = t.job => d.job.state = "ready_to_apply"
      BY <1>1, <3>1, <3>3, Mutated
    <3>5. UpdateTyped'
      BY <1>1, <1>3, <2>1, <3>2, <3>4 DEF UpdateSound, UpdateTyped
    <3>6. RunningIsTheJobs'
      BY <3>2, <3>4 DEF UpdateSound, RunningIsTheJobs
    <3>7. MaintenanceIsServed'
      BY <2>1, <3>2, <3>4 DEF UpdateSound, MaintenanceIsServed, Serving
    <3>8. SwitchesAreWatched'
      BY <2>1, <3>2, WatchesStand
    <3> QED
      BY <3>5, <3>6, <3>7, <3>8 DEF UpdateSound
  <2> QED
    BY <2>2, <2>3
<1>10. CASE Update!CheckRestore(t) \/ Update!Backup(t)
  <2>1. agent' = agent
    BY <1>10 DEF Update!CheckRestore, Update!Backup
  <2>2. CASE Update!Stops(t, {"running", "maintenance"})
    BY <1>4, <2>1, <2>2
  <2>3. CASE ~Update!Stops(t, {"running", "maintenance"})
    <3>1. PICK n, change :
            /\ n = [t EXCEPT !.at = "backup"] \/ n = [t EXCEPT !.at = "apply"]
            /\ change = [state |-> "backing_up"]
               \/ change = [backup |-> TRUE, state |-> "submitting"]
            /\ Update!GoesOn(t, Update!Mutate(coordinator, t.job, change), n)
      BY <1>10, <2>3 DEF Update!CheckRestore, Update!Backup
    <3>2. change \in ChangeType
      <4>1. CASE change = [state |-> "backing_up"]
        BY <4>1 DEF ChangeType, Update!JobStates
      <4>2. CASE change = [backup |-> TRUE, state |-> "submitting"]
        BY <4>2 DEF ChangeType, Update!JobStates
      <4> QED
        BY <3>1, <4>1, <4>2
    <3>3. n \in GoroutineType /\ n.job = t.job /\ n.at \in {"backup", "apply"}
      BY <1>1, <3>1 DEF GoroutineType
    <3>4. SwitchesAreWatched'
      BY <2>1, <3>1, <3>3, WatchesStand DEF Update!GoesOn
    <3> QED
      BY <1>1, <1>7, <2>1, <3>1, <3>2, <3>3, <3>4 DEF Serving
  <2> QED
    BY <2>2, <2>3
<1>11. CASE Update!SubmitApply(t)
  <2> DEFINE queued == [agent EXCEPT !.state = "queued", !.job = agent.count + 1, !.count = @ + 1,
                                     !.from = coordinator.version, !.target = t.target]
             n == [t EXCEPT !.at = "watchUpdate", !.watch = agent.count + 1]
  <2>1. queued.job = agent.count + 1
    BY <1>1 DEF AgentType
  <2>2. \/ Update!Stops(t, {"running", "maintenance"}) /\ agent' \in {agent, queued}
        \/ /\ agent' = queued
           /\ Update!GoesOn(t, Update!Mutate(coordinator, t.job, [state |-> "running"]), n)
    BY <1>11, <2>1 DEF Update!SubmitApply
  <2>3. CASE Update!Stops(t, {"running", "maintenance"}) /\ agent' = agent
    BY <1>4, <2>3
  <2>4. CASE Update!Stops(t, {"running", "maintenance"}) /\ agent' = queued
    <3>1. tasks' = tasks \ {t}
      BY <2>4 DEF Update!Stops
    <3>2. agent' \in AgentType /\ SwitchesAreWatched'
      BY <1>2, <2>4, <3>1, NewJob
    <3> QED
      BY <1>3, <2>4, <3>2, GoroutineStops
  <2>5. CASE /\ agent' = queued
             /\ Update!GoesOn(t, Update!Mutate(coordinator, t.job, [state |-> "running"]), n)
    <3>1. n \in GoroutineType /\ n.job = t.job /\ n.at = "watchUpdate" /\ n.watch = agent.count + 1
      <4>1. PICK count : count = agent.count + 1
        OBVIOUS
      <4>2. count \in Nat
        BY <1>1, <4>1 DEF AgentType
      <4>3. n = [t EXCEPT !.at = "watchUpdate", !.watch = count]
        BY <4>1
      <4> HIDE DEF n
      <4> QED
        BY <1>1, <4>1, <4>2, <4>3 DEF GoroutineType
    <3>2. PICK m : m = n
      OBVIOUS
    <3> HIDE DEF n
    <3>3. tasks' = (tasks \ {t}) \cup {m}
      BY <2>5, <3>2 DEF Update!GoesOn
    <3>4. agent' \in AgentType /\ SwitchesAreWatched'
      BY <1>2, <2>5, <3>1, <3>2, <3>3, NewJob
    <3>5. [state |-> "running"] \in ChangeType
      BY DEF ChangeType, Update!JobStates
    <3> QED
      BY <1>7, <2>5, <3>1, <3>2, <3>4, <3>5 DEF Serving
  <2> QED
    BY <2>2, <2>3, <2>4, <2>5
<1>12. CASE Update!WatchUpdate(t)
  <2>1. agent' = agent /\ t.at = "watchUpdate"
    BY <1>12 DEF Update!WatchUpdate
  <2>2. CASE Update!Stops(t, {"running", "maintenance"})
    BY <1>4, <2>1, <2>2
  <2>3. CASE ~Update!Stops(t, {"running", "maintenance"})
    <3>1. agent.state = "succeeded" /\ agent.job \in {0, t.watch}
      BY <1>12, <2>3 DEF Update!WatchUpdate
    <3> QED
      BY <2>1, <3>1 DEF UpdateSound, SwitchesAreWatched
  <2> QED
    BY <2>2, <2>3
<1> QED
  BY <1>6, <1>8, <1>9, <1>10, <1>11, <1>12

\* A cancelled job's handler gives both flags back.
LEMMA CancelStep == ASSUME UpdateSound, NEW t \in tasks, Update!CancelEnds(t) PROVE UpdateSound'
<1>1. PICK d : d = Update!Failed(coordinator, t.job)
  OBVIOUS
<1>2. d \in CoordinatorType /\ ~d.running /\ ~d.maintenance
  <2>1. "failed" \in Update!JobStates
    BY DEF Update!JobStates
  <2>2. d = Update!Ended(coordinator, t.job, "failed", {"running", "maintenance"})
    BY <1>1 DEF Update!Failed
  <2> QED
    BY <2>1, <2>2, GivenBack DEF UpdateSound, UpdateTyped, CoordinatorType
<1>3. /\ coordinator' = d /\ tasks' = tasks \ {t} /\ agent' = agent
      /\ Update!Loading(t.by, None) /\ t.at = "cancel"
  BY <1>1 DEF Update!CancelEnds
<1>4. t.by \in Panel
  BY <1>3 DEF UpdateSound, UpdateTyped, CancelType, GoroutineType
<1>5. PanelsKnow'
  <2>1. /\ panel' = [panel EXCEPT ![t.by].call = "load", ![t.by].started = None]
        /\ gets' = gets \cup {[of |-> t.by, own |-> TRUE, read |-> None]}
    BY <1>3 DEF Update!Loading
  <2>2. /\ DOMAIN panel' = Panel /\ \A o \in Panel \ {t.by} : panel'[o] = panel[o]
        /\ DOMAIN panel'[t.by] = DOMAIN panel[t.by] /\ panel'[t.by].info = panel[t.by].info
        /\ panel'[t.by].call = "load"
    BY <1>4, <2>1 DEF UpdateSound, UpdateTyped, PanelsKnow
  <2> QED
    BY <1>4, <2>1, <2>2 DEF UpdateSound, UpdateTyped, PanelsKnow
<1> QED
  BY <1>2, <1>3, <1>5
     DEF UpdateSound, UpdateTyped, RunningIsTheJobs, MaintenanceIsServed, SwitchesAreWatched

\* The updater goes on by itself; when it replaces the container, flags,
\* goroutines and requests go with the server.
LEMMA AgentSteps ==
  ASSUME UpdateSound, Update!AgentProgress \/ Update!Recreate \/ Update!RollBack
  PROVE  UpdateSound'
<1>1. coordinator \in CoordinatorType /\ agent \in AgentType
  BY DEF UpdateSound, UpdateTyped
<1>2. CASE Update!AgentProgress
  <2>1. PICK state :
          /\ agent' = [agent EXCEPT !.state = state]
          /\ \/ agent.state = "pulling" /\ state \in {"ready_to_apply", "failed"}
             \/ agent.state = "queued" /\ state = "failed"
             \/ agent.state = "recreating" /\ state = "succeeded"
    BY <1>2 DEF Update!AgentProgress
  <2>2. /\ agent' \in AgentType /\ agent'.job = agent.job /\ agent'.count = agent.count
        /\ agent'.state = state
    BY <1>1, <2>1 DEF AgentType
  <2>3. UNCHANGED <<coordinator, tasks, panel, gets>>
    BY <1>2 DEF Update!AgentProgress
  <2>4. SwitchesAreWatched'
    BY <2>1, <2>2, <2>3 DEF UpdateSound, SwitchesAreWatched
  <2> QED
    BY <2>2, <2>3, <2>4
       DEF UpdateSound, UpdateTyped, PanelsKnow, RunningIsTheJobs, MaintenanceIsServed
<1>3. ASSUME NEW state, NEW next \in {"recreating", "rolled_back"}, NEW version \in Int,
             state # "idle", Update!AgentSwitches(state, next, version)
      PROVE  UpdateSound'
  <2>1. /\ agent.state = state /\ agent' = [agent EXCEPT !.state = next]
        /\ coordinator' = [coordinator EXCEPT !.job = None, !.running = FALSE,
                                              !.maintenance = FALSE, !.version = version]
        /\ tasks' = {} /\ gets' = {}
        /\ panel' = [p \in Panel |-> [panel[p] EXCEPT !.call = ""]]
    BY <1>3 DEF Update!AgentSwitches
  <2>2. agent' \in AgentType /\ agent'.job = agent.job /\ agent'.count = agent.count
    BY <1>1, <2>1 DEF AgentType
  <2>3. coordinator' \in CoordinatorType /\ ~coordinator'.running /\ ~coordinator'.maintenance
    BY <1>1, <2>1 DEF CoordinatorType
  <2>4. PanelsKnow'
    BY <2>1 DEF UpdateSound, UpdateTyped, PanelsKnow
  <2>5. SwitchesAreWatched'
    BY <1>3, <2>1, <2>2 DEF UpdateSound, SwitchesAreWatched
  <2> QED
    BY <2>1, <2>2, <2>3, <2>4, <2>5
       DEF UpdateSound, UpdateTyped, RunningIsTheJobs, MaintenanceIsServed
<1>4. agent.target \in Int /\ agent.from \in Int
  BY <1>1 DEF AgentType
<1> QED
  BY <1>2, <1>3, <1>4 DEF Update!Recreate, Update!RollBack

\* Every step of the panels, the coordinator and the updater.
LEMMA UpdateStep == ASSUME UpdateSound, Update!UpdateNext PROVE UpdateSound'
BY PanelSteps, GetSteps, HandlerSteps, GoroutineSteps, CancelStep, AgentSteps DEF Update!UpdateNext

-----------------------------------------------------------------------------
(* The board of requests in flight *)

CardType == [expanded : BOOLEAN, demo : BOOLEAN, fallback : BOOLEAN, viewing : BOOLEAN,
             entered : BOOLEAN, still : BOOLEAN, answers : Nat, toggles : Nat]

BoardSound == card \in CardType /\ Board!NoBlankCell /\ Board!BodyShown

\* A card just mounted is collapsed.
LEMMA BoardStarts == ASSUME Board!BoardInit PROVE BoardSound
<1>1. PICK demo \in BOOLEAN, still \in BOOLEAN :
        card = [expanded |-> FALSE, demo |-> demo, fallback |-> FALSE, viewing |-> FALSE,
                entered |-> FALSE, still |-> still, answers |-> 0, toggles |-> 0]
  BY DEF Board!BoardInit
<1> QED
  BY <1>1 DEF BoardSound, CardType, Board!NoBlankCell, Board!BodyShown

\* After a handoff every cell at work has landed, flies or will be revealed: one that
\* was no pill before is shown at once, and one that was is an arrival.
LEMMA HandoffCovers ==
  ASSUME NEW prev, NEW b, NEW first, Board!Handoff(prev, b, first)
  PROVE  Board!Running(b) \subseteq landed' \cup flights' \cup reveals'
<1> SUFFICES ASSUME NEW id \in Board!Running(b), id \notin landed'
             PROVE  id \in flights' \cup reveals'
  OBVIOUS
<1> DEFINE arrived == IF prev = b THEN {} ELSE Board!Inbound(prev, b)
<1>1. PICK flown : /\ flights' = flights \cup flown /\ reveals' = reveals \cup (arrived \ flown)
                   /\ landed' = Board!LandStable(prev, b, first)
  BY DEF Board!Handoff, Board!Fly
<1>2. id \in Board!Queued(prev)
  BY <1>1 DEF Board!LandStable
<1>3. prev # b
  BY <1>2 DEF Board!Running
<1>4. id \in arrived
  BY <1>2, <1>3 DEF Board!Inbound
<1> QED
  BY <1>1, <1>4

\* With an answer or without, what the open card shows next is covered and faded in.
LEMMA BoardShown ==
  ASSUME NEW c \in CardType, NEW a, Board!Show(c, a)
  PROVE  BoardSound'
<1>1. CASE a = None
  <2>1. PICK next :
          /\ next = IF ~c.demo THEN Board!Idle
                    ELSE IF Board!IsIdle(board) THEN Board!DemoBoard ELSE board
          /\ board' = next /\ landed' = Board!LandAll(next)
    BY <1>1 DEF Board!Show, Board!ShowNone
  <2>2. PICK after : /\ after = [c EXCEPT !.fallback = c.demo, !.viewing = FALSE]
                    /\ card' = [after EXCEPT !.entered = ~c.still /\ Board!Bootstrapped(after, next, None)]
    BY <1>1, <2>1 DEF Board!Show, Board!ShowNone
  <2>3. Board!Bootstrapped(after, next, None)
    <3>1. after.demo = c.demo /\ after.fallback = c.demo
      BY <2>2 DEF CardType
    <3>2. Board!IsIdle(Board!Idle)
      BY DEF Board!IsIdle, Board!Idle
    <3> QED
      BY <2>1, <3>1, <3>2 DEF Board!Bootstrapped
  <2>4. card' \in CardType /\ card'.entered = ~c.still /\ card'.still = c.still
    BY <2>2, <2>3 DEF CardType
  <2> QED
    BY <2>1, <2>4 DEF BoardSound, Board!NoBlankCell, Board!Chrome, Board!LandAll, Board!BodyShown
<1>2. CASE a # None
  <2>1. PICK next, after :
          /\ board' = next /\ after = [c EXCEPT !.fallback = FALSE, !.viewing = TRUE]
          /\ \/ /\ c.viewing /\ c.entered /\ ~c.still /\ card' = after
                /\ Board!Handoff(board, next, Board!LandStable(board, board, landed))
             \/ /\ card' = [after EXCEPT !.entered = ~c.still /\ Board!Bootstrapped(after, next, a)]
                /\ landed' = Board!LandAll(next)
    BY <1>2, Zenon DEF Board!Show, Board!ShowLive
  <2>2. after \in CardType /\ after.viewing /\ after.still = c.still /\ after.entered = c.entered
    BY <2>1 DEF CardType
  <2>3. Board!Bootstrapped(after, next, a)
    BY <2>2 DEF Board!Bootstrapped
  <2>4. /\ card' \in CardType /\ card'.still = c.still
        /\ ~c.still => card'.entered
    BY <2>1, <2>2, <2>3 DEF CardType
  <2>5. Board!Running(next) \subseteq landed' \cup flights' \cup reveals'
    BY <2>1, HandoffCovers DEF Board!LandAll
  <2> QED
    BY <2>1, <2>4, <2>5 DEF BoardSound, Board!NoBlankCell, Board!Chrome, Board!BodyShown
<1> QED
  BY <1>1, <1>2

\* Every click, answer, tick, flight and timer.
LEMMA BoardStep == ASSUME BoardSound, Board!BoardNext PROVE BoardSound'
<1>1. card \in CardType
  BY DEF BoardSound
<1>2. CASE Board!Expand
  <2>1. PICK c : c = [card EXCEPT !.expanded = TRUE] /\ Board!Show(c, live)
    BY <1>2 DEF Board!Expand
  <2>2. c \in CardType
    BY <1>1, <2>1 DEF CardType
  <2> QED
    BY <2>1, <2>2, BoardShown
<1>3. CASE Board!ToggleDemo
  <2>1. PICK demo, toggles : demo = ~card.demo /\ toggles = card.toggles + 1
    OBVIOUS
  <2>2. PICK c : c = [card EXCEPT !.demo = demo, !.toggles = toggles] /\ Board!Show(c, live)
    BY <1>1, <1>3, <2>1 DEF Board!ToggleDemo, CardType
  <2>3. c \in CardType
    <3>1. demo \in BOOLEAN /\ toggles \in Nat
      BY <1>1, <2>1 DEF CardType
    <3> QED
      BY <1>1, <2>2, <3>1 DEF CardType
  <2> QED
    BY <2>2, <2>3, BoardShown
<1>4. ASSUME NEW a, Board!LiveAnswered(a) PROVE BoardSound'
  <2>1. PICK c : c = [card EXCEPT !.answers = @ + 1]
    OBVIOUS
  <2>2. c \in CardType /\ c.expanded = card.expanded /\ c.still = card.still /\ c.entered = card.entered
    BY <1>1, <2>1 DEF CardType
  <2>3. CASE card.expanded
    <3>1. Board!Show(c, a)
      BY <1>4, <2>1, <2>3 DEF Board!LiveAnswered
    <3> QED
      BY <2>2, <3>1, BoardShown
  <2>4. CASE ~card.expanded
    BY <1>4, <2>1, <2>2, <2>4 DEF Board!LiveAnswered, BoardSound, Board!NoBlankCell, Board!BodyShown
  <2> QED
    BY <2>3, <2>4
<1>5. CASE Board!Collapse
  <2>1. /\ card' = [card EXCEPT !.expanded = FALSE, !.fallback = FALSE, !.viewing = FALSE,
                                !.entered = FALSE]
    BY <1>5 DEF Board!Collapse
  <2>2. card' \in CardType /\ ~card'.expanded
    BY <1>1, <2>1 DEF CardType
  <2> QED
    BY <2>2 DEF BoardSound, Board!NoBlankCell, Board!BodyShown
<1>6. CASE Board!DemoTick
  <2>1. card' = card
    BY <1>6 DEF Board!DemoTick
  <2>2. PICK next : board' = next /\ Board!Handoff(board, next, landed)
    BY <1>6 DEF Board!DemoTick
  <2> QED
    BY <2>1, <2>2, HandoffCovers DEF BoardSound, Board!NoBlankCell, Board!Chrome, Board!BodyShown
<1>7. ASSUME NEW id, Board!Lands(id) \/ Board!Reveal(id) PROVE BoardSound'
  <2>1. /\ UNCHANGED <<card, board>> /\ landed' = landed \cup {id}
        /\ reveals' = reveals \ {id} /\ flights' \in {flights, flights \ {id}}
    BY <1>7 DEF Board!Lands, Board!Reveal
  <2> QED
    BY <2>1
       DEF BoardSound, Board!NoBlankCell, Board!Chrome, Board!BodyShown, Board!Running, Board!Cells,
           Board!Queued
<1> QED
  BY <1>2, <1>3, <1>4, <1>5, <1>6, <1>7 DEF Board!BoardNext

-----------------------------------------------------------------------------
(* The playground: the answer under way, and the lists of models *)

MessageType == [role : {"user", "assistant"}, chunks : Nat, status : {"done", "streaming", "error"}]

\* Questions come with their answers, so a session that has room has room for both.
ChatTyped ==
  /\ sessions \in Seq(Seq(MessageType)) /\ Len(sessions) <= MaxSessions
  /\ \A i \in 1..Len(sessions) : \E k \in 0..MaxTurns : Len(sessions[i]) = 2 * k
  /\ active \in 1..Len(sessions) /\ stream \in Play!StreamType \cup {None}

\* The message that streams is the one that is still read, in the session in view.
OneAnswer ==
  /\ stream = None =>
       /\ chat # "loading"
       /\ \A i \in 1..Len(sessions) : \A j \in 1..Len(sessions[i]) : sessions[i][j].status # "streaming"
  /\ stream # None =>
       /\ chat = "loading" /\ stream.session = active /\ stream.at \in 1..Len(sessions[active])
       /\ \A i \in 1..Len(sessions) : \A j \in 1..Len(sessions[i]) :
             sessions[i][j].status = "streaming" <=> i = active /\ j = stream.at

ChatSound == ChatTyped /\ OneAnswer

\* A list is of the account it was asked for, and so is every question's model.
CatalogSound ==
  /\ account \in ChatAccount \cup {""} /\ fetching \in ChatAccount \cup {None}
  /\ catalog.account \in ChatAccount => catalog.models \subseteq serves[catalog.account]
  /\ Play!ModelIsServed

\* The page starts with one empty session and no list.
LEMMA PlayStarts == ASSUME Play!PlaygroundInit PROVE ChatSound /\ CatalogSound
<1>1. MaxSessions \in Nat \ {0} /\ MaxTurns \in Nat
  BY ConsoleAssumption DEF ConsoleAssumption, Play!PlaygroundAssumption
<1>2. /\ sessions = << <<>> >> /\ active = 1 /\ stream = None /\ chat = "idle"
  BY DEF Play!PlaygroundInit
<1>3. ChatTyped
  <2>1. sessions \in Seq(Seq(MessageType)) /\ Len(sessions) = 1 /\ Len(sessions[1]) = 0
    BY <1>2
  <2>2. \A i \in 1..Len(sessions) : i = 1
    BY <2>1
  <2>3. 0 = 2 * 0 /\ 0 \in 0..MaxTurns /\ 1 <= MaxSessions
    BY <1>1
  <2> QED
    BY <1>2, <2>1, <2>2, <2>3 DEF ChatTyped
<1>4. OneAnswer
  BY <1>2 DEF OneAnswer
<1>5. CatalogSound
  BY DEF Play!PlaygroundInit, CatalogSound, Play!ModelIsServed
<1> QED
  BY <1>3, <1>4, <1>5 DEF ChatSound

\* What the page's property says of the messages' places.
LEMMA AnswerInView == ASSUME ChatSound PROVE Play!AnswersAreInView
<1>1. MaxSessions \in Nat /\ MaxTurns \in Nat
  BY ConsoleAssumption DEF ConsoleAssumption, Play!PlaygroundAssumption
<1>2. \A m \in Play!Streaming :
        /\ m = <<m[1], m[2]>> /\ m[1] \in 1..Len(sessions) /\ m[2] \in 1..Len(sessions[m[1]])
        /\ sessions[m[1]][m[2]].status = "streaming"
  BY <1>1 DEF Play!Streaming, ChatSound, ChatTyped
<1>3. CASE stream = None
  BY <1>2, <1>3 DEF ChatSound, OneAnswer, Play!AnswersAreInView
<1>4. CASE stream # None
  <2>1. \A m \in Play!Streaming : m = <<active, stream.at>>
    BY <1>2, <1>4 DEF ChatSound, OneAnswer
  <2>2. /\ active \in 1..Len(sessions) /\ stream.at \in 1..Len(sessions[active])
        /\ Len(sessions) \in Nat /\ Len(sessions) <= MaxSessions
        /\ sessions[active][stream.at].status = "streaming"
    BY <1>4 DEF ChatSound, ChatTyped, OneAnswer
  <2>3. PICK k \in 0..MaxTurns : Len(sessions[active]) = 2 * k
    BY <2>2 DEF ChatSound, ChatTyped
  <2>4. active \in 1..MaxSessions /\ stream.at \in 1..(2 * MaxTurns)
    BY <1>1, <2>2, <2>3
  <2>5. <<active, stream.at>> \in Play!Streaming
    BY <2>2, <2>4 DEF Play!Streaming
  <2> QED
    BY <1>4, <2>1, <2>5 DEF ChatSound, OneAnswer, Play!AnswersAreInView
<1> QED
  BY <1>3, <1>4

\* patchAssistant changes the message under way and no other, and no session's length.
LEMMA AnswerPatched ==
  ASSUME ChatSound, stream # None, NEW field, NEW value,
         \/ field = "status" /\ value \in {"done", "error"}
         \/ field = "chunks" /\ value \in Nat,
         NEW p, p = Play!PatchAssistant(field, value)
  PROVE  /\ p \in Seq(Seq(MessageType)) /\ Len(p) = Len(sessions)
         /\ \A i \in 1..Len(p) :
              /\ Len(p[i]) = Len(sessions[i])
              /\ \A j \in 1..Len(p[i]) :
                   p[i][j].status = IF i = active /\ j = stream.at /\ field = "status" THEN value
                                    ELSE sessions[i][j].status
<1>1. /\ stream.session = active /\ active \in 1..Len(sessions)
      /\ stream.at \in 1..Len(sessions[active]) /\ sessions \in Seq(Seq(MessageType))
      /\ sessions[active] \in Seq(MessageType)
  BY DEF ChatSound, ChatTyped, OneAnswer
<1>2. sessions[active][stream.at] \in MessageType
  BY <1>1
<1>3. PICK m : m = [sessions[active][stream.at] EXCEPT ![field] = value]
  OBVIOUS
<1>4. m \in MessageType /\ m.status = IF field = "status" THEN value
                                      ELSE sessions[active][stream.at].status
  <2>1. CASE field = "status" /\ value \in {"done", "error"}
    BY <1>2, <1>3, <2>1 DEF MessageType
  <2>2. CASE field = "chunks" /\ value \in Nat
    BY <1>2, <1>3, <2>2 DEF MessageType
  <2> QED
    BY <2>1, <2>2
<1>5. PICK q : q = [sessions[active] EXCEPT ![stream.at] = m]
  OBVIOUS
<1>6. /\ q \in Seq(MessageType) /\ Len(q) = Len(sessions[active])
      /\ \A j \in 1..Len(q) : q[j] = IF j = stream.at THEN m ELSE sessions[active][j]
  BY <1>1, <1>4, <1>5, ExceptSeq
<1>7. p = [sessions EXCEPT ![active] = q]
  BY <1>1, <1>3, <1>5 DEF Play!PatchAssistant
<1>8. /\ p \in Seq(Seq(MessageType)) /\ Len(p) = Len(sessions)
      /\ \A i \in 1..Len(p) : p[i] = IF i = active THEN q ELSE sessions[i]
  BY <1>1, <1>6, <1>7, ExceptSeq
<1> QED
  BY <1>4, <1>6, <1>8

\* When an answer under way ends, or there is none, no message streams.
LEMMA AnswerEnds ==
  ASSUME ChatSound, NEW value \in {"done", "error"},
         NEW p, p = Play!PatchAssistant("status", value)
  PROVE  /\ p \in Seq(Seq(MessageType)) /\ Len(p) = Len(sessions)
         /\ \A i \in 1..Len(p) :
              /\ Len(p[i]) = Len(sessions[i])
              /\ \A j \in 1..Len(p[i]) : p[i][j].status # "streaming"
<1>1. CASE stream = None
  <2>1. p = sessions
    BY <1>1 DEF Play!PatchAssistant
  <2> QED
    BY <1>1, <2>1 DEF ChatSound, ChatTyped, OneAnswer
<1>2. CASE stream # None
  <2>1. /\ p \in Seq(Seq(MessageType)) /\ Len(p) = Len(sessions)
        /\ \A i \in 1..Len(p) :
             /\ Len(p[i]) = Len(sessions[i])
             /\ \A j \in 1..Len(p[i]) :
                  p[i][j].status = IF i = active /\ j = stream.at THEN value ELSE sessions[i][j].status
    BY <1>2, AnswerPatched
  <2>2. \A i \in 1..Len(sessions) : \A j \in 1..Len(sessions[i]) :
          sessions[i][j].status = "streaming" <=> i = active /\ j = stream.at
    BY <1>2 DEF ChatSound, OneAnswer
  <2> QED
    BY <2>1, <2>2
<1> QED
  BY <1>1, <1>2

\* Whatever ends the answer leaves the sessions as long as they were.
LEMMA QuietAfter ==
  ASSUME ChatSound, NEW value \in {"done", "error"}, sessions' = Play!PatchAssistant("status", value),
         stream' = None, chat' # "loading", active' \in 1..Len(sessions)
  PROVE  ChatSound'
<1>1. /\ sessions' \in Seq(Seq(MessageType)) /\ Len(sessions') = Len(sessions)
      /\ \A i \in 1..Len(sessions') :
           /\ Len(sessions'[i]) = Len(sessions[i])
           /\ \A j \in 1..Len(sessions'[i]) : sessions'[i][j].status # "streaming"
  <2>1. PICK p : p = Play!PatchAssistant("status", value)
    OBVIOUS
  <2>2. /\ p \in Seq(Seq(MessageType)) /\ Len(p) = Len(sessions)
        /\ \A i \in 1..Len(p) :
             /\ Len(p[i]) = Len(sessions[i])
             /\ \A j \in 1..Len(p[i]) : p[i][j].status # "streaming"
    BY <2>1, AnswerEnds
  <2> QED
    BY <2>1, <2>2
<1>2. ChatTyped'
  BY <1>1 DEF ChatSound, ChatTyped
<1>3. OneAnswer'
  BY <1>1 DEF OneAnswer
<1> QED
  BY <1>2, <1>3 DEF ChatSound

\* onChatSend: the question goes to the session in view, and its answer streams there.
LEMMA ChatSends == ASSUME ChatSound, Play!OnChatSend PROVE ChatSound'
<1>1. stream = None /\ chat' = "loading" /\ active' = active /\ Len(sessions[active]) < 2 * MaxTurns
  BY DEF Play!OnChatSend, ChatSound, OneAnswer
<1>2. PICK pair : pair = <<Play!Message("user", "done"), Play!Message("assistant", "streaming")>>
  OBVIOUS
<1>3. /\ pair \in Seq(MessageType) /\ Len(pair) = 2
      /\ pair[1].status = "done" /\ pair[2].status = "streaming"
  <2>1. /\ Play!Message("user", "done") \in MessageType
        /\ Play!Message("assistant", "streaming") \in MessageType
        /\ Play!Message("user", "done").status = "done"
        /\ Play!Message("assistant", "streaming").status = "streaming"
    BY DEF Play!Message, MessageType
  <2> QED
    BY <1>2, <2>1
<1>4. /\ sessions \in Seq(Seq(MessageType)) /\ active \in 1..Len(sessions)
      /\ sessions[active] \in Seq(MessageType)
  BY DEF ChatSound, ChatTyped
<1>5. PICK q : q = sessions[active] \o pair
  OBVIOUS
<1>6. /\ q \in Seq(MessageType) /\ Len(q) = Len(sessions[active]) + 2
      /\ \A j \in 1..Len(q) :
           q[j] = IF j <= Len(sessions[active]) THEN sessions[active][j]
                  ELSE pair[j - Len(sessions[active])]
  <2>1. /\ q \in Seq(MessageType) /\ Len(q) = Len(sessions[active]) + Len(pair)
        /\ \A j \in 1..Len(sessions[active]) + Len(pair) :
             q[j] = IF j <= Len(sessions[active]) THEN sessions[active][j]
                    ELSE pair[j - Len(sessions[active])]
    BY <1>3, <1>4, <1>5, ConcatProperties
  <2> QED
    BY <1>3, <2>1
<1>7. sessions' = [sessions EXCEPT ![active] = q]
  BY <1>1, <1>2, <1>5 DEF Play!OnChatSend, Play!PatchAssistant
<1>8. /\ sessions' \in Seq(Seq(MessageType)) /\ Len(sessions') = Len(sessions)
      /\ \A i \in 1..Len(sessions') : sessions'[i] = IF i = active THEN q ELSE sessions[i]
  BY <1>4, <1>6, <1>7, ExceptSeq
<1>9. stream' = [session |-> active, at |-> Len(sessions[active]) + 2, chunks |-> 0]
  BY DEF Play!OnChatSend
<1>10. /\ stream' \in Play!StreamType /\ stream' # None
       /\ stream'.session = active /\ stream'.at = Len(q)
  <2>1. Len(sessions[active]) + 2 \in Nat /\ active \in Nat
    BY <1>4
  <2>2. stream' \in Play!StreamType
    BY <1>9, <2>1 DEF Play!StreamType
  <2> QED
    BY <1>6, <1>9, <2>2, ConsoleAssumption DEF ConsoleAssumption, Play!PlaygroundAssumption
<1>11. \E k \in 0..MaxTurns : Len(q) = 2 * k
  <2>1. PICK k \in 0..MaxTurns : Len(sessions[active]) = 2 * k
    BY <1>4 DEF ChatSound, ChatTyped
  <2>2. MaxTurns \in Nat
    BY ConsoleAssumption DEF ConsoleAssumption, Play!PlaygroundAssumption
  <2>3. Len(q) = 2 * (k + 1) /\ k + 1 \in 0..MaxTurns
    BY <1>1, <1>6, <2>1, <2>2
  <2> QED
    BY <2>2, <2>3
<1>12. ChatTyped'
  BY <1>1, <1>4, <1>8, <1>10, <1>11 DEF ChatSound, ChatTyped
<1>13. \A j \in 1..Len(q) : q[j].status = "streaming" <=> j = Len(q)
  <2> SUFFICES ASSUME NEW j \in 1..Len(q) PROVE q[j].status = "streaming" <=> j = Len(q)
    OBVIOUS
  <2>1. Len(sessions[active]) \in Nat
    BY <1>4
  <2>2. CASE j <= Len(sessions[active])
    <3>1. q[j] = sessions[active][j] /\ j \in 1..Len(sessions[active]) /\ j # Len(q)
      BY <1>6, <2>1, <2>2
    <3>2. sessions[active][j].status # "streaming"
      BY <1>1, <1>4, <3>1 DEF ChatSound, OneAnswer
    <3> QED
      BY <3>1, <3>2
  <2>3. CASE j = Len(sessions[active]) + 1
    BY <1>3, <1>6, <2>1, <2>3
  <2>4. CASE j = Len(sessions[active]) + 2
    BY <1>3, <1>6, <2>1, <2>4
  <2> QED
    BY <1>6, <2>1, <2>2, <2>3, <2>4
<1>14. Len(q) \in 1..Len(q)
  BY <1>4, <1>6
<1>15. OneAnswer'
  BY <1>1, <1>4, <1>8, <1>10, <1>13, <1>14 DEF ChatSound, OneAnswer
<1> QED
  BY <1>12, <1>15 DEF ChatSound

\* Every chunk, end, stop, change of session and new chat.
LEMMA ChatSteps ==
  ASSUME ChatSound,
         \/ Play!OnContent \/ Play!StreamDone \/ Play!StopChat \/ Play!OnNewChat
         \/ \E s \in 1..MaxSessions : Play!OnSelectSession(s)
  PROVE  ChatSound'
<1>1. active \in 1..Len(sessions)
  BY DEF ChatSound, ChatTyped
<1>2. CASE Play!StreamDone
  BY <1>1, <1>2, QuietAfter DEF Play!StreamDone
<1>3. CASE Play!StopChat
  BY <1>1, <1>3, QuietAfter DEF Play!StopChat
<1>4. ASSUME NEW s \in 1..MaxSessions, Play!OnSelectSession(s) PROVE ChatSound'
  BY <1>4, QuietAfter DEF Play!OnSelectSession
<1>5. CASE Play!OnContent
  <2>1. /\ stream # None /\ stream \in Play!StreamType
        /\ stream' = [stream EXCEPT !.chunks = @ + 1] /\ active' = active /\ chat' = chat
        /\ sessions' = Play!PatchAssistant("chunks", stream.chunks + 1)
    BY <1>5 DEF Play!OnContent, ChatSound, ChatTyped
  <2>2. /\ stream' \in Play!StreamType /\ stream'.session = stream.session
        /\ stream'.at = stream.at /\ stream.chunks + 1 \in Nat
    BY <2>1 DEF Play!StreamType
  <2>3. PICK p : p = Play!PatchAssistant("chunks", stream.chunks + 1)
    OBVIOUS
  <2>4. /\ p \in Seq(Seq(MessageType)) /\ Len(p) = Len(sessions)
        /\ \A i \in 1..Len(p) :
             /\ Len(p[i]) = Len(sessions[i])
             /\ \A j \in 1..Len(p[i]) : p[i][j].status = sessions[i][j].status
    BY <2>1, <2>2, <2>3, AnswerPatched
  <2>5. stream' # None
    BY <2>2, ConsoleAssumption DEF ConsoleAssumption, Play!PlaygroundAssumption
  <2>6. sessions' = p
    BY <2>1, <2>3
  <2>7. ChatTyped'
    BY <2>1, <2>2, <2>4, <2>6 DEF ChatSound, ChatTyped
  <2>8. OneAnswer'
    <3>1. /\ chat = "loading" /\ stream.session = active /\ stream.at \in 1..Len(sessions[active])
          /\ \A i \in 1..Len(sessions) : \A j \in 1..Len(sessions[i]) :
                sessions[i][j].status = "streaming" <=> i = active /\ j = stream.at
      BY <2>1 DEF ChatSound, OneAnswer
    <3>2. /\ Len(sessions') = Len(sessions) /\ Len(sessions'[active]) = Len(sessions[active])
          /\ \A i \in 1..Len(sessions') : \A j \in 1..Len(sessions'[i]) :
                sessions'[i][j].status = "streaming" <=> i = active /\ j = stream.at
      <4>1. Len(sessions') = Len(sessions) /\ Len(sessions'[active]) = Len(sessions[active])
        BY <1>1, <2>4, <2>6
      <4>2. ASSUME NEW i \in 1..Len(sessions'), NEW j \in 1..Len(sessions'[i])
            PROVE  sessions'[i][j].status = "streaming" <=> i = active /\ j = stream.at
        <5>1. i \in 1..Len(p) /\ sessions'[i] = p[i]
          BY <2>6
        <5>2. /\ i \in 1..Len(sessions) /\ j \in 1..Len(sessions[i])
              /\ p[i][j].status = sessions[i][j].status
          BY <2>4, <5>1
        <5> QED
          BY <3>1, <5>1, <5>2
      <4> QED
        BY <4>1, <4>2
    <3> QED
      BY <2>1, <2>2, <2>5, <3>1, <3>2 DEF OneAnswer
  <2> QED
    BY <2>7, <2>8 DEF ChatSound
<1>6. CASE Play!OnNewChat
  <2>1. PICK p : p = Play!PatchAssistant("status", "done")
    OBVIOUS
  <2>2. /\ p \in Seq(Seq(MessageType)) /\ Len(p) = Len(sessions)
        /\ \A i \in 1..Len(p) :
             /\ Len(p[i]) = Len(sessions[i])
             /\ \A j \in 1..Len(p[i]) : p[i][j].status # "streaming"
    BY <2>1, AnswerEnds
  <2>3. /\ sessions' = Append(p, <<>>) /\ active' = Len(sessions) + 1 /\ stream' = None
        /\ chat' # "loading" /\ Len(sessions) < MaxSessions
    BY <1>6, <2>1 DEF Play!OnNewChat
  <2>4. /\ sessions' \in Seq(Seq(MessageType)) /\ Len(sessions') = Len(sessions) + 1
        /\ \A i \in 1..Len(sessions') : IF i = Len(sessions) + 1 THEN sessions'[i] = <<>>
                                        ELSE i \in 1..Len(sessions) /\ sessions'[i] = p[i]
    BY <2>2, <2>3, AppendProperties
  <2>5. MaxSessions \in Nat /\ MaxTurns \in Nat /\ Len(sessions) \in Nat
    BY ConsoleAssumption DEF ConsoleAssumption, Play!PlaygroundAssumption, ChatSound, ChatTyped
  <2>6. \A i \in 1..Len(sessions') :
          /\ \E k \in 0..MaxTurns : Len(sessions'[i]) = 2 * k
          /\ \A j \in 1..Len(sessions'[i]) : sessions'[i][j].status # "streaming"
    <3> SUFFICES ASSUME NEW i \in 1..Len(sessions')
                 PROVE  /\ \E k \in 0..MaxTurns : Len(sessions'[i]) = 2 * k
                        /\ \A j \in 1..Len(sessions'[i]) : sessions'[i][j].status # "streaming"
      OBVIOUS
    <3>1. CASE i = Len(sessions) + 1
      <4>1. Len(sessions'[i]) = 0 /\ 0 = 2 * 0 /\ 0 \in 0..MaxTurns
        BY <2>4, <2>5, <3>1
      <4> QED
        BY <4>1
    <3>2. CASE i # Len(sessions) + 1
      BY <2>2, <2>4, <3>2 DEF ChatSound, ChatTyped
    <3> QED
      BY <3>1, <3>2
  <2>7. ChatTyped'
    BY <2>3, <2>4, <2>5, <2>6 DEF ChatTyped
  <2>8. OneAnswer'
    BY <2>3, <2>6 DEF OneAnswer
  <2> QED
    BY <2>7, <2>8 DEF ChatSound
<1> QED
  BY <1>2, <1>3, <1>4, <1>5, <1>6

\* The lists: whose they are, and whose a question's model is.
LEMMA CatalogSteps == ASSUME CatalogSound, Play!PlaygroundNext PROVE CatalogSound'
<1>1. CASE Play!OnChatSend
  <2>1. UNCHANGED <<account, catalog, fetching, serves>> /\ Play!CatalogReady
    BY <1>1 DEF Play!OnChatSend
  <2>2. PICK m \in Play!SelectedModels : sent' = [account |-> account, model |-> m]
    BY <1>1 DEF Play!OnChatSend
  <2>3. m \in Play!Models
    BY DEF Play!SelectedModels
  <2>4. account # "" => m \in serves[account]
    BY <2>1, <2>3 DEF CatalogSound, Play!Models, Play!CatalogReady
  <2> QED
    BY <2>1, <2>2, <2>4 DEF CatalogSound, Play!ModelIsServed
<1>2. CASE \/ Play!OnContent \/ Play!StreamDone \/ Play!StopChat \/ Play!OnNewChat \/ Play!OnMount
           \/ \E s \in 1..MaxSessions : Play!OnSelectSession(s)
           \/ \E m \in ChatModel : Play!OnModelChange(m)
  <2>1. UNCHANGED <<account, catalog, fetching, serves, sent>>
    BY <1>2 DEF Play!OnContent, Play!StreamDone, Play!StopChat, Play!OnNewChat, Play!OnMount,
                Play!OnSelectSession, Play!OnModelChange, Play!catalogVars
  <2> QED
    BY <2>1 DEF CatalogSound, Play!ModelIsServed
<1>3. CASE Play!CatalogAnswers
  <2>1. PICK ms \in {serves[fetching], {}} : catalog' = [account |-> fetching, models |-> ms]
    BY <1>3 DEF Play!CatalogAnswers
  <2>2. UNCHANGED <<account, serves, sent>> /\ fetching' = None
    BY <1>3 DEF Play!CatalogAnswers
  <2> QED
    BY <2>1, <2>2 DEF CatalogSound, Play!ModelIsServed
<1>4. ASSUME NEW a \in ChatAccount \cup {""}, Play!OnAccountChange(a) PROVE CatalogSound'
  <2>1. /\ UNCHANGED <<catalog, serves, sent>> /\ account' = a
        /\ fetching' = IF a = "" THEN None ELSE a
    BY <1>4 DEF Play!OnAccountChange
  <2> QED
    BY <2>1 DEF CatalogSound, Play!ModelIsServed
<1> QED
  BY <1>1, <1>2, <1>3, <1>4 DEF Play!PlaygroundNext

\* Every step of the page.
LEMMA PlayStep ==
  ASSUME ChatSound, CatalogSound, Play!PlaygroundNext
  PROVE  ChatSound' /\ CatalogSound'
<1>1. CASE Play!OnMount \/ Play!CatalogAnswers
           \/ (\E a \in ChatAccount \cup {""} : Play!OnAccountChange(a))
           \/ (\E m \in ChatModel : Play!OnModelChange(m))
  <2>1. UNCHANGED <<sessions, active, chat, stream>>
    BY <1>1 DEF Play!OnMount, Play!CatalogAnswers, Play!OnAccountChange, Play!OnModelChange
  <2> QED
    BY <2>1, CatalogSteps DEF ChatSound, ChatTyped, OneAnswer
<1> QED
  BY <1>1, CatalogSteps, ChatSends, ChatSteps DEF Play!PlaygroundNext

-----------------------------------------------------------------------------
(* The console: one of these parts is mounted, or another *)

\* What holds of the part that is mounted.
PageSound ==
  /\ part = "settings" => SettingsSound
  /\ part = "update" => UpdateSound
  /\ part = "board" => BoardSound
  /\ part = "playground" => ChatSound /\ CatalogSound

\* A part just mounted is sound.
LEMMA PageStarts == ASSUME Init PROVE PageSound
<1>1. part = "settings" => SettingsSound
  BY SettingsStart DEF Init, SettingsInit
<1>2. part = "update" => UpdateSound
  BY UpdateStarts DEF Init, UpdateInit
<1>3. part = "board" => BoardSound
  BY BoardStarts DEF Init, BoardInit
<1>4. part = "playground" => ChatSound /\ CatalogSound
  BY PlayStarts DEF Init, PlayInit
<1> QED
  BY <1>1, <1>2, <1>3, <1>4 DEF PageSound

\* The mounted part's step keeps it so; a step of nobody changes nothing.
LEMMA PageStep == ASSUME PageSound, [Next]_vars PROVE PageSound'
<1>1. CASE Next
  <2>1. part' = part
    BY <1>1 DEF Next
  <2>2. part = "settings" => SettingsSound'
    BY <1>1, SettingsStep DEF Next, PageSound
  <2>3. part = "update" => UpdateSound'
    BY <1>1, UpdateStep DEF Next, PageSound
  <2>4. part = "board" => BoardSound'
    BY <1>1, BoardStep DEF Next, PageSound
  <2>5. part = "playground" => ChatSound' /\ CatalogSound'
    BY <1>1, PlayStep DEF Next, PageSound
  <2> QED
    BY <2>1, <2>2, <2>3, <2>4, <2>5 DEF PageSound
<1>2. CASE UNCHANGED vars
  <2>1. /\ part' = part
        /\ UNCHANGED settingsVars /\ UNCHANGED updateVars /\ UNCHANGED boardVars
        /\ UNCHANGED playgroundVars
    BY <1>2 DEF vars
  <2>2. part = "settings" => SettingsSound'
    <3>1. UNCHANGED <<proxy, patches>>
      BY <2>1 DEF settingsVars
    <3>2. Settings!Holding' = Settings!Holding
      BY <3>1 DEF Settings!Holding
    <3> QED
      BY <2>1, <3>1, <3>2, OthersMove DEF PageSound, SettingsSound, PatchesTyped
  <2>3. part = "update" => UpdateSound'
    BY <2>1 DEF PageSound, updateVars, UpdateSound, UpdateTyped, PanelsKnow, RunningIsTheJobs,
                MaintenanceIsServed, SwitchesAreWatched
  <2>4. part = "board" => BoardSound'
    BY <2>1 DEF PageSound, boardVars, BoardSound, Board!NoBlankCell, Board!Chrome, Board!BodyShown,
                Board!Running, Board!Cells, Board!Queued
  <2>5. part = "playground" => ChatSound' /\ CatalogSound'
    BY <2>1 DEF PageSound, playgroundVars, ChatSound, ChatTyped, OneAnswer, CatalogSound,
                Play!ModelIsServed
  <2> QED
    BY <2>1, <2>2, <2>3, <2>4, <2>5 DEF PageSound
<1> QED
  BY <1>1, <1>2

\* Whatever is mounted, its invariant holds in every state.
THEOREM PagesStaySound == Spec => []PageSound
<1>1. Init => PageSound
  BY PageStarts
<1>2. PageSound /\ [Next]_vars => PageSound'
  BY PageStep
<1> QED
  BY <1>1, <1>2, PTL DEF Spec

\* WorkersRunTheStoredProxy: between PATCHes every worker runs with the stored
\* address or a reload is known to be pending, for any number of workers, operators,
\* requests, failed writes, failed restarts and restarts of the server.
THEOREM WorkersFollowTheProxy == Spec => []WorkersRunTheStoredProxy
<1>1. SettingsSound => Settings!WorkersRunTheStoredProxy
  BY DEF SettingsSound, RunsConfigured, ConfigIsStored, Settings!WorkersRunTheStoredProxy
<1>2. PageSound => WorkersRunTheStoredProxy
  BY <1>1 DEF PageSound, WorkersRunTheStoredProxy
<1> QED
  BY <1>2, PagesStaySound, PTL

\* NoLockOut: a flag that refuses updates or requests is held only while somebody is
\* there to give it back, for any number of panels, jobs, versions and goroutines.
THEOREM NobodyIsLockedOut == Spec => []NoLockOut
<1>1. UpdateSound => Update!NoLockOut
  BY DEF UpdateSound, RunningIsTheJobs, MaintenanceIsServed, Serving, Update!NoLockOut
<1>2. PageSound => NoLockOut
  BY <1>1 DEF PageSound, NoLockOut
<1> QED
  BY <1>2, PagesStaySound, PTL

\* NoBlankCell: every cell at work of the open board is shown, flown to or about to
\* be revealed, and the board is faded in, for any requests, accounts, cells,
\* answers and clicks.
THEOREM NoCellStaysBlank == Spec => []NoBlankCell
<1>1. PageSound => NoBlankCell
  BY DEF PageSound, BoardSound, NoBlankCell
<1> QED
  BY <1>1, PagesStaySound, PTL

\* ChatIsInView: one message streams, the one that is read, in the session in view,
\* and a chosen account is asked for a model it serves, for any number of sessions,
\* questions, chunks, accounts and late lists.
THEOREM ChatStaysInView == Spec => []ChatIsInView
<1>1. ChatSound /\ CatalogSound => Play!AnswersAreInView /\ Play!ModelIsServed
  BY AnswerInView DEF CatalogSound
<1>2. PageSound => ChatIsInView
  BY <1>1 DEF PageSound, ChatIsInView
<1> QED
  BY <1>2, PagesStaySound, PTL

-----------------------------------------------------------------------------
(* The detail of a request *)

\* Calls carry versions the dialog has had; one of the present version is for the
\* row the open dialog was opened for.
DetailSound ==
  /\ detail \in [open : BOOLEAN, opened : LogRow \cup {None}, selected : LogRow \cup {None},
                 loading : BOOLEAN, error : BOOLEAN, version : Nat]
  /\ detailCalls \subseteq [row : LogRow, version : Nat]
  /\ \A c \in detailCalls :
       /\ c.version <= detail.version
       /\ c.version = detail.version => detail.open /\ c.row = detail.opened
  /\ Detail!DetailIsOpened

\* A page just mounted has no dialog open.
LEMMA DetailStarts == ASSUME Detail!DetailInit PROVE DetailSound
BY DEF Detail!DetailInit, Detail!NoDetail, Detail!DetailIsOpened, DetailSound

\* Every opening, closing and answer keeps the dialog's own.
LEMMA DetailStep == ASSUME DetailSound, Detail!DetailNext PROVE DetailSound'
<1>1. ASSUME NEW r \in LogRow, Detail!OpenDetail(r) PROVE DetailSound'
  <2>1. detail.version \in Nat /\ detail.version + 1 \in Nat
    BY DEF DetailSound
  <2>2. /\ detail' = [open |-> TRUE, opened |-> r, selected |-> r, loading |-> TRUE,
                      error |-> FALSE, version |-> detail.version + 1]
        /\ detailCalls' = detailCalls \cup {[row |-> r, version |-> detail.version + 1]}
    BY <1>1 DEF Detail!OpenDetail
  <2>3. \A c \in detailCalls : c.version \in Nat /\ c.version <= detail.version
    BY DEF DetailSound
  <2> QED
    BY <2>1, <2>2, <2>3 DEF DetailSound, Detail!DetailIsOpened
<1>2. ASSUME Detail!CloseDetail PROVE DetailSound'
  <2>1. detail.version \in Nat
    BY DEF DetailSound
  <2>2. /\ detail' = [open |-> FALSE, opened |-> None, selected |-> None, loading |-> FALSE,
                      error |-> FALSE, version |-> detail.version + 1]
        /\ detailCalls' = detailCalls
    BY <1>2 DEF Detail!CloseDetail, Detail!NoDetail
  <2>3. \A c \in detailCalls : c.version \in Nat /\ c.version <= detail.version
    BY DEF DetailSound
  <2> QED
    BY <2>1, <2>2, <2>3 DEF DetailSound, Detail!DetailIsOpened
<1>3. ASSUME NEW c \in detailCalls, Detail!DetailAnswered(c) PROVE DetailSound'
  <2>1. detailCalls' = detailCalls \ {c} /\ c.row \in LogRow
    BY <1>3 DEF Detail!DetailAnswered, DetailSound
  <2>2. CASE UNCHANGED detail
    BY <2>1, <2>2 DEF DetailSound, Detail!DetailIsOpened
  <2>3. ASSUME c.version = detail.version, NEW failed \in BOOLEAN,
               detail' = [detail EXCEPT !.selected = IF failed THEN @ ELSE c.row,
                                        !.error = failed, !.loading = FALSE]
        PROVE  DetailSound'
    <3>1. detail.open /\ c.row = detail.opened /\ detail.selected = detail.opened
      BY <2>3 DEF DetailSound, Detail!DetailIsOpened
    <3>2. detail' = [detail EXCEPT !.error = failed, !.loading = FALSE]
      BY <2>3, <3>1 DEF DetailSound
    <3> QED
      BY <2>1, <3>1, <3>2 DEF DetailSound, Detail!DetailIsOpened
  <2> QED
    BY <1>3, <2>2, <2>3 DEF Detail!DetailAnswered
<1> QED
  BY <1>1, <1>2, <1>3 DEF Detail!DetailNext

-----------------------------------------------------------------------------
(* The dialogs over the accounts *)

EditorType == [dialog : Nat, id : Account, of : Account, restrict : BOOLEAN,
               picked : SUBSET Model, catalog : (SUBSET Model) \cup {None}, error : BOOLEAN]

SheetType == [dialog : Nat, kind : {"models", "records"}, id : Account,
              shows : Account \cup {None}, error : BOOLEAN, loading : BOOLEAN]

SaveType == [dialog : Nat, id : Account, of : Account, at : {"sent", "stored", "failed"},
             models : SUBSET Model, restrict : BOOLEAN]

DialogsTyped ==
  /\ enabled \in [Account -> SUBSET Model]
  /\ opened \in Nat
  /\ editor # None => editor \in EditorType
  /\ sheet # None => sheet \in SheetType
  /\ saves \subseteq SaveType
  /\ fetches \subseteq [dialog : Nat, id : Account, refresh : BOOLEAN]

\* A read is of a dialog that was opened, and for its account while it is open.
ReadsAreTheDialogs ==
  \A f \in fetches :
    /\ f.dialog <= opened
    /\ editor # None /\ f.dialog = editor.dialog => f.id = editor.id
    /\ sheet # None /\ f.dialog = sheet.dialog => f.id = sheet.id

\* One dialog at a time, with a number that was given.
OneDialog ==
  /\ editor = None \/ sheet = None
  /\ sheet # None => sheet.dialog <= opened

DialogsSound ==
  DialogsTyped /\ OneDialog /\ ReadsAreTheDialogs /\ Dialogs!DialogsKeepTheirAccount

\* The accounts page starts without a dialog.
LEMMA DialogsStart == ASSUME Dialogs!DialogsInit PROVE DialogsSound
BY DEF Dialogs!DialogsInit, DialogsSound, DialogsTyped, OneDialog, ReadsAreTheDialogs,
       Dialogs!DialogsKeepTheirAccount

\* The editor's own buttons change its drafts and nothing else.
LEMMA DraftsChange ==
  ASSUME DialogsSound, editor # None, Dialogs!OnlyEditor,
         editor' \in EditorType, editor'.dialog = editor.dialog, editor'.id = editor.id,
         editor'.of = editor.of
  PROVE  DialogsSound'
BY DEF DialogsSound, DialogsTyped, OneDialog, ReadsAreTheDialogs,
       Dialogs!DialogsKeepTheirAccount,
       Dialogs!OnlyEditor

\* A dialog opened takes a number no read has.
LEMMA DialogOpens ==
  ASSUME DialogsSound, NEW a \in Account,
         \/ Dialogs!OpenEditor(a)
         \/ \E kind \in {"models", "records"} : Dialogs!OpenSheet(a, kind)
  PROVE  DialogsSound'
<1>1. opened \in Nat /\ opened' = opened + 1 /\ editor = None /\ sheet = None
  BY DEF DialogsSound, DialogsTyped, Dialogs!OpenEditor, Dialogs!OpenSheet, Dialogs!NoDialog
<1> DEFINE new == [dialog |-> opened', id |-> a, refresh |-> FALSE]
<1>2. fetches' = fetches \cup {new}
  BY DEF Dialogs!OpenEditor, Dialogs!OpenSheet, Dialogs!Fetch
<1>9. /\ new \in [dialog : Nat, id : Account, refresh : BOOLEAN]
      /\ new.dialog = opened' /\ new.id = a
  BY <1>1
<1> HIDE DEF new
<1>3. \A f \in fetches : f.dialog \in Nat /\ f.dialog <= opened /\ f.dialog # opened'
  BY <1>1 DEF DialogsSound, DialogsTyped, ReadsAreTheDialogs
<1>7. \A f \in fetches' :
        /\ f \in [dialog : Nat, id : Account, refresh : BOOLEAN]
        /\ f.dialog <= opened'
        /\ f.dialog = opened' => f.id = a
  BY <1>1, <1>2, <1>3, <1>9 DEF DialogsSound, DialogsTyped
<1>8. \E f \in fetches' : f.dialog = opened'
  BY <1>2, <1>9
<1>4. enabled' = enabled /\ saves' = saves
  BY DEF Dialogs!OpenEditor, Dialogs!OpenSheet
<1>5. CASE Dialogs!OpenEditor(a)
  <2>1. /\ editor' = [dialog |-> opened', id |-> a, of |-> a, restrict |-> Dialogs!Restricted(a),
                      picked |-> enabled[a], catalog |-> None, error |-> FALSE]
        /\ sheet' = sheet
    BY <1>5 DEF Dialogs!OpenEditor
  <2>2. editor' \in EditorType
    BY <1>1, <2>1 DEF EditorType, DialogsSound, DialogsTyped, Dialogs!Restricted
  <2>3. editor'.dialog = opened' /\ editor'.id = a /\ editor'.of = a
    BY <2>1
  <2> QED
    BY <1>1, <1>4, <1>7, <2>1, <2>2, <2>3
       DEF DialogsSound, DialogsTyped, OneDialog, ReadsAreTheDialogs,
       Dialogs!DialogsKeepTheirAccount
<1>6. ASSUME NEW kind \in {"models", "records"}, Dialogs!OpenSheet(a, kind) PROVE DialogsSound'
  <2>1. /\ sheet' = [dialog |-> opened', kind |-> kind, id |-> a, shows |-> None,
                     error |-> FALSE, loading |-> TRUE]
        /\ editor' = editor
    BY <1>6 DEF Dialogs!OpenSheet
  <2>2. sheet' \in SheetType
    BY <1>1, <2>1 DEF SheetType
  <2>3. sheet'.dialog = opened' /\ sheet'.id = a /\ sheet'.shows = None
    BY <2>1
  <2> QED
    BY <1>1, <1>4, <1>7, <1>8, <2>1, <2>2, <2>3
       DEF DialogsSound, DialogsTyped, OneDialog, ReadsAreTheDialogs,
       Dialogs!DialogsKeepTheirAccount
<1> QED
  BY <1>5, <1>6

\* What a save stores, and its end, leave every dialog with its account.
LEMMA SaveEnds ==
  ASSUME DialogsSound, NEW s \in saves, Dialogs!Store(s) \/ Dialogs!Saved(s)
  PROVE  DialogsSound'
<1>1. s \in SaveType /\ s.of = s.id /\ saves \subseteq SaveType
  BY DEF DialogsSound, DialogsTyped, Dialogs!DialogsKeepTheirAccount
<1>2. CASE Dialogs!Store(s)
  <2>1. enabled' = enabled \/ enabled' = [enabled EXCEPT ![s.id] = s.models]
    BY <1>2 DEF Dialogs!Store
  <2>2. enabled' \in [Account -> SUBSET Model]
    BY <1>1, <2>1 DEF DialogsSound, DialogsTyped, SaveType
  <2>3. PICK at \in {"stored", "failed"} : saves' = (saves \ {s}) \cup {[s EXCEPT !.at = at]}
    BY <1>2 DEF Dialogs!Store, Dialogs!Advance
  <2>4. [s EXCEPT !.at = at] \in SaveType /\ [s EXCEPT !.at = at].of = [s EXCEPT !.at = at].id
    BY <1>1 DEF SaveType
  <2>5. saves' \subseteq SaveType /\ \A t \in saves' : t.of = t.id
    BY <1>1, <2>3, <2>4 DEF DialogsSound, Dialogs!DialogsKeepTheirAccount
  <2>6. UNCHANGED <<editor, sheet, fetches, opened>>
    BY <1>2 DEF Dialogs!Store
  <2> QED
    BY <2>2, <2>5, <2>6
       DEF DialogsSound, DialogsTyped, OneDialog, ReadsAreTheDialogs,
       Dialogs!DialogsKeepTheirAccount
<1>3. CASE Dialogs!Saved(s)
  <2>1. saves' = saves \ {s} /\ UNCHANGED <<enabled, sheet, fetches, opened>>
    BY <1>3 DEF Dialogs!Saved
  <2>2. \/ editor' = None
        \/ editor' = editor
        \/ editor # None /\ editor' = [editor EXCEPT !.error = TRUE]
    BY <1>3 DEF Dialogs!Saved
  <2>3. editor' # None =>
          /\ editor # None /\ editor' \in EditorType /\ editor'.dialog = editor.dialog
          /\ editor'.id = editor.id /\ editor'.of = editor.of
    <3>1. CASE editor # None /\ editor' = [editor EXCEPT !.error = TRUE]
      <4>1. editor \in EditorType
        BY <3>1 DEF DialogsSound, DialogsTyped
      <4> QED
        BY <3>1, <4>1 DEF EditorType
    <3>2. CASE editor' \in {None, editor}
      BY <3>2 DEF DialogsSound, DialogsTyped
    <3> QED
      BY <2>2, <3>1, <3>2
  <2> QED
    BY <2>1, <2>3
       DEF DialogsSound, DialogsTyped, OneDialog, ReadsAreTheDialogs,
       Dialogs!DialogsKeepTheirAccount
<1> QED
  BY <1>2, <1>3

\* The answer to a read goes to the dialog that asked, and is of its account.
LEMMA ReadAnswered ==
  ASSUME DialogsSound, NEW f \in fetches, Dialogs!FetchAnswered(f)
  PROVE  DialogsSound'
<1>1. /\ fetches' = fetches \ {f} /\ UNCHANGED <<enabled, saves, opened>>
      /\ f \in [dialog : Nat, id : Account, refresh : BOOLEAN]
  BY DEF Dialogs!FetchAnswered, DialogsSound, DialogsTyped
<1>2. PICK ok \in BOOLEAN :
        /\ sheet' = IF sheet # None /\ sheet.dialog = f.dialog
                    THEN [sheet EXCEPT !.shows = IF ok THEN f.id ELSE None, !.error = ~ok,
                                       !.loading = FALSE]
                    ELSE sheet
        /\ \E served \in {Model} \cup {Model \ {m} : m \in Model} :
              editor' = IF editor # None /\ editor.dialog = f.dialog
                        THEN [editor EXCEPT !.catalog = IF ok THEN served ELSE {}, !.of = f.id]
                        ELSE editor
  BY DEF Dialogs!FetchAnswered, Dialogs!Mine
<1>3. editor' # None => /\ editor # None /\ editor' \in EditorType
                        /\ editor'.dialog = editor.dialog /\ editor'.id = editor.id
                        /\ editor'.of = editor'.id
  <2>1. CASE editor # None /\ editor.dialog = f.dialog
    <3>1. f.id = editor.id /\ editor \in EditorType
      BY <2>1 DEF DialogsSound, DialogsTyped, ReadsAreTheDialogs
    <3>2. PICK served \in SUBSET Model :
            editor' = [editor EXCEPT !.catalog = served, !.of = f.id]
      BY <1>2, <2>1
    <3> QED
      BY <2>1, <3>1, <3>2 DEF EditorType
  <2>2. CASE ~(editor # None /\ editor.dialog = f.dialog)
    BY <1>2, <2>2 DEF DialogsSound, DialogsTyped, Dialogs!DialogsKeepTheirAccount
  <2> QED
    BY <2>1, <2>2
<1>4. sheet' # None =>
        /\ sheet # None /\ sheet' \in SheetType
        /\ sheet'.dialog = sheet.dialog /\ sheet'.id = sheet.id
        /\ sheet'.shows \in {None, sheet'.id}
        /\ (~\E g \in fetches' : g.dialog = sheet'.dialog) =>
              ~sheet'.loading /\ (sheet'.error \/ sheet'.shows = sheet'.id)
  <2>1. CASE sheet # None /\ sheet.dialog = f.dialog
    <3>1. f.id = sheet.id /\ sheet \in SheetType
      BY <2>1 DEF DialogsSound, DialogsTyped, ReadsAreTheDialogs
    <3>2. sheet' = [sheet EXCEPT !.shows = IF ok THEN sheet.id ELSE None, !.error = ~ok,
                                 !.loading = FALSE]
      BY <1>2, <2>1, <3>1
    <3> QED
      BY <2>1, <3>1, <3>2 DEF SheetType
  <2>2. CASE ~(sheet # None /\ sheet.dialog = f.dialog)
    <3>1. sheet' = sheet
      BY <1>2, <2>2
    <3> QED
      BY <1>1, <2>2, <3>1 DEF DialogsSound, DialogsTyped, Dialogs!DialogsKeepTheirAccount
  <2> QED
    BY <2>1, <2>2
<1> QED
  BY <1>1, <1>3, <1>4
     DEF DialogsSound, DialogsTyped, OneDialog, ReadsAreTheDialogs,
       Dialogs!DialogsKeepTheirAccount

\* Every step of the dialogs leaves each of them with its account.
LEMMA DialogsStep == ASSUME DialogsSound, Dialogs!DialogsNext PROVE DialogsSound'
<1>1. ASSUME Dialogs!CloseEditor \/ Dialogs!CloseSheet \/ Dialogs!OtherEnds PROVE DialogsSound'
  <2>1. /\ UNCHANGED <<enabled, saves, fetches, opened>>
        /\ editor' \in {None, editor} /\ sheet' \in {None, sheet}
    BY <1>1 DEF Dialogs!CloseEditor, Dialogs!CloseSheet, Dialogs!OtherEnds, Dialogs!OnlyEditor
  <2> QED
    BY <2>1 DEF DialogsSound, DialogsTyped, OneDialog, ReadsAreTheDialogs,
       Dialogs!DialogsKeepTheirAccount
<1>2. ASSUME \/ Dialogs!SwitchRestrict \/ Dialogs!Pick \/ Dialogs!Unpick \/ Dialogs!SubmitInvalid
      PROVE  DialogsSound'
  <2>1. /\ editor # None /\ Dialogs!OnlyEditor /\ editor \in EditorType
    BY <1>2 DEF Dialogs!SwitchRestrict, Dialogs!Pick, Dialogs!Unpick, Dialogs!SubmitInvalid,
                Dialogs!Editing, DialogsSound, DialogsTyped
  <2>2. /\ editor' \in EditorType /\ editor'.dialog = editor.dialog /\ editor'.id = editor.id
        /\ editor'.of = editor.of
    <3>1. CASE Dialogs!SwitchRestrict
      BY <2>1, <3>1 DEF Dialogs!SwitchRestrict, EditorType
    <3>2. CASE Dialogs!Pick
      <4>1. PICK found \in SUBSET editor.catalog :
              \/ editor' = [editor EXCEPT !.picked = @ \cup found]
              \/ editor' = [editor EXCEPT !.picked = @ \ found]
        BY <3>2 DEF Dialogs!Pick
      <4>2. found \in SUBSET Model /\ editor.picked \in SUBSET Model
        BY <2>1, <3>2, <4>1 DEF Dialogs!Pick, EditorType
      <4> QED
        BY <2>1, <4>1, <4>2 DEF EditorType
    <3>3. CASE Dialogs!Unpick
      BY <2>1, <3>3 DEF Dialogs!Unpick, EditorType
    <3>4. CASE Dialogs!SubmitInvalid
      BY <2>1, <3>4 DEF Dialogs!SubmitInvalid, EditorType
    <3> QED
      BY <1>2, <3>1, <3>2, <3>3, <3>4
  <2> QED
    BY <2>1, <2>2, DraftsChange
<1>3. ASSUME Dialogs!Submit PROVE DialogsSound'
  <2>1. editor # None /\ editor \in EditorType /\ editor.of = editor.id
    BY <1>3 DEF Dialogs!Submit, Dialogs!Editing, DialogsSound, DialogsTyped,
                Dialogs!DialogsKeepTheirAccount
  <2>2. PICK s : /\ s = [dialog |-> editor.dialog, id |-> editor.id, of |-> editor.of, at |-> "sent",
                         models |-> IF editor.restrict THEN editor.picked ELSE {},
                         restrict |-> editor.restrict]
                 /\ saves' = saves \cup {s}
    BY <1>3 DEF Dialogs!Submit
  <2>3. s \in SaveType /\ s.of = s.id
    BY <2>1, <2>2 DEF SaveType, EditorType
  <2>4. /\ editor' = [editor EXCEPT !.error = FALSE] /\ UNCHANGED <<enabled, sheet, fetches, opened>>
    BY <1>3 DEF Dialogs!Submit
  <2>5. /\ editor' \in EditorType /\ editor'.dialog = editor.dialog /\ editor'.id = editor.id
        /\ editor'.of = editor.of
    BY <2>1, <2>4 DEF EditorType
  <2> QED
    BY <2>1, <2>2, <2>3, <2>4, <2>5
       DEF DialogsSound, DialogsTyped, OneDialog, ReadsAreTheDialogs,
       Dialogs!DialogsKeepTheirAccount
<1>4. ASSUME Dialogs!RefreshSheet PROVE DialogsSound'
  <2>1. sheet # None /\ sheet \in SheetType
    BY <1>4 DEF Dialogs!RefreshSheet, DialogsSound, DialogsTyped
  <2>2. /\ sheet' = [sheet EXCEPT !.loading = TRUE, !.error = FALSE]
        /\ fetches' = fetches \cup {[dialog |-> sheet.dialog, id |-> sheet.id, refresh |-> TRUE]}
        /\ UNCHANGED <<enabled, editor, saves, opened>>
    BY <1>4 DEF Dialogs!RefreshSheet, Dialogs!Fetch
  <2>3. /\ sheet' \in SheetType /\ sheet'.dialog = sheet.dialog /\ sheet'.id = sheet.id
        /\ sheet'.shows = sheet.shows
    BY <2>1, <2>2 DEF SheetType
  <2> DEFINE new == [dialog |-> sheet.dialog, id |-> sheet.id, refresh |-> TRUE]
  <2>4. /\ new \in [dialog : Nat, id : Account, refresh : BOOLEAN]
        /\ new.dialog = sheet.dialog /\ new.id = sheet.id /\ fetches' = fetches \cup {new}
    BY <2>1, <2>2 DEF SheetType
  <2> HIDE DEF new
  <2>5. editor = None /\ sheet.dialog <= opened
    BY <2>1 DEF DialogsSound, OneDialog
  <2>6. \A f \in fetches' :
          /\ f \in [dialog : Nat, id : Account, refresh : BOOLEAN]
          /\ f.dialog <= opened
          /\ f.dialog = sheet.dialog => f.id = sheet.id
    BY <2>1, <2>4, <2>5 DEF DialogsSound, DialogsTyped, ReadsAreTheDialogs
  <2>7. \E f \in fetches' : f.dialog = sheet.dialog
    BY <2>4
  <2> QED
    BY <2>1, <2>2, <2>3, <2>5, <2>6, <2>7
       DEF DialogsSound, DialogsTyped, OneDialog, ReadsAreTheDialogs,
       Dialogs!DialogsKeepTheirAccount
<1> QED
  BY <1>1, <1>2, <1>3, <1>4, DialogOpens, SaveEnds, ReadAnswered DEF Dialogs!DialogsNext

-----------------------------------------------------------------------------
(* The boxes of an API key *)

KeyRow == [there : BOOLEAN, enabled : BOOLEAN, grants : SUBSET Keys!Grants]

KeyCallType == [kind : {"create", "save", "toggle", "delete"}, of : ApiKey, grants : SUBSET Keys!Grants,
                enabled : BOOLEAN, seen : (SUBSET Regions) \cup {None},
                at : {"sent", "refused", "done"}, row : KeyRow]

KeysTyped ==
  /\ known \subseteq Regions /\ options \subseteq Regions
  /\ stored \in [ApiKey -> KeyRow] /\ rows \in [ApiKey -> KeyRow]
  /\ seen \in [ApiKey -> (SUBSET Regions) \cup {None}]
  /\ keyEditor # None => keyEditor \in Keys!KeyEditorType
  /\ keyCalls \subseteq KeyCallType

\* While nobody touched them, the boxes are those the key's grants tick.
BoxesAsFound ==
  keyEditor # None =>
    /\ options # {}
    /\ keyEditor.untouched => keyEditor.selected = Keys!Expanded(keyEditor.initial)

\* A call that was made with changed boxes is a save that asks for the ticked regions.
AsksForBoxes(c) == c.seen # None => c.grants = c.seen /\ c.kind \in {"create", "save"}

CallsAskForBoxes == \A c \in keyCalls : AsksForBoxes(c)

\* The editor waits for its save, so there is one at a time and an editor for its answer.
Saves(c) == c.kind \in {"create", "save"}

EditorWaits ==
  \A c \in keyCalls : Saves(c) => /\ keyEditor # None /\ keyEditor.busy
                                  /\ \A d \in keyCalls : Saves(d) => d = c

KeysSound ==
  KeysTyped /\ BoxesAsFound /\ CallsAskForBoxes /\ EditorWaits /\ Keys!NeverBroaderThanSeen

\* The boxes are regions, never a whole provider.
LEMMA BoxesAreRegions ==
  ASSUME KeysTyped, NEW grants \in SUBSET Keys!Grants
  PROVE  Keys!Expanded(grants) \in SUBSET Regions
<1>1. \A r \in Regions : Keys!IsWhole(Keys!Whole(r))
  BY DEF Keys!IsWhole, Keys!Whole
<1>2. \A g \in grants : ~Keys!IsWhole(g) => g \in Regions
  BY <1>1 DEF Keys!Grants
<1>3. options \subseteq Regions
  BY DEF KeysTyped
<1> QED
  BY <1>2, <1>3 DEF Keys!Expanded

\* The store keeps grants what they are.
LEMMA NormalizeKeepsGrants ==
  ASSUME NEW grants \in SUBSET Keys!Grants
  PROVE  Keys!Normalize(grants) \in SUBSET Keys!Grants
BY DEF Keys!Normalize

\* Ticked regions allow themselves and nothing else, now and later.
LEMMA TickedOnly ==
  ASSUME NEW ticked \in SUBSET Regions, ticked # {}, NEW r \in Regions,
         Keys!Allows(Keys!Normalize(ticked), r)
  PROVE  r \in ticked
<1>1. \A q \in Regions : ~Keys!IsWhole(q) /\ Keys!IsWhole(Keys!Whole(q))
  BY ConsoleAssumption DEF ConsoleAssumption, Keys!KeysAssumption, Keys!IsWhole, Keys!Whole
<1>2. \A q \in Regions : Keys!Whole(q) \notin ticked
  BY <1>1
<1>3. Keys!Normalize(ticked) = ticked
  BY <1>1, <1>2 DEF Keys!Normalize
<1> QED
  BY <1>2, <1>3 DEF Keys!Allows

\* The page starts empty, on a server with keys of old and keys of regions.
LEMMA KeysStart == ASSUME Keys!KeysInit PROVE KeysSound
<1>1. known \subseteq Regions
  BY DEF Keys!KeysInit
<1>2. stored \in [ApiKey -> KeyRow] /\ rows \in [ApiKey -> KeyRow]
  <2>1. Keys!Gone \in KeyRow
    BY DEF Keys!Gone, KeyRow
  <2>2. ASSUME NEW g \in {{Keys!Whole(r)} : r \in Regions} \union {{r} : r \in known}
        PROVE  [there |-> TRUE, enabled |-> TRUE, grants |-> g] \in KeyRow
    BY <1>1 DEF KeyRow, Keys!Grants
  <2> QED
    BY <2>1, <2>2 DEF Keys!KeysInit
<1> QED
  BY <1>1, <1>2 DEF Keys!KeysInit, KeysSound, KeysTyped, BoxesAsFound, CallsAskForBoxes,
                    EditorWaits, Keys!NeverBroaderThanSeen

\* The page's own clicks send calls, and change neither the server nor what was seen.
LEMMA PageKeeps ==
  ASSUME KeysSound, UNCHANGED <<known, options, stored, seen>>,
         rows' \in [ApiKey -> KeyRow],
         keyEditor' # None => /\ options # {} /\ keyEditor' \in Keys!KeyEditorType
                              /\ keyEditor'.untouched =>
                                   keyEditor'.selected = Keys!Expanded(keyEditor'.initial),
         \A c \in keyCalls' \ keyCalls : c \in KeyCallType /\ AsksForBoxes(c),
         EditorWaits'
  PROVE  KeysSound'
<1>1. keyEditor' # None /\ keyEditor'.untouched =>
        keyEditor'.selected = Keys!Expanded(keyEditor.initial)'
  BY DEF Keys!Expanded
<1>2. KeysTyped'
  BY DEF KeysSound, KeysTyped
<1>3. CallsAskForBoxes'
  BY DEF KeysSound, CallsAskForBoxes
<1>4. Keys!NeverBroaderThanSeen'
  BY DEF KeysSound, Keys!NeverBroaderThanSeen, Keys!Allows, Keys!Whole
<1> QED
  BY <1>1, <1>2, <1>3, <1>4 DEF KeysSound, BoxesAsFound

\* The page is opened once, and an editor opens on the boxes of its row.
LEMMA KeysOpen ==
  ASSUME KeysSound, Keys!OpenKeysPage \/ \E k \in ApiKey : Keys!OpenEditor(k)
  PROVE  KeysSound'
<1>1. CASE Keys!OpenKeysPage
  <2>1. /\ options = {} /\ options' = known /\ rows' = stored
        /\ UNCHANGED <<known, stored, keyEditor, keyCalls, seen>>
    BY <1>1 DEF Keys!OpenKeysPage
  <2>2. keyEditor = None
    BY <2>1 DEF KeysSound, BoxesAsFound
  <2>3. KeysTyped'
    BY <2>1 DEF KeysSound, KeysTyped
  <2>4. CallsAskForBoxes' /\ Keys!NeverBroaderThanSeen'
    BY <2>1 DEF KeysSound, CallsAskForBoxes, Keys!NeverBroaderThanSeen, Keys!Allows, Keys!Whole
  <2>5. EditorWaits'
    BY <2>1 DEF KeysSound, EditorWaits
  <2> QED
    BY <2>1, <2>2, <2>3, <2>4, <2>5 DEF KeysSound, BoxesAsFound
<1>2. ASSUME NEW k \in ApiKey, Keys!OpenEditor(k) PROVE KeysSound'
  <2>1. rows[k] \in KeyRow /\ rows[k].grants \in SUBSET Keys!Grants
    BY DEF KeysSound, KeysTyped, KeyRow
  <2>2. Keys!Expanded(rows[k].grants) \in SUBSET Regions
    BY <2>1, BoxesAreRegions DEF KeysSound
  <2>3. /\ keyEditor' = [of |-> k, initial |-> rows[k].grants, new |-> ~rows[k].there,
                         selected |-> Keys!Expanded(rows[k].grants), untouched |-> TRUE,
                         busy |-> FALSE]
        /\ options # {} /\ UNCHANGED <<known, options, stored, rows, keyCalls, seen>>
    BY <1>2 DEF Keys!OpenEditor
  <2>4. /\ keyEditor' \in Keys!KeyEditorType
        /\ keyEditor'.selected = Keys!Expanded(keyEditor'.initial)
    BY <2>1, <2>2, <2>3 DEF Keys!KeyEditorType
  <2>5. EditorWaits'
    BY <1>2 DEF Keys!OpenEditor, KeysSound, EditorWaits
  <2> QED
    BY <2>3, <2>4, <2>5, PageKeeps DEF KeysSound, KeysTyped
<1> QED
  BY <1>1, <1>2

\* A box clicked is one of the options, and the boxes are touched from then on.
LEMMA KeysEdited ==
  ASSUME KeysSound, Keys!CloseEditor \/ \E o \in Regions : Keys!Toggle(o)
  PROVE  KeysSound'
<1>1. CASE Keys!CloseEditor
  <2>1. EditorWaits'
    BY <1>1 DEF Keys!CloseEditor, KeysSound, EditorWaits
  <2> QED
    BY <1>1, <2>1, PageKeeps DEF Keys!CloseEditor, KeysSound, KeysTyped
<1>2. ASSUME NEW o \in Regions, Keys!Toggle(o) PROVE KeysSound'
  <2>1. /\ keyEditor # None /\ keyEditor \in Keys!KeyEditorType /\ options # {}
    BY <1>2 DEF Keys!Toggle, KeysSound, KeysTyped, BoxesAsFound
  <2> DEFINE boxes == IF o \in keyEditor.selected THEN keyEditor.selected \ {o}
                      ELSE keyEditor.selected \union {o}
  <2>2. /\ keyEditor' = [keyEditor EXCEPT !.untouched = FALSE, !.selected = boxes]
        /\ UNCHANGED <<known, options, stored, rows, keyCalls, seen>>
    BY <1>2, <2>1 DEF Keys!Toggle, Keys!KeyEditorType
  <2>3. boxes \in SUBSET Regions
    BY <2>1 DEF Keys!KeyEditorType
  <2> HIDE DEF boxes
  <2>4. keyEditor' \in Keys!KeyEditorType /\ ~keyEditor'.untouched
    BY <2>1, <2>2, <2>3 DEF Keys!KeyEditorType
  <2>5. EditorWaits'
    BY <1>2, <2>2 DEF Keys!Toggle, KeysSound, EditorWaits
  <2> QED
    BY <2>1, <2>2, <2>4, <2>5, PageKeeps DEF KeysSound, KeysTyped
<1> QED
  BY <1>1, <1>2

\* What a save, a switch and a delete ask the server for.
LEMMA KeysAsked ==
  ASSUME KeysSound, \/ Keys!Submit
                    \/ \E k \in ApiKey : Keys!OnToggle(k) \/ Keys!OnDelete(k)
  PROVE  KeysSound'
<1>1. Keys!Gone \in KeyRow
  BY DEF Keys!Gone, KeyRow
<1>2. CASE Keys!Submit
  <2> DEFINE e == keyEditor
             wanted == IF e.untouched THEN e.initial ELSE e.selected
             boxes == IF e.selected = Keys!Expanded(e.initial) THEN None ELSE e.selected
             kind == IF e.new THEN "create" ELSE "save"
             call == [kind |-> kind, of |-> e.of, grants |-> wanted, enabled |-> FALSE,
                      seen |-> boxes, at |-> "sent", row |-> Keys!Gone]
  <2>1. e # None /\ e \in Keys!KeyEditorType
    BY <1>2 DEF Keys!Submit, KeysSound, KeysTyped
  <2>2. e.untouched => e.selected = Keys!Expanded(e.initial)
    BY <2>1 DEF KeysSound, BoxesAsFound
  <2>3. /\ wanted \in SUBSET Keys!Grants /\ boxes \in (SUBSET Regions) \cup {None}
        /\ kind \in {"create", "save"} /\ e.of \in ApiKey
        /\ boxes # None => wanted = boxes
    BY <2>1, <2>2 DEF Keys!KeyEditorType, Keys!Grants
  <2>4. /\ keyEditor' = [e EXCEPT !.busy = TRUE] /\ options # {}
        /\ keyCalls' = keyCalls \union {call}
        /\ UNCHANGED <<known, options, stored, rows, seen>>
    <3>1. [Keys!Call(kind, e.of) EXCEPT !.grants = wanted, !.seen = boxes] = call
      <4> HIDE DEF e, wanted, boxes, kind
      <4> DEFINE T == [kind : {kind}, of : {e.of}, grants : {{}, wanted}, enabled : {FALSE},
                       seen : {None, boxes}, at : {"sent"}, row : {Keys!Gone}]
                 plain == Keys!Call(kind, e.of)
                 full == [plain EXCEPT !.grants = wanted, !.seen = boxes]
      <4>1. plain \in T
        BY DEF Keys!Call
      <4> HIDE DEF plain
      <4>2. full \in T /\ full.grants = wanted /\ full.seen = boxes
        BY <4>1
      <4> HIDE DEF full
      <4>3. full = call
        BY <4>2
      <4> QED
        BY <4>3, Zenon DEF full, plain
    <3>2. /\ keyEditor' = [e EXCEPT !.busy = TRUE] /\ options # {}
          /\ keyCalls' = keyCalls \union
               {[Keys!Call(kind, e.of) EXCEPT !.grants = wanted, !.seen = boxes]}
          /\ UNCHANGED <<known, options, stored, rows, seen>>
      BY <1>2, Zenon DEF Keys!Submit
    <3> QED
      BY <3>1, <3>2, Zenon
  <2>5. call \in KeyCallType /\ AsksForBoxes(call)
    <3> HIDE DEF e, wanted, boxes, kind
    <3> QED
      BY <1>1, <2>3 DEF KeyCallType, AsksForBoxes
  <2>6. /\ keyEditor' \in Keys!KeyEditorType /\ keyEditor'.selected = e.selected
        /\ keyEditor'.untouched = e.untouched /\ keyEditor'.initial = e.initial
    BY <2>1, <2>4 DEF Keys!KeyEditorType
  <2> HIDE DEF call
  <2>7. rows' \in [ApiKey -> KeyRow] /\ \A c \in keyCalls' \ keyCalls : c = call
    BY <2>4 DEF KeysSound, KeysTyped
  <2>8. EditorWaits'
    <3>1. \A c \in keyCalls : ~Saves(c)
      BY <1>2 DEF Keys!Submit, KeysSound, EditorWaits
    <3>2. keyEditor' # None /\ keyEditor'.busy
      <4>1. keyEditor' \in Keys!KeyEditorType /\ keyEditor'.busy
        BY <2>1, <2>4 DEF Keys!KeyEditorType
      <4> QED
        BY <4>1, ConsoleAssumption DEF ConsoleAssumption, Keys!KeysAssumption
    <3> QED
      BY <2>4, <3>1, <3>2 DEF EditorWaits, Saves
  <2> HIDE DEF e
  <2> QED
    BY <2>2, <2>4, <2>5, <2>6, <2>7, <2>8, PageKeeps
<1>3. ASSUME NEW k \in ApiKey, Keys!OnToggle(k) \/ Keys!OnDelete(k) PROVE KeysSound'
  <2>1. rows[k] \in KeyRow
    BY DEF KeysSound, KeysTyped
  <2>2. PICK kind \in {"toggle", "delete"}, on \in BOOLEAN :
          keyCalls' = keyCalls \union {[kind |-> kind, of |-> k, grants |-> {}, enabled |-> on,
                                        seen |-> None, at |-> "sent", row |-> Keys!Gone]}
    <3>1. CASE Keys!OnToggle(k)
      <4>1. (~rows[k].enabled) \in BOOLEAN
        BY <2>1 DEF KeyRow
      <4>2. keyCalls' = keyCalls \union {[Keys!Call("toggle", k) EXCEPT !.enabled = ~rows[k].enabled]}
        BY <3>1 DEF Keys!OnToggle
      <4>3. [Keys!Call("toggle", k) EXCEPT !.enabled = ~rows[k].enabled]
              = [kind |-> "toggle", of |-> k, grants |-> {}, enabled |-> ~rows[k].enabled,
                 seen |-> None, at |-> "sent", row |-> Keys!Gone]
        BY DEF Keys!Call
      <4> QED
        BY <4>1, <4>2, <4>3
    <3>2. CASE Keys!OnDelete(k)
      BY <3>2 DEF Keys!OnDelete, Keys!Call
    <3> QED
      BY <1>3, <3>1, <3>2
  <2> DEFINE call == [kind |-> kind, of |-> k, grants |-> {}, enabled |-> on,
                      seen |-> None, at |-> "sent", row |-> Keys!Gone]
  <2>3. call \in KeyCallType /\ AsksForBoxes(call)
    BY <1>1, <2>2 DEF KeyCallType, AsksForBoxes
  <2>4. /\ UNCHANGED <<known, options, stored, keyEditor, seen>>
        /\ rows' = rows \/ rows' = [rows EXCEPT ![k].enabled = ~@]
    BY <1>3 DEF Keys!OnToggle, Keys!OnDelete
  <2>5. rows' \in [ApiKey -> KeyRow]
    <3> DEFINE row == [rows[k] EXCEPT !.enabled = ~@]
    <3>1. row \in KeyRow
      BY <2>1 DEF KeyRow
    <3>2. rows' = rows \/ rows' = [rows EXCEPT ![k] = row]
      BY <2>4
    <3> HIDE DEF row
    <3> QED
      BY <3>1, <3>2 DEF KeysSound, KeysTyped
  <2>6. keyEditor' # None => /\ options # {} /\ keyEditor' \in Keys!KeyEditorType
                             /\ keyEditor'.untouched =>
                                  keyEditor'.selected = Keys!Expanded(keyEditor'.initial)
    BY <2>4 DEF KeysSound, KeysTyped, BoxesAsFound
  <2> HIDE DEF call
  <2>7. \A c \in keyCalls' \ keyCalls : c = call
    BY <2>2 DEF call
  <2>8. EditorWaits'
    <3>1. ~Saves(call) /\ keyCalls' = keyCalls \union {call}
      BY <2>2 DEF call, Saves
    <3> QED
      BY <2>4, <3>1 DEF KeysSound, EditorWaits
  <2> QED
    BY <2>3, <2>4, <2>5, <2>6, <2>7, <2>8, PageKeeps
<1> QED
  BY <1>2, <1>3

\* The server stores what a call asks for, whatever was asked before it.
LEMMA KeysServed ==
  ASSUME KeysSound, NEW c \in keyCalls, Keys!Serve(c)
  PROVE  KeysSound'
<1> DEFINE k == c.of
           kept == [stored[k] EXCEPT !.grants = Keys!Normalize(c.grants)]
           switched == [stored[k] EXCEPT !.enabled = c.enabled]
           made == [there |-> TRUE, enabled |-> TRUE, grants |-> Keys!Normalize(c.grants)]
           taken == CASE c.kind = "create" -> made [] c.kind = "save" -> kept
                      [] c.kind = "toggle" -> switched [] c.kind = "delete" -> Keys!Gone
<1>1. c \in KeyCallType /\ k \in ApiKey /\ stored[k] \in KeyRow /\ AsksForBoxes(c)
  BY DEF KeysSound, KeysTyped, CallsAskForBoxes, KeyCallType
<1>2. Keys!Normalize(c.grants) \in SUBSET Keys!Grants
  BY <1>1, NormalizeKeepsGrants DEF KeyCallType
<1>3. taken \in KeyRow
  BY <1>1, <1>2 DEF KeyRow, Keys!Gone, KeyCallType
<1>4. /\ c.kind = "toggle" => taken.grants = stored[k].grants
      /\ c.kind \in {"create", "save"} => taken.grants = Keys!Normalize(c.grants)
  BY <1>1 DEF KeyRow
<1>5. UNCHANGED <<known, options, rows, keyEditor>>
  BY DEF Keys!Serve
<1>6. \/ /\ keyCalls' = (keyCalls \ {c}) \union {[c EXCEPT !.at = "refused"]}
         /\ UNCHANGED <<stored, seen>>
      \/ /\ stored' = [stored EXCEPT ![k] = taken]
         /\ keyCalls' = (keyCalls \ {c}) \union {[c EXCEPT !.at = "done", !.row = taken]}
         /\ seen' = IF c.kind = "toggle" THEN seen ELSE [seen EXCEPT ![k] = c.seen]
  BY DEF Keys!Serve
<1> HIDE DEF taken
<1>7. CASE /\ keyCalls' = (keyCalls \ {c}) \union {[c EXCEPT !.at = "refused"]}
           /\ UNCHANGED <<stored, seen>>
  <2>1. [c EXCEPT !.at = "refused"] \in KeyCallType /\ AsksForBoxes([c EXCEPT !.at = "refused"])
    BY <1>1 DEF KeyCallType, AsksForBoxes
  <2>2. \A d \in keyCalls' \ keyCalls : d = [c EXCEPT !.at = "refused"]
    BY <1>7
  <2>3. rows' \in [ApiKey -> KeyRow]
    BY <1>5 DEF KeysSound, KeysTyped
  <2>4. keyEditor' # None => /\ options # {} /\ keyEditor' \in Keys!KeyEditorType
                             /\ keyEditor'.untouched =>
                                  keyEditor'.selected = Keys!Expanded(keyEditor'.initial)
    BY <1>5 DEF KeysSound, KeysTyped, BoxesAsFound
  <2>5. EditorWaits'
    <3>1. Saves([c EXCEPT !.at = "refused"]) <=> Saves(c)
      BY <1>1 DEF KeyCallType, Saves
    <3> QED
      BY <1>5, <1>7, <3>1 DEF KeysSound, EditorWaits
  <2> QED
    BY <1>5, <1>7, <2>1, <2>2, <2>3, <2>4, <2>5, PageKeeps
<1>8. CASE /\ stored' = [stored EXCEPT ![k] = taken]
           /\ keyCalls' = (keyCalls \ {c}) \union {[c EXCEPT !.at = "done", !.row = taken]}
           /\ seen' = IF c.kind = "toggle" THEN seen ELSE [seen EXCEPT ![k] = c.seen]
  <2> DEFINE done == [c EXCEPT !.at = "done", !.row = taken]
  <2>1. done \in KeyCallType /\ AsksForBoxes(done)
    BY <1>1, <1>3 DEF KeyCallType, AsksForBoxes
  <2> HIDE DEF done
  <2>2. keyCalls' \subseteq keyCalls \union {done}
    BY <1>8 DEF done
  <2>3. CallsAskForBoxes' /\ keyCalls' \subseteq KeyCallType
    BY <2>1, <2>2 DEF KeysSound, KeysTyped, CallsAskForBoxes
  <2>4. stored' \in [ApiKey -> KeyRow] /\ seen' \in [ApiKey -> (SUBSET Regions) \cup {None}]
    BY <1>1, <1>3, <1>8 DEF KeysSound, KeysTyped, KeyCallType
  <2>5. Keys!NeverBroaderThanSeen'
    <3> SUFFICES ASSUME NEW j \in ApiKey, seen'[j] # None, seen'[j] # {}, NEW r \in Regions,
                        Keys!Allows(stored'[j].grants, r)
                 PROVE  r \in seen'[j]
      BY DEF Keys!NeverBroaderThanSeen, Keys!Allows, Keys!Whole
    <3>1. CASE j # k \/ c.kind = "toggle"
      <4>1. seen'[j] = seen[j] /\ stored'[j].grants = stored[j].grants
        BY <1>1, <1>4, <1>8, <3>1 DEF KeysSound, KeysTyped
      <4> QED
        BY <4>1 DEF KeysSound, Keys!NeverBroaderThanSeen
    <3>2. CASE j = k /\ c.kind # "toggle"
      <4>1. seen'[j] = c.seen /\ stored'[j] = taken
        BY <1>1, <1>8, <3>2 DEF KeysSound, KeysTyped
      <4>2. c.grants = c.seen /\ taken.grants = Keys!Normalize(c.seen)
        BY <1>1, <1>4, <4>1 DEF AsksForBoxes
      <4>3. c.seen \in SUBSET Regions /\ c.seen # {}
        BY <1>1, <4>1 DEF KeyCallType
      <4> QED
        BY <4>1, <4>2, <4>3, TickedOnly
    <3> QED
      BY <3>1, <3>2
  <2>6. KeysTyped' /\ BoxesAsFound'
    BY <1>5, <2>3, <2>4 DEF KeysSound, KeysTyped, BoxesAsFound, Keys!Expanded
  <2>7. EditorWaits'
    <3>1. Saves(done) <=> Saves(c)
      BY <1>1 DEF KeyCallType, Saves, done
    <3>2. keyCalls' = (keyCalls \ {c}) \union {done}
      BY <1>8 DEF done
    <3> QED
      BY <1>5, <3>1, <3>2 DEF KeysSound, EditorWaits
  <2> QED
    BY <2>3, <2>5, <2>6, <2>7 DEF KeysSound
<1> QED
  BY <1>6, <1>7, <1>8 DEF taken

\* An answer writes the row it brought, and a release brings a region.
LEMMA KeysAnswered ==
  ASSUME KeysSound, \/ \E c \in keyCalls : Keys!Answer(c)
                    \/ \E r \in Regions : Keys!RegionAppears(r)
  PROVE  KeysSound'
<1>1. ASSUME NEW c \in keyCalls, Keys!Answer(c) PROVE KeysSound'
  <2>1. c \in KeyCallType /\ c.row \in KeyRow /\ c.of \in ApiKey
    BY DEF KeysSound, KeysTyped, KeyCallType
  <2>2. rows' \in [ApiKey -> KeyRow]
    <3>1. rows' \in {rows, stored, [rows EXCEPT ![c.of] = c.row]}
      BY <1>1 DEF Keys!Answer
    <3> QED
      BY <2>1, <3>1 DEF KeysSound, KeysTyped
  <2>3. /\ keyCalls' = keyCalls \ {c} /\ UNCHANGED <<known, options, stored, seen>>
        /\ \/ keyEditor' \in {None, keyEditor}
           \/ c.kind \in {"create", "save"} /\ keyEditor' = [keyEditor EXCEPT !.busy = FALSE]
    BY <1>1 DEF Keys!Answer
  <2>4. EditorWaits'
    BY <1>1, <2>3 DEF Keys!Answer, KeysSound, EditorWaits, Saves
  <2>5. keyEditor' # None => /\ options # {} /\ keyEditor' \in Keys!KeyEditorType
                             /\ keyEditor'.untouched =>
                                  keyEditor'.selected = Keys!Expanded(keyEditor'.initial)
    <3>1. CASE keyEditor' \in {None, keyEditor}
      BY <3>1 DEF KeysSound, KeysTyped, BoxesAsFound
    <3>2. CASE Saves(c) /\ keyEditor' = [keyEditor EXCEPT !.busy = FALSE]
      <4>1. keyEditor # None /\ keyEditor \in Keys!KeyEditorType
        BY <3>2 DEF KeysSound, KeysTyped, EditorWaits
      <4>2. /\ keyEditor' \in Keys!KeyEditorType /\ keyEditor'.untouched = keyEditor.untouched
            /\ keyEditor'.selected = keyEditor.selected /\ keyEditor'.initial = keyEditor.initial
        BY <3>2, <4>1 DEF Keys!KeyEditorType
      <4> QED
        BY <4>1, <4>2 DEF KeysSound, BoxesAsFound
    <3> QED
      BY <2>3, <3>1, <3>2 DEF Saves
  <2>6. \A d \in keyCalls' \ keyCalls : d \in KeyCallType /\ AsksForBoxes(d)
    BY <2>3
  <2> QED
    BY <2>2, <2>3, <2>4, <2>5, <2>6, PageKeeps
<1>2. ASSUME NEW r \in Regions, Keys!RegionAppears(r) PROVE KeysSound'
  BY <1>2 DEF Keys!RegionAppears, KeysSound, KeysTyped, BoxesAsFound, CallsAskForBoxes, EditorWaits,
              Keys!NeverBroaderThanSeen, Keys!Allows, Keys!Whole, Keys!Expanded
<1> QED
  BY <1>1, <1>2

\* Every step of the page and of the server keeps the boxes' word.
LEMMA KeysStep == ASSUME KeysSound, Keys!KeysNext PROVE KeysSound'
BY KeysOpen, KeysEdited, KeysAsked, KeysServed, KeysAnswered DEF Keys!KeysNext

-----------------------------------------------------------------------------
(* Credential files *)

\* The dialog shows a file that was read, with the region the file names while the
\* operator has chosen no other.
ImportSound ==
  /\ dialog \in [open : BOOLEAN, file : File \cup {None}, region : {"cn", "global"}]
  /\ chosen \in BOOLEAN
  /\ \A r \in reading : r.file \in File
  /\ dialog.open =>
       /\ dialog.file \in File
       /\ ~chosen => dialog.region = Import!RegionFor(dialog.file, dialog.region)
  /\ Import!ImportsGoWhereTheyBelong

\* The region for a file is the one it names, if it names one and is WorkBuddy's.
LEMMA RegionForFile ==
  ASSUME NEW f \in File, NEW region
  PROVE  /\ Import!RegionFor(f, region) \in {"cn", "global"}
         /\ Import!Supported(f) /\ ~Import!RegionOf(f).ambiguous =>
              Import!RegionFor(f, region) = Import!RegionOf(f).region
BY ConsoleAssumption DEF ConsoleAssumption, Import!FileAssumption, Import!RegionFor, Import!RegionOf

\* The page starts with nothing read.
LEMMA ImportStarts == ASSUME Import!ImportInit PROVE ImportSound
BY DEF Import!ImportInit, ImportSound, Import!ImportsGoWhereTheyBelong

\* Reading, choosing, cancelling and importing keep the file with its region.
LEMMA ImportStep == ASSUME ImportSound, Import!ImportNext PROVE ImportSound'
<1>1. ASSUME NEW f \in File, Import!PickFile(f) PROVE ImportSound'
  <2>1. /\ UNCHANGED <<dialog, chosen, imports>>
        /\ \A r \in reading' : r \in reading \/ r.file = f
    BY <1>1 DEF Import!PickFile
  <2> QED
    BY <2>1 DEF ImportSound, Import!ImportsGoWhereTheyBelong, Import!RegionFor
<1>2. ASSUME NEW r \in reading, Import!FileRead(r) PROVE ImportSound'
  <2>1. reading' \subseteq reading /\ imports' = imports /\ r.file \in File
    BY <1>2 DEF Import!FileRead, ImportSound
  <2>2. CASE UNCHANGED <<dialog, chosen>>
    BY <2>1, <2>2 DEF ImportSound, Import!ImportsGoWhereTheyBelong
  <2>3. CASE /\ dialog' = [open |-> TRUE, file |-> r.file,
                           region |-> Import!RegionFor(r.file, dialog.region)]
             /\ chosen' = FALSE
    <3>1. /\ dialog'.file = r.file /\ dialog'.open /\ dialog'.region \in {"cn", "global"}
          /\ dialog'.region = Import!RegionFor(r.file, dialog'.region)
          /\ dialog' \in [open : BOOLEAN, file : File \cup {None}, region : {"cn", "global"}]
      BY <2>1, <2>3, RegionForFile DEF Import!RegionFor
    <3> QED
      BY <2>1, <2>3, <3>1 DEF ImportSound, Import!ImportsGoWhereTheyBelong, Import!RegionFor
  <2> QED
    BY <1>2, <2>2, <2>3 DEF Import!FileRead
<1>3. ASSUME NEW region \in {"cn", "global"}, Import!ChooseRegion(region) PROVE ImportSound'
  <2>1. /\ dialog' = [dialog EXCEPT !.region = region] /\ chosen' = TRUE
        /\ reading' = reading /\ imports' = imports
    BY <1>3 DEF Import!ChooseRegion
  <2>2. /\ dialog' \in [open : BOOLEAN, file : File \cup {None}, region : {"cn", "global"}]
        /\ dialog'.open = dialog.open /\ dialog'.file = dialog.file
    BY <2>1 DEF ImportSound
  <2> QED
    BY <2>1, <2>2 DEF ImportSound, Import!ImportsGoWhereTheyBelong
<1>4. ASSUME Import!CancelImport \/ Import!Imported PROVE ImportSound'
  <2>1. dialog' = [dialog EXCEPT !.open = FALSE, !.file = None]
        /\ UNCHANGED <<reading, chosen, imports>>
    BY <1>4 DEF Import!CancelImport, Import!Imported, Import!Shut
  <2>2. /\ dialog' \in [open : BOOLEAN, file : File \cup {None}, region : {"cn", "global"}]
        /\ ~dialog'.open
    BY <2>1 DEF ImportSound
  <2> QED
    BY <2>1, <2>2 DEF ImportSound, Import!ImportsGoWhereTheyBelong
<1>5. ASSUME Import!ConfirmImport PROVE ImportSound'
  <2>1. /\ dialog.open /\ Import!Supported(dialog.file)
        /\ UNCHANGED <<dialog, reading, chosen>>
        /\ imports' = imports \cup {[sent |-> importing', chosen |-> chosen]}
        /\ importing'.file = dialog.file /\ importing'.region = dialog.region
    BY <1>5 DEF Import!ConfirmImport
  <2>2. /\ dialog.file \in File
        /\ ~chosen => dialog.region = Import!RegionFor(dialog.file, dialog.region)
    BY <2>1 DEF ImportSound
  <2> DEFINE new == [sent |-> importing', chosen |-> chosen]
  <2>3. ~new.chosen /\ ~Import!RegionOf(new.sent.file).ambiguous
          => new.sent.region = Import!RegionOf(new.sent.file).region
    BY <2>1, <2>2, RegionForFile
  <2>4. new.sent.file.hint \in Import!Known => new.sent.file.hint = "workbuddy"
    BY <2>1 DEF Import!Supported, Import!ProviderOf
  <2>5. imports' = imports \cup {new}
    BY <2>1
  <2> HIDE DEF new
  <2>6. Import!ImportsGoWhereTheyBelong'
    BY <2>3, <2>4, <2>5 DEF ImportSound, Import!ImportsGoWhereTheyBelong, Import!RegionOf, Import!Known
  <2> QED
    BY <2>1, <2>6 DEF ImportSound, Import!RegionFor
<1>6. ASSUME Import!ImportFailed PROVE ImportSound'
  BY <1>6 DEF Import!ImportFailed, ImportSound, Import!ImportsGoWhereTheyBelong
<1> QED
  BY <1>1, <1>2, <1>3, <1>4, <1>5, <1>6 DEF Import!ImportNext, Import!Region

-----------------------------------------------------------------------------
(* The wizard that adds accounts *)

Runs == [kind : {"browser", "callback", "pat", "import"},
         at : {"create", "start", "wait", "poll", "complete", "login", "import", "over"},
         account : AccountId \cup {None}, session : Nat, polls : Nat]

DialogType == [open : BOOLEAN, step : {"method", "login"}, tab : {"browser", "pat", "import"},
               provider : Provider \cup {None}, phase : {"idle", "busy", "polling", "done"},
               created : AccountId \cup {None}]

WizardTyped ==
  /\ wizard \in [session : Nat, state : DialogType]
  /\ runs \in [RunId -> Runs \cup {None}]
  /\ pollTimer \in RunId \cup {None}
  /\ closers \in Nat
  /\ login \in [AccountId -> {"absent", "new", "ok", "error"}]

Active(r) == runs[r] # None /\ runs[r].at # "over"

FirstOpening == wizard.session = 1 /\ wizard.state.open

\* While the first opening has no account, one run at most is under way, and the
\* dialog is busy with it.
OneAtFirst ==
  FirstOpening /\ wizard.state.created = None =>
    \A r \in RunId : Active(r) =>
      /\ runs[r].at \in {"create", "import"} /\ wizard.state.phase = "busy"
      /\ \A s \in RunId : Active(s) => s = r

\* Then only an import can be about to close the dialog, which is done.
DoneAtFirst ==
  FirstOpening /\ wizard.state.created = None /\ closers # 0 => wizard.state.phase = "done"

\* The account of the first opening is that of its runs.
SharedAtFirst ==
  FirstOpening => \A r \in RunId :
    runs[r] # None /\ runs[r].kind # "import" /\ runs[r].account # None
      => runs[r].account = wizard.state.created

\* A run of the first opening creates its account while that is open and has none.
CreatesAtFirst ==
  \A r \in RunId : runs[r] # None /\ runs[r].session = 1 /\ runs[r].at = "create"
    => FirstOpening /\ wizard.state.created = None

Sessions ==
  /\ wizard.session = 0 => /\ ~wizard.state.open /\ closers = 0
                           /\ \A r \in RunId : runs[r] = None
  /\ \A r \in RunId : runs[r] # None => 1 <= runs[r].session /\ runs[r].session <= wizard.session

\* A run that signs in has the account it signs in, and an import creates none before.
SignInsHaveAccounts ==
  \A r \in RunId : runs[r] # None =>
    /\ runs[r].at \in {"start", "wait", "poll", "complete", "login"} => runs[r].account \in AccountId
    /\ runs[r].at = "create" => runs[r].kind # "import"

Ready == added # None => added \in AccountId /\ login[added] = "ok"

WizardSound ==
  /\ WizardTyped
  /\ OneAtFirst /\ DoneAtFirst /\ SharedAtFirst /\ CreatesAtFirst /\ Sessions
  /\ SignInsHaveAccounts /\ Ready /\ Wizard!OneAccountPerSession

\* The console starts with the dialog closed.
LEMMA WizardStarts == ASSUME Wizard!WizardInit PROVE WizardSound
<1>1. /\ wizard = [session |-> 0,
                   state |-> [open |-> FALSE, step |-> "method", tab |-> "browser", provider |-> None,
                              phase |-> "idle", created |-> None]]
      /\ runs = [r \in RunId |-> None] /\ pollTimer = None /\ closers = 0
      /\ login = [a \in AccountId |-> "absent"] /\ added = None
  BY DEF Wizard!WizardInit, Wizard!Closed
<1>2. WizardTyped
  BY <1>1 DEF WizardTyped, DialogType
<1>3. \A r \in RunId : runs[r] = None
  BY <1>1
<1>4. wizard.session = 0 /\ ~wizard.state.open
  BY <1>1
<1> QED
  BY <1>1, <1>2, <1>3, <1>4
     DEF WizardSound, OneAtFirst, DoneAtFirst, SharedAtFirst, CreatesAtFirst, Sessions, FirstOpening,
         Active, SignInsHaveAccounts, Ready, Wizard!OneAccountPerSession

\* A run stopped in its wait is over, and nothing else of it changes.
Stopped(old, new) ==
  new = old \/ (old # None /\ old \in Runs /\ new = [old EXCEPT !.at = "over"])

\* stopPolling ends the run that waits, if one does.
LEMMA PollsStop ==
  ASSUME WizardTyped, NEW kept \in [RunId -> Runs \cup {None}]
  PROVE  /\ Wizard!Polls(kept) \in [RunId -> Runs \cup {None}]
         /\ \A r \in RunId : Stopped(kept[r], Wizard!Polls(kept)[r])
<1>1. CASE pollTimer # None /\ kept[pollTimer] # None /\ kept[pollTimer].at = "wait"
  <2> DEFINE over == [kept[pollTimer] EXCEPT !.at = "over"]
  <2>1. pollTimer \in RunId /\ kept[pollTimer] \in Runs
    BY <1>1 DEF WizardTyped
  <2>2. over \in Runs
    BY <2>1 DEF Runs
  <2>3. Wizard!Polls(kept) = [kept EXCEPT ![pollTimer] = over]
    BY <1>1 DEF Wizard!Polls
  <2>4. Stopped(kept[pollTimer], over)
    BY <1>1, <2>1 DEF Stopped
  <2> HIDE DEF over
  <2> QED
    BY <2>1, <2>2, <2>3, <2>4 DEF Stopped
<1>2. CASE ~(pollTimer # None /\ kept[pollTimer] # None /\ kept[pollTimer].at = "wait")
  BY <1>2 DEF Wizard!Polls, Stopped
<1> QED
  BY <1>1, <1>2

\* What a stopped run keeps.
LEMMA StoppedKeeps ==
  ASSUME NEW old, NEW new, Stopped(old, new), new # None
  PROVE  /\ old # None /\ new.kind = old.kind /\ new.account = old.account
         /\ new.session = old.session /\ new.at \in {old.at, "over"}
BY DEF Stopped, Runs

\* A step that moves the dialog and leaves it what it is in session, account and phase.
LEMMA DialogMoves ==
  ASSUME WizardSound, UNCHANGED <<runs, pollTimer, closers, login, added>>,
         NEW d, wizard' = [wizard EXCEPT !.state = d],
         d \in DialogType,
         d.open = wizard.state.open, d.phase = wizard.state.phase,
         d.created = wizard.state.created
  PROVE  WizardSound'
<1>1. wizard' = [session |-> wizard.session, state |-> d] /\ wizard'.session = wizard.session /\ wizard'.state = d
  BY DEF WizardSound, WizardTyped
<1>2. WizardTyped'
  BY <1>1 DEF WizardSound, WizardTyped
<1> QED
  BY <1>1, <1>2
     DEF WizardSound, OneAtFirst, DoneAtFirst, SharedAtFirst, CreatesAtFirst, Sessions, FirstOpening,
         Active, SignInsHaveAccounts, Ready, Wizard!OneAccountPerSession

\* The operator moves in the dialog.
LEMMA WizardMoved ==
  ASSUME WizardSound,
         \/ Wizard!BackToProviders
         \/ \E p \in Provider : Wizard!ChooseProvider(p)
         \/ \E tab \in {"browser", "pat", "import"} : Wizard!ChooseTab(tab)
  PROVE  WizardSound'
<1> DEFINE d == wizard.state
<1>1. d \in DialogType
  BY DEF WizardSound, WizardTyped
<1>2. CASE Wizard!BackToProviders
  <2>1. /\ wizard' = [wizard EXCEPT !.state = [d EXCEPT !.step = "method"]]
        /\ UNCHANGED <<runs, pollTimer, closers, login, added>>
    BY <1>2 DEF Wizard!BackToProviders, Wizard!ToDialog, Wizard!Dialog
  <2> DEFINE next == [d EXCEPT !.step = "method"]
  <2>2. next \in DialogType /\ next.open = d.open /\ next.phase = d.phase /\ next.created = d.created
    BY <1>1 DEF DialogType
  <2>3. wizard' = [wizard EXCEPT !.state = next]
    BY <2>1
  <2> HIDE DEF next
  <2> QED
    BY <2>1, <2>2, <2>3, DialogMoves
<1>3. ASSUME NEW p \in Provider, Wizard!ChooseProvider(p) PROVE WizardSound'
  <2> DEFINE from == IF p \in KeyOnly THEN "pat" ELSE "browser"
             tab == Wizard!TabAfter(from, d.provider, p)
             next == [d EXCEPT !.provider = p, !.step = "login", !.tab = tab]
  <2>1. /\ wizard' = [wizard EXCEPT !.state = next]
        /\ UNCHANGED <<runs, pollTimer, closers, login, added>>
    BY <1>3 DEF Wizard!ChooseProvider, Wizard!ToDialog, Wizard!Dialog
  <2>2. tab \in {"browser", "pat", "import"}
    BY DEF Wizard!TabAfter
  <2> HIDE DEF tab
  <2>3. next \in DialogType /\ next.open = d.open /\ next.phase = d.phase /\ next.created = d.created
    BY <1>1, <2>2 DEF DialogType
  <2> HIDE DEF next
  <2> QED
    BY <2>1, <2>3, DialogMoves
<1>4. ASSUME NEW tab \in {"browser", "pat", "import"}, Wizard!ChooseTab(tab) PROVE WizardSound'
  <2> DEFINE next == [d EXCEPT !.tab = tab]
  <2>1. /\ wizard' = [wizard EXCEPT !.state = next]
        /\ UNCHANGED <<runs, pollTimer, closers, login, added>>
    BY <1>4 DEF Wizard!ChooseTab, Wizard!ToDialog, Wizard!Dialog
  <2>2. next \in DialogType /\ next.open = d.open /\ next.phase = d.phase /\ next.created = d.created
    BY <1>1 DEF DialogType
  <2> HIDE DEF next
  <2> QED
    BY <2>1, <2>2, DialogMoves
<1> QED
  BY <1>2, <1>3, <1>4

\* The dialog opens: the first time before any run, later without a first run at
\* work on an account of its own.
LEMMA WizardOpens == ASSUME WizardSound, Wizard!OpenWizard PROVE WizardSound'
<1> DEFINE d == wizard.state
           next == [d EXCEPT !.open = TRUE, !.provider = None, !.tab = "browser"]
<1>1. /\ wizard' = [session |-> wizard.session + 1, state |-> next]
      /\ ~d.open /\ UNCHANGED <<runs, pollTimer, closers, login, added>>
  BY DEF Wizard!OpenWizard, Wizard!Dialog
<1>2. wizard.session \in Nat /\ d \in DialogType
  BY DEF WizardSound, WizardTyped
<1>3. next \in DialogType
  BY <1>2 DEF DialogType
<1> HIDE DEF next
<1>4. wizard'.session = wizard.session + 1 /\ wizard'.state = next
  BY <1>1
<1>5. WizardTyped'
  BY <1>1, <1>2, <1>3 DEF WizardSound, WizardTyped
<1>6. \A r \in RunId : runs[r] # None /\ runs[r].session = 1 => runs[r].at # "create"
  BY <1>1 DEF WizardSound, CreatesAtFirst, FirstOpening
<1>7. wizard'.session = 1 => closers = 0 /\ \A r \in RunId : runs[r] = None
  BY <1>2, <1>4 DEF WizardSound, Sessions
<1>8. OneAtFirst' /\ DoneAtFirst' /\ SharedAtFirst'
  BY <1>1, <1>7 DEF OneAtFirst, DoneAtFirst, SharedAtFirst, FirstOpening, Active
<1>9. Sessions'
  <2>1. \A r \in RunId : runs[r] # None => runs[r].session \in Nat
    BY DEF WizardSound, WizardTyped, Runs
  <2> QED
    BY <1>1, <1>2, <1>4, <2>1 DEF WizardSound, Sessions
<1> QED
  BY <1>1, <1>5, <1>6, <1>8, <1>9
     DEF WizardSound, CreatesAtFirst, SignInsHaveAccounts, Ready, Wizard!OneAccountPerSession

\* The dialog closes when it is not busy, or some time after an account came in.
LEMMA WizardCloses ==
  ASSUME WizardSound, Wizard!CloseWizard \/ Wizard!FinishAndClose
  PROVE  WizardSound'
<1>1. /\ wizard' = [wizard EXCEPT !.state = Wizard!Closed]
      /\ runs' = Wizard!Polls(runs) /\ pollTimer' = None
      /\ closers' \in Nat /\ UNCHANGED <<login, added>>
  BY DEF Wizard!CloseWizard, Wizard!FinishAndClose, Wizard!Reset, Wizard!ToDialog, WizardSound,
         WizardTyped
<1>2. Wizard!Closed \in DialogType /\ ~Wizard!Closed.open
  BY DEF Wizard!Closed, DialogType
<1>3. wizard'.session = wizard.session /\ wizard'.state = Wizard!Closed
  BY <1>1 DEF WizardSound, WizardTyped
<1>4. runs' \in [RunId -> Runs \cup {None}] /\ \A r \in RunId : Stopped(runs[r], runs'[r])
  BY <1>1, PollsStop DEF WizardSound, WizardTyped
<1>5. WizardTyped'
  BY <1>1, <1>2, <1>3, <1>4 DEF WizardSound, WizardTyped
<1>6. \A r \in RunId : ~(runs[r] # None /\ runs[r].session = 1 /\ runs[r].at = "create")
  <2> SUFFICES ASSUME NEW r \in RunId, runs[r] # None, runs[r].session = 1, runs[r].at = "create"
               PROVE  FALSE
    OBVIOUS
  <2>1. FirstOpening /\ wizard.state.created = None
    BY DEF WizardSound, CreatesAtFirst
  <2>2. wizard.state.phase = "busy"
    BY <2>1 DEF WizardSound, OneAtFirst, Active
  <2>3. closers = 0
    BY <2>1, <2>2 DEF WizardSound, DoneAtFirst
  <2> QED
    BY <2>2, <2>3 DEF Wizard!CloseWizard, Wizard!FinishAndClose, Wizard!Busy, Wizard!Dialog
<1>7. \A r \in RunId : runs'[r] # None =>
        /\ runs[r] # None /\ runs'[r].kind = runs[r].kind /\ runs'[r].account = runs[r].account
        /\ runs'[r].session = runs[r].session /\ runs'[r].at \in {runs[r].at, "over"}
  BY <1>4, StoppedKeeps
<1>8. ~FirstOpening'
  BY <1>2, <1>3 DEF FirstOpening
<1>9. Sessions'
  <2>1. wizard.session = 0 => closers' = 0 /\ \A r \in RunId : runs'[r] = None
    BY <1>7 DEF WizardSound, Sessions, Wizard!CloseWizard, Wizard!FinishAndClose, Wizard!Dialog
  <2> QED
    BY <1>2, <1>3, <1>7, <2>1 DEF WizardSound, Sessions
<1>10. CreatesAtFirst'
  BY <1>6, <1>7 DEF CreatesAtFirst
<1>11. SignInsHaveAccounts' /\ Ready'
  BY <1>1, <1>7 DEF WizardSound, SignInsHaveAccounts, Ready
<1>12. Wizard!OneAccountPerSession'
  BY <1>7 DEF WizardSound, Wizard!OneAccountPerSession
<1> QED
  BY <1>5, <1>8, <1>9, <1>10, <1>11, <1>12 DEF WizardSound, OneAtFirst, DoneAtFirst, SharedAtFirst

\* A button pressed: in the first opening with no account nothing else is under way.
LEMMA WizardPressed ==
  ASSUME WizardSound, NEW kind \in {"browser", "callback", "pat", "import"}, NEW r \in RunId,
         Wizard!Press(kind, r)
  PROVE  WizardSound'
<1> DEFINE d == wizard.state
           has == d.created # None /\ kind # "import"
           at == IF kind = "import" THEN "import" ELSE IF has THEN Wizard!After(kind) ELSE "create"
           run == [kind |-> kind, at |-> at, account |-> d.created, session |-> wizard.session,
                   polls |-> 0]
           before == IF kind = "callback" /\ has THEN Wizard!Polls(runs) ELSE runs
           phase == IF kind = "browser" /\ has THEN "polling" ELSE "busy"
           next == [d EXCEPT !.phase = phase]
<1>1. d \in DialogType /\ wizard.session \in Nat /\ runs \in [RunId -> Runs \cup {None}]
  BY DEF WizardSound, WizardTyped
<1>2. /\ runs' = [before EXCEPT ![r] = run] /\ pollTimer' \in {None, pollTimer}
      /\ wizard' = [wizard EXCEPT !.state = next]
      /\ UNCHANGED <<closers, login, added>>
  BY DEF Wizard!Press, Wizard!ToDialog, Wizard!Dialog
<1>3. /\ before \in [RunId -> Runs \cup {None}]
      /\ \A q \in RunId : Stopped(runs[q], before[q])
  BY <1>1, PollsStop DEF WizardSound, Stopped
<1>4. at \in {"create", "start", "complete", "login", "import"}
  BY DEF Wizard!After
<1>5. run \in Runs
  <2> HIDE DEF at
  <2> QED
    BY <1>1, <1>4 DEF Runs, DialogType
<1>6. /\ run.kind = kind /\ run.at = at /\ run.account = d.created /\ run.session = wizard.session
  OBVIOUS
<1>7. /\ at = "create" => d.created = None
      /\ at \notin {"create", "import"} => d.created # None
      /\ kind = "import" <=> at = "import"
      /\ d.created = None => phase = "busy"
  BY DEF Wizard!After
<1>8. d.open /\ d.phase # "busy" /\ d.phase # "done"
  BY DEF Wizard!Press, Wizard!Pressable, Wizard!Dialog, Wizard!Busy
<1>9. phase \in {"idle", "busy", "polling", "done"}
  OBVIOUS
<1> HIDE DEF at, run, before, phase
<1>10. next \in DialogType /\ next.open = d.open /\ next.created = d.created /\ next.phase = phase
  BY <1>1, <1>9 DEF DialogType
<1> HIDE DEF next
<1>11. wizard'.session = wizard.session /\ wizard'.state = next
  BY <1>2 DEF WizardSound, WizardTyped
<1>12. WizardTyped'
  BY <1>1, <1>2, <1>3, <1>5, <1>10, <1>11 DEF WizardSound, WizardTyped
<1>13. \A q \in RunId \ {r} : runs'[q] # None =>
         /\ runs[q] # None /\ runs'[q].kind = runs[q].kind /\ runs'[q].account = runs[q].account
         /\ runs'[q].session = runs[q].session /\ runs'[q].at \in {runs[q].at, "over"}
  BY <1>2, <1>3, StoppedKeeps
<1>14. runs'[r] = run
  BY <1>2, <1>3
<1>15. wizard.session # 0
  BY <1>8 DEF WizardSound, Sessions
<1>16. OneAtFirst'
  <2> SUFFICES ASSUME FirstOpening, d.created = None
               PROVE  /\ run.at \in {"create", "import"} /\ phase = "busy"
                      /\ \A q \in RunId \ {r} : ~Active(q)'
    BY <1>10, <1>11, <1>14 DEF OneAtFirst, FirstOpening, Active
  <2>1. \A q \in RunId : ~Active(q)
    BY <1>8 DEF WizardSound, OneAtFirst
  <2>2. \A q \in RunId \ {r} : ~Active(q)'
    BY <1>13, <2>1 DEF Active
  <2> QED
    BY <1>6, <1>7, <2>2
<1>17. DoneAtFirst'
  BY <1>2, <1>8, <1>10, <1>11 DEF WizardSound, DoneAtFirst, FirstOpening
<1>18. SharedAtFirst'
  BY <1>6, <1>10, <1>11, <1>13, <1>14 DEF WizardSound, SharedAtFirst, FirstOpening
<1>19. CreatesAtFirst'
  <2>1. \A q \in RunId \ {r} : runs'[q] # None /\ runs'[q].session = 1 /\ runs'[q].at = "create"
          => FirstOpening /\ d.created = None
    BY <1>13 DEF WizardSound, CreatesAtFirst
  <2>2. run.session = 1 /\ run.at = "create" => FirstOpening /\ d.created = None
    BY <1>6, <1>7, <1>8 DEF FirstOpening
  <2>3. (FirstOpening <=> FirstOpening') /\ wizard'.state.created = d.created
    BY <1>10, <1>11 DEF FirstOpening
  <2> QED
    BY <1>14, <2>1, <2>2, <2>3 DEF CreatesAtFirst
<1>20. Sessions'
  BY <1>1, <1>6, <1>10, <1>11, <1>13, <1>14, <1>15 DEF WizardSound, Sessions
<1>21. SignInsHaveAccounts' /\ Ready'
  <2>1. run.at \notin {"create", "import"} => run.account \in AccountId
    BY <1>1, <1>6, <1>7 DEF DialogType
  <2> QED
    BY <1>2, <1>6, <1>7, <1>13, <1>14, <2>1 DEF WizardSound, SignInsHaveAccounts, Ready
<1>22. Wizard!OneAccountPerSession'
  <2>1. wizard.session = 1 => FirstOpening
    BY <1>8 DEF FirstOpening
  <2>2. wizard.session = 1 => \A q \in RunId \ {r} :
          runs'[q] # None /\ runs'[q].kind # "import" /\ runs'[q].account # None
            => runs'[q].account = run.account
    BY <1>6, <1>13, <2>1 DEF WizardSound, SharedAtFirst
  <2> QED
    BY <1>6, <1>13, <1>14, <2>2 DEF WizardSound, Wizard!OneAccountPerSession
<1> QED
  BY <1>12, <1>16, <1>17, <1>18, <1>19, <1>20, <1>21, <1>22 DEF WizardSound

\* A run that goes on with its account, and moves nothing else.
LEMMA RunGoesOn ==
  ASSUME WizardSound, NEW r \in RunId, NEW run \in Runs,
         runs[r] # None, runs[r].at \in {"start", "wait", "poll"},
         run.at \in {"wait", "poll"}, run.kind = runs[r].kind, run.account = runs[r].account,
         run.session = runs[r].session,
         runs' = [runs EXCEPT ![r] = run], pollTimer' \in {pollTimer, r},
         UNCHANGED <<wizard, closers, login, added>>
  PROVE  WizardSound'
<1>1. WizardTyped'
  BY DEF WizardSound, WizardTyped
<1>2. /\ \A q \in RunId \ {r} : runs'[q] = runs[q]
      /\ runs'[r] = run
  BY DEF WizardSound, WizardTyped
<1>3. OneAtFirst'
  <2>1. Active(r) /\ (FirstOpening => wizard.state.created # None)
    BY DEF WizardSound, OneAtFirst, Active
  <2> QED
    BY <2>1 DEF OneAtFirst, FirstOpening
<1>4. DoneAtFirst' /\ SharedAtFirst' /\ CreatesAtFirst' /\ Sessions' /\ SignInsHaveAccounts' /\ Ready'
  BY <1>2 DEF WizardSound, DoneAtFirst, SharedAtFirst, CreatesAtFirst, Sessions, SignInsHaveAccounts,
              Ready, FirstOpening
<1>5. Wizard!OneAccountPerSession'
  BY <1>2 DEF WizardSound, Wizard!OneAccountPerSession
<1> QED
  BY <1>1, <1>3, <1>4, <1>5 DEF WizardSound

\* A run that ends: the dialog's phase is its last word.
LEMMA RunEnds ==
  ASSUME WizardSound, NEW r \in RunId, Active(r), NEW phase \in {"idle", "polling", "done"},
         runs' = [runs EXCEPT ![r].at = "over"],
         wizard' = [wizard EXCEPT !.state = [wizard.state EXCEPT !.phase = phase]],
         pollTimer' = pollTimer, closers' \in Nat,
         phase = "done" \/ closers' = closers,
         login' \in [AccountId -> {"absent", "new", "ok", "error"}],
         Ready'
  PROVE  WizardSound'
<1> DEFINE d == wizard.state
           next == [d EXCEPT !.phase = phase]
           run == [runs[r] EXCEPT !.at = "over"]
<1>1. d \in DialogType /\ wizard.session \in Nat /\ runs[r] \in Runs
  BY DEF WizardSound, WizardTyped, Active
<1>2. next \in DialogType /\ next.open = d.open /\ next.created = d.created /\ next.phase = phase
  BY <1>1 DEF DialogType
<1>3. wizard' = [wizard EXCEPT !.state = next] /\ runs' = [runs EXCEPT ![r] = run]
  OBVIOUS
<1>4. /\ run \in Runs /\ run.at = "over" /\ run.kind = runs[r].kind /\ run.account = runs[r].account
      /\ run.session = runs[r].session
  BY <1>1 DEF Runs
<1> HIDE DEF next, run
<1>5. wizard'.session = wizard.session /\ wizard'.state = next
  BY <1>3 DEF WizardSound, WizardTyped
<1>6. WizardTyped'
  BY <1>2, <1>3, <1>4 DEF WizardSound, WizardTyped
<1>7. runs'[r] = run /\ \A q \in RunId \ {r} : runs'[q] = runs[q]
  BY <1>3 DEF WizardSound, WizardTyped
<1>8. \A q \in RunId : runs'[q] # None =>
        /\ runs[q] # None /\ runs'[q].kind = runs[q].kind /\ runs'[q].account = runs[q].account
        /\ runs'[q].session = runs[q].session /\ runs'[q].at \in {runs[q].at, "over"}
  BY <1>4, <1>7 DEF Active
<1>9. OneAtFirst' /\ DoneAtFirst'
  <2> SUFFICES ASSUME FirstOpening, d.created = None
               PROVE  /\ \A q \in RunId : ~Active(q)'
                      /\ closers' # 0 => phase = "done"
    BY <1>2, <1>5 DEF OneAtFirst, DoneAtFirst, FirstOpening
  <2>1. d.phase = "busy" /\ \A q \in RunId : Active(q) => q = r
    BY DEF WizardSound, OneAtFirst
  <2>2. closers = 0
    BY <2>1 DEF WizardSound, DoneAtFirst
  <2>3. \A q \in RunId : ~Active(q)'
    BY <1>4, <1>7, <2>1 DEF Active
  <2> QED
    BY <2>2, <2>3
<1>10. SharedAtFirst' /\ CreatesAtFirst' /\ SignInsHaveAccounts'
  BY <1>2, <1>5, <1>8 DEF WizardSound, SharedAtFirst, CreatesAtFirst, SignInsHaveAccounts, FirstOpening
<1>11. Sessions'
  BY <1>2, <1>5, <1>8 DEF WizardSound, Sessions, Active
<1>12. Wizard!OneAccountPerSession'
  BY <1>8 DEF WizardSound, Wizard!OneAccountPerSession
<1> QED
  BY <1>6, <1>9, <1>10, <1>11, <1>12 DEF WizardSound

\* A run that fails ends, and the list is told of nothing.
LEMMA RunFails ==
  ASSUME WizardSound, NEW r \in RunId, Active(r), Wizard!Fail(r), login' = login
  PROVE  WizardSound'
<1> DEFINE phase == IF runs[r].kind = "callback" THEN "polling" ELSE "idle"
<1>1. /\ runs' = [runs EXCEPT ![r].at = "over"]
      /\ wizard' = [wizard EXCEPT !.state = [wizard.state EXCEPT !.phase = phase]]
      /\ UNCHANGED <<pollTimer, closers, added>>
  BY DEF Wizard!Fail, Wizard!ToDialog, Wizard!Dialog
<1>2. phase \in {"idle", "polling", "done"}
  OBVIOUS
<1>3. Ready'
  BY <1>1 DEF WizardSound, Ready
<1>4. closers' \in Nat /\ login' \in [AccountId -> {"absent", "new", "ok", "error"}]
  BY <1>1 DEF WizardSound, WizardTyped
<1> HIDE DEF phase
<1> QED
  BY <1>1, <1>2, <1>3, <1>4, RunEnds

\* A run that succeeds ends, and the list is told of an account that can serve.
LEMMA RunSucceeds ==
  ASSUME WizardSound, NEW r \in RunId, Active(r), NEW a \in AccountId, Wizard!Succeed(r, a),
         login' \in {login, [login EXCEPT ![a] = "ok"]}, login'[a] = "ok"
  PROVE  WizardSound'
<1>1. /\ runs' = [runs EXCEPT ![r].at = "over"]
      /\ wizard' = [wizard EXCEPT !.state = [wizard.state EXCEPT !.phase = "done"]]
      /\ added' = a /\ closers' = closers + 1 /\ pollTimer' = pollTimer
  BY DEF Wizard!Succeed, Wizard!ToDialog, Wizard!Dialog
<1>2. Ready'
  BY <1>1 DEF Ready
<1>3. closers' \in Nat /\ login' \in [AccountId -> {"absent", "new", "ok", "error"}]
  BY <1>1 DEF WizardSound, WizardTyped
<1> QED
  BY <1>1, <1>2, <1>3, RunEnds

\* ensureAccount: the account a run creates is the first of its opening.
LEMMA RunCreates ==
  ASSUME WizardSound, NEW r \in RunId, Wizard!AccountCreated(r)
  PROVE  WizardSound'
<1>1. Active(r) /\ runs[r].at = "create"
  BY DEF Wizard!AccountCreated, Active
<1>2. CASE Wizard!Fail(r) /\ UNCHANGED login
  BY <1>1, <1>2, RunFails
<1>3. ASSUME NEW a \in Wizard!FreshAccount, login' = [login EXCEPT ![a] = "new"],
             Wizard!Created(r, a), UNCHANGED <<closers, added>>
      PROVE  WizardSound'
  <2> DEFINE d == wizard.state
             phase == IF runs[r].kind = "browser" THEN "polling" ELSE d.phase
             next == [d EXCEPT !.created = a, !.phase = phase]
             run == [runs[r] EXCEPT !.at = Wizard!After(runs[r].kind), !.account = a]
             moved == [runs EXCEPT ![r] = run]
  <2>1. d \in DialogType /\ wizard.session \in Nat /\ runs[r] \in Runs /\ a \in AccountId
    BY <1>1 DEF WizardSound, WizardTyped, Active, Wizard!FreshAccount
  <2>2. a # None /\ login[a] = "absent"
    BY <2>1, ConsoleAssumption DEF ConsoleAssumption, Wizard!WizardAssumption, Wizard!FreshAccount
  <2>3. next \in DialogType /\ next.open = d.open /\ next.created = a
    BY <2>1 DEF DialogType
  <2>4. wizard' = [wizard EXCEPT !.state = next]
    BY <1>3, <2>1 DEF Wizard!Created, Wizard!ToDialog, Wizard!Dialog, DialogType
  <2>5. \/ runs' = moved /\ pollTimer' = pollTimer
        \/ runs' = Wizard!Polls(moved) /\ pollTimer' = None
    <3>1. [runs EXCEPT ![r].at = Wizard!After(runs[r].kind), ![r].account = a] = moved
      BY <2>1 DEF WizardSound, WizardTyped, Runs
    <3>2. \/ /\ runs' = [runs EXCEPT ![r].at = Wizard!After(runs[r].kind), ![r].account = a]
             /\ pollTimer' = pollTimer
          \/ /\ runs' = Wizard!Polls([runs EXCEPT ![r].at = Wizard!After(runs[r].kind), ![r].account = a])
             /\ pollTimer' = None
      BY <1>3, Zenon DEF Wizard!Created
    <3> HIDE DEF moved
    <3> QED
      BY <3>1, <3>2, Zenon
  <2>6. /\ run \in Runs /\ run.kind = runs[r].kind /\ run.account = a /\ run.session = runs[r].session
        /\ run.at \in {"start", "complete", "login"}
    <3>1. runs[r].kind \in {"browser", "callback", "pat"}
      BY <1>1, <2>1 DEF WizardSound, SignInsHaveAccounts, Active, Runs
    <3>2. Wizard!After(runs[r].kind) \in {"start", "complete", "login"}
      BY <3>1 DEF Wizard!After
    <3> QED
      BY <2>1, <3>2 DEF Runs
  <2> HIDE DEF next, run
  <2>7. moved \in [RunId -> Runs \cup {None}] /\ moved[r] = run
        /\ \A q \in RunId \ {r} : moved[q] = runs[q]
    BY <2>6 DEF WizardSound, WizardTyped
  <2> HIDE DEF moved
  <2>8. /\ runs' \in [RunId -> Runs \cup {None}] /\ pollTimer' \in RunId \cup {None}
        /\ \A q \in RunId : Stopped(moved[q], runs'[q])
    BY <2>5, <2>7, PollsStop DEF WizardSound, WizardTyped, Stopped
  <2>9. \A q \in RunId \ {r} : runs'[q] # None =>
          /\ runs[q] # None /\ runs'[q].kind = runs[q].kind /\ runs'[q].account = runs[q].account
          /\ runs'[q].session = runs[q].session /\ runs'[q].at \in {runs[q].at, "over"}
    BY <2>7, <2>8, StoppedKeeps
  <2>10. runs'[r] # None =>
           /\ runs'[r].kind = runs[r].kind /\ runs'[r].account = a
           /\ runs'[r].session = runs[r].session /\ runs'[r].at \in {"start", "complete", "login", "over"}
    BY <2>6, <2>7, <2>8, StoppedKeeps
  <2>11. wizard'.session = wizard.session /\ wizard'.state = next
    BY <2>4 DEF WizardSound, WizardTyped
  <2>12. WizardTyped'
    BY <1>3, <2>1, <2>3, <2>4, <2>8 DEF WizardSound, WizardTyped
  <2>13. OneAtFirst' /\ DoneAtFirst'
    BY <2>2, <2>3, <2>11 DEF OneAtFirst, DoneAtFirst, FirstOpening
  <2>14. runs[r].session = 1 \/ FirstOpening =>
           /\ FirstOpening /\ d.created = None
           /\ \A q \in RunId \ {r} : ~Active(q) /\
                (runs[q] # None /\ runs[q].kind # "import" => runs[q].account = None)
    <3>1. FirstOpening => runs[r].session = 1
      BY <1>1, <2>1 DEF WizardSound, Sessions, FirstOpening, Active, Runs
    <3>2. runs[r].session = 1 => FirstOpening /\ d.created = None
      BY <1>1 DEF WizardSound, CreatesAtFirst, Active
    <3>3. FirstOpening /\ d.created = None => \A q \in RunId \ {r} : ~Active(q)
      BY <1>1 DEF WizardSound, OneAtFirst
    <3> QED
      BY <3>1, <3>2, <3>3 DEF WizardSound, SharedAtFirst
  <2>15. SharedAtFirst'
    BY <2>3, <2>9, <2>10, <2>11, <2>14 DEF SharedAtFirst, FirstOpening
  <2>16. CreatesAtFirst'
    <3> SUFFICES ASSUME NEW q \in RunId, runs'[q] # None, runs'[q].session = 1,
                        runs'[q].at = "create"
                 PROVE  FALSE
      BY DEF CreatesAtFirst
    <3>1. q # r /\ Active(q) /\ runs[q].session = 1 /\ runs[q].at = "create"
      BY <2>9, <2>10 DEF Active
    <3>2. FirstOpening
      BY <3>1 DEF WizardSound, CreatesAtFirst, Active
    <3> QED
      BY <2>14, <3>1, <3>2
  <2>17. Sessions'
    BY <1>1, <2>3, <2>9, <2>10, <2>11 DEF WizardSound, Sessions, Active
  <2>18. SignInsHaveAccounts' /\ Ready'
    BY <1>3, <2>1, <2>2, <2>9, <2>10 DEF WizardSound, WizardTyped, SignInsHaveAccounts, Ready
  <2>19. Wizard!OneAccountPerSession'
    <3> SUFFICES ASSUME NEW p \in RunId, NEW q \in RunId,
                        runs'[p] # None, runs'[q] # None,
                        runs'[p].kind # "import", runs'[q].kind # "import",
                        runs'[p].session = 1, runs'[q].session = 1,
                        runs'[p].account # None, runs'[q].account # None
                 PROVE  runs'[p].account = runs'[q].account
      BY DEF Wizard!OneAccountPerSession
    <3>1. CASE p # r /\ q # r
      BY <2>9, <3>1 DEF WizardSound, Wizard!OneAccountPerSession
    <3>2. CASE p = r \/ q = r
      <4>1. runs[r].session = 1
        BY <2>10, <3>2
      <4> QED
        BY <2>9, <2>14, <4>1
    <3> QED
      BY <3>1, <3>2
  <2> QED
    BY <2>12, <2>13, <2>15, <2>16, <2>17, <2>18, <2>19 DEF WizardSound
<1> QED
  BY <1>2, <1>3 DEF Wizard!AccountCreated

\* The steps of the runs after their accounts.
LEMMA RunSteps ==
  ASSUME WizardSound, NEW r \in RunId, Wizard!RunStep(r)
  PROVE  WizardSound'
<1>1. CASE Wizard!AccountCreated(r)
  BY <1>1, RunCreates
<1>2. CASE Wizard!LoginStarted(r)
  <2>1. Active(r) /\ runs[r] \in Runs
    BY <1>2 DEF Wizard!LoginStarted, Active, WizardSound, WizardTyped
  <2>2. CASE Wizard!Fail(r)
    BY <1>2, <2>1, <2>2, RunFails DEF Wizard!LoginStarted
  <2>3. CASE ~Wizard!Fail(r)
    <3> DEFINE run == [runs[r] EXCEPT !.at = "wait"]
    <3>1. /\ run \in Runs /\ run.at = "wait" /\ run.kind = runs[r].kind
          /\ run.account = runs[r].account /\ run.session = runs[r].session
      BY <2>1 DEF Runs
    <3>2. /\ runs' = [runs EXCEPT ![r] = run] /\ pollTimer' = r
          /\ UNCHANGED <<wizard, closers, login, added>>
      BY <1>2, <2>3 DEF Wizard!LoginStarted
    <3>3. runs[r] # None /\ runs[r].at = "start"
      BY <1>2 DEF Wizard!LoginStarted
    <3> HIDE DEF run
    <3> QED
      BY <3>1, <3>2, <3>3, RunGoesOn
  <2> QED
    BY <2>2, <2>3
<1>3. CASE Wizard!PollTimerFires(r)
  <2> DEFINE run == [runs[r] EXCEPT !.at = "poll"]
  <2>1. runs[r] \in Runs /\ runs[r] # None /\ runs[r].at = "wait"
    BY <1>3 DEF Wizard!PollTimerFires, WizardSound, WizardTyped
  <2>2. /\ run \in Runs /\ run.at = "poll" /\ run.kind = runs[r].kind
        /\ run.account = runs[r].account /\ run.session = runs[r].session
    BY <2>1 DEF Runs
  <2>3. /\ runs' = [runs EXCEPT ![r] = run] /\ pollTimer' = pollTimer
        /\ UNCHANGED <<wizard, closers, login, added>>
    BY <1>3 DEF Wizard!PollTimerFires
  <2> HIDE DEF run
  <2> QED
    BY <2>1, <2>2, <2>3, RunGoesOn
<1>4. CASE Wizard!Polled(r)
  <2>1. Active(r) /\ runs[r] \in Runs /\ runs[r] # None /\ runs[r].at = "poll" /\ login' = login
    BY <1>4 DEF Wizard!Polled, Active, WizardSound, WizardTyped
  <2>2. runs[r].account \in AccountId
    BY <2>1 DEF WizardSound, SignInsHaveAccounts
  <2>3. CASE login[runs[r].account] = "ok" /\ Wizard!Succeed(r, runs[r].account)
    BY <2>1, <2>2, <2>3, RunSucceeds
  <2>4. CASE Wizard!Fail(r)
    BY <2>1, <2>4, RunFails
  <2>5. CASE /\ runs' = [runs EXCEPT ![r].at = "wait", ![r].polls = @ + 1]
             /\ pollTimer' = r /\ UNCHANGED <<wizard, closers, added>>
    <3> DEFINE run == [runs[r] EXCEPT !.at = "wait", !.polls = @ + 1]
    <3>1. runs[r].polls + 1 \in Nat
      BY <2>1 DEF Runs
    <3>2. /\ run \in Runs /\ run.at = "wait" /\ run.kind = runs[r].kind
          /\ run.account = runs[r].account /\ run.session = runs[r].session
      BY <2>1, <3>1 DEF Runs
    <3>3. runs' = [runs EXCEPT ![r] = run]
      BY <2>1, <2>5 DEF WizardSound, WizardTyped, Runs
    <3> HIDE DEF run
    <3> QED
      BY <2>1, <2>5, <3>2, <3>3, RunGoesOn
  <2> QED
    BY <1>4, <2>3, <2>4, <2>5 DEF Wizard!Polled
<1>5. CASE Wizard!Submitted(r)
  <2>1. Active(r) /\ runs[r].account \in AccountId
    BY <1>5 DEF Wizard!Submitted, Active, WizardSound, SignInsHaveAccounts
  <2>2. CASE Wizard!Fail(r) /\ UNCHANGED login
    BY <2>1, <2>2, RunFails
  <2>3. CASE /\ Wizard!Succeed(r, runs[r].account)
             /\ login' = [login EXCEPT ![runs[r].account] = "ok"]
    <3>1. login'[runs[r].account] = "ok"
      BY <2>1, <2>3 DEF WizardSound, WizardTyped
    <3> QED
      BY <2>1, <2>3, <3>1, RunSucceeds
  <2> QED
    BY <1>5, <2>2, <2>3 DEF Wizard!Submitted
<1>6. CASE Wizard!Imported(r)
  <2>1. Active(r)
    BY <1>6 DEF Wizard!Imported, Active
  <2>2. CASE Wizard!Fail(r) /\ UNCHANGED login
    BY <2>1, <2>2, RunFails
  <2>3. ASSUME NEW a \in Wizard!FreshAccount, login' = [login EXCEPT ![a] = "ok"],
               Wizard!Succeed(r, a)
        PROVE  WizardSound'
    <3>1. a \in AccountId
      BY DEF Wizard!FreshAccount
    <3>2. login'[a] = "ok"
      BY <2>3, <3>1 DEF WizardSound, WizardTyped
    <3> QED
      BY <2>1, <2>3, <3>1, <3>2, RunSucceeds
  <2> QED
    BY <1>6, <2>2, <2>3 DEF Wizard!Imported
<1> QED
  BY <1>1, <1>2, <1>3, <1>4, <1>5, <1>6 DEF Wizard!RunStep

\* Every step of the dialog, its runs and the browser.
LEMMA WizardStep == ASSUME WizardSound, Wizard!WizardNext PROVE WizardSound'
<1>1. ASSUME NEW a \in AccountId, Wizard!BrowserLogin(a) PROVE WizardSound'
  <2>1. /\ login[a] = "new" /\ UNCHANGED <<wizard, runs, pollTimer, closers, added>>
        /\ \E outcome \in {"ok", "error"} : login' = [login EXCEPT ![a] = outcome]
    BY <1>1 DEF Wizard!BrowserLogin
  <2>2. WizardTyped' /\ Ready'
    BY <2>1 DEF WizardSound, WizardTyped, Ready
  <2> QED
    BY <2>1, <2>2
       DEF WizardSound, OneAtFirst, DoneAtFirst, SharedAtFirst, CreatesAtFirst, Sessions, FirstOpening,
           Active, SignInsHaveAccounts, Wizard!OneAccountPerSession
<1> QED
  BY <1>1, WizardOpens, WizardMoved, WizardCloses, WizardPressed, RunSteps DEF Wizard!WizardNext

-----------------------------------------------------------------------------
(* The console: one of these parts is mounted, or another *)

\* What holds of the part that is mounted.
PartSound ==
  /\ part = "detail" => DetailSound
  /\ part = "dialogs" => DialogsSound
  /\ part = "keys" => KeysSound
  /\ part = "import" => ImportSound
  /\ part = "wizard" => WizardSound

\* A part just mounted is sound.
LEMMA PartStarts == ASSUME Init PROVE PartSound
<1>1. part = "detail" => DetailSound
  BY DetailStarts DEF Init, DetailInit
<1>2. part = "dialogs" => DialogsSound
  BY DialogsStart DEF Init, DialogsInit
<1>3. part = "keys" => KeysSound
  BY KeysStart DEF Init, KeysInit
<1>4. part = "import" => ImportSound
  BY ImportStarts DEF Init, ImportInit
<1>5. part = "wizard" => WizardSound
  BY WizardStarts DEF Init, WizardInit
<1> QED
  BY <1>1, <1>2, <1>3, <1>4, <1>5 DEF PartSound

\* The mounted part's step keeps it so; a step of nobody changes nothing.
LEMMA PartStep == ASSUME PartSound, [Next]_vars PROVE PartSound'
<1>1. CASE Next
  <2>1. part' = part
    BY <1>1 DEF Next
  <2>2. part = "detail" => DetailSound'
    BY <1>1, DetailStep DEF Next, PartSound
  <2>3. part = "dialogs" => DialogsSound'
    BY <1>1, DialogsStep DEF Next, PartSound
  <2>4. part = "keys" => KeysSound'
    BY <1>1, KeysStep DEF Next, PartSound
  <2>5. part = "import" => ImportSound'
    BY <1>1, ImportStep DEF Next, PartSound
  <2>6. part = "wizard" => WizardSound'
    BY <1>1, WizardStep DEF Next, PartSound
  <2> QED
    BY <2>1, <2>2, <2>3, <2>4, <2>5, <2>6 DEF PartSound
<1>2. CASE UNCHANGED vars
  <2>1. /\ part' = part
        /\ UNCHANGED detailVars /\ UNCHANGED dialogVars /\ UNCHANGED keysVars
        /\ UNCHANGED importVars /\ UNCHANGED wizardVars
    BY <1>2 DEF vars
  <2>2. part = "detail" => DetailSound'
    BY <2>1 DEF PartSound, detailVars, DetailSound, Detail!DetailIsOpened
  <2>3. part = "dialogs" => DialogsSound'
    BY <2>1 DEF PartSound, dialogVars, DialogsSound, DialogsTyped, ReadsAreTheDialogs, OneDialog,
                Dialogs!DialogsKeepTheirAccount
  <2>4. part = "keys" => KeysSound'
    <3>1. UNCHANGED <<known, options, stored, rows, keyEditor, keyCalls, seen>>
      BY <2>1 DEF keysVars
    <3>2. KeysTyped => KeysTyped'
      BY <3>1 DEF KeysTyped
    <3>3. BoxesAsFound => BoxesAsFound'
      BY <3>1 DEF BoxesAsFound, Keys!Expanded
    <3>4. CallsAskForBoxes /\ EditorWaits => CallsAskForBoxes' /\ EditorWaits'
      BY <3>1 DEF CallsAskForBoxes, EditorWaits
    <3>5. Keys!NeverBroaderThanSeen => Keys!NeverBroaderThanSeen'
      BY <3>1 DEF Keys!NeverBroaderThanSeen
    <3> QED
      BY <3>2, <3>3, <3>4, <3>5 DEF PartSound, KeysSound
  <2>5. part = "import" => ImportSound'
    BY <2>1 DEF PartSound, importVars, ImportSound, Import!ImportsGoWhereTheyBelong
  <2>6. part = "wizard" => WizardSound'
    BY <2>1 DEF PartSound, wizardVars, WizardSound, WizardTyped, FirstOpening, OneAtFirst, DoneAtFirst,
                SharedAtFirst, CreatesAtFirst, Sessions, SignInsHaveAccounts, Ready, Active,
                Wizard!OneAccountPerSession
  <2> QED
    BY <2>1, <2>2, <2>3, <2>4, <2>5, <2>6 DEF PartSound
<1> QED
  BY <1>1, <1>2

\* Whatever is mounted, its invariant holds in every state.
THEOREM PartsStaySound == Spec => []PartSound
<1>1. Init => PartSound
  BY PartStarts
<1>2. PartSound /\ [Next]_vars => PartSound'
  BY PartStep
<1> QED
  BY <1>1, <1>2, PTL DEF Spec

\* DialogsAreTheirOwn: a detail, an editor, a catalog and a list of records show,
\* edit and save what their dialog was opened for, for any number of openings
\* and any order of the answers.
THEOREM DialogsKeepTheirOwn == Spec => []DialogsAreTheirOwn
<1>1. PartSound => DialogsAreTheirOwn
  BY DEF PartSound, DetailSound, DialogsSound, DialogsAreTheirOwn
<1> QED
  BY <1>1, PartsStaySound, PTL

\* NewAccountsAreRight: the wizard reports only accounts that can serve, the runs of
\* one opening share one account, and a credential file goes where it belongs,
\* for any number of runs, accounts, files and picks.
THEOREM NewAccountsComeInRight == Spec => []NewAccountsAreRight
<1>1. WizardSound => Wizard!AddedIsReady /\ Wizard!OneAccountPerSession
  BY DEF WizardSound, Ready, Wizard!AddedIsReady
<1>2. PartSound => NewAccountsAreRight
  BY <1>1 DEF PartSound, ImportSound, NewAccountsAreRight
<1> QED
  BY <1>2, PartsStaySound, PTL

\* NeverBroaderThanSeen: a key whose boxes were changed may use the ticked regions
\* and no other, for any regions, keys and number of editors, whatever was
\* granted or arrived before.
THEOREM KeysAreNeverBroader == Spec => []NeverBroaderThanSeen
<1>1. PartSound => NeverBroaderThanSeen
  BY DEF PartSound, KeysSound, NeverBroaderThanSeen
<1> QED
  BY <1>1, PartsStaySound, PTL
=============================================================================
