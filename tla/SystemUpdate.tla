---------------------------- MODULE SystemUpdate ----------------------------
(***************************************************************************)
(* The online update: the panels of the console that drive it (the         *)
(* sidebar item and the settings page keep a useSystemUpdate each, in any  *)
(* number of tabs), the coordinator of the server, and the updater on the  *)
(* host, which outlives the server it replaces.                            *)
(*                                                                         *)
(* The coordinator works in goroutines ("tasks") that name their job by    *)
(* id; a job may be finished, or replaced, while its goroutine goes on.    *)
(* "pulling" stands for every state of the updater during a download,      *)
(* "queued" for those of a switch before the container is recreated, and a *)
(* job's "preparing" for "checking" too.                                   *)
(***************************************************************************)
EXTENDS Integers, FiniteSets

CONSTANTS
    Panel,     \* the mounted copies of useSystemUpdate
    Latest,    \* versions are 1..Latest; Latest is the newest release
    MaxJobs,   \* bound on the jobs the coordinator opens
    None

JobStates == {"preparing", "preparing_image", "submitting", "backing_up", "running",
              "ready_to_apply", "succeeded", "failed"}

\* The coordinator's own jobs, and those it adopts from the updater.
JobType == [id : {"update", "agent"} \X Nat, state : JobStates, target : Int, backup : BOOLEAN]

UpdateAssumption == Latest \in Nat \ {0} /\ MaxJobs \in Nat /\ None \notin JobType

VARIABLES
    coordinator,  \* [job, running, maintenance, version, jobs]
    tasks,        \* its goroutines and its cancel handlers
    agent,        \* the host's updater
    panel,        \* what each panel holds
    gets          \* the panels' GET requests under way

updateVars == <<coordinator, tasks, agent, panel, gets>>

-----------------------------------------------------------------------------
(* What both sides read of a job and of the updater's status *)

ApplyingJob(j) == j # None /\ (j.state \in {"backing_up", "running"} \/ (j.state = "submitting" /\ j.backup))
ApplyActive(s) == s.state \in {"queued", "recreating"}
HostCancellable(s) == s.state \in {"pulling", "ready_to_apply"}
AgentActive(s) == s.state \in {"pulling", "queued", "recreating", "ready_to_apply"}

Cancellable(j, s) ==
    /\ ~ApplyingJob(j) /\ ~ApplyActive(s)
    /\ \/ HostCancellable(s)
       \/ j # None /\ j.state \in {"preparing", "submitting", "preparing_image"} /\ ~j.backup

\* A job with the fields of a change in place of its own.
Changed(job, change) ==
    [f \in DOMAIN job \union DOMAIN change |-> IF f \in DOMAIN change THEN change[f] ELSE job[f]]

\* Mutate: the coordinator with its job changed, when it is still the one named.
Mutate(c, id, change) ==
    IF c.job # None /\ c.job.id = id THEN [c EXCEPT !.job = Changed(@, change)] ELSE c

\* Finish, and the flags given back with it.
Ended(c, id, state, flags) ==
    [Mutate(c, id, [state |-> state]) EXCEPT
        !.running = @ /\ "running" \notin flags,
        !.maintenance = @ /\ "maintenance" \notin flags]

Failed(c, id) == Ended(c, id, "failed", {"running", "maintenance"})

\* An image the updater holds ready becomes the job, or the job's image.
AdoptPrepared(c, s) ==
    LET target == IF c.job # None /\ c.job.target # 0 THEN c.job.target ELSE s.target
        job    == IF c.job = None
                  THEN [id |-> <<"agent", s.job>>, state |-> "ready_to_apply", target |-> target,
                        backup |-> FALSE]
                  ELSE [c.job EXCEPT !.state = "ready_to_apply", !.target = target]
    IN  IF s.state # "ready_to_apply" \/ ApplyingJob(c.job) THEN c
        ELSE [c EXCEPT !.running = TRUE, !.job = job]

\* HandleInfo's answer; an updater that succeeded stands in for a forgotten job.
InfoOf(c, s) ==
    [version |-> c.version, agent |-> s,
     job |-> IF c.job = None /\ s.state = "succeeded"
             THEN [id |-> <<"agent", s.job>>, state |-> "succeeded", target |-> s.target, backup |-> FALSE]
             ELSE c.job]

-----------------------------------------------------------------------------
(* The panel (useSystemUpdate): its derived state and what it lets one press *)

Unavailable == [state |-> "unavailable", job |-> 0, target |-> 0, from |-> 0, staged |-> FALSE]

JobOf(p) == IF panel[p].info = None THEN None ELSE panel[p].info.job
AgentOf(p) == IF panel[p].info = None THEN Unavailable ELSE panel[p].info.agent
JobId(p) == IF JobOf(p) = None THEN None ELSE JobOf(p).id
JobState(p) == IF JobOf(p) = None THEN "" ELSE JobOf(p).state

Applying(p) ==
    \/ JobState(p) \in {"backing_up", "running"}
    \/ AgentOf(p).state = "recreating"
    \/ JobOf(p) # None /\ JobOf(p).backup /\ JobState(p) = "submitting"

ReadyToApply(p) == ~Applying(p) /\ "ready_to_apply" \in {JobState(p), AgentOf(p).state}

WaitingForJob(p) ==
    /\ panel[p].started # None /\ ~ReadyToApply(p) /\ ~Applying(p)
    /\ JobId(p) # panel[p].started

Preparing(p) ==
    /\ ~Applying(p) /\ ~ReadyToApply(p)
    /\ \/ JobState(p) \in {"preparing", "submitting", "preparing_image"}
       \/ AgentOf(p).state \in {"pulling", "queued"}
       \/ WaitingForJob(p)

Busy(p) == Preparing(p) \/ Applying(p)

JustUpdated(p) ==
    /\ panel[p].info # None /\ "succeeded" \in {JobState(p), AgentOf(p).state}
    /\ panel[p].info.version # panel[p].first

Free(p) == panel[p].info # None /\ AgentOf(p) # Unavailable /\ panel[p].call = "" /\ ~JustUpdated(p)

CanPrepare(p) == Free(p) /\ panel[p].info.version < Latest /\ ~ReadyToApply(p) /\ ~Busy(p)
CanApply(p) == Free(p) /\ ReadyToApply(p)
CanCancel(p) == Free(p) /\ (Preparing(p) \/ ReadyToApply(p))
CanRollback(p) == Free(p) /\ panel[p].info.version > 1 /\ ~ReadyToApply(p) /\ ~Busy(p)

FreshPanel == [info |-> None, started |-> None, call |-> "", first |-> 0]

\* submitting; a new job forgets the one started before.
Press(p, what) ==
    /\ panel' = [panel EXCEPT ![p].call = what,
                              ![p].started = IF what \in {"prepare", "rollback"} THEN None ELSE @]
    /\ UNCHANGED <<coordinator, tasks, agent, gets>>

PressPrimary(p) ==
    \/ CanApply(p) /\ Press(p, "apply")
    \/ CanPrepare(p) /\ coordinator.jobs < MaxJobs /\ Press(p, "prepare")

PressCancel(p) == CanCancel(p) /\ Press(p, "cancel")

ConfirmRestore(p) == CanRollback(p) /\ coordinator.jobs < MaxJobs /\ Press(p, "rollback")

\* An action's own load, after its answer (`started`) or its error.
Loading(p, started) ==
    /\ panel' = [panel EXCEPT ![p].call = "load", ![p].started = started]
    /\ gets' = gets \union {[of |-> p, own |-> TRUE, read |-> None]}

\* The load on mount, the 2-second timer of a busy panel, "Check for updates".
LoadInfo(p) ==
    /\ ~ \E g \in gets : g.of = p /\ ~g.own
    /\ gets' = gets \union {[of |-> p, own |-> FALSE, read |-> None]}
    /\ UNCHANGED <<coordinator, tasks, agent, panel>>

\* HandleInfo: the updater is asked first (it may not answer) ...
InfoReadsAgent(g) ==
    /\ g \in gets /\ g.read = None
    /\ \E s \in {agent, Unavailable} : gets' = (gets \ {g}) \union {[g EXCEPT !.read = s]}
    /\ UNCHANGED <<coordinator, tasks, agent, panel>>

\* ... then its image adopted and the job read; the panel takes the answer.
InfoAnswers(g) ==
    LET c == AdoptPrepared(coordinator, g.read)
        p == g.of
    IN  /\ g \in gets /\ g.read # None
        /\ coordinator' = c
        /\ panel' = [panel EXCEPT ![p].info = InfoOf(c, g.read),
                                  ![p].first = IF @ = 0 THEN c.version ELSE @,
                                  ![p].call = IF g.own THEN "" ELSE @]
        /\ gets' = gets \ {g}
        /\ UNCHANGED <<tasks, agent>>

\* A GET that fails, or was quiet about it, leaves the last answer standing.
InfoFails(g) ==
    /\ g \in gets
    /\ panel' = [panel EXCEPT ![g.of].call = IF g.own THEN "" ELSE @]
    /\ gets' = gets \ {g}
    /\ UNCHANGED <<coordinator, tasks, agent>>

\* The countdown after an update ends in window.location.reload().
Reload(p) ==
    /\ JustUpdated(p) /\ panel[p].call = ""
    /\ panel' = [panel EXCEPT ![p] = FreshPanel]
    /\ gets' = {g \in gets : g.of # p}
    /\ UNCHANGED <<coordinator, tasks, agent>>

-----------------------------------------------------------------------------
(* The coordinator's handlers *)

Refuse(p) == Loading(p, panel[p].started) /\ UNCHANGED <<coordinator, tasks, agent>>

\* HandlePrepare and HandleRollback: one job at a time, by compare-and-swap.
HandleOpen(p) ==
    LET back == panel[p].call = "rollback"
        id   == <<"update", coordinator.jobs + 1>>
        to   == IF back THEN panel[p].info.version - 1 ELSE 0
    IN  /\ panel[p].call \in {"prepare", "rollback"}
        /\ IF coordinator.running THEN Refuse(p)
           ELSE /\ coordinator' = [coordinator EXCEPT
                      !.job = [id |-> id, state |-> "preparing", target |-> to, backup |-> FALSE],
                      !.running = TRUE, !.maintenance = @ \/ back, !.jobs = @ + 1]
                /\ tasks' = tasks \union {[job |-> id, at |-> IF back THEN "restore" ELSE "check",
                                           shot |-> back, target |-> to, watch |-> 0]}
                /\ Loading(p, id)
                /\ UNCHANGED agent

HandleApply(p) ==
    LET c == AdoptPrepared(coordinator, agent)
    IN  /\ panel[p].call = "apply"
        /\ IF c.job = None \/ c.job.state # "ready_to_apply" \/ ~c.running
           THEN coordinator' = c /\ Loading(p, panel[p].started) /\ UNCHANGED <<tasks, agent>>
           ELSE /\ coordinator' = [Mutate(c, c.job.id, [state |-> "backing_up"]) EXCEPT !.maintenance = TRUE]
                /\ tasks' = tasks \union {[job |-> c.job.id, at |-> "backup", shot |-> FALSE,
                                           target |-> c.job.target, watch |-> 0]}
                /\ Loading(p, c.job.id)
                /\ UNCHANGED agent

\* HandleCancel: status and job are read and the updater told to stop; then
\* the job read is finished and both flags are given back.
HandleCancel(p) ==
    /\ panel[p].call = "cancel"
    /\ \/ Refuse(p)
       \/ /\ Cancellable(coordinator.job, agent)
          /\ agent' = IF HostCancellable(agent) THEN [agent EXCEPT !.state = "idle", !.job = 0] ELSE agent
          /\ tasks' = tasks \union {[job |-> IF coordinator.job = None THEN None ELSE coordinator.job.id,
                                     at |-> "cancel", by |-> p]}
          /\ panel' = [panel EXCEPT ![p].call = "cancelling"]
          /\ UNCHANGED <<coordinator, gets>>

CancelEnds(t) ==
    /\ t \in tasks /\ t.at = "cancel"
    /\ coordinator' = Failed(coordinator, t.job)
    /\ tasks' = tasks \ {t}
    /\ Loading(t.by, None)
    /\ UNCHANGED agent

-----------------------------------------------------------------------------
(* The coordinator's goroutines *)

\* Bug: a goroutine that gives up keeps the slot.
StopsHolding(t, flags) ==
    /\ coordinator' = Ended(coordinator, t.job, "failed", flags \ {"running"})
    /\ tasks' = tasks \ {t}

\* A goroutine gives its job up, and the flags it holds back.
Stops(t, flags) ==
    /\ coordinator' = Ended(coordinator, t.job, "failed", flags)
    /\ tasks' = tasks \ {t}

GoesOn(t, c, next) ==
    /\ coordinator' = c
    /\ tasks' = (tasks \ {t}) \union {next}

\* prepareImage: a newer release and an idle updater, or the end. An updater
\* that cannot stage an image is sent the whole update at once.
CheckRelease(t) ==
    /\ t \in tasks /\ t.at = "check"
    /\ \/ Stops(t, {"running"})
       \/ /\ coordinator.version < Latest /\ ~AgentActive(agent)
          /\ LET c == Mutate(coordinator, t.job, [target |-> Latest])
             IN  IF agent.staged
                 THEN GoesOn(t, Mutate(c, t.job, [state |-> "submitting"]), [t EXCEPT !.at = "submit", !.target = Latest])
                 ELSE GoesOn(t, [c EXCEPT !.maintenance = TRUE], [t EXCEPT !.at = "backup", !.target = Latest, !.shot = TRUE])
    /\ UNCHANGED <<agent, panel, gets>>

\* agent.Prepare; a call that times out may have been taken all the same.
SubmitPrepare(t) ==
    LET free   == agent.state \notin {"pulling", "queued", "recreating", "ready_to_apply"}
        pulled == [agent EXCEPT !.state = "pulling", !.job = agent.count + 1, !.count = @ + 1,
                                !.from = coordinator.version, !.target = t.target]
    IN  /\ t \in tasks /\ t.at = "submit"
        /\ \/ Stops(t, {"running"}) /\ agent' \in {agent} \union (IF free THEN {pulled} ELSE {})
           \/ /\ free /\ agent' = pulled
              /\ GoesOn(t, Mutate(coordinator, t.job, [state |-> "preparing_image"]),
                        [t EXCEPT !.at = "watchImage", !.watch = pulled.job])
        /\ UNCHANGED <<panel, gets>>

\* monitorPrepared: until the image is ready, failed, cancelled or 15 minutes old.
WatchImage(t) ==
    /\ t \in tasks /\ t.at = "watchImage"
    /\ \/ Stops(t, {"running"})
       \/ /\ agent.state = "ready_to_apply" /\ agent.job \in {0, t.watch}
          /\ coordinator' = Mutate(coordinator, t.job, [state |-> "ready_to_apply"])
          /\ tasks' = tasks \ {t}
    /\ UNCHANGED <<agent, panel, gets>>

\* rollback, up to submitOneShot.
CheckRestore(t) ==
    /\ t \in tasks /\ t.at = "restore"
    /\ \/ Stops(t, {"running", "maintenance"})
       \/ /\ t.target < coordinator.version /\ ~AgentActive(agent)
          /\ GoesOn(t, Mutate(coordinator, t.job, [state |-> "backing_up"]), [t EXCEPT !.at = "backup"])
    /\ UNCHANGED <<agent, panel, gets>>

\* The database is backed up; applyPrepared wants its job to be still there.
Backup(t) ==
    /\ t \in tasks /\ t.at = "backup"
    /\ \/ Stops(t, {"running", "maintenance"})
       \/ /\ t.shot \/ (coordinator.job # None /\ coordinator.job.id = t.job)
          /\ GoesOn(t, Mutate(coordinator, t.job, [backup |-> TRUE, state |-> "submitting"]), [t EXCEPT !.at = "apply"])
    /\ UNCHANGED <<agent, panel, gets>>

\* agent.Apply and agent.ApplyPrepared.
SubmitApply(t) ==
    LET takes  == IF t.shot THEN agent.state \notin {"pulling", "queued", "recreating"}
                  ELSE agent.state = "ready_to_apply" /\ agent.target = t.target
        queued == [agent EXCEPT !.state = "queued", !.job = agent.count + 1, !.count = @ + 1,
                                !.from = coordinator.version, !.target = t.target]
    IN  /\ t \in tasks /\ t.at = "apply"
        /\ \/ Stops(t, {"running", "maintenance"}) /\ agent' \in {agent} \union (IF takes THEN {queued} ELSE {})
           \/ /\ takes /\ agent' = queued
              /\ GoesOn(t, Mutate(coordinator, t.job, [state |-> "running"]),
                        [t EXCEPT !.at = "watchUpdate", !.watch = queued.job])
        /\ UNCHANGED <<panel, gets>>

\* monitor: a success keeps both flags, for the server is being replaced.
WatchUpdate(t) ==
    /\ t \in tasks /\ t.at = "watchUpdate"
    /\ \/ Stops(t, {"running", "maintenance"})
       \/ /\ agent.state = "succeeded" /\ agent.job \in {0, t.watch}
          /\ coordinator' = Ended(coordinator, t.job, "succeeded", {})
          /\ tasks' = tasks \ {t}
    /\ UNCHANGED <<agent, panel, gets>>

-----------------------------------------------------------------------------
(* The updater on the host *)

\* A download ends; so does, before it touches the container, a switch.
AgentProgress ==
    /\ \/ agent.state = "pulling" /\ agent' \in {[agent EXCEPT !.state = s] : s \in {"ready_to_apply", "failed"}}
       \/ agent.state = "queued" /\ agent' = [agent EXCEPT !.state = "failed"]
       \/ agent.state = "recreating" /\ agent' = [agent EXCEPT !.state = "succeeded"]
    /\ UNCHANGED <<coordinator, tasks, panel, gets>>

\* The container is replaced: the server starts anew as another version,
\* every request is lost; a version that does not come up is taken back.
AgentSwitches(state, next, version) ==
    /\ agent.state = state
    /\ agent' = [agent EXCEPT !.state = next]
    /\ coordinator' = [coordinator EXCEPT !.job = None, !.running = FALSE, !.maintenance = FALSE, !.version = version]
    /\ tasks' = {}
    /\ gets' = {}
    /\ panel' = [p \in Panel |-> [panel[p] EXCEPT !.call = ""]]

Recreate == AgentSwitches("queued", "recreating", agent.target)
RollBack == AgentSwitches("recreating", "rolled_back", agent.from)

-----------------------------------------------------------------------------
UpdateInit ==
    \E v \in 1..Latest, staged \in BOOLEAN :
        /\ coordinator = [job |-> None, running |-> FALSE, maintenance |-> FALSE, version |-> v, jobs |-> 0]
        /\ tasks = {}
        /\ agent = [state |-> "idle", job |-> 0, target |-> 0, from |-> 0, staged |-> staged, count |-> 0]
        /\ panel = [p \in Panel |-> FreshPanel]
        /\ gets = {}

UpdateNext ==
    \/ \E p \in Panel :
          \/ PressPrimary(p) \/ PressCancel(p) \/ ConfirmRestore(p)
          \/ LoadInfo(p) \/ Reload(p)
          \/ HandleOpen(p) \/ HandleApply(p) \/ HandleCancel(p)
    \/ \E g \in gets : InfoReadsAgent(g) \/ InfoAnswers(g) \/ InfoFails(g)
    \/ \E t \in tasks :
          \/ CancelEnds(t) \/ CheckRelease(t) \/ SubmitPrepare(t) \/ WatchImage(t) \/ CheckRestore(t)
          \/ Backup(t) \/ SubmitApply(t) \/ WatchUpdate(t)
    \/ AgentProgress \/ Recreate \/ RollBack

UpdateSpec == UpdateInit /\ [][UpdateNext]_updateVars

-----------------------------------------------------------------------------
\* Neither flag outlives its reason. `running` refuses every further update and
\* `maintenance` every request of a client until somebody clears them, so each
\* is held only while a goroutine is there that will give it back, or, for
\* `running`, while an image waits that "Update now" or "Discard" frees it with
\* -- whichever handlers, failures and late adoptions came between.
NoLockOut ==
    LET done == coordinator.job # None /\ coordinator.job.state = "succeeded"
            ready == coordinator.job # None /\ coordinator.job.state = "ready_to_apply"
    IN  /\ coordinator.running =>
              done \/ tasks # {} \/ ready
        /\ coordinator.maintenance =>
              done \/ \E t \in tasks : t.at \in {"restore", "backup", "apply", "watchUpdate"}

\* What the changelog says of the settings page: an outcome of the updater, once
\* the panel has read it with no job still going on, frees the buttons "instead
\* of leaving the button stuck on Updating".
OutcomeFreesTheButton ==
    \A p \in Panel :
        AgentOf(p).state \in {"failed", "rolled_back"} /\ JobOf(p) = None /\ panel[p].call = "" => ~Busy(p)
=============================================================================
