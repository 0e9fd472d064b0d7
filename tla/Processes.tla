------------------------------ MODULE Processes ------------------------------
(***************************************************************************)
(* The agent's persistent jobs: ProcessManager's table of records, the     *)
(* operating system's processes behind them, running.json, and the life of *)
(* the agent itself (start on demand, idle shutdown, crash, restart).      *)
(* Requests are served one at a time; only the end of the agent and the    *)
(* operating system come between the steps of one.                         *)
(***************************************************************************)
EXTENDS Naturals

CONSTANTS
    Jobs,         \* job uuids; the server draws a new one for every submission
    Pids,         \* process ids, reused by the operating system
    ForeignPids,  \* the pids that processes of other programs are seen to take
    Stranger,     \* the owner of a process that belongs to no job
    NoPid,        \* no process
    MaxCrashes,   \* bound on crashes of the agent
    MaxSaveErrors \* bound on I/O errors of save_state

ASSUME StrangerAssumption == Stranger \notin Jobs
ASSUME NoPidAssumption == NoPid \notin Pids
ASSUME ForeignPidsAssumption == ForeignPids \subseteq Pids
ASSUME BoundsAssumption == MaxCrashes \in Nat /\ MaxSaveErrors \in Nat

VARIABLES
    os,        \* the process table: what runs under each pid
    outcome,   \* how the process of each job fared, whoever looks
    recs,      \* ProcessManager._jobs
    saved,     \* running.json: the pid saved for each job
    agent,     \* is the agent down, up, or inside a request
    current,   \* the job of the request the agent is inside
    stopping,  \* has the agent sent itself SIGTERM?
    idle,      \* has the idle timeout expired?
    crashes, saveErrors

vars == <<os, outcome, recs, saved, agent, current, stopping, idle, crashes, saveErrors>>
counters == <<crashes, saveErrors>>

JobStatus  == {"running", "completed", "failed", "killed"}
ProcRecord == [pid: Pids, handle: {"child", "reattached"}, status: JobStatus]
NoRec      == [pid |-> NoPid, handle |-> "none", status |-> "none"]
(* Mutant: a new record starts as pending.                                 *)
NewRecPending(p, h) == [pid |-> p, handle |-> h, status |-> "pending"]

NewRec(p, h) == [pid |-> p, handle |-> h, status |-> "running"]

(* A pid is free or holds a process: a child of the running agent, a       *)
(* zombie (a child that exited and has not been polled), or one that runs  *)
(* alone, the agent that started it being gone or another program's.       *)
Proc(st, j, code) == [st |-> st, owner |-> j, ret |-> code]
Free    == Proc("free", Stranger, 0)
Foreign == Proc("alone", Stranger, 0)
Process == [st: {"free", "child", "zombie", "alone"}, owner: Jobs \cup {Stranger}, ret: {0, 1}]

(* "spawned": Popen returned, nothing is recorded yet.  "kill_signal",     *)
(* "kill_wait", "kill_last": the three blocking stages of _kill_process.   *)
AgentStage == {"down", "up", "spawned", "kill_signal", "kill_wait", "kill_last"}

TypeOK ==
    /\ os \in [Pids -> Process]
    /\ outcome \in [Jobs -> {"unsubmitted", "alive", "ok", "error"}]
    /\ recs \in [Jobs -> ProcRecord \cup {NoRec}]
    /\ saved \in [Jobs -> Pids \cup {NoPid}]
    /\ agent \in AgentStage
    /\ current \in Jobs \cup {Stranger}
    /\ stopping \in BOOLEAN
    /\ idle \in BOOLEAN
    /\ crashes \in 0..MaxCrashes
    /\ saveErrors \in 0..MaxSaveErrors

Init ==
    /\ os = [p \in Pids |-> Free]
    /\ outcome = [j \in Jobs |-> "unsubmitted"]
    /\ recs = [j \in Jobs |-> NoRec]
    /\ saved = [j \in Jobs |-> NoPid]
    /\ agent = "down"
    /\ current = Stranger
    /\ stopping = FALSE
    /\ idle = FALSE
    /\ crashes = 0
    /\ saveErrors = 0

-----------------------------------------------------------------------------
(* The operating system.                                                   *)

(* _pid_alive: a zombie is not alive, somebody else's process is.          *)
PidAlive(p) == os[p].st \in {"child", "alone"}

ExitResult(code) == IF code = 0 THEN "ok" ELSE "error"

(* What is left at a pid when its process exits.                           *)
AfterExit(proc, code) ==
    IF proc.st = "child" THEN Proc("zombie", proc.owner, code) ELSE Free

ProcessDies(p, code) ==
    /\ os' = [os EXCEPT ![p] = AfterExit(@, code)]
    /\ outcome' = [j \in Jobs |-> IF j = os[p].owner THEN ExitResult(code) ELSE outcome[j]]

ProcessExits(p, code) ==
    /\ PidAlive(p)
    /\ ProcessDies(p, code)
    /\ UNCHANGED <<recs, saved, agent, current, stopping, idle, counters>>

(* A free pid is given to a process that has nothing to do with the agent. *)
ForeignStarts(p) ==
    /\ os[p].st = "free"
    /\ os' = [os EXCEPT ![p] = Foreign]
    /\ UNCHANGED <<outcome, recs, saved, agent, current, stopping, idle, counters>>

-----------------------------------------------------------------------------
(* Polling: Popen.poll reaps a child and has its exit code, while          *)
(* _ReattachedProcess.poll learns that the pid is gone and answers -1.     *)

(* Mutant: _poll_record tests the exit code for truth, not for None.       *)
PolledZeroMissed(rec) ==
    IF rec.status # "running" \/ PidAlive(rec.pid) THEN rec
    ELSE IF rec.handle = "child" /\ os[rec.pid].ret = 0 THEN rec
    ELSE [rec EXCEPT !.status = "failed"]

(* Mutant: a reattached process that is gone is taken to have exited well. *)
PolledGoneIsGood(rec) ==
    IF rec.status # "running" \/ PidAlive(rec.pid) THEN rec
    ELSE [rec EXCEPT !.status = IF rec.handle = "reattached" \/ os[rec.pid].ret = 0
                                THEN "completed" ELSE "failed"]

Polled(rec) ==
    IF rec.status # "running" \/ PidAlive(rec.pid) THEN rec
    ELSE [rec EXCEPT !.status = IF rec.handle = "child" /\ os[rec.pid].ret = 0
                                THEN "completed" ELSE "failed"]

(* The children that polling the jobs of js reaps.                         *)
ReapedBy(js) == {p \in Pids : /\ os[p].st = "zombie"
                              /\ \E j \in js : recs[j] = NewRec(p, "child")}

PollJobs(js) ==
    /\ recs' = [j \in Jobs |-> IF j \in js THEN Polled(recs[j]) ELSE recs[j]]
    /\ os' = [p \in Pids |-> IF p \in ReapedBy(js) THEN Free ELSE os[p]]

(* _ActivityMiddleware: every request resets the idle clock.  Requests are *)
(* still accepted in the moment between SIGTERM and the end.               *)
Request == agent = "up" /\ idle' = FALSE

(* GET /jobs/{uuid}, and GET /healthz, which polls every job.  Neither     *)
(* saves what it finds.                                                    *)
GetStatus(j) ==
    /\ Request
    /\ recs[j] # NoRec
    /\ PollJobs({j})
    /\ UNCHANGED <<outcome, saved, agent, current, stopping, counters>>

Healthz ==
    /\ Request
    /\ PollJobs(Jobs)
    /\ UNCHANGED <<outcome, saved, agent, current, stopping, counters>>

-----------------------------------------------------------------------------
(* POST /jobs of an approved persistent script: ProcessManager.start up to *)
(* and including the Popen, and from there.                                *)

Start(j, p) ==
    /\ Request
    /\ outcome[j] = "unsubmitted"
    /\ os[p].st = "free"
    /\ os' = [os EXCEPT ![p] = Proc("child", j, 0)]
    /\ outcome' = [outcome EXCEPT ![j] = "alive"]
    /\ agent' = "spawned"
    /\ current' = j
    /\ UNCHANGED <<recs, saved, stopping, counters>>

Respond == agent' = "up" /\ current' = Stranger

(* Mutant: save_state leaves out the jobs of an earlier agent.             *)
ChildPids(rs) ==
    [j \in Jobs |-> IF rs[j] = NewRec(rs[j].pid, "child") THEN rs[j].pid ELSE NoPid]

(* save_state: the jobs whose record says running, polled or not.          *)
RunningPids(rs) == [j \in Jobs |-> IF rs[j].status = "running" THEN rs[j].pid ELSE NoPid]

(* save_running_state writes a temporary file and renames it; an OSError   *)
(* before the rename leaves running.json as it was, and the request fails  *)
(* with the record in place.                                               *)
SaveState ==
    \/ /\ saved' = RunningPids(recs')
       /\ UNCHANGED saveErrors
    \/ /\ saveErrors < MaxSaveErrors
       /\ saveErrors' = saveErrors + 1
       /\ UNCHANGED saved

(* Mutant: start does not save.                                            *)
RecordUnsaved ==
    /\ agent = "spawned"
    /\ \E p \in Pids :
         /\ os[p].owner = current
         /\ os[p].st # "free"
         /\ recs' = [recs EXCEPT ![current] = NewRec(p, "child")]
    /\ Respond
    /\ UNCHANGED <<os, outcome, saved, stopping, idle, counters>>

Record ==
    /\ agent = "spawned"
    /\ \E p \in Pids :
         /\ os[p].owner = current
         /\ os[p].st # "free"
         /\ recs' = [recs EXCEPT ![current] = NewRec(p, "child")]
    /\ SaveState
    /\ Respond
    /\ UNCHANGED <<os, outcome, stopping, idle, crashes>>

-----------------------------------------------------------------------------
(* DELETE /jobs/{uuid}: poll, SIGTERM, wait, SIGKILL, wait, record.  The   *)
(* agent does nothing else meanwhile.                                      *)

Kill(j) ==
    /\ Request
    /\ recs[j] # NoRec
    /\ PollJobs({j})
    /\ IF Polled(recs[j]).status = "running"
       THEN agent' = "kill_signal" /\ current' = j
       ELSE UNCHANGED <<agent, current>>
    /\ UNCHANGED <<outcome, saved, stopping, counters>>

Target == recs[current].pid

(* SIGTERM reaches whatever has the pid by now, and it exits when it likes. *)
KillSignal ==
    /\ agent = "kill_signal"
    /\ agent' = "kill_wait"
    /\ UNCHANGED <<os, outcome, recs, saved, current, stopping, idle, counters>>

(* The pid belongs to another user by now: PermissionError, answered 500.  *)
KillRefused ==
    /\ agent \in {"kill_signal", "kill_wait"}
    /\ os[Target] = Foreign
    /\ Respond
    /\ UNCHANGED <<os, outcome, recs, saved, stopping, idle, counters>>

(* _SIGTERM_GRACE_SECONDS are over.                                        *)
KillEscalate ==
    /\ agent = "kill_wait"
    /\ PidAlive(Target)
    /\ ProcessDies(Target, 1)
    /\ agent' = "kill_last"
    /\ UNCHANGED <<recs, saved, current, stopping, idle, counters>>

KillDone ==
    /\ agent \in {"kill_wait", "kill_last"}
    /\ ~PidAlive(Target)
    /\ recs' = [recs EXCEPT ![current].status = "killed"]
    /\ os' = [p \in Pids |-> IF p \in ReapedBy({current}) THEN Free ELSE os[p]]
    /\ SaveState
    /\ Respond
    /\ UNCHANGED <<outcome, stopping, idle, crashes>>

-----------------------------------------------------------------------------
(* The life of the agent.                                                  *)

(* Mutant: the agent starts without restore_state.                         *)
AgentStartsFresh ==
    /\ agent = "down"
    /\ agent' = "up"
    /\ recs' = [j \in Jobs |-> NoRec]
    /\ idle' = FALSE
    /\ UNCHANGED <<os, outcome, saved, current, stopping, counters>>

(* restore_state: a saved job whose pid is alive is taken to be running.   *)
Restored(j) == IF saved[j] # NoPid /\ PidAlive(saved[j])
               THEN NewRec(saved[j], "reattached") ELSE NoRec

AgentStarts ==
    /\ agent = "down"
    /\ agent' = "up"
    /\ recs' = [j \in Jobs |-> Restored(j)]
    /\ idle' = FALSE
    /\ UNCHANGED <<os, outcome, saved, current, stopping, counters>>

IdleExpires ==
    /\ agent # "down"
    /\ ~idle
    /\ idle' = TRUE
    /\ UNCHANGED <<os, outcome, recs, saved, agent, current, stopping, counters>>

(* Mutant: every tracked job counts, finished or not.                      *)
ShutdownDueUntracked == idle /\ \A j \in Jobs : recs'[j] = NoRec

(* One round of run_loop.                                                  *)
ShutdownDue == idle /\ \A j \in Jobs : recs'[j].status # "running"

(* Mutant: the loop counts the records without polling them.               *)
LifecycleUnpolled ==
    /\ agent = "up"
    /\ ~stopping
    /\ stopping' = (idle /\ \A j \in Jobs : recs[j].status # "running")
    /\ UNCHANGED <<os, outcome, recs, saved, agent, current, idle, counters>>

LifecycleCheck ==
    /\ agent = "up"
    /\ ~stopping
    /\ PollJobs(Jobs)
    /\ stopping' = ShutdownDue
    /\ UNCHANGED <<outcome, saved, agent, current, idle, counters>>

(* What the end of the agent does to the job processes: they go on without *)
(* a parent, or the service manager ends them with the service (systemd's  *)
(* default for the unit that service_installer writes).                    *)
Orphaned(proc) == CASE proc.st = "zombie" -> Free
                    [] proc.st = "child"  -> Proc("alone", proc.owner, 0)
                    [] OTHER              -> proc

JobsOutlive ==
    \/ /\ os' = [p \in Pids |-> Orphaned(os[p])]
       /\ UNCHANGED outcome
    \/ /\ os' = [p \in Pids |-> IF os[p].owner = Stranger THEN os[p] ELSE Free]
       /\ outcome' = [j \in Jobs |-> IF outcome[j] = "alive" THEN "error" ELSE outcome[j]]

AgentGone ==
    /\ agent' = "down"
    /\ recs' = [j \in Jobs |-> NoRec]
    /\ current' = Stranger
    /\ stopping' = FALSE
    /\ JobsOutlive
    /\ UNCHANGED <<saved, idle>>

(* uvicorn's graceful shutdown: requests in progress are finished first.   *)
AgentStops ==
    /\ agent = "up"
    /\ stopping
    /\ AgentGone
    /\ UNCHANGED counters

AgentCrashes ==
    /\ agent # "down"
    /\ crashes < MaxCrashes
    /\ crashes' = crashes + 1
    /\ AgentGone
    /\ UNCHANGED saveErrors

-----------------------------------------------------------------------------

OsStep ==
    \/ \E p \in Pids, code \in {0, 1} : ProcessExits(p, code)
    \/ \E p \in ForeignPids : ForeignStarts(p)

KillStep == KillSignal \/ KillRefused \/ KillEscalate \/ KillDone

Next ==
    \/ OsStep
    \/ \E j \in Jobs, p \in Pids : Start(j, p)
    \/ Record
    \/ \E j \in Jobs : GetStatus(j) \/ Kill(j)
    \/ Healthz
    \/ KillStep
    \/ AgentStarts \/ IdleExpires \/ LifecycleCheck \/ AgentStops \/ AgentCrashes

Spec == Init /\ [][Next]_vars

(* The event loop runs what is due: requests go on to their end, the clock *)
(* advances, uvicorn shuts down, and the lifecycle loop, whose timer is    *)
(* served between two requests, wakes up (strong fairness: a request that  *)
(* blocks the loop disables it, requests without end do not starve it).    *)
(* No process has to exit, and nobody has to send a request.               *)
FairSpec ==
    /\ Spec
    /\ WF_vars(Record) /\ WF_vars(KillStep)
    /\ SF_vars(LifecycleCheck) /\ WF_vars(IdleExpires) /\ WF_vars(AgentStops)

-----------------------------------------------------------------------------
(* A child's pid is its own: while the record of a job that this agent     *)
(* started says running, its pid is held by that job's process, alive or   *)
(* waiting to be reaped.  A poll reaps and records in one go, so a signal  *)
(* sent to a child never reaches another process.                          *)
ChildPidIsOwn ==
    \A j \in Jobs : recs[j].status = "running" /\ recs[j].handle = "child" =>
        LET proc == os[recs[j].pid] IN
        proc.owner = j /\ proc.st \in {"child", "zombie"}

(* A job is reported completed only when its process exited with 0, across *)
(* restarts and reuse of its pid.                                          *)
CompletedIsTrue == \A j \in Jobs : recs[j].status = "completed" => outcome[j] = "ok"

JobAlive(j) == outcome[j] = "alive"

(* Every job process that is alive is tracked, as running and under its    *)
(* own pid, whenever the agent waits for requests; also after it stopped   *)
(* for idleness and was started again, and after a job slipped in between  *)
(* the shutdown decision and the end.  Only a crash (between Popen and the *)
(* save) or a save that failed can lose one.                               *)
JobsTracked ==
    (agent = "up" /\ crashes = 0 /\ saveErrors = 0) =>
        \A j \in Jobs : JobAlive(j) =>
            recs[j].status = "running" /\ os[recs[j].pid].owner = j

InFile(j) == JobAlive(j) /\ saved[j] # NoPid

(* A job that running.json holds is tracked, as running and under its own  *)
(* pid, whenever the agent is up and for as long as its process lives: no  *)
(* crash and no save that fails, before or after, loses it, unlike one     *)
(* whose first save failed.                                                *)
SavedJobsSurvive ==
    agent # "down" =>
        \A j \in Jobs : InFile(j) => recs[j].status = "running" /\ os[recs[j].pid].owner = j

(* The exit of a child is noticed without anyone asking, or the agent      *)
(* stops first; unless a kill blocks it, which waits without a limit for   *)
(* the pid to vanish and meets another program's process there instead.    *)
ExitIsNoticed ==
    \A j \in Jobs :
        (recs[j] # NoRec /\ recs[j].handle = "child" /\ ~JobAlive(j)) ~>
            (recs[j].status # "running" \/ (agent = "kill_last" /\ os[Target] = Foreign))

(* When requests cease the agent stops for good, unless some process keeps *)
(* living: no record of a job that is gone keeps it up, only one whose pid *)
(* another program has taken over.                                         *)
StopsWhenIdle ==
    <>[]idle => <>[](agent = "down") \/ []<>(\E p \in Pids : PidAlive(p))

-----------------------------------------------------------------------------
(* The promised records: a job is being started between its Popen and its  *)
(* record, and safe while it is alive and in running.json.                 *)

Status   == [j \in Jobs |-> recs[j].status]
Up       == agent # "down"
Starting == IF agent = "spawned" THEN {current} ELSE {}
Safe     == {j \in Jobs : InFile(j)}

Promise == INSTANCE JobRecords WITH
    proc <- outcome, rec <- Status, up <- Up, starting <- Starting, safe <- Safe

(* Polls, kills, saves, crashes and restarts, with pids that are reused    *)
(* and processes that end at any moment, amount to the steps of the        *)
(* promised job records.                                                   *)
ImplementsRecords == Promise!Spec
=============================================================================
