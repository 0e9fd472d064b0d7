--------------------------- MODULE ProcessesProofs ---------------------------
(***************************************************************************)
(* Proofs that the process manager keeps the pids of its children apart    *)
(* and reports a job completed only when it was, for any number of jobs,   *)
(* pids and failures.                                                      *)
(*                                                                         *)
(* ChildPidIsOwn is not inductive by itself: it needs to know what the     *)
(* process table says of each job (ProcsOK) and what a request in progress *)
(* is about (RequestOK).                                                   *)
(***************************************************************************)
EXTENDS Processes, TLAPS

(* Each job has at most one process, and it fared as outcome says.         *)
ProcsOK ==
    /\ \A p \in Pids : os[p].st = "free" => os[p] = Free
    /\ \A p \in Pids : os[p].st \in {"child", "zombie"} => os[p].owner \in Jobs /\ agent # "down"
    /\ \A p \in Pids : os[p].owner \in Jobs =>
          outcome[os[p].owner] = IF PidAlive(p) THEN "alive" ELSE ExitResult(os[p].ret)
    /\ \A p, q \in Pids : os[p].owner \in Jobs /\ os[p].owner = os[q].owner => p = q

(* A request in progress is about a job without a record, or about one     *)
(* whose record says running; an agent that is down has no records.        *)
RequestOK ==
    /\ agent = "down" => recs = [j \in Jobs |-> NoRec]
    /\ agent = "spawned" =>
          /\ current \in Jobs
          /\ recs[current] = NoRec
          /\ \A p \in Pids : os[p].owner = current => os[p].st # "alone"
    /\ agent \in {"kill_signal", "kill_wait", "kill_last"} =>
          /\ current \in Jobs
          /\ recs[current].status = "running"

UnsubmittedOK == \A j \in Jobs : outcome[j] = "unsubmitted" => recs[j] = NoRec /\ saved[j] = NoPid

IInv == TypeOK /\ ProcsOK /\ RequestOK /\ UnsubmittedOK /\ ChildPidIsOwn /\ CompletedIsTrue

(* The empty process table, the empty record and what a process becomes    *)
(* when it exits have their types.                                         *)
LEMMA Typed ==
    /\ Free \in Process /\ Foreign \in Process
    /\ \A p \in Pids, h \in {"child", "reattached"} : NewRec(p, h) \in ProcRecord
    /\ \A proc \in Process, code \in {0, 1} : AfterExit(proc, code) \in Process
    /\ \A proc \in Process : Orphaned(proc) \in Process
    /\ NoRec \notin ProcRecord
BY NoPidAssumption DEF Proc, Free, Foreign, Process, NewRec, ProcRecord, AfterExit, Orphaned, NoRec, JobStatus

(* A fresh installation satisfies the invariant.                           *)
LEMMA InitIInv == Init => IInv
<1> SUFFICES ASSUME Init PROVE IInv
  OBVIOUS
<1>1. TypeOK
  <2>1. os \in [Pids -> Process]
    BY Typed DEF Init
  <2>2. crashes \in 0..MaxCrashes /\ saveErrors \in 0..MaxSaveErrors
    BY BoundsAssumption DEF Init
  <2> QED BY <2>1, <2>2 DEF Init, TypeOK, AgentStage
<1>2. ProcsOK /\ RequestOK /\ UnsubmittedOK
  BY StrangerAssumption DEF Init, ProcsOK, RequestOK, UnsubmittedOK, Proc, Free
<1>3. ChildPidIsOwn /\ CompletedIsTrue
  BY DEF Init, ChildPidIsOwn, CompletedIsTrue, NoRec
<1> QED BY <1>1, <1>2, <1>3 DEF IInv

(* The exit of a process.                                                  *)
LEMMA ProcessExitsInv ==
    ASSUME IInv, NEW p \in Pids, NEW code \in {0, 1}, ProcessExits(p, code)
    PROVE  IInv'
<1> USE DEF IInv, ProcessExits, ProcessDies
<1>1. TypeOK'
  BY Typed DEF TypeOK, counters, ExitResult
<1>2. ProcsOK'
  BY StrangerAssumption DEF ProcsOK, AfterExit, ExitResult, TypeOK, Proc, Free, Process, PidAlive
<1>3. RequestOK'
  BY StrangerAssumption DEF RequestOK, ProcsOK, AfterExit, TypeOK, Proc, Free, Process, PidAlive
<1>4. UnsubmittedOK'
  BY DEF TypeOK, UnsubmittedOK, ExitResult, Process
<1>5. ChildPidIsOwn'
  BY DEF ChildPidIsOwn, AfterExit, TypeOK, Proc, Free, Process, PidAlive
<1>6. CompletedIsTrue'
  BY DEF TypeOK, CompletedIsTrue, ProcsOK, PidAlive, Process
<1> QED BY <1>1, <1>2, <1>3, <1>4, <1>5, <1>6

(* A process of another program takes a pid.                               *)
LEMMA ForeignStartsInv ==
    ASSUME IInv, NEW p \in Pids, ForeignStarts(p)
    PROVE  IInv'
<1> USE DEF IInv, ForeignStarts
<1>1. TypeOK'
  BY Typed DEF TypeOK, counters
<1>2. ProcsOK'
  BY StrangerAssumption DEF ProcsOK, Foreign, TypeOK, Proc, Free, Process, PidAlive
<1>3. RequestOK'
  BY StrangerAssumption DEF RequestOK, Foreign, TypeOK, Proc, Free, Process, PidAlive
<1>4. UnsubmittedOK'
  BY DEF UnsubmittedOK
<1>5. ChildPidIsOwn'
  BY DEF ChildPidIsOwn, Foreign, TypeOK, Proc, Free, Process, PidAlive
<1>6. CompletedIsTrue'
  BY DEF CompletedIsTrue
<1> QED BY <1>1, <1>2, <1>3, <1>4, <1>5, <1>6

(* A poll keeps the type of a record, and changes it only from running.    *)
LEMMA PolledTyped ==
    ASSUME TypeOK, NEW j \in Jobs
    PROVE  /\ Polled(recs[j]) \in ProcRecord \cup {NoRec}
           /\ Polled(recs[j]) # recs[j] => recs[j].status = "running"
           /\ recs[j] = NoRec => Polled(recs[j]) = NoRec
           /\ Polled(recs[j]).handle = recs[j].handle /\ Polled(recs[j]).pid = recs[j].pid
BY DEF TypeOK, Polled, ProcRecord, NoRec, JobStatus

(* A poll of any set of jobs: what it finds finished it reaps and records  *)
(* in one go.                                                              *)
LEMMA PollInv ==
    ASSUME IInv, NEW js \in SUBSET Jobs, PollJobs(js),
           UNCHANGED <<outcome, saved>>, agent' # "down", agent # "down"
    PROVE  /\ recs' \in [Jobs -> ProcRecord \cup {NoRec}]
           /\ os' \in [Pids -> Process]
           /\ ProcsOK' /\ UnsubmittedOK' /\ ChildPidIsOwn' /\ CompletedIsTrue'
<1> USE DEF IInv, PollJobs
<1>1. recs' \in [Jobs -> ProcRecord \cup {NoRec}]
  BY PolledTyped DEF TypeOK
<1>2. os' \in [Pids -> Process]
  BY Typed DEF TypeOK
<1>3. ProcsOK'
  BY StrangerAssumption DEF ProcsOK, TypeOK, Proc, Free, Process, PidAlive
<1>4. UnsubmittedOK'
  BY PolledTyped DEF UnsubmittedOK
<1>5. ChildPidIsOwn'
  <2> SUFFICES ASSUME NEW j \in Jobs, recs'[j].status = "running", recs'[j].handle = "child"
               PROVE  os'[recs[j].pid].owner = j /\ os'[recs[j].pid].st \in {"child", "zombie"}
                      /\ recs'[j].pid = recs[j].pid
    BY DEF ChildPidIsOwn
  <2>1. recs'[j] = recs[j]
    BY PolledTyped DEF Polled, TypeOK, ProcRecord, NoRec
  <2>2. recs[j] \in ProcRecord
    BY <2>1 DEF TypeOK, NoRec
  <2>3. os[recs[j].pid].owner = j /\ os[recs[j].pid].st \in {"child", "zombie"}
    BY <2>1 DEF ChildPidIsOwn
  <2>4. recs[j].pid \notin ReapedBy(js)
    <3> SUFFICES ASSUME recs[j].pid \in ReapedBy(js) PROVE FALSE
      OBVIOUS
    <3>1. PICK i \in js : recs[i] = NewRec(recs[j].pid, "child") /\ os[recs[j].pid].st = "zombie"
      BY DEF ReapedBy
    <3>2. os[recs[j].pid].owner = i
      BY <3>1 DEF ChildPidIsOwn, NewRec
    <3>3. i = j
      BY <3>2, <2>3
    <3>4. Polled(recs[j]).status # "running"
      BY <3>1, <3>3 DEF Polled, PidAlive, NewRec
    <3> QED BY <3>3, <3>4
  <2> QED BY <2>1, <2>2, <2>3, <2>4 DEF TypeOK, ProcRecord
<1>6. CompletedIsTrue'
  <2> SUFFICES ASSUME NEW j \in Jobs, recs'[j].status = "completed" PROVE outcome[j] = "ok"
    BY DEF CompletedIsTrue
  <2>1. CASE recs[j].status = "completed"
    BY <2>1 DEF CompletedIsTrue
  <2>2. CASE recs[j].status # "completed"
    <3>1. recs'[j] = Polled(recs[j]) /\ recs[j] \in ProcRecord
      BY <2>2 DEF TypeOK, Polled, NoRec
    <3>2. recs[j].status = "running" /\ ~PidAlive(recs[j].pid) /\ recs[j].handle = "child"
          /\ os[recs[j].pid].ret = 0
      BY <2>2, <3>1 DEF Polled, ProcRecord, JobStatus
    <3>3. os[recs[j].pid].owner = j /\ recs[j].pid \in Pids
      BY <3>1, <3>2 DEF ChildPidIsOwn, ProcRecord
    <3> QED BY <3>2, <3>3 DEF ProcsOK, ExitResult
  <2> QED BY <2>1, <2>2
<1> QED BY <1>1, <1>2, <1>3, <1>4, <1>5, <1>6

(* GET /jobs/{uuid}.                                                       *)
LEMMA GetStatusInv ==
    ASSUME IInv, NEW j \in Jobs, GetStatus(j)
    PROVE  IInv'
<1> USE DEF GetStatus, Request
<1>1. /\ recs' \in [Jobs -> ProcRecord \cup {NoRec}]
      /\ os' \in [Pids -> Process]
      /\ ProcsOK' /\ UnsubmittedOK' /\ ChildPidIsOwn' /\ CompletedIsTrue'
  <2>1. agent # "down" /\ agent' # "down"
    OBVIOUS
  <2>2. {j} \in SUBSET Jobs
    OBVIOUS
  <2> QED BY <2>1, <2>2, PollInv
<1>2. TypeOK'
  BY <1>1 DEF IInv, TypeOK, AgentStage, counters
<1>3. RequestOK'
  BY DEF RequestOK
<1> QED BY <1>1, <1>2, <1>3 DEF IInv

(* GET /healthz.                                                           *)
LEMMA HealthzInv ==
    ASSUME IInv, Healthz
    PROVE  IInv'
<1> USE DEF Healthz, Request
<1>1. /\ recs' \in [Jobs -> ProcRecord \cup {NoRec}]
      /\ os' \in [Pids -> Process]
      /\ ProcsOK' /\ UnsubmittedOK' /\ ChildPidIsOwn' /\ CompletedIsTrue'
  <2>1. agent # "down" /\ agent' # "down"
    OBVIOUS
  <2>2. Jobs \in SUBSET Jobs
    OBVIOUS
  <2> QED BY <2>1, <2>2, PollInv
<1>2. TypeOK'
  BY <1>1 DEF IInv, TypeOK, AgentStage, counters
<1>3. RequestOK'
  BY DEF RequestOK
<1> QED BY <1>1, <1>2, <1>3 DEF IInv

(* A round of the lifecycle loop.                                          *)
LEMMA LifecycleInv ==
    ASSUME IInv, LifecycleCheck
    PROVE  IInv'
<1> USE DEF LifecycleCheck
<1>1. /\ recs' \in [Jobs -> ProcRecord \cup {NoRec}]
      /\ os' \in [Pids -> Process]
      /\ ProcsOK' /\ UnsubmittedOK' /\ ChildPidIsOwn' /\ CompletedIsTrue'
  <2>1. agent # "down" /\ agent' # "down"
    OBVIOUS
  <2>2. Jobs \in SUBSET Jobs
    OBVIOUS
  <2> QED BY <2>1, <2>2, PollInv
<1>2. TypeOK'
  BY <1>1 DEF IInv, TypeOK, AgentStage, counters, ShutdownDue
<1>3. RequestOK'
  BY DEF RequestOK
<1> QED BY <1>1, <1>2, <1>3 DEF IInv

(* A kill polls and goes on only with a job that is running.               *)
LEMMA KillInv ==
    ASSUME IInv, NEW j \in Jobs, Kill(j)
    PROVE  IInv'
<1> USE DEF Kill, Request
<1>1. /\ recs' \in [Jobs -> ProcRecord \cup {NoRec}]
      /\ os' \in [Pids -> Process]
      /\ ProcsOK' /\ UnsubmittedOK' /\ ChildPidIsOwn' /\ CompletedIsTrue'
  <2>1. agent # "down" /\ agent' # "down"
    OBVIOUS
  <2>2. {j} \in SUBSET Jobs
    OBVIOUS
  <2> QED BY <2>1, <2>2, PollInv
<1>2. TypeOK'
  BY <1>1 DEF IInv, TypeOK, AgentStage, counters
<1>3. RequestOK'
  BY DEF IInv, RequestOK, PollJobs, TypeOK
<1> QED BY <1>1, <1>2, <1>3 DEF IInv

(* The start of a job, up to the Popen.                                    *)
LEMMA StartInv ==
    ASSUME IInv, NEW j \in Jobs, NEW p \in Pids, Start(j, p)
    PROVE  IInv'
<1> USE DEF IInv, Start, Request
<1>1. TypeOK'
  BY DEF Proc, Process, AgentStage, TypeOK, counters
<1>2. ProcsOK'
  BY StrangerAssumption DEF ProcsOK, UnsubmittedOK, ExitResult, TypeOK, Proc, Free, Process, PidAlive
<1>3. RequestOK'
  BY DEF RequestOK, ProcsOK, UnsubmittedOK, ExitResult, TypeOK, Proc, Free, Process, PidAlive
<1>4. UnsubmittedOK'
  BY DEF UnsubmittedOK, TypeOK
<1>5. ChildPidIsOwn'
  BY DEF ChildPidIsOwn, UnsubmittedOK, NoRec, TypeOK, Proc, Free, Process, PidAlive
<1>6. CompletedIsTrue'
  BY DEF CompletedIsTrue, UnsubmittedOK, NoRec, TypeOK
<1> QED BY <1>1, <1>2, <1>3, <1>4, <1>5, <1>6

(* A save writes the pids of the records, or nothing.                      *)
LEMMA SaveTyped ==
    ASSUME TypeOK, recs' \in [Jobs -> ProcRecord \cup {NoRec}], SaveState
    PROVE  /\ saved' \in [Jobs -> Pids \cup {NoPid}]
           /\ saveErrors' \in 0..MaxSaveErrors
           /\ \A j \in Jobs : recs'[j] = NoRec /\ saved[j] = NoPid => saved'[j] = NoPid
<1>1. saved' \in [Jobs -> Pids \cup {NoPid}]
  BY DEF SaveState, RunningPids, TypeOK, ProcRecord, NoRec
<1>2. saveErrors' \in 0..MaxSaveErrors
  BY BoundsAssumption DEF SaveState, TypeOK
<1>3. \A j \in Jobs : recs'[j] = NoRec /\ saved[j] = NoPid => saved'[j] = NoPid
  BY DEF SaveState, RunningPids, NoRec
<1> QED BY <1>1, <1>2, <1>3

(* A started process is recorded and saved.                                *)
LEMMA RecordInv ==
    ASSUME IInv, Record
    PROVE  IInv'
<1> USE DEF IInv, Record, Respond
<1>1. PICK p \in Pids : /\ os[p].owner = current
                        /\ os[p].st # "free"
                        /\ recs' = [recs EXCEPT ![current] = NewRec(p, "child")]
  OBVIOUS
<1>2. current \in Jobs
  BY DEF RequestOK
<1>3. recs' \in [Jobs -> ProcRecord \cup {NoRec}]
  BY <1>1, Typed DEF TypeOK
<1>4. TypeOK'
  BY <1>3, SaveTyped DEF TypeOK, AgentStage
<1>5. ProcsOK'
  BY DEF ProcsOK, PidAlive
<1>6. RequestOK'
  BY DEF RequestOK
<1>7. UnsubmittedOK'
  <2>1. outcome[current] # "unsubmitted"
    BY <1>1, <1>2 DEF ProcsOK, ExitResult
  <2> QED BY <1>1, <1>3, <2>1, SaveTyped DEF UnsubmittedOK, TypeOK
<1>8. ChildPidIsOwn'
  BY <1>1, <1>2 DEF ChildPidIsOwn, NewRec, RequestOK, TypeOK, Process
<1>9. CompletedIsTrue'
  BY <1>1, <1>2 DEF CompletedIsTrue, NewRec, TypeOK
<1> QED BY <1>4, <1>5, <1>6, <1>7, <1>8, <1>9

(* The signals of a kill.                                                  *)
LEMMA KillSignalInv ==
    ASSUME IInv, KillSignal \/ KillRefused
    PROVE  IInv'
<1> USE DEF IInv, KillSignal, KillRefused, Respond
<1>1. Target \in Pids
  BY DEF RequestOK, TypeOK, Target, ProcRecord, NoRec
<1>2. TypeOK'
  BY <1>1 DEF TypeOK, AgentStage, RequestOK, Process, counters
<1>3. ProcsOK'
  BY DEF ProcsOK, PidAlive, counters
<1>4. RequestOK'
  BY DEF RequestOK, counters
<1>5. UnsubmittedOK' /\ ChildPidIsOwn' /\ CompletedIsTrue'
  BY DEF UnsubmittedOK, ChildPidIsOwn, CompletedIsTrue, counters
<1> QED BY <1>2, <1>3, <1>4, <1>5

(* SIGKILL ends whatever has the pid.                                      *)
LEMMA KillEscalateInv ==
    ASSUME IInv, KillEscalate
    PROVE  IInv'
<1> USE DEF IInv, KillEscalate, ProcessDies
<1>1. Target \in Pids
  BY DEF RequestOK, TypeOK, Target, ProcRecord, NoRec
<1>2. TypeOK'
  BY <1>1, Typed DEF TypeOK, AgentStage, ExitResult, counters
<1>3. ProcsOK'
  BY <1>1, StrangerAssumption DEF ProcsOK, AfterExit, ExitResult, TypeOK, Proc, Free, Process, PidAlive
<1>4. RequestOK'
  BY DEF RequestOK
<1>5. UnsubmittedOK'
  BY DEF UnsubmittedOK, ExitResult, TypeOK
<1>6. ChildPidIsOwn'
  BY <1>1 DEF ChildPidIsOwn, AfterExit, TypeOK, Proc, Free, Process, PidAlive
<1>7. CompletedIsTrue'
  BY <1>1 DEF CompletedIsTrue, ProcsOK, TypeOK, Proc, Free, Process, PidAlive
<1> QED BY <1>2, <1>3, <1>4, <1>5, <1>6, <1>7

(* The end of a kill.                                                      *)
LEMMA KillDoneInv ==
    ASSUME IInv, KillDone
    PROVE  IInv'
<1> USE DEF IInv, KillDone, Respond
<1>1. current \in Jobs /\ recs[current] \in ProcRecord /\ recs[current].status = "running"
  BY DEF RequestOK, TypeOK, NoRec
<1>2. recs' \in [Jobs -> ProcRecord \cup {NoRec}]
  BY <1>1 DEF TypeOK, ProcRecord, JobStatus
<1>3. TypeOK'
  BY <1>2, Typed, SaveTyped DEF TypeOK, AgentStage
<1>4. ProcsOK'
  BY StrangerAssumption DEF ProcsOK, TypeOK, Proc, Free, Process, PidAlive
<1>5. RequestOK'
  BY DEF RequestOK
<1>6. UnsubmittedOK'
  <2>1. outcome[current] # "unsubmitted"
    BY <1>1 DEF UnsubmittedOK, NoRec
  <2> QED BY <1>2, <2>1, SaveTyped DEF UnsubmittedOK, TypeOK
<1>7. ChildPidIsOwn'
  <2> SUFFICES ASSUME NEW j \in Jobs, recs'[j].status = "running", recs'[j].handle = "child"
               PROVE  os'[recs'[j].pid].owner = j /\ os'[recs'[j].pid].st \in {"child", "zombie"}
    BY DEF ChildPidIsOwn
  <2>1. j # current /\ recs'[j] = recs[j] /\ recs[j] \in ProcRecord
    BY <1>1 DEF TypeOK, NoRec
  <2>2. os[recs[j].pid].owner = j /\ os[recs[j].pid].st \in {"child", "zombie"}
    BY <2>1 DEF ChildPidIsOwn
  <2>3. recs[j].pid \notin ReapedBy({current})
    BY <1>1, <2>1, <2>2 DEF ReapedBy, ChildPidIsOwn, NewRec
  <2> QED BY <2>1, <2>2, <2>3 DEF ProcRecord
<1>8. CompletedIsTrue'
  BY <1>1 DEF CompletedIsTrue, TypeOK
<1> QED BY <1>3, <1>4, <1>5, <1>6, <1>7, <1>8

(* The agent starts: every record is a reattached one.                     *)
LEMMA AgentStartsInv ==
    ASSUME IInv, AgentStarts
    PROVE  IInv'
<1> USE DEF IInv, AgentStarts, Restored
<1>1. recs' \in [Jobs -> ProcRecord \cup {NoRec}]
  BY Typed DEF TypeOK
<1>2. TypeOK'
  BY <1>1 DEF TypeOK, AgentStage, counters
<1>3. ProcsOK'
  BY DEF ProcsOK, PidAlive
<1>4. RequestOK'
  BY DEF RequestOK
<1>5. UnsubmittedOK'
  BY DEF UnsubmittedOK
<1>6. ChildPidIsOwn' /\ CompletedIsTrue'
  BY DEF ChildPidIsOwn, CompletedIsTrue, NewRec, NoRec
<1> QED BY <1>2, <1>3, <1>4, <1>5, <1>6

(* The clock runs out.                                                     *)
LEMMA IdleExpiresInv ==
    ASSUME IInv, IdleExpires
    PROVE  IInv'
<1> USE DEF IInv, IdleExpires, counters
<1>1. TypeOK'
  BY DEF TypeOK
<1>2. ProcsOK' /\ RequestOK'
  BY DEF ProcsOK, RequestOK, PidAlive
<1>3. UnsubmittedOK' /\ ChildPidIsOwn' /\ CompletedIsTrue'
  BY DEF UnsubmittedOK, ChildPidIsOwn, CompletedIsTrue
<1> QED BY <1>1, <1>2, <1>3

(* The end of the agent, wanted or not: no children and no records.        *)
LEMMA AgentGoneInv ==
    ASSUME IInv, AgentStops \/ AgentCrashes
    PROVE  IInv'
<1> USE DEF IInv, AgentStops, AgentCrashes, AgentGone
<1>1. TypeOK'
  <2>1. os' \in [Pids -> Process]
    BY Typed DEF JobsOutlive, TypeOK
  <2>2. outcome' \in [Jobs -> {"unsubmitted", "alive", "ok", "error"}]
    BY DEF JobsOutlive, TypeOK
  <2>3. crashes' \in 0..MaxCrashes
    BY BoundsAssumption DEF TypeOK, counters
  <2> QED BY <2>1, <2>2, <2>3 DEF TypeOK, AgentStage, counters
<1>2. ProcsOK'
  BY StrangerAssumption DEF ProcsOK, JobsOutlive, Orphaned, ExitResult, TypeOK, Proc, Free, Process, PidAlive
<1>3. RequestOK'
  BY DEF RequestOK
<1>4. UnsubmittedOK'
  BY DEF UnsubmittedOK, JobsOutlive, TypeOK
<1>5. ChildPidIsOwn' /\ CompletedIsTrue'
  BY DEF ChildPidIsOwn, CompletedIsTrue, NoRec
<1> QED BY <1>1, <1>2, <1>3, <1>4, <1>5

(* Every step keeps the invariant.                                         *)
LEMMA NextIInv ==
    ASSUME IInv, [Next]_vars
    PROVE  IInv'
<1>1. CASE OsStep
  BY <1>1, ProcessExitsInv, ForeignStartsInv, ForeignPidsAssumption DEF OsStep
<1>2. CASE (\E j \in Jobs, p \in Pids : Start(j, p)) \/ Record
  BY <1>2, StartInv, RecordInv
<1>3. CASE (\E j \in Jobs : GetStatus(j) \/ Kill(j)) \/ Healthz
  BY <1>3, GetStatusInv, KillInv, HealthzInv
<1>4. CASE KillStep
  BY <1>4, KillSignalInv, KillEscalateInv, KillDoneInv DEF KillStep
<1>5. CASE AgentStarts \/ IdleExpires \/ LifecycleCheck \/ AgentStops \/ AgentCrashes
  BY <1>5, AgentStartsInv, IdleExpiresInv, LifecycleInv, AgentGoneInv
<1>6. CASE UNCHANGED vars
  <2> USE <1>6 DEF vars, IInv
  <2>1. TypeOK'
    BY DEF TypeOK
  <2>2. ProcsOK' /\ RequestOK'
    BY DEF ProcsOK, RequestOK, PidAlive
  <2>3. UnsubmittedOK' /\ ChildPidIsOwn' /\ CompletedIsTrue'
    BY DEF UnsubmittedOK, ChildPidIsOwn, CompletedIsTrue
  <2> QED BY <2>1, <2>2, <2>3
<1> QED BY <1>1, <1>2, <1>3, <1>4, <1>5, <1>6 DEF Next

(* Every reachable state satisfies the invariant.                          *)
LEMMA Invariant == Spec => []IInv
<1> QED BY InitIInv, NextIInv, PTL DEF Spec

(* The variables keep their types, for any number of jobs, pids, crashes   *)
(* and failed saves.                                                       *)
THEOREM TypeCorrect == Spec => []TypeOK
<1>1. IInv => TypeOK
  BY DEF IInv
<1> QED BY <1>1, Invariant, PTL

(* The agent's children keep their pids until they are reaped, so that a   *)
(* signal for one never reaches another process.                           *)
THEOREM ChildrenCorrect == Spec => []ChildPidIsOwn
<1>1. IInv => ChildPidIsOwn
  BY DEF IInv
<1> QED BY <1>1, Invariant, PTL

(* A job that is reported completed exited with 0.                         *)
THEOREM CompletedCorrect == Spec => []CompletedIsTrue
<1>1. IInv => CompletedIsTrue
  BY DEF IInv
<1> QED BY <1>1, Invariant, PTL

-----------------------------------------------------------------------------
(* A status that is final stays, for as long as the agent lives.           *)
FinalStatusStays ==
    [][\A j \in Jobs : recs[j].status \in JobStatus \ {"running"} =>
          recs'[j] = recs[j] \/ agent' = "down"]_recs

(* A poll leaves a record that is not running, and the pid of one that is, *)
(* alone.                                                                  *)
LEMMA PollKeeps ==
    ASSUME TypeOK, NEW js \in SUBSET Jobs, PollJobs(js), NEW j \in Jobs
    PROVE  /\ recs[j].status # "running" => recs'[j] = recs[j]
           /\ recs'[j].status = "running" => recs'[j] = recs[j]
BY DEF PollJobs, Polled, TypeOK, ProcRecord, NoRec

(* What a step may do to a record: a poll, the record of a new job, the    *)
(* end of a kill, or the start or end of the agent.                        *)
LEMMA RecordSteps ==
    ASSUME TypeOK, [Next]_vars
    PROVE  \/ UNCHANGED <<recs, saved>>
           \/ (\E js \in SUBSET Jobs : PollJobs(js)) /\ UNCHANGED saved
           \/ Record \/ KillDone \/ AgentStarts \/ AgentGone
<1>1. CASE OsStep
  BY <1>1 DEF OsStep, ProcessExits, ForeignStarts
<1>2. CASE \E j \in Jobs, p \in Pids : Start(j, p)
  BY <1>2 DEF Start
<1>3. CASE (\E j \in Jobs : GetStatus(j) \/ Kill(j)) \/ Healthz \/ LifecycleCheck
  <2>1. \A j \in Jobs : {j} \in SUBSET Jobs
    OBVIOUS
  <2> QED BY <1>3, <2>1 DEF GetStatus, Kill, Healthz, LifecycleCheck
<1>4. CASE KillStep
  BY <1>4 DEF KillStep, KillSignal, KillRefused, KillEscalate
<1>5. CASE IdleExpires \/ AgentStops \/ AgentCrashes
  BY <1>5 DEF IdleExpires, AgentStops, AgentCrashes
<1>6. CASE UNCHANGED vars
  BY <1>6 DEF vars
<1> QED BY <1>1, <1>2, <1>3, <1>4, <1>5, <1>6 DEF Next

(* No step takes a final status back while the agent lives.                *)
LEMMA FinalStep ==
    ASSUME IInv, [Next]_vars, NEW j \in Jobs, recs[j].status \in JobStatus \ {"running"}
    PROVE  recs'[j] = recs[j] \/ agent' = "down"
<1> USE DEF IInv
<1>1. CASE \E js \in SUBSET Jobs : PollJobs(js)
  BY <1>1, PollKeeps DEF JobStatus
<1>2. CASE Record \/ KillDone
  <2>1. j # current
    BY <1>2 DEF Record, KillDone, RequestOK, NoRec, JobStatus
  <2> QED BY <1>2, <2>1 DEF Record, KillDone, TypeOK
<1>3. CASE AgentStarts
  BY <1>3 DEF AgentStarts, RequestOK, NoRec, JobStatus
<1>4. CASE AgentGone
  BY <1>4 DEF AgentGone
<1> QED BY <1>1, <1>2, <1>3, <1>4, RecordSteps

(* A final status stays for as long as the agent lives, whatever is asked  *)
(* of it afterwards.                                                       *)
THEOREM FinalCorrect == Spec => FinalStatusStays
<1>1. IInv /\ [Next]_vars =>
        [\A j \in Jobs : recs[j].status \in JobStatus \ {"running"} =>
              recs'[j] = recs[j] \/ agent' = "down"]_recs
  BY FinalStep
<1> QED BY <1>1, InitIInv, NextIInv, PTL DEF Spec, FinalStatusStays

-----------------------------------------------------------------------------
(* As long as no save has failed, running.json covers the jobs the agent   *)
(* believes to be running, under the pid it knows, so a crash at any       *)
(* moment loses none of them.                                              *)
SavedCoversRunning ==
    saveErrors = 0 => \A j \in Jobs : recs[j].status = "running" => saved[j] = recs[j].pid

(* A save that failed is not forgotten.                                    *)
LEMMA ErrorsStay ==
    ASSUME TypeOK, [Next]_vars, saveErrors' = 0
    PROVE  saveErrors = 0
<1>1. CASE Record \/ KillDone
  BY <1>1 DEF Record, KillDone, SaveState, TypeOK
<1>2. CASE OsStep \/ Healthz \/ \E j \in Jobs, p \in Pids : Start(j, p)
  BY <1>2 DEF OsStep, ProcessExits, ForeignStarts, Healthz, Start, counters
<1>3. CASE \E j \in Jobs : GetStatus(j) \/ Kill(j)
  BY <1>3 DEF GetStatus, Kill, counters
<1>4. CASE KillSignal \/ KillRefused \/ KillEscalate
  BY <1>4 DEF KillSignal, KillRefused, KillEscalate, counters
<1>5. CASE AgentStarts \/ IdleExpires \/ LifecycleCheck \/ AgentStops \/ AgentCrashes
  BY <1>5 DEF AgentStarts, IdleExpires, LifecycleCheck, AgentStops, AgentCrashes, counters
<1>6. CASE UNCHANGED vars
  BY <1>6 DEF vars
<1> QED BY <1>1, <1>2, <1>3, <1>4, <1>5, <1>6 DEF Next, KillStep

(* Until a save fails, running.json covers the running records.            *)
LEMMA SavedStep ==
    ASSUME IInv, SavedCoversRunning, [Next]_vars
    PROVE  SavedCoversRunning'
<1> SUFFICES ASSUME saveErrors' = 0
             PROVE  SavedCoversRunning'
  BY DEF SavedCoversRunning
<1>0. saveErrors = 0
  BY ErrorsStay DEF IInv
<1> USE <1>0 DEF IInv, SavedCoversRunning
<1>1. CASE UNCHANGED <<recs, saved>>
  BY <1>1
<1>2. CASE (\E js \in SUBSET Jobs : PollJobs(js)) /\ UNCHANGED saved
  BY <1>2, PollKeeps
<1>3. CASE Record \/ KillDone
  <2>1. saved' = RunningPids(recs')
    BY <1>3 DEF Record, KillDone, SaveState, TypeOK
  <2> QED BY <2>1 DEF RunningPids
<1>4. CASE AgentStarts
  BY <1>4 DEF AgentStarts, Restored, NewRec, NoRec
<1>5. CASE AgentGone
  BY <1>5 DEF AgentGone, NoRec
<1> QED BY <1>1, <1>2, <1>3, <1>4, <1>5, RecordSteps

(* As long as no save fails, every job the agent believes to be running is *)
(* in running.json under its pid, however often the agent crashes.         *)
THEOREM SavedCorrect == Spec => []SavedCoversRunning
<1>1. Init => SavedCoversRunning
  BY DEF Init, SavedCoversRunning, NoRec
<1>2. IInv /\ SavedCoversRunning /\ [Next]_vars => SavedCoversRunning'
  BY SavedStep
<1> QED BY <1>1, <1>2, InitIInv, NextIInv, PTL DEF Spec

-----------------------------------------------------------------------------
(* Where a job that is alive is known, as long as the agent has not        *)
(* crashed and no save has failed: to the request that has just started    *)
(* it, in its record, or, while the agent is down, in running.json.        *)
Tracked(j) ==
    IF agent = "down" THEN saved[j] \in Pids /\ os[saved[j]].owner = j
    ELSE \/ agent = "spawned" /\ current = j
         \/ recs[j].status = "running" /\ os[recs[j].pid].owner = j

TrackedOK == crashes = 0 /\ saveErrors = 0 => \A j \in Jobs : JobAlive(j) => Tracked(j)

(* The pid of a job that is alive is alive, and that of a running record   *)
(* is a pid.                                                               *)
LEMMA OwnerAlive ==
    ASSUME IInv, NEW j \in Jobs
    PROVE  /\ \A p \in Pids : os[p].owner = j =>
                (JobAlive(j) <=> PidAlive(p)) /\ os[p].st # "free"
           /\ recs[j].status = "running" => recs[j].pid \in Pids
BY StrangerAssumption DEF IInv, TypeOK, ProcsOK, JobAlive, ExitResult, ProcRecord, NoRec, Free, Proc

(* A process exits, by itself or by the SIGKILL.                           *)
LEMMA DiesTracked ==
    ASSUME IInv, NEW p \in Pids, PidAlive(p), NEW code \in {0, 1}, ProcessDies(p, code),
           UNCHANGED <<recs, saved>>, agent' = agent \/ (agent = "kill_wait" /\ agent' = "kill_last"),
           UNCHANGED current, NEW j \in Jobs, JobAlive(j)', JobAlive(j) => Tracked(j)
    PROVE  Tracked(j)'
<1>1. j # os[p].owner /\ JobAlive(j)
  BY DEF ProcessDies, JobAlive, ExitResult, IInv, TypeOK
<1>2. \A q \in Pids : os[q].owner = j => os'[q] = os[q]
  BY <1>1 DEF ProcessDies, IInv, TypeOK
<1> QED BY <1>1, <1>2, OwnerAlive DEF Tracked

(* A poll drops no job that is alive.                                      *)
LEMMA PollTracked ==
    ASSUME IInv, NEW js \in SUBSET Jobs, PollJobs(js), UNCHANGED <<outcome, saved>>, agent = "up",
           agent' \notin {"down"}, NEW j \in Jobs, JobAlive(j)', JobAlive(j) => Tracked(j)
    PROVE  Tracked(j)'
<1>1. JobAlive(j) /\ recs[j].status = "running" /\ os[recs[j].pid].owner = j
  BY DEF JobAlive, Tracked
<1>2. recs[j].pid \in Pids /\ PidAlive(recs[j].pid)
  BY <1>1, OwnerAlive
<1>3. recs'[j] = recs[j]
  BY <1>2 DEF PollJobs, Polled
<1>4. os'[recs[j].pid] = os[recs[j].pid]
  BY <1>2 DEF PollJobs, ReapedBy, PidAlive
<1> QED BY <1>1, <1>3, <1>4 DEF Tracked

(* No step loses a job, except a crash or a save that fails.               *)
LEMMA TrackedStep ==
    ASSUME IInv, SavedCoversRunning, TrackedOK, [Next]_vars
    PROVE  TrackedOK'
<1> SUFFICES ASSUME crashes' = 0, saveErrors' = 0, NEW j \in Jobs, JobAlive(j)'
             PROVE  Tracked(j)'
  BY DEF TrackedOK
<1>0. saveErrors = 0
  BY ErrorsStay DEF IInv
<1>c. ~AgentCrashes /\ crashes = 0
  <2>1. ~AgentCrashes
    BY BoundsAssumption DEF AgentCrashes, IInv, TypeOK
  <2>2. UNCHANGED crashes
    BY <2>1 DEF Next, vars, OsStep, ProcessExits, ForeignStarts, Start, Record, GetStatus, Kill, Healthz,
                KillStep, KillSignal, KillRefused, KillEscalate, KillDone, AgentStarts, IdleExpires,
                LifecycleCheck, AgentStops, counters
  <2> QED BY <2>1, <2>2
<1>t. JobAlive(j) => Tracked(j)
  BY <1>0, <1>c DEF TrackedOK
<1>1. ASSUME NEW p \in Pids, NEW code \in {0, 1}, ProcessExits(p, code) PROVE Tracked(j)'
  BY <1>1, <1>t, DiesTracked DEF ProcessExits
<1>2. ASSUME NEW p \in Pids, ForeignStarts(p) PROVE Tracked(j)'
  <2>1. JobAlive(j) /\ \A q \in Pids : os[q].owner = j => os'[q] = os[q]
    BY <1>2, OwnerAlive DEF ForeignStarts, JobAlive, IInv, TypeOK
  <2> QED BY <1>2, <1>t, <2>1, OwnerAlive DEF ForeignStarts, Tracked
<1>3. ASSUME NEW k \in Jobs, NEW p \in Pids, Start(k, p) PROVE Tracked(j)'
  <2>1. CASE j = k
    BY <1>3, <2>1 DEF Start, Tracked
  <2>2. CASE j # k
    <3>1. JobAlive(j) /\ \A q \in Pids : os[q].owner = j => os'[q] = os[q]
      BY <1>3, <2>2, OwnerAlive DEF Start, JobAlive, IInv, TypeOK
    <3> QED BY <1>3, <1>t, <3>1, OwnerAlive DEF Start, Request, Tracked
  <2> QED BY <2>1, <2>2
<1>4. CASE Record
  <2>1. PICK p \in Pids : os[p].owner = current /\ recs' = [recs EXCEPT ![current] = NewRec(p, "child")]
    BY <1>4 DEF Record
  <2>2. agent = "spawned" /\ agent' = "up" /\ UNCHANGED os /\ JobAlive(j) /\ current \in Jobs
    BY <1>4 DEF Record, Respond, JobAlive, IInv, RequestOK
  <2>3. CASE j = current
    <3>1. recs'[j] = NewRec(p, "child")
      BY <2>1, <2>3 DEF IInv, TypeOK
    <3> QED BY <2>1, <2>2, <2>3, <3>1 DEF Tracked, NewRec
  <2>4. CASE j # current
    BY <1>t, <2>1, <2>2, <2>4 DEF Tracked, IInv, TypeOK
  <2> QED BY <2>3, <2>4
<1>5. ASSUME NEW k \in Jobs, GetStatus(k) \/ Kill(k) PROVE Tracked(j)'
  <2>1. {k} \in SUBSET Jobs
    OBVIOUS
  <2>2. PollJobs({k}) /\ UNCHANGED <<outcome, saved>> /\ agent = "up" /\ agent' # "down"
    BY <1>5 DEF GetStatus, Kill, Request
  <2> QED BY <1>t, <2>1, <2>2, PollTracked
<1>6. CASE Healthz \/ LifecycleCheck
  <2>1. PollJobs(Jobs) /\ UNCHANGED <<outcome, saved>> /\ agent = "up" /\ agent' # "down"
    BY <1>6 DEF Healthz, LifecycleCheck, Request
  <2> QED BY <1>t, <2>1, PollTracked
<1>7. CASE KillSignal \/ KillRefused \/ IdleExpires
  <2>1. UNCHANGED <<os, recs, saved, outcome>> /\ agent # "down" /\ agent' # "down"
        /\ ((agent' = agent /\ current' = current) \/ agent # "spawned")
    BY <1>7 DEF KillSignal, KillRefused, Respond, IdleExpires
  <2> QED BY <1>t, <2>1 DEF Tracked, JobAlive
<1>8. CASE KillEscalate
  <2>1. Target \in Pids
    BY <1>8, OwnerAlive DEF KillEscalate, Target, IInv, RequestOK
  <2> QED BY <1>8, <1>t, <2>1, DiesTracked DEF KillEscalate
<1>9. CASE KillDone
  <2>1. /\ JobAlive(j) /\ agent \in {"kill_wait", "kill_last"} /\ agent' = "up" /\ ~PidAlive(Target)
        /\ recs' = [recs EXCEPT ![current].status = "killed"]
        /\ os' = [p \in Pids |-> IF p \in ReapedBy({current}) THEN Free ELSE os[p]]
    BY <1>9 DEF KillDone, Respond, JobAlive
  <2>2. recs[j].status = "running" /\ os[recs[j].pid].owner = j /\ recs[j].pid \in Pids /\ PidAlive(recs[j].pid)
    BY <1>t, <2>1, OwnerAlive DEF Tracked
  <2>3. j # current
    BY <2>1, <2>2 DEF Target
  <2>4. recs'[j] = recs[j] /\ os'[recs[j].pid] = os[recs[j].pid]
    BY <2>1, <2>2, <2>3 DEF IInv, TypeOK, ReapedBy, PidAlive
  <2> QED BY <2>1, <2>2, <2>4 DEF Tracked
<1>10. CASE AgentStarts
  <2>1. JobAlive(j) /\ agent = "down" /\ agent' = "up" /\ UNCHANGED <<os, saved>> /\ recs'[j] = Restored(j)
    BY <1>10 DEF AgentStarts, JobAlive
  <2>2. saved[j] \in Pids /\ os[saved[j]].owner = j /\ PidAlive(saved[j])
    BY <1>t, <2>1, OwnerAlive DEF Tracked
  <2>3. recs'[j] = NewRec(saved[j], "reattached")
    BY <2>1, <2>2, NoPidAssumption DEF Restored
  <2> QED BY <2>1, <2>2, <2>3 DEF Tracked, NewRec
<1>11. CASE AgentStops
  <2>1. agent = "up" /\ agent' = "down" /\ UNCHANGED saved /\ JobsOutlive
    BY <1>11 DEF AgentStops, AgentGone
  <2>2. JobAlive(j) /\ os' = [p \in Pids |-> Orphaned(os[p])]
    BY <2>1 DEF JobsOutlive, JobAlive
  <2>3. recs[j].status = "running" /\ os[recs[j].pid].owner = j /\ recs[j].pid \in Pids /\ PidAlive(recs[j].pid)
    BY <1>t, <2>1, <2>2, OwnerAlive DEF Tracked
  <2>4. saved[j] = recs[j].pid
    BY <1>0, <2>3 DEF SavedCoversRunning
  <2>5. os'[saved[j]].owner = j
    BY <2>2, <2>3, <2>4 DEF Orphaned, PidAlive, Proc
  <2> QED BY <2>1, <2>3, <2>4, <2>5 DEF Tracked
<1>12. CASE UNCHANGED vars
  BY <1>12, <1>t DEF vars, Tracked, JobAlive
<1> QED BY <1>c, <1>1, <1>2, <1>3, <1>4, <1>5, <1>6, <1>7, <1>8, <1>9, <1>10, <1>11, <1>12,
           ForeignPidsAssumption DEF Next, OsStep, KillStep

(* Unless the agent crashed or a save failed, every job that is alive is   *)
(* tracked under its own pid whenever the agent waits for requests, also   *)
(* after any number of stops and starts.                                   *)
THEOREM TrackingCorrect == Spec => []JobsTracked
<1>1. Init => TrackedOK
  BY DEF Init, TrackedOK, JobAlive
<1>2. IInv /\ SavedCoversRunning /\ TrackedOK /\ [Next]_vars => TrackedOK'
  BY TrackedStep
<1>3. TrackedOK => JobsTracked
  BY DEF TrackedOK, JobsTracked, Tracked
<1> QED BY <1>1, <1>2, <1>3, Invariant, SavedCorrect, PTL DEF Spec

-----------------------------------------------------------------------------
(* The pids known of a job that is alive are its own, and a job that is    *)
(* being started is in no file yet.                                        *)
OwnPids ==
    /\ \A j \in Jobs : JobAlive(j) =>
          /\ saved[j] # NoPid => os[saved[j]].owner = j
          /\ recs[j].status = "running" => os[recs[j].pid].owner = j
    /\ agent = "spawned" => saved[current] = NoPid

(* The process of a job that lives on keeps its pid.                       *)
LEMMA OwnersStay ==
    ASSUME IInv, [Next]_vars, NEW j \in Jobs, JobAlive(j)', NEW q \in Pids, os[q].owner = j
    PROVE  os'[q].owner = j
<1> USE DEF JobAlive
<1>0. os \in [Pids -> Process] /\ outcome \in [Jobs -> {"unsubmitted", "alive", "ok", "error"}]
  BY DEF IInv, TypeOK
<1>o. os[q].st # "free" /\ (outcome[j] = "alive" <=> PidAlive(q))
  BY OwnerAlive
<1>1. ASSUME NEW p \in Pids, NEW code \in {0, 1}, ProcessDies(p, code) PROVE os'[q].owner = j
  <2>1. p # q
    BY <1>1, <1>0 DEF ProcessDies, ExitResult
  <2> QED BY <1>1, <1>0, <2>1 DEF ProcessDies
<1>2. CASE OsStep
  BY <1>2, <1>1, <1>0, <1>o, ForeignPidsAssumption DEF OsStep, ProcessExits, ForeignStarts
<1>3. ASSUME NEW k \in Jobs, NEW p \in Pids, Start(k, p) PROVE os'[q].owner = j
  BY <1>3, <1>0, <1>o DEF Start
<1>4. ASSUME NEW js \in SUBSET Jobs, os' = [p \in Pids |-> IF p \in ReapedBy(js) THEN Free ELSE os[p]],
             UNCHANGED outcome
      PROVE  os'[q].owner = j
  BY <1>4, <1>o DEF ReapedBy, PidAlive
<1>5. CASE (\E k \in Jobs : GetStatus(k) \/ Kill(k)) \/ Healthz \/ LifecycleCheck \/ KillDone
  <2>1. (\A k \in Jobs : {k} \in SUBSET Jobs) /\ Jobs \in SUBSET Jobs
    OBVIOUS
  <2>2. KillDone => current \in Jobs
    BY DEF KillDone, IInv, RequestOK
  <2> QED BY <1>4, <1>5, <2>1, <2>2 DEF GetStatus, Kill, Healthz, LifecycleCheck, KillDone, PollJobs
<1>6. CASE KillEscalate
  <2>1. Target \in Pids
    BY <1>6, OwnerAlive DEF KillEscalate, Target, IInv, RequestOK
  <2> QED BY <1>1, <1>6, <2>1 DEF KillEscalate
<1>7. CASE AgentStops \/ AgentCrashes
  <2>1. os' = [p \in Pids |-> Orphaned(os[p])]
    BY <1>7, <1>0 DEF AgentStops, AgentCrashes, AgentGone, JobsOutlive
  <2>2. PidAlive(q)
    BY <1>7, <1>0, <1>o DEF AgentStops, AgentCrashes, AgentGone, JobsOutlive
  <2> QED BY <2>1, <2>2 DEF Orphaned, PidAlive, Proc
<1>8. CASE Record \/ KillSignal \/ KillRefused \/ AgentStarts \/ IdleExpires \/ UNCHANGED vars
  BY <1>8 DEF Record, KillSignal, KillRefused, AgentStarts, IdleExpires, vars
<1> QED BY <1>2, <1>3, <1>5, <1>6, <1>7, <1>8 DEF Next, KillStep

(* A job that comes to life was not submitted before, and only a request   *)
(* that starts one is about it.                                            *)
LEMMA BirthsAreStarts ==
    ASSUME IInv, [Next]_vars
    PROVE  /\ \A j \in Jobs : JobAlive(j)' => JobAlive(j) \/ outcome[j] = "unsubmitted"
           /\ agent' = "spawned" =>
                 /\ UNCHANGED saved
                 /\ \/ agent = "spawned" /\ UNCHANGED current
                    \/ current' \in Jobs /\ outcome[current'] = "unsubmitted"
<1> USE DEF JobAlive
<1>0. outcome \in [Jobs -> {"unsubmitted", "alive", "ok", "error"}]
  BY DEF IInv, TypeOK
<1>1. CASE OsStep
  BY <1>1, <1>0 DEF OsStep, ProcessExits, ProcessDies, ForeignStarts, ExitResult
<1>2. ASSUME NEW k \in Jobs, NEW p \in Pids, Start(k, p)
      PROVE  UNCHANGED saved /\ current' = k /\ outcome[k] = "unsubmitted"
             /\ \A j \in Jobs : outcome'[j] = "alive" => outcome[j] = "alive" \/ outcome[j] = "unsubmitted"
  BY <1>2, <1>0 DEF Start
<1>3. CASE Record \/ KillDone \/ KillRefused \/ AgentStarts \/ KillSignal \/ IdleExpires
  BY <1>3 DEF Record, KillDone, KillRefused, AgentStarts, KillSignal, IdleExpires, Respond
<1>4. CASE (\E k \in Jobs : GetStatus(k) \/ Kill(k)) \/ Healthz \/ LifecycleCheck
  BY <1>4 DEF GetStatus, Kill, Healthz, LifecycleCheck, Request
<1>5. CASE KillEscalate
  BY <1>5, <1>0 DEF KillEscalate, ProcessDies, ExitResult
<1>6. CASE AgentStops \/ AgentCrashes
  BY <1>6, <1>0 DEF AgentStops, AgentCrashes, AgentGone, JobsOutlive
<1>7. CASE UNCHANGED vars
  BY <1>7 DEF vars
<1> QED BY <1>1, <1>2, <1>3, <1>4, <1>5, <1>6, <1>7 DEF Next, KillStep

(* A pid that is recorded or saved for a job was its own.                  *)
LEMMA OwnPidsStep ==
    ASSUME IInv, OwnPids, [Next]_vars
    PROVE  OwnPids'
<1>1. ASSUME NEW j \in Jobs, JobAlive(j)'
      PROVE  /\ saved'[j] # NoPid => os'[saved'[j]].owner = j
             /\ recs'[j].status = "running" => os'[recs'[j].pid].owner = j
  <2>0. /\ saved \in [Jobs -> Pids \cup {NoPid}]
        /\ \A p \in Pids : os[p].owner = j => os'[p].owner = j
        /\ recs[j].status = "running" => recs[j].pid \in Pids
    BY <1>1, OwnersStay, OwnerAlive DEF IInv, TypeOK
  <2>1. /\ saved[j] # NoPid => os'[saved[j]].owner = j
        /\ recs[j].status = "running" => os'[recs[j].pid].owner = j
    <3>1. CASE JobAlive(j)
      BY <2>0, <3>1 DEF OwnPids
    <3>2. CASE outcome[j] = "unsubmitted"
      BY <3>2 DEF IInv, UnsubmittedOK, NoRec
    <3> QED BY <1>1, <3>1, <3>2, BirthsAreStarts
  <2>2. CASE UNCHANGED <<recs, saved>>
    BY <2>1, <2>2
  <2>3. CASE (\E js \in SUBSET Jobs : PollJobs(js)) /\ UNCHANGED saved
    <3>1. recs'[j].status = "running" => recs'[j] = recs[j]
      BY <2>3, PollKeeps DEF IInv
    <3> QED BY <2>1, <2>3, <3>1
  <2>4. CASE Record \/ KillDone
    <3>1. recs'[j].status = "running" => os'[recs'[j].pid].owner = j
      <4>1. CASE Record
        <5>1. PICK p \in Pids : os[p].owner = current /\ recs' = [recs EXCEPT ![current] = NewRec(p, "child")]
          BY <4>1 DEF Record
        <5>2. CASE j = current
          BY <2>0, <5>1, <5>2 DEF NewRec, IInv, TypeOK
        <5>3. CASE j # current
          BY <2>1, <5>1, <5>3 DEF IInv, TypeOK
        <5> QED BY <5>2, <5>3
      <4>2. CASE KillDone
        <5>1. recs'[j].status = "running" => recs'[j] = recs[j]
          BY <4>2 DEF KillDone, IInv, TypeOK, RequestOK, ProcRecord, NoRec
        <5> QED BY <2>1, <5>1
      <4> QED BY <2>4, <4>1, <4>2
    <3>2. saved' = RunningPids(recs') \/ saved' = saved
      BY <2>4 DEF Record, KillDone, SaveState
    <3> QED BY <2>1, <3>1, <3>2 DEF RunningPids
  <2>5. CASE AgentStarts
    BY <2>1, <2>5 DEF AgentStarts, Restored, NewRec, NoRec
  <2>6. CASE AgentGone
    BY <2>1, <2>6 DEF AgentGone, NoRec
  <2> QED BY <2>2, <2>3, <2>4, <2>5, <2>6, RecordSteps DEF IInv
<1>2. agent' = "spawned" => saved'[current'] = NoPid
  BY BirthsAreStarts DEF OwnPids, IInv, UnsubmittedOK
<1> QED BY <1>1, <1>2 DEF OwnPids

-----------------------------------------------------------------------------
(* Every step of the manager is one of the promised records.               *)

PInv == IInv /\ OwnPids

(* A job whose pid in its record is not alive is over.                     *)
LEMMA GoneIsOver ==
    ASSUME PInv, NEW j \in Jobs, recs[j].status = "running", ~PidAlive(recs[j].pid)
    PROVE  outcome[j] \in {"ok", "error"}
<1>1. outcome[j] # "unsubmitted"
  BY DEF PInv, IInv, UnsubmittedOK, NoRec
<1>2. ~JobAlive(j)
  BY OwnerAlive DEF PInv, OwnPids
<1> QED BY <1>1, <1>2 DEF PInv, IInv, TypeOK, JobAlive

(* A step that touches no job, no record and no file is no step.           *)
LEMMA StutterImplements ==
    ASSUME UNCHANGED <<outcome, recs, saved, Up, Starting>>
    PROVE  UNCHANGED Promise!vars
BY DEF Promise!vars, Status, Safe, InFile, JobAlive

(* A process exits or is ended: a job ends, or it was another program's.   *)
LEMMA EndImplements ==
    ASSUME PInv, NEW p \in Pids, PidAlive(p), NEW code \in {0, 1}, ProcessDies(p, code),
           UNCHANGED <<recs, saved, Up, Starting>>
    PROVE  [Promise!Next]_(Promise!vars)
<1>0. os \in [Pids -> Process] /\ outcome \in [Jobs -> {"unsubmitted", "alive", "ok", "error"}]
  BY DEF PInv, IInv, TypeOK
<1>1. CASE os[p].owner \notin Jobs
  <2>1. UNCHANGED outcome
    BY <1>0, <1>1 DEF ProcessDies
  <2> QED BY <2>1, StutterImplements
<1>2. ASSUME NEW j \in Jobs, os[p].owner = j PROVE Promise!JobEnds(j)
  <2>1. outcome[j] = "alive"
    BY <1>2, OwnerAlive DEF PInv, JobAlive
  <2>2. ExitResult(code) \in {"ok", "error"} /\ outcome' = [outcome EXCEPT ![j] = ExitResult(code)]
    BY <1>0, <1>2 DEF ProcessDies, ExitResult
  <2>3. Safe' = Safe \ {j}
    BY <1>0, <2>2 DEF Safe, InFile, JobAlive
  <2> QED BY <2>1, <2>2, <2>3 DEF Promise!JobEnds, Status
<1> QED BY <1>1, <1>2 DEF Promise!Next

(* The Popen of a job.                                                     *)
LEMMA StartImplements ==
    ASSUME PInv, NEW j \in Jobs, NEW p \in Pids, Start(j, p)
    PROVE  Promise!Next
<1>1. outcome[j] = "unsubmitted" /\ outcome' = [outcome EXCEPT ![j] = "alive"] /\ UNCHANGED <<recs, saved>>
  BY DEF Start
<1>2. Up /\ Up' /\ Starting = {} /\ Starting' = {j}
  BY DEF Start, Request, Up, Starting
<1>3. saved[j] = NoPid /\ UNCHANGED Status
  BY <1>1 DEF PInv, IInv, UnsubmittedOK, Status
<1>4. UNCHANGED Safe
  BY <1>1, <1>3 DEF Safe, InFile, JobAlive, PInv, IInv, TypeOK
<1>5. Promise!Launches(j)
  BY <1>1, <1>2, <1>3, <1>4 DEF Promise!Launches
<1> QED BY <1>5 DEF Promise!Next

(* A save puts the jobs that are running and alive on file, and one that   *)
(* fails leaves the file as it is.                                         *)
LEMMA SaveImplements ==
    ASSUME SaveState, UNCHANGED outcome, recs' \in [Jobs -> ProcRecord \cup {NoRec}]
    PROVE  Promise!Saves
<1>1. CASE saved' = RunningPids(recs')
  <2>1. \A j \in Jobs : saved'[j] # NoPid <=> recs'[j].status = "running"
    BY <1>1, NoPidAssumption DEF RunningPids, ProcRecord, NoRec
  <2>2. Safe' = {j \in Jobs : outcome'[j] = "alive" /\ Status'[j] = "running"}
    BY <2>1 DEF Safe, InFile, JobAlive, Status
  <2> QED BY <2>2 DEF Promise!Saves
<1>2. CASE UNCHANGED saved
  BY <1>2 DEF Promise!Saves, Safe, InFile, JobAlive
<1> QED BY <1>1, <1>2 DEF SaveState

(* The record of a started job.                                            *)
LEMMA RecordImplements ==
    ASSUME PInv, PInv', Record
    PROVE  Promise!Next
<1>1. current \in Jobs /\ Up /\ Up' /\ Starting = {current} /\ Starting' = {}
  BY DEF Record, Respond, Up, Starting, PInv, IInv, RequestOK
<1>2. Status' = [Status EXCEPT ![current] = "running"]
  <2>1. \A j \in Jobs : recs'[j].status = IF j = current THEN "running" ELSE recs[j].status
    BY <1>1 DEF Record, NewRec, PInv, IInv, TypeOK
  <2> QED BY <2>1 DEF Status
<1>3. Promise!Saves
  BY SaveImplements DEF Record, PInv, IInv, TypeOK
<1>4. Status[current] = "none"
  BY <1>1 DEF Record, Status, PInv, IInv, RequestOK, NoRec
<1>5. Promise!Accepts(current)
  BY <1>1, <1>2, <1>3, <1>4 DEF Promise!Accepts, Record
<1> QED BY <1>1, <1>5 DEF Promise!Next

(* A poll, whoever asks for it.                                            *)
LEMMA PollImplements ==
    ASSUME PInv, PInv', NEW js \in SUBSET Jobs, PollJobs(js), UNCHANGED <<outcome, saved>>,
           agent = "up", agent' \in {"up", "kill_signal"}
    PROVE  Promise!Next
<1>1. Up /\ Up' /\ Starting = {} /\ Starting' = {}
  BY DEF Up, Starting
<1>2. UNCHANGED Safe
  BY DEF Safe, InFile, JobAlive
<1>3. Status' \in [Jobs -> {"none", "running", "completed", "failed", "killed"}]
  BY DEF Status, PInv, IInv, TypeOK, ProcRecord, JobStatus, NoRec
<1>4. ASSUME NEW j \in Jobs, Status'[j] # Status[j]
      PROVE  /\ Status[j] = "running" /\ outcome[j] \in {"ok", "error"}
             /\ Status'[j] = "failed" \/ (Status'[j] = "completed" /\ outcome[j] = "ok")
  <2>1. recs[j].status = "running" /\ ~PidAlive(recs[j].pid) /\ recs'[j].status \in {"completed", "failed"}
    BY <1>4 DEF Status, PollJobs, Polled, PInv, IInv, TypeOK, ProcRecord, NoRec
  <2>2. recs'[j].status = "completed" => outcome[j] = "ok"
    BY DEF PInv, IInv, CompletedIsTrue
  <2> QED BY <2>1, <2>2, GoneIsOver DEF Status
<1>5. Promise!Polls
  BY <1>1, <1>2, <1>3, <1>4 DEF Promise!Polls, Promise!Over
<1> QED BY <1>5 DEF Promise!Next

(* The end of a kill: the process is gone.                                 *)
LEMMA KillImplements ==
    ASSUME PInv, PInv', KillDone
    PROVE  Promise!Next
<1>1. /\ current \in Jobs /\ recs[current].status = "running"
      /\ Up /\ Up' /\ Starting = {} /\ Starting' = {}
  BY DEF KillDone, Respond, Up, Starting, PInv, IInv, RequestOK
<1>2. outcome[current] \in {"ok", "error"}
  BY <1>1, GoneIsOver DEF KillDone, Target
<1>3. Status[current] = "running" /\ Status' = [Status EXCEPT ![current] = "killed"]
  <2>1. recs[current] \in ProcRecord
    BY <1>1 DEF PInv, IInv, TypeOK, NoRec
  <2>2. \A j \in Jobs : recs'[j].status = IF j = current THEN "killed" ELSE recs[j].status
    BY <1>1, <2>1 DEF KillDone, PInv, IInv, TypeOK, ProcRecord
  <2> QED BY <1>1, <2>2 DEF Status
<1>4. Promise!Saves
  BY SaveImplements DEF KillDone, PInv, IInv, TypeOK
<1>5. Promise!Killed(current)
  BY <1>1, <1>2, <1>3, <1>4 DEF Promise!Killed, Promise!Over, KillDone
<1> QED BY <1>1, <1>5 DEF Promise!Next

(* The start of the agent: what is alive and on file comes back.           *)
LEMMA RestartImplements ==
    ASSUME PInv, AgentStarts
    PROVE  Promise!Next
<1> DEFINE back == {j \in Jobs : saved[j] # NoPid /\ PidAlive(saved[j])}
<1>1. ~Up /\ Up' /\ Starting = {} /\ Starting' = {}
  BY DEF AgentStarts, Up, Starting
<1>2. UNCHANGED Safe
  BY DEF AgentStarts, Safe, InFile, JobAlive
<1>3. Safe \subseteq back
  <2> SUFFICES ASSUME NEW j \in Jobs, JobAlive(j), saved[j] # NoPid PROVE PidAlive(saved[j])
    BY DEF Safe, InFile
  <2>1. saved[j] \in Pids /\ os[saved[j]].owner = j
    BY DEF PInv, OwnPids, IInv, TypeOK
  <2> QED BY <2>1, OwnerAlive DEF PInv
<1>4. \A j \in back : outcome[j] # "unsubmitted"
  BY DEF PInv, IInv, UnsubmittedOK
<1>5. Status' = [j \in Jobs |-> IF j \in back THEN "running" ELSE "none"]
  BY DEF AgentStarts, Restored, Status, NewRec, NoRec
<1>6. back \in SUBSET Jobs /\ UNCHANGED outcome
  BY DEF AgentStarts
<1>7. Promise!Starts
  <2> HIDE DEF back
  <2> QED BY <1>1, <1>2, <1>3, <1>4, <1>5, <1>6 DEF Promise!Starts
<1> QED BY <1>7 DEF Promise!Next

(* The end of the agent.                                                   *)
LEMMA StopImplements ==
    ASSUME PInv, AgentGone, agent # "down"
    PROVE  Promise!Next
<1>1. Up /\ ~Up' /\ Starting' = {} /\ UNCHANGED saved
  BY DEF AgentGone, Up, Starting
<1>2. Status' = [j \in Jobs |-> "none"]
  BY DEF AgentGone, Status, NoRec
<1>3. CASE UNCHANGED outcome
  BY <1>1, <1>2, <1>3 DEF Promise!Stops, Promise!Next, Promise!NoRecords, Safe, InFile, JobAlive
<1>4. CASE outcome' = [j \in Jobs |-> IF outcome[j] = "alive" THEN "error" ELSE outcome[j]]
  <2>1. Safe' = {}
    BY <1>4 DEF Safe, InFile, JobAlive
  <2> QED BY <1>1, <1>2, <1>4, <2>1 DEF Promise!Stops, Promise!Next, Promise!NoRecords
<1> QED BY <1>3, <1>4 DEF AgentGone, JobsOutlive

(* Every step implements a promised one, or changes nothing of it.         *)
LEMMA StepImplements ==
    ASSUME PInv, PInv', [Next]_vars
    PROVE  [Promise!Next]_(Promise!vars)
<1>1. ASSUME NEW p \in Pids, NEW code \in {0, 1}, ProcessExits(p, code)
      PROVE  [Promise!Next]_(Promise!vars)
  BY <1>1, EndImplements DEF ProcessExits, Up, Starting
<1>2. CASE (\E p \in ForeignPids : ForeignStarts(p)) \/ IdleExpires \/ UNCHANGED vars
  BY <1>2, StutterImplements DEF ForeignStarts, IdleExpires, vars, Up, Starting
<1>3. CASE KillSignal \/ KillRefused
  BY <1>3, StutterImplements DEF KillSignal, KillRefused, Respond, Up, Starting
<1>4. CASE KillEscalate
  <2>1. Target \in Pids
    BY <1>4, OwnerAlive DEF KillEscalate, Target, PInv, IInv, RequestOK
  <2> QED BY <1>4, <2>1, EndImplements DEF KillEscalate, Up, Starting
<1>5. CASE (\E j \in Jobs : GetStatus(j) \/ Kill(j)) \/ Healthz \/ LifecycleCheck
  <2>1. (\A j \in Jobs : {j} \in SUBSET Jobs) /\ Jobs \in SUBSET Jobs
    OBVIOUS
  <2> QED BY <1>5, <2>1, PollImplements DEF GetStatus, Kill, Healthz, LifecycleCheck, Request
<1>6. CASE AgentStops \/ AgentCrashes
  BY <1>6, StopImplements DEF AgentStops, AgentCrashes
<1> QED BY <1>1, <1>2, <1>3, <1>4, <1>5, <1>6, StartImplements, RecordImplements, KillImplements,
           RestartImplements DEF Next, OsStep, KillStep

(* The pids are the jobs' own in every reachable state.                    *)
LEMMA PInvariant == Spec => []PInv
<1>1. Init => OwnPids
  BY DEF Init, OwnPids, JobAlive
<1>2. IInv /\ OwnPids /\ [Next]_vars => OwnPids'
  BY OwnPidsStep
<1>3. IInv /\ OwnPids => PInv
  BY DEF PInv
<1> QED BY <1>1, <1>2, <1>3, Invariant, PTL DEF Spec

(* ProcessManager implements the promised job records: what its polls,     *)
(* kills, saves, crashes and restarts do to processes, statuses and        *)
(* running.json is what JobRecords says.                                   *)
THEOREM RecordsCorrect == Spec => ImplementsRecords
<1>1. Init => Promise!Init
  BY DEF Init, Promise!Init, Promise!NoRecords, Status, Up, Starting, Safe, InFile, JobAlive, NoRec
<1>2. PInv /\ PInv' /\ [Next]_vars => [Promise!Next]_(Promise!vars)
  BY StepImplements
<1> QED BY <1>1, <1>2, PInvariant, PTL DEF Spec, ImplementsRecords, Promise!Spec

-----------------------------------------------------------------------------
(* What the promise gives: a job that is safe is on record as running.     *)

SafeRuns == /\ \A j \in Safe : outcome[j] = "alive"
            /\ Up => \A j \in Safe : Status[j] = "running"

(* No promised step loses a safe job.                                      *)
LEMMA PromisedStep ==
    ASSUME TypeOK, SafeRuns, [Promise!Next]_(Promise!vars)
    PROVE  SafeRuns'
<1> USE DEF SafeRuns
<1>0. outcome \in [Jobs -> {"unsubmitted", "alive", "ok", "error"}] /\ Status = [j \in Jobs |-> Status[j]]
      /\ Safe \subseteq Jobs
  BY DEF TypeOK, Status, Safe
<1>1. ASSUME NEW j \in Jobs, Promise!JobEnds(j) PROVE SafeRuns'
  BY <1>0, <1>1 DEF Promise!JobEnds
<1>2. ASSUME NEW j \in Jobs, Promise!Launches(j) PROVE SafeRuns'
  BY <1>0, <1>2 DEF Promise!Launches
<1>3. ASSUME NEW j \in Jobs, Promise!Accepts(j) PROVE SafeRuns'
  BY <1>0, <1>3 DEF Promise!Accepts, Promise!Saves
<1>4. ASSUME NEW j \in Jobs, Promise!Killed(j) PROVE SafeRuns'
  BY <1>0, <1>4 DEF Promise!Killed, Promise!Saves, Promise!Over
<1>5. CASE Promise!Polls
  BY <1>0, <1>5 DEF Promise!Polls, Promise!Over
<1>6. CASE Promise!Stops
  BY <1>6 DEF Promise!Stops
<1>7. CASE Promise!Starts
  BY <1>0, <1>7 DEF Promise!Starts
<1>8. CASE UNCHANGED Promise!vars
  BY <1>8 DEF Promise!vars
<1> QED BY <1>1, <1>2, <1>3, <1>4, <1>5, <1>6, <1>7, <1>8 DEF Promise!Next

(* A live job that running.json holds is tracked under its own pid by      *)
(* every agent that runs, after any number of crashes and failed saves.    *)
THEOREM SurvivalCorrect == Spec => []SavedJobsSurvive
<1>1. Init => SafeRuns
  BY DEF Init, SafeRuns, Safe, InFile, JobAlive
<1>2. TypeOK /\ SafeRuns /\ [Promise!Next]_(Promise!vars) => SafeRuns'
  BY PromisedStep
<1>3. PInv /\ SafeRuns => SavedJobsSurvive
  BY DEF PInv, OwnPids, SafeRuns, SavedJobsSurvive, Safe, InFile, Up, Status
<1> QED BY <1>1, <1>2, <1>3, TypeCorrect, PInvariant, RecordsCorrect, PTL
        DEF Spec, ImplementsRecords, Promise!Spec
=============================================================================
