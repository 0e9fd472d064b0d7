------------------------------- MODULE JobFlow -------------------------------
(***************************************************************************)
(* A job as the control station sees it: the row of the jobs table against *)
(* the process on the machine.  Submissions, status queries, kills and the *)
(* reconciler read the row, ask the agent through a tunnel and write the   *)
(* row, with everything else running in between; calls and answers get     *)
(* lost, the agent stops, the server dies, the machine is removed.  The    *)
(* agent's own steps are those of Processes, seen from outside: one call   *)
(* is one step, and a saved pid is taken to be the job's.                  *)
(***************************************************************************)
EXTENDS Naturals, FiniteSets

CONSTANTS
    Jobs,     \* job uuids: submit_job draws a new one for every request
    Clients,  \* status and kill requests that may be in progress together
    NoRow     \* there is no row for this job

VARIABLES
    proc,     \* what became of the process of each job
    rec,      \* ProcessManager's record of each job; empty while the agent is down
    up,       \* does the agent run?
    machine,  \* is the machine's row still in the database?
    row,      \* the jobs table
    audit,    \* the audited jobs, by action
    submit,   \* the submission of each job: [pc, via, persistent]
    ask,      \* the status and kill requests: [op, job, loaded, answer]
    pass      \* the reconciler's pass: [todo, job, answer]

vars == <<proc, rec, up, machine, row, audit, submit, ask, pass>>
agentVars == <<proc, rec, up>>

Active   == {"running"}
Final    == {"completed", "failed", "killed"}
Exit     == {"none", "zero", "other"}
JobRow   == [status: Active \cup Final, ended: BOOLEAN, exit: Exit]
JobState(s, e, x) == [status |-> s, ended |-> e, exit |-> x]
Running  == JobState("running", FALSE, "none")

ASSUME NoRowAssumption == NoRow \notin JobRow /\ NoRow \notin Jobs

SubmitPc == {"new", "open", "ready", "post", "insert", "stored", "refused", "lost"}
Idle     == [op |-> "idle", job |-> NoRow, loaded |-> NoRow, answer |-> NoRow]
NoPass   == [todo |-> {}, job |-> NoRow, answer |-> NoRow]

(* "detached": a record rebuilt from running.json, whose exit code is lost.*)
RecState == {"none", "running", "detached", "completed", "failed", "killed0", "killed1"}

TypeOK ==
    /\ proc \in [Jobs -> {"none", "alive", "ok", "error"}]
    /\ rec \in [Jobs -> RecState]
    /\ up \in BOOLEAN /\ machine \in BOOLEAN
    /\ row \in [Jobs -> JobRow \cup {NoRow}]
    /\ audit \subseteq ({"submit", "rejected", "kill"} \X Jobs)
    /\ submit \in [Jobs -> [pc: SubmitPc, via: {"api", "web"}, persistent: BOOLEAN]]
    /\ ask \in [Clients -> [op: {"idle", "get", "kill", "webkill"}, job: Jobs \cup {NoRow},
                            loaded: JobRow \cup {NoRow}, answer: JobRow \cup {NoRow}]]
    /\ pass \in [todo: SUBSET Jobs, job: Jobs \cup {NoRow}, answer: JobRow \cup {NoRow}]

Init ==
    /\ proc = [j \in Jobs |-> "none"]
    /\ rec = [j \in Jobs |-> "none"]
    /\ up = FALSE /\ machine = TRUE
    /\ row = [j \in Jobs |-> NoRow]
    /\ audit = {}
    /\ submit = [j \in Jobs |-> [pc |-> "new", via |-> "api", persistent |-> TRUE]]
    /\ ask = [c \in Clients |-> Idle]
    /\ pass = NoPass

-----------------------------------------------------------------------------
(* The agent, as its callers meet it.                                      *)

(* _poll_record: a record that is not final takes the exit of its process. *)
Polled(j) ==
    CASE rec[j] = "running" /\ proc[j] = "ok" -> "completed"
      [] rec[j] = "running" /\ proc[j] = "error" -> "failed"
      [] rec[j] = "detached" /\ proc[j] # "alive" -> "failed"
      [] OTHER -> rec[j]

(* _to_response: the record as JobStatusResponse carries it.               *)
ToResponse(r) ==
    CASE r \in {"running", "detached"} -> Running
      [] r = "completed" -> JobState("completed", TRUE, "zero")
      [] r = "failed" -> JobState("failed", TRUE, "other")
      [] r = "killed0" -> JobState("killed", TRUE, "zero")
      [] r = "killed1" -> JobState("killed", TRUE, "other")

Knows(j) == up /\ rec[j] # "none"

(* The agent is started: restore_state takes back the jobs of running.json *)
(* whose process is alive (JobRecords, with a pid taken to be the job's):  *)
(* what ended while the agent was down is dropped, and a job whose save    *)
(* failed, or was never made because the agent died, runs on unknown.      *)
Restored(saved) == [j \in Jobs |-> IF j \in saved /\ proc[j] = "alive" THEN "detached" ELSE "none"]

(* A process ends by itself.                                               *)
ProcessEnds(j) ==
    /\ proc[j] = "alive"
    /\ \E how \in {"ok", "error"}: proc' = [proc EXCEPT ![j] = how]
    /\ UNCHANGED <<rec, up, machine, row, audit, submit, ask, pass>>

(* The idle shutdown needs running_count() = 0; a crash needs nothing.     *)
AgentStops ==
    /\ up
    /\ up' = FALSE
    /\ rec' = [j \in Jobs |-> "none"]
    /\ UNCHANGED <<proc, machine, row, audit, submit, ask, pass>>

(* The agent is up, or comes up and restores its state.                    *)
Wakes ==
    /\ up' = TRUE
    /\ IF up THEN UNCHANGED rec ELSE \E saved \in SUBSET Jobs : rec' = Restored(saved)

(* Another page, such as sync-states, wakes the agent.                     *)
AgentStarts ==
    /\ ~up /\ machine
    /\ Wakes
    /\ UNCHANGED <<proc, machine, row, audit, submit, ask, pass>>

-----------------------------------------------------------------------------
(* submit_job and its web form.                                            *)
MoveTo(j, pc) == submit' = [submit EXCEPT ![j].pc = pc]

(* The machine and the script are found, access is granted, the tunnel is  *)
(* open.  p: is the script persistent?                                     *)
Opens(j, via, p) ==
    /\ submit[j].pc = "new" /\ machine
    /\ submit' = [submit EXCEPT ![j] = [pc |-> "open", via |-> via, persistent |-> p]]
    /\ UNCHANGED <<agentVars, machine, row, audit, ask, pass>>

SubmitJob(j) == \E p \in BOOLEAN: Opens(j, "api", p)
RunSubmit(j) == \E p \in BOOLEAN: Opens(j, "web", p)

(* ensure_agent_running: healthy, or started over ssh, or never healthy.   *)
EnsureAgentRunning(j) ==
    /\ submit[j].pc = "open"
    /\ \/ MoveTo(j, "ready") /\ Wakes
       \/ MoveTo(j, "refused") /\ UNCHANGED <<up, rec>>
    /\ UNCHANGED <<proc, machine, row, audit, ask, pass>>

(* record_audit adds to the caller's transaction.                          *)
RecordAudit(entries) == audit' = audit \cup entries

(* Mutant: a submission that was audited as rejected goes on.              *)
SubmitSyncsAnyway(j) ==
    /\ submit[j].pc = "ready"
    /\ MoveTo(j, "post")
    /\ audit' \in {audit, audit \cup {<<"rejected", j>>}}
    /\ UNCHANGED <<agentVars, machine, row, ask, pass>>

(* sync_script (module ScriptSync) resolves to approved, or the request    *)
(* ends: with 409, which the API audits as a rejected submission of the    *)
(* machine, or with the error of a call.                                   *)
SubmitSyncs(j) ==
    /\ submit[j].pc = "ready"
    /\ \/ MoveTo(j, "post") /\ UNCHANGED audit
       \/ /\ MoveTo(j, "refused")
          /\ \/ UNCHANGED audit
             \/ submit[j].via = "api" /\ RecordAudit({<<"rejected", j>>})
    /\ UNCHANGED <<agentVars, machine, row, ask, pass>>

(* The agent's submit_job starts the process, or runs a script that is not *)
(* persistent to its end and keeps no record of it.                        *)
AgentAccepts(j) ==
    IF submit[j].persistent
    THEN /\ proc' = [proc EXCEPT ![j] = "alive"]
         /\ rec' = [rec EXCEPT ![j] = "running"]
    ELSE /\ \E how \in {"ok", "error"}: proc' = [proc EXCEPT ![j] = how]
         /\ UNCHANGED rec

(* Mutant: a lost answer is taken for a refusal.                           *)
PostLossRefused(j) ==
    \/ up /\ AgentAccepts(j) /\ \E pc \in {"insert", "refused"}: MoveTo(j, pc)
    \/ MoveTo(j, "refused") /\ UNCHANGED <<proc, rec>>

(* client.submit_job: accepted and answered; accepted, the answer lost;    *)
(* refused with 403, 404, 409 or 422; or never served.                     *)
Post(j) ==
    \/ up /\ AgentAccepts(j) /\ \E pc \in {"insert", "lost"}: MoveTo(j, pc)
    \/ MoveTo(j, "refused") /\ UNCHANGED <<proc, rec>>

SubmitPosts(j) ==
    /\ submit[j].pc = "post"
    /\ Post(j)
    /\ UNCHANGED <<up, machine, row, audit, ask, pass>>

(* Mutant: the row of a persistent job is inserted as pending.             *)
FirstRowPending(j) == JobState("pending", FALSE, "none")

(* The answer the agent gave to the submission.                            *)
FirstRow(j) ==
    IF submit[j].persistent THEN Running
    ELSE ToResponse(IF proc[j] = "ok" THEN "completed" ELSE "failed")

(* The row is inserted with the agent's answer; the API adds its audit     *)
(* entry to the same transaction, the web form has none.                   *)
Stores(j, via, entries) ==
    /\ submit[j].pc = "insert" /\ submit[j].via = via
    /\ row' = [row EXCEPT ![j] = FirstRow(j)]
    /\ RecordAudit(entries)
    /\ MoveTo(j, "stored")
    /\ UNCHANGED <<agentVars, machine, ask, pass>>

SubmitJobStores(j) == Stores(j, "api", {<<"submit", j>>})
RunSubmitStores(j) == Stores(j, "web", {})

(* An insert that fails leaves a job that runs and has no row.             *)
InsertFails(j) ==
    /\ submit[j].pc = "insert"
    /\ MoveTo(j, "lost")
    /\ UNCHANGED <<agentVars, machine, row, audit, ask, pass>>

-----------------------------------------------------------------------------
(* get_job and kill_job: load the row, ask the agent, write the row.       *)

(* Mutant: every column is written, changed or not.                        *)
FlushAll(loaded, new, current) == new

(* A session writes the columns that differ from what it has loaded.       *)
Flush(loaded, new, current) ==
    [col \in DOMAIN new |-> IF new[col] # loaded[col] THEN new[col] ELSE current[col]]

Loads(c, j, op) ==
    /\ ask[c] = Idle
    /\ row[j] # NoRow /\ machine
    /\ ask' = [ask EXCEPT ![c] = [op |-> op, job |-> j, loaded |-> row[j], answer |-> NoRow]]
    /\ UNCHANGED <<agentVars, machine, row, audit, submit, pass>>

(* get_job asks the agent about an active row only; kill_job wants a       *)
(* persistent job, kill_job_web any.                                       *)
GetJob(c, j)     == Loads(c, j, "get") /\ row[j].status \in Active
KillJob(c, j)    == Loads(c, j, "kill") /\ submit[j].persistent
KillJobWeb(c, j) == Loads(c, j, "webkill")

(* The agent answers GET /jobs/{uuid}.                                     *)
GetAnswered(c) ==
    LET j == ask[c].job IN
    /\ ask[c].op = "get" /\ ask[c].answer = NoRow
    /\ Knows(j)
    /\ rec' = [rec EXCEPT ![j] = Polled(j)]
    /\ ask' = [ask EXCEPT ![c].answer = ToResponse(Polled(j))]
    /\ UNCHANGED <<proc, up, machine, row, audit, submit, pass>>

(* The agent serves DELETE /jobs/{uuid}: a record that is final stays, a   *)
(* live process is terminated and its record becomes killed.  The handler  *)
(* looks only at whether it was answered.                                  *)
AgentKills(j, code) ==
    IF ToResponse(Polled(j)).status \in Final
    THEN /\ rec' = [rec EXCEPT ![j] = Polled(j)]
         /\ UNCHANGED proc
    ELSE /\ rec' = [rec EXCEPT ![j] = IF Polled(j) = "detached" THEN "killed1" ELSE code]
         /\ proc' = [proc EXCEPT ![j] = "error"]

(* kill_job sets the status and the end, whatever the agent answered.      *)
KillWrites(loaded) == [loaded EXCEPT !.status = "killed", !.ended = TRUE]

KillServed(c) ==
    LET j == ask[c].job IN
    /\ ask[c].op \in {"kill", "webkill"} /\ ask[c].answer = NoRow
    /\ Knows(j)
    /\ \E code \in {"killed0", "killed1"}: AgentKills(j, code)
    /\ \/ ask' = [ask EXCEPT ![c].answer = KillWrites(ask[c].loaded)]
       \/ ask' = [ask EXCEPT ![c] = Idle]
    /\ UNCHANGED <<up, machine, row, audit, submit, pass>>

(* No tunnel, no agent, no such job there, or the answer is lost: get_job  *)
(* returns the row as it is, kill_job fails.                               *)
AskFails(c) ==
    /\ ask[c].op # "idle" /\ ask[c].answer = NoRow
    /\ ask' = [ask EXCEPT ![c] = Idle]
    /\ UNCHANGED <<agentVars, machine, row, audit, submit, pass>>

(* The answer is written; kill_job adds its audit entry.                   *)
AskWrites(c) ==
    LET j == ask[c].job IN
    /\ ask[c].answer # NoRow
    /\ row' = [row EXCEPT ![j] = Flush(ask[c].loaded, ask[c].answer, row[j])]
    /\ RecordAudit(IF ask[c].op = "kill" THEN {<<"kill", j>>} ELSE {})
    /\ ask' = [ask EXCEPT ![c] = Idle]
    /\ UNCHANGED <<agentVars, machine, submit, pass>>

-----------------------------------------------------------------------------
(* The reconciler: one pass over the rows that were active at its start.   *)

(* A machine that has no row is left out.                                  *)
PassStarts ==
    /\ pass = NoPass
    /\ machine
    /\ \E j \in Jobs: row[j] # NoRow /\ row[j].status \in Active
    /\ pass' = [NoPass EXCEPT !.todo = {j \in Jobs: row[j] # NoRow /\ row[j].status \in Active}]
    /\ UNCHANGED <<agentVars, machine, row, audit, submit, ask>>

(* The tunnel cannot be opened: the machine's jobs wait for the next pass. *)
PassSkips ==
    /\ pass.todo # {} /\ pass.job = NoRow
    /\ pass' = NoPass
    /\ UNCHANGED <<agentVars, machine, row, audit, submit, ask>>

(* Mutant: the row of a job the agent cannot be asked about is completed.  *)
MarkCompleted(current) == [current EXCEPT !.status = "completed"]

(* Mutant: a job the agent cannot be asked about is left as it is.         *)
LeaveActive(current) == current

(* Whatever get_job_status raises (404, the agent down, a dropped tunnel,  *)
(* a timeout) marks the job failed: only the status is written.            *)
MarkFailed(current) == [current EXCEPT !.status = "failed"]

(* An answer that is not final changes nothing.                            *)
PassPolls(j) ==
    /\ j \in pass.todo /\ pass.job = NoRow
    /\ \/ /\ Knows(j)
          /\ rec' = [rec EXCEPT ![j] = Polled(j)]
          /\ LET answer == ToResponse(Polled(j)) IN
             pass' = IF answer.status \in Final
                     THEN [pass EXCEPT !.job = j, !.answer = answer]
                     ELSE [pass EXCEPT !.todo = @ \ {j}]
       \/ /\ pass' = [pass EXCEPT !.job = j]
          /\ UNCHANGED rec
    /\ UNCHANGED <<proc, up, machine, row, audit, submit, ask>>

(* The row is loaded again and written; when that write fails, the except  *)
(* clause marks the row failed instead.                                    *)
PassWrites ==
    LET j == pass.job IN
    /\ j # NoRow
    /\ \/ pass.answer # NoRow /\ row' = [row EXCEPT ![j] = pass.answer]
       \/ row' = [row EXCEPT ![j] = MarkFailed(row[j])]
    /\ pass' = [todo |-> pass.todo \ {j}, job |-> NoRow, answer |-> NoRow]
    /\ UNCHANGED <<agentVars, machine, audit, submit, ask>>

(* delete_machine leaves the jobs of the machine.                          *)
MachineRemoved ==
    /\ machine
    /\ machine' = FALSE
    /\ UNCHANGED <<agentVars, row, audit, submit, ask, pass>>

(* The server dies: requests in progress are gone, rows stay.              *)
ServerRestarts ==
    /\ submit' = [j \in Jobs |-> CASE submit[j].pc = "insert" -> [submit[j] EXCEPT !.pc = "lost"]
                                   [] submit[j].pc \in {"open", "ready", "post"} ->
                                         [submit[j] EXCEPT !.pc = "refused"]
                                   [] OTHER -> submit[j]]
    /\ ask' = [c \in Clients |-> Idle]
    /\ pass' = NoPass
    /\ UNCHANGED <<agentVars, machine, row, audit>>

-----------------------------------------------------------------------------
Next ==
    \/ AgentStarts \/ AgentStops \/ PassStarts \/ PassSkips \/ PassWrites \/ MachineRemoved \/ ServerRestarts
    \/ \E j \in Jobs:
          \/ ProcessEnds(j) \/ SubmitJob(j) \/ RunSubmit(j) \/ EnsureAgentRunning(j)
          \/ SubmitSyncs(j) \/ SubmitPosts(j) \/ SubmitJobStores(j) \/ RunSubmitStores(j)
          \/ InsertFails(j) \/ PassPolls(j)
    \/ \E c \in Clients:
          \/ GetAnswered(c) \/ KillServed(c) \/ AskFails(c) \/ AskWrites(c)
          \/ \E j \in Jobs: GetJob(c, j) \/ KillJob(c, j) \/ KillJobWeb(c, j)

Spec == Init /\ [][Next]_vars

(* The reconciler's task goes on, and again and again the server lives and *)
(* the machine can be reached for as long as a poll and its write take.    *)
FairSpec ==
    /\ Spec
    /\ WF_vars(PassStarts)
    /\ SF_vars(PassWrites)
    /\ \A j \in Jobs: SF_vars(PassPolls(j))

-----------------------------------------------------------------------------
HasRow(j) == row[j] # NoRow
Over(j)   == proc[j] \in {"ok", "error"}

(* A row that says completed or killed is about a job whose process is     *)
(* over, and completed says the script succeeded: whichever of the four    *)
(* writers wrote it, and however old the answer was that it wrote.         *)
FinalRowsAreTrue ==
    \A j \in Jobs: HasRow(j) =>
        /\ row[j].status \in {"completed", "killed"} => Over(j)
        /\ row[j].status = "completed" => proc[j] = "ok"

(* A submission that was refused (409, 422, 403, 404, agent not reachable) *)
(* has started nothing; a job that was started has a row unless its answer *)
(* or its insert was lost.                                                 *)
RefusedNeverRuns ==
    \A j \in Jobs:
        /\ submit[j].pc = "refused" => proc[j] = "none"
        /\ proc[j] # "none" => HasRow(j) \/ submit[j].pc \in {"insert", "lost"}

(* Once a row is final no late answer makes it running again, and an exit  *)
(* code that has been recorded is never replaced or erased, not even when  *)
(* a kill or a failed poll overwrites the status: a session writes only    *)
(* the columns that changed since it loaded the row.                       *)
EndStaysRecorded ==
    [][\A j \in Jobs: HasRow(j) =>
          /\ row[j].status \in Final => row'[j].status \in Final
          /\ row[j].exit # "none" => row'[j].exit = row[j].exit]_row

(* The audit log claims nothing that did not happen: a job submitted has a *)
(* row and was started, one killed is over and its row final, one rejected *)
(* never ran.                                                              *)
AuditIsTrue ==
    \A j \in Jobs:
        /\ <<"submit", j>> \in audit => HasRow(j) /\ proc[j] # "none"
        /\ <<"kill", j>> \in audit => Over(j) /\ HasRow(j) /\ row[j].status \in Final
        /\ <<"rejected", j>> \in audit => proc[j] = "none"

(* A job that is over does not stay active in the table for ever, as long  *)
(* as its machine is registered.                                           *)
JobsSettle ==
    \A j \in Jobs: (HasRow(j) /\ Over(j)) ~> ((HasRow(j) /\ row[j].status \in Final) \/ ~machine)

(* The comment in reconcile_once: a job it marks failed is one that the    *)
(* agent no longer knows, so a failed row is not about a job that the      *)
(* agent has on record as running, with its process alive.                 *)
FailedIsOver ==
    \A j \in Jobs: HasRow(j) /\ row[j].status = "failed" => ~(rec[j] = "running" /\ proc[j] = "alive")
=============================================================================
