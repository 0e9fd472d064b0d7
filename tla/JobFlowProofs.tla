---------------------------- MODULE JobFlowProofs ----------------------------
(***************************************************************************)
(* Proofs that the jobs table tells the truth, for any number of jobs and  *)
(* of requests in progress: final rows are true, refused submissions have  *)
(* started nothing, the audit log claims nothing false, and an end that is *)
(* recorded stays recorded.                                                *)
(*                                                                         *)
(* What a row says was said before by an answer in flight, and what an     *)
(* answer says by the agent's record; so the inductive invariant is about  *)
(* all three at once (ReportsOK, ExitsAgree) and about what the requests   *)
(* in progress have loaded (AskOK, PassOK).                                *)
(***************************************************************************)
EXTENDS JobFlow, TLAPS

(* How far a submission is tells whether there is a process and a row.     *)
SubmitOK ==
    \A j \in Jobs:
        /\ submit[j].pc \in {"new", "open", "ready", "post", "refused"} => proc[j] = "none"
        /\ submit[j].pc \in {"insert", "lost", "stored"} => proc[j] # "none"
        /\ HasRow(j) <=> submit[j].pc = "stored"
        /\ proc[j] = "alive" => submit[j].persistent

(* The agent's record of a job is true of its process; scripts that are    *)
(* not persistent have none.                                               *)
RecOK ==
    \A j \in Jobs:
        /\ rec[j] # "none" => up /\ proc[j] # "none" /\ submit[j].persistent
        /\ rec[j] = "completed" => proc[j] = "ok"
        /\ rec[j] \in {"failed", "killed0", "killed1"} => Over(j)

(* A request is about a job that has a row.  A status query was made for a *)
(* row that was running; what was final when it was loaded still is.  A    *)
(* kill that was answered is of a process that is over.                    *)
AskOK ==
    \A c \in Clients: ask[c].op # "idle" =>
        /\ ask[c].job \in Jobs /\ HasRow(ask[c].job)
        /\ ask[c].loaded \in JobRow
        /\ ask[c].op = "get" => ask[c].loaded = Running
        /\ ask[c].loaded.status \in Final => row[ask[c].job].status \in Final
        /\ ask[c].op # "get" /\ ask[c].answer # NoRow =>
              /\ ask[c].answer = KillWrites(ask[c].loaded)
              /\ Over(ask[c].job)

(* A request that is idle has no answer to write.                          *)
IdleOK == \A c \in Clients: ask[c].op = "idle" => ask[c].answer = NoRow

(* The reconciler works on jobs that have a row, and writes final answers, *)
(* which have an exit code.                                                *)
PassOK ==
    /\ \A j \in pass.todo: HasRow(j)
    /\ pass.job # NoRow => HasRow(pass.job)
    /\ pass.answer # NoRow =>
          pass.job # NoRow /\ pass.answer.status \in Final /\ pass.answer.exit # "none"

(* What is reported about a job: its row, and the answers in flight.       *)
Report(j, a) ==
    \/ row[j] = a
    \/ \E c \in Clients: ask[c].op = "get" /\ ask[c].job = j /\ ask[c].answer = a
    \/ pass.job = j /\ pass.answer = a

(* Every report is true, and an exit code in it is that of the record, if  *)
(* the agent still has one; one that says running says nothing else.       *)
ReportsOK ==
    \A j \in Jobs, a \in JobRow: Report(j, a) =>
        /\ a.status = "running" => a = Running
        /\ a.status \in {"completed", "killed"} => Over(j)
        /\ a.status = "completed" => proc[j] = "ok"
        /\ a.exit # "none" => Over(j) /\ (rec[j] # "none" => ToResponse(rec[j]).exit = a.exit)

(* No two reports give different exit codes.                               *)
ExitsAgree ==
    \A j \in Jobs, a, b \in JobRow:
        Report(j, a) /\ Report(j, b) /\ a.exit # "none" /\ b.exit # "none" => a.exit = b.exit

(* A submission that was audited as rejected was refused.                  *)
RejectedOK == \A j \in Jobs: <<"rejected", j>> \in audit => submit[j].pc = "refused"

IInv ==
    /\ TypeOK /\ SubmitOK /\ RecOK /\ AskOK /\ IdleOK /\ PassOK
    /\ ReportsOK /\ ExitsAgree /\ RejectedOK /\ AuditIsTrue

-----------------------------------------------------------------------------
(* The rows that the code writes are rows.                                 *)
LEMMA RowsTyped ==
    /\ Running \in JobRow
    /\ \A r \in RecState \ {"none"}: ToResponse(r) \in JobRow
    /\ \A r \in JobRow: KillWrites(r) \in JobRow /\ MarkFailed(r) \in JobRow
BY DEF JobRow, Active, Final, Exit, Running, JobState, ToResponse, KillWrites, MarkFailed, RecState

(* An answer that a job is over comes with its exit code.                  *)
LEMMA FinalHasExit ==
    \A r \in RecState \ {"none"}: ToResponse(r).status \in Final => ToResponse(r).exit # "none"
BY DEF Final, Running, JobState, ToResponse, RecState

(* A flush takes each column from the new row, if the session changed it,  *)
(* or leaves it as it is.                                                  *)
LEMMA Flushed ==
    ASSUME NEW loaded \in JobRow, NEW new \in JobRow, NEW current \in JobRow
    PROVE  /\ Flush(loaded, new, current) \in JobRow
           /\ Flush(loaded, new, current).status =
                 IF new.status # loaded.status THEN new.status ELSE current.status
           /\ Flush(loaded, new, current).ended =
                 IF new.ended # loaded.ended THEN new.ended ELSE current.ended
           /\ Flush(loaded, new, current).exit =
                 IF new.exit # loaded.exit THEN new.exit ELSE current.exit
BY DEF JobRow, Flush

(* A station that has just been installed satisfies the invariant.         *)
LEMMA InitIInv == Init => IInv
<1> SUFFICES ASSUME Init PROVE IInv
  OBVIOUS
<1>1. TypeOK
  BY DEF Init, TypeOK, RecState, SubmitPc, Idle, NoPass
<1>2. SubmitOK /\ RecOK /\ AskOK /\ IdleOK /\ PassOK
  BY DEF Init, SubmitOK, RecOK, AskOK, IdleOK, PassOK, HasRow, Idle, NoPass, Over
<1>3. \A j \in Jobs, a \in JobRow: ~Report(j, a)
  BY NoRowAssumption DEF Init, Report, Idle, NoPass
<1>4. ReportsOK /\ ExitsAgree
  BY <1>3 DEF ReportsOK, ExitsAgree
<1>5. RejectedOK /\ AuditIsTrue
  BY DEF Init, RejectedOK, AuditIsTrue
<1> QED BY <1>1, <1>2, <1>4, <1>5 DEF IInv

(* A poll of a true record is a true record, with the exit code it had.    *)
LEMMA PolledTrue ==
    ASSUME TypeOK, RecOK, NEW j \in Jobs, rec[j] # "none"
    PROVE  /\ Polled(j) \in RecState \ {"none"}
           /\ Polled(j) = "completed" => proc[j] = "ok"
           /\ Polled(j) \in {"failed", "killed0", "killed1"} => Over(j)
           /\ Polled(j) \in {"running", "detached"} => proc[j] = "alive" /\ Polled(j) = rec[j]
           /\ ToResponse(rec[j]).exit # "none" => Polled(j) = rec[j]
BY DEF TypeOK, RecOK, Polled, RecState, Over, ToResponse, JobState, Running

-----------------------------------------------------------------------------
(* The process ends by itself.                                             *)
LEMMA ProcessEndsInv == ASSUME IInv, NEW j \in Jobs, ProcessEnds(j) PROVE IInv'
<1> USE DEF IInv, ProcessEnds
<1>1. TypeOK'
  BY DEF TypeOK
<1>2. SubmitOK' /\ RecOK'
  BY DEF TypeOK, SubmitOK, RecOK, HasRow, Over
<1>3. AskOK' /\ IdleOK' /\ PassOK' /\ RejectedOK'
  BY DEF TypeOK, AskOK, IdleOK, PassOK, RejectedOK, HasRow, Over
<1>4. ReportsOK' /\ ExitsAgree'
  BY DEF TypeOK, ReportsOK, ExitsAgree, Report, Over
<1>5. AuditIsTrue'
  BY DEF TypeOK, AuditIsTrue, HasRow, Over
<1> QED BY <1>1, <1>2, <1>3, <1>4, <1>5

(* The agent stops, or starts and restores its state: its records change,  *)
(* and say nothing new about a job that is over.                           *)
LEMMA RecsChangeInv ==
    ASSUME IInv, UNCHANGED <<proc, machine, row, audit, ask, pass>>,
           up' \in BOOLEAN, rec' \in [Jobs -> RecState],
           RecOK', SubmitOK', RejectedOK',
           submit' \in [Jobs -> [pc: SubmitPc, via: {"api", "web"}, persistent: BOOLEAN]],
           \A j \in Jobs: Over(j) => rec'[j] \in {rec[j], "none"}
    PROVE  IInv'
<1> USE DEF IInv
<1>1. TypeOK'
  BY DEF TypeOK
<1>3. AskOK' /\ IdleOK' /\ PassOK'
  BY DEF AskOK, IdleOK, PassOK, HasRow, Over
<1>4. ReportsOK' /\ ExitsAgree'
  BY DEF TypeOK, ReportsOK, ExitsAgree, Report, Over
<1>5. AuditIsTrue'
  BY DEF TypeOK, AuditIsTrue, HasRow, Over
<1> QED BY <1>1, <1>3, <1>4, <1>5

(* The agent comes up: alive processes are taken back, others are dropped. *)
LEMMA WakesInv ==
    ASSUME IInv, Wakes, UNCHANGED proc, SubmitOK',
           \A j \in Jobs: proc[j] # "none" => submit'[j] = submit[j]
    PROVE  /\ up' \in BOOLEAN /\ rec' \in [Jobs -> RecState] /\ RecOK'
           /\ \A j \in Jobs: Over(j) => rec'[j] \in {rec[j], "none"}
<1> USE DEF IInv, Wakes, Restored
<1>1. up' \in BOOLEAN /\ rec' \in [Jobs -> RecState]
  BY DEF TypeOK, RecState
<1>2. RecOK'
  BY DEF TypeOK, RecOK, SubmitOK, Over
<1>3. \A j \in Jobs: Over(j) => rec'[j] \in {rec[j], "none"}
  BY DEF Over
<1> QED BY <1>1, <1>2, <1>3

(* The agent stops, idle or by a crash.                                    *)
LEMMA AgentStopsInv == ASSUME IInv, AgentStops PROVE IInv'
<1> USE DEF AgentStops
<1>1. rec' \in [Jobs -> RecState] /\ \A j \in Jobs: rec'[j] = "none"
  BY DEF RecState
<1>2. RecOK'
  BY <1>1 DEF RecOK
<1>3. SubmitOK' /\ RejectedOK'
  BY DEF IInv, SubmitOK, RejectedOK, HasRow, Over
<1> QED BY <1>1, <1>2, <1>3, RecsChangeInv DEF IInv, TypeOK

(* Another page wakes the agent.                                           *)
LEMMA AgentStartsInv == ASSUME IInv, AgentStarts PROVE IInv'
<1>1. SubmitOK' /\ RejectedOK'
  BY DEF AgentStarts, IInv, SubmitOK, RejectedOK, HasRow, Over
<1> QED BY <1>1, WakesInv, RecsChangeInv DEF AgentStarts, IInv, TypeOK

-----------------------------------------------------------------------------
(* A submission that goes on, or is given up, before anything is posted.   *)
LEMMA BeforePostInv ==
    ASSUME IInv, NEW j \in Jobs,
           submit[j].pc \in {"new", "open", "ready"},
           NEW s \in [pc: {"open", "ready", "post", "refused"}, via: {"api", "web"}, persistent: BOOLEAN],
           submit' = [submit EXCEPT ![j] = s],
           UNCHANGED proc, row' = row
    PROVE  /\ SubmitOK'
           /\ submit' \in [Jobs -> [pc: SubmitPc, via: {"api", "web"}, persistent: BOOLEAN]]
           /\ submit'[j] = s /\ \A k \in Jobs \ {j}: submit'[k] = submit[k]
           /\ \A k \in Jobs: proc[k] # "none" => submit'[k] = submit[k]
BY DEF IInv, TypeOK, SubmitOK, SubmitPc, HasRow, Over

(* A submission opens its job.                                             *)
LEMMA OpensInv ==
    ASSUME IInv, NEW j \in Jobs, NEW via \in {"api", "web"}, NEW p \in BOOLEAN, Opens(j, via, p)
    PROVE  IInv'
<1> DEFINE s == [pc |-> "open", via |-> via, persistent |-> p]
<1> USE DEF Opens, agentVars
<1>1. /\ SubmitOK'
      /\ submit' \in [Jobs -> [pc: SubmitPc, via: {"api", "web"}, persistent: BOOLEAN]]
      /\ submit'[j] = s /\ \A k \in Jobs \ {j}: submit'[k] = submit[k]
      /\ \A k \in Jobs: proc[k] # "none" => submit'[k] = submit[k]
  <2>1. s \in [pc: {"open", "ready", "post", "refused"}, via: {"api", "web"}, persistent: BOOLEAN]
    OBVIOUS
  <2> HIDE DEF s
  <2>2. submit' = [submit EXCEPT ![j] = s]
    BY DEF s
  <2> QED BY <2>1, <2>2, BeforePostInv
<1>2. RejectedOK'
  BY <1>1 DEF IInv, RejectedOK
<1>3. RecOK'
  BY <1>1 DEF IInv, RecOK, Over
<1> QED BY <1>1, <1>2, <1>3, RecsChangeInv DEF IInv, TypeOK

(* What moving a submission on changes.                                    *)
LEMMA Moved ==
    ASSUME TypeOK, NEW j \in Jobs, NEW pc \in SubmitPc, MoveTo(j, pc)
    PROVE  /\ submit' \in [Jobs -> [pc: SubmitPc, via: {"api", "web"}, persistent: BOOLEAN]]
           /\ submit'[j].pc = pc /\ submit'[j].persistent = submit[j].persistent
           /\ \A k \in Jobs \ {j}: submit'[k] = submit[k]
BY SMTT(30) DEF TypeOK, MoveTo

(* A submission finds the agent running, starts it or gives up.            *)
LEMMA EnsureAgentRunningInv ==
    ASSUME IInv, NEW j \in Jobs, EnsureAgentRunning(j)
    PROVE  IInv'
<1> USE DEF EnsureAgentRunning, MoveTo
<1>1. PICK pc \in {"ready", "refused"}: submit' = [submit EXCEPT ![j].pc = pc]
  OBVIOUS
<1>2. submit' = [submit EXCEPT ![j] = [submit[j] EXCEPT !.pc = pc]]
      /\ [submit[j] EXCEPT !.pc = pc] \in
            [pc: {"open", "ready", "post", "refused"}, via: {"api", "web"}, persistent: BOOLEAN]
  BY <1>1 DEF IInv, TypeOK, SubmitPc
<1>3. /\ SubmitOK'
      /\ submit' \in [Jobs -> [pc: SubmitPc, via: {"api", "web"}, persistent: BOOLEAN]]
      /\ \A k \in Jobs \ {j}: submit'[k] = submit[k]
      /\ \A k \in Jobs: proc[k] # "none" => submit'[k] = submit[k]
  BY <1>2, BeforePostInv
<1>4. RejectedOK'
  BY <1>3 DEF IInv, RejectedOK
<1>5. /\ up' \in BOOLEAN /\ rec' \in [Jobs -> RecState] /\ RecOK'
      /\ \A k \in Jobs: Over(k) => rec'[k] \in {rec[k], "none"}
  <2>1. CASE Wakes
    BY <2>1, <1>3, WakesInv
  <2>2. CASE UNCHANGED <<up, rec>>
    BY <2>2, <1>3 DEF IInv, TypeOK, RecOK, Over
  <2> QED BY <2>1, <2>2
<1> QED BY <1>3, <1>4, <1>5, RecsChangeInv

(* Only the submissions and the audit log change.                          *)
LEMMA SubmitChangesInv ==
    ASSUME IInv, UNCHANGED <<proc, rec, up, row, ask>>, machine' \in BOOLEAN, pass' \in {pass, NoPass},
           submit' \in [Jobs -> [pc: SubmitPc, via: {"api", "web"}, persistent: BOOLEAN]],
           audit' \subseteq ({"submit", "rejected", "kill"} \X Jobs),
           SubmitOK', RejectedOK', AuditIsTrue',
           \A j \in Jobs: proc[j] # "none" => submit'[j].persistent = submit[j].persistent
    PROVE  IInv'
<1> USE DEF IInv, NoPass
<1>1. TypeOK'
  BY DEF TypeOK
<1>2. RecOK' /\ AskOK' /\ IdleOK' /\ PassOK'
  BY DEF RecOK, AskOK, IdleOK, PassOK, HasRow, Over
<1>3. \A j \in Jobs, a \in JobRow: Report(j, a)' => Report(j, a)
  BY NoRowAssumption DEF Report
<1>4. ReportsOK' /\ ExitsAgree'
  BY <1>3 DEF ReportsOK, ExitsAgree, Over
<1> QED BY <1>1, <1>2, <1>4

(* The refusal, audited or not, and the way to the agent.                  *)
LEMMA SubmitSyncsInv == ASSUME IInv, NEW j \in Jobs, SubmitSyncs(j) PROVE IInv'
<1> USE DEF SubmitSyncs, MoveTo, agentVars
<1>1. PICK pc \in {"post", "refused"}:
         /\ submit' = [submit EXCEPT ![j].pc = pc]
         /\ audit' = audit \/ (pc = "refused" /\ audit' = audit \cup {<<"rejected", j>>})
  BY DEF RecordAudit
<1>2. submit' = [submit EXCEPT ![j] = [submit[j] EXCEPT !.pc = pc]]
      /\ [submit[j] EXCEPT !.pc = pc] \in
            [pc: {"open", "ready", "post", "refused"}, via: {"api", "web"}, persistent: BOOLEAN]
  BY <1>1 DEF IInv, TypeOK, SubmitPc
<1>3. /\ SubmitOK'
      /\ submit' \in [Jobs -> [pc: SubmitPc, via: {"api", "web"}, persistent: BOOLEAN]]
      /\ submit'[j].pc = pc
      /\ \A k \in Jobs \ {j}: submit'[k] = submit[k]
      /\ \A k \in Jobs: proc[k] # "none" => submit'[k] = submit[k]
  BY <1>2, BeforePostInv DEF IInv, TypeOK
<1>4. RejectedOK'
  BY <1>1, <1>3 DEF IInv, RejectedOK
<1>5. proc[j] = "none"
  BY DEF IInv, SubmitOK
<1>6. AuditIsTrue'
  <2>1. \A k \in Jobs:
           /\ <<"submit", k>> \in audit' => <<"submit", k>> \in audit
           /\ <<"kill", k>> \in audit' => <<"kill", k>> \in audit
           /\ <<"rejected", k>> \in audit' => <<"rejected", k>> \in audit \/ k = j
    BY <1>1
  <2> QED BY <2>1, <1>5 DEF IInv, AuditIsTrue, HasRow, Over
<1>7. audit' \subseteq ({"submit", "rejected", "kill"} \X Jobs)
  BY <1>1 DEF IInv, TypeOK
<1> QED BY <1>3, <1>4, <1>6, <1>7, SubmitChangesInv DEF IInv, TypeOK

(* An insert that fails.                                                   *)
LEMMA InsertFailsInv == ASSUME IInv, NEW j \in Jobs, InsertFails(j) PROVE IInv'
<1> USE DEF InsertFails, agentVars
<1>1. submit' \in [Jobs -> [pc: SubmitPc, via: {"api", "web"}, persistent: BOOLEAN]]
      /\ submit'[j].pc = "lost" /\ submit'[j].persistent = submit[j].persistent
      /\ \A k \in Jobs \ {j}: submit'[k] = submit[k]
  BY Moved DEF IInv, SubmitPc
<1>2. SubmitOK' /\ RejectedOK'
  BY <1>1 DEF IInv, SubmitOK, RejectedOK, HasRow, Over
<1>3. AuditIsTrue'
  BY DEF IInv, AuditIsTrue, HasRow, Over
<1> QED BY <1>1, <1>2, <1>3, SubmitChangesInv DEF IInv, TypeOK

(* The machine is deleted, its jobs stay.                                  *)
LEMMA MachineRemovedInv == ASSUME IInv, MachineRemoved PROVE IInv'
<1> USE DEF MachineRemoved, agentVars
<1>1. SubmitOK' /\ RejectedOK' /\ AuditIsTrue'
  BY DEF IInv, SubmitOK, RejectedOK, AuditIsTrue, HasRow, Over
<1> QED BY <1>1, SubmitChangesInv DEF IInv, TypeOK

(* The agent accepts the job, or not.                                      *)
LEMMA SubmitPostsInv == ASSUME IInv, NEW j \in Jobs, SubmitPosts(j) PROVE IInv'
<1> USE DEF IInv, SubmitPosts
<1>0. proc[j] = "none" /\ row[j] = NoRow /\ rec[j] = "none"
  BY DEF SubmitOK, RecOK, HasRow
<1>1. PICK pc \in {"insert", "lost", "refused"}: MoveTo(j, pc) /\
         IF pc = "refused" THEN UNCHANGED <<proc, rec>> ELSE up /\ AgentAccepts(j)
  BY DEF Post
<1>2. /\ submit' \in [Jobs -> [pc: SubmitPc, via: {"api", "web"}, persistent: BOOLEAN]]
      /\ submit'[j].pc = pc /\ submit'[j].persistent = submit[j].persistent
      /\ \A k \in Jobs \ {j}: submit'[k] = submit[k]
  BY <1>1, Moved DEF SubmitPc
<1>3. /\ proc' \in [Jobs -> {"none", "alive", "ok", "error"}] /\ rec' \in [Jobs -> RecState]
      /\ \A k \in Jobs \ {j}: proc'[k] = proc[k] /\ rec'[k] = rec[k]
      /\ pc = "refused" => proc'[j] = "none" /\ rec'[j] = "none"
      /\ pc # "refused" => up /\ proc'[j] # "none" /\ rec'[j] \in {"none", "running"}
                            /\ (rec'[j] = "running" \/ proc'[j] = "alive" => submit[j].persistent)
  <2>1. CASE pc = "refused"
    BY <2>1, <1>0, <1>1 DEF TypeOK
  <2>2. CASE pc # "refused" /\ submit[j].persistent
    BY <2>2, <1>0, <1>1 DEF TypeOK, AgentAccepts, RecState
  <2>3. CASE pc # "refused" /\ ~submit[j].persistent
    BY <2>3, <1>0, <1>1 DEF TypeOK, AgentAccepts
  <2> QED BY <2>1, <2>2, <2>3
<1>4. TypeOK'
  BY <1>2, <1>3 DEF TypeOK
<1>5. SubmitOK' /\ RejectedOK'
  BY <1>0, <1>2, <1>3 DEF SubmitOK, RejectedOK, HasRow, Over
<1>6. RecOK'
  BY <1>2, <1>3 DEF RecOK, Over
<1>7. AskOK' /\ IdleOK' /\ PassOK'
  BY <1>0, <1>3 DEF AskOK, IdleOK, PassOK, HasRow, Over
<1>8. \A a \in JobRow: ~Report(j, a)
  BY <1>0, NoRowAssumption DEF Report, AskOK, PassOK, HasRow
<1>9. ReportsOK' /\ ExitsAgree'
  BY <1>3, <1>8 DEF ReportsOK, ExitsAgree, Report, Over
<1>10. AuditIsTrue'
  BY <1>0, <1>3 DEF AuditIsTrue, RejectedOK, HasRow, Over
<1> QED BY <1>4, <1>5, <1>6, <1>7, <1>9, <1>10

(* The row of a new job says what the agent answered.                      *)
LEMMA StoresInv ==
    ASSUME IInv, NEW j \in Jobs, NEW via \in {"api", "web"},
           NEW entries \in SUBSET {<<"submit", j>>}, Stores(j, via, entries)
    PROVE  IInv'
<1> USE DEF IInv, Stores, agentVars
<1>1. /\ submit' \in [Jobs -> [pc: SubmitPc, via: {"api", "web"}, persistent: BOOLEAN]]
      /\ submit'[j].pc = "stored" /\ submit'[j].persistent = submit[j].persistent
      /\ \A k \in Jobs \ {j}: submit'[k] = submit[k]
  BY Moved DEF SubmitPc
<1>2. /\ proc[j] # "none" /\ row[j] = NoRow
      /\ ~submit[j].persistent => Over(j) /\ rec[j] = "none"
  BY DEF TypeOK, SubmitOK, RecOK, HasRow, Over
<1>3. /\ FirstRow(j) \in JobRow
      /\ FirstRow(j).status = "running" => FirstRow(j) = Running
      /\ FirstRow(j).status # "killed"
      /\ FirstRow(j).status = "completed" => proc[j] = "ok"
      /\ FirstRow(j).exit # "none" => Over(j) /\ rec[j] = "none"
  BY <1>2 DEF FirstRow, ToResponse, Running, JobState, JobRow, Active, Final, Exit
<1> HIDE DEF FirstRow
<1>4. /\ row' \in [Jobs -> JobRow \cup {NoRow}]
      /\ row'[j] = FirstRow(j) /\ \A k \in Jobs \ {j}: row'[k] = row[k]
  BY <1>3 DEF TypeOK
<1>5. /\ audit' \subseteq ({"submit", "rejected", "kill"} \X Jobs)
      /\ \A k \in Jobs: /\ <<"submit", k>> \in audit' => <<"submit", k>> \in audit \/ k = j
                        /\ <<"kill", k>> \in audit' => <<"kill", k>> \in audit
                        /\ <<"rejected", k>> \in audit' => <<"rejected", k>> \in audit
  BY DEF TypeOK, RecordAudit
<1>6. TypeOK'
  BY <1>1, <1>4, <1>5 DEF TypeOK
<1>7. HasRow(j)' /\ ~HasRow(j) /\ \A k \in Jobs \ {j}: HasRow(k)' <=> HasRow(k)
  BY <1>2, <1>3, <1>4, NoRowAssumption DEF HasRow
<1>8. SubmitOK' /\ RejectedOK'
  BY ZenonT(40), <1>1, <1>2, <1>5, <1>7 DEF SubmitOK, RejectedOK, Over
<1>9. RecOK'
  BY <1>1 DEF RecOK, Over
<1>10. AskOK' /\ IdleOK' /\ PassOK'
  BY <1>3, <1>4, <1>7 DEF TypeOK, AskOK, IdleOK, PassOK, Over
<1>11. \A k \in Jobs, a \in JobRow: Report(k, a)' =>
          (k # j /\ Report(k, a)) \/ (k = j /\ a = FirstRow(j))
  BY <1>4, <1>7, NoRowAssumption DEF Report, AskOK, PassOK
<1>12. ReportsOK'
  BY <1>3, <1>11 DEF ReportsOK, Over
<1>13. ExitsAgree'
  BY <1>11 DEF ExitsAgree
<1>14. AuditIsTrue'
  BY <1>2, <1>4, <1>5, <1>7 DEF AuditIsTrue, Over
<1> QED BY <1>6, <1>8, <1>9, <1>10, <1>12, <1>13, <1>14

-----------------------------------------------------------------------------
(* Requests and passes that begin or end without an answer: nothing new is *)
(* reported.                                                               *)
LEMMA RequestsChangeInv ==
    ASSUME IInv, UNCHANGED <<proc, rec, up, machine, row, audit, submit>>,
           TypeOK', AskOK', IdleOK', PassOK',
           \A j \in Jobs, a \in JobRow: Report(j, a)' => Report(j, a)
    PROVE  IInv'
<1> USE DEF IInv
<1>1. SubmitOK' /\ RecOK' /\ RejectedOK' /\ AuditIsTrue'
  BY DEF SubmitOK, RecOK, RejectedOK, AuditIsTrue, HasRow, Over
<1>2. ReportsOK' /\ ExitsAgree'
  BY DEF ReportsOK, ExitsAgree, Over
<1> QED BY <1>1, <1>2

(* A page or an API call loads the row of a job.                           *)
LEMMA LoadsInv ==
    ASSUME IInv, NEW c \in Clients, NEW j \in Jobs, NEW op \in {"get", "kill", "webkill"},
           Loads(c, j, op), op = "get" => row[j].status \in Active
    PROVE  IInv'
<1> USE DEF IInv, Loads, agentVars
<1>1. row[j] \in JobRow
  BY DEF TypeOK
<1>2. TypeOK'
  BY <1>1 DEF TypeOK
<1>3. /\ ask'[c] = [op |-> op, job |-> j, loaded |-> row[j], answer |-> NoRow]
      /\ \A d \in Clients \ {c}: ask'[d] = ask[d]
  BY DEF TypeOK
<1>4. op = "get" => row[j] = Running
  BY <1>1 DEF ReportsOK, Report, Active
<1>5. AskOK' /\ IdleOK' /\ PassOK'
  BY <1>1, <1>3, <1>4 DEF AskOK, IdleOK, PassOK, HasRow, Over
<1>6. \A k \in Jobs, a \in JobRow: Report(k, a)' => Report(k, a)
  BY <1>3, NoRowAssumption DEF Report
<1> QED BY <1>2, <1>5, <1>6, RequestsChangeInv

(* A call to the agent fails.                                              *)
LEMMA AskFailsInv == ASSUME IInv, NEW c \in Clients, AskFails(c) PROVE IInv'
<1> USE DEF IInv, AskFails, agentVars
<1>1. TypeOK'
  BY DEF TypeOK, Idle
<1>2. ask'[c] = Idle /\ \A d \in Clients \ {c}: ask'[d] = ask[d]
  BY DEF TypeOK
<1>3. AskOK' /\ IdleOK' /\ PassOK'
  BY <1>2 DEF AskOK, IdleOK, PassOK, HasRow, Over, Idle
<1>4. \A k \in Jobs, a \in JobRow: Report(k, a)' => Report(k, a)
  BY <1>2 DEF Report, Idle
<1> QED BY <1>1, <1>3, <1>4, RequestsChangeInv

(* A pass of the reconciler collects the active rows.                      *)
LEMMA PassStartsInv == ASSUME IInv, PassStarts PROVE IInv'
<1> USE DEF IInv, PassStarts, agentVars
<1>1. TypeOK'
  BY DEF TypeOK, NoPass
<1>2. AskOK' /\ IdleOK' /\ PassOK'
  BY DEF AskOK, IdleOK, PassOK, HasRow, Over, NoPass
<1>3. \A k \in Jobs, a \in JobRow: Report(k, a)' => Report(k, a)
  BY NoRowAssumption DEF Report, NoPass
<1> QED BY <1>1, <1>2, <1>3, RequestsChangeInv

(* A pass that opens no tunnel leaves the rows for the next.               *)
LEMMA PassSkipsInv == ASSUME IInv, PassSkips PROVE IInv'
<1> USE DEF IInv, PassSkips, agentVars
<1>1. TypeOK'
  BY DEF TypeOK, NoPass
<1>2. AskOK' /\ IdleOK' /\ PassOK'
  BY DEF AskOK, IdleOK, PassOK, HasRow, Over, NoPass
<1>3. \A k \in Jobs, a \in JobRow: Report(k, a)' => Report(k, a)
  BY NoRowAssumption DEF Report, NoPass
<1> QED BY <1>1, <1>2, <1>3, RequestsChangeInv

(* The agent is asked about a job and answers: its record is polled, and   *)
(* at most the answer is reported.                                         *)
LEMMA PollInv ==
    ASSUME IInv, NEW j \in Jobs, rec[j] # "none",
           rec' = [rec EXCEPT ![j] = Polled(j)],
           UNCHANGED <<proc, up, machine, row, audit, submit>>,
           TypeOK', AskOK', IdleOK', PassOK',
           \A k \in Jobs, a \in JobRow:
              Report(k, a)' => Report(k, a) \/ (k = j /\ a = ToResponse(Polled(j)))
    PROVE  IInv'
<1> USE DEF IInv
<1>1. SubmitOK' /\ RejectedOK' /\ AuditIsTrue'
  BY DEF SubmitOK, RejectedOK, AuditIsTrue, HasRow, Over
<1>2. /\ Polled(j) \in RecState \ {"none"}
      /\ Polled(j) = "completed" => proc[j] = "ok"
      /\ Polled(j) \in {"failed", "killed0", "killed1"} => Over(j)
      /\ Polled(j) \in {"running", "detached"} => proc[j] = "alive" /\ Polled(j) = rec[j]
      /\ ToResponse(rec[j]).exit # "none" => Polled(j) = rec[j]
  BY PolledTrue
<1>3. rec'[j] = Polled(j) /\ \A k \in Jobs \ {j}: rec'[k] = rec[k]
  BY DEF TypeOK
<1>4. RecOK'
  BY <1>2, <1>3 DEF RecOK, Over
<1>5. /\ ToResponse(Polled(j)).status = "running" => ToResponse(Polled(j)) = Running
      /\ ToResponse(Polled(j)).status \in {"completed", "killed"} => Over(j)
      /\ ToResponse(Polled(j)).status = "completed" => proc[j] = "ok"
      /\ ToResponse(Polled(j)).exit # "none" => Over(j)
  BY <1>2 DEF ToResponse, JobState, Running, RecState, Over
<1>6. ReportsOK'
  BY <1>2, <1>3, <1>5 DEF ReportsOK, Over
<1>7. ExitsAgree'
  BY <1>2, <1>3 DEF ReportsOK, ExitsAgree
<1> QED BY <1>1, <1>4, <1>6, <1>7

(* The agent answers GET /jobs/{uuid}.                                     *)
LEMMA GetAnsweredInv == ASSUME IInv, NEW c \in Clients, GetAnswered(c) PROVE IInv'
<1> DEFINE j == ask[c].job
           answer == ToResponse(Polled(j))
<1> USE DEF IInv, GetAnswered
<1>1. j \in Jobs /\ rec[j] # "none"
  BY DEF AskOK, Knows
<1>2. Polled(j) \in RecState \ {"none"} /\ answer \in JobRow
  BY <1>1, PolledTrue, RowsTyped
<1> HIDE DEF answer
<1>3. /\ ask' = [ask EXCEPT ![c].answer = answer]
      /\ rec' = [rec EXCEPT ![j] = Polled(j)]
      /\ UNCHANGED <<proc, up, machine, row, audit, submit, pass>>
      /\ ask[c].op = "get"
  BY DEF answer
<1> HIDE DEF GetAnswered
<1>4. TypeOK'
  <2>1. rec' \in [Jobs -> RecState]
    BY <1>2, <1>3 DEF TypeOK
  <2>2. ask' \in [Clients -> [op: {"idle", "get", "kill", "webkill"}, job: Jobs \cup {NoRow},
                            loaded: JobRow \cup {NoRow}, answer: JobRow \cup {NoRow}]]
    BY <1>2, <1>3 DEF TypeOK
  <2> QED BY <1>3, <2>1, <2>2 DEF TypeOK
<1>5. /\ ask'[c].op = "get" /\ ask'[c].job = j /\ ask'[c].loaded = ask[c].loaded /\ ask'[c].answer = answer
      /\ \A d \in Clients \ {c}: ask'[d] = ask[d]
  BY <1>3 DEF TypeOK
<1>6. AskOK' /\ IdleOK' /\ PassOK'
  BY <1>3, <1>5 DEF AskOK, IdleOK, PassOK, HasRow, Over
<1>7. \A k \in Jobs, a \in JobRow: Report(k, a)' => Report(k, a) \/ (k = j /\ a = answer)
  BY <1>3, <1>5 DEF Report
<1> QED BY <1>1, <1>3, <1>4, <1>6, <1>7, PollInv DEF answer

(* The reconciler asks the agent about one job.                            *)
LEMMA PassPollsInv == ASSUME IInv, NEW j \in Jobs, PassPolls(j) PROVE IInv'
<1> DEFINE answer == ToResponse(Polled(j))
<1> USE DEF IInv
<1>0. HasRow(j) /\ UNCHANGED <<proc, up, machine, row, audit, submit, ask>>
  BY DEF PassPolls, PassOK
<1>1. CASE Knows(j) /\ rec' = [rec EXCEPT ![j] = Polled(j)]
           /\ pass' = IF answer.status \in Final
                      THEN [pass EXCEPT !.job = j, !.answer = answer]
                      ELSE [pass EXCEPT !.todo = @ \ {j}]
  <2>0. rec[j] # "none" /\ Polled(j) \in RecState \ {"none"}
    BY <1>1, PolledTrue DEF Knows
  <2>1. /\ rec[j] # "none" /\ Polled(j) \in RecState \ {"none"} /\ answer \in JobRow
        /\ answer.status \in Final => answer.exit # "none"
    BY <2>0, RowsTyped, FinalHasExit
  <2> HIDE DEF answer
  <2>2. pass' \in [todo: SUBSET Jobs, job: Jobs \cup {NoRow}, answer: JobRow \cup {NoRow}]
        /\ pass'.todo \subseteq pass.todo
        /\ \/ pass'.job = j /\ pass'.answer = answer /\ answer.status \in Final
           \/ pass'.job = pass.job /\ pass'.answer = pass.answer
    BY <1>1, <2>1 DEF TypeOK
  <2>3. TypeOK'
    <3>1. rec' \in [Jobs -> RecState]
      BY <1>1, <2>1 DEF TypeOK
    <3> QED BY <1>0, <2>2, <3>1 DEF TypeOK
  <2>4. AskOK' /\ IdleOK' /\ PassOK'
    BY <1>0, <2>1, <2>2, NoRowAssumption DEF AskOK, IdleOK, PassOK, HasRow, Over
  <2>5. \A k \in Jobs, a \in JobRow: Report(k, a)' => Report(k, a) \/ (k = j /\ a = answer)
    BY <1>0, <2>2 DEF Report
  <2> QED BY <1>0, <1>1, <2>1, <2>3, <2>4, <2>5, PollInv DEF answer
<1>2. CASE pass' = [pass EXCEPT !.job = j] /\ UNCHANGED rec
  <2>1. /\ pass' \in [todo: SUBSET Jobs, job: Jobs \cup {NoRow}, answer: JobRow \cup {NoRow}]
        /\ pass'.todo = pass.todo /\ pass'.job = j /\ pass'.answer = pass.answer
    BY <1>2 DEF TypeOK
  <2>2. TypeOK'
    <3>1. UNCHANGED rec
      BY <1>2
    <3> QED BY <1>0, <2>1, <3>1 DEF TypeOK
  <2>3. AskOK' /\ IdleOK' /\ PassOK'
    BY <1>0, <2>1, NoRowAssumption DEF AskOK, IdleOK, PassOK, HasRow, Over, PassPolls
  <2>4. pass.answer = NoRow
    BY DEF PassPolls, PassOK
  <2>5. \A k \in Jobs, a \in JobRow: Report(k, a)' => Report(k, a)
    BY <1>0, <2>1, <2>4, NoRowAssumption DEF Report
  <2> QED BY <1>0, <1>2, <2>2, <2>3, <2>5, RequestsChangeInv
<1> QED BY <1>1, <1>2 DEF PassPolls

(* The agent serves a kill: afterwards the process is over.                *)
LEMMA KillServedInv == ASSUME IInv, NEW c \in Clients, KillServed(c) PROVE IInv'
<1> DEFINE j == ask[c].job
           over == ToResponse(Polled(j)).status \in Final
<1> USE DEF IInv
<1>0. /\ UNCHANGED <<up, machine, row, audit, submit, pass>>
      /\ j \in Jobs /\ HasRow(j) /\ rec[j] # "none" /\ ask[c].op \in {"kill", "webkill"}
      /\ ask[c].loaded \in JobRow
  BY DEF KillServed, AskOK, Knows
<1>1. /\ Polled(j) \in RecState \ {"none"}
      /\ Polled(j) = "completed" => proc[j] = "ok"
      /\ Polled(j) \in {"failed", "killed0", "killed1"} => Over(j)
      /\ Polled(j) \in {"running", "detached"} => proc[j] = "alive" /\ Polled(j) = rec[j]
  BY <1>0, PolledTrue
<1>2. over => Over(j)
  BY <1>1 DEF ToResponse, Running, JobState, RecState, Final, Over
<1>3. ~over => proc[j] = "alive"
  BY <1>1 DEF ToResponse, Running, JobState, RecState, Final
<1>4. /\ ask' \in [Clients -> [op: {"idle", "get", "kill", "webkill"}, job: Jobs \cup {NoRow},
                            loaded: JobRow \cup {NoRow}, answer: JobRow \cup {NoRow}]]
      /\ \/ ask'[c] = Idle
         \/ /\ ask'[c].op = ask[c].op /\ ask'[c].job = j /\ ask'[c].loaded = ask[c].loaded
            /\ ask'[c].answer = KillWrites(ask[c].loaded)
      /\ \A d \in Clients \ {c}: ask'[d] = ask[d]
  BY <1>0, RowsTyped DEF KillServed, TypeOK, Idle
<1>5. \A k \in Jobs, a \in JobRow: Report(k, a)' => Report(k, a)
  BY <1>0, <1>4 DEF Report, Idle
<1>6. CASE over
  <2>1. rec' = [rec EXCEPT ![j] = Polled(j)] /\ proc' = proc
    BY <1>6 DEF KillServed, AgentKills
  <2>2. TypeOK'
    BY <1>0, <1>1, <1>4, <2>1 DEF TypeOK
  <2>3. AskOK' /\ IdleOK' /\ PassOK'
    BY <1>0, <1>2, <1>4, <1>6, <2>1 DEF AskOK, IdleOK, PassOK, HasRow, Over, Idle
  <2> QED BY <1>0, <1>5, <2>1, <2>2, <2>3, PollInv
<1>7. CASE ~over
  <2>1. PICK r \in {"killed0", "killed1"}:
           rec' = [rec EXCEPT ![j] = r] /\ proc' = [proc EXCEPT ![j] = "error"]
    <3>1. PICK code \in {"killed0", "killed1"}: AgentKills(j, code)
      BY DEF KillServed
    <3>2. rec' = [rec EXCEPT ![j] = IF Polled(j) = "detached" THEN "killed1" ELSE code]
          /\ proc' = [proc EXCEPT ![j] = "error"]
      BY <1>7, <3>1 DEF AgentKills
    <3> QED BY <3>2
  <2>2. TypeOK'
    BY <1>0, <1>4, <2>1 DEF TypeOK, RecState
  <2>3. /\ rec'[j] = r /\ proc'[j] = "error"
        /\ \A k \in Jobs \ {j}: rec'[k] = rec[k] /\ proc'[k] = proc[k]
    BY <1>0, <2>1 DEF TypeOK
  <2>4. AskOK' /\ IdleOK' /\ PassOK'
    <3>1. AskOK'
      BY <1>0, <1>4, <2>3 DEF AskOK, HasRow, Over, Idle
    <3>2. IdleOK' /\ PassOK'
      BY <1>0, <1>4 DEF IdleOK, PassOK, HasRow, Idle
    <3> QED BY <3>1, <3>2
  <2>5. SubmitOK' /\ RecOK' /\ RejectedOK'
    BY <1>0, <1>3, <1>7, <2>3 DEF SubmitOK, RecOK, RejectedOK, HasRow, Over
  <2>6. ReportsOK' /\ ExitsAgree'
    BY <1>3, <1>5, <1>7, <2>3 DEF ReportsOK, ExitsAgree, Over
  <2>7. AuditIsTrue'
    BY <1>0, <1>3, <1>7, <2>3 DEF AuditIsTrue, HasRow, Over
  <2> QED BY <2>2, <2>4, <2>5, <2>6, <2>7
<1> QED BY <1>6, <1>7

-----------------------------------------------------------------------------
(* A row is written: it stays final if it was, keeps an exit code it had,  *)
(* and says what its old version and the reports say.                      *)
LEMMA RowWrittenInv ==
    ASSUME IInv, NEW j \in Jobs, HasRow(j), NEW r \in JobRow,
           row' = [row EXCEPT ![j] = r], UNCHANGED <<proc, rec, up, machine, submit>>,
           NEW s \in JobRow, NEW x \in JobRow, Report(j, x),
           r.status = s.status, r.exit = x.exit,
           Report(j, s) \/ s.status = "failed" \/ (s.status = "killed" /\ Over(j)),
           row[j].status \in Final => r.status \in Final,
           r.status = "running" => r = Running,
           audit' \in {audit, audit \cup {<<"kill", j>>}},
           <<"kill", j>> \in audit' => Over(j) /\ r.status \in Final,
           TypeOK', IdleOK',
           \A c \in Clients: ask'[c] \in {ask[c], Idle},
           pass'.todo \subseteq pass.todo,
           \/ pass'.job = pass.job /\ pass'.answer = pass.answer
           \/ pass'.job = NoRow /\ pass'.answer = NoRow
    PROVE  IInv'
<1> USE DEF IInv
<1>1. row'[j] = r /\ \A k \in Jobs \ {j}: row'[k] = row[k]
  BY DEF TypeOK
<1>2. \A k \in Jobs: HasRow(k)' <=> HasRow(k)
  BY <1>1, NoRowAssumption DEF HasRow
<1>3. SubmitOK' /\ RecOK'
  BY <1>2 DEF SubmitOK, RecOK, Over
<1>4. AskOK'
  BY <1>1, <1>2 DEF AskOK, Over, Idle
<1>5. PassOK'
  BY <1>1, <1>2 DEF PassOK, TypeOK
<1>6. \A k \in Jobs, a \in JobRow: Report(k, a)' => Report(k, a) \/ (k = j /\ a = r)
  BY <1>1, NoRowAssumption DEF Report, Idle
<1>7. ReportsOK'
  BY <1>6 DEF ReportsOK, Over
<1>8. ExitsAgree'
  BY <1>6 DEF ExitsAgree
<1>9. \A k \in Jobs: /\ <<"submit", k>> \in audit' => <<"submit", k>> \in audit
                     /\ <<"kill", k>> \in audit' => <<"kill", k>> \in audit \/ k = j
                     /\ <<"rejected", k>> \in audit' => <<"rejected", k>> \in audit
  OBVIOUS
<1>10. RejectedOK' /\ AuditIsTrue'
  BY <1>1, <1>2, <1>9 DEF RejectedOK, AuditIsTrue, Over
<1> QED BY <1>3, <1>4, <1>5, <1>7, <1>8, <1>10

(* What a request writes.                                                  *)
LEMMA AskWritten ==
    ASSUME IInv, NEW c \in Clients, ask[c].answer # NoRow
    PROVE  LET j == ask[c].job
               r == Flush(ask[c].loaded, ask[c].answer, row[j])
           IN  /\ j \in Jobs /\ HasRow(j) /\ r \in JobRow
               /\ r.status = row[j].status \/ r.status = ask[c].answer.status
               /\ r.exit = row[j].exit
                  \/ (r.exit = ask[c].answer.exit /\ r.exit # "none" /\ ask[c].op = "get")
               /\ row[j].status \in Final => r.status \in Final
               /\ r.status = "running" => r = row[j]
               /\ ask[c].op # "get" => r.status \in Final /\ Over(j) /\ ask[c].answer.status = "killed"
<1> DEFINE j == ask[c].job
           r == Flush(ask[c].loaded, ask[c].answer, row[j])
<1> SUFFICES /\ j \in Jobs /\ HasRow(j) /\ r \in JobRow
             /\ r.status = row[j].status \/ r.status = ask[c].answer.status
             /\ r.exit = row[j].exit
                  \/ (r.exit = ask[c].answer.exit /\ r.exit # "none" /\ ask[c].op = "get")
             /\ row[j].status \in Final => r.status \in Final
             /\ r.status = "running" => r = row[j]
             /\ ask[c].op # "get" => r.status \in Final /\ Over(j) /\ ask[c].answer.status = "killed"
  OBVIOUS
<1> USE DEF IInv
<1>1. ask[c].op # "idle"
  BY DEF IdleOK
<1>2. /\ j \in Jobs /\ HasRow(j) /\ row[j] \in JobRow
      /\ ask[c].loaded \in JobRow /\ ask[c].answer \in JobRow
      /\ ask[c].op = "get" => ask[c].loaded = Running
      /\ ask[c].loaded.status \in Final => row[j].status \in Final
      /\ ask[c].op # "get" => ask[c].answer = KillWrites(ask[c].loaded) /\ Over(j)
  BY <1>1 DEF AskOK, TypeOK, HasRow
<1>3. /\ r \in JobRow
      /\ r.status = IF ask[c].answer.status # ask[c].loaded.status THEN ask[c].answer.status ELSE row[j].status
      /\ r.exit = IF ask[c].answer.exit # ask[c].loaded.exit THEN ask[c].answer.exit ELSE row[j].exit
  BY <1>2, Flushed
<1> HIDE DEF r
<1>4. CASE ask[c].op = "get"
  <2>1. ask[c].answer.status = "running" => ask[c].answer = Running
    BY <1>2, <1>4 DEF ReportsOK, Report
  <2>2. r.status = "running" => r = row[j]
    BY <1>2, <1>4, <2>1 DEF r, Flush, Running, JobState, JobRow
  <2> QED BY <1>2, <1>3, <1>4, <2>1, <2>2 DEF JobRow, Active, Final, Running, JobState
<1>5. CASE ask[c].op # "get"
  <2>1. /\ ask[c].answer.status = "killed" /\ ask[c].answer.exit = ask[c].loaded.exit
        /\ Over(j)
    BY <1>2, <1>5 DEF KillWrites, JobRow
  <2>2. r.status \in Final
    BY <1>2, <1>3, <2>1 DEF Final
  <2> QED BY <1>2, <1>3, <1>5, <2>1, <2>2 DEF Final
<1> QED BY <1>4, <1>5

(* The answer of a call is written to the row as it is by then.            *)
LEMMA AskWritesInv == ASSUME IInv, NEW c \in Clients, AskWrites(c) PROVE IInv'
<1> DEFINE j == ask[c].job
           r == Flush(ask[c].loaded, ask[c].answer, row[j])
           s == IF r.status = row[j].status THEN row[j] ELSE ask[c].answer
           x == IF r.exit = row[j].exit THEN row[j] ELSE ask[c].answer
<1>1. /\ j \in Jobs /\ HasRow(j) /\ r \in JobRow
      /\ r.status = row[j].status \/ r.status = ask[c].answer.status
      /\ r.exit = row[j].exit
                  \/ (r.exit = ask[c].answer.exit /\ r.exit # "none" /\ ask[c].op = "get")
      /\ row[j].status \in Final => r.status \in Final
      /\ r.status = "running" => r = row[j]
      /\ ask[c].op # "get" => r.status \in Final /\ Over(j) /\ ask[c].answer.status = "killed"
  BY AskWritten DEF AskWrites
<1> HIDE DEF r
<1>2. /\ row[j] \in JobRow /\ ask[c].answer \in JobRow /\ Report(j, row[j])
      /\ ask[c].op = "get" => Report(j, ask[c].answer)
  BY <1>1 DEF IInv, TypeOK, AskWrites, Report, HasRow
<1>3. r.status = "running" => r = Running
  BY <1>1, <1>2 DEF IInv, ReportsOK
<1>4. /\ row' = [row EXCEPT ![j] = r]
      /\ ask' = [ask EXCEPT ![c] = Idle]
      /\ audit' \in {audit, audit \cup {<<"kill", j>>}} /\ (audit' = audit \/ ask[c].op # "get")
      /\ UNCHANGED <<proc, rec, up, machine, submit, pass>>
  BY DEF AskWrites, RecordAudit, agentVars, r
<1>5. <<"kill", j>> \in audit' => Over(j) /\ r.status \in Final
  BY <1>1, <1>4 DEF IInv, AuditIsTrue
<1>6. TypeOK'
  BY <1>1, <1>4 DEF IInv, TypeOK, Idle
<1>7. ask'[c] = Idle /\ \A d \in Clients: ask'[d] \in {ask[d], Idle}
  BY <1>4 DEF IInv, TypeOK
<1>8. IdleOK'
  BY <1>7 DEF IInv, IdleOK, Idle
<1>9. /\ s \in JobRow /\ r.status = s.status
      /\ Report(j, s) \/ (s.status = "killed" /\ Over(j))
  BY <1>1, <1>2
<1>10. x \in JobRow /\ r.exit = x.exit /\ Report(j, x)
  BY <1>1, <1>2
<1> QED
  <2> HIDE DEF s, x, j
  <2> QED BY <1>1, <1>3, <1>4, <1>5, <1>6, <1>7, <1>8, <1>9, <1>10, RowWrittenInv

(* The reconciler writes its answer, or the failure, to the row.           *)
LEMMA PassWritesInv == ASSUME IInv, PassWrites PROVE IInv'
<1> DEFINE j == pass.job
<1>1. j \in Jobs /\ HasRow(j) /\ row[j] \in JobRow /\ Report(j, row[j])
  BY DEF IInv, TypeOK, PassWrites, PassOK, HasRow, Report
<1>2. PICK r \in JobRow:
        /\ row' = [row EXCEPT ![j] = r] /\ r.status \in Final
        /\ \/ r = pass.answer
           \/ r.status = "failed" /\ r.exit = row[j].exit
  <2>1. CASE pass.answer # NoRow /\ row' = [row EXCEPT ![j] = pass.answer]
    BY <2>1 DEF IInv, TypeOK, PassOK
  <2>2. CASE row' = [row EXCEPT ![j] = MarkFailed(row[j])]
    <3>1. MarkFailed(row[j]) \in JobRow /\ MarkFailed(row[j]).status = "failed"
          /\ MarkFailed(row[j]).exit = row[j].exit
      BY <1>1, RowsTyped DEF MarkFailed, JobRow
    <3> QED BY <2>2, <3>1 DEF Final
  <2> QED BY <2>1, <2>2 DEF PassWrites
<1>3. /\ pass' = [todo |-> pass.todo \ {j}, job |-> NoRow, answer |-> NoRow]
      /\ UNCHANGED <<proc, rec, up, machine, audit, submit, ask>>
  BY DEF PassWrites, agentVars
<1>4. TypeOK' /\ IdleOK'
  BY <1>1, <1>2, <1>3 DEF IInv, TypeOK, IdleOK
<1>5. PICK x \in JobRow: Report(j, x) /\ r.exit = x.exit
  BY <1>1, <1>2 DEF Report
<1>6. Report(j, r) \/ r.status = "failed"
  BY <1>2 DEF Report
<1>7. <<"kill", j>> \in audit' => Over(j) /\ r.status \in Final
  BY <1>1, <1>2, <1>3 DEF IInv, AuditIsTrue
<1>8. r.status # "running"
  BY <1>2 DEF Final
<1> QED
  <2> HIDE DEF j
  <2> QED BY <1>1, <1>2, <1>3, <1>4, <1>5, <1>6, <1>7, <1>8, RowWrittenInv

(* The server dies.                                                        *)
LEMMA ServerRestartsInv == ASSUME IInv, ServerRestarts PROVE IInv'
<1> USE DEF IInv, ServerRestarts, agentVars
<1>1. /\ submit' \in [Jobs -> [pc: SubmitPc, via: {"api", "web"}, persistent: BOOLEAN]]
      /\ \A j \in Jobs:
            /\ submit'[j].persistent = submit[j].persistent
            /\ \/ submit'[j].pc = submit[j].pc
               \/ submit[j].pc = "insert" /\ submit'[j].pc = "lost"
               \/ submit[j].pc \in {"open", "ready", "post"} /\ submit'[j].pc = "refused"
  BY SMTT(30) DEF TypeOK, SubmitPc
<1>2. TypeOK'
  <2>1. ask' \in [Clients -> [op: {"idle", "get", "kill", "webkill"}, job: Jobs \cup {NoRow},
                            loaded: JobRow \cup {NoRow}, answer: JobRow \cup {NoRow}]]
    BY DEF Idle
  <2>2. pass' \in [todo: SUBSET Jobs, job: Jobs \cup {NoRow}, answer: JobRow \cup {NoRow}]
    BY DEF NoPass
  <2>3. /\ UNCHANGED <<proc, rec, up, machine, row, audit>>
    OBVIOUS
  <2> HIDE DEF ServerRestarts
  <2> QED BY <1>1, <2>1, <2>2, <2>3 DEF TypeOK
<1>3. SubmitOK' /\ RecOK' /\ RejectedOK'
  BY <1>1 DEF SubmitOK, RecOK, RejectedOK, HasRow, Over
<1>4. AskOK' /\ IdleOK' /\ PassOK'
  BY DEF AskOK, IdleOK, PassOK, Idle, NoPass
<1>5. \A j \in Jobs, a \in JobRow: Report(j, a)' => Report(j, a)
  BY NoRowAssumption DEF Report, Idle, NoPass
<1>6. ReportsOK' /\ ExitsAgree'
  BY <1>5 DEF ReportsOK, ExitsAgree, Over
<1>7. AuditIsTrue'
  BY DEF AuditIsTrue, HasRow, Over
<1> QED BY <1>2, <1>3, <1>4, <1>6, <1>7

-----------------------------------------------------------------------------
(* Every step keeps the invariant.                                         *)
LEMMA NextIInv == IInv /\ [Next]_vars => IInv'
<1> SUFFICES ASSUME IInv, [Next]_vars PROVE IInv'
  OBVIOUS
<1>1. CASE AgentStarts \/ AgentStops \/ PassStarts \/ PassSkips \/ PassWrites \/ MachineRemoved \/ ServerRestarts
  BY <1>1, AgentStartsInv, AgentStopsInv, PassStartsInv, PassSkipsInv, PassWritesInv,
     MachineRemovedInv, ServerRestartsInv
<1>2. ASSUME NEW j \in Jobs,
             ProcessEnds(j) \/ EnsureAgentRunning(j) \/ SubmitSyncs(j) \/ SubmitPosts(j)
               \/ InsertFails(j) \/ PassPolls(j)
      PROVE  IInv'
  BY <1>2, ProcessEndsInv, EnsureAgentRunningInv, SubmitSyncsInv, SubmitPostsInv, InsertFailsInv, PassPollsInv
<1>3. ASSUME NEW j \in Jobs, SubmitJob(j) \/ RunSubmit(j) PROVE IInv'
  BY <1>3, OpensInv DEF SubmitJob, RunSubmit
<1>4. ASSUME NEW j \in Jobs, SubmitJobStores(j) \/ RunSubmitStores(j) PROVE IInv'
  <2>1. CASE SubmitJobStores(j)
    BY <2>1, StoresInv DEF SubmitJobStores
  <2>2. CASE RunSubmitStores(j)
    BY <2>2, StoresInv DEF RunSubmitStores
  <2> QED BY <1>4, <2>1, <2>2
<1>5. ASSUME NEW c \in Clients, GetAnswered(c) \/ KillServed(c) \/ AskFails(c) \/ AskWrites(c)
      PROVE  IInv'
  BY <1>5, GetAnsweredInv, KillServedInv, AskFailsInv, AskWritesInv
<1>6. ASSUME NEW c \in Clients, NEW j \in Jobs, GetJob(c, j) \/ KillJob(c, j) \/ KillJobWeb(c, j)
      PROVE  IInv'
  BY <1>6, LoadsInv DEF GetJob, KillJob, KillJobWeb
<1>7. CASE UNCHANGED vars
  BY <1>7 DEF vars, IInv, TypeOK, SubmitOK, RecOK, AskOK, IdleOK, PassOK, ReportsOK, ExitsAgree,
              RejectedOK, AuditIsTrue, Report, HasRow, Over
<1> QED BY <1>1, <1>2, <1>3, <1>4, <1>5, <1>6, <1>7 DEF Next

(* Every reachable state satisfies the invariant.                          *)
LEMMA Invariant == Spec => []IInv
<1> QED BY InitIInv, NextIInv, PTL DEF Spec

-----------------------------------------------------------------------------
(* What a step may do to a row: a final one stays final, with its code.    *)
LEMMA RowStep ==
    ASSUME IInv, Next, NEW j \in Jobs, HasRow(j)
    PROVE  /\ row[j].status \in Final => row'[j].status \in Final
           /\ row[j].exit # "none" => row'[j].exit = row[j].exit
<1> DEFINE Kept == /\ row[j].status \in Final => row'[j].status \in Final
                   /\ row[j].exit # "none" => row'[j].exit = row[j].exit
<1>0. row[j] \in JobRow /\ Report(j, row[j])
  BY DEF IInv, TypeOK, HasRow, Report
<1>1. ASSUME NEW c \in Clients, AskWrites(c) PROVE Kept
  <2> DEFINE k == ask[c].job
             r == Flush(ask[c].loaded, ask[c].answer, row[k])
  <2>1. /\ k \in Jobs /\ HasRow(k) /\ r \in JobRow
        /\ r.exit = row[k].exit
             \/ (r.exit = ask[c].answer.exit /\ r.exit # "none" /\ ask[c].op = "get")
        /\ row[k].status \in Final => r.status \in Final
    BY <1>1, AskWritten DEF AskWrites
  <2> HIDE DEF r
  <2>2. row' = [row EXCEPT ![k] = r]
    BY <1>1 DEF AskWrites, r
  <2>3. CASE j # k
    BY <2>2, <2>3 DEF IInv, TypeOK
  <2>4. CASE j = k
    <3>1. row'[j] = r
      BY <2>2, <2>4 DEF IInv, TypeOK
    <3>2. ask[c].answer \in JobRow /\ (ask[c].op = "get" => Report(k, ask[c].answer))
      BY <1>1 DEF IInv, TypeOK, AskWrites, Report
    <3>3. row[j].exit # "none" => r.exit = row[j].exit
      BY <1>0, <2>1, <2>4, <3>2 DEF IInv, ExitsAgree
    <3> QED BY <2>1, <2>4, <3>1, <3>3
  <2> QED BY <2>3, <2>4
<1>2. CASE PassWrites
  <2>1. CASE j # pass.job
    BY <1>2, <2>1 DEF PassWrites, IInv, TypeOK
  <2>2. CASE j = pass.job /\ pass.answer # NoRow /\ row' = [row EXCEPT ![j] = pass.answer]
    <3>1. row'[j] = pass.answer /\ pass.answer \in JobRow /\ Report(j, pass.answer)
      BY <2>2 DEF IInv, TypeOK, Report
    <3>2. pass.answer.status \in Final /\ pass.answer.exit # "none"
      BY <2>2 DEF IInv, PassOK
    <3> QED BY <1>0, <3>1, <3>2 DEF IInv, ExitsAgree
  <2>3. CASE j = pass.job /\ row' = [row EXCEPT ![j] = MarkFailed(row[j])]
    BY <1>0, <2>3 DEF IInv, TypeOK, MarkFailed, JobRow, Final
  <2> QED BY <1>2, <2>1, <2>2, <2>3 DEF PassWrites
<1>3. ASSUME NEW k \in Jobs, SubmitJobStores(k) \/ RunSubmitStores(k) PROVE Kept
  <2>1. row[k] = NoRow /\ row' = [row EXCEPT ![k] = FirstRow(k)]
    BY <1>3 DEF SubmitJobStores, RunSubmitStores, Stores, IInv, SubmitOK, HasRow
  <2> QED BY <2>1 DEF IInv, TypeOK, HasRow
<1>4. CASE UNCHANGED row
  BY <1>4
<1>5. \/ UNCHANGED row \/ PassWrites \/ \E c \in Clients: AskWrites(c)
      \/ \E k \in Jobs: SubmitJobStores(k) \/ RunSubmitStores(k)
  BY DEF Next, AgentStarts, AgentStops, PassStarts, PassSkips, MachineRemoved, ServerRestarts,
         ProcessEnds, SubmitJob, RunSubmit, Opens, EnsureAgentRunning, SubmitSyncs, SubmitPosts,
         InsertFails, PassPolls, GetAnswered, KillServed, AskFails, GetJob, KillJob, KillJobWeb, Loads
<1> QED BY <1>1, <1>2, <1>3, <1>4, <1>5

-----------------------------------------------------------------------------
(* The variables keep their types.                                         *)
THEOREM TypeCorrect == Spec => []TypeOK
<1>1. IInv => TypeOK
  BY DEF IInv
<1> QED BY <1>1, Invariant, PTL

(* A row that says completed or killed is true, whichever of the four      *)
(* writers wrote it and however late its answer was.                       *)
THEOREM RowsCorrect == Spec => []FinalRowsAreTrue
<1>1. IInv => FinalRowsAreTrue
  <2> SUFFICES ASSUME IInv, NEW j \in Jobs, HasRow(j)
               PROVE  /\ row[j].status \in {"completed", "killed"} => Over(j)
                      /\ row[j].status = "completed" => proc[j] = "ok"
    BY DEF FinalRowsAreTrue
  <2>1. row[j] \in JobRow /\ Report(j, row[j])
    BY DEF IInv, TypeOK, HasRow, Report
  <2> QED BY <2>1 DEF IInv, ReportsOK
<1> QED BY <1>1, Invariant, PTL

(* A refused submission has started nothing, and a job that was started    *)
(* has a row unless its answer or its insert was lost.                     *)
THEOREM RefusalsCorrect == Spec => []RefusedNeverRuns
<1>1. IInv => RefusedNeverRuns
  BY DEF IInv, TypeOK, SubmitOK, SubmitPc, RefusedNeverRuns
<1> QED BY <1>1, Invariant, PTL

(* The audit log claims nothing that did not happen.                       *)
THEOREM AuditCorrect == Spec => []AuditIsTrue
<1>1. IInv => AuditIsTrue
  BY DEF IInv
<1> QED BY <1>1, Invariant, PTL

(* A final row stays final, and a recorded exit code is never replaced.    *)
THEOREM EndsCorrect == Spec => EndStaysRecorded
<1> DEFINE Kept == \A j \in Jobs: HasRow(j) =>
                      /\ row[j].status \in Final => row'[j].status \in Final
                      /\ row[j].exit # "none" => row'[j].exit = row[j].exit
<1>1. IInv /\ [Next]_vars => [Kept]_row
  BY RowStep DEF vars
<1> QED BY <1>1, Invariant, PTL DEF Spec, EndStaysRecorded
=============================================================================
