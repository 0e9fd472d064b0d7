------------------------ MODULE ApprovalsSerialProofs ------------------------
(***************************************************************************)
(* For every set of scripts, contents and csl-agent processes: what holds  *)
(* of the approval store when commands do not overlap, and that it then    *)
(* implements ApprovalProtocol.                                            *)
(***************************************************************************)
EXTENDS ApprovalsSerial, ApprovalsProofs

USE DEF Procs

Removing == {"reject", "clear", "purge"}

(* The steps of _remove_files, and those after each of them.               *)
AfterRmPendingMeta == {"open_tmp", "write_tmp", "replace"}
AfterRmPending     == {"rm_pending_meta"} \cup AfterRmPendingMeta
AfterRmScriptMeta  == {"rm_pending"} \cup AfterRmPending
AfterRmScript      == {"rm_script_meta"} \cup AfterRmScriptMeta

BeforeSave == {"write_pending", "write_meta", "promote", "promote_meta", "rm_script",
               "rm_script_meta", "rm_pending", "rm_pending_meta", "open_tmp"}
Saving     == {"write_tmp", "replace"}
Working    == BeforeSave \cup Saving

(* Which commands run where.                                               *)
Roles(p) ==
    /\ pc[p] \in {"starting", "idle", "write_pending", "write_meta", "stat", "exec"} => p = "agent"
    /\ pc[p] \in {"begin", "purge"} \cup RemoveSteps => p # "agent"
    /\ p = "agent" => op[p].kind \in {"none", "stage", "launch"}
    /\ op[p].kind = "launch" => pc[p] = "exec"
    /\ pc[p] \in {"promote", "promote_meta"} => op[p].kind \in {"stage", "approve"}
    /\ pc[p] \in {"open_tmp"} \cup Saving => op[p].kind \in {"stage", "approve"} \cup Removing

(* approvals.tmp is open while it is written, and whole when renamed.      *)
Temporary(p) ==
    /\ tmpFd[p] = IF pc[p] = "write_tmp" THEN "tmp" ELSE "closed"
    /\ pc[p] = "write_tmp" => tmp = Partial
    /\ pc[p] = "replace" => tmp = mem[p]

(* The file about to be executed is the one that was hashed.               *)
Hashed(p) == pc[p] = "exec" => scriptFile[op[p].name] = op[p].md5

(* What is gone at each step of a command that removes files.              *)
Removed(p) == op[p].kind \in Removing =>
    LET n == op[p].name IN
    /\ pc[p] \in AfterRmScript => scriptFile[n] = NoFile
    /\ pc[p] \in AfterRmScriptMeta => scriptMeta[n] = NoFile
    /\ pc[p] \in AfterRmPending => pendingFile[n] = NoFile
    /\ pc[p] \in AfterRmPendingMeta => pendingMeta[n] = NoFile
    /\ pc[p] \in Saving /\ op[p].kind # "reject" => mem[p][n] = AbsentRec

(* The agent's memory: what it loaded or saved is what is on disk, and so  *)
(* is what it has while its signature is fresh, unless a save failed.      *)
InStep ==
    /\ pc["agent"] \in {"starting", "stat"} => mem["agent"] = json
    /\ errors = 0 /\ fresh /\ pc["agent"] \in BeforeSave \cup {"idle", "exec"} => mem["agent"] = json

(* What keeping commands apart gives, process by process.                  *)
PInv(p) == Roles(p) /\ Temporary(p) /\ Hashed(p) /\ Removed(p)
Apart == NeverPartial /\ InStep /\ \A p \in Procs : PInv(p)

(* The inductive invariant of commands that do not overlap.                *)
AInv == IInv /\ Alone /\ Apart

-----------------------------------------------------------------------------
(* The record a command saves, from the one on disk.                       *)
NewRec(o, rec) ==
    CASE o.kind = "stage"   -> StagedRecord(o.name, o.md5, rec)
      [] o.kind = "approve" -> Rec("approved", rec.pending_md5, NoMd5)
      [] o.kind = "reject"  -> RejectedRec
      [] OTHER              -> AbsentRec

(* The record on disk lets the command through.                            *)
Allowed(o, rec) ==
    /\ o.kind = "stage" => /\ rec.state # "rejected"
                           /\ ~(rec.state = "approved" /\ rec.approved_md5 = o.md5)
                           /\ ~(rec.state \in InReview /\ rec.pending_md5 = o.md5)
    /\ o.kind \in {"approve", "reject"} => rec.state \in InReview
    /\ o.kind \in {"clear", "purge"} => rec.state # "absent"

(* What a command will save is one change to what is on disk.              *)
OneChange(p) ==
    /\ pc[p] \in {"begin", "purge"} \cup BeforeSave => mem[p] = json
    /\ pc[p] \in Working => Allowed(op[p], json[op[p].name])
    /\ pc[p] \in Saving =>
          mem[p] = [json EXCEPT ![op[p].name] = NewRec(op[p], json[op[p].name])]

(* The files a record speaks of.                                           *)
FilesMatch(n, rec) ==
    /\ rec.state \in {"approved", "update_pending"} => scriptFile[n] = rec.approved_md5
    /\ rec.state \in InReview => pendingFile[n] = rec.pending_md5

(* The files of the script a command works on, step by step.               *)
Moved(p) ==
    LET n == op[p].name IN
    /\ op[p].kind = "approve" /\ pc[p] = "promote" => FilesMatch(n, json[n])
    /\ op[p].kind = "approve" /\ pc[p] = "promote_meta" => scriptFile[n] = json[n].pending_md5
    /\ pc[p] \in {"write_pending", "write_meta"} /\ json[n].state = "approved" =>
          scriptFile[n] = json[n].approved_md5
    /\ pc[p] = "write_pending" => pendFd = "pending"
    /\ pc[p] = "write_meta" => pendingFile[n] = op[p].md5
    /\ op[p].kind = "stage" /\ pc[p] = "promote" => n \in auto /\ pendingFile[n] = op[p].md5
    /\ op[p].kind = "stage" /\ pc[p] = "promote_meta" => n \in auto /\ scriptFile[n] = op[p].md5
    /\ pc[p] = "open_tmp" => FilesMatch(n, NewRec(op[p], json[n]))
    /\ pc[p] \in Saving => FilesMatch(n, mem[p][n])

Undisturbed(n) == \A p \in Procs : pc[p] \in Working => op[p].name # n

FilesInStep ==
    /\ \A n \in Names : Undisturbed(n) => FilesMatch(n, json[n])
    /\ \A p \in Procs : Moved(p)

(* What staging from a fresh answer adds: until something fails.           *)
Changes  == errors = 0 => \A p \in Procs : OneChange(p)
Matching == errors = 0 /\ stops = 0 => FilesInStep

(* The inductive invariant of commands that, besides, stage in sync.       *)
SInv == AInv /\ Changes /\ Matching

-----------------------------------------------------------------------------
(* A fresh installation satisfies the invariant.                           *)
LEMMA InitAInv == Init => AInv
<1> SUFFICES ASSUME Init PROVE AInv
  OBVIOUS
<1>1. IInv /\ Alone
  BY InitIInv DEF Init, Alone, Busy
<1>2. NeverPartial /\ InStep
  BY EmptyStoreGood, StoreAssumption DEF Init, NeverPartial, InStep, BeforeSave
<1>3. \A p \in Procs : PInv(p)
  BY DEF Init, PInv, Roles, Temporary, Hashed, Removed, NoOp, RemoveSteps, Removing, Saving
<1> QED
  BY <1>1, <1>2, <1>3 DEF AInv, Apart

FilesKept == UNCHANGED <<tmp, pendingFile, pendingMeta, scriptFile, scriptMeta>>

(* Enough for the processes: the one that moved, when the files are left   *)
(* alone or every other process is quiet.                                  *)
LEMMA OthersKept ==
    ASSUME AInv, NEW p \in Procs, OnlyProc(p),
           \A q \in Procs \ {p} : tmpFd'[q] = tmpFd[q],
           FilesKept \/ \A q \in Procs \ {p} : ~Busy(q),
           PInv(p)'
    PROVE  \A q \in Procs : PInv(q)'
<1> SUFFICES ASSUME NEW q \in Procs, q # p PROVE PInv(q)'
  OBVIOUS
<1>1. PInv(q)
  BY DEF AInv, Apart
<1>2. pc'[q] = pc[q] /\ op'[q] = op[q] /\ mem'[q] = mem[q] /\ tmpFd'[q] = tmpFd[q]
  BY DEF OnlyProc
<1>3. CASE FilesKept
  BY <1>1, <1>2, <1>3 DEF FilesKept, PInv, Roles, Temporary, Hashed, Removed
<1>4. CASE ~Busy(q)
  <2>1. op[q].kind = "none"
    BY <1>4 DEF AInv, IInv, Commands, CommandShape, Busy
  <2> QED
    BY <1>1, <1>2, <1>4, <2>1 DEF Busy, PInv, Roles, Temporary, Hashed, Removed, Removing
<1> QED
  BY <1>3, <1>4

(* A step of a busy process finds every other one quiet.                   *)
LEMMA OthersQuiet ==
    ASSUME AInv, NEW p \in Procs, OnlyProc(p), Busy(p) \/ (Busy(p)' /\ Alone')
    PROVE  \A q \in Procs \ {p} : ~Busy(q)
BY DEF AInv, Alone, Busy, OnlyProc

(* What csl-agent does leaves the agent's memory as far from approvals.json *)
(* as its signature says.                                                  *)
LEMMA AgentInStep ==
    ASSUME AInv, NEW p \in Clis, OnlyProc(p), ~Busy("agent"), errors' = errors,
           ~fresh' \/ (json' = json /\ fresh' = fresh)
    PROVE  InStep'
<1>1. "agent" \in Procs \ {p}
  BY ClisAssumption
<1> QED
  BY <1>1 DEF AInv, Apart, InStep, OnlyProc, Busy, BeforeSave
-----------------------------------------------------------------------------
(* The agent's actions.                                                    *)

(* The agent starts and loads approvals.json.                              *)
LEMMA AgentLoadApart ==
    ASSUME AInv, IInv', Alone', AgentLoad
    PROVE  Apart'
<1> USE DEF AgentLoad, Goto, Load, storeVars, diskVars, fileVars, procVars, ownerVars, history
<1>1. /\ OnlyProc("agent") /\ "agent" \in Procs
      /\ \A q \in Procs \ {"agent"} : tmpFd'[q] = tmpFd[q]
  BY DEF OnlyProc, AInv, Apart, IInv, TypeOK
<1>2. \A q \in Procs \ {"agent"} : ~Busy(q)
  BY <1>1, OthersQuiet DEF Busy, AInv, Apart, IInv, TypeOK
<1>3. PInv("agent")'
  BY <1>1 DEF AInv, Apart, IInv, TypeOK, PInv, Roles, Temporary, Hashed, Removed, RemoveSteps,
     Removing, Saving, AfterRmScript, AfterRmScriptMeta, AfterRmPending, AfterRmPendingMeta,
     Commands, CommandShape, NoOp
<1>4. NeverPartial' /\ InStep'
  BY DEF AInv, Apart, IInv, TypeOK, NeverPartial, InStep, BeforeSave
<1> QED
  BY <1>1, <1>2, <1>3, <1>4, OthersKept DEF Apart

(* The agent notes the signature of the file it loaded.                    *)
LEMMA AgentSigApart ==
    ASSUME AInv, IInv', Alone', AgentSig
    PROVE  Apart'
<1> USE DEF AgentSig, Goto, storeVars, diskVars, fileVars, procVars, ownerVars, history
<1>1. /\ OnlyProc("agent") /\ "agent" \in Procs
      /\ \A q \in Procs \ {"agent"} : tmpFd'[q] = tmpFd[q]
  BY DEF OnlyProc, AInv, Apart, IInv, TypeOK
<1>2. \A q \in Procs \ {"agent"} : ~Busy(q)
  BY <1>1, OthersQuiet DEF Busy, AInv, Apart, IInv, TypeOK
<1>3. PInv("agent")'
  BY <1>1 DEF AInv, Apart, IInv, TypeOK, PInv, Roles, Temporary, Hashed, Removed, RemoveSteps,
     Removing, Saving, AfterRmScript, AfterRmScriptMeta, AfterRmPending, AfterRmPendingMeta,
     Commands, CommandShape, NoOp
<1>4. NeverPartial' /\ InStep'
  BY DEF AInv, Apart, IInv, TypeOK, NeverPartial, InStep, BeforeSave
<1> QED
  BY <1>1, <1>2, <1>3, <1>4, OthersKept DEF Apart

(* GET /scripts/{name}/state, whatever else runs.                          *)
LEMMA GetStateApart ==
    ASSUME AInv, IInv', Alone', GetState
    PROVE  Apart'
<1> USE DEF GetState, SyncFromDisk, Synced, Load, storeVars, diskVars, fileVars, procVars,
   ownerVars, history
<1>1. /\ OnlyProc("agent") /\ "agent" \in Procs
      /\ \A q \in Procs \ {"agent"} : tmpFd'[q] = tmpFd[q]
  BY DEF OnlyProc, AInv, Apart, IInv, TypeOK
<1>2. FilesKept
  BY DEF FilesKept
<1>3. PInv("agent")'
  BY <1>1 DEF AInv, Apart, IInv, TypeOK, PInv, Roles, Temporary, Hashed, Removed, RemoveSteps,
     Removing, Saving, AfterRmScript, AfterRmScriptMeta, AfterRmPending, AfterRmPendingMeta,
     Commands, CommandShape, NoOp
<1>4. NeverPartial' /\ InStep'
  BY DEF AInv, Apart, IInv, TypeOK, NeverPartial, InStep, BeforeSave
<1> QED
  BY <1>1, <1>2, <1>3, <1>4, OthersKept DEF Apart

(* POST /scripts/{name}/stage, from fresh memory or not.                   *)
LEMMA StageApart ==
    ASSUME AInv, IInv', Alone', NEW n \in Names, NEW pkg \in Packages, Stage(n, pkg[1], pkg[2])
    PROVE  Apart'
<1> USE DEF Stage, Op, storeVars, diskVars, fileVars, procVars, ownerVars, history
<1>1. /\ OnlyProc("agent") /\ "agent" \in Procs
      /\ \A q \in Procs \ {"agent"} : tmpFd'[q] = tmpFd[q]
  BY DEF OnlyProc, AInv, Apart, IInv, TypeOK
<1>2. \A q \in Procs \ {"agent"} : ~Busy(q)
  BY <1>1, OthersQuiet DEF Busy, AInv, Apart, IInv, TypeOK
<1>3. PInv("agent")'
  BY <1>1 DEF AInv, Apart, IInv, TypeOK, PInv, Roles, Temporary, Hashed, Removed, RemoveSteps,
     Removing, Saving, AfterRmScript, AfterRmScriptMeta, AfterRmPending, AfterRmPendingMeta,
     Commands, CommandShape, NoOp
<1>4. NeverPartial' /\ InStep'
  BY DEF AInv, Apart, IInv, TypeOK, NeverPartial, InStep, BeforeSave
<1> QED
  BY <1>1, <1>2, <1>3, <1>4, OthersKept DEF Apart

(* The pending file is written.                                            *)
LEMMA WritePendingApart ==
    ASSUME AInv, IInv', Alone', WritePending
    PROVE  Apart'
<1> USE DEF WritePending, Goto, AfterStagedFiles, storeVars, diskVars, fileVars, procVars,
   ownerVars, history
<1>1. /\ OnlyProc("agent") /\ "agent" \in Procs
      /\ \A q \in Procs \ {"agent"} : tmpFd'[q] = tmpFd[q]
  BY DEF OnlyProc, AInv, Apart, IInv, TypeOK
<1>2. \A q \in Procs \ {"agent"} : ~Busy(q)
  BY <1>1, OthersQuiet DEF Busy, AInv, Apart, IInv, TypeOK
<1>3. PInv("agent")'
  BY <1>1 DEF AInv, Apart, IInv, TypeOK, PInv, Roles, Temporary, Hashed, Removed, RemoveSteps,
     Removing, Saving, AfterRmScript, AfterRmScriptMeta, AfterRmPending, AfterRmPendingMeta,
     Commands, CommandShape, NoOp
<1>4. NeverPartial' /\ InStep'
  BY DEF AInv, Apart, IInv, TypeOK, NeverPartial, InStep, BeforeSave
<1> QED
  BY <1>1, <1>2, <1>3, <1>4, OthersKept DEF Apart

(* The pending metadata is written.                                        *)
LEMMA WriteMetaApart ==
    ASSUME AInv, IInv', Alone', WriteMeta
    PROVE  Apart'
<1> USE DEF WriteMeta, Goto, AfterStagedFiles, storeVars, diskVars, fileVars, procVars,
   ownerVars, history
<1>1. /\ OnlyProc("agent") /\ "agent" \in Procs
      /\ \A q \in Procs \ {"agent"} : tmpFd'[q] = tmpFd[q]
  BY DEF OnlyProc, AInv, Apart, IInv, TypeOK
<1>2. \A q \in Procs \ {"agent"} : ~Busy(q)
  BY <1>1, OthersQuiet DEF Busy, AInv, Apart, IInv, TypeOK
<1>3. PInv("agent")'
  BY <1>1 DEF AInv, Apart, IInv, TypeOK, PInv, Roles, Temporary, Hashed, Removed, RemoveSteps,
     Removing, Saving, AfterRmScript, AfterRmScriptMeta, AfterRmPending, AfterRmPendingMeta,
     Commands, CommandShape, NoOp
<1>4. NeverPartial' /\ InStep'
  BY DEF AInv, Apart, IInv, TypeOK, NeverPartial, InStep, BeforeSave
<1> QED
  BY <1>1, <1>2, <1>3, <1>4, OthersKept DEF Apart

(* The end of a save of the agent.                                         *)
LEMMA StatSigApart ==
    ASSUME AInv, IInv', Alone', StatSig
    PROVE  Apart'
<1> USE DEF StatSig, Finish, storeVars, diskVars, fileVars, procVars, ownerVars, history
<1>1. /\ OnlyProc("agent") /\ "agent" \in Procs
      /\ \A q \in Procs \ {"agent"} : tmpFd'[q] = tmpFd[q]
  BY DEF OnlyProc, AInv, Apart, IInv, TypeOK
<1>2. \A q \in Procs \ {"agent"} : ~Busy(q)
  BY <1>1, OthersQuiet DEF Busy, AInv, Apart, IInv, TypeOK
<1>3. PInv("agent")'
  BY <1>1 DEF AInv, Apart, IInv, TypeOK, PInv, Roles, Temporary, Hashed, Removed, RemoveSteps,
     Removing, Saving, AfterRmScript, AfterRmScriptMeta, AfterRmPending, AfterRmPendingMeta,
     Commands, CommandShape, NoOp
<1>4. NeverPartial' /\ InStep'
  BY DEF AInv, Apart, IInv, TypeOK, NeverPartial, InStep, BeforeSave
<1> QED
  BY <1>1, <1>2, <1>3, <1>4, OthersKept DEF Apart

(* The checks of POST /jobs hash the file.                                 *)
LEMMA LaunchApart ==
    ASSUME AInv, IInv', Alone', NEW n \in Names, Launch(n)
    PROVE  Apart'
<1> USE DEF Launch, SyncFromDisk, Synced, Load, Op, IntegrityOK, storeVars, diskVars,
   fileVars, procVars, ownerVars, history
<1>1. /\ OnlyProc("agent") /\ "agent" \in Procs
      /\ \A q \in Procs \ {"agent"} : tmpFd'[q] = tmpFd[q]
  BY DEF OnlyProc, AInv, Apart, IInv, TypeOK
<1>2. \A q \in Procs \ {"agent"} : ~Busy(q)
  BY <1>1, OthersQuiet DEF Busy, AInv, Apart, IInv, TypeOK
<1>a. scriptFile[n] = Synced[n].approved_md5
  <2>1. Good(Synced, granted)
    BY InvGood DEF AInv
  <2> QED
    BY <2>1 DEF Good, GoodStore, GoodRecord
<1>3. PInv("agent")'
  BY <1>a, <1>1 DEF AInv, Apart, IInv, TypeOK, PInv, Roles, Temporary, Hashed, Removed,
     RemoveSteps, Removing, Saving, AfterRmScript, AfterRmScriptMeta, AfterRmPending,
     AfterRmPendingMeta, Commands, CommandShape, NoOp
<1>4. NeverPartial' /\ InStep'
  BY DEF AInv, Apart, IInv, TypeOK, NeverPartial, InStep, BeforeSave
<1> QED
  BY <1>1, <1>2, <1>3, <1>4, OthersKept DEF Apart

(* The execution after the checks.                                         *)
LEMMA ExecuteApart ==
    ASSUME AInv, IInv', Alone', Execute
    PROVE  Apart'
<1> USE DEF Execute, Finish, storeVars, diskVars, fileVars, procVars, ownerVars, history
<1>1. /\ OnlyProc("agent") /\ "agent" \in Procs
      /\ \A q \in Procs \ {"agent"} : tmpFd'[q] = tmpFd[q]
  BY DEF OnlyProc, AInv, Apart, IInv, TypeOK
<1>2. \A q \in Procs \ {"agent"} : ~Busy(q)
  BY <1>1, OthersQuiet DEF Busy, AInv, Apart, IInv, TypeOK
<1>3. PInv("agent")'
  BY <1>1 DEF AInv, Apart, IInv, TypeOK, PInv, Roles, Temporary, Hashed, Removed, RemoveSteps,
     Removing, Saving, AfterRmScript, AfterRmScriptMeta, AfterRmPending, AfterRmPendingMeta,
     Commands, CommandShape, NoOp
<1>4. NeverPartial' /\ InStep'
  BY DEF AInv, Apart, IInv, TypeOK, NeverPartial, InStep, BeforeSave
<1> QED
  BY <1>1, <1>2, <1>3, <1>4, OthersKept DEF Apart

(* An I/O error of the agent.                                              *)
LEMMA AgentErrorApart ==
    ASSUME AInv, IInv', Alone', AgentError
    PROVE  Apart'
<1> USE DEF AgentError, Finish, CloseFiles, storeVars, diskVars, fileVars, procVars,
   ownerVars, history
<1>1. /\ OnlyProc("agent") /\ "agent" \in Procs
      /\ \A q \in Procs \ {"agent"} : tmpFd'[q] = tmpFd[q]
  BY DEF OnlyProc, AInv, Apart, IInv, TypeOK
<1>2. \A q \in Procs \ {"agent"} : ~Busy(q)
  BY <1>1, OthersQuiet DEF Busy, AInv, Apart, IInv, TypeOK
<1>3. PInv("agent")'
  BY <1>1 DEF AInv, Apart, IInv, TypeOK, PInv, Roles, Temporary, Hashed, Removed, RemoveSteps,
     Removing, Saving, AfterRmScript, AfterRmScriptMeta, AfterRmPending, AfterRmPendingMeta,
     Commands, CommandShape, NoOp
<1>4. NeverPartial' /\ InStep'
  BY DEF AInv, Apart, IInv, TypeOK, NeverPartial, InStep, BeforeSave
<1> QED
  BY <1>1, <1>2, <1>3, <1>4, OthersKept DEF Apart

-----------------------------------------------------------------------------
(* Moving files and saving, by either side.                                *)

(* The staged script moves to scripts/.                                    *)
LEMMA PromoteScriptApart ==
    ASSUME AInv, IInv', Alone', NEW p \in Procs, PromoteScript(p)
    PROVE  Apart'
<1> USE DEF PromoteScript, Goto, storeVars, diskVars, fileVars, procVars, ownerVars, history
<1>1. /\ OnlyProc(p) /\ p \in Procs
      /\ \A q \in Procs \ {p} : tmpFd'[q] = tmpFd[q]
  BY DEF OnlyProc, AInv, Apart, IInv, TypeOK
<1>2. \A q \in Procs \ {p} : ~Busy(q)
  BY <1>1, OthersQuiet DEF Busy, AInv, Apart, IInv, TypeOK
<1>3. PInv(p)'
  BY <1>1 DEF AInv, Apart, IInv, TypeOK, PInv, Roles, Temporary, Hashed, Removed, RemoveSteps,
     Removing, Saving, AfterRmScript, AfterRmScriptMeta, AfterRmPending, AfterRmPendingMeta,
     Commands, CommandShape, NoOp
<1>4. NeverPartial' /\ InStep'
  <2>1. CASE p = "agent"
    BY <2>1 DEF AInv, Apart, IInv, TypeOK, NeverPartial, InStep, BeforeSave
  <2>2. CASE p # "agent"
    BY <1>1, <1>2, <2>2, AgentInStep DEF AInv, Apart, NeverPartial
  <2> QED
    BY <2>1, <2>2
<1> QED
  BY <1>1, <1>2, <1>3, <1>4, OthersKept DEF Apart

(* Nothing to move: the command ends.                                      *)
LEMMA PromoteMissingApart ==
    ASSUME AInv, IInv', Alone', NEW p \in Procs, PromoteMissing(p)
    PROVE  Apart'
<1> USE DEF PromoteMissing, Finish, storeVars, diskVars, fileVars, procVars, ownerVars,
   history
<1>1. /\ OnlyProc(p) /\ p \in Procs
      /\ \A q \in Procs \ {p} : tmpFd'[q] = tmpFd[q]
  BY DEF OnlyProc, AInv, Apart, IInv, TypeOK
<1>2. \A q \in Procs \ {p} : ~Busy(q)
  BY <1>1, OthersQuiet DEF Busy, AInv, Apart, IInv, TypeOK
<1>3. PInv(p)'
  BY <1>1 DEF AInv, Apart, IInv, TypeOK, PInv, Roles, Temporary, Hashed, Removed, RemoveSteps,
     Removing, Saving, AfterRmScript, AfterRmScriptMeta, AfterRmPending, AfterRmPendingMeta,
     Commands, CommandShape, NoOp
<1>4. NeverPartial' /\ InStep'
  <2>1. CASE p = "agent"
    BY <2>1 DEF AInv, Apart, IInv, TypeOK, NeverPartial, InStep, BeforeSave
  <2>2. CASE p # "agent"
    BY <1>1, <1>2, <2>2, AgentInStep DEF AInv, Apart, NeverPartial
  <2> QED
    BY <2>1, <2>2
<1> QED
  BY <1>1, <1>2, <1>3, <1>4, OthersKept DEF Apart

(* The staged metadata moves with it.                                      *)
LEMMA PromoteMetaApart ==
    ASSUME AInv, IInv', Alone', NEW p \in Procs, PromoteMeta(p)
    PROVE  Apart'
<1> USE DEF PromoteMeta, Goto, storeVars, diskVars, fileVars, procVars, ownerVars, history
<1>1. /\ OnlyProc(p) /\ p \in Procs
      /\ \A q \in Procs \ {p} : tmpFd'[q] = tmpFd[q]
  BY DEF OnlyProc, AInv, Apart, IInv, TypeOK
<1>2. \A q \in Procs \ {p} : ~Busy(q)
  BY <1>1, OthersQuiet DEF Busy, AInv, Apart, IInv, TypeOK
<1>3. PInv(p)'
  BY <1>1 DEF AInv, Apart, IInv, TypeOK, PInv, Roles, Temporary, Hashed, Removed, RemoveSteps,
     Removing, Saving, AfterRmScript, AfterRmScriptMeta, AfterRmPending, AfterRmPendingMeta,
     Commands, CommandShape, NoOp
<1>4. NeverPartial' /\ InStep'
  <2>1. CASE p = "agent"
    BY <2>1 DEF AInv, Apart, IInv, TypeOK, NeverPartial, InStep, BeforeSave
  <2>2. CASE p # "agent"
    BY <1>1, <1>2, <2>2, AgentInStep DEF AInv, Apart, NeverPartial
  <2> QED
    BY <2>1, <2>2
<1> QED
  BY <1>1, <1>2, <1>3, <1>4, OthersKept DEF Apart

(* approvals.tmp is truncated, the new record is in memory.                *)
LEMMA OpenTmpApart ==
    ASSUME AInv, IInv', Alone', NEW p \in Procs, OpenTmp(p)
    PROVE  Apart'
<1> USE DEF OpenTmp, Goto, storeVars, diskVars, fileVars, procVars, ownerVars,
   history
<1>1. /\ OnlyProc(p) /\ p \in Procs
      /\ \A q \in Procs \ {p} : tmpFd'[q] = tmpFd[q]
  BY DEF OnlyProc, AInv, Apart, IInv, TypeOK
<1>2. \A q \in Procs \ {p} : ~Busy(q)
  BY <1>1, OthersQuiet DEF Busy, AInv, Apart, IInv, TypeOK
<1>a. op[p].kind \in Removing /\ op[p].kind # "reject" => mem'[p][op[p].name] = AbsentRec
  BY SMTT(30) DEF AInv, IInv, TypeOK, Commands, CommandShape, NamedSteps, Steps, NewRecord, Removing, Store
<1>3. PInv(p)'
  BY <1>a, <1>1 DEF AInv, Apart, IInv, TypeOK, PInv, Roles, Temporary, Hashed, Removed, RemoveSteps,
     Removing, Saving, AfterRmScript, AfterRmScriptMeta, AfterRmPending, AfterRmPendingMeta,
     Commands, CommandShape, NoOp
<1>4. NeverPartial' /\ InStep'
  <2>1. CASE p = "agent"
    BY <2>1 DEF AInv, Apart, IInv, TypeOK, NeverPartial, InStep, BeforeSave
  <2>2. CASE p # "agent"
    BY <1>1, <1>2, <2>2, AgentInStep DEF AInv, Apart, NeverPartial
  <2> QED
    BY <2>1, <2>2
<1> QED
  BY <1>1, <1>2, <1>3, <1>4, OthersKept DEF Apart

(* approvals.tmp is written.                                               *)
LEMMA WriteTmpApart ==
    ASSUME AInv, IInv', Alone', NEW p \in Procs, WriteTmp(p)
    PROVE  Apart'
<1> USE DEF WriteTmp, Overwrite, Goto, storeVars, diskVars, fileVars, procVars, ownerVars,
   history
<1>a. /\ tmpFd[p] = "tmp" /\ tmp = Partial
      /\ json' = json /\ tmp' = mem[p] /\ fresh' = fresh
  BY DEF AInv, Apart, PInv, Temporary
<1>1. /\ OnlyProc(p) /\ p \in Procs
      /\ \A q \in Procs \ {p} : tmpFd'[q] = tmpFd[q]
  BY DEF OnlyProc, AInv, Apart, IInv, TypeOK
<1>2. \A q \in Procs \ {p} : ~Busy(q)
  BY <1>1, OthersQuiet DEF Busy, AInv, Apart, IInv, TypeOK
<1>3. PInv(p)'
  BY <1>1 DEF AInv, Apart, IInv, TypeOK, PInv, Roles, Temporary, Hashed, Removed, RemoveSteps,
     Removing, Saving, AfterRmScript, AfterRmScriptMeta, AfterRmPending, AfterRmPendingMeta,
     Commands, CommandShape, NoOp
<1>4. NeverPartial' /\ InStep'
  <2>1. CASE p = "agent"
    BY <1>a, <2>1 DEF AInv, Apart, IInv, TypeOK, NeverPartial, InStep, BeforeSave
  <2>2. CASE p # "agent"
    BY <1>a, <1>1, <1>2, <2>2, AgentInStep DEF AInv, Apart, NeverPartial
  <2> QED
    BY <2>1, <2>2
<1> QED
  BY <1>1, <1>2, <1>3, <1>4, OthersKept DEF Apart

(* approvals.tmp becomes approvals.json.                                   *)
LEMMA ReplaceJsonApart ==
    ASSUME AInv, IInv', Alone', NEW p \in Procs, ReplaceJson(p)
    PROVE  Apart'
<1> USE DEF ReplaceJson, FdAfterReplace, AfterSave, Continue, Goto, Finish, storeVars,
   diskVars, fileVars, procVars, ownerVars, history
<1>a. /\ json' = mem[p] /\ mem[p] \in Store /\ ~fresh'
      /\ \A q \in Procs : tmpFd[q] = "closed"
  BY DEF AInv, Apart, PInv, Temporary, IInv, TypeOK, Alone, Busy
<1>1. /\ OnlyProc(p) /\ p \in Procs
      /\ \A q \in Procs \ {p} : tmpFd'[q] = tmpFd[q]
  <2>1. OnlyProc(p) /\ p \in Procs
    BY DEF OnlyProc, AInv, IInv, TypeOK
  <2> QED
    BY <1>a, <2>1
<1>2. \A q \in Procs \ {p} : ~Busy(q)
  BY <1>1, OthersQuiet DEF Busy, AInv, Apart, IInv, TypeOK
<1>3. PInv(p)'
  BY <1>1 DEF AInv, Apart, IInv, TypeOK, PInv, Roles, Temporary, Hashed, Removed, RemoveSteps,
     Removing, Saving, AfterRmScript, AfterRmScriptMeta, AfterRmPending, AfterRmPendingMeta,
     Commands, CommandShape, NoOp
<1>4. NeverPartial' /\ InStep'
  <2>1. CASE p = "agent"
    BY <1>a, <2>1, StoreAssumption DEF AInv, Apart, IInv, TypeOK, NeverPartial, InStep, BeforeSave
  <2>2. CASE p # "agent"
    BY <1>a, <1>1, <1>2, <2>2, StoreAssumption, AgentInStep DEF AInv, Apart, NeverPartial
  <2> QED
    BY <2>1, <2>2
<1> QED
  BY <1>1, <1>2, <1>3, <1>4, OthersKept DEF Apart

(* No other process renames approvals.tmp away.                            *)
LEMMA ReplaceMissingApart ==
    ASSUME AInv, NEW p \in Procs, ReplaceMissing(p)
    PROVE  FALSE
<1>1. tmp = mem[p] /\ mem[p] \in Store
  BY DEF ReplaceMissing, AInv, Apart, PInv, Temporary, IInv, TypeOK
<1> QED
  BY <1>1, StoreAssumption DEF ReplaceMissing

(* A process ends in the middle of something, or the idle agent does.      *)
LEMMA ProcessEndsApart ==
    ASSUME AInv, IInv', Alone', NEW p \in Procs, ProcessEnds(p)
    PROVE  Apart'
<1> USE DEF ProcessEnds, CloseFiles, storeVars, diskVars, fileVars, procVars, ownerVars,
   history
<1>1. /\ OnlyProc(p) /\ p \in Procs
      /\ \A q \in Procs \ {p} : tmpFd'[q] = tmpFd[q]
  BY DEF OnlyProc, AInv, Apart, IInv, TypeOK
<1>2. FilesKept
  BY DEF FilesKept
<1>3. PInv(p)'
  BY <1>1 DEF AInv, Apart, IInv, TypeOK, PInv, Roles, Temporary, Hashed, Removed, RemoveSteps,
     Removing, Saving, AfterRmScript, AfterRmScriptMeta, AfterRmPending, AfterRmPendingMeta,
     Commands, CommandShape, NoOp
<1>4. NeverPartial' /\ InStep'
  <2>1. CASE p = "agent"
    BY <2>1 DEF AInv, Apart, IInv, TypeOK, NeverPartial, InStep, BeforeSave
  <2>2. CASE p # "agent"
    BY <1>1, <2>2, OthersQuiet, AgentInStep DEF AInv, Apart, PInv, Roles, Busy, NeverPartial
  <2> QED
    BY <2>1, <2>2
<1> QED
  BY <1>1, <1>2, <1>3, <1>4, OthersKept DEF Apart

-----------------------------------------------------------------------------
(* The owner's commands.                                                   *)

(* approve.                                                                *)
LEMMA CliApproveApart ==
    ASSUME AInv, IInv', Alone', NEW p \in Clis, CliApprove(p)
    PROVE  Apart'
<1> USE DEF CliApprove, Finish, Continue, Goto, storeVars, diskVars, fileVars, procVars,
   ownerVars, history
<1>1. /\ OnlyProc(p) /\ p \in Procs
      /\ \A q \in Procs \ {p} : tmpFd'[q] = tmpFd[q]
  BY DEF OnlyProc, AInv, Apart, IInv, TypeOK
<1>2. \A q \in Procs \ {p} : ~Busy(q)
  BY <1>1, OthersQuiet DEF Busy, AInv, Apart, IInv, TypeOK
<1>3. PInv(p)'
  BY ClisAssumption, <1>1 DEF AInv, Apart, IInv, TypeOK, PInv, Roles, Temporary, Hashed,
     Removed, RemoveSteps, Removing, Saving, AfterRmScript, AfterRmScriptMeta, AfterRmPending,
     AfterRmPendingMeta, Commands, CommandShape, NoOp
<1>4. NeverPartial' /\ InStep'
  BY <1>1, <1>2, AgentInStep, ClisAssumption DEF AInv, Apart, NeverPartial
<1> QED
  BY <1>1, <1>2, <1>3, <1>4, OthersKept DEF Apart

(* reject starts removing files.                                           *)
LEMMA CliRejectApart ==
    ASSUME AInv, IInv', Alone', NEW p \in Clis, CliReject(p)
    PROVE  Apart'
<1> USE DEF CliReject, Finish, Continue, Goto, storeVars, diskVars, fileVars, procVars,
   ownerVars, history
<1>1. /\ OnlyProc(p) /\ p \in Procs
      /\ \A q \in Procs \ {p} : tmpFd'[q] = tmpFd[q]
  BY DEF OnlyProc, AInv, Apart, IInv, TypeOK
<1>2. \A q \in Procs \ {p} : ~Busy(q)
  BY <1>1, OthersQuiet DEF Busy, AInv, Apart, IInv, TypeOK
<1>3. PInv(p)'
  BY ClisAssumption, <1>1 DEF AInv, Apart, IInv, TypeOK, PInv, Roles, Temporary, Hashed,
     Removed, RemoveSteps, Removing, Saving, AfterRmScript, AfterRmScriptMeta, AfterRmPending,
     AfterRmPendingMeta, Commands, CommandShape, NoOp
<1>4. NeverPartial' /\ InStep'
  BY <1>1, <1>2, AgentInStep, ClisAssumption DEF AInv, Apart, NeverPartial
<1> QED
  BY <1>1, <1>2, <1>3, <1>4, OthersKept DEF Apart

(* clear starts removing files.                                            *)
LEMMA CliClearApart ==
    ASSUME AInv, IInv', Alone', NEW p \in Clis, CliClear(p)
    PROVE  Apart'
<1> USE DEF CliClear, Finish, Continue, Goto, storeVars, diskVars, fileVars, procVars,
   ownerVars, history
<1>1. /\ OnlyProc(p) /\ p \in Procs
      /\ \A q \in Procs \ {p} : tmpFd'[q] = tmpFd[q]
  BY DEF OnlyProc, AInv, Apart, IInv, TypeOK
<1>2. \A q \in Procs \ {p} : ~Busy(q)
  BY <1>1, OthersQuiet DEF Busy, AInv, Apart, IInv, TypeOK
<1>3. PInv(p)'
  BY ClisAssumption, <1>1 DEF AInv, Apart, IInv, TypeOK, PInv, Roles, Temporary, Hashed,
     Removed, RemoveSteps, Removing, Saving, AfterRmScript, AfterRmScriptMeta, AfterRmPending,
     AfterRmPendingMeta, Commands, CommandShape, NoOp
<1>4. NeverPartial' /\ InStep'
  BY <1>1, <1>2, AgentInStep, ClisAssumption DEF AInv, Apart, NeverPartial
<1> QED
  BY <1>1, <1>2, <1>3, <1>4, OthersKept DEF Apart

(* purge lists the records.                                                *)
LEMMA CliPurgeApart ==
    ASSUME AInv, IInv', Alone', NEW p \in Clis, CliPurge(p)
    PROVE  Apart'
<1> USE DEF CliPurge, storeVars, diskVars, fileVars, procVars, ownerVars, history
<1>1. /\ OnlyProc(p) /\ p \in Procs
      /\ \A q \in Procs \ {p} : tmpFd'[q] = tmpFd[q]
  BY DEF OnlyProc, AInv, Apart, IInv, TypeOK
<1>2. \A q \in Procs \ {p} : ~Busy(q)
  BY <1>1, OthersQuiet DEF Busy, AInv, Apart, IInv, TypeOK
<1>3. PInv(p)'
  BY ClisAssumption, <1>1 DEF AInv, Apart, IInv, TypeOK, PInv, Roles, Temporary, Hashed,
     Removed, RemoveSteps, Removing, Saving, AfterRmScript, AfterRmScriptMeta, AfterRmPending,
     AfterRmPendingMeta, Commands, CommandShape, NoOp
<1>4. NeverPartial' /\ InStep'
  BY <1>1, <1>2, AgentInStep, ClisAssumption DEF AInv, Apart, NeverPartial
<1> QED
  BY <1>1, <1>2, <1>3, <1>4, OthersKept DEF Apart

(* purge takes the next record.                                            *)
LEMMA PurgeNextApart ==
    ASSUME AInv, IInv', Alone', NEW p \in Clis, PurgeNext(p)
    PROVE  Apart'
<1> USE DEF PurgeNext, storeVars, diskVars, fileVars, procVars, ownerVars, history
<1>1. /\ OnlyProc(p) /\ p \in Procs
      /\ \A q \in Procs \ {p} : tmpFd'[q] = tmpFd[q]
  BY DEF OnlyProc, AInv, Apart, IInv, TypeOK
<1>2. \A q \in Procs \ {p} : ~Busy(q)
  BY <1>1, OthersQuiet DEF Busy, AInv, Apart, IInv, TypeOK
<1>3. PInv(p)'
  BY SMTT(30), ClisAssumption, <1>1 DEF AInv, Apart, IInv, TypeOK, PInv, Roles, Temporary, Hashed,
     Removed, RemoveSteps, Removing, Saving, AfterRmScript, AfterRmScriptMeta, AfterRmPending,
     AfterRmPendingMeta, Commands, CommandShape, NoOp
<1>4. NeverPartial' /\ InStep'
  BY <1>1, <1>2, AgentInStep, ClisAssumption DEF AInv, Apart, NeverPartial
<1> QED
  BY <1>1, <1>2, <1>3, <1>4, OthersKept DEF Apart

(* purge has seen every record.                                            *)
LEMMA PurgeDoneApart ==
    ASSUME AInv, IInv', Alone', NEW p \in Clis, PurgeDone(p)
    PROVE  Apart'
<1> USE DEF PurgeDone, Finish, storeVars, diskVars, fileVars, procVars, ownerVars, history
<1>1. /\ OnlyProc(p) /\ p \in Procs
      /\ \A q \in Procs \ {p} : tmpFd'[q] = tmpFd[q]
  BY DEF OnlyProc, AInv, Apart, IInv, TypeOK
<1>2. \A q \in Procs \ {p} : ~Busy(q)
  BY <1>1, OthersQuiet DEF Busy, AInv, Apart, IInv, TypeOK
<1>3. PInv(p)'
  BY ClisAssumption, <1>1 DEF AInv, Apart, IInv, TypeOK, PInv, Roles, Temporary, Hashed,
     Removed, RemoveSteps, Removing, Saving, AfterRmScript, AfterRmScriptMeta, AfterRmPending,
     AfterRmPendingMeta, Commands, CommandShape, NoOp
<1>4. NeverPartial' /\ InStep'
  BY <1>1, <1>2, AgentInStep, ClisAssumption DEF AInv, Apart, NeverPartial
<1> QED
  BY <1>1, <1>2, <1>3, <1>4, OthersKept DEF Apart

(* A script is removed from scripts/.                                      *)
LEMMA RemoveScriptApart ==
    ASSUME AInv, IInv', Alone', NEW p \in Clis, RemoveScript(p)
    PROVE  Apart'
<1> USE DEF RemoveScript, Goto, storeVars, diskVars, fileVars, procVars, ownerVars, history
<1>1. /\ OnlyProc(p) /\ p \in Procs
      /\ \A q \in Procs \ {p} : tmpFd'[q] = tmpFd[q]
  BY DEF OnlyProc, AInv, Apart, IInv, TypeOK
<1>2. \A q \in Procs \ {p} : ~Busy(q)
  BY <1>1, OthersQuiet DEF Busy, AInv, Apart, IInv, TypeOK
<1>3. PInv(p)'
  BY ClisAssumption, <1>1 DEF AInv, Apart, IInv, TypeOK, PInv, Roles, Temporary, Hashed,
     Removed, RemoveSteps, Removing, Saving, AfterRmScript, AfterRmScriptMeta, AfterRmPending,
     AfterRmPendingMeta, Commands, CommandShape, NoOp
<1>4. NeverPartial' /\ InStep'
  BY <1>1, <1>2, AgentInStep, ClisAssumption DEF AInv, Apart, NeverPartial
<1> QED
  BY <1>1, <1>2, <1>3, <1>4, OthersKept DEF Apart

(* Its metadata is removed.                                                *)
LEMMA RemoveScriptMetaApart ==
    ASSUME AInv, IInv', Alone', NEW p \in Clis, RemoveScriptMeta(p)
    PROVE  Apart'
<1> USE DEF RemoveScriptMeta, Goto, storeVars, diskVars, fileVars, procVars, ownerVars,
   history
<1>1. /\ OnlyProc(p) /\ p \in Procs
      /\ \A q \in Procs \ {p} : tmpFd'[q] = tmpFd[q]
  BY DEF OnlyProc, AInv, Apart, IInv, TypeOK
<1>2. \A q \in Procs \ {p} : ~Busy(q)
  BY <1>1, OthersQuiet DEF Busy, AInv, Apart, IInv, TypeOK
<1>3. PInv(p)'
  BY ClisAssumption, <1>1 DEF AInv, Apart, IInv, TypeOK, PInv, Roles, Temporary, Hashed,
     Removed, RemoveSteps, Removing, Saving, AfterRmScript, AfterRmScriptMeta, AfterRmPending,
     AfterRmPendingMeta, Commands, CommandShape, NoOp
<1>4. NeverPartial' /\ InStep'
  BY <1>1, <1>2, AgentInStep, ClisAssumption DEF AInv, Apart, NeverPartial
<1> QED
  BY <1>1, <1>2, <1>3, <1>4, OthersKept DEF Apart

(* A script is removed from scripts.pending/.                              *)
LEMMA RemovePendingApart ==
    ASSUME AInv, IInv', Alone', NEW p \in Clis, RemovePending(p)
    PROVE  Apart'
<1> USE DEF RemovePending, Goto, storeVars, diskVars, fileVars, procVars, ownerVars, history
<1>1. /\ OnlyProc(p) /\ p \in Procs
      /\ \A q \in Procs \ {p} : tmpFd'[q] = tmpFd[q]
  BY DEF OnlyProc, AInv, Apart, IInv, TypeOK
<1>2. \A q \in Procs \ {p} : ~Busy(q)
  BY <1>1, OthersQuiet DEF Busy, AInv, Apart, IInv, TypeOK
<1>3. PInv(p)'
  BY ClisAssumption, <1>1 DEF AInv, Apart, IInv, TypeOK, PInv, Roles, Temporary, Hashed,
     Removed, RemoveSteps, Removing, Saving, AfterRmScript, AfterRmScriptMeta, AfterRmPending,
     AfterRmPendingMeta, Commands, CommandShape, NoOp
<1>4. NeverPartial' /\ InStep'
  BY <1>1, <1>2, AgentInStep, ClisAssumption DEF AInv, Apart, NeverPartial
<1> QED
  BY <1>1, <1>2, <1>3, <1>4, OthersKept DEF Apart

(* Its metadata is removed.                                                *)
LEMMA RemovePendingMetaApart ==
    ASSUME AInv, IInv', Alone', NEW p \in Clis, RemovePendingMeta(p)
    PROVE  Apart'
<1> USE DEF RemovePendingMeta, Goto, storeVars, diskVars, fileVars, procVars, ownerVars,
   history
<1>1. /\ OnlyProc(p) /\ p \in Procs
      /\ \A q \in Procs \ {p} : tmpFd'[q] = tmpFd[q]
  BY DEF OnlyProc, AInv, Apart, IInv, TypeOK
<1>2. \A q \in Procs \ {p} : ~Busy(q)
  BY <1>1, OthersQuiet DEF Busy, AInv, Apart, IInv, TypeOK
<1>3. PInv(p)'
  BY ClisAssumption, <1>1 DEF AInv, Apart, IInv, TypeOK, PInv, Roles, Temporary, Hashed,
     Removed, RemoveSteps, Removing, Saving, AfterRmScript, AfterRmScriptMeta, AfterRmPending,
     AfterRmPendingMeta, Commands, CommandShape, NoOp
<1>4. NeverPartial' /\ InStep'
  BY <1>1, <1>2, AgentInStep, ClisAssumption DEF AInv, Apart, NeverPartial
<1> QED
  BY <1>1, <1>2, <1>3, <1>4, OthersKept DEF Apart

(* A run of csl-agent loads the store.                                     *)
LEMMA CliStartApart ==
    ASSUME AInv, IInv', Alone', NEW p \in Clis,
           NEW k \in {"approve", "reject", "clear", "purge"}, NEW n, CliStart(p, k, n)
    PROVE  Apart'
<1> USE DEF CliStart, Op, storeVars, diskVars, fileVars, procVars, ownerVars, history
<1>1. /\ OnlyProc(p) /\ p \in Procs
      /\ \A q \in Procs \ {p} : tmpFd'[q] = tmpFd[q]
  BY DEF OnlyProc, AInv, Apart, IInv, TypeOK
<1>2. \A q \in Procs \ {p} : ~Busy(q)
  BY <1>1, OthersQuiet DEF Busy, AInv, Apart, IInv, TypeOK
<1>3. PInv(p)'
  BY ClisAssumption, <1>1 DEF AInv, Apart, IInv, TypeOK, PInv, Roles, Temporary, Hashed,
     Removed, RemoveSteps, Removing, Saving, AfterRmScript, AfterRmScriptMeta, AfterRmPending,
     AfterRmPendingMeta, Commands, CommandShape, NoOp
<1>4. NeverPartial' /\ InStep'
  BY <1>1, <1>2, AgentInStep, ClisAssumption DEF AInv, Apart, NeverPartial
<1> QED
  BY <1>1, <1>2, <1>3, <1>4, OthersKept DEF Apart

(* The owner changes the auto-approve list.                                *)
LEMMA PolicyStepApart ==
    ASSUME AInv, PolicyStep
    PROVE  Apart'
BY DEF PolicyStep, PolicyAutoApprove, PolicyManual, storeVars, diskVars, procVars, fileVars,
   history, AInv, Apart, NeverPartial, InStep, PInv, Roles, Temporary, Hashed, Removed

-----------------------------------------------------------------------------
(* Every step keeps the invariant as long as commands do not overlap.      *)
LEMMA NextAInv == AInv /\ [Next /\ Alone']_vars => AInv'
<1> SUFFICES ASSUME AInv, [Next /\ Alone']_vars PROVE AInv'
  OBVIOUS
<1>1. IInv'
  BY NextIInv DEF AInv
<1>2. ASSUME Next, Alone' PROVE Apart'
  <2>1. CASE AgentStep
    BY <1>1, <1>2, <2>1, AgentLoadApart, AgentSigApart, GetStateApart, StageApart,
       WritePendingApart, WriteMetaApart, StatSigApart, LaunchApart, ExecuteApart DEF AgentStep
  <2>2. ASSUME NEW p \in Procs, SaveStep(p) PROVE Apart'
    BY <1>1, <1>2, <2>2, PromoteScriptApart, PromoteMissingApart, PromoteMetaApart, OpenTmpApart,
       WriteTmpApart, ReplaceJsonApart, ReplaceMissingApart DEF SaveStep
  <2>3. ASSUME NEW p \in Clis, CliStep(p) PROVE Apart'
    <3>1. ASSUME NEW k \in {"approve", "reject", "clear"}, NEW n \in Names, CliStart(p, k, n)
          PROVE  Apart'
      BY <1>1, <1>2, <3>1, CliStartApart
    <3>2. CASE CliStart(p, "purge", NoFile)
      BY <1>1, <1>2, <3>2, CliStartApart
    <3> QED
      BY <1>1, <1>2, <2>3, <3>1, <3>2, CliApproveApart, CliRejectApart, CliClearApart,
         CliPurgeApart, PurgeNextApart, PurgeDoneApart, RemoveScriptApart,
         RemoveScriptMetaApart, RemovePendingApart, RemovePendingMetaApart DEF CliStep
  <2> QED
    BY <1>1, <1>2, <2>1, <2>2, <2>3, PolicyStepApart, AgentErrorApart, ProcessEndsApart DEF Next
<1>3. CASE UNCHANGED vars
  <2>1. Alone'
    BY <1>3 DEF AInv, Alone, Busy, vars
  <2>2. Apart'
    BY ZenonT(40), <1>3 DEF AInv, Apart, NeverPartial, InStep, PInv, Roles, Temporary, Hashed, Removed, vars
  <2> QED
    BY <1>1, <2>1, <2>2 DEF AInv
<1> QED
  BY <1>1, <1>2, <1>3 DEF AInv

(* approvals.json is never partially written: it is only ever replaced by  *)
(* a temporary file that was completely written.                           *)
THEOREM WholeCorrect == AloneSpec => []NeverPartial
<1>1. AInv => NeverPartial
  BY DEF AInv, Apart
<1> QED
  BY <1>1, InitAInv, NextAInv, PTL DEF AloneSpec

(* As long as no I/O of the agent failed, what it answers from memory is   *)
(* what approvals.json says, whatever else ended early.                    *)
THEOREM SyncCorrect == AloneSpec => [](errors = 0 => SyncSeesDisk)
<1>1. AInv => (errors = 0 => SyncSeesDisk)
  BY DEF AInv, Apart, NeverPartial, InStep, SyncSeesDisk, Load
<1> QED
  BY <1>1, InitAInv, NextAInv, PTL DEF AloneSpec

(* Only the rename of a save changes approvals.json.                       *)
LEMMA JsonStep ==
    ASSUME AInv, Next, json' # json
    PROVE  \E p \in Procs : ReplaceJson(p)
<1> USE DEF storeVars, diskVars
<1>1. CASE AgentStep
  BY <1>1 DEF AgentStep, AgentLoad, AgentSig, GetState, Stage, WritePending, WriteMeta, StatSig,
     Launch, Execute
<1>2. ASSUME NEW p \in Procs, SaveStep(p) PROVE ReplaceJson(p)
  <2>1. CASE WriteTmp(p)
    BY <2>1 DEF WriteTmp, AInv, Apart, PInv, Temporary
  <2> QED
    BY <1>2, <2>1 DEF SaveStep, PromoteScript, PromoteMissing, PromoteMeta, OpenTmp, ReplaceMissing
<1>3. ASSUME NEW p \in Clis, CliStep(p) PROVE FALSE
  BY <1>3 DEF CliStep, CliStart, CliApprove, CliReject, CliClear, CliPurge, PurgeNext, PurgeDone,
     RemoveScript, RemoveScriptMeta, RemovePending, RemovePendingMeta
<1> QED
  BY <1>1, <1>2, <1>3 DEF Next, PolicyStep, PolicyAutoApprove, PolicyManual, AgentError, ProcessEnds

(* When a clear is saved, neither a record nor a file of the script is     *)
(* left, whatever failed before.                                           *)
THEOREM ClearCorrect == AloneSpec => ClearResets
<1>1. ASSUME AInv, [Next /\ Alone']_vars, json' # json,
             NEW p \in Clis, pc[p] = "replace", op[p].kind = "clear"
      PROVE  /\ json'[op[p].name] = AbsentRec
             /\ NoFile = scriptFile[op[p].name] /\ NoFile = scriptMeta[op[p].name]
             /\ NoFile = pendingFile[op[p].name] /\ NoFile = pendingMeta[op[p].name]
  <2>1. PICK q \in Procs : ReplaceJson(q)
    BY <1>1, JsonStep DEF vars
  <2>2. q = p
    BY <1>1, <2>1 DEF AInv, Alone, Busy, ReplaceJson
  <2>3. PInv(p)
    BY <1>1 DEF AInv, Apart
  <2>4. json' = mem[p]
    BY <1>1, <2>1, <2>2, <2>3 DEF ReplaceJson, PInv, Temporary
  <2> QED
    BY <1>1, <2>3, <2>4 DEF PInv, Removed, Removing, Saving, AfterRmScript, AfterRmScriptMeta,
       AfterRmPending, AfterRmPendingMeta
<1>2. AInv /\ [Next /\ Alone']_vars =>
        [\A p \in Clis : pc[p] = "replace" /\ op[p].kind = "clear" =>
            LET n == op[p].name IN
            /\ json'[n] = AbsentRec
            /\ NoFile = scriptFile[n] /\ NoFile = scriptMeta[n]
            /\ NoFile = pendingFile[n] /\ NoFile = pendingMeta[n]]_json
  BY <1>1
<1> QED
  BY <1>2, InitAInv, NextAInv, PTL DEF AloneSpec, ClearResets

-----------------------------------------------------------------------------
(* Staging in sync: what a command will save is one change to the disk.    *)

(* A fresh installation satisfies the invariant.                           *)
LEMMA InitSInv == Init => SInv
<1> SUFFICES ASSUME Init PROVE SInv
  OBVIOUS
<1>1. Changes
  BY DEF Init, Changes, OneChange, BeforeSave, Saving, Working
<1>2. FilesInStep
  BY DEF Init, FilesInStep, FilesMatch, Moved, EmptyStore, AbsentRec, Rec, InReview, NoOp, Saving
<1> QED
  BY <1>1, <1>2, InitAInv DEF SInv, Matching

(* The steps of a process that neither has nor starts a change.            *)
LEMMA NoChange ==
    ASSUME NEW p \in Procs, pc'[p] \in {"off", "starting", "idle", "stat", "exec"}
    PROVE  OneChange(p)'
BY DEF OneChange, BeforeSave, Saving, Working

(* A step on the way from the decision to the save.                        *)
LEMMA SameChange ==
    ASSUME NEW p \in Procs, OneChange(p), pc[p] \in BeforeSave, pc'[p] \in BeforeSave,
           op'[p] = op[p], mem'[p] = mem[p], json' = json
    PROVE  OneChange(p)'
BY DEF OneChange, BeforeSave, Saving, Working, Allowed

(* Enough for the changes: that of the process that moved.                 *)
LEMMA ChangesStep ==
    ASSUME AInv, Changes, NEW p \in Procs, OnlyProc(p), errors' = 0 => errors = 0,
           p = "agent" \/ auto' = auto,
           json' = json \/ \A q \in Procs \ {p} : ~Busy(q),
           errors' = 0 => OneChange(p)'
    PROVE  Changes'
<1> SUFFICES ASSUME errors' = 0, errors = 0, NEW q \in Procs, q # p PROVE OneChange(q)'
  BY DEF Changes
<1>1. OneChange(q)
  BY DEF Changes
<1>2. pc'[q] = pc[q] /\ op'[q] = op[q] /\ mem'[q] = mem[q]
  BY DEF OnlyProc
<1>3. CASE ~Busy(q)
  BY <1>2, <1>3, NoChange DEF Busy
<1>4. CASE json' = json
  <2>1. op[q].kind = "stage" => auto' = auto
    BY DEF AInv, IInv, Commands, CommandShape
  <2>2. NewRec(op[q], json[op[q].name])' = NewRec(op[q], json[op[q].name])
    BY <1>2, <1>4, <2>1 DEF NewRec, StagedRecord
  <2> QED
    BY <1>1, <1>2, <1>4, <2>2 DEF OneChange, Allowed
<1> QED
  BY <1>3, <1>4

(* A stage that follows a fresh answer decides on the record on disk.      *)
LEMMA StageChange ==
    ASSUME AInv, errors = 0, fresh, NEW n \in Names, NEW pkg \in Packages,
           Stage(n, pkg[1], pkg[2])
    PROVE  OneChange("agent")'
<1> USE DEF Stage, Op, storeVars, diskVars
<1>1. mem["agent"] = json
  BY DEF AInv, Apart, InStep
<1>2. /\ op'["agent"].kind = "stage" /\ op'["agent"].name = n /\ op'["agent"].md5 = pkg[1]
      /\ pc'["agent"] = "write_pending" /\ mem' = mem /\ json' = json
  BY DEF AInv, IInv, TypeOK
<1> QED
  BY <1>1, <1>2 DEF StageAccepted, OneChange, Allowed, BeforeSave, Saving, Working

(* The new record put in memory is the one change.                         *)
LEMMA OpenTmpChange ==
    ASSUME AInv, NEW p \in Procs, OneChange(p), OpenTmp(p)
    PROVE  OneChange(p)'
<1>1. /\ mem[p] = json /\ Allowed(op[p], json[op[p].name]) /\ op[p].name \in Names
      /\ mem[p] \in Store
  BY DEF OpenTmp, OneChange, BeforeSave, Working, AInv, IInv, TypeOK, Commands, CommandShape,
     NamedSteps, Steps
<1>2. NewRecord(p) = NewRec(op[p], json[op[p].name])
  BY <1>1 DEF NewRecord, NewRec
<1>3. pc'[p] = "write_tmp" /\ op' = op /\ json' = json /\ auto' = auto
  BY DEF OpenTmp, Goto, ownerVars, AInv, IInv, TypeOK
<1>4. mem'[p] = [json EXCEPT ![op[p].name] = NewRec(op[p], json[op[p].name])]
  BY <1>1, <1>2 DEF OpenTmp, AInv, IInv, TypeOK
<1>5. NewRec(op[p], json[op[p].name])' = NewRec(op[p], json[op[p].name])
  BY <1>3 DEF NewRec, StagedRecord
<1> QED
  BY <1>1, <1>3, <1>4, <1>5 DEF OneChange, Allowed, BeforeSave, Saving, Working

(* Writing the temporary file changes nothing else.                        *)
LEMMA WriteTmpChange ==
    ASSUME AInv, NEW p \in Procs, OneChange(p), WriteTmp(p)
    PROVE  OneChange(p)'
<1>1. pc[p] = "write_tmp" /\ pc'[p] = "replace" /\ op' = op /\ mem' = mem /\ auto' = auto
  BY DEF WriteTmp, Goto, ownerVars, AInv, IInv, TypeOK
<1>2. json' = json
  BY DEF WriteTmp, AInv, Apart, PInv, Temporary
<1>3. NewRec(op[p], json[op[p].name])' = NewRec(op[p], json[op[p].name])
  BY <1>1, <1>2 DEF NewRec, StagedRecord
<1> QED
  BY <1>1, <1>2, <1>3 DEF OneChange, Allowed, BeforeSave, Saving, Working

(* After the rename the memory is what is on disk.                         *)
LEMMA ReplaceJsonChange ==
    ASSUME AInv, NEW p \in Procs, ReplaceJson(p)
    PROVE  OneChange(p)'
<1>1. json' = mem[p]
  BY DEF ReplaceJson, AInv, Apart, PInv, Temporary
<1>2. pc'[p] \in {"off", "idle", "stat"} \/ (pc'[p] = "purge" /\ mem' = mem)
  BY DEF ReplaceJson, AfterSave, Continue, Goto, Finish, AInv, IInv, TypeOK
<1> QED
  BY <1>1, <1>2 DEF OneChange, BeforeSave, Saving, Working

(* A run of csl-agent starts from what is on disk.                         *)
LEMMA CliStartChange ==
    ASSUME AInv, NEW p \in Clis, NEW k, NEW n, CliStart(p, k, n)
    PROVE  OneChange(p)'
BY DEF CliStart, Load, AInv, Apart, NeverPartial, IInv, TypeOK, OneChange, BeforeSave, Saving,
   Working

(* approve, reject and clear look at the record first.                     *)
LEMMA CliBeginChange ==
    ASSUME AInv, NEW p \in Clis, OneChange(p), CliApprove(p) \/ CliReject(p) \/ CliClear(p)
    PROVE  OneChange(p)'
<1>1. mem[p] = json
  BY DEF CliApprove, CliReject, CliClear, OneChange
<1>2. json' = json
  BY DEF CliApprove, CliReject, CliClear, diskVars
<1>3. \/ pc'[p] = "off"
      \/ /\ pc'[p] \in {"promote", "rm_script"} /\ op' = op /\ mem' = mem
         /\ Allowed(op[p], json[op[p].name])
  BY <1>1, ClisAssumption DEF CliApprove, CliReject, CliClear, Finish, Continue, Goto, Allowed,
     AInv, IInv, TypeOK
<1> QED
  BY <1>1, <1>2, <1>3 DEF OneChange, Allowed, BeforeSave, Saving, Working

(* purge works on what is on disk, and clears only records it found.       *)
LEMMA PurgeChange ==
    ASSUME AInv, NEW p \in Clis, OneChange(p), CliPurge(p) \/ PurgeNext(p)
    PROVE  OneChange(p)'
<1>1. mem[p] = json /\ Load = json
  BY DEF CliPurge, PurgeNext, OneChange, Load, AInv, Apart, NeverPartial
<1>2. CASE CliPurge(p)
  BY <1>1, <1>2 DEF CliPurge, diskVars, AInv, IInv, TypeOK, OneChange, BeforeSave, Saving, Working
<1>3. CASE PurgeNext(p)
  <2>1. PICK n \in op[p].todo :
          /\ op' = [op EXCEPT ![p].name = n, ![p].todo = @ \ {n}]
          /\ pc' = [pc EXCEPT ![p] = IF Orphaned(n, mem[p][n]) THEN "rm_script" ELSE "purge"]
    BY <1>3 DEF PurgeNext
  <2>2. op[p] \in Command /\ op[p].kind = "purge"
    BY <1>3 DEF PurgeNext, AInv, IInv, TypeOK, Commands, CommandShape
  <2>3. op'[p].kind = "purge" /\ op'[p].name = n
    BY <2>1, <2>2 DEF AInv, IInv, TypeOK, Command
  <2>4. \/ pc'[p] = "purge"
        \/ pc'[p] = "rm_script" /\ json[n].state # "absent"
    BY <1>1, <2>1 DEF Orphaned, InReview, AInv, IInv, TypeOK
  <2>5. mem' = mem /\ json' = json
    BY <1>3 DEF PurgeNext, storeVars, diskVars
  <2> QED
    BY <1>1, <2>3, <2>4, <2>5 DEF OneChange, Allowed, BeforeSave, Saving, Working
<1> QED
  BY <1>2, <1>3

(* Every step keeps what a command will save one change to the disk.       *)
LEMMA NextChanges ==
    ASSUME AInv, Changes, Next, Alone', StagesInSync
    PROVE  Changes'
<1> USE DEF storeVars, diskVars, fileVars, procVars, ownerVars, history
<1>1. ASSUME AgentLoad \/ AgentSig \/ GetState \/ StatSig \/ (\E n \in Names : Launch(n)) \/ Execute
      PROVE  Changes'
  <2>1. OnlyProc("agent") /\ pc'["agent"] \in {"starting", "idle", "exec"}
        /\ errors' = errors /\ json' = json
    BY <1>1 DEF AgentLoad, AgentSig, GetState, StatSig, Launch, Execute, SyncFromDisk, Finish, Goto,
       OnlyProc, AInv, IInv, TypeOK
  <2> QED
    BY <2>1, NoChange, ChangesStep
<1>2. ASSUME NEW n \in Names, NEW pkg \in Packages, Stage(n, pkg[1], pkg[2])
      PROVE  Changes'
  <2>1. OnlyProc("agent") /\ errors' = errors /\ json' = json
    BY <1>2 DEF Stage, OnlyProc, AInv, IInv, TypeOK
  <2>2. fresh
    BY <1>2 DEF Stage, StagesInSync, AInv, IInv, TypeOK
  <2> QED
    BY <1>2, <2>1, <2>2, StageChange, ChangesStep
<1>3. ASSUME WritePending \/ WriteMeta
      PROVE  Changes'
  <2>1. /\ OnlyProc("agent") /\ errors' = errors /\ json' = json
        /\ pc["agent"] \in BeforeSave /\ pc'["agent"] \in BeforeSave
        /\ op' = op /\ mem' = mem
    BY <1>3 DEF WritePending, WriteMeta, AfterStagedFiles, Goto, OnlyProc, BeforeSave,
       AInv, IInv, TypeOK
  <2> QED
    BY <2>1, SameChange, ChangesStep DEF Changes
<1>4. ASSUME NEW p \in Procs,
             PromoteScript(p) \/ PromoteMeta(p) \/ RemoveScript(p) \/ RemoveScriptMeta(p)
             \/ RemovePending(p) \/ RemovePendingMeta(p)
      PROVE  Changes'
  <2>1. /\ OnlyProc(p) /\ errors' = errors /\ json' = json /\ auto' = auto
        /\ pc[p] \in BeforeSave /\ pc'[p] \in BeforeSave
        /\ op' = op /\ mem' = mem
    BY <1>4 DEF PromoteScript, PromoteMeta, RemoveScript, RemoveScriptMeta, RemovePending,
       RemovePendingMeta, Goto, OnlyProc, BeforeSave, AInv, IInv, TypeOK
  <2> QED
    BY <2>1, SameChange, ChangesStep DEF Changes
<1>5. ASSUME NEW p \in Procs, PromoteMissing(p) \/ PurgeDone(p)
      PROVE  Changes'
  <2>1. /\ OnlyProc(p) /\ errors' = errors /\ json' = json /\ auto' = auto
        /\ pc'[p] \in {"off", "idle"}
    BY <1>5 DEF PromoteMissing, PurgeDone, Finish, OnlyProc, AInv, IInv, TypeOK
  <2> QED
    BY <2>1, NoChange, ChangesStep
<1>6. ASSUME NEW p \in Procs, OpenTmp(p)
      PROVE  Changes'
  <2>1. OnlyProc(p) /\ errors' = errors /\ json' = json /\ auto' = auto
    BY <1>6 DEF OpenTmp, Goto, OnlyProc, AInv, IInv, TypeOK
  <2> QED
    BY <1>6, <2>1, OpenTmpChange, ChangesStep DEF Changes
<1>7. ASSUME NEW p \in Procs, WriteTmp(p)
      PROVE  Changes'
  <2>1. OnlyProc(p) /\ errors' = errors /\ auto' = auto
    BY <1>7 DEF WriteTmp, Goto, OnlyProc, AInv, IInv, TypeOK
  <2>2. json' = json
    BY <1>7 DEF WriteTmp, AInv, Apart, PInv, Temporary
  <2> QED
    BY <1>7, <2>1, <2>2, WriteTmpChange, ChangesStep DEF Changes
<1>8. ASSUME NEW p \in Procs, ReplaceJson(p)
      PROVE  Changes'
  <2>1. OnlyProc(p) /\ errors' = errors /\ auto' = auto
    BY <1>8 DEF ReplaceJson, AfterSave, Continue, Goto, Finish, OnlyProc, AInv, IInv, TypeOK
  <2>2. \A q \in Procs \ {p} : ~Busy(q)
    BY <1>8, <2>1, OthersQuiet DEF ReplaceJson, Busy
  <2> QED
    BY <1>8, <2>1, <2>2, ReplaceJsonChange, ChangesStep
<1>9. ASSUME NEW p \in Clis, NEW k, NEW n, CliStart(p, k, n)
      PROVE  Changes'
  <2>1. OnlyProc(p) /\ errors' = errors /\ json' = json /\ auto' = auto
    BY <1>9 DEF CliStart, OnlyProc, AInv, IInv, TypeOK
  <2> QED
    BY <1>9, <2>1, CliStartChange, ChangesStep
<1>10. ASSUME NEW p \in Clis, CliApprove(p) \/ CliReject(p) \/ CliClear(p)
       PROVE  Changes'
  <2>1. OnlyProc(p) /\ errors' = errors /\ json' = json /\ auto' = auto
    BY <1>10 DEF CliApprove, CliReject, CliClear, Finish, Continue, Goto, OnlyProc, AInv, IInv, TypeOK
  <2> QED
    BY <1>10, <2>1, CliBeginChange, ChangesStep DEF Changes
<1>11. ASSUME NEW p \in Clis, CliPurge(p) \/ PurgeNext(p)
       PROVE  Changes'
  <2>1. OnlyProc(p) /\ errors' = errors /\ json' = json /\ auto' = auto
    BY <1>11 DEF CliPurge, PurgeNext, OnlyProc, AInv, IInv, TypeOK
  <2> QED
    BY <1>11, <2>1, PurgeChange, ChangesStep DEF Changes
<1>12. CASE AgentError
  BY <1>12 DEF AgentError, Changes, AInv, IInv, TypeOK
<1>13. ASSUME NEW p \in Procs, ProcessEnds(p)
       PROVE  Changes'
  <2>1. /\ OnlyProc(p) /\ errors' = errors /\ json' = json /\ (p = "agent" \/ auto' = auto)
        /\ pc'[p] = "off"
    BY <1>13 DEF ProcessEnds, OnlyProc, AInv, IInv, TypeOK
  <2> QED
    BY <2>1, NoChange, ChangesStep
<1>14. CASE PolicyStep
  <2>1. UNCHANGED <<errors, json, auto, pc, op, mem>>
    BY <1>14 DEF PolicyStep, PolicyAutoApprove, PolicyManual
  <2> QED
    BY <2>1, ChangesStep DEF Changes, OnlyProc, OneChange, Allowed, NewRec, StagedRecord
<1> QED
  <2>1. CASE AgentStep
    BY <2>1, <1>1, <1>2, <1>3 DEF AgentStep
  <2>2. ASSUME NEW p \in Procs, SaveStep(p) PROVE Changes'
    BY <2>2, <1>4, <1>5, <1>6, <1>7, <1>8, ReplaceMissingApart DEF SaveStep
  <2>3. ASSUME NEW p \in Clis, CliStep(p) PROVE Changes'
    BY <2>3, <1>4, <1>5, <1>9, <1>10, <1>11 DEF CliStep
  <2> QED
    BY <2>1, <2>2, <2>3, <1>12, <1>13, <1>14 DEF Next

(* Every step that stages in sync keeps both.                              *)
LEMMA NextSerial ==
    AInv /\ Changes /\ [Next /\ Alone' /\ StagesInSync]_vars => AInv' /\ Changes'
<1> SUFFICES ASSUME AInv, Changes, [Next /\ Alone' /\ StagesInSync]_vars PROVE AInv' /\ Changes'
  OBVIOUS
<1>1. AInv'
  BY NextAInv
<1>2. ASSUME UNCHANGED vars PROVE Changes'
  BY <1>2 DEF vars, Changes, OneChange, Allowed, NewRec, StagedRecord
<1> QED
  BY <1>1, <1>2, NextChanges

-----------------------------------------------------------------------------
(* The refinement, step by step.                                           *)

(* The rename of a save is a step of the protocol: which one, the command  *)
(* says.                                                                   *)
LEMMA SaveImplements ==
    ASSUME AInv, NEW p \in Procs, OneChange(p), ReplaceJson(p)
    PROVE  Protocol!Next
<1> DEFINE n == op[p].name
           rec == json[n]
<1>1. /\ n \in Names /\ pc[p] = "replace" /\ op[p] \in Command
      /\ op[p].kind \in {"stage", "approve", "reject", "clear", "purge"}
      /\ op[p].kind = "stage" => op[p].md5 \in Contents
  BY DEF ReplaceJson, AInv, IInv, TypeOK, Commands, CommandShape, NamedSteps, Steps, Apart, PInv,
     Roles, Saving, Removing
<1>2. Allowed(op[p], rec) /\ json' = [json EXCEPT ![n] = NewRec(op[p], rec)]
  BY <1>1 DEF ReplaceJson, OneChange, Saving, Working, AInv, Apart, PInv, Temporary
<1>3. json \in Store /\ GoodStore(json)
  BY DEF AInv, Apart, NeverPartial, IInv, TypeOK, StoresWellFormed
<1>4. GoodRecord(rec) /\ rec \in Record
  BY <1>1, <1>3 DEF GoodStore, Store
<1>5. UNCHANGED launched
  <2>1. pc["agent"] # "exec" /\ pc'["agent"] # "exec"
    BY <1>1 DEF AInv, IInv, TypeOK, Alone, Busy, ReplaceJson, AfterSave, Continue, Goto, Finish
  <2> QED
    BY <2>1 DEF launched
<1> HIDE DEF n, rec
<1> USE DEF Protocol!Becomes, Protocol!Rec, Protocol!InReview, InReview, Rec, Allowed
<1>6. CASE op[p].kind = "stage"
  <2>1. CASE n \in auto
    <3>1. NewRec(op[p], rec) = Rec("approved", op[p].md5, NoMd5)
      BY <1>6, <2>1 DEF NewRec, StagedRecord, n
    <3>2. Protocol!StageAuto(n, op[p].md5)
      BY <1>2, <1>5, <1>6, <3>1 DEF Protocol!StageAuto, rec
    <3> QED
      BY <1>1, <1>6, <3>2 DEF Protocol!Next
  <2>2. CASE n \notin auto
    <3>1. NewRec(op[p], rec) = IF rec.state = "approved"
                               THEN Rec("update_pending", rec.approved_md5, op[p].md5)
                               ELSE Rec("pending", NoMd5, op[p].md5)
      BY <1>6, <2>2 DEF NewRec, StagedRecord, n
    <3>2. op[p].md5 \notin {rec.approved_md5, rec.pending_md5} \/ rec.state = "update_pending"
      BY <1>1, <1>2, <1>4, <1>6, NoMd5Assumption DEF GoodRecord, Record, ApprovalState
    <3>3. Protocol!Stage(n, op[p].md5)
      BY <1>2, <1>5, <1>6, <3>1, <3>2 DEF Protocol!Stage, rec
    <3> QED
      BY <1>1, <1>6, <3>3 DEF Protocol!Next
  <2> QED
    BY <2>1, <2>2
<1>7. CASE op[p].kind = "approve"
  <2>1. NewRec(op[p], rec) = Rec("approved", rec.pending_md5, NoMd5)
    BY <1>7 DEF NewRec
  <2>2. Protocol!Approve(n)
    BY <1>2, <1>5, <1>7, <2>1 DEF Protocol!Approve, rec
  <2> QED
    BY <1>1, <2>2 DEF Protocol!Next
<1>8. CASE op[p].kind = "reject"
  <2>1. NewRec(op[p], rec) = Rec("rejected", NoMd5, NoMd5)
    BY <1>8 DEF NewRec, RejectedRec
  <2>2. Protocol!Reject(n)
    BY <1>2, <1>5, <1>8, <2>1 DEF Protocol!Reject, rec
  <2> QED
    BY <1>1, <2>2 DEF Protocol!Next
<1>9. CASE op[p].kind \in {"clear", "purge"}
  <2>1. NewRec(op[p], rec) = AbsentRec
    BY <1>9 DEF NewRec
  <2>2. Protocol!Clear(n)
    BY <1>2, <1>5, <1>9, <2>1 DEF Protocol!Clear, Protocol!AbsentRec, AbsentRec, rec
  <2> QED
    BY <1>1, <2>2 DEF Protocol!Next
<1> QED
  BY <1>1, <1>6, <1>7, <1>8, <1>9

(* The checks of POST /jobs let the launch of an approved record through.  *)
LEMMA LaunchImplements ==
    ASSUME AInv, errors = 0, NEW n \in Names, Launch(n)
    PROVE  Protocol!Next
<1>1. Synced = json
  BY DEF Launch, Synced, Load, AInv, Apart, NeverPartial, InStep
<1>2. launched' = <<n, json[n].approved_md5>>
  BY <1>1 DEF Launch, Op, launched, AInv, IInv, TypeOK
<1>3. Protocol!Launch(n)
  BY <1>1, <1>2 DEF Protocol!Launch, Launch
<1> QED
  BY <1>3 DEF Protocol!Next

(* Only Launch begins an execution and only the end of it, or of the       *)
(* agent, ends one.                                                        *)
LEMMA LaunchedStep ==
    ASSUME AInv, Next, Alone', errors' = errors
    PROVE  \/ UNCHANGED launched
           \/ \E n \in Names : Launch(n)
           \/ Execute \/ (pc["agent"] = "exec" /\ ProcessEnds("agent"))
<1> USE DEF storeVars, diskVars, fileVars, procVars, ownerVars, history, AInv, IInv, TypeOK
<1>0. ASSUME pc["agent"] # "exec", pc'["agent"] # "exec" PROVE UNCHANGED launched
  BY <1>0 DEF launched
<1>1. ASSUME pc'["agent"] = pc["agent"], op'["agent"] = op["agent"] PROVE UNCHANGED launched
  BY <1>1 DEF launched
<1>2. CASE AgentStep
  BY <1>0, <1>1, <1>2 DEF AgentStep, AgentLoad, AgentSig, GetState, Stage, WritePending, WriteMeta,
     AfterStagedFiles, StatSig, Goto, Finish
<1>3. ASSUME NEW p \in Procs, SaveStep(p) PROVE UNCHANGED launched
  <2>1. CASE p = "agent"
    BY <1>0, <1>3, <2>1 DEF SaveStep, PromoteScript, PromoteMissing, PromoteMeta, OpenTmp, WriteTmp,
       ReplaceJson, ReplaceMissing, AfterSave, Continue, Goto, Finish
  <2>2. CASE p # "agent"
    BY <1>1, <1>3, <2>2 DEF SaveStep, PromoteScript, PromoteMissing, PromoteMeta, OpenTmp, WriteTmp,
       ReplaceJson, ReplaceMissing, AfterSave, Continue, Goto, Finish
  <2> QED
    BY <2>1, <2>2
<1>4. ASSUME NEW p \in Clis, CliStep(p) PROVE UNCHANGED launched
  BY <1>1, <1>4, ClisAssumption DEF CliStep, CliStart, CliApprove, CliReject, CliClear, CliPurge,
     PurgeNext, PurgeDone, RemoveScript, RemoveScriptMeta, RemovePending, RemovePendingMeta,
     Continue, Goto, Finish
<1>5. CASE PolicyStep
  BY <1>1, <1>5 DEF PolicyStep, PolicyAutoApprove, PolicyManual
<1>6. CASE AgentError
  BY <1>6 DEF AgentError
<1>7. ASSUME NEW p \in Procs, ProcessEnds(p), UNCHANGED launched \/ p # "agent" \/ pc["agent"] # "exec"
      PROVE  UNCHANGED launched
  BY <1>0, <1>1, <1>7 DEF ProcessEnds
<1> QED
  BY <1>2, <1>3, <1>4, <1>5, <1>6, <1>7 DEF Next

(* The end of an execution ends the launch.                                *)
LEMMA EndImplements ==
    ASSUME AInv, Execute \/ (pc["agent"] = "exec" /\ ProcessEnds("agent"))
    PROVE  Protocol!Next
<1>1. launched # <<>> /\ launched' = <<>> /\ json' = json
  BY DEF Execute, ProcessEnds, Finish, diskVars, launched, AInv, IInv, TypeOK
<1> QED
  BY <1>1 DEF Protocol!Next, Protocol!Launched

(* Every step is a step of the protocol or leaves its state alone.         *)
LEMMA StepImplements ==
    ASSUME AInv, Changes, errors = 0, errors' = 0, [Next /\ Alone' /\ StagesInSync]_vars
    PROVE  [Protocol!Next]_(Protocol!vars)
<1>1. CASE UNCHANGED vars
  BY <1>1 DEF vars, Protocol!vars, launched
<1>2. ASSUME Next, Alone', json' # json PROVE Protocol!Next
  BY <1>2, JsonStep, SaveImplements DEF Changes
<1>3. ASSUME Next, Alone', json' = json PROVE [Protocol!Next]_(Protocol!vars)
  BY <1>3, LaunchedStep, LaunchImplements, EndImplements DEF Protocol!vars
<1> QED
  BY <1>1, <1>2, <1>3

(* Staging, reviewing and launching are the atomic steps of the approval   *)
(* protocol, for any number of processes that end early, as long as no I/O *)
(* of the agent fails (its memory then runs ahead of approvals.json).      *)
THEOREM ProtocolCorrect == SerialSpec /\ [](errors = 0) => ImplementsProtocol
<1>1. Init => AInv /\ Changes /\ Protocol!Init
  BY InitSInv DEF SInv, Init, Protocol!Init, EmptyStore, AbsentRec, Rec, Protocol!AbsentRec,
     Protocol!Rec, launched
<1>2. AInv /\ Changes /\ errors = 0 /\ (errors = 0)' /\ [Next /\ Alone' /\ StagesInSync]_vars =>
        [Protocol!Next]_(Protocol!vars)
  BY StepImplements
<1> QED
  BY <1>1, <1>2, NextSerial, PTL DEF SerialSpec, ImplementsProtocol, Protocol!Spec

-----------------------------------------------------------------------------
(* The files, while nothing fails.                                         *)

(* Nothing to show for a step that neither touches a file or a record nor  *)
(* begins or ends work on a script.                                        *)
LEMMA FilesSame ==
    ASSUME AInv, FilesInStep, NEW p \in Procs, OnlyProc(p), p = "agent" \/ auto' = auto,
           UNCHANGED <<json, scriptFile, pendingFile, pendFd>>,
           pc[p] \notin Working, pc'[p] \notin Working
    PROVE  FilesInStep'
<1>1. ASSUME NEW n \in Names, Undisturbed(n)' PROVE FilesMatch(n, json[n])'
  <2>1. Undisturbed(n)
    BY <1>1 DEF Undisturbed, OnlyProc
  <2> QED
    BY <2>1 DEF FilesInStep, FilesMatch
<1>2. ASSUME NEW q \in Procs PROVE Moved(q)'
  <2>1. CASE q = p
    BY <2>1 DEF Moved, Working, BeforeSave, Saving
  <2>2. CASE q # p
    <3>1. pc'[q] = pc[q] /\ op'[q] = op[q] /\ mem'[q] = mem[q]
      BY <2>2 DEF OnlyProc
    <3>2. op[q].kind = "stage" => auto' = auto
      BY <2>2 DEF AInv, IInv, Commands, CommandShape
    <3>3. NewRec(op[q], json[op[q].name])' = NewRec(op[q], json[op[q].name])
      BY <3>1, <3>2 DEF NewRec, StagedRecord
    <3>4. Moved(q)
      BY DEF FilesInStep
    <3> QED
      BY <3>1, <3>2, <3>3, <3>4 DEF Moved, FilesMatch
  <2> QED
    BY <2>1, <2>2
<1> QED
  BY <1>1, <1>2 DEF FilesInStep

(* Enough for the files: those of the script m that the one busy process   *)
(* works on, and that its record is right if it stops working on it.       *)
LEMMA FilesStep ==
    ASSUME AInv, FilesInStep, NEW p \in Procs, OnlyProc(p), \A q \in Procs \ {p} : ~Busy(q),
           NEW m \in Names, pc[p] \in Working => op[p].name = m,
           \A n \in Names \ {m} : /\ scriptFile'[n] = scriptFile[n]
                                  /\ pendingFile'[n] = pendingFile[n]
                                  /\ json'[n] = json[n],
           (pc'[p] \in Working /\ op'[p].name = m) \/ FilesMatch(m, json[m])',
           Moved(p)'
    PROVE  FilesInStep'
<1>0. \A q \in Procs \ {p} : pc[q] \notin Working /\ pc'[q] \notin Working
  BY DEF Busy, OnlyProc, Working, BeforeSave, Saving
<1>1. ASSUME NEW n \in Names, Undisturbed(n)' PROVE FilesMatch(n, json[n])'
  <2>1. CASE n = m
    BY <1>1, <2>1 DEF Undisturbed
  <2>2. CASE n # m
    <3>1. Undisturbed(n)
      BY <1>0, <2>2 DEF Undisturbed
    <3> QED
      BY <2>2, <3>1 DEF FilesInStep, FilesMatch
  <2> QED
    BY <2>1, <2>2
<1>2. ASSUME NEW q \in Procs \ {p} PROVE Moved(q)'
  BY <1>0, <1>2 DEF Moved, Working, BeforeSave, Saving
<1> QED
  BY <1>1, <1>2 DEF FilesInStep

(* A stage truncates the pending file; the approved script stays.          *)
LEMMA StageFiles ==
    ASSUME AInv, FilesInStep, NEW n \in Names, NEW pkg \in Packages, Alone',
           Stage(n, pkg[1], pkg[2])
    PROVE  FilesInStep'
<1> USE DEF Stage, Op, storeVars, diskVars
<1>1. /\ OnlyProc("agent") /\ "agent" \in Procs /\ json' = json /\ scriptFile' = scriptFile
      /\ pc["agent"] = "idle" /\ pc'["agent"] = "write_pending" /\ pendFd' = "pending"
      /\ op'["agent"].name = n /\ op'["agent"].kind = "stage"
      /\ \A m \in Names \ {n} : pendingFile'[m] = pendingFile[m]
  BY DEF OnlyProc, AInv, IInv, TypeOK
<1>2. \A q \in Procs \ {"agent"} : ~Busy(q)
  BY <1>1, OthersQuiet DEF Busy
<1>3. FilesMatch(n, json[n])
  BY <1>1, <1>2 DEF FilesInStep, Undisturbed, Busy, Working, BeforeSave, Saving
<1>4. Moved("agent")'
  BY <1>1, <1>3 DEF Moved, FilesMatch, Saving
<1> QED
  BY <1>1, <1>2, <1>4, FilesStep DEF Working, BeforeSave, Saving

(* Once the staged files are written, the record to be saved fits them.    *)
LEMMA StagedFiles ==
    ASSUME AInv, FilesInStep, WritePending \/ WriteMeta
    PROVE  FilesInStep'
<1> DEFINE n == op["agent"].name
<1>1. /\ OnlyProc("agent") /\ "agent" \in Procs /\ json' = json /\ auto' = auto
      /\ pc["agent"] \in {"write_pending", "write_meta"} /\ op' = op /\ n \in Names
      /\ op["agent"].kind = "stage"
  BY DEF OnlyProc, AInv, IInv, TypeOK, WritePending, WriteMeta, Goto, storeVars, diskVars, ownerVars,
     Commands, CommandShape
<1>2. Moved("agent")
  BY <1>1 DEF FilesInStep
<1>3. /\ scriptFile' = scriptFile /\ pendingFile'[n] = op["agent"].md5
      /\ \A m \in Names \ {n} : pendingFile'[m] = pendingFile[m]
  BY <1>1, <1>2 DEF AInv, IInv, TypeOK, WritePending, WriteMeta, Moved
<1>4. pc'["agent"] \in {"write_meta"} \cup (IF n \in auto THEN {"promote"} ELSE {"open_tmp"})
  BY DEF AInv, IInv, TypeOK, WritePending, WriteMeta, Goto, AfterStagedFiles
<1>5. \A q \in Procs \ {"agent"} : ~Busy(q)
  BY <1>1, OthersQuiet DEF Busy
<1>6. json[n].state = "approved" => scriptFile[n] = json[n].approved_md5
  BY <1>1, <1>2 DEF Moved
<1>7. n \notin auto => FilesMatch(n, NewRec(op["agent"], json[n]))'
  BY <1>1, <1>3, <1>6 DEF FilesMatch, NewRec, StagedRecord, Rec, InReview
<1>8. Moved("agent")'
  BY <1>1, <1>3, <1>4, <1>6, <1>7 DEF Moved, Saving
<1>9. pc'["agent"] \in Working /\ op'["agent"].name = n
  BY <1>1, <1>4 DEF Working, BeforeSave, Saving
<1> HIDE DEF n
<1> QED
  BY <1>1, <1>3, <1>5, <1>8, <1>9, FilesStep DEF n

(* The content that moves is the one the record to be saved approves.      *)
LEMMA PromoteFiles ==
    ASSUME AInv, FilesInStep, NEW p \in Procs, OneChange(p), PromoteScript(p)
    PROVE  FilesInStep'
<1> DEFINE n == op[p].name
<1>1. /\ OnlyProc(p) /\ json' = json /\ auto' = auto /\ op' = op /\ n \in Names
      /\ pc[p] = "promote" /\ pc'[p] = "promote_meta" /\ op[p].kind \in {"stage", "approve"}
      /\ scriptFile'[n] = pendingFile[n]
      /\ \A m \in Names \ {n} : pendingFile'[m] = pendingFile[m] /\ scriptFile'[m] = scriptFile[m]
  BY DEF OnlyProc, AInv, IInv, TypeOK, PromoteScript, Goto, storeVars, diskVars, ownerVars,
     Commands, CommandShape, NamedSteps, Steps, Apart, PInv, Roles
<1>2. Moved(p) /\ Allowed(op[p], json[n])
  BY <1>1 DEF FilesInStep, OneChange, Working, BeforeSave
<1>3. \A q \in Procs \ {p} : ~Busy(q)
  BY <1>1, OthersQuiet DEF Busy
<1>4. Moved(p)'
  BY <1>1, <1>2 DEF Moved, FilesMatch, Allowed, Saving
<1>5. pc'[p] \in Working /\ op'[p].name = n
  BY <1>1 DEF Working, BeforeSave
<1> HIDE DEF n
<1> QED
  BY <1>1, <1>3, <1>4, <1>5, FilesStep DEF n

(* While nothing fails there is a staged file to move.                     *)
LEMMA PromoteMissingFiles ==
    ASSUME AInv, FilesInStep, NEW p \in Procs, OneChange(p), PromoteMissing(p)
    PROVE  FALSE
<1> DEFINE n == op[p].name
<1>1. /\ n \in Names /\ pc[p] = "promote" /\ op[p].kind \in {"stage", "approve"}
      /\ pendingFile[n] = NoFile /\ (op[p].kind = "stage" => op[p].md5 \in Contents)
  BY DEF AInv, IInv, TypeOK, PromoteMissing, Commands, CommandShape, NamedSteps, Steps, Apart, PInv,
     Roles
<1>2. Moved(p) /\ Allowed(op[p], json[n])
  BY <1>1 DEF FilesInStep, OneChange, Working, BeforeSave
<1>3. json[n] \in Record /\ GoodRecord(json[n])
  BY <1>1 DEF AInv, Apart, NeverPartial, IInv, TypeOK, StoresWellFormed, GoodStore, Store
<1>4. json[n].state \in InReview => json[n].pending_md5 \in Contents
  BY <1>3 DEF GoodRecord, Record, Md5s
<1> QED
  BY <1>1, <1>2, <1>4, NoFileAssumption DEF Moved, FilesMatch, Allowed

(* The metadata moves; the record to be saved fits the script.             *)
LEMMA PromoteMetaFiles ==
    ASSUME AInv, FilesInStep, NEW p \in Procs, PromoteMeta(p)
    PROVE  FilesInStep'
<1> DEFINE n == op[p].name
<1>1. /\ OnlyProc(p) /\ json' = json /\ auto' = auto /\ op' = op /\ n \in Names
      /\ pc[p] = "promote_meta" /\ pc'[p] = "open_tmp" /\ op[p].kind \in {"stage", "approve"}
      /\ scriptFile' = scriptFile /\ pendingFile' = pendingFile
  BY DEF OnlyProc, AInv, IInv, TypeOK, PromoteMeta, Goto, storeVars, diskVars, ownerVars,
     Commands, CommandShape, NamedSteps, Steps, Apart, PInv, Roles
<1>2. Moved(p)
  BY <1>1 DEF FilesInStep
<1>3. \A q \in Procs \ {p} : ~Busy(q)
  BY <1>1, OthersQuiet DEF Busy
<1>4. FilesMatch(n, NewRec(op[p], json[n]))'
  BY <1>1, <1>2 DEF Moved, FilesMatch, NewRec, StagedRecord, Rec, InReview
<1>5. Moved(p)'
  BY <1>1, <1>4 DEF Moved, Saving
<1>6. pc'[p] \in Working /\ op'[p].name = n
  BY <1>1 DEF Working, BeforeSave
<1> HIDE DEF n
<1> QED
  BY <1>1, <1>3, <1>5, <1>6, FilesStep DEF n

(* A record that is removed or rejected speaks of no file.                 *)
LEMMA RemoveFiles ==
    ASSUME AInv, FilesInStep, NEW p \in Clis,
           RemoveScript(p) \/ RemoveScriptMeta(p) \/ RemovePending(p) \/ RemovePendingMeta(p)
    PROVE  FilesInStep'
<1> DEFINE n == op[p].name
<1>1. /\ OnlyProc(p) /\ json' = json /\ auto' = auto /\ op' = op /\ n \in Names
      /\ pc[p] \in RemoveSteps /\ pc'[p] \in RemoveSteps \cup {"open_tmp"}
      /\ op[p].kind \in {"reject", "clear", "purge"}
      /\ \A m \in Names \ {n} : pendingFile'[m] = pendingFile[m] /\ scriptFile'[m] = scriptFile[m]
  <2>1. pc[p] \in RemoveSteps /\ pc'[p] \in RemoveSteps \cup {"open_tmp"}
    BY DEF AInv, IInv, TypeOK, RemoveScript, RemoveScriptMeta, RemovePending, RemovePendingMeta,
       Goto, RemoveSteps
  <2>2. n \in Names /\ op[p].kind \in {"reject", "clear", "purge"}
    BY <2>1 DEF AInv, IInv, Commands, CommandShape, NamedSteps, Steps, RemoveSteps
  <2> QED
    BY <2>1, <2>2 DEF OnlyProc, AInv, IInv, TypeOK, RemoveScript, RemoveScriptMeta, RemovePending,
       RemovePendingMeta, Goto, storeVars, diskVars, ownerVars
<1>2. \A q \in Procs \ {p} : ~Busy(q)
  BY <1>1, OthersQuiet DEF Busy, RemoveSteps
<1>3. FilesMatch(n, NewRec(op[p], json[n]))'
  BY <1>1 DEF FilesMatch, NewRec, RejectedRec, AbsentRec, Rec, InReview
<1>4. Moved(p)'
  BY <1>1, <1>3 DEF Moved, Saving, RemoveSteps
<1>5. pc'[p] \in Working /\ op'[p].name = n
  BY <1>1 DEF Working, BeforeSave, RemoveSteps
<1> HIDE DEF n
<1> QED
  BY <1>1, <1>2, <1>4, <1>5, FilesStep DEF n

(* Opening and writing approvals.tmp touch no other file.                  *)
LEMMA TmpFiles ==
    ASSUME AInv, FilesInStep, NEW p \in Procs, OneChange(p), OneChange(p)',
           OpenTmp(p) \/ WriteTmp(p)
    PROVE  FilesInStep'
<1> DEFINE n == op[p].name
<1>1. /\ OnlyProc(p) /\ auto' = auto /\ op' = op /\ n \in Names
      /\ pc[p] \in {"open_tmp", "write_tmp"} /\ pc'[p] \in Saving
      /\ scriptFile' = scriptFile /\ pendingFile' = pendingFile
  BY DEF OnlyProc, AInv, IInv, TypeOK, OpenTmp, WriteTmp, Goto, fileVars, ownerVars, Saving,
     Commands, CommandShape, NamedSteps, Steps
<1>2. json' = json
  BY DEF OpenTmp, WriteTmp, AInv, Apart, PInv, Temporary
<1>3. json \in Store
  BY DEF AInv, Apart, NeverPartial, IInv, TypeOK
<1>4. FilesMatch(n, NewRec(op[p], json[n]))
  <2>1. CASE pc[p] = "open_tmp"
    BY <2>1 DEF FilesInStep, Moved
  <2>2. CASE pc[p] = "write_tmp"
    BY <1>1, <1>3, <2>2 DEF FilesInStep, Moved, OneChange, Saving, Store
  <2> QED
    BY <1>1, <2>1, <2>2
<1>5. NewRec(op[p], json[n])' = NewRec(op[p], json[n])
  BY <1>1, <1>2 DEF NewRec, StagedRecord
<1>6. mem'[p][n] = NewRec(op[p], json[n])
  BY <1>1, <1>2, <1>3, <1>5 DEF OneChange, Store
<1>7. Moved(p)'
  BY <1>1, <1>4, <1>6 DEF Moved, FilesMatch, Saving
<1>8. \A q \in Procs \ {p} : ~Busy(q)
  BY <1>1, OthersQuiet DEF Busy
<1>9. pc'[p] \in Working /\ op'[p].name = n
  BY <1>1 DEF Working
<1> HIDE DEF n
<1> QED
  BY <1>1, <1>2, <1>7, <1>8, <1>9, FilesStep DEF n

(* The rename publishes a record that fits the files.                      *)
LEMMA ReplaceFiles ==
    ASSUME AInv, FilesInStep, NEW p \in Procs, OneChange(p), ReplaceJson(p)
    PROVE  FilesInStep'
<1> DEFINE n == op[p].name
<1>1. /\ OnlyProc(p) /\ n \in Names /\ pc[p] = "replace" /\ pc'[p] \notin Working
      /\ scriptFile' = scriptFile /\ pendingFile' = pendingFile
  BY DEF OnlyProc, AInv, IInv, TypeOK, ReplaceJson, AfterSave, Continue, Goto, Finish, fileVars,
     Working, BeforeSave, Saving, Commands, CommandShape, NamedSteps, Steps
<1>2. json' = mem[p]
  BY DEF ReplaceJson, AInv, Apart, PInv, Temporary
<1>3. \A m \in Names \ {n} : json'[m] = json[m]
  <2>1. json \in Store
    BY DEF AInv, Apart, NeverPartial, IInv, TypeOK
  <2> QED
    BY <1>1, <1>2, <2>1 DEF OneChange, Saving, Store
<1>4. FilesMatch(n, mem[p][n])
  BY <1>1 DEF FilesInStep, Moved, Saving
<1>5. Moved(p)'
  BY <1>1 DEF Moved, Working, BeforeSave, Saving
<1>6. \A q \in Procs \ {p} : ~Busy(q)
  BY <1>1, OthersQuiet DEF Busy
<1> HIDE DEF n
<1>7. \A m : m = n => FilesMatch(m, json[m])'
  BY <1>1, <1>2, <1>4 DEF FilesMatch, n
<1> QED
  BY <1>1, <1>3, <1>5, <1>6, <1>7, FilesStep DEF n

(* The owner's commands start on files that fit the record.                *)
LEMMA BeginFiles ==
    ASSUME AInv, FilesInStep, NEW p \in Clis,
           CliApprove(p) \/ CliReject(p) \/ CliClear(p) \/ PurgeNext(p)
    PROVE  FilesInStep'
<1> DEFINE n == op'[p].name
<1>1. /\ OnlyProc(p) /\ json' = json /\ auto' = auto
      /\ scriptFile' = scriptFile /\ pendingFile' = pendingFile /\ pendFd' = pendFd
      /\ pc[p] \in {"begin", "purge"}
  BY DEF OnlyProc, AInv, IInv, TypeOK, CliApprove, CliReject, CliClear, PurgeNext, Continue, Goto,
     Finish, storeVars, diskVars, fileVars, ownerVars
<1>2. \/ pc'[p] \in {"off", "idle", "purge"}
      \/ pc'[p] \in {"promote", "rm_script"} /\ n \in Names /\ op'[p].kind # "stage"
  <2>1. CASE PurgeNext(p)
    <3>1. op[p].kind = "purge" /\ op[p] \in Command
      BY <2>1 DEF PurgeNext, AInv, IInv, TypeOK, Commands, CommandShape
    <3>2. PICK m \in op[p].todo :
            /\ op' = [op EXCEPT ![p].name = m, ![p].todo = @ \ {m}]
            /\ pc' = [pc EXCEPT ![p] = IF Orphaned(m, mem[p][m]) THEN "rm_script" ELSE "purge"]
      BY <2>1 DEF PurgeNext
    <3> QED
      BY <3>1, <3>2 DEF AInv, IInv, TypeOK, Command
  <2>2. CASE CliApprove(p) \/ CliReject(p) \/ CliClear(p)
    <3>1. op[p].kind \in {"approve", "reject", "clear"} /\ op[p].name \in Names
      BY <2>2 DEF CliApprove, CliReject, CliClear, AInv, IInv, Commands, CommandShape
    <3>2. \/ pc'[p] \in {"off", "idle"}
          \/ pc'[p] \in {"promote", "rm_script"} /\ op' = op
      BY <2>2 DEF CliApprove, CliReject, CliClear, Continue, Goto, Finish, AInv, IInv, TypeOK
    <3> QED
      BY <3>1, <3>2
  <2> QED
    BY <2>1, <2>2
<1>3. CASE pc'[p] \in {"off", "idle", "purge"}
  BY <1>1, <1>3, FilesSame DEF Working, BeforeSave, Saving
<1>4. CASE pc'[p] \in {"promote", "rm_script"} /\ n \in Names /\ op'[p].kind # "stage"
  <2>1. \A q \in Procs \ {p} : ~Busy(q)
    BY <1>1, OthersQuiet DEF Busy
  <2>2. FilesMatch(n, json[n])
    BY <1>1, <1>4, <2>1 DEF FilesInStep, Undisturbed, Busy, Working, BeforeSave, Saving
  <2>3. Moved(p)'
    BY <1>1, <1>4, <2>2 DEF Moved, FilesMatch, Saving
  <2>4. pc[p] \notin Working /\ pc'[p] \in Working /\ op'[p].name = n
    BY <1>1, <1>4 DEF Working, BeforeSave, Saving
  <2> HIDE DEF n
  <2> QED
    BY <1>1, <1>4, <2>1, <2>3, <2>4, FilesStep
<1> QED
  BY <1>2, <1>3, <1>4

(* Every step of a history without failures keeps files and records        *)
(* together.                                                               *)
LEMMA NextMatching ==
    ASSUME AInv, Changes, Matching, Next, Alone', StagesInSync, AInv', Changes'
    PROVE  Matching'
<1> USE DEF storeVars, diskVars, fileVars, procVars, ownerVars, history
<1>0. SUFFICES ASSUME errors' = 0, stops' = 0 PROVE FilesInStep'
  BY DEF Matching
<1>a. errors \in Nat /\ stops \in Nat /\ ~AgentError /\ \A p \in Procs : ~ProcessEnds(p)
  BY <1>0, BoundsAssumption DEF AInv, IInv, TypeOK, AgentError, ProcessEnds
<1>b. errors = 0 /\ stops = 0
  BY <1>0, <1>a DEF Next, AgentStep, AgentLoad, AgentSig, GetState, Stage, WritePending, WriteMeta,
     StatSig, Launch, Execute, SaveStep, PromoteScript, PromoteMissing, PromoteMeta, OpenTmp,
     WriteTmp, ReplaceJson, ReplaceMissing, CliStep, CliStart, CliApprove, CliReject, CliClear,
     CliPurge, PurgeNext, PurgeDone, RemoveScript, RemoveScriptMeta, RemovePending,
     RemovePendingMeta, PolicyStep, PolicyAutoApprove, PolicyManual
<1>c. FilesInStep /\ \A p \in Procs : OneChange(p) /\ OneChange(p)'
  BY <1>0, <1>b DEF Matching, Changes
<1>1. ASSUME AgentLoad \/ AgentSig \/ GetState \/ StatSig \/ (\E n \in Names : Launch(n)) \/ Execute
      PROVE  FilesInStep'
  <2>1. /\ OnlyProc("agent") /\ UNCHANGED <<json, scriptFile, pendingFile, pendFd>>
        /\ pc["agent"] \notin Working /\ pc'["agent"] \notin Working
    BY <1>1 DEF AgentLoad, AgentSig, GetState, StatSig, Launch, Execute, SyncFromDisk, Finish, Goto,
       OnlyProc, AInv, IInv, TypeOK, Working, BeforeSave, Saving
  <2> QED
    BY <1>c, <2>1, FilesSame
<1>2. ASSUME NEW p \in Clis,
             CliPurge(p) \/ PurgeDone(p) \/ (\E k, n : CliStart(p, k, n))
      PROVE  FilesInStep'
  <2>1. /\ OnlyProc(p) /\ UNCHANGED <<json, scriptFile, pendingFile, pendFd>> /\ auto' = auto
        /\ pc[p] \notin Working /\ pc'[p] \notin Working
    BY <1>2, ClisAssumption DEF CliPurge, PurgeDone, CliStart, Finish, OnlyProc, AInv, IInv, TypeOK,
       Working, BeforeSave, Saving
  <2> QED
    BY <1>c, <2>1, FilesSame
<1>3. CASE AgentStep
  BY <1>3, <1>c, <1>1, StageFiles, StagedFiles DEF AgentStep
<1>4. ASSUME NEW p \in Procs, SaveStep(p) PROVE FilesInStep'
  BY <1>4, <1>c, PromoteFiles, PromoteMissingFiles, PromoteMetaFiles, TmpFiles, ReplaceFiles,
     ReplaceMissingApart DEF SaveStep
<1>5. ASSUME NEW p \in Clis, CliStep(p) PROVE FilesInStep'
  BY <1>5, <1>c, <1>2, BeginFiles, RemoveFiles DEF CliStep
<1>6. CASE PolicyStep
  <2>1. UNCHANGED <<json, auto, pc, op, mem, scriptFile, pendingFile, pendFd>>
    BY <1>6 DEF PolicyStep, PolicyAutoApprove, PolicyManual
  <2> QED
    BY SMTT(30), <1>c, <2>1 DEF FilesInStep, Undisturbed, FilesMatch, Moved, NewRec, StagedRecord
<1> QED
  BY <1>a, <1>3, <1>4, <1>5, <1>6 DEF Next

(* In a quiet store without failures, an approved script is in scripts/    *)
(* with the approved content.                                              *)
THEOREM ContentCorrect == SerialSpec => []ApprovedMatchesContent
<1>1. SInv => ApprovedMatchesContent
  BY DEF SInv, Matching, FilesInStep, Undisturbed, FilesMatch, ApprovedMatchesContent, Quiet, Busy,
     Working, BeforeSave, Saving
<1>2. SInv /\ [Next /\ Alone' /\ StagesInSync]_vars => SInv'
  <2> SUFFICES ASSUME SInv, [Next /\ Alone' /\ StagesInSync]_vars PROVE SInv'
    OBVIOUS
  <2>1. AInv' /\ Changes'
    BY NextSerial DEF SInv
  <2>2. ASSUME UNCHANGED vars PROVE Matching'
    BY SMTT(30), <2>2 DEF vars, SInv, Matching, FilesInStep, Undisturbed, FilesMatch, Moved, NewRec,
       StagedRecord
  <2> QED
    BY <2>1, <2>2, NextMatching DEF SInv
<1> QED
  BY <1>1, <1>2, InitSInv, PTL DEF SerialSpec

=============================================================================
