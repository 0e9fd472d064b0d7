------------------------------ MODULE Approvals ------------------------------
(***************************************************************************)
(* The approval store of one target machine.  The agent (one process, one *)
(* request at a time) stages scripts and launches approved ones; the      *)
(* target owner runs `csl-agent approvals ...' and `csl-agent policy ...'  *)
(* from processes of their own.  They share nothing but files:            *)
(* approvals.json, its temporary approvals.tmp, scripts.pending/,          *)
(* scripts/ and config.yaml.  Each process works on the copy of            *)
(* approvals.json it loaded (mem), and writes the whole copy back.         *)
(*                                                                         *)
(* A step is one file operation together with the in-memory work around    *)
(* it.  A name is renamed or unlinked while another process may still hold *)
(* the file open, so where the open file is now linked is kept             *)
(* (pendFd, tmpFd).  A content stands for its MD5.                         *)
(***************************************************************************)
EXTENDS Naturals

CONSTANTS
    Names,      \* script names
    Contents,   \* script contents; equality of contents is equality of MD5s
    Metas,      \* contents of .meta.yaml files
    Packages,   \* what the control station stages: <<content, meta or NoFile>>
    AutoNames,  \* names the owner may put on the auto-approve list
    MaxErrors,  \* bound on the I/O errors of the agent
    MaxFailures, \* bound on those and on processes that end early, together
    Clis,       \* concurrent runs of csl-agent
    NoMd5,      \* an MD5 field that is None
    NoFile,     \* a path that does not exist
    Partial     \* a file that was opened for writing and not completely written

ASSUME BoundsAssumption == MaxErrors \in Nat /\ MaxFailures \in Nat
ASSUME PackagesAssumption == Packages \subseteq Contents \X (Metas \cup {NoFile})
ASSUME AutoNamesAssumption == AutoNames \subseteq Names
ASSUME ClisAssumption == "agent" \notin Clis
ASSUME NoMd5Assumption == NoMd5 \notin Contents
ASSUME NoFileAssumption == NoFile \notin Contents \cup Metas
ASSUME PartialAssumption == Partial \notin Contents \cup Metas \cup {NoFile, NoMd5}

VARIABLES
    (* files *)
    json,        \* approvals.json: a store, or Partial when it does not parse
    tmp,         \* approvals.tmp: a store, Partial or NoFile
    pendingFile, \* scripts.pending/<name>
    pendingMeta, \* scripts.pending/<name>.meta.yaml
    scriptFile,  \* scripts/<name>
    scriptMeta,  \* scripts/<name>.meta.yaml
    policy,      \* approval_policy.auto_approve of config.yaml
    (* processes *)
    mem,         \* ApprovalsManager._store of each process
    fresh,       \* is the agent's _sig that of approvals.json?
    auto,        \* the agent's _auto_approve, read when it started
    pc, op,      \* where each process is, and in which command
    tmpFd,       \* where the approvals.tmp each process has open is linked
    pendFd,      \* where the pending file the agent has open is linked
    (* history *)
    granted,     \* contents the owner, or the auto-approve list, approved
    errors,      \* I/O errors of the agent so far
    stops        \* processes ended before their time so far

diskVars  == <<json, tmp, tmpFd, fresh>>
storeVars == <<diskVars, mem>>
fileVars  == <<pendingFile, pendingMeta, scriptFile, scriptMeta, pendFd>>
procVars  == <<pc, op>>
ownerVars == <<policy, auto>>
history   == <<granted, errors, stops>>
vars == <<json, tmp, pendingFile, pendingMeta, scriptFile, scriptMeta, policy,
          mem, fresh, auto, pc, op, tmpFd, pendFd, granted, errors, stops>>

Procs == {"agent"} \cup Clis

-----------------------------------------------------------------------------
(* Records and stores.  A name without an entry has the absent record.     *)

ApprovalState == {"absent", "pending", "approved", "update_pending", "rejected"}
Md5s    == Contents \cup {NoMd5}
Record  == [state: ApprovalState, approved_md5: Md5s, pending_md5: Md5s]
Store   == [Names -> Record]

ASSUME StoreAssumption == Partial \notin Store /\ NoFile \notin Store

Rec(s, a, p) == [state |-> s, approved_md5 |-> a, pending_md5 |-> p]
AbsentRec    == Rec("absent", NoMd5, NoMd5)
RejectedRec  == Rec("rejected", NoMd5, NoMd5)
EmptyStore   == [n \in Names |-> AbsentRec]

(* Mutant: the CLI also lets an absent script be approved or rejected.     *)
InReviewOrAbsent == {"absent", "pending", "update_pending"}

InReview == {"pending", "update_pending"}

(* _load: a missing or unreadable approvals.json is an empty store.        *)
Load == IF json = Partial THEN EmptyStore ELSE json

NoOp == [kind |-> "none", name |-> NoFile, md5 |-> NoMd5, meta |-> NoFile, todo |-> {}]
Op(k, n, c, m) == [kind |-> k, name |-> n, md5 |-> c, meta |-> m, todo |-> {}]

Kinds == {"none", "stage", "launch", "approve", "reject", "clear", "purge"}
Steps == {"off", "starting", "idle", "write_pending", "write_meta", "promote",
          "promote_meta", "rm_script", "rm_script_meta", "rm_pending",
          "rm_pending_meta", "open_tmp", "write_tmp", "replace", "stat",
          "begin", "purge", "exec"}

ContentFile == Contents \cup {NoFile, Partial}
MetaFile    == Metas \cup {NoFile}

Command == [kind: Kinds, name: Names \cup {NoFile}, md5: Md5s, meta: MetaFile,
            todo: SUBSET Names]


TypeOK ==
    /\ json \in Store \cup {Partial}
    /\ tmp \in Store \cup {Partial, NoFile}
    /\ pendingFile \in [Names -> ContentFile]
    /\ scriptFile \in [Names -> ContentFile]
    /\ pendingMeta \in [Names -> MetaFile]
    /\ scriptMeta \in [Names -> MetaFile]
    /\ policy \in SUBSET Names
    /\ auto \in SUBSET Names
    /\ mem \in [Procs -> Store]
    /\ fresh \in BOOLEAN
    /\ pc \in [Procs -> Steps]
    /\ op \in [Procs -> Command]
    /\ tmpFd \in [Procs -> {"closed", "tmp", "json", "gone"}]
    /\ pendFd \in {"closed", "pending", "scripts", "gone"}
    /\ granted \in [Names -> SUBSET Contents]
    /\ errors \in 0..MaxErrors
    /\ stops \in 0..MaxFailures

(* A fresh installation: no approvals.json, which loads as an empty store; *)
(* nothing is running.                                                     *)
Init ==
    /\ json = EmptyStore
    /\ tmp = NoFile
    /\ pendingFile = [n \in Names |-> NoFile]
    /\ pendingMeta = [n \in Names |-> NoFile]
    /\ scriptFile = [n \in Names |-> NoFile]
    /\ scriptMeta = [n \in Names |-> NoFile]
    /\ policy = {}
    /\ mem = [p \in Procs |-> EmptyStore]
    /\ fresh = FALSE
    /\ auto = {}
    /\ pc = [p \in Procs |-> "off"]
    /\ op = [p \in Procs |-> NoOp]
    /\ tmpFd = [p \in Procs |-> "closed"]
    /\ pendFd = "closed"
    /\ granted = [n \in Names |-> {}]
    /\ errors = 0
    /\ stops = 0

-----------------------------------------------------------------------------
(* How a command ends.  The agent keeps its memory and serves the next     *)
(* request; a csl-agent process exits and its memory is gone.              *)

Finish(p) ==
    /\ pc' = [pc EXCEPT ![p] = IF p = "agent" THEN "idle" ELSE "off"]
    /\ op' = [op EXCEPT ![p] = NoOp]
    /\ mem' = [mem EXCEPT ![p] = IF p = "agent" THEN @ ELSE EmptyStore]

Goto(p, step) == /\ pc' = [pc EXCEPT ![p] = step]
                 /\ UNCHANGED op

Continue(p, step) == Goto(p, step) /\ UNCHANGED mem

(* ApprovalsManager.__init__ in the agent's _lifespan: load, then stat.    *)
AgentLoad ==
    /\ pc["agent"] = "off"
    /\ mem' = [mem EXCEPT !["agent"] = Load]
    /\ auto' = policy
    /\ Goto("agent", "starting")
    /\ UNCHANGED <<json, tmp, tmpFd, fresh, policy, fileVars, history>>

AgentSig ==
    /\ pc["agent"] = "starting"
    /\ fresh' = TRUE
    /\ Goto("agent", "idle")
    /\ UNCHANGED <<json, tmp, tmpFd, mem, fileVars, ownerVars, history>>

(* Mutant: get_state trusts the memory it has.                             *)
NeverSynced == mem["agent"]

(* _sync_from_disk reads the signature before the file, so a change        *)
(* between the two is seen by the next call: the call is one step.         *)
Synced == IF fresh THEN mem["agent"] ELSE Load

SyncFromDisk == /\ mem' = [mem EXCEPT !["agent"] = Synced]
                /\ fresh' = TRUE

(* GET /scripts/{name}/state.                                              *)
GetState ==
    /\ pc["agent"] = "idle"
    /\ SyncFromDisk
    /\ UNCHANGED <<json, tmp, tmpFd, procVars, fileVars, ownerVars, history>>

-----------------------------------------------------------------------------
(* POST /scripts/{name}/stage.  The decision is made on the agent's memory *)
(* as it is: stage does not sync.  Refusals and no-ops change nothing.     *)

(* Mutant: stage forgets that a script was rejected.                       *)
StageAcceptedRejected(n, c) ==
    LET rec == mem["agent"][n] IN
    /\ ~(rec.state = "approved" /\ rec.approved_md5 = c)
    /\ ~(rec.state \in InReview /\ rec.pending_md5 = c)

StageAccepted(n, c) ==
    LET rec == mem["agent"][n] IN
    /\ rec.state # "rejected"
    /\ ~(rec.state = "approved" /\ rec.approved_md5 = c)
    /\ ~(rec.state \in InReview /\ rec.pending_md5 = c)

(* Opening the pending file for writing truncates it.                      *)
Stage(n, c, m) ==
    /\ pc["agent"] = "idle"
    /\ StageAccepted(n, c)
    /\ pendingFile' = [pendingFile EXCEPT ![n] = Partial]
    /\ pendFd' = "pending"
    /\ pc' = [pc EXCEPT !["agent"] = "write_pending"]
    /\ op' = [op EXCEPT !["agent"] = Op("stage", n, c, m)]
    /\ granted' = [granted EXCEPT ![n] = IF n \in auto THEN @ \cup {c} ELSE @]
    /\ UNCHANGED <<pendingMeta, scriptFile, scriptMeta, storeVars, ownerVars, errors, stops>>

AfterStagedFiles == IF op["agent"].name \in auto THEN "promote" ELSE "open_tmp"

WritePending ==
    LET n == op["agent"].name
        c == op["agent"].md5
    IN
    /\ pc["agent"] = "write_pending"
    /\ pendingFile' = [pendingFile EXCEPT ![n] = IF pendFd = "pending" THEN c ELSE @]
    /\ scriptFile' = [scriptFile EXCEPT ![n] = IF pendFd = "scripts" THEN c ELSE @]
    /\ pendFd' = "closed"
    /\ Goto("agent", IF op["agent"].meta # NoFile THEN "write_meta" ELSE AfterStagedFiles)
    /\ UNCHANGED <<pendingMeta, scriptMeta, storeVars, ownerVars, history>>

WriteMeta ==
    /\ pc["agent"] = "write_meta"
    /\ pendingMeta' = [pendingMeta EXCEPT ![op["agent"].name] = op["agent"].meta]
    /\ Goto("agent", AfterStagedFiles)
    /\ UNCHANGED <<pendingFile, scriptFile, scriptMeta, pendFd, storeVars, ownerVars, history>>

-----------------------------------------------------------------------------
(* Moving the staged files into scripts/: auto-approval and approve.       *)

(* Where the agent's open pending file of name n is after the path it is   *)
(* linked at was renamed to, or replaced by, another.                      *)
FdAfterPromote(n) ==
    IF op["agent"].name # n THEN pendFd
    ELSE CASE pendFd = "pending" -> "scripts"
           [] pendFd = "scripts" -> "gone"
           [] OTHER -> pendFd

PromoteScript(p) ==
    LET n == op[p].name IN
    /\ pc[p] = "promote"
    /\ pendingFile[n] # NoFile
    /\ scriptFile' = [scriptFile EXCEPT ![n] = pendingFile[n]]
    /\ pendingFile' = [pendingFile EXCEPT ![n] = NoFile]
    /\ pendFd' = FdAfterPromote(n)
    /\ Goto(p, "promote_meta")
    /\ UNCHANGED <<pendingMeta, scriptMeta, storeVars, ownerVars, history>>

(* approve finds no pending file (ApprovalError), or the rename of an      *)
(* auto-approved file does not (FileNotFoundError): nothing is recorded.   *)
PromoteMissing(p) ==
    /\ pc[p] = "promote"
    /\ pendingFile[op[p].name] = NoFile
    /\ Finish(p)
    /\ UNCHANGED <<diskVars, fileVars, ownerVars, history>>

PromoteMeta(p) ==
    LET n == op[p].name IN
    /\ pc[p] = "promote_meta"
    /\ scriptMeta' = [scriptMeta EXCEPT ![n] = IF pendingMeta[n] # NoFile
                                               THEN pendingMeta[n] ELSE @]
    /\ pendingMeta' = [pendingMeta EXCEPT ![n] = NoFile]
    /\ Goto(p, "open_tmp")
    /\ UNCHANGED <<pendingFile, scriptFile, pendFd, storeVars, ownerVars, history>>

-----------------------------------------------------------------------------
(* _remove_files, in the order of its loops; a missing file is skipped.    *)

RemoveScript(p) ==
    LET n == op[p].name IN
    /\ pc[p] = "rm_script"
    /\ scriptFile' = [scriptFile EXCEPT ![n] = NoFile]
    /\ pendFd' = IF pendFd = "scripts" /\ op["agent"].name = n THEN "gone" ELSE pendFd
    /\ Goto(p, "rm_script_meta")
    /\ UNCHANGED <<pendingFile, pendingMeta, scriptMeta, storeVars, ownerVars, history>>

RemoveScriptMeta(p) ==
    /\ pc[p] = "rm_script_meta"
    /\ scriptMeta' = [scriptMeta EXCEPT ![op[p].name] = NoFile]
    /\ Goto(p, "rm_pending")
    /\ UNCHANGED <<pendingFile, pendingMeta, scriptFile, pendFd, storeVars, ownerVars, history>>

(* Mutant: _remove_files looks at scripts/ only.                           *)
RemovePendingSkipped(p) ==
    /\ pc[p] = "rm_pending"
    /\ Goto(p, "rm_pending_meta")
    /\ UNCHANGED <<fileVars, storeVars, ownerVars, history>>

RemovePending(p) ==
    LET n == op[p].name IN
    /\ pc[p] = "rm_pending"
    /\ pendingFile' = [pendingFile EXCEPT ![n] = NoFile]
    /\ pendFd' = IF pendFd = "pending" /\ op["agent"].name = n THEN "gone" ELSE pendFd
    /\ Goto(p, "rm_pending_meta")
    /\ UNCHANGED <<pendingMeta, scriptFile, scriptMeta, storeVars, ownerVars, history>>

RemovePendingMeta(p) ==
    /\ pc[p] = "rm_pending_meta"
    /\ pendingMeta' = [pendingMeta EXCEPT ![op[p].name] = NoFile]
    /\ Goto(p, "open_tmp")
    /\ UNCHANGED <<pendingFile, scriptFile, scriptMeta, pendFd, storeVars, ownerVars, history>>

-----------------------------------------------------------------------------
(* The new record of a command, and _save: write approvals.tmp, rename it  *)
(* onto approvals.json, stat the result.                                   *)

(* Mutant: an update replaces the approved MD5 before it is approved.      *)
StagedRecordApproves(n, c, rec) ==
    IF n \in auto THEN Rec("approved", c, NoMd5)
    ELSE IF rec.state = "approved" THEN Rec("update_pending", c, c)
    ELSE Rec("pending", NoMd5, c)

StagedRecord(n, c, rec) ==
    IF n \in auto THEN Rec("approved", c, NoMd5)
    ELSE IF rec.state = "approved" THEN Rec("update_pending", rec.approved_md5, c)
    ELSE Rec("pending", NoMd5, c)

(* Mutant: approve clears pending_md5 before it copies it.                 *)
NewRecordUnhashed(p) ==
    LET o == op[p]
        rec == mem[p][o.name]
    IN CASE o.kind = "stage"   -> StagedRecord(o.name, o.md5, rec)
         [] o.kind = "approve" -> Rec("approved", NoMd5, NoMd5)
         [] o.kind = "reject"  -> RejectedRec
         [] OTHER              -> AbsentRec

(* Mutant: rejecting an update falls back to the approved version, whose   *)
(* files are gone.                                                         *)
NewRecordFallsBack(p) ==
    LET o == op[p]
        rec == mem[p][o.name]
    IN CASE o.kind = "stage"   -> StagedRecord(o.name, o.md5, rec)
         [] o.kind = "approve" -> Rec("approved", rec.pending_md5, NoMd5)
         [] o.kind = "reject"  -> IF rec.approved_md5 # NoMd5
                                  THEN Rec("approved", rec.approved_md5, NoMd5)
                                  ELSE RejectedRec
         [] OTHER              -> AbsentRec

NewRecord(p) ==
    LET o == op[p]
        rec == mem[p][o.name]
    IN CASE o.kind = "stage"   -> StagedRecord(o.name, o.md5, rec)
         [] o.kind = "approve" -> Rec("approved", rec.pending_md5, NoMd5)
         [] o.kind = "reject"  -> RejectedRec
         [] OTHER              -> AbsentRec

(* Mutant: _save writes approvals.json in place.                           *)
OpenJson(p) ==
    /\ pc[p] = "open_tmp"
    /\ mem' = [mem EXCEPT ![p][op[p].name] = NewRecord(p)]
    /\ json' = Partial
    /\ tmpFd' = [tmpFd EXCEPT ![p] = "json"]
    /\ fresh' = FALSE
    /\ Goto(p, "write_tmp")
    /\ UNCHANGED <<tmp, fileVars, ownerVars, history>>

OpenTmp(p) ==
    /\ pc[p] = "open_tmp"
    /\ mem' = [mem EXCEPT ![p][op[p].name] = NewRecord(p)]
    /\ tmp' = Partial
    /\ tmpFd' = [tmpFd EXCEPT ![p] = "tmp"]
    /\ Goto(p, "write_tmp")
    /\ UNCHANGED <<json, fresh, fileVars, ownerVars, history>>

(* Both processes write from offset 0, so over a file that the other one   *)
(* has written the result is the new text, or the new text followed by the *)
(* tail of a longer old one.                                               *)
Overwrite(old, new) == IF old \in {Partial, new} THEN {new} ELSE {new, Partial}

WriteTmp(p) ==
    /\ pc[p] = "write_tmp"
    /\ \/ /\ tmpFd[p] = "tmp"
          /\ tmp' \in Overwrite(tmp, mem[p])
          /\ UNCHANGED <<json, fresh>>
       \/ /\ tmpFd[p] = "json"
          /\ json' \in Overwrite(json, mem[p])
          /\ fresh' = FALSE
          /\ UNCHANGED tmp
       \/ /\ tmpFd[p] = "gone"
          /\ UNCHANGED <<json, tmp, fresh>>
    /\ tmpFd' = [tmpFd EXCEPT ![p] = "closed"]
    /\ Goto(p, "replace")
    /\ UNCHANGED <<mem, fileVars, ownerVars, history>>

FdAfterReplace(where) == CASE where = "tmp" -> "json"
                           [] where = "json" -> "gone"
                           [] OTHER -> where

(* The agent goes on to stat the new file; a csl-agent process has nothing *)
(* more to do unless it is purging.                                        *)
AfterSave(p) ==
    IF p = "agent" THEN Continue(p, "stat")
    ELSE IF op[p].kind = "purge" THEN Continue(p, "purge")
    ELSE Finish(p)

ReplaceJson(p) ==
    /\ pc[p] = "replace"
    /\ tmp # NoFile
    /\ json' = tmp
    /\ tmp' = NoFile
    /\ fresh' = FALSE
    /\ tmpFd' = [q \in Procs |-> FdAfterReplace(tmpFd[q])]
    /\ AfterSave(p)
    /\ UNCHANGED <<fileVars, ownerVars, history>>

(* The other process has renamed approvals.tmp away: FileNotFoundError.    *)
ReplaceMissing(p) ==
    /\ pc[p] = "replace"
    /\ tmp = NoFile
    /\ Finish(p)
    /\ UNCHANGED <<diskVars, fileVars, ownerVars, history>>

StatSig ==
    /\ pc["agent"] = "stat"
    /\ fresh' = TRUE
    /\ Finish("agent")
    /\ UNCHANGED <<json, tmp, tmpFd, fileVars, ownerVars, history>>

-----------------------------------------------------------------------------
(* The owner's commands.                                                   *)

(* A run of csl-agent builds its own ApprovalsManager, which loads the     *)
(* store; the command then works on that copy.                             *)
CliStart(p, k, n) ==
    /\ pc[p] = "off"
    /\ mem' = [mem EXCEPT ![p] = Load]
    /\ pc' = [pc EXCEPT ![p] = "begin"]
    /\ op' = [op EXCEPT ![p] = Op(k, n, NoMd5, NoFile)]
    /\ UNCHANGED <<json, tmp, tmpFd, fresh, fileVars, ownerVars, history>>

CliApprove(p) ==
    LET n == op[p].name
        rec == mem[p][n]
    IN
    /\ pc[p] = "begin"
    /\ op[p].kind = "approve"
    /\ \/ /\ rec.state \in InReview
          /\ granted' = [granted EXCEPT ![n] = @ \cup {rec.pending_md5}]
          /\ Continue(p, "promote")
       \/ /\ rec.state \notin InReview
          /\ Finish(p)
          /\ UNCHANGED granted
    /\ UNCHANGED <<diskVars, fileVars, ownerVars, errors, stops>>

CliReject(p) ==
    /\ pc[p] = "begin"
    /\ op[p].kind = "reject"
    /\ IF mem[p][op[p].name].state \in InReview THEN Continue(p, "rm_script") ELSE Finish(p)
    /\ UNCHANGED <<diskVars, fileVars, ownerVars, history>>

CliClear(p) ==
    /\ pc[p] = "begin"
    /\ op[p].kind = "clear"
    /\ IF mem[p][op[p].name].state # "absent" THEN Continue(p, "rm_script") ELSE Finish(p)
    /\ UNCHANGED <<diskVars, fileVars, ownerVars, history>>

(* purge clears every record whose backing file is missing.  It lists the  *)
(* records after _sync_from_disk, which reloads the store if it changed    *)
(* since this process noted its signature, some time after it loaded it.   *)
CliPurge(p) ==
    /\ pc[p] = "begin"
    /\ op[p].kind = "purge"
    /\ \E store \in {mem[p], Load} :
         /\ mem' = [mem EXCEPT ![p] = store]
         /\ op' = [op EXCEPT ![p].todo = {n \in Names : store[n].state # "absent"}]
    /\ pc' = [pc EXCEPT ![p] = "purge"]
    /\ UNCHANGED <<diskVars, fileVars, ownerVars, history>>

Orphaned(n, rec) ==
    \/ rec.state = "approved" /\ scriptFile[n] = NoFile
    \/ rec.state \in InReview /\ pendingFile[n] = NoFile

PurgeNext(p) ==
    /\ pc[p] = "purge"
    /\ \E n \in op[p].todo :
         /\ op' = [op EXCEPT ![p].name = n, ![p].todo = @ \ {n}]
         /\ pc' = [pc EXCEPT ![p] = IF Orphaned(n, mem[p][n]) THEN "rm_script" ELSE "purge"]
    /\ UNCHANGED <<storeVars, fileVars, ownerVars, history>>

PurgeDone(p) ==
    /\ pc[p] = "purge"
    /\ op[p].todo = {}
    /\ Finish(p)
    /\ UNCHANGED <<diskVars, fileVars, ownerVars, history>>

(* csl-agent policy auto-approve | manual <name>: rewrites config.yaml.    *)
PolicyAutoApprove(n) ==
    /\ n \notin policy
    /\ policy' = policy \cup {n}
    /\ UNCHANGED <<auto, storeVars, procVars, fileVars, history>>

PolicyManual(n) ==
    /\ n \in policy
    /\ policy' = policy \ {n}
    /\ UNCHANGED <<auto, storeVars, procVars, fileVars, history>>

-----------------------------------------------------------------------------
(* POST /jobs: the approval and integrity checks, then the execution of    *)
(* whatever the path holds by then.  A refused launch only syncs.          *)

(* Mutant: no hash check before execution.                                 *)
IntegrityUnchecked(n, md5) == TRUE

IntegrityOK(n, md5) == md5 = NoMd5 \/ scriptFile[n] = md5


Launch(n) ==
    LET rec == Synced[n] IN
    /\ pc["agent"] = "idle"
    /\ SyncFromDisk
    /\ rec.state = "approved"
    /\ scriptFile[n] # NoFile
    /\ IntegrityOK(n, rec.approved_md5)
    /\ pc' = [pc EXCEPT !["agent"] = "exec"]
    /\ op' = [op EXCEPT !["agent"] = Op("launch", n, rec.approved_md5, NoFile)]
    /\ UNCHANGED <<json, tmp, tmpFd, fileVars, ownerVars, history>>

Execute ==
    /\ pc["agent"] = "exec"
    /\ Finish("agent")
    /\ UNCHANGED <<diskVars, fileVars, ownerVars, history>>

-----------------------------------------------------------------------------
(* Failures.                                                               *)

(* Whatever a process had open is closed as it was.                        *)
CloseFiles(p) == /\ tmpFd' = [tmpFd EXCEPT ![p] = "closed"]
                 /\ pendFd' = IF p = "agent" THEN "closed" ELSE pendFd

(* An OSError in one of the agent's file operations: it answers 500 and    *)
(* goes on with the memory it has.                                         *)
AgentError ==
    /\ pc["agent"] \notin {"off", "idle", "starting", "exec"}
    /\ errors < MaxErrors
    /\ errors + stops < MaxFailures
    /\ errors' = errors + 1
    /\ Finish("agent")
    /\ CloseFiles("agent")
    /\ UNCHANGED <<json, tmp, fresh, pendingFile, pendingMeta, scriptFile, scriptMeta,
                   ownerVars, granted, stops>>

(* A process ends: the agent is killed or shuts down when idle, a run of   *)
(* csl-agent is interrupted or dies of an OSError.                         *)
ProcessEnds(p) ==
    /\ pc[p] # "off"
    /\ errors + stops < MaxFailures
    /\ stops' = stops + 1
    /\ pc' = [pc EXCEPT ![p] = "off"]
    /\ op' = [op EXCEPT ![p] = NoOp]
    /\ mem' = [mem EXCEPT ![p] = EmptyStore]
    /\ CloseFiles(p)
    /\ fresh' = (fresh /\ p # "agent")
    /\ auto' = IF p = "agent" THEN {} ELSE auto
    /\ UNCHANGED <<json, tmp, pendingFile, pendingMeta, scriptFile, scriptMeta, policy,
                   granted, errors>>

-----------------------------------------------------------------------------

AgentStep ==
    \/ AgentLoad \/ AgentSig \/ GetState
    \/ \E n \in Names, pkg \in Packages : Stage(n, pkg[1], pkg[2])
    \/ WritePending \/ WriteMeta \/ StatSig
    \/ \E n \in Names : Launch(n)
    \/ Execute

SaveStep(p) ==
    \/ PromoteScript(p) \/ PromoteMissing(p) \/ PromoteMeta(p)
    \/ OpenTmp(p) \/ WriteTmp(p) \/ ReplaceJson(p) \/ ReplaceMissing(p)

CliStep(p) ==
    \/ \E k \in {"approve", "reject", "clear"}, n \in Names : CliStart(p, k, n)
    \/ CliStart(p, "purge", NoFile)
    \/ CliApprove(p) \/ CliReject(p) \/ CliClear(p)
    \/ CliPurge(p) \/ PurgeNext(p) \/ PurgeDone(p)
    \/ RemoveScript(p) \/ RemoveScriptMeta(p) \/ RemovePending(p) \/ RemovePendingMeta(p)

PolicyStep == \E n \in AutoNames : PolicyAutoApprove(n) \/ PolicyManual(n)

Next ==
    \/ AgentStep
    \/ \E p \in Procs : SaveStep(p)
    \/ \E p \in Clis : CliStep(p)
    \/ PolicyStep
    \/ AgentError
    \/ \E p \in Procs : ProcessEnds(p)

Spec == Init /\ [][Next]_vars
-----------------------------------------------------------------------------
(* Whatever the interleaving.                                              *)

GoodRecord(rec) ==
    /\ rec.state \in {"approved", "update_pending"} <=> rec.approved_md5 # NoMd5
    /\ rec.state \in InReview <=> rec.pending_md5 # NoMd5

GoodStore(s) == \A n \in Names : GoodRecord(s[n])

(* In every copy of the store (on disk, half-saved, in the memory of any   *)
(* process) a record names an approved MD5 exactly when there is an        *)
(* approved version and a pending MD5 exactly when one is in review.       *)
(* verify_script_integrity skips the hash check of a record without one.   *)
StoresWellFormed ==
    /\ json # Partial => GoodStore(json)
    /\ tmp \notin {Partial, NoFile} => GoodStore(tmp)
    /\ \A p \in Procs : GoodStore(mem[p])

GrantedStore(s) ==
    \A n \in Names : s[n].approved_md5 # NoMd5 => s[n].approved_md5 \in granted[n]

(* No copy of the store, however stale or half-saved, approves an MD5 that *)
(* neither an approve command nor the auto-approve list ever approved.     *)
ApprovalsGranted ==
    /\ json # Partial => GrantedStore(json)
    /\ tmp \notin {Partial, NoFile} => GrantedStore(tmp)
    /\ \A p \in Procs : GrantedStore(mem[p])

(* POST /jobs lets a script through only when the content in scripts/ is   *)
(* one that was approved: with stale memory, lost updates, torn files and  *)
(* crashes between any two file operations.                                *)
OnlyGrantedLaunches ==
    [][pc["agent"] = "idle" /\ pc'["agent"] = "exec" =>
          LET n == op'["agent"].name IN scriptFile[n] \in granted[n]]_vars

=============================================================================
