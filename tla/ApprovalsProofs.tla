--------------------------- MODULE ApprovalsProofs ---------------------------
(***************************************************************************)
(* For every set of scripts, contents and concurrent csl-agent processes,  *)
(* and any number of failures: the types of Approvals, and that the agent  *)
(* launches only contents that were approved.                              *)
(***************************************************************************)
EXTENDS Approvals, TLAPS

USE DEF Procs

(* Steps at which a command works on the script op.name.                   *)
NamedSteps == Steps \ {"off", "starting", "idle", "begin", "purge", "stat"}

RemoveSteps == {"rm_script", "rm_script_meta", "rm_pending", "rm_pending_meta"}

(* What the step a process is at says about its command.                   *)
CommandShape(p) ==
    /\ pc[p] \in NamedSteps => op[p].name \in Names
    /\ pc[p] \in {"off", "starting", "idle"} => op[p].kind = "none"
    /\ pc[p] \in {"write_pending", "write_meta"} => op[p].kind = "stage"
    /\ pc[p] \in RemoveSteps => op[p].kind \in {"reject", "clear", "purge"}
    /\ pc[p] = "purge" => op[p].kind = "purge"
    /\ op[p].kind \in {"approve", "reject", "clear", "stage"} => op[p].name \in Names
    /\ op[p].kind = "stage" => /\ p = "agent"
                               /\ op[p].md5 \in Contents
                               /\ op[p].name \in auto => op[p].md5 \in granted[op[p].name]
    /\ op[p].kind = "approve" /\ pc[p] # "begin" =>
          /\ p # "agent"
          /\ pc[p] \in {"promote", "promote_meta", "open_tmp"} =>
                /\ mem[p][op[p].name].state \in InReview
                /\ mem[p][op[p].name].pending_md5 \in granted[op[p].name]

Commands == \A p \in Procs : CommandShape(p)

(* The inductive invariant.                                                *)
IInv == TypeOK /\ StoresWellFormed /\ ApprovalsGranted /\ Commands

(* The empty store satisfies what is claimed of every store.               *)
LEMMA EmptyStoreGood ==
    EmptyStore \in Store /\ GoodStore(EmptyStore) /\ GrantedStore(EmptyStore)
BY DEF EmptyStore, Store, GoodStore, GrantedStore, AbsentRec, Rec, Record, GoodRecord,
       ApprovalState, Md5s, InReview

(* An idle process has a well-typed command.                               *)
LEMMA NoOpTyped == NoOp \in Command
BY DEF NoOp, Command, Kinds, Md5s, MetaFile

(* A command that ends leaves well-typed processes.                        *)
LEMMA FinishTyped ==
    ASSUME TypeOK, NEW p \in Procs, Finish(p)
    PROVE  pc' \in [Procs -> Steps] /\ op' \in [Procs -> Command] /\ mem' \in [Procs -> Store]
BY NoOpTyped, EmptyStoreGood DEF Finish, TypeOK, Steps

(* Whatever is on disk, a process loads a good store.                      *)
LEMMA LoadGood ==
    ASSUME IInv
    PROVE  Load \in Store /\ GoodStore(Load) /\ GrantedStore(Load)
BY EmptyStoreGood DEF IInv, TypeOK, StoresWellFormed, ApprovalsGranted, Load

(* A fresh installation satisfies the invariant.                           *)
LEMMA InitIInv == Init => IInv
<1> SUFFICES ASSUME Init PROVE IInv
  OBVIOUS
<1>1. TypeOK
  <2>1. NoOp \in Command
    BY NoOpTyped
  <2>2. /\ pendingFile \in [Names -> ContentFile] /\ scriptFile \in [Names -> ContentFile]
        /\ pendingMeta \in [Names -> MetaFile] /\ scriptMeta \in [Names -> MetaFile]
    BY DEF Init, ContentFile, MetaFile
  <2>3. errors \in 0..MaxErrors /\ stops \in 0..MaxFailures
    BY BoundsAssumption DEF Init
  <2> QED
    BY <2>1, <2>2, <2>3, EmptyStoreGood DEF Init, TypeOK, Steps
<1>2. StoresWellFormed /\ ApprovalsGranted
  BY EmptyStoreGood DEF Init, StoresWellFormed, ApprovalsGranted
<1>3. Commands
  BY DEF Init, Commands, CommandShape, NamedSteps, RemoveSteps, NoOp
<1> QED
  BY <1>1, <1>2, <1>3 DEF IInv

-----------------------------------------------------------------------------
(* A store that satisfies the invariant for the approvals g.               *)
Good(s, g) ==
    /\ s \in Store
    /\ GoodStore(s)
    /\ \A n \in Names : s[n].approved_md5 # NoMd5 => s[n].approved_md5 \in g[n]

GrantsKept == \A n \in Names : granted[n] \subseteq granted'[n]

OnlyProc(p) == \A q \in Procs \ {p} : pc'[q] = pc[q] /\ op'[q] = op[q] /\ mem'[q] = mem[q]

(* The invariant, store by store.                                          *)
LEMMA InvGood ==
    ASSUME IInv
    PROVE  /\ \A p \in Procs : Good(mem[p], granted)
           /\ json = Partial \/ Good(json, granted)
           /\ tmp \in {Partial, NoFile} \/ Good(tmp, granted)
           /\ Good(Load, granted)
           /\ Good(EmptyStore, granted)
BY LoadGood, EmptyStoreGood
   DEF IInv, TypeOK, StoresWellFormed, ApprovalsGranted, Good, GrantedStore

(* A good store stays good when approvals are only added.                  *)
LEMMA GoodKept ==
    ASSUME NEW s, Good(s, granted), GrantsKept
    PROVE  Good(s, granted')
BY DEF Good, GrantsKept, Store, Record

(* Enough for the stores: each of them good for the new approvals.         *)
LEMMA StoresStep ==
    ASSUME json' = Partial \/ Good(json', granted'),
           tmp' \in {Partial, NoFile} \/ Good(tmp', granted'),
           \A p \in Procs : Good(mem'[p], granted')
    PROVE  StoresWellFormed' /\ ApprovalsGranted'
BY DEF Good, StoresWellFormed, ApprovalsGranted, GrantedStore, GoodStore

(* Nothing to show for a step that touches no store.                       *)
LEMMA StoresKept ==
    ASSUME IInv, GrantsKept, UNCHANGED <<json, tmp, mem>>
    PROVE  StoresWellFormed' /\ ApprovalsGranted'
BY InvGood, GoodKept, StoresStep

(* Enough for the commands: the one of the process that moved.             *)
LEMMA CommandsStep ==
    ASSUME IInv, GrantsKept, NEW p \in Procs, OnlyProc(p),
           p = "agent" \/ auto' = auto, CommandShape(p)'
    PROVE  Commands'
<1> SUFFICES ASSUME NEW q \in Procs, q # p
             PROVE  CommandShape(q)'
  BY DEF Commands
<1>1. CommandShape(q)
  BY DEF IInv, Commands
<1>2. /\ pc'[q] = pc[q] /\ op'[q] = op[q] /\ mem'[q] = mem[q]
  BY DEF OnlyProc
<1>3. op[q].kind = "stage" => auto' = auto
  BY <1>1 DEF CommandShape
<1>4. op[q].name \in Names => granted[op[q].name] \subseteq granted'[op[q].name]
  BY DEF GrantsKept
<1> QED
  BY <1>1, <1>2, <1>3, <1>4 DEF CommandShape

-----------------------------------------------------------------------------
(* The agent's actions.                                                    *)

(* The agent starts and loads approvals.json.                              *)
LEMMA AgentLoadInv ==
    ASSUME IInv, AgentLoad
    PROVE  IInv'
<1> USE DEF AgentLoad, Goto, storeVars, diskVars, fileVars, procVars, ownerVars, history
<1>1. GrantsKept
  BY DEF GrantsKept, history
<1>2. TypeOK'
  BY LoadGood DEF IInv, TypeOK, Steps
<1>3. StoresWellFormed' /\ ApprovalsGranted'
  <2>1. \A q \in Procs : Good(mem'[q], granted')
    BY <1>1, InvGood, GoodKept DEF IInv, TypeOK
  <2> QED
    BY <1>1, <2>1, InvGood, GoodKept, StoresStep
<1>4. OnlyProc("agent") /\ ("agent" = "agent" \/ auto' = auto)
  BY DEF OnlyProc, IInv, TypeOK
<1>5. CommandShape("agent")'
  BY DEF IInv, TypeOK, Commands, CommandShape, NamedSteps, RemoveSteps, Steps
<1> QED
  BY <1>1, <1>2, <1>3, <1>4, <1>5, CommandsStep DEF IInv

(* The agent notes the signature of the file it loaded.                    *)
LEMMA AgentSigInv ==
    ASSUME IInv, AgentSig
    PROVE  IInv'
<1> USE DEF AgentSig, Goto, storeVars, diskVars, fileVars, procVars, ownerVars, history
<1>1. GrantsKept
  BY DEF GrantsKept, history
<1>2. TypeOK'
  BY DEF IInv, TypeOK, Steps
<1>3. StoresWellFormed' /\ ApprovalsGranted'
  BY <1>1, StoresKept DEF storeVars, diskVars
<1>4. OnlyProc("agent") /\ ("agent" = "agent" \/ auto' = auto)
  BY DEF OnlyProc, IInv, TypeOK
<1>5. CommandShape("agent")'
  BY DEF IInv, TypeOK, Commands, CommandShape, NamedSteps, RemoveSteps, Steps
<1> QED
  BY <1>1, <1>2, <1>3, <1>4, <1>5, CommandsStep DEF IInv

(* GET /scripts/{name}/state.                                              *)
LEMMA GetStateInv ==
    ASSUME IInv, GetState
    PROVE  IInv'
<1> USE DEF GetState, SyncFromDisk, Synced, storeVars, diskVars, fileVars, procVars, ownerVars, history
<1>1. GrantsKept
  BY DEF GrantsKept, history
<1>2. TypeOK'
  BY LoadGood DEF IInv, TypeOK
<1>3. StoresWellFormed' /\ ApprovalsGranted'
  <2>1. \A q \in Procs : Good(mem'[q], granted')
    BY <1>1, InvGood, GoodKept DEF IInv, TypeOK
  <2> QED
    BY <1>1, <2>1, InvGood, GoodKept, StoresStep
<1>4. OnlyProc("agent") /\ ("agent" = "agent" \/ auto' = auto)
  BY DEF OnlyProc, IInv, TypeOK
<1>5. CommandShape("agent")'
  BY DEF IInv, TypeOK, Commands, CommandShape, NamedSteps, RemoveSteps, Steps
<1> QED
  BY <1>1, <1>2, <1>3, <1>4, <1>5, CommandsStep DEF IInv

(* POST /scripts/{name}/stage opens the pending file; auto-approval counts.*)
LEMMA StageInv ==
    ASSUME IInv, NEW n \in Names, NEW pkg \in Packages, Stage(n, pkg[1], pkg[2])
    PROVE  IInv'
<1> USE DEF Stage, Op, storeVars, diskVars, fileVars, procVars, ownerVars, history
<1>0. pkg[1] \in Contents /\ pkg[2] \in Metas \cup {NoFile}
  BY PackagesAssumption
<1>1. GrantsKept
  BY DEF GrantsKept, IInv, TypeOK
<1>2. TypeOK'
  BY <1>0 DEF IInv, TypeOK, Steps, ContentFile, Command, Kinds, Md5s, MetaFile
<1>3. StoresWellFormed' /\ ApprovalsGranted'
  BY <1>1, StoresKept DEF storeVars, diskVars
<1>4. OnlyProc("agent") /\ ("agent" = "agent" \/ auto' = auto)
  BY DEF OnlyProc, IInv, TypeOK
<1>5. CommandShape("agent")'
  BY <1>0 DEF IInv, TypeOK, Commands, CommandShape, NamedSteps, RemoveSteps, Steps
<1> QED
  BY <1>1, <1>2, <1>3, <1>4, <1>5, CommandsStep DEF IInv

(* The pending file is written.                                            *)
LEMMA WritePendingInv ==
    ASSUME IInv, WritePending
    PROVE  IInv'
<1> USE DEF WritePending, Goto, AfterStagedFiles, storeVars, diskVars, fileVars, procVars, ownerVars, history
<1>0. op["agent"].md5 \in Contents
  BY DEF IInv, Commands, CommandShape
<1>1. GrantsKept
  BY DEF GrantsKept, history
<1>2. TypeOK'
  BY <1>0 DEF IInv, TypeOK, Steps, ContentFile
<1>3. StoresWellFormed' /\ ApprovalsGranted'
  BY <1>1, StoresKept DEF storeVars, diskVars
<1>4. OnlyProc("agent") /\ ("agent" = "agent" \/ auto' = auto)
  BY DEF OnlyProc, IInv, TypeOK
<1>5. CommandShape("agent")'
  BY DEF IInv, TypeOK, Commands, CommandShape, NamedSteps, RemoveSteps, Steps
<1> QED
  BY <1>1, <1>2, <1>3, <1>4, <1>5, CommandsStep DEF IInv

(* The pending metadata is written.                                        *)
LEMMA WriteMetaInv ==
    ASSUME IInv, WriteMeta
    PROVE  IInv'
<1> USE DEF WriteMeta, Goto, AfterStagedFiles, storeVars, diskVars, fileVars, procVars, ownerVars, history
<1>1. GrantsKept
  BY DEF GrantsKept, history
<1>2. TypeOK'
  BY DEF IInv, TypeOK, Steps, Command
<1>3. StoresWellFormed' /\ ApprovalsGranted'
  BY <1>1, StoresKept DEF storeVars, diskVars
<1>4. OnlyProc("agent") /\ ("agent" = "agent" \/ auto' = auto)
  BY DEF OnlyProc, IInv, TypeOK
<1>5. CommandShape("agent")'
  BY DEF IInv, TypeOK, Commands, CommandShape, NamedSteps, RemoveSteps, Steps
<1> QED
  BY <1>1, <1>2, <1>3, <1>4, <1>5, CommandsStep DEF IInv

(* The end of a save of the agent.                                         *)
LEMMA StatSigInv ==
    ASSUME IInv, StatSig
    PROVE  IInv'
<1> USE DEF StatSig, Finish, storeVars, diskVars, fileVars, procVars, ownerVars, history
<1>1. GrantsKept
  BY DEF GrantsKept, history
<1>2. TypeOK'
  BY NoOpTyped DEF IInv, TypeOK, Steps
<1>3. StoresWellFormed' /\ ApprovalsGranted'
  <2>1. \A q \in Procs : Good(mem'[q], granted')
    BY <1>1, InvGood, GoodKept DEF IInv, TypeOK
  <2> QED
    BY <1>1, <2>1, InvGood, GoodKept, StoresStep
<1>4. OnlyProc("agent") /\ ("agent" = "agent" \/ auto' = auto)
  BY DEF OnlyProc, IInv, TypeOK
<1>5. CommandShape("agent")'
  BY DEF IInv, TypeOK, Commands, CommandShape, NamedSteps, RemoveSteps, Steps, NoOp
<1> QED
  BY <1>1, <1>2, <1>3, <1>4, <1>5, CommandsStep DEF IInv

(* The checks of POST /jobs.                                               *)
LEMMA LaunchInv ==
    ASSUME IInv, NEW n \in Names, Launch(n)
    PROVE  IInv'
<1> USE DEF Launch, SyncFromDisk, Synced, Op, storeVars, diskVars, fileVars, procVars, ownerVars, history
<1>1. GrantsKept
  BY DEF GrantsKept, history
<1>2. TypeOK'
  BY LoadGood DEF IInv, TypeOK, Steps, Command, Kinds, Md5s, MetaFile, Store, Record
<1>3. StoresWellFormed' /\ ApprovalsGranted'
  <2>1. \A q \in Procs : Good(mem'[q], granted')
    BY <1>1, InvGood, GoodKept DEF IInv, TypeOK
  <2> QED
    BY <1>1, <2>1, InvGood, GoodKept, StoresStep
<1>4. OnlyProc("agent") /\ ("agent" = "agent" \/ auto' = auto)
  BY DEF OnlyProc, IInv, TypeOK
<1>5. CommandShape("agent")'
  BY DEF IInv, TypeOK, Commands, CommandShape, NamedSteps, RemoveSteps, Steps
<1> QED
  BY <1>1, <1>2, <1>3, <1>4, <1>5, CommandsStep DEF IInv

(* The execution after the checks.                                         *)
LEMMA ExecuteInv ==
    ASSUME IInv, Execute
    PROVE  IInv'
<1> USE DEF Execute, Finish, storeVars, diskVars, fileVars, procVars, ownerVars, history
<1>1. GrantsKept
  BY DEF GrantsKept, history
<1>2. TypeOK'
  BY NoOpTyped DEF IInv, TypeOK, Steps
<1>3. StoresWellFormed' /\ ApprovalsGranted'
  <2>1. \A q \in Procs : Good(mem'[q], granted')
    BY <1>1, InvGood, GoodKept DEF IInv, TypeOK
  <2> QED
    BY <1>1, <2>1, InvGood, GoodKept, StoresStep
<1>4. OnlyProc("agent") /\ ("agent" = "agent" \/ auto' = auto)
  BY DEF OnlyProc, IInv, TypeOK
<1>5. CommandShape("agent")'
  BY DEF IInv, TypeOK, Commands, CommandShape, NamedSteps, RemoveSteps, Steps, NoOp
<1> QED
  BY <1>1, <1>2, <1>3, <1>4, <1>5, CommandsStep DEF IInv

(* An I/O error of the agent.                                              *)
LEMMA AgentErrorInv ==
    ASSUME IInv, AgentError
    PROVE  IInv'
<1> USE DEF AgentError, Finish, CloseFiles, storeVars, diskVars, fileVars, procVars, ownerVars, history
<1>1. GrantsKept
  BY DEF GrantsKept, history
<1>2. TypeOK'
  BY NoOpTyped, BoundsAssumption DEF IInv, TypeOK, Steps
<1>3. StoresWellFormed' /\ ApprovalsGranted'
  <2>1. \A q \in Procs : Good(mem'[q], granted')
    BY <1>1, InvGood, GoodKept DEF IInv, TypeOK
  <2> QED
    BY <1>1, <2>1, InvGood, GoodKept, StoresStep
<1>4. OnlyProc("agent") /\ ("agent" = "agent" \/ auto' = auto)
  BY DEF OnlyProc, IInv, TypeOK
<1>5. CommandShape("agent")'
  BY DEF IInv, TypeOK, Commands, CommandShape, NamedSteps, RemoveSteps, Steps, NoOp
<1> QED
  BY <1>1, <1>2, <1>3, <1>4, <1>5, CommandsStep DEF IInv

-----------------------------------------------------------------------------
(* Moving files and saving, by either side.                                *)

(* The staged script moves to scripts/.                                    *)
LEMMA PromoteScriptInv ==
    ASSUME IInv, NEW p \in Procs, PromoteScript(p)
    PROVE  IInv'
<1> USE DEF PromoteScript, Goto, FdAfterPromote, storeVars, diskVars, fileVars, procVars, ownerVars, history
<1>1. GrantsKept
  BY DEF GrantsKept, history
<1>2. TypeOK'
  BY DEF IInv, TypeOK, Steps, ContentFile
<1>3. StoresWellFormed' /\ ApprovalsGranted'
  BY <1>1, StoresKept DEF storeVars, diskVars
<1>4. OnlyProc(p) /\ (p = "agent" \/ auto' = auto)
  BY DEF OnlyProc, IInv, TypeOK
<1>5. CommandShape(p)'
  BY DEF IInv, TypeOK, Commands, CommandShape, NamedSteps, RemoveSteps, Steps
<1> QED
  BY <1>1, <1>2, <1>3, <1>4, <1>5, CommandsStep DEF IInv

(* There is no staged script to move.                                      *)
LEMMA PromoteMissingInv ==
    ASSUME IInv, NEW p \in Procs, PromoteMissing(p)
    PROVE  IInv'
<1> USE DEF PromoteMissing, Finish, storeVars, diskVars, fileVars, procVars, ownerVars, history
<1>1. GrantsKept
  BY DEF GrantsKept, history
<1>2. TypeOK'
  BY NoOpTyped, EmptyStoreGood DEF IInv, TypeOK, Steps
<1>3. StoresWellFormed' /\ ApprovalsGranted'
  <2>1. \A q \in Procs : Good(mem'[q], granted')
    BY <1>1, InvGood, GoodKept DEF IInv, TypeOK
  <2> QED
    BY <1>1, <2>1, InvGood, GoodKept, StoresStep
<1>4. OnlyProc(p) /\ (p = "agent" \/ auto' = auto)
  BY DEF OnlyProc, IInv, TypeOK
<1>5. CommandShape(p)'
  BY ClisAssumption DEF IInv, TypeOK, Commands, CommandShape, NamedSteps, RemoveSteps, Steps, NoOp
<1> QED
  BY <1>1, <1>2, <1>3, <1>4, <1>5, CommandsStep DEF IInv

(* The staged metadata moves to scripts/.                                  *)
LEMMA PromoteMetaInv ==
    ASSUME IInv, NEW p \in Procs, PromoteMeta(p)
    PROVE  IInv'
<1> USE DEF PromoteMeta, Goto, storeVars, diskVars, fileVars, procVars, ownerVars, history
<1>1. GrantsKept
  BY DEF GrantsKept, history
<1>2. TypeOK'
  BY DEF IInv, TypeOK, Steps, MetaFile
<1>3. StoresWellFormed' /\ ApprovalsGranted'
  BY <1>1, StoresKept DEF storeVars, diskVars
<1>4. OnlyProc(p) /\ (p = "agent" \/ auto' = auto)
  BY DEF OnlyProc, IInv, TypeOK
<1>5. CommandShape(p)'
  BY DEF IInv, TypeOK, Commands, CommandShape, NamedSteps, RemoveSteps, Steps
<1> QED
  BY <1>1, <1>2, <1>3, <1>4, <1>5, CommandsStep DEF IInv

(* The new record of a command: the step that could approve something.     *)
LEMMA OpenTmpInv ==
    ASSUME IInv, NEW p \in Procs, OpenTmp(p)
    PROVE  IInv'
<1> USE DEF OpenTmp, Goto, fileVars, ownerVars, history
<1> DEFINE n == op[p].name
           rec == mem[p][n]
<1>1. GrantsKept
  BY DEF GrantsKept
<1>2. n \in Names /\ CommandShape(p) /\ mem[p] \in Store /\ Good(mem[p], granted) /\ op[p] \in Command
  BY InvGood DEF IInv, TypeOK, Commands, CommandShape, NamedSteps, Steps
<1>3. rec \in Record /\ GoodRecord(rec) /\ (rec.approved_md5 # NoMd5 => rec.approved_md5 \in granted[n])
  BY <1>2 DEF Good, Store, GoodStore
<1>4. /\ NewRecord(p) \in Record
      /\ GoodRecord(NewRecord(p))
      /\ NewRecord(p).approved_md5 # NoMd5 => NewRecord(p).approved_md5 \in granted[n]
  <2>1. CASE op[p].kind = "stage"
    BY <1>2, <1>3, <2>1, NoMd5Assumption
       DEF NewRecord, StagedRecord, Rec, Record, GoodRecord, CommandShape, Md5s, InReview, ApprovalState
  <2>2. CASE op[p].kind = "approve"
    BY <1>2, <1>3, <2>2, NoMd5Assumption
       DEF NewRecord, Rec, Record, GoodRecord, CommandShape, Md5s, InReview, ApprovalState
  <2>3. CASE op[p].kind \notin {"stage", "approve"}
    BY <2>3 DEF NewRecord, RejectedRec, AbsentRec, Rec, Record, GoodRecord, Md5s, InReview, ApprovalState
  <2> QED
    BY <2>1, <2>2, <2>3
<1>5. mem'[p] = [mem[p] EXCEPT ![n] = NewRecord(p)] /\ Good(mem'[p], granted')
  <2>1. mem'[p] = [mem[p] EXCEPT ![n] = NewRecord(p)]
    BY DEF IInv, TypeOK
  <2> QED
    BY <1>2, <1>4, <2>1 DEF Good, Store, GoodStore
<1>6. TypeOK'
  <2>1. mem' \in [Procs -> Store]
    BY <1>5 DEF IInv, TypeOK, Good
  <2> QED
    BY <2>1 DEF IInv, TypeOK, Steps
<1>7. StoresWellFormed' /\ ApprovalsGranted'
  <2>1. \A q \in Procs : Good(mem'[q], granted')
    BY <1>5, InvGood DEF IInv, TypeOK
  <2> QED
    BY <2>1, InvGood, StoresStep
<1>8. OnlyProc(p) /\ (p = "agent" \/ auto' = auto)
  BY DEF OnlyProc, IInv, TypeOK
<1>9. CommandShape(p)'
  BY <1>2 DEF IInv, TypeOK, CommandShape, NamedSteps, RemoveSteps, Steps
<1> QED
  BY <1>1, <1>6, <1>7, <1>8, <1>9, CommandsStep DEF IInv

(* approvals.tmp is written, wherever it is linked by now.                 *)
LEMMA WriteTmpInv ==
    ASSUME IInv, NEW p \in Procs, WriteTmp(p)
    PROVE  IInv'
<1> USE DEF WriteTmp, Goto, fileVars, ownerVars, history
<1>1. GrantsKept
  BY DEF GrantsKept
<1>2. mem[p] \in Store
  BY DEF IInv, TypeOK
<1>3. json' \in {json, mem[p], Partial} /\ tmp' \in {tmp, mem[p], Partial}
  BY DEF Overwrite
<1>4. TypeOK'
  BY <1>2, <1>3 DEF IInv, TypeOK, Steps
<1>5. StoresWellFormed' /\ ApprovalsGranted'
  BY <1>3, InvGood, StoresStep
<1>6. OnlyProc(p) /\ (p = "agent" \/ auto' = auto)
  BY DEF OnlyProc, IInv, TypeOK
<1>7. CommandShape(p)'
  BY DEF IInv, TypeOK, Commands, CommandShape, NamedSteps, RemoveSteps, Steps
<1> QED
  BY <1>1, <1>4, <1>5, <1>6, <1>7, CommandsStep DEF IInv

(* approvals.tmp becomes approvals.json.                                   *)
LEMMA ReplaceJsonInv ==
    ASSUME IInv, NEW p \in Procs, ReplaceJson(p)
    PROVE  IInv'
<1> USE DEF ReplaceJson, AfterSave, Finish, Continue, Goto, fileVars, ownerVars, history
<1>1. GrantsKept
  BY DEF GrantsKept
<1>2. /\ pc' \in [Procs -> Steps] /\ op' \in [Procs -> Command] /\ mem' \in [Procs -> Store]
      /\ tmpFd' \in [Procs -> {"closed", "tmp", "json", "gone"}]
  BY NoOpTyped, EmptyStoreGood DEF IInv, TypeOK, Steps, FdAfterReplace
<1>3. TypeOK'
  BY <1>2 DEF IInv, TypeOK
<1>4. StoresWellFormed' /\ ApprovalsGranted'
  <2>1. \A q \in Procs : Good(mem'[q], granted')
    BY InvGood DEF IInv, TypeOK
  <2> QED
    BY <2>1, InvGood, StoresStep
<1>5. OnlyProc(p) /\ (p = "agent" \/ auto' = auto)
  BY DEF OnlyProc, IInv, TypeOK
<1>6. CommandShape(p)'
  BY DEF IInv, TypeOK, Commands, CommandShape, NamedSteps, RemoveSteps, Steps, NoOp
<1> QED
  BY <1>1, <1>3, <1>4, <1>5, <1>6, CommandsStep DEF IInv

(* approvals.tmp is gone.                                                  *)
LEMMA ReplaceMissingInv ==
    ASSUME IInv, NEW p \in Procs, ReplaceMissing(p)
    PROVE  IInv'
<1> USE DEF ReplaceMissing, Finish, storeVars, diskVars, fileVars, procVars, ownerVars, history
<1>1. GrantsKept
  BY DEF GrantsKept, history
<1>2. TypeOK'
  BY NoOpTyped, EmptyStoreGood DEF IInv, TypeOK, Steps
<1>3. StoresWellFormed' /\ ApprovalsGranted'
  <2>1. \A q \in Procs : Good(mem'[q], granted')
    BY <1>1, InvGood, GoodKept DEF IInv, TypeOK
  <2> QED
    BY <1>1, <2>1, InvGood, GoodKept, StoresStep
<1>4. OnlyProc(p) /\ (p = "agent" \/ auto' = auto)
  BY DEF OnlyProc, IInv, TypeOK
<1>5. CommandShape(p)'
  BY ClisAssumption DEF IInv, TypeOK, Commands, CommandShape, NamedSteps, RemoveSteps, Steps, NoOp
<1> QED
  BY <1>1, <1>2, <1>3, <1>4, <1>5, CommandsStep DEF IInv

-----------------------------------------------------------------------------
(* The owner's commands.                                                   *)

(* approve: the step that grants an approval.                              *)
LEMMA CliApproveInv ==
    ASSUME IInv, NEW p \in Clis, CliApprove(p)
    PROVE  IInv'
<1> USE DEF CliApprove, Finish, Continue, Goto, storeVars, diskVars, fileVars, procVars, ownerVars, history
<1>a. op[p].name \in Names
  BY DEF IInv, Commands, CommandShape
<1>b. mem[p] \in Store /\ GoodStore(mem[p])
  BY DEF IInv, TypeOK, StoresWellFormed
<1>c. mem[p][op[p].name].state \in InReview => mem[p][op[p].name].pending_md5 \in Contents
  BY <1>a, <1>b DEF GoodStore, GoodRecord, Store, Record, Md5s
<1>d. pc' \in [Procs -> Steps] /\ op' \in [Procs -> Command] /\ mem' \in [Procs -> Store]
  <2>1. CASE Finish(p)
    BY ONLY <2>1, FinishTyped, IInv, p \in Clis DEF IInv
  <2>2. CASE Continue(p, "promote")
    BY ONLY <2>2, IInv, p \in Clis DEF IInv, TypeOK, Continue, Goto, Steps
  <2> QED BY <2>1, <2>2
<1>0. op[p].name \in Names /\ granted' \in [Names -> SUBSET Contents]
  BY <1>a, <1>c DEF IInv, TypeOK
<1>1. GrantsKept
  BY <1>0 DEF GrantsKept, IInv, TypeOK
<1>2. TypeOK'
  BY <1>0, <1>d DEF IInv, TypeOK
<1>3. StoresWellFormed' /\ ApprovalsGranted'
  <2>1. \A q \in Procs : Good(mem'[q], granted')
    BY <1>1, InvGood, GoodKept DEF IInv, TypeOK
  <2> QED
    BY <1>1, <2>1, InvGood, GoodKept, StoresStep
<1>4. OnlyProc(p) /\ (p = "agent" \/ auto' = auto)
  BY DEF OnlyProc, IInv, TypeOK
<1>5. CommandShape(p)'
  BY <1>0, ClisAssumption DEF IInv, TypeOK, Commands, CommandShape, NamedSteps, RemoveSteps, Steps, NoOp
<1> QED
  BY <1>1, <1>2, <1>3, <1>4, <1>5, CommandsStep DEF IInv

(* reject starts removing files.                                           *)
LEMMA CliRejectInv ==
    ASSUME IInv, NEW p \in Clis, CliReject(p)
    PROVE  IInv'
<1> USE DEF CliReject, Finish, Continue, Goto, storeVars, diskVars, fileVars, procVars, ownerVars, history
<1>1. GrantsKept
  BY DEF GrantsKept, history
<1>2. TypeOK'
  BY NoOpTyped, EmptyStoreGood DEF IInv, TypeOK, Steps
<1>3. StoresWellFormed' /\ ApprovalsGranted'
  <2>1. \A q \in Procs : Good(mem'[q], granted')
    BY <1>1, InvGood, GoodKept DEF IInv, TypeOK
  <2> QED
    BY <1>1, <2>1, InvGood, GoodKept, StoresStep
<1>4. OnlyProc(p) /\ (p = "agent" \/ auto' = auto)
  BY DEF OnlyProc, IInv, TypeOK
<1>5. CommandShape(p)'
  BY ClisAssumption DEF IInv, TypeOK, Commands, CommandShape, NamedSteps, RemoveSteps, Steps, NoOp
<1> QED
  BY <1>1, <1>2, <1>3, <1>4, <1>5, CommandsStep DEF IInv

(* clear starts removing files.                                            *)
LEMMA CliClearInv ==
    ASSUME IInv, NEW p \in Clis, CliClear(p)
    PROVE  IInv'
<1> USE DEF CliClear, Finish, Continue, Goto, storeVars, diskVars, fileVars, procVars, ownerVars, history
<1>1. GrantsKept
  BY DEF GrantsKept, history
<1>2. TypeOK'
  BY NoOpTyped, EmptyStoreGood DEF IInv, TypeOK, Steps
<1>3. StoresWellFormed' /\ ApprovalsGranted'
  <2>1. \A q \in Procs : Good(mem'[q], granted')
    BY <1>1, InvGood, GoodKept DEF IInv, TypeOK
  <2> QED
    BY <1>1, <2>1, InvGood, GoodKept, StoresStep
<1>4. OnlyProc(p) /\ (p = "agent" \/ auto' = auto)
  BY DEF OnlyProc, IInv, TypeOK
<1>5. CommandShape(p)'
  BY ClisAssumption DEF IInv, TypeOK, Commands, CommandShape, NamedSteps, RemoveSteps, Steps, NoOp
<1> QED
  BY <1>1, <1>2, <1>3, <1>4, <1>5, CommandsStep DEF IInv

(* purge lists the records.                                                *)
LEMMA CliPurgeInv ==
    ASSUME IInv, NEW p \in Clis, CliPurge(p)
    PROVE  IInv'
<1> USE DEF CliPurge, diskVars, fileVars, ownerVars, history
<1>0. PICK store \in {mem[p], Load} :
        /\ mem' = [mem EXCEPT ![p] = store]
        /\ op' = [op EXCEPT ![p].todo = {n \in Names : store[n].state # "absent"}]
  OBVIOUS
<1>1. GrantsKept
  BY DEF GrantsKept
<1>2. TypeOK'
  BY <1>0, LoadGood DEF IInv, TypeOK, Steps, Command
<1>3. StoresWellFormed' /\ ApprovalsGranted'
  <2>1. \A q \in Procs : Good(mem'[q], granted')
    BY <1>0, InvGood DEF IInv, TypeOK
  <2> QED
    BY <2>1, InvGood, StoresStep
<1>4. OnlyProc(p) /\ (p = "agent" \/ auto' = auto)
  BY <1>0 DEF OnlyProc, IInv, TypeOK
<1>5. CommandShape(p)'
  <2>1. CommandShape(p)
    BY DEF IInv, Commands
  <2>2. op'[p].kind = "purge" /\ pc'[p] = "purge"
    BY <1>0 DEF IInv, TypeOK, Command
  <2> QED BY <2>2 DEF CommandShape, NamedSteps, RemoveSteps
<1> QED
  BY <1>1, <1>2, <1>3, <1>4, <1>5, CommandsStep DEF IInv

(* purge takes the next record.                                            *)
LEMMA PurgeNextInv ==
    ASSUME IInv, NEW p \in Clis, PurgeNext(p)
    PROVE  IInv'
<1> USE DEF PurgeNext, storeVars, diskVars, fileVars, procVars, ownerVars, history
<1>0. op'[p].name \in Names /\ op'[p].kind = "purge"
  BY DEF IInv, TypeOK, Command, Commands, CommandShape
<1>1. GrantsKept
  BY DEF GrantsKept, history
<1>2. TypeOK'
  BY DEF IInv, TypeOK, Steps, Command
<1>3. StoresWellFormed' /\ ApprovalsGranted'
  BY <1>1, StoresKept DEF storeVars, diskVars
<1>4. OnlyProc(p) /\ (p = "agent" \/ auto' = auto)
  BY DEF OnlyProc, IInv, TypeOK
<1>5. CommandShape(p)'
  BY <1>0, ClisAssumption DEF IInv, TypeOK, Commands, CommandShape, NamedSteps, RemoveSteps, Steps
<1> QED
  BY <1>1, <1>2, <1>3, <1>4, <1>5, CommandsStep DEF IInv

(* purge has seen every record.                                            *)
LEMMA PurgeDoneInv ==
    ASSUME IInv, NEW p \in Clis, PurgeDone(p)
    PROVE  IInv'
<1> USE DEF PurgeDone, Finish, storeVars, diskVars, fileVars, procVars, ownerVars, history
<1>1. GrantsKept
  BY DEF GrantsKept, history
<1>2. TypeOK'
  BY NoOpTyped, EmptyStoreGood DEF IInv, TypeOK, Steps
<1>3. StoresWellFormed' /\ ApprovalsGranted'
  <2>1. \A q \in Procs : Good(mem'[q], granted')
    BY <1>1, InvGood, GoodKept DEF IInv, TypeOK
  <2> QED
    BY <1>1, <2>1, InvGood, GoodKept, StoresStep
<1>4. OnlyProc(p) /\ (p = "agent" \/ auto' = auto)
  BY DEF OnlyProc, IInv, TypeOK
<1>5. CommandShape(p)'
  BY ClisAssumption DEF IInv, TypeOK, Commands, CommandShape, NamedSteps, RemoveSteps, Steps, NoOp
<1> QED
  BY <1>1, <1>2, <1>3, <1>4, <1>5, CommandsStep DEF IInv

(* A script is removed from scripts/.                                      *)
LEMMA RemoveScriptInv ==
    ASSUME IInv, NEW p \in Clis, RemoveScript(p)
    PROVE  IInv'
<1> USE DEF RemoveScript, Goto, storeVars, diskVars, fileVars, procVars, ownerVars, history
<1>1. GrantsKept
  BY DEF GrantsKept, history
<1>2. TypeOK'
  BY DEF IInv, TypeOK, Steps, ContentFile, MetaFile
<1>3. StoresWellFormed' /\ ApprovalsGranted'
  BY <1>1, StoresKept DEF storeVars, diskVars
<1>4. OnlyProc(p) /\ (p = "agent" \/ auto' = auto)
  BY DEF OnlyProc, IInv, TypeOK
<1>5. CommandShape(p)'
  BY DEF IInv, TypeOK, Commands, CommandShape, NamedSteps, RemoveSteps, Steps
<1> QED
  BY <1>1, <1>2, <1>3, <1>4, <1>5, CommandsStep DEF IInv

(* Its metadata is removed.                                                *)
LEMMA RemoveScriptMetaInv ==
    ASSUME IInv, NEW p \in Clis, RemoveScriptMeta(p)
    PROVE  IInv'
<1> USE DEF RemoveScriptMeta, Goto, storeVars, diskVars, fileVars, procVars, ownerVars, history
<1>1. GrantsKept
  BY DEF GrantsKept, history
<1>2. TypeOK'
  BY DEF IInv, TypeOK, Steps, ContentFile, MetaFile
<1>3. StoresWellFormed' /\ ApprovalsGranted'
  BY <1>1, StoresKept DEF storeVars, diskVars
<1>4. OnlyProc(p) /\ (p = "agent" \/ auto' = auto)
  BY DEF OnlyProc, IInv, TypeOK
<1>5. CommandShape(p)'
  BY DEF IInv, TypeOK, Commands, CommandShape, NamedSteps, RemoveSteps, Steps
<1> QED
  BY <1>1, <1>2, <1>3, <1>4, <1>5, CommandsStep DEF IInv

(* A script is removed from scripts.pending/.                              *)
LEMMA RemovePendingInv ==
    ASSUME IInv, NEW p \in Clis, RemovePending(p)
    PROVE  IInv'
<1> USE DEF RemovePending, Goto, storeVars, diskVars, fileVars, procVars, ownerVars, history
<1>1. GrantsKept
  BY DEF GrantsKept, history
<1>2. TypeOK'
  BY DEF IInv, TypeOK, Steps, ContentFile, MetaFile
<1>3. StoresWellFormed' /\ ApprovalsGranted'
  BY <1>1, StoresKept DEF storeVars, diskVars
<1>4. OnlyProc(p) /\ (p = "agent" \/ auto' = auto)
  BY DEF OnlyProc, IInv, TypeOK
<1>5. CommandShape(p)'
  BY DEF IInv, TypeOK, Commands, CommandShape, NamedSteps, RemoveSteps, Steps
<1> QED
  BY <1>1, <1>2, <1>3, <1>4, <1>5, CommandsStep DEF IInv

(* Its metadata is removed.                                                *)
LEMMA RemovePendingMetaInv ==
    ASSUME IInv, NEW p \in Clis, RemovePendingMeta(p)
    PROVE  IInv'
<1> USE DEF RemovePendingMeta, Goto, storeVars, diskVars, fileVars, procVars, ownerVars, history
<1>1. GrantsKept
  BY DEF GrantsKept, history
<1>2. TypeOK'
  BY DEF IInv, TypeOK, Steps, ContentFile, MetaFile
<1>3. StoresWellFormed' /\ ApprovalsGranted'
  BY <1>1, StoresKept DEF storeVars, diskVars
<1>4. OnlyProc(p) /\ (p = "agent" \/ auto' = auto)
  BY DEF OnlyProc, IInv, TypeOK
<1>5. CommandShape(p)'
  BY DEF IInv, TypeOK, Commands, CommandShape, NamedSteps, RemoveSteps, Steps
<1> QED
  BY <1>1, <1>2, <1>3, <1>4, <1>5, CommandsStep DEF IInv

(* A run of csl-agent loads the store.                                     *)
LEMMA CliStartInv ==
    ASSUME IInv, NEW p \in Clis, NEW k \in {"approve", "reject", "clear", "purge"}, NEW n,
           n \in Names \/ (k = "purge" /\ n = NoFile), CliStart(p, k, n)
    PROVE  IInv'
<1> USE DEF CliStart, Op, storeVars, diskVars, fileVars, procVars, ownerVars, history
<1>1. GrantsKept
  BY DEF GrantsKept, history
<1>2. TypeOK'
  BY LoadGood DEF IInv, TypeOK, Steps, Command, Kinds, Md5s, MetaFile
<1>3. StoresWellFormed' /\ ApprovalsGranted'
  <2>1. \A q \in Procs : Good(mem'[q], granted')
    BY <1>1, InvGood, GoodKept DEF IInv, TypeOK
  <2> QED
    BY <1>1, <2>1, InvGood, GoodKept, StoresStep
<1>4. OnlyProc(p) /\ (p = "agent" \/ auto' = auto)
  BY DEF OnlyProc, IInv, TypeOK
<1>5. CommandShape(p)'
  BY ClisAssumption DEF IInv, TypeOK, Commands, CommandShape, NamedSteps, RemoveSteps, Steps
<1> QED
  BY <1>1, <1>2, <1>3, <1>4, <1>5, CommandsStep DEF IInv

(* A process ends in the middle of something.                              *)
LEMMA ProcessEndsInv ==
    ASSUME IInv, NEW p \in Procs, ProcessEnds(p)
    PROVE  IInv'
<1> USE DEF ProcessEnds, CloseFiles, storeVars, diskVars, fileVars, procVars, ownerVars, history
<1>1. GrantsKept
  BY DEF GrantsKept, history
<1>2. TypeOK'
  BY NoOpTyped, EmptyStoreGood, BoundsAssumption DEF IInv, TypeOK, Steps
<1>3. StoresWellFormed' /\ ApprovalsGranted'
  <2>1. \A q \in Procs : Good(mem'[q], granted')
    BY <1>1, InvGood, GoodKept DEF IInv, TypeOK
  <2> QED
    BY <1>1, <2>1, InvGood, GoodKept, StoresStep
<1>4. OnlyProc(p) /\ (p = "agent" \/ auto' = auto)
  BY DEF OnlyProc, IInv, TypeOK
<1>5. CommandShape(p)'
  BY ClisAssumption DEF IInv, TypeOK, Commands, CommandShape, NamedSteps, RemoveSteps, Steps, NoOp
<1> QED
  BY <1>1, <1>2, <1>3, <1>4, <1>5, CommandsStep DEF IInv

(* The owner changes the auto-approve list.                                *)
LEMMA PolicyStepInv ==
    ASSUME IInv, PolicyStep
    PROVE  IInv'
<1> USE DEF PolicyStep, PolicyAutoApprove, PolicyManual, storeVars, diskVars, procVars, fileVars, history
<1>1. TypeOK'
  BY AutoNamesAssumption DEF IInv, TypeOK
<1>2. StoresWellFormed' /\ ApprovalsGranted' /\ Commands'
  BY ZenonT(40) DEF IInv, StoresWellFormed, ApprovalsGranted, GrantedStore, Commands, CommandShape
<1> QED
  BY <1>1, <1>2 DEF IInv

-----------------------------------------------------------------------------
(* Every step keeps the invariant.                                         *)
LEMMA NextIInv == IInv /\ [Next]_vars => IInv'
<1> SUFFICES ASSUME IInv, [Next]_vars PROVE IInv'
  OBVIOUS
<1>1. CASE AgentStep
  BY <1>1, AgentLoadInv, AgentSigInv, GetStateInv, StageInv, WritePendingInv, WriteMetaInv,
     StatSigInv, LaunchInv, ExecuteInv DEF AgentStep
<1>2. ASSUME NEW p \in Procs, SaveStep(p) PROVE IInv'
  BY <1>2, PromoteScriptInv, PromoteMissingInv, PromoteMetaInv, OpenTmpInv, WriteTmpInv,
     ReplaceJsonInv, ReplaceMissingInv DEF SaveStep
<1>3. ASSUME NEW p \in Clis, CliStep(p) PROVE IInv'
  <2>1. ASSUME NEW k \in {"approve", "reject", "clear"}, NEW n \in Names, CliStart(p, k, n)
        PROVE  IInv'
    BY <2>1, CliStartInv
  <2>2. CASE CliStart(p, "purge", NoFile)
    BY <2>2, CliStartInv
  <2> QED
    BY <1>3, <2>1, <2>2, CliApproveInv, CliRejectInv, CliClearInv, CliPurgeInv, PurgeNextInv,
       PurgeDoneInv, RemoveScriptInv, RemoveScriptMetaInv, RemovePendingInv,
       RemovePendingMetaInv DEF CliStep
<1>4. CASE UNCHANGED vars
  <2>1. TypeOK'
    BY <1>4 DEF IInv, TypeOK, vars
  <2>2. StoresWellFormed' /\ ApprovalsGranted' /\ Commands'
    BY <1>4 DEF IInv, StoresWellFormed, ApprovalsGranted, GrantedStore, Commands, CommandShape, vars
  <2> QED
    BY <2>1, <2>2 DEF IInv
<1> QED
  BY <1>1, <1>2, <1>3, <1>4, PolicyStepInv, AgentErrorInv, ProcessEndsInv DEF Next

(* Every variable of Approvals keeps its type, for all constants.          *)
THEOREM TypeCorrect == Spec => []TypeOK
<1>1. IInv => TypeOK
  BY DEF IInv
<1> QED
  BY <1>1, InitIInv, NextIInv, PTL DEF Spec

(* Every copy of the store keeps an MD5 in each record that needs one.     *)
THEOREM RecordsCorrect == Spec => []StoresWellFormed
<1>1. IInv => StoresWellFormed
  BY DEF IInv
<1> QED
  BY <1>1, InitIInv, NextIInv, PTL DEF Spec

(* No copy of the store approves what was never approved.                  *)
THEOREM StoresCorrect == Spec => []ApprovalsGranted
<1>1. IInv => ApprovalsGranted
  BY DEF IInv
<1> QED
  BY <1>1, InitIInv, NextIInv, PTL DEF Spec

(* The only step from idle to the execution is Launch, and Launch has      *)
(* hashed the file against an approved MD5.                                *)
LEMMA LaunchGranted ==
    ASSUME IInv, [Next]_vars, pc["agent"] = "idle", pc'["agent"] = "exec"
    PROVE  scriptFile[op'["agent"].name] \in granted[op'["agent"].name]
<1>1. PICK n \in Names : Launch(n)
  <2> USE DEF IInv, TypeOK
  <2>1. \A p \in Clis : p # "agent"
    BY ClisAssumption
  <2>2. CASE AgentStep
    BY <2>2 DEF AgentStep, AgentLoad, AgentSig, GetState, Stage, WritePending, WriteMeta, StatSig,
       Execute, Goto, Finish, procVars
  <2>3. ASSUME NEW p \in Procs, SaveStep(p) PROVE FALSE
    <3>1. CASE p = "agent"
      BY <2>3, <3>1 DEF SaveStep, PromoteScript, PromoteMissing, PromoteMeta, OpenTmp, WriteTmp,
         ReplaceJson, ReplaceMissing
    <3>2. CASE p # "agent"
      BY <2>3, <3>2 DEF SaveStep, PromoteScript, PromoteMissing, PromoteMeta, OpenTmp, WriteTmp,
         ReplaceJson, ReplaceMissing, AfterSave, Finish, Goto, Continue
    <3> QED BY <3>1, <3>2
  <2>4. ASSUME NEW p \in Clis, CliStep(p) PROVE FALSE
    <3>1. pc'["agent"] = pc["agent"]
      BY <2>1, <2>4 DEF CliStep, CliStart, CliApprove, CliReject, CliClear, CliPurge, PurgeNext,
         PurgeDone, RemoveScript, RemoveScriptMeta, RemovePending, RemovePendingMeta,
         Finish, Goto, Continue
    <3> QED BY <3>1
  <2>5. CASE PolicyStep \/ AgentError \/ UNCHANGED vars
    BY <2>5 DEF PolicyStep, PolicyAutoApprove, PolicyManual, AgentError, Finish, procVars, vars
  <2>6. ASSUME NEW p \in Procs, ProcessEnds(p) PROVE FALSE
    BY <2>6 DEF ProcessEnds
  <2> QED BY <2>2, <2>3, <2>4, <2>5, <2>6 DEF Next
<1>2. Good(Synced, granted)
  BY InvGood DEF Synced
<1>3. Synced[n].approved_md5 # NoMd5 /\ Synced[n].approved_md5 \in granted[n]
  BY <1>1, <1>2 DEF Launch, Good, GoodStore, GoodRecord
<1>4. op'["agent"].name = n
  BY <1>1 DEF Launch, Op, IInv, TypeOK
<1> QED
  BY <1>1, <1>3, <1>4 DEF Launch, IntegrityOK

(* Whatever overlaps, fails or is stale, the agent launches only contents  *)
(* that were approved.                                                     *)
THEOREM LaunchesCorrect == Spec => OnlyGrantedLaunches
<1>1. IInv /\ [Next]_vars =>
        [pc["agent"] = "idle" /\ pc'["agent"] = "exec" =>
            LET n == op'["agent"].name IN scriptFile[n] \in granted[n]]_vars
  BY LaunchGranted
<1> QED
  BY <1>1, InitIInv, NextIInv, PTL DEF Spec, OnlyGrantedLaunches
=============================================================================
