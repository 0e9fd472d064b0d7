--------------------------- MODULE ApprovalsSerial ---------------------------
(***************************************************************************)
(* The approval store when the commands of the agent and of csl-agent keep *)
(* apart, which is what the code's documentation describes.  Here the      *)
(* store does what ApprovalProtocol says; Approvals alone says what is     *)
(* left when commands overlap.                                             *)
(***************************************************************************)
EXTENDS Approvals

(* How far apart commands keep.  Alone: no command of one process overlaps *)
(* a command of another.  Serial: besides, the control station asks for    *)
(* the state before it stages, as sync_script does (and the web interface's *)
(* restage does not).  Failures and restarts remain in both.               *)

Busy(p) == pc[p] \notin {"off", "idle"}
Quiet   == \A p \in Procs : ~Busy(p)
Alone   == \A p, q \in Procs : Busy(p) /\ Busy(q) => p = q

StagesInSync == pc["agent"] = "idle" /\ pc'["agent"] = "write_pending" => fresh

AloneSpec  == Init /\ [][Next /\ Alone']_vars
SerialSpec == Init /\ [][Next /\ Alone' /\ StagesInSync]_vars

-----------------------------------------------------------------------------
(* The saved records are the abstract ones, and a launch is in progress    *)
(* from the checks to the execution.                                       *)

launched == IF pc["agent"] = "exec" THEN <<op["agent"].name, op["agent"].md5>> ELSE <<>>

Protocol == INSTANCE ApprovalProtocol WITH record <- json, launched <- launched

(* Staging, reviewing and launching, each many file operations and some of *)
(* them a whole process, appear on disk as the atomic steps of the         *)
(* approval protocol.                                                      *)
ImplementsProtocol == Protocol!Spec

-----------------------------------------------------------------------------
(* What the documentation says of the store.                               *)

(* approvals.json is never left partially written (ApprovalsManager's      *)
(* docstring on temp-then-rename).                                         *)
NeverPartial == json # Partial

(* An approved script is in scripts/ with the approved MD5 matching its    *)
(* content, whenever no command is running (ARCHITECTURE 3.3), as long as  *)
(* nothing failed: a process that died between moving the file and saving  *)
(* the record leaves the two apart, and verify_script_integrity refuses.   *)
ApprovedMatchesContent ==
    Quiet /\ json # Partial /\ errors = 0 /\ stops = 0 =>
        \A n \in Names : json[n].state = "approved" => scriptFile[n] = json[n].approved_md5

Rejected(s, n) == s # Partial /\ s[n].state = "rejected"

(* A rejection on disk ends only when a clear of that script is saved      *)
(* (ARCHITECTURE 3.3: "Will not be re-staged unless the target owner       *)
(* clears the rejection").                                                 *)
RejectionHolds ==
    [][\A n \in Names : Rejected(json, n) /\ ~Rejected(json', n) =>
          \E p \in Clis : pc[p] = "replace" /\ op[p].kind = "clear" /\ op[p].name = n]_json

(* What the agent answers without reloading is what approvals.json says:   *)
(* _sync_from_disk reloads if the file was modified by another process.    *)
SyncSeesDisk == pc["agent"] = "idle" /\ fresh => mem["agent"] = Load

(* When a clear is saved, nothing of the script is left: neither a record  *)
(* nor any of its four files, whatever failed before.                      *)
ClearResets ==
    [][\A p \in Clis : pc[p] = "replace" /\ op[p].kind = "clear" =>
          LET n == op[p].name IN
          /\ json'[n] = AbsentRec
          /\ NoFile = scriptFile[n] /\ NoFile = scriptMeta[n]
          /\ NoFile = pendingFile[n] /\ NoFile = pendingMeta[n]]_json
=============================================================================
