-------------------------- MODULE ApprovalProtocol --------------------------
(***************************************************************************)
(* What the approval store of a target promises: one record per script,    *)
(* changed atomically by the control station (stage) and by the target's   *)
(* owner (approve, reject, clear), and a script is launched only from an   *)
(* approved record.                                                        *)
(***************************************************************************)
CONSTANTS Names, Contents, NoMd5

VARIABLES record,   \* the approval record of each script
          launched  \* <<name, md5>> of the launch in progress, or <<>>

vars == <<record, launched>>

InReview == {"pending", "update_pending"}
Rec(s, a, p) == [state |-> s, approved_md5 |-> a, pending_md5 |-> p]
AbsentRec == Rec("absent", NoMd5, NoMd5)

Init == /\ record = [n \in Names |-> AbsentRec]
        /\ launched = <<>>

Becomes(n, rec) == /\ record' = [record EXCEPT ![n] = rec]
                   /\ UNCHANGED launched

(* A new version: in review, beside the approved one if there is one.      *)
Stage(n, c) ==
    /\ record[n].state # "rejected"
    /\ c \notin {record[n].approved_md5, record[n].pending_md5} \/ record[n].state = "update_pending"
    /\ Becomes(n, IF record[n].state = "approved"
                  THEN Rec("update_pending", record[n].approved_md5, c)
                  ELSE Rec("pending", NoMd5, c))

(* A new version of a script on the auto-approve list.                     *)
StageAuto(n, c) ==
    /\ record[n].state # "rejected"
    /\ Becomes(n, Rec("approved", c, NoMd5))

Approve(n) ==
    /\ record[n].state \in InReview
    /\ Becomes(n, Rec("approved", record[n].pending_md5, NoMd5))

Reject(n) ==
    /\ record[n].state \in InReview
    /\ Becomes(n, Rec("rejected", NoMd5, NoMd5))

Clear(n) ==
    /\ record[n].state # "absent"
    /\ Becomes(n, AbsentRec)

Launch(n) ==
    /\ record[n].state = "approved"
    /\ launched' = <<n, record[n].approved_md5>>
    /\ UNCHANGED record

Launched == launched # <<>> /\ launched' = <<>> /\ UNCHANGED record

Next ==
    \/ \E n \in Names :
         \/ \E c \in Contents : Stage(n, c) \/ StageAuto(n, c)
         \/ Approve(n) \/ Reject(n) \/ Clear(n) \/ Launch(n)
    \/ Launched

Spec == Init /\ [][Next]_vars
=============================================================================
