------------------------------ MODULE JobRecords ------------------------------
(***************************************************************************)
(* What the process manager promises of the jobs of a target: a record     *)
(* becomes final only when its process is over, and a job that reached     *)
(* running.json is taken back by every later start of the agent for as     *)
(* long as its process lives, whatever crashes or fails to be saved.       *)
(***************************************************************************)
CONSTANT Jobs

VARIABLES proc,      \* how the process of each job fared
          rec,       \* the status the agent answers with
          up,        \* does the agent run?
          starting,  \* the job whose process runs and has no record yet
          safe       \* the jobs that running.json would bring back

vars == <<proc, rec, up, starting, safe>>

Over(j) == proc[j] \in {"ok", "error"}
NoRecords == [j \in Jobs |-> "none"]

Init == /\ proc = [j \in Jobs |-> "unsubmitted"]
        /\ rec = NoRecords
        /\ up = FALSE
        /\ starting = {}
        /\ safe = {}

JobEnds(j) ==
    /\ proc[j] = "alive"
    /\ \E how \in {"ok", "error"} : proc' = [proc EXCEPT ![j] = how]
    /\ safe' = safe \ {j}
    /\ UNCHANGED <<rec, up, starting>>

Launches(j) ==
    /\ up
    /\ starting = {}
    /\ proc[j] = "unsubmitted"
    /\ proc' = [proc EXCEPT ![j] = "alive"]
    /\ starting' = {j}
    /\ UNCHANGED <<rec, up, safe>>

(* All that runs is saved, or the save fails.                              *)
Saves == \/ safe' = {j \in Jobs : proc'[j] = "alive" /\ rec'[j] = "running"}
         \/ UNCHANGED safe

(* The record of a job that has been started; its process may be over.     *)
Accepts(j) ==
    /\ starting = {j} /\ rec[j] = "none"
    /\ starting' = {}
    /\ rec' = [rec EXCEPT ![j] = "running"]
    /\ Saves
    /\ UNCHANGED <<proc, up>>

(* A poll may miss an end, for the pid may have a new process, and may     *)
(* call a success failed, when the exit code is lost; never the reverse.   *)
Polls ==
    /\ up
    /\ rec' \in [Jobs -> {"none", "running", "completed", "failed", "killed"}]
    /\ \A j \in Jobs : rec'[j] # rec[j] =>
          /\ rec[j] = "running"
          /\ Over(j)
          /\ rec'[j] = "failed" \/ (rec'[j] = "completed" /\ proc[j] = "ok")
    /\ UNCHANGED <<proc, up, starting, safe>>

Killed(j) ==
    /\ up
    /\ rec[j] = "running"
    /\ Over(j)
    /\ rec' = [rec EXCEPT ![j] = "killed"]
    /\ Saves
    /\ UNCHANGED <<proc, up, starting>>

(* The jobs go on, or are ended with the agent.                            *)
Stops ==
    /\ up
    /\ up' = FALSE
    /\ rec' = NoRecords
    /\ starting' = {}
    /\ \/ UNCHANGED <<proc, safe>>
       \/ /\ proc' = [j \in Jobs |-> IF proc[j] = "alive" THEN "error" ELSE proc[j]]
          /\ safe' = {}

(* A job that is over may come back too, if its pid is in use again.       *)
Starts ==
    /\ ~up
    /\ up' = TRUE
    /\ \E back \in SUBSET Jobs :
          /\ safe \subseteq back
          /\ \A j \in back : proc[j] # "unsubmitted"
          /\ rec' = [j \in Jobs |-> IF j \in back THEN "running" ELSE "none"]
    /\ UNCHANGED <<proc, starting, safe>>

Next ==
    \/ \E j \in Jobs : JobEnds(j) \/ Launches(j) \/ Accepts(j) \/ Killed(j)
    \/ Polls \/ Stops \/ Starts

Spec == Init /\ [][Next]_vars
=============================================================================
