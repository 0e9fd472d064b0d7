--------------------------- MODULE ScriptSyncProofs ---------------------------
(***************************************************************************)
(* Proofs about script synchronisation, for any number of scripts,         *)
(* versions and requests in progress: a job that the API starts runs a     *)
(* version that the registry had while the request was in progress.        *)
(*                                                                         *)
(* The version was loaded steps before the job starts, and the request     *)
(* may have gone round once more after a refusal; LoadedWasCurrent says    *)
(* what all these steps keep.                                              *)
(***************************************************************************)
EXTENDS ScriptSync, TLAPS

AgentRec == [state: CacheState \ {"approved_stale"}, approved_md5: Md5s, pending_md5: Md5s]
Request  == [op: Op, at: Stage, name: Names, md5: Md5s, desc: AgentRec, state: CacheState,
             row: CacheRow \cup {NoRow}, again: BOOLEAN, seen: SUBSET Versions]

(* The version an API request submits is one it has seen in the registry.  *)
LoadedWasCurrent == \A r \in Requests: req[r].op = "api" /\ req[r].at # "idle" => req[r].md5 \in req[r].seen

(* The inductive invariant.                                                *)
IInv == TypeOK /\ LoadedWasCurrent

-----------------------------------------------------------------------------
(* The types, with names for the sets of records.                          *)
LEMMA Typed ==
    ASSUME TypeOK
    PROVE  /\ record \in [Names -> AgentRec] /\ script \in [Names -> Versions \cup {NoScript}]
           /\ cache \in [Names -> CacheRow \cup {NoRow}] /\ req \in [Requests -> Request]
           /\ changes \in 0..MaxChanges
BY DEF TypeOK, AgentRec, Request

(* And back.                                                               *)
LEMMA TypedBack ==
    ASSUME record \in [Names -> AgentRec], script \in [Names -> Versions \cup {NoScript}],
           cache \in [Names -> CacheRow \cup {NoRow}], req \in [Requests -> Request],
           changes \in 0..MaxChanges
    PROVE  TypeOK
BY DEF TypeOK, AgentRec, Request

(* No request in progress.                                                 *)
LEMMA IdleTyped == Idle \in Request /\ Idle.at = "idle" /\ Idle.op = "badge"
<1>1. (CHOOSE n \in Names: TRUE) \in Names
  BY NamesAssumption
<1>2. Agent!AbsentRec \in AgentRec
  BY DEF Agent!AbsentRec, Agent!Rec, AgentRec, CacheState, Md5s
<1> HIDE DEF Agent!AbsentRec
<1> QED BY <1>1, <1>2 DEF Idle, Request, Op, Stage, CacheState, Md5s

(* A registry without scripts, and a target without records.               *)
LEMMA InitIInv == Init => IInv
<1> SUFFICES ASSUME Init PROVE IInv
  OBVIOUS
<1>1. record \in [Names -> AgentRec]
  BY DEF Init, Agent!Init, Agent!AbsentRec, Agent!Rec, AgentRec, CacheState, Md5s
<1>2. req \in [Requests -> Request] /\ \A r \in Requests: req[r] = Idle
  BY IdleTyped DEF Init
<1>3. TypeOK
  BY <1>1, <1>2, TypedBack, BoundAssumption DEF Init
<1>4. LoadedWasCurrent
  BY <1>2, IdleTyped DEF LoadedWasCurrent
<1> QED BY <1>3, <1>4 DEF IInv

-----------------------------------------------------------------------------
(* What the agent does to one record leaves a record.                      *)
LEMMA BecomesTyped ==
    ASSUME TypeOK, NEW n \in Names, NEW s \in CacheState \ {"approved_stale"},
           NEW a \in Md5s, NEW p \in Md5s, Agent!Becomes(n, Agent!Rec(s, a, p))
    PROVE  record' \in [Names -> AgentRec]
<1>1. Agent!Rec(s, a, p) \in AgentRec
  BY DEF Agent!Rec, AgentRec
<1> QED BY <1>1, Typed DEF Agent!Becomes

(* What the agent stages is well typed.                                    *)
LEMMA StageTyped ==
    ASSUME TypeOK, NEW n \in Names, NEW c \in Md5s, StageScript(n, c)
    PROVE  record' \in [Names -> AgentRec]
<1>0. record \in [Names -> AgentRec] /\ record[n].approved_md5 \in Md5s
  BY Typed DEF AgentRec
<1>1. CASE UNCHANGED record
  BY <1>0, <1>1
<1>2. CASE Agent!StageAuto(n, c)
  BY <1>2, BecomesTyped DEF Agent!StageAuto, CacheState, Md5s
<1>3. CASE Agent!Stage(n, c)
  <2>1. CASE Agent!Becomes(n, Agent!Rec("update_pending", record[n].approved_md5, c))
    BY <1>0, <2>1, BecomesTyped DEF CacheState
  <2>2. CASE Agent!Becomes(n, Agent!Rec("pending", NoMd5, c))
    BY <2>2, BecomesTyped DEF CacheState, Md5s
  <2> QED BY <1>3, <2>1, <2>2 DEF Agent!Stage
<1> QED BY <1>1, <1>2, <1>3 DEF StageScript

(* So is what the owner decides.                                           *)
LEMMA DecisionTyped ==
    ASSUME TypeOK, NEW n \in Names, Agent!Approve(n) \/ Agent!Reject(n) \/ Agent!Clear(n)
    PROVE  record' \in [Names -> AgentRec]
<1>0. record[n].pending_md5 \in Md5s
  BY Typed DEF AgentRec
<1>1. CASE Agent!Approve(n)
  BY <1>0, <1>1, BecomesTyped DEF Agent!Approve, CacheState, Md5s
<1>2. CASE Agent!Reject(n)
  BY <1>2, BecomesTyped DEF Agent!Reject, CacheState, Md5s
<1>3. CASE Agent!Clear(n)
  BY <1>3, BecomesTyped DEF Agent!Clear, Agent!AbsentRec, CacheState, Md5s
<1> QED BY <1>1, <1>2, <1>3

(* What a session writes is a row, whatever was written meanwhile.         *)
LEMMA WriteTyped ==
    ASSUME TypeOK, NEW n \in Names, NEW loaded \in CacheRow \cup {NoRow}, NEW new \in CacheRow,
           WriteRow(n, loaded, new)
    PROVE  cache' \in [Names -> CacheRow \cup {NoRow}]
<1>0. cache \in [Names -> CacheRow \cup {NoRow}]
  BY Typed
<1>1. CASE loaded = NoRow
  BY <1>0, <1>1 DEF WriteRow
<1>2. CASE loaded # NoRow
  <2>1. loaded \in CacheRow /\ cache[n] \in CacheRow
    BY <1>0, <1>2 DEF WriteRow
  <2>2. Flush(loaded, new, cache[n]) \in CacheRow
    BY <2>1 DEF Flush, CacheRow
  <2>3. cache' = [cache EXCEPT ![n] = Flush(loaded, new, cache[n])]
    BY <1>2 DEF WriteRow
  <2> QED BY <1>0, <2>2, <2>3
<1> QED BY <1>1, <1>2

(* An edit of the registry: the requests in progress see it.               *)
LEMMA CommitInv ==
    ASSUME IInv, NEW edited \in [Names -> Versions \cup {NoScript}], Counted, Commits(edited),
           UNCHANGED record, cache' \in [Names -> CacheRow \cup {NoRow}]
    PROVE  IInv'
<1>0. req \in [Requests -> Request] /\ record \in [Names -> AgentRec] /\ changes \in 0..MaxChanges
  BY Typed DEF IInv
<1> DEFINE more(r) == {edited[req[r].name]} \ {NoScript}
<1>1. ASSUME NEW r \in Requests
      PROVE  /\ req'[r] \in Request /\ req'[r].op = req[r].op /\ req'[r].at = req[r].at
             /\ req'[r].md5 = req[r].md5 /\ req[r].seen \subseteq req'[r].seen
  <2>1. req[r] \in Request /\ more(r) \subseteq Versions
    BY <1>0 DEF Request
  <2> DEFINE e == [req[r] EXCEPT !.seen = @ \cup more(r)]
  <2>2. /\ e \in Request /\ e.op = req[r].op /\ e.at = req[r].at /\ e.md5 = req[r].md5
        /\ req[r].seen \subseteq e.seen
    BY <2>1 DEF Request
  <2>3. req'[r] \in {req[r], e}
    BY DEF Commits
  <2> HIDE DEF e
  <2> QED BY <2>1, <2>2, <2>3
<1>2. req' \in [Requests -> Request]
  BY <1>1 DEF Commits
<1>3. changes' \in 0..MaxChanges
  BY <1>0, BoundAssumption DEF Counted
<1>4. TypeOK'
  BY <1>0, <1>2, <1>3, TypedBack DEF Commits, TypeOK, AgentRec, Request
<1>5. LoadedWasCurrent'
  BY <1>1 DEF IInv, LoadedWasCurrent
<1> QED BY <1>4, <1>5 DEF IInv

(* A request takes a step.                                                 *)
LEMMA RequestInv ==
    ASSUME IInv, NEW r \in Requests, NEW e \in Request, req' = [req EXCEPT ![r] = e],
           e.op = "api" /\ e.at # "idle" => e.md5 \in e.seen,
           record' \in [Names -> AgentRec], cache' \in [Names -> CacheRow \cup {NoRow}],
           UNCHANGED <<script, changes>>
    PROVE  IInv'
<1>0. req \in [Requests -> Request]
  BY Typed DEF IInv
<1>1. req'[r] = e /\ (\A s \in Requests \ {r}: req'[s] = req[s]) /\ req' \in [Requests -> Request]
  BY <1>0
<1>2. TypeOK'
  BY <1>1 DEF IInv, TypeOK, AgentRec, Request
<1>3. LoadedWasCurrent'
  BY <1>1 DEF IInv, LoadedWasCurrent
<1> QED BY <1>2, <1>3 DEF IInv

(* A request that goes on is about the same script and version.            *)
LEMMA GoesOn ==
    ASSUME IInv, NEW r \in Requests, req[r].at # "idle", NEW s \in Stage, NEW e,
           \/ e = To(r, s)
           \/ \E d \in AgentRec: e = [To(r, s) EXCEPT !.desc = d]
           \/ \E d \in CacheState: e = [To(r, s) EXCEPT !.state = d]
           \/ \E d \in BOOLEAN: e = [To(r, s) EXCEPT !.again = d]
    PROVE  e \in Request /\ (e.op = "api" /\ e.at # "idle" => e.md5 \in e.seen)
<1>0. req[r] \in Request /\ (req[r].op = "api" => req[r].md5 \in req[r].seen)
  BY Typed DEF IInv, LoadedWasCurrent
<1>1. /\ To(r, s) \in Request /\ To(r, s).op = req[r].op
      /\ To(r, s).md5 = req[r].md5 /\ To(r, s).seen = req[r].seen
  BY <1>0 DEF To, Request
<1>2. e \in Request /\ e.op = req[r].op /\ e.md5 = req[r].md5 /\ e.seen = req[r].seen
  BY <1>1 DEF Request
<1> QED BY <1>0, <1>2

-----------------------------------------------------------------------------
(* The admin edits and the owner decides.                                  *)
LEMMA EditsInv ==
    ASSUME IInv, NEW n \in Names,
           \/ \E c \in Versions: CreateScript(n, c) \/ UpdateScript(n, c)
           \/ DeleteScript(n)
    PROVE  IInv'
<1>0. script \in [Names -> Versions \cup {NoScript}] /\ cache \in [Names -> CacheRow \cup {NoRow}]
  BY Typed DEF IInv
<1>1. ASSUME NEW c \in Versions, CreateScript(n, c) \/ UpdateScript(n, c) PROVE IInv'
  <2> DEFINE edited == [script EXCEPT ![n] = c]
  <2>1. edited \in [Names -> Versions \cup {NoScript}]
    BY <1>0
  <2>2. Counted /\ Commits(edited) /\ UNCHANGED <<record, cache>>
    BY <1>1 DEF CreateScript, UpdateScript
  <2> HIDE DEF edited
  <2> QED BY <1>0, <2>1, <2>2, CommitInv
<1>2. CASE DeleteScript(n)
  <2> DEFINE edited == [script EXCEPT ![n] = NoScript]
  <2>1. edited \in [Names -> Versions \cup {NoScript}]
    BY <1>0
  <2>2. Counted /\ Commits(edited) /\ UNCHANGED record /\ cache' = [cache EXCEPT ![n] = NoRow]
    BY <1>2 DEF DeleteScript
  <2>3. cache' \in [Names -> CacheRow \cup {NoRow}]
    BY <1>0, <2>2
  <2> HIDE DEF edited
  <2> QED BY <2>1, <2>2, <2>3, CommitInv
<1> QED BY <1>1, <1>2

(* Built-in scripts fill the gaps of the registry.                         *)
LEMMA SeedInv ==
    ASSUME IInv, NEW builtin \in [Names -> Versions], SeedBuiltinScripts(builtin)
    PROVE  IInv'
<1> DEFINE edited == [n \in Names |-> IF script[n] = NoScript THEN builtin[n] ELSE script[n]]
<1>0. script \in [Names -> Versions \cup {NoScript}] /\ cache \in [Names -> CacheRow \cup {NoRow}]
  BY Typed DEF IInv
<1>1. edited \in [Names -> Versions \cup {NoScript}]
  BY <1>0
<1>2. Counted /\ Commits(edited) /\ UNCHANGED <<record, cache>>
  BY DEF SeedBuiltinScripts
<1> HIDE DEF edited
<1> QED BY <1>0, <1>1, <1>2, CommitInv

(* The owner decides at the target.                                        *)
LEMMA OwnerInv == ASSUME IInv, NEW n \in Names, OwnerDecides(n) PROVE IInv'
<1>1. record' \in [Names -> AgentRec]
  BY DecisionTyped DEF OwnerDecides, IInv
<1>2. changes \in 0..MaxChanges /\ changes' \in 0..MaxChanges /\ UNCHANGED <<script, cache, req>>
  BY BoundAssumption, Typed DEF OwnerDecides, Counted, IInv
<1>3. TypeOK'
  BY <1>1, <1>2 DEF IInv, TypeOK, AgentRec
<1>4. LoadedWasCurrent'
  BY <1>2 DEF IInv, LoadedWasCurrent
<1> QED BY <1>3, <1>4 DEF IInv

(* A request begins with the version that the registry has.                *)
LEMMA LoadsInv ==
    ASSUME IInv, NEW r \in Requests, NEW o \in Op, NEW n \in Names, NEW w \in CacheRow \cup {NoRow},
           Loads(r, o, n, w)
    PROVE  IInv'
<1> DEFINE saw == IF o = "api" THEN {script[n]} ELSE {}
           e == [Idle EXCEPT !.op = o, !.at = "loaded", !.name = n, !.md5 = script[n], !.row = w, !.seen = saw]
<1>0. script[n] \in Versions /\ record' \in [Names -> AgentRec] /\ cache' \in [Names -> CacheRow \cup {NoRow}]
      /\ UNCHANGED <<script, changes>>
  BY Typed DEF Loads, IInv
<1>1. e \in Request /\ e.op = o /\ e.md5 = script[n] /\ e.seen = saw
  BY <1>0, IdleTyped DEF Request, Md5s, Stage
<1>2. req' = [req EXCEPT ![r] = e]
  BY DEF Loads
<1> HIDE DEF e
<1> QED BY <1>0, <1>1, <1>2, RequestInv

(* The steps of a request.                                                 *)
LEMMA StepInv == ASSUME IInv, NEW r \in Requests, Step(r) PROVE IInv'
<1> DEFINE n == req[r].name
<1>0. /\ record \in [Names -> AgentRec] /\ cache \in [Names -> CacheRow \cup {NoRow}]
      /\ req[r] \in Request /\ req[r].name \in Names /\ req[r].md5 \in Md5s /\ req[r].desc \in AgentRec
      /\ req[r].state \in CacheState /\ req[r].row \in CacheRow \cup {NoRow} /\ req[r].op \in Op
      /\ req[r].seen \in SUBSET Versions
  BY Typed DEF IInv, Request
<1>1. CASE Fails(r) \/ SubmitRuns(r)
  <2>1. req' = [req EXCEPT ![r] = Idle] /\ UNCHANGED <<record, cache>> /\ UNCHANGED <<script, changes>>
    BY <1>1 DEF Fails, SubmitRuns
  <2> QED BY <1>0, <2>1, IdleTyped, RequestInv
<1>2. CASE GetScriptState(r)
  <2> DEFINE e == [To(r, "asked") EXCEPT !.desc = record[n]]
  <2>1. req[r].at # "idle" /\ req' = [req EXCEPT ![r] = e]
        /\ UNCHANGED <<record, cache>> /\ UNCHANGED <<script, changes>>
    BY <1>2 DEF GetScriptState
  <2>2. e \in Request /\ (e.op = "api" /\ e.at # "idle" => e.md5 \in e.seen)
    BY <1>0, <2>1, GoesOn DEF Stage
  <2> HIDE DEF e
  <2> QED BY <1>0, <2>1, <2>2, RequestInv
<1>3. CASE SyncScript(r)
  <2>1. PICK s \in CacheState: req' = [req EXCEPT ![r] = [To(r, "synced") EXCEPT !.state = s]]
    <3>1. CASE /\ StageScript(n, req[r].md5)
               /\ req' = [req EXCEPT ![r] = [To(r, "synced") EXCEPT !.state = record'[n].state]]
      <4>1. record'[n].state \in CacheState
        BY <1>0, <3>1, StageTyped DEF IInv, AgentRec
      <4> QED BY <3>1, <4>1
    <3>2. CASE req' = [req EXCEPT ![r] = [To(r, "synced") EXCEPT !.state = Resolve(req[r].desc, req[r].md5)]]
      <4>1. Resolve(req[r].desc, req[r].md5) \in CacheState
        BY <1>0 DEF Resolve, AgentRec, CacheState
      <4> QED BY <3>2, <4>1
    <3> QED BY <1>3, <3>1, <3>2 DEF SyncScript
  <2>2. record' \in [Names -> AgentRec]
    BY <1>0, <1>3, StageTyped DEF SyncScript, IInv
  <2>3. req[r].at # "idle" /\ UNCHANGED cache /\ UNCHANGED <<script, changes>>
    BY <1>3 DEF SyncScript
  <2> DEFINE e == [To(r, "synced") EXCEPT !.state = s]
  <2>4. e \in Request /\ (e.op = "api" /\ e.at # "idle" => e.md5 \in e.seen)
    BY <2>3, GoesOn DEF Stage
  <2>5. req' = [req EXCEPT ![r] = e]
    BY <2>1
  <2> HIDE DEF e
  <2> QED BY <1>0, <2>2, <2>3, <2>4, <2>5, RequestInv
<1>4. CASE RestageStages(r)
  <2> DEFINE e == To(r, "restaged")
  <2>1. req[r].at # "idle" /\ req' = [req EXCEPT ![r] = e] /\ UNCHANGED cache /\ UNCHANGED <<script, changes>>
    BY <1>4 DEF RestageStages
  <2>2. record' \in [Names -> AgentRec]
    BY <1>0, <1>4, StageTyped DEF RestageStages, IInv
  <2>3. e \in Request /\ (e.op = "api" /\ e.at # "idle" => e.md5 \in e.seen)
    BY <2>1, GoesOn DEF Stage
  <2> HIDE DEF e
  <2> QED BY <1>0, <2>1, <2>2, <2>3, RequestInv
<1>5. CASE UpsertState(r)
  <2> DEFINE new == Seen(r, req[r].state)
             go == [Idle EXCEPT !.op = req[r].op, !.at = "submit", !.name = n,
                                !.md5 = req[r].md5, !.row = new, !.seen = req[r].seen]
  <2>1. new \in CacheRow
    BY <1>0 DEF Seen, Row, CacheRow, AgentRec
  <2>2. /\ WriteRow(n, IF req[r].again THEN req[r].row ELSE cache[n], new)
        /\ req[r].at # "idle" /\ UNCHANGED record /\ UNCHANGED <<script, changes>>
        /\ req' = [req EXCEPT ![r] = go] \/ req' = [req EXCEPT ![r] = Idle]
    BY <1>5 DEF UpsertState
  <2>3. cache' \in [Names -> CacheRow \cup {NoRow}]
    BY <1>0, <2>1, <2>2, WriteTyped DEF IInv
  <2> HIDE DEF new
  <2>4. go \in Request /\ go.op = req[r].op /\ go.md5 = req[r].md5 /\ go.seen = req[r].seen
    BY <1>0, <2>1, IdleTyped DEF Request, Stage
  <2>5. req[r].op = "api" => req[r].md5 \in req[r].seen
    BY <2>2 DEF IInv, LoadedWasCurrent
  <2> HIDE DEF go
  <2> QED BY <1>0, <2>2, <2>3, <2>4, <2>5, IdleTyped, RequestInv
<1>6. ASSUME NEW o, NEW s \in CacheState, PageWrites(r, o, s) PROVE IInv'
  <2>1. Seen(r, s) \in CacheRow
    BY <1>0 DEF Seen, Row, CacheRow, AgentRec
  <2>2. cache' \in [Names -> CacheRow \cup {NoRow}]
    BY <1>0, <1>6, <2>1, WriteTyped DEF PageWrites, IInv
  <2>3. req' = [req EXCEPT ![r] = Idle] /\ UNCHANGED record /\ UNCHANGED <<script, changes>>
    BY <1>6 DEF PageWrites
  <2> QED BY <1>0, <2>2, <2>3, IdleTyped, RequestInv
<1>7. CASE BadgeWrites(r) \/ SyncWrites(r) \/ RestageWrites(r)
  <2>1. Resolve(req[r].desc, req[r].md5) \in CacheState /\ req[r].desc.state \in CacheState
    BY <1>0 DEF Resolve, AgentRec, CacheState
  <2> QED BY <1>6, <1>7, <2>1 DEF BadgeWrites, SyncWrites, RestageWrites
<1>8. CASE SubmitRefused(r)
  <2> DEFINE e == [To(r, "loaded") EXCEPT !.again = TRUE]
  <2>1. req[r].at # "idle" /\ req' = [req EXCEPT ![r] = e]
        /\ UNCHANGED <<record, cache>> /\ UNCHANGED <<script, changes>>
    BY <1>8 DEF SubmitRefused
  <2>2. e \in Request /\ (e.op = "api" /\ e.at # "idle" => e.md5 \in e.seen)
    BY <2>1, GoesOn DEF Stage
  <2> HIDE DEF e
  <2> QED BY <1>0, <2>1, <2>2, RequestInv
<1> QED BY <1>1, <1>2, <1>3, <1>4, <1>5, <1>7, <1>8 DEF Step

-----------------------------------------------------------------------------
(* Every step keeps the invariant.                                         *)
LEMMA NextIInv == IInv /\ [Next]_vars => IInv'
<1> SUFFICES ASSUME IInv, [Next]_vars PROVE IInv'
  OBVIOUS
<1>1. ASSUME NEW n \in Names, NEW c \in Versions,
             \/ CreateScriptEndpoint(n, c) \/ AdminScriptNewSubmit(n, c)
             \/ UpdateScriptEndpoint(n, c) \/ AdminScriptEditSubmit(n, c)
      PROVE  IInv'
  BY <1>1, EditsInv
     DEF CreateScriptEndpoint, AdminScriptNewSubmit, UpdateScriptEndpoint, AdminScriptEditSubmit
<1>2. ASSUME NEW n \in Names, DeleteScriptEndpoint(n) \/ AdminScriptDelete(n) PROVE IInv'
  BY <1>2, EditsInv DEF DeleteScriptEndpoint, AdminScriptDelete
<1>3. ASSUME NEW n \in Names, OwnerDecides(n) PROVE IInv'
  BY <1>3, OwnerInv
<1>4. ASSUME NEW n \in Names, NEW r \in Requests,
             \/ SubmitJob(r, n) \/ RunSubmit(r, n)
             \/ ScriptStateBadge(r, n) \/ SyncStates(r, n) \/ Restage(r, n)
      PROVE  IInv'
  <2>1. cache[n] \in CacheRow \cup {NoRow}
    BY Typed DEF IInv
  <2>2. ASSUME NEW o \in Op, NEW w \in CacheRow \cup {NoRow}, Loads(r, o, n, w) PROVE IInv'
    BY <2>2, LoadsInv
  <2>3. \E o \in Op, w \in CacheRow \cup {NoRow}: Loads(r, o, n, w)
    BY <1>4, <2>1 DEF SubmitJob, RunSubmit, ScriptStateBadge, SyncStates, Restage, Op
  <2> QED BY <2>2, <2>3
<1>5. ASSUME NEW builtin \in [Names -> Versions], SeedBuiltinScripts(builtin) PROVE IInv'
  BY <1>5, SeedInv
<1>6. ASSUME NEW r \in Requests, Step(r) PROVE IInv'
  BY <1>6, StepInv
<1>7. CASE UNCHANGED vars
  BY <1>7 DEF vars, IInv, TypeOK, LoadedWasCurrent
<1> QED BY <1>1, <1>2, <1>3, <1>4, <1>5, <1>6, <1>7 DEF Next, Requests

(* Every reachable state satisfies the invariant.                          *)
LEMMA Invariant == Spec => []IInv
<1> QED BY InitIInv, NextIInv, PTL DEF Spec

-----------------------------------------------------------------------------
(* The variables keep their types; in particular every cached state is one *)
(* of the six that the pages know.                                         *)
THEOREM TypeCorrect == Spec => []TypeOK
<1>1. IInv => TypeOK
  BY DEF IInv
<1> QED BY <1>1, Invariant, PTL

(* A job that the API starts runs a version that the registry had at some  *)
(* time during the request.                                                *)
THEOREM VersionsCorrect == Spec => ApiRunsCurrentVersion
<1> DEFINE Current == \A r \in Requests: SubmitRuns(r) /\ req[r].op = "api" =>
                         record[req[r].name].approved_md5 \in req[r].seen
<1>1. IInv => Current
  BY DEF IInv, LoadedWasCurrent, SubmitRuns, ExpectsMd5
<1>2. IInv /\ [Next]_vars => [Current]_vars
  BY <1>1
<1> QED BY <1>2, Invariant, PTL DEF Spec, ApiRunsCurrentVersion
=============================================================================
