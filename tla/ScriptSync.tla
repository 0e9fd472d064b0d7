------------------------------ MODULE ScriptSync ------------------------------
(***************************************************************************)
(* The scripts of the control station against one target.  The admin edits *)
(* the registry, the owner decides on the target, and the requests of the  *)
(* API and of the web pages load a script, ask the agent about it, stage   *)
(* it, cache what they learned in script_target_state and start jobs, each *)
(* in several steps.  The agent is ApprovalProtocol, whose actions are     *)
(* taken here as the calls of this module; a job it starts runs the        *)
(* version it has approved.                                                *)
(***************************************************************************)
EXTENDS Naturals

CONSTANTS
    Names,       \* script names
    Versions,    \* contents of a script; a version stands for its MD5 too
    Submissions, \* job submissions that may be in progress together
    Pages,       \* requests of the web pages that may
    NoMd5,       \* no MD5
    NoScript,    \* the registry has no script of this name
    NoRow,       \* no row in script_target_state
    MaxChanges   \* bound on the admin's edits and the owner's decisions together

Requests == Submissions \cup Pages

ASSUME NoMd5Assumption == NoMd5 \notin Versions /\ NoScript \notin Versions
ASSUME BoundAssumption == MaxChanges \in Nat
ASSUME NamesAssumption == Names # {}

VARIABLES
    record,            \* the agent's approval records
    script,            \* the scripts table: the version of each name
    cache,             \* script_target_state
    req,               \* the requests in progress
    changes            \* how many edits and decisions there were

vars == <<record, script, cache, req, changes>>

Agent == INSTANCE ApprovalProtocol WITH Contents <- Versions, launched <- <<>>

Row(s, a, p) == [state |-> s, approved |-> a, pending |-> p]
CacheState   == {"absent", "pending", "approved", "approved_stale", "update_pending", "rejected"}
Md5s         == Versions \cup {NoMd5}
CacheRow     == [state: CacheState, approved: Md5s, pending: Md5s]

(* "api" and "web" submit a job; "badge", "sync" and "restage" are pages.  *)
(* again: the agent has refused the job and the script is synced once more.*)
(* seen: the versions the registry has had since the request loaded it.    *)
Op    == {"api", "web", "badge", "sync", "restage"}
Stage == {"idle", "loaded", "asked", "synced", "submit", "restaged"}
Idle  == [op |-> "badge", at |-> "idle", name |-> CHOOSE n \in Names: TRUE, md5 |-> NoMd5,
          desc |-> Agent!AbsentRec, state |-> "absent", row |-> NoRow, again |-> FALSE, seen |-> {}]

TypeOK ==
    /\ record \in [Names -> [state: CacheState \ {"approved_stale"},
                             approved_md5: Md5s, pending_md5: Md5s]]
    /\ script \in [Names -> Versions \cup {NoScript}]
    /\ cache \in [Names -> CacheRow \cup {NoRow}]
    /\ req \in [Requests -> [op: Op, at: Stage, name: Names, md5: Md5s,
                             desc: [state: CacheState \ {"approved_stale"},
                                    approved_md5: Md5s, pending_md5: Md5s],
                             state: CacheState, row: CacheRow \cup {NoRow}, again: BOOLEAN,
                             seen: SUBSET Versions]]
    /\ changes \in 0..MaxChanges

Init ==
    /\ Agent!Init
    /\ script = [n \in Names |-> NoScript]
    /\ cache = [n \in Names |-> NoRow]
    /\ req = [r \in Requests |-> Idle]
    /\ changes = 0

-----------------------------------------------------------------------------
(* The registry and the owner.                                             *)
Counted == changes < MaxChanges /\ changes' = changes + 1

(* The commit of a registry edit; the job submissions in progress are its  *)
(* witnesses.                                                              *)
Commits(edited) ==
    /\ script' = edited
    /\ req' = [r \in Requests |-> IF req[r].op = "api" /\ req[r].at # "idle"
                                  THEN [req[r] EXCEPT !.seen = @ \cup ({edited[req[r].name]} \ {NoScript})]
                                  ELSE req[r]]

(* create_script refuses a name in use.  A new script gets the id of the   *)
(* deleted one, and with it a cache row inserted after the deletion.       *)
CreateScript(n, c) ==
    /\ Counted
    /\ script[n] = NoScript
    /\ Commits([script EXCEPT ![n] = c])
    /\ UNCHANGED <<record, cache>>

(* update_script stores the new content with its hash.                     *)
UpdateScript(n, c) ==
    /\ Counted
    /\ script[n] \notin {NoScript, c}
    /\ Commits([script EXCEPT ![n] = c])
    /\ UNCHANGED <<record, cache>>

(* The cache rows of the script go with it.                                *)
DeleteScript(n) ==
    /\ Counted
    /\ script[n] # NoScript
    /\ Commits([script EXCEPT ![n] = NoScript])
    /\ cache' = [cache EXCEPT ![n] = NoRow]
    /\ UNCHANGED record

(* The endpoints of the API and the forms of the admin pages.              *)
CreateScriptEndpoint(n, c)  == CreateScript(n, c)
UpdateScriptEndpoint(n, c)  == UpdateScript(n, c)
DeleteScriptEndpoint(n)     == DeleteScript(n)
AdminScriptNewSubmit(n, c)  == CreateScript(n, c)
AdminScriptEditSubmit(n, c) == UpdateScript(n, c)
AdminScriptDelete(n)        == DeleteScript(n)

(* csl-admin seed-scripts: the packaged scripts whose names are free, all  *)
(* in one transaction; the other names are skipped.                        *)
SeedBuiltinScripts(builtin) ==
    /\ Counted
    /\ Commits([n \in Names |-> IF script[n] = NoScript THEN builtin[n] ELSE script[n]])
    /\ UNCHANGED <<record, cache>>

OwnerDecides(n) ==
    /\ Counted
    /\ Agent!Approve(n) \/ Agent!Reject(n) \/ Agent!Clear(n)
    /\ UNCHANGED <<script, cache, req>>

-----------------------------------------------------------------------------
(* Calls of the agent.                                                     *)
To(r, stage) == [req[r] EXCEPT !.at = stage]

(* stage_script: refused (409) for a rejected script, idempotent for a     *)
(* version that is approved or in review already.  The owner may put the   *)
(* script on the auto-approve list and take it off at any time.            *)
StageScript(n, c) ==
    /\ record[n].state # "rejected"
    /\ \/ record[n].state = "approved" /\ record[n].approved_md5 = c /\ UNCHANGED record
       \/ record[n].state \in Agent!InReview /\ record[n].pending_md5 = c /\ UNCHANGED record
       \/ /\ ~(record[n].state = "approved" /\ record[n].approved_md5 = c)
          /\ ~(record[n].state \in Agent!InReview /\ record[n].pending_md5 = c)
          /\ Agent!StageAuto(n, c) \/ Agent!Stage(n, c)

(* Mutant: a stale approval gets a name that is no state.                  *)
ResolveStale(desc, md5) ==
    IF desc.state = "approved" /\ desc.approved_md5 # md5 THEN "stale" ELSE desc.state

(* approved_stale: what the agent has approved is not the current version. *)
Resolve(desc, md5) ==
    IF desc.state = "approved" /\ desc.approved_md5 # md5 THEN "approved_stale" ELSE desc.state

-----------------------------------------------------------------------------
(* Every request loads the script first, the pages the cache row with it.  *)
Loads(r, op, n, row) ==
    /\ req[r].at = "idle"
    /\ script[n] # NoScript
    /\ req' = [req EXCEPT ![r] = [Idle EXCEPT !.op = op, !.at = "loaded", !.name = n,
                                  !.md5 = script[n], !.row = row,
                                  !.seen = IF op = "api" THEN {script[n]} ELSE {}]]
    /\ UNCHANGED <<record, script, cache, changes>>

SubmitJob(r, n)        == Loads(r, "api", n, NoRow)
RunSubmit(r, n)        == Loads(r, "web", n, NoRow)
ScriptStateBadge(r, n) == Loads(r, "badge", n, cache[n])
Restage(r, n)          == Loads(r, "restage", n, cache[n])

(* sync_states looks only at the scripts that have a cache row.            *)
SyncStates(r, n) == cache[n] # NoRow /\ Loads(r, "sync", n, cache[n])

(* A call or a commit fails, or the server dies: the request is over.      *)
Fails(r) ==
    /\ req[r].at # "idle"
    /\ req' = [req EXCEPT ![r] = Idle]
    /\ UNCHANGED <<record, script, cache, changes>>

(* get_script_state; a restage asks after it has staged.                   *)
GetScriptState(r) ==
    /\ req[r].at = IF req[r].op = "restage" THEN "restaged" ELSE "loaded"
    /\ req' = [req EXCEPT ![r] = [To(r, "asked") EXCEPT !.desc = record[req[r].name]]]
    /\ UNCHANGED <<record, script, cache, changes>>

(* sync_script: stage what is absent or stale, keep the rest.              *)
SyncScript(r) ==
    LET resolved == Resolve(req[r].desc, req[r].md5) IN
    /\ req[r].at = "asked" /\ req[r].op \in {"api", "web"}
    /\ IF resolved \in {"absent", "approved_stale"}
       THEN /\ StageScript(req[r].name, req[r].md5)
            /\ req' = [req EXCEPT ![r] = [To(r, "synced") EXCEPT
                          !.state = record'[req[r].name].state]]
       ELSE /\ req' = [req EXCEPT ![r] = [To(r, "synced") EXCEPT !.state = resolved]]
            /\ UNCHANGED record
    /\ UNCHANGED <<script, cache, changes>>

(* restage stages without asking first.                                    *)
RestageStages(r) ==
    /\ req[r].at = "loaded" /\ req[r].op = "restage"
    /\ StageScript(req[r].name, req[r].md5)
    /\ req' = [req EXCEPT ![r] = To(r, "restaged")]
    /\ UNCHANGED <<script, cache, changes>>

-----------------------------------------------------------------------------
(* Writing the cache.  A session inserts the row it did not find and       *)
(* updates the columns that differ from the row it loaded; a row that was  *)
(* inserted or deleted meanwhile makes the commit fail.                    *)
Flush(loaded, new, current) ==
    [col \in DOMAIN new |-> IF new[col] # loaded[col] THEN new[col] ELSE current[col]]

WriteRow(n, loaded, new) ==
    /\ (loaded = NoRow) = (cache[n] = NoRow)
    /\ cache' = [cache EXCEPT ![n] = IF loaded = NoRow THEN new ELSE Flush(loaded, new, @)]

Seen(r, state) == Row(state, req[r].desc.approved_md5, req[r].desc.pending_md5)

(* _upsert_state reads the row just before it writes it, but the second    *)
(* time the session still has the row it wrote the first time.  The MD5s   *)
(* are those from before the staging.  Only approved scripts go on.        *)
UpsertState(r) ==
    LET n == req[r].name
        new == Seen(r, req[r].state)
    IN
    /\ req[r].at = "synced"
    /\ WriteRow(n, IF req[r].again THEN req[r].row ELSE cache[n], new)
    /\ req' = [req EXCEPT ![r] = IF req[r].state = "approved" /\ ~req[r].again
                                 THEN [Idle EXCEPT !.op = req[r].op, !.at = "submit", !.name = n,
                                                   !.md5 = req[r].md5, !.row = new, !.seen = req[r].seen]
                                 ELSE Idle]
    /\ UNCHANGED <<record, script, changes>>

PageWrites(r, op, state) ==
    /\ req[r].at = "asked" /\ req[r].op = op
    /\ WriteRow(req[r].name, req[r].row, Seen(r, state))
    /\ req' = [req EXCEPT ![r] = Idle]
    /\ UNCHANGED <<record, script, changes>>

(* Mutant: the badge takes the agent's word and compares no versions.      *)
BadgeWritesRaw(r) == PageWrites(r, "badge", req[r].desc.state)

BadgeWrites(r) == PageWrites(r, "badge", Resolve(req[r].desc, req[r].md5))
SyncWrites(r)  == PageWrites(r, "sync", Resolve(req[r].desc, req[r].md5))

(* restage stores the agent's state as it is.                              *)
RestageWrites(r) == PageWrites(r, "restage", req[r].desc.state)

-----------------------------------------------------------------------------
(* The job goes to the agent: the API names the version it expects, the    *)
(* web form does not.                                                      *)

(* Mutant: the API does not send expected_md5 either.                      *)
NeverExpects(r) == FALSE

ExpectsMd5(r) == req[r].op = "api"

SubmitRuns(r) ==
    /\ req[r].at = "submit"
    /\ ExpectsMd5(r) => record[req[r].name].approved_md5 = req[r].md5
    /\ record[req[r].name].state = "approved"
    /\ req' = [req EXCEPT ![r] = Idle]
    /\ UNCHANGED <<record, script, cache, changes>>

(* 409 md5_mismatch: sync once more, then report.  The web form gives up.  *)
SubmitRefused(r) ==
    /\ req[r].at = "submit"
    /\ ExpectsMd5(r) /\ record[req[r].name].approved_md5 # req[r].md5
    /\ req' = [req EXCEPT ![r] = [To(r, "loaded") EXCEPT !.again = TRUE]]
    /\ UNCHANGED <<record, script, cache, changes>>

-----------------------------------------------------------------------------
Step(r) ==
    \/ Fails(r) \/ GetScriptState(r) \/ SyncScript(r) \/ RestageStages(r) \/ UpsertState(r)
    \/ BadgeWrites(r) \/ SyncWrites(r) \/ RestageWrites(r) \/ SubmitRuns(r) \/ SubmitRefused(r)

Next ==
    \/ \E n \in Names:
          \/ \E c \in Versions: CreateScriptEndpoint(n, c) \/ AdminScriptNewSubmit(n, c)
          \/ \E c \in Versions: UpdateScriptEndpoint(n, c) \/ AdminScriptEditSubmit(n, c)
          \/ DeleteScriptEndpoint(n) \/ AdminScriptDelete(n) \/ OwnerDecides(n)
          \/ \E r \in Submissions: SubmitJob(r, n) \/ RunSubmit(r, n)
          \/ \E r \in Pages: ScriptStateBadge(r, n) \/ SyncStates(r, n) \/ Restage(r, n)
    \/ \E builtin \in [Names -> Versions]: SeedBuiltinScripts(builtin)
    \/ \E r \in Requests: Step(r)

Spec == Init /\ [][Next]_vars

(* Every request ends, by a timeout if nothing else; and somebody keeps    *)
(* refreshing the badge of each script, not every time in vain.            *)
FairSpec ==
    /\ Spec
    /\ \A r \in Requests: WF_vars(Step(r))
    /\ \A r \in Pages:
          /\ \A n \in Names: SF_vars(ScriptStateBadge(r, n))
          /\ SF_vars(GetScriptState(r) /\ req[r].op = "badge")
          /\ SF_vars(BadgeWrites(r))

-----------------------------------------------------------------------------
(* A job the API starts runs a version that the registry had at some time  *)
(* during the request, whatever admin, owner and other requests did: not   *)
(* the one that the target approved earlier or some other request staged.  *)
ApiRunsCurrentVersion ==
    [][\A r \in Requests: SubmitRuns(r) /\ req[r].op = "api" =>
            record[req[r].name].approved_md5 \in req[r].seen]_vars

(* Once the edits and the decisions end, the cache comes to show what the  *)
(* agent has, and what is stale, for every script, and goes on to do so.   *)
Fresh(n) ==
    script[n] # NoScript =>
        cache[n] = Row(Resolve(record[n], script[n]), record[n].approved_md5, record[n].pending_md5)
CacheConverges == <>[](\A n \in Names: Fresh(n))
=============================================================================
