-------------------------------- MODULE Params --------------------------------
(***************************************************************************)
(* The parameters of a script, from the metadata that the admin saves to   *)
(* the job that the agent accepts.  The web form is rendered from the      *)
(* registry's metadata and turns each field into a typed value; the agent  *)
(* validates the values against the metadata it has approved.  A value     *)
(* keeps its Python type and the text that str() gives for it; path is a   *)
(* string and float an int here, fractions being left out.                 *)
(***************************************************************************)
EXTENDS Naturals

CONSTANTS
    Names,     \* parameter names
    Numbers,   \* numbers that a field, a bound, a default or a choice may be
    Words,     \* texts that are no number
    Versions,  \* contents of the script
    Blank,     \* the empty text
    None       \* no field, no default, no bound, no script

VARIABLES
    script,    \* the registry's row: content and metadata
    approved,  \* the agent's approved copy
    form       \* the form: the metadata it shows, that which turned its fields into values, the answer

vars == <<script, approved, form>>

Texts   == Numbers \cup Words \cup {Blank}
Num(n)  == [type |-> "num", text |-> n]
Str(t)  == [type |-> "str", text |-> t]
Bool(b) == [type |-> "bool", text |-> IF b THEN 1 ELSE 0]
Scalar  == {Num(n): n \in Numbers} \cup {Str(t): t \in Words}

(* ParamDescriptor: choice needs choices, only numbers have bounds, and an *)
(* optional parameter has a default, of whatever type and size.            *)
WellFormed(d) ==
    /\ d.type = "choice" => d.choices # {}
    /\ d.type # "int" => d.min = None /\ d.max = None
    /\ d.required \/ d.default # None

ParamDescriptor ==
    {d \in [type: {"string", "int", "bool", "choice"}, required: BOOLEAN,
            default: Scalar \cup {None}, min: Numbers \cup {None}, max: Numbers \cup {None},
            choices: SUBSET Scalar]:
        WellFormed(d) /\ (d.type # "choice" => d.choices = {})}

(* ScriptMeta: parameters with distinct names.                             *)
ScriptMeta == UNION {[ps -> ParamDescriptor]: ps \in SUBSET Names}
NoForm     == [at |-> "none", shown |-> << >>, used |-> << >>, params |-> << >>]

Init ==
    /\ script = None
    /\ approved = None
    /\ form = NoForm

-----------------------------------------------------------------------------
(* create_script and update_script parse the metadata; only the content is *)
(* hashed.                                                                 *)
SaveScript(v, meta) ==
    /\ script' = [md5 |-> v, meta |-> meta]
    /\ UNCHANGED <<approved, form>>

(* sync_script stages a content that the agent has not approved, with the  *)
(* metadata of that moment, and the owner approves it: a later edit of the *)
(* metadata alone stays on the server.                                     *)
SyncedAndApproved ==
    /\ script # None
    /\ approved # None => approved.md5 # script.md5
    /\ approved' = script
    /\ UNCHANGED <<script, form>>

-----------------------------------------------------------------------------
(* What the browser sends for a field it lets the user submit: an entry of *)
(* the dropdown, a ticked box or nothing, a number within the bounds or    *)
(* blank if it is not required, any text.                                  *)
InBounds(d, n) == (d.min # None => n >= d.min) /\ (d.max # None => n <= d.max)

Sends(d, raw) ==
    \/ d.type = "choice" /\ raw \in {c.text: c \in d.choices}
    \/ d.type = "bool" /\ raw \in {1, None}
    \/ d.type = "int" /\ raw \in Numbers /\ InBounds(d, raw)
    \/ d.type \in {"int", "string"} /\ raw = Blank /\ ~d.required
    \/ d.type = "string" /\ raw \in Texts \ {Blank}

(* run_submit: a box is ticked if its field is there; a number that is not *)
(* given is its default, and 0 if that is no number; the rest is text.     *)
FormValue(d, raw) ==
    CASE d.type = "bool" -> Bool(raw # None)
      [] d.type = "int" ->
            Num(IF raw \in Numbers THEN raw
                ELSE IF raw \in {Blank, None} /\ d.default # None /\ d.default.text \in Numbers
                THEN d.default.text ELSE 0)
      [] OTHER -> Str(IF raw # None THEN raw ELSE IF d.default # None THEN d.default.text ELSE Blank)

(* run_form shows the form; run_submit loads the script anew, so that the  *)
(* fields may be those of other metadata.  The script is approved.         *)
RunForm ==
    /\ script # None
    /\ form' = [NoForm EXCEPT !.at = "shown", !.shown = script.meta]
    /\ UNCHANGED <<script, approved>>

RunSubmit(fields) ==
    /\ form.at = "shown"
    /\ script # None /\ approved # None /\ script.md5 = approved.md5
    /\ \A p \in Names: IF p \in DOMAIN form.shown THEN Sends(form.shown[p], fields[p]) ELSE fields[p] = None
    /\ form' = [form EXCEPT !.at = "sent", !.used = script.meta,
                   !.params = [p \in DOMAIN script.meta |-> FormValue(script.meta[p], fields[p])]]
    /\ UNCHANGED <<script, approved>>

(* _validate_value: the Python type, the bounds, one of the choices.       *)
ValidateValue(d, v) ==
    CASE d.type = "string" -> v.type = "str"
      [] d.type = "bool" -> v.type = "bool"
      [] d.type = "int" -> v.type = "num" /\ InBounds(d, v.text)
      [] d.type = "choice" -> v \in d.choices

(* validate_params: no unknown parameter, no required one missing.         *)
ValidateParams(meta, params) ==
    /\ DOMAIN params \subseteq DOMAIN meta
    /\ \A p \in DOMAIN meta: IF p \in DOMAIN params THEN ValidateValue(meta[p], params[p])
                             ELSE ~meta[p].required

AgentAnswers ==
    /\ form.at = "sent"
    /\ form' = [form EXCEPT !.at = IF ValidateParams(approved.meta, form.params)
                                   THEN "accepted" ELSE "refused"]
    /\ UNCHANGED <<script, approved>>

-----------------------------------------------------------------------------
Next ==
    \/ \E v \in Versions, meta \in ScriptMeta: SaveScript(v, meta)
    \/ SyncedAndApproved
    \/ RunForm
    \/ \E fields \in [Names -> Texts \cup {1, None}]: RunSubmit(fields)
    \/ AgentAnswers

Spec == Init /\ [][Next]_vars

-----------------------------------------------------------------------------
(* The admin's guide: the choices of a parameter are its allowed values,   *)
(* rendered as a dropdown.  So an agent that has the metadata the form was *)
(* rendered from never refuses a form because of an entry of a dropdown.   *)
ChoicesAreAllowed ==
    form.at = "refused" /\ form.shown = form.used /\ form.used = approved.meta =>
        \A p \in DOMAIN form.used:
            form.used[p].type = "choice" => ValidateValue(form.used[p], form.params[p])
=============================================================================
