------------------------------ MODULE StackFlow -----------------------------
(***************************************************************************)
(* What a stack's steps hand to one another: the check of a save, the       *)
(* preview, and the values each launch gives its modules and hands on       *)
(* (src/waterpump/stacks.py).                                               *)
(*                                                                          *)
(* Every template runs a module with a parameter P and a secret S.  A step   *)
(* may set either to a placeholder; a value is known by where it came from.  *)
(* Stages run in their order, the steps of a stage at once.  A script step   *)
(* is checked and rendered as a launch is; only launches are modelled.       *)
(***************************************************************************)
EXTENDS Naturals

CONSTANTS
    Steps,       \* ids of a stack's launch steps
    Template,    \* Template[s]: the template s launches
    Layouts      \* the layouts a designer may give: the number of each step's stage

\* Bound: three stages.
FlowAssumption == Layouts \subseteq [Steps -> 1 .. 3]

VARIABLES
    flow,      \* flow[s]: the stage of s, and what it sets P and S to
    declared,  \* the stack declares a secret named S
    entered,   \* the names whose values were entered at launch
    at,        \* where the stack is, from its draft to the end of its launch
    stage,     \* the stage at work
    step,      \* step[s]: whether s waits, runs or is over
    warned,    \* steps the save warned of: a secret in a parameter that is none
    shown,     \* shown[s]: the value of P the preview shows for s
    handed,    \* handed[s]: the value of P that s hands on, once it started
    given      \* given[s]: what the module of s is given, once it started

flowVars == <<flow, declared, entered, at, stage, step, warned, shown, handed, given>>

NotSet == <<"unset">>
Unknown == <<"unknown">>      \* what a preview leaves as {{...}}
Blank == <<"blank">>          \* a placeholder that names nothing renders as nothing
Masked == <<"masked">>
Saved(s) == <<"saved", Template[s]>>

Plain == {NotSet, <<"vars">>, <<"secrets">>, <<"params", "P">>}
    \cup {<<"ips", s>> : s \in Steps} \cup {<<"param", s, n>> : s \in Steps, n \in {"P", "S"}}
Choices == {[P |-> e, S |-> NotSet] : e \in Plain}
    \cup {[P |-> NotSet, S |-> e] : e \in {<<"params", "S">>, <<"literal">>}}

Init ==
    /\ \E layout \in Layouts, sets \in [Steps -> Choices] :
          flow = [s \in Steps |-> [stage |-> layout[s], P |-> sets[s].P, S |-> sets[s].S]]
    /\ declared \in BOOLEAN /\ entered = {} /\ at = "draft" /\ stage = 1
    /\ step = [s \in Steps |-> "waits"] /\ warned = {}
    /\ shown = [s \in Steps |-> Unknown]
    /\ handed = <<>> /\ given = <<>>

Earlier(s) == {t \in Steps : flow[t].stage < flow[s].stage}

-----------------------------------------------------------------------------
(* handed_names(): every parameter but the secret ones. *)
HandedNames == {"P"}

(* _check_references() for one step: its placeholders name what is declared, or   *)
(* a launch of an earlier stage and a parameter that one hands on.                *)
Checked(s) ==
    LET e == flow[s].P IN
    /\ e[1] = "secrets" => declared
    /\ e[1] = "ips" => e[2] \in Earlier(s)
    /\ e[1] = "param" => e[2] \in Earlier(s) /\ e[3] \in HandedNames

(* save_stack() with _check_flow() and _check_launch(): a secret is never written   *)
(* into the stack, and one template is launched once per stage.                    *)
Accepted ==
    \A s \in Steps :
        /\ Checked(s) /\ flow[s].S # <<"literal">>
        /\ \A t \in Steps \ {s} : Template[t] = Template[s] => flow[t].stage # flow[s].stage

Save ==
    /\ at = "draft"
    /\ at' = IF Accepted THEN "saved" ELSE "refused"
    /\ warned' = IF Accepted THEN {s \in Steps : flow[s].P[1] = "secrets"} ELSE {}
    /\ UNCHANGED <<flow, declared, entered, stage, step, shown, handed, given>>

-----------------------------------------------------------------------------
(* stack_inputs(): what a launch must be given. *)
Inputs == {flow[s].P[2] : s \in {t \in Steps : flow[t].P[1] = "params"}}
    \cup {"S" : s \in {t \in Steps : flow[t].S[1] = "params"}}

(* _preflight() with _launch_bootstrap(): no module would run without its secret. *)
Ready ==
    /\ Inputs \subseteq entered
    /\ \A s \in Steps : declared \/ "S" \in entered \/ flow[s].S # NotSet

(* _settled(): the value is known before anything runs. *)
Settled(e, known) ==
    \/ e[1] = "vars"
    \/ e[1] = "param" /\ e[2] \in DOMAIN known /\ known[e[2]] # Unknown

(* _render(): a value, from what the launch was given and earlier launches handed on. *)
Rendered(e, hands, done) ==
    CASE e[1] = "vars" -> <<"variable">>
      [] e[1] = "secrets" -> <<"secret">>
      [] e[1] = "params" -> IF e[2] \in entered THEN <<"entered", e[2]>> ELSE Blank
      [] e[1] = "param" -> IF e[2] \in DOMAIN hands THEN hands[e[2]] ELSE Blank
      [] e[1] = "ips" -> IF e[2] \in done THEN <<"addresses", e[2]>> ELSE Blank

(* handed_values(): the step's own value, or the template's. *)
HandedOn(s, own) == IF flow[s].P = NotSet THEN Saved(s) ELSE own

\* The mutant: what a step will hand on is the template's, until it runs.
StaticSaved(known, s) ==
    IF flow[s].P = NotSet \/ Settled(flow[s].P, known)
    THEN HandedOn(s, Rendered(flow[s].P, known, {})) ELSE Saved(s)

(* _static_handed(): a step whose value rests on what is not settled hands on nothing. *)
StaticOf(known, s) ==
    IF flow[s].P = NotSet \/ Settled(flow[s].P, known)
    THEN HandedOn(s, Rendered(flow[s].P, known, {})) ELSE Unknown

\* Stage by stage: what is known before stage k, and of the steps of stage k.
AndStage(known, k) ==
    [s \in {t \in Steps : flow[t].stage <= k} |->
        IF flow[s].stage < k THEN known[s] ELSE StaticOf(known, s)]
Static == AndStage(AndStage(AndStage(<<>>, 1), 2), 3)

(* _explain(): what is known is filled in, and nothing that may be a password. *)
Explained(s) ==
    LET e == flow[s].P IN
    IF e[1] = "secrets" \/ (e[1] = "params" /\ e[2] \in entered) THEN Masked
    ELSE IF e[1] = "vars" THEN <<"variable">>
    ELSE IF e[1] = "param" THEN Static[e[2]] ELSE Unknown

(* preview_stack(), with what the person has entered by then. *)
Preview(names) ==
    /\ at = "saved" /\ names \subseteq {"P", "S"}
    /\ entered' = names /\ at' = "previewed"
    /\ UNCHANGED <<flow, declared, stage, step, warned, shown, handed, given>>

Shows ==
    /\ at = "previewed" /\ at' = "shown"
    /\ shown' = [s \in Steps |-> Explained(s)]
    /\ UNCHANGED <<flow, declared, entered, stage, step, warned, handed, given>>

(* launch_stack() with what the preview was given. *)
Launch ==
    /\ at = "shown" /\ at' = IF Ready THEN "runs" ELSE "lacking"
    /\ UNCHANGED <<flow, declared, entered, stage, step, warned, shown, handed, given>>

-----------------------------------------------------------------------------
(* A step's record is copied under the lock, and its launch begins. *)
Done == {t \in Steps : step[t] = "done"}

(* What reaches every module is what was entered; the step's own values are put      *)
(* on top of it, and below them the stack's secret of the module secret's name        *)
(* (_secrets_by_name), unless one was entered.                                        *)
ValueOfP(s) ==
    IF flow[s].P # NotSet THEN Rendered(flow[s].P, handed, Done)
    ELSE IF "P" \in entered THEN <<"entered", "P">> ELSE Saved(s)

ValueOfS(s) ==
    IF flow[s].S # NotSet \/ "S" \in entered
    THEN IF "S" \in entered THEN <<"entered", "S">> ELSE Blank
    ELSE IF declared THEN <<"secret">> ELSE Blank

With(f, s, value) == [t \in DOMAIN f \cup {s} |-> IF t = s THEN value ELSE f[t]]

StepStarts(s) ==
    /\ at = "runs" /\ flow[s].stage = stage /\ step[s] = "waits"
    /\ step' = [step EXCEPT ![s] = "runs"]
    /\ given' = With(given, s, [P |-> ValueOfP(s), S |-> ValueOfS(s)])
    /\ handed' = With(handed, s, HandedOn(s, ValueOfP(s)))
    /\ UNCHANGED <<flow, declared, entered, at, stage, warned, shown>>

(* _finish_launch() or _await_ready(): the step's addresses are known, or it failed. *)
StepEnds(s) ==
    /\ step[s] = "runs"
    /\ step' \in {[step EXCEPT ![s] = r] : r \in {"done", "failed"}}
    /\ UNCHANGED <<flow, declared, entered, at, stage, warned, shown, handed, given>>

(* The next stage begins when every step of this one is done; a failure ends the launch. *)
StageEnds ==
    /\ at = "runs"
    /\ \A s \in Steps : flow[s].stage = stage => step[s] \in {"done", "failed"}
    /\ LET failed == \E s \in Steps : step[s] = "failed"
           more == \E s \in Steps : flow[s].stage > stage
       IN  /\ at' = IF failed \/ ~more THEN "over" ELSE "runs"
           /\ stage' = IF failed \/ ~more THEN stage ELSE stage + 1
    /\ UNCHANGED <<flow, declared, entered, step, warned, shown, handed, given>>

Next ==
    \/ Save \/ Shows \/ Launch \/ StageEnds
    \/ \E names \in SUBSET {"P", "S"} : Preview(names)
    \/ \E s \in Steps : StepStarts(s) \/ StepEnds(s)

Spec == Init /\ [][Next]_flowVars

-----------------------------------------------------------------------------
(* What the save and the preflight accepted is whole when it runs: no module is   *)
(* given nothing for a parameter the stack or its template sets, nor for its      *)
(* secret, whichever steps of a stage are over first.                             *)
NothingIsBlank ==
    \A s \in DOMAIN given : given[s].P # Blank /\ given[s].S # Blank

(* What a preview fills in is what the launch gives, or a mask over what was       *)
(* entered or is secret; it never shows either, by way of other steps neither.     *)
PreviewIsTrue ==
    /\ \A s \in DOMAIN given :
          \/ shown[s] \in {Unknown, given[s].P}
          \/ shown[s] = Masked /\ given[s].P[1] \in {"entered", "secret"}
    /\ \A s \in Steps : shown[s][1] \notin {"entered", "secret"}

\* What was accepted and shown beforehand is what comes of it.
LaunchAsPromised == NothingIsBlank /\ PreviewIsTrue

(* handed_values() of stacks.py: "the value handed on is the value the module was   *)
(* given".                                                                          *)
HandedIsGiven == \A s \in DOMAIN given : handed[s] = given[s].P

(* docs/security.md on a secret in a parameter that is none: "the designer and the   *)
(* save warn about it".                                                              *)
SecretsAreWarnedOf == \A s \in DOMAIN given : given[s].P = <<"secret">> => s \in warned

-----------------------------------------------------------------------------
(* Why it holds: what is known beforehand is so, stage by stage.                     *)

Flows == [stage : 1 .. 3, P : Plain, S : {NotSet, <<"params", "S">>, <<"literal">>}]
Open == {Unknown[1], "saved", "variable"}

TypeOK ==
    /\ flow \in [Steps -> Flows] /\ declared \in BOOLEAN /\ entered \subseteq {"P", "S"}
    /\ at \in {"draft", "refused", "saved", "previewed", "shown", "lacking", "runs", "over"}
    /\ stage \in Nat /\ step \in [Steps -> {"waits", "runs", "done", "failed"}]
    /\ DOMAIN given \subseteq Steps /\ DOMAIN handed = DOMAIN given

\* Stages follow one another, and what began was given its values.
StepsFit ==
    /\ \A s \in Steps :
          /\ flow[s].stage > stage => step[s] = "waits"
          /\ flow[s].stage < stage => step[s] = "done"
          /\ step[s] = "waits" <=> s \notin DOMAIN given
    /\ at \notin {"runs", "over"} => DOMAIN given = {}

\* What went on was accepted, and what runs was ready.
Passed ==
    /\ at \notin {"draft", "refused"} => Accepted
    /\ at \in {"runs", "over"} => Ready

ShownFits ==
    \A s \in Steps : shown[s] = IF at \in {"draft", "refused", "saved", "previewed"} THEN Unknown
                                ELSE Explained(s)

HandedFits == \A s \in DOMAIN handed : handed[s] # Blank /\ Static[s] \in {Unknown, handed[s]}

FlowInv == TypeOK /\ StepsFit /\ Passed /\ ShownFits /\ HandedFits /\ LaunchAsPromised
=============================================================================
