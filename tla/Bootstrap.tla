------------------------------ MODULE Bootstrap ------------------------------
(* Bootstrap runs: modules run one after another inside an instance, with the   *)
(* values their parameters are given, and what worked is remembered for the next *)
(* run (src/waterpump/bootstrap.py, service.py).                                 *)
(*                                                                              *)
(* Two modules declare a parameter P with defaults of their own; the first may   *)
(* be listed more than once and has a secret S.                                  *)
EXTENDS Integers, Sequences, FiniteSets

CONSTANTS
    Uses,         \* the runs people ask for
    MaxSettings   \* bound: changes of the saved settings by people

UsesAssumption == {"nobody", "somebody"} \cap Uses = {}

VARIABLES
    saved,    \* saved[m]: the value of P in settings.json, or Unset
    run,      \* run[r]
    latest,   \* whose values were saved last
    settings

bootstrapVars == <<saved, run, latest, settings>>

Modules == {"mount", "tool"}      \* in their order
Unset == "unset"
Default == [mount |-> "d", tool |-> "e"]
Values == {"d", "e", "x"}
Secrets(m) == IF m = "mount" THEN {"S"} ELSE {}
Params(m) == {"P"} \cup Secrets(m)

-----------------------------------------------------------------------------
(* occurrences(): the n-th entry of a module is its n-th occurrence; they run in *)
(* the order of the modules, and those of one module in the order of the list.    *)
Upto(list, i, m) == Cardinality({j \in 1 .. i : list[j] = m})
Times(list, m) == Upto(list, Len(list), m)
Counted(list) == {e \in Modules \X (1 .. Len(list)) : e[2] <= Times(list, e[1])}
Selected(list) ==
    [n \in 1 .. Times(list, "mount") |-> <<"mount", n>>] \o [n \in 1 .. Times(list, "tool") |-> <<"tool", n>>]

(* unrepeatable() *)
Once(list) == <<"tool", 2>> \notin Counted(list)

(* effective_params(): the default, or what is saved; a secret is never saved. *)
Effective(settled, m, p) ==
    IF p = "S" THEN "" ELSE IF settled[m] = Unset THEN Default[m] ELSE settled[m]

(* bootstrap() merges: a name that two modules share is the later entry's, and   *)
(* what the caller gave goes over all of it.  Keys are a name and an occurrence.  *)
Keys == {"P", "S"} \X {1, 2}
LastWith(list, k) ==
    LET at == {i \in 1 .. Len(list) :
                  /\ k[1] \in Params(list[i])
                  /\ Upto(list, i, list[i]) = k[2]}
    IN IF at = {} THEN 0 ELSE CHOOSE i \in at : \A j \in at : j <= i
Merged(settled, list, given) ==
    [k \in Keys |-> IF given[k] # Unset THEN given[k]
                    ELSE IF LastWith(list, k) = 0 THEN Unset
                    ELSE Effective(settled, list[LastWith(list, k)], k[1])]

(* occurrence_value(): its own, or else the first's; a blank secret is none. *)
OccurrenceValue(values, p, n) ==
    LET own == values[<<p, n>>] IN
    IF n = 1 \/ (own # Unset /\ ~(p = "S" /\ own = "")) THEN own ELSE values[<<p, 1>>]

(* missing_secrets() *)
Missing(values, list) ==
    {e \in Counted(list) : \E p \in Secrets(e[1]) : OccurrenceValue(values, p, e[2]) \in {"", Unset}}

(* _run_one(): the run's values, the occurrence's own over them, defaults for the rest. *)
Environment(values, m, n) ==
    [p \in Params(m) |->
        LET own == OccurrenceValue(values, p, n) IN
        IF own # Unset THEN own ELSE IF values[<<p, 1>>] # Unset THEN values[<<p, 1>>]
        ELSE IF p = "S" THEN "" ELSE Default[m]]

-----------------------------------------------------------------------------
Idle == [at |-> "none", list |-> <<>>, given |-> [k \in Keys |-> Unset], start |-> [m \in Modules |-> Unset],
         values |-> [k \in Keys |-> Unset], got |-> <<>>, ok |-> TRUE, script |-> "none",
         remember |-> TRUE]

Lists == {<<"mount">>, <<"tool">>, <<"mount", "tool">>, <<"tool", "mount">>, <<"mount", "mount">>,
          <<"mount", "tool", "mount">>, <<"tool", "tool">>}
Given == {[Idle.given EXCEPT ![<<"P", 1>>] = a, ![<<"P", 2>>] = b, ![<<"S", 1>>] = c, ![<<"S", 2>>] = d] :
             a \in {Unset, "d", "x"}, b \in {Unset, "x"}, c \in {Unset, "s"}, d \in {Unset, "t"}}

Init ==
    /\ saved = [m \in Modules |-> Unset]
    /\ run = [r \in Uses |-> Idle]
    /\ latest = "nobody"
    /\ settings = 0

\* It is asked for with values of the caller's, and starts from the settings of that moment.
Begin(r) ==
    /\ run[r].at = "none"
    /\ \E list \in Lists, given \in Given, remember \in BOOLEAN :
          LET values == Merged(saved, list, given) IN
          run' = [run EXCEPT ![r] =
             [Idle EXCEPT !.list = list, !.given = given, !.start = saved, !.values = values,
                !.remember = remember,
                !.at = IF Once(list) /\ Missing(values, list) = {} THEN "waits" ELSE "refused"]]
    /\ UNCHANGED <<saved, latest, settings>>

(* _wait_until_reachable(), _require_connectivity(): not without a network, if it can be told. *)
Reachable(r) ==
    /\ run[r].at = "waits"
    /\ run' = [run EXCEPT ![r].at = "runs"]
    /\ UNCHANGED <<saved, latest, settings>>

Unreachable(r) ==
    /\ run[r].at = "waits"
    /\ run' = [run EXCEPT ![r].at = "refused"]
    /\ UNCHANGED <<saved, latest, settings>>

\* The script is pushed, run with its values, and taken away whatever came of it.
Push(r) ==
    /\ run[r].at = "runs" /\ run[r].script = "none"
    /\ Len(run[r].got) < Len(Selected(run[r].list))
    /\ run' = [run EXCEPT ![r].script = "there"]
    /\ UNCHANGED <<saved, latest, settings>>

Exec(r) ==
    /\ run[r].script = "there"
    /\ LET next == Selected(run[r].list)[Len(run[r].got) + 1]
           with == Environment(run[r].values, next[1], next[2])
       IN \E ok \in BOOLEAN :
            run' = [run EXCEPT ![r].script = "none",
                      ![r].got = Append(@, [of |-> next, with |-> with]),
                      ![r].ok = ok, ![r].at = IF ok THEN @ ELSE "over"]
    /\ UNCHANGED <<saved, latest, settings>>

\* Mutant: what equals the default is left as it is.
Kept(m, value, old) == IF value = Default[m] THEN old ELSE value

(* _remember_params() for P: what equals the module's default is not kept. *)
Remembered(m, value, old) == IF value = Default[m] THEN Unset ELSE value

Ends(r) ==
    /\ run[r].at = "runs" /\ run[r].script = "none"
    /\ Len(run[r].got) = Len(Selected(run[r].list))
    /\ run' = [run EXCEPT ![r].at = "over"]
    /\ IF run[r].remember
       THEN /\ saved' = [m \in Modules |-> IF Times(run[r].list, m) > 0
                            THEN Remembered(m, run[r].values[<<"P", 1>>], saved[m]) ELSE saved[m]]
            /\ latest' = r
       ELSE UNCHANGED <<saved, latest>>
    /\ UNCHANGED settings

(* update_module_settings(): empty is back to the default; not a secret. *)
ModuleSet(m) ==
    /\ settings < MaxSettings /\ settings' = settings + 1
    /\ \E value \in {Unset, "e", "x"} : saved' = [saved EXCEPT ![m] = value]
    /\ latest' = "somebody"
    /\ UNCHANGED run

Next ==
    \/ \E r \in Uses : Begin(r) \/ Reachable(r) \/ Unreachable(r) \/ Push(r) \/ Exec(r) \/ Ends(r)
    \/ \E m \in Modules : ModuleSet(m)

-----------------------------------------------------------------------------
(* "Each repeat starts from the module's own defaults (and your saved settings for   *)
(* it), never from the first copy's values ... a repeat with no secret of its own     *)
(* shares the first's" (docs/modules.md), and no module runs without its secret.       *)
RepeatsAreTheirOwn ==
    \A r \in Uses : \A i \in 1 .. Len(run[r].got) :
        LET m == run[r].got[i].of[1]  n == run[r].got[i].of[2]  with == run[r].got[i].with
            given == run[r].given
        IN /\ n > 1 => with.P = IF given[<<"P", n>>] # Unset THEN given[<<"P", n>>]
                                ELSE Effective(run[r].start, m, "P")
           /\ \A s \in Secrets(m) :
                 /\ with[s] \notin {"", Unset}
                 /\ with[s] = IF given[<<s, n>>] # Unset THEN given[<<s, n>>] ELSE given[<<s, 1>>]

(* "the next container starts from what worked last time" (docs/modules.md): after a  *)
(* run whose values nobody has saved over, every module of it starts from what it got. *)
StartsFromWhatWorked ==
    \A r \in Uses : latest = r =>
        \A i \in 1 .. Len(run[r].got) :
            run[r].got[i].of[2] = 1 =>
                LET m == run[r].got[i].of[1]
                    again == Merged(saved, run[r].list, [k \in Keys |-> Unset])
                IN Environment(again, m, 1).P = run[r].got[i].with.P

RunsAreRepeated == RepeatsAreTheirOwn /\ StartsFromWhatWorked

-----------------------------------------------------------------------------
(* Why it holds: what a module was given is worked out of what the run began with.  *)

Started(r) == run[r].at \in {"waits", "runs", "over"}
Outcomes(r) ==
    {[of |-> e, with |-> Environment(run[r].values, e[1], e[2])] : e \in Counted(run[r].list)}

RunFits(r) ==
    /\ run[r] \in [at : {"none", "waits", "runs", "over", "refused"}, list : Lists \cup {<<>>},
                   given : {run[r].given}, start : {run[r].start}, values : {run[r].values},
                   got : Seq(Outcomes(r)), ok : BOOLEAN, script : {"none", "there"}, remember : BOOLEAN]
    /\ Started(r) =>
          /\ run[r].list \in Lists /\ run[r].given \in Given /\ Once(run[r].list)
          /\ run[r].values = Merged(run[r].start, run[r].list, run[r].given)
          /\ Missing(run[r].values, run[r].list) = {}
    /\ run[r].at \notin {"runs", "over"} => run[r].got = <<>>
    /\ run[r].script = "there" => run[r].at = "runs" /\ Len(run[r].got) < Len(Selected(run[r].list))

\* What was remembered last is what its modules got.
LatestFits ==
    latest \in Uses =>
        /\ run[latest].at = "over"
        /\ \A m \in Modules : Times(run[latest].list, m) > 0 =>
              saved[m] = Remembered(m, run[latest].values[<<"P", 1>>], saved[m])

BootInv ==
    /\ run = [r \in Uses |-> run[r]] /\ saved = [m \in Modules |-> saved[m]]
    /\ (\A r \in Uses : RunFits(r)) /\ LatestFits
=============================================================================
