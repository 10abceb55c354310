----------------------------- MODULE StackLife ------------------------------
(***************************************************************************)
(* What is asked of one stack from several members, and what comes of it   *)
(* (src/waterpump/stacks.py, save_stack to delete_stack, launch_stack to   *)
(* stop_swarm, _settle_secrets to _start, _confirmed to _swarm_teardown):  *)
(* an ask reads the secrets, looks whether the stack is busy here and then *)
(* on each peer, compares what was confirmed with what there is, keeps a   *)
(* value for the stack's secret, tells the peers of it, and only then      *)
(* registers its run.  None of this is one step, and a run lives in the    *)
(* memory of its own member.  What a run does stage by stage is StackRun's;*)
(* what reconciliation settles later is Definitions'.                      *)
(***************************************************************************)
EXTENDS Naturals, FiniteSets

CONSTANTS
    Members,       \* the nodes of the cluster
    Asks,          \* bound: the requests people make
    Before,        \* the launch of an earlier day, no member of Asks
    None,          \* no value, no run
    Names,         \* the names an instance may have on its member
    MaxTrouble     \* bound: silences, lost pushes and failures to destroy

VARIABLES
    defined,       \* the members that hold the stack's definition
    secret,        \* secret[m]: the launch whose value of the secret m holds, or None
    run,           \* run[m]: the ask whose run is going on m, or None
    ask,           \* ask[a]: how far a is and what it read, see Ask
    instances,     \* what carries the stack's tag
    crossed,       \* the pairs <<a, b>>: a heard that b's member was free, then b's run began
    raced,         \* the asks that read the secret while another was yet to tell of its value
    trouble        \* so far, bounded by MaxTrouble

\* What is no ask, and no value.
StackAssumption ==
    None \notin Asks /\ Before \notin Asks /\ None # Before /\ MaxTrouble \in Nat

vars == <<defined, secret, run, ask, instances, crossed, raced, trouble>>

Kinds == {"launch", "relaunch", "swarm", "swarmstop", "destroy", "delete", "forget"}

\* A deletion, with and without what the stack launched.
Deleting == {"delete", "forget"}

\* The kinds that use the stack's definition and its secret.
Launching == {"launch", "relaunch", "swarm"}

\* The kinds that act on what the caller confirmed.
Confirming == {"relaunch", "swarmstop", "destroy", "delete"}

Values == Asks \cup {Before, None}

\* `by`: the run's own tag for a swarm's, a ghost for the others.
Instance ==
    [by : Asks \cup {Before}, at : Members, name : Names, with : Values, swarm : BOOLEAN]

\* An instance is known by its node and its name, which another may have after it.
Label(i) == [at |-> i.at, name |-> i.name]
Labels == [at : Members, name : Names]
LabelsOf(some) == {Label(i) : i \in some}

Stage == {"none", "begun", "asking", "checked", "telling", "starting", "going", "ending",
          "dropping", "forgetting", "spreading", "over", "refused"}

\* Where it was asked; what of; how far it is; what it confirmed, or found of its
\* own, of which it has but the names; the value it read, and then uses; the
\* members that said they are free, and that were silent; the names its run has
\* yet to destroy, and those it could not.
Ask == [at : Members, kind : Kinds, to : Stage, shown : SUBSET Instance, value : Values,
        free : SUBSET Members, silent : SUBSET Members, doomed : SUBSET Labels,
        kept : SUBSET Labels]

TypeOK ==
    /\ defined \subseteq Members /\ secret \in [Members -> Values]
    /\ run \in [Members -> Asks \cup {None}] /\ ask \in [Asks -> Ask]
    /\ instances \subseteq Instance /\ crossed \subseteq Asks \X Asks
    /\ raced \subseteq Asks /\ trouble \in 0 .. MaxTrouble

Init ==
    \E m \in Members, name \in Names :
        /\ defined = Members
        /\ run = [n \in Members |-> None]
        /\ ask = [a \in Asks |->
               [at |-> m, kind |-> "launch", to |-> "none", shown |-> {}, value |-> None,
                free |-> {}, silent |-> {}, doomed |-> {}, kept |-> {}]]
        /\ \/ secret = [n \in Members |-> None] /\ instances = {}
           \/ /\ secret = [n \in Members |-> Before]
              /\ instances = {[by |-> Before, at |-> m, name |-> name, with |-> Before, swarm |-> FALSE]}
        /\ crossed = {} /\ raced = {} /\ trouble = 0

-----------------------------------------------------------------------------
(* An ask up to its run.                                                       *)

InFlight(a) == ask[a].to \notin {"none", "over", "refused"}

\* Those that may still keep a value of their own and tell of it.
Unsaid(a) ==
    /\ ask[a].kind \in Launching
    /\ ask[a].to \in {"begun", "asking", "checked", "telling"}
    /\ ask[a].value \in {None, a}

Goes(a, stage) == ask' = [ask EXCEPT ![a].to = stage]

Mishap == trouble < MaxTrouble /\ trouble' = trouble + 1

\* What a person may have confirmed: all there is of the stack, or of its swarm.
Listed(kind) == {i \in instances : kind = "swarmstop" => i.swarm}

\* get_stack(), _stack_values() and, for a deletion, the look at this member's
\* own run; the other checks, which change nothing, are left out.
Begin(a, m, kind) ==
    /\ ask[a].to = "none"
    /\ kind = "destroy" \/ m \in defined
    /\ kind \in Deleting => run[m] = None
    /\ ask' = [ask EXCEPT ![a].at = m, ![a].kind = kind, ![a].to = "begun",
                          ![a].shown = IF kind \in Confirming THEN Listed(kind) ELSE {},
                          ![a].value = IF kind \in Launching THEN secret[m] ELSE None]
    /\ raced' = raced \cup (IF kind \in Launching /\ secret[m] = None
                                 /\ \E b \in Asks \ {a} : Unsaid(b)
                             THEN {a} ELSE {})
    /\ UNCHANGED <<defined, secret, run, instances, crossed, trouble>>

\* Nothing to destroy: none was confirmed, and none is there; or none is asked for.
DeletesOnlyTheName(a) ==
    /\ ask[a].to = "begun"
    /\ \/ ask[a].kind = "forget"
       \/ ask[a].kind = "delete" /\ instances = {} /\ ask[a].shown = {}
    /\ Goes(a, "dropping")
    /\ UNCHANGED <<defined, secret, run, instances, crossed, raced, trouble>>

\* _busy(): under this member's lock ...
LookHere(a) ==
    /\ ask[a].to = "begun" /\ ask[a].kind # "forget"
    /\ Goes(a, IF run[ask[a].at] = None THEN "asking" ELSE "refused")
    /\ UNCHANGED <<defined, secret, run, instances, crossed, raced, trouble>>

Peers(a) == Members \ {ask[a].at}

\* ... and then of every peer, which answers as it is then, or not at all.
AskPeer(a, p) ==
    /\ ask[a].to = "asking" /\ p \in Peers(a) \ (ask[a].free \cup ask[a].silent)
    /\ \/ run[p] = None /\ ask' = [ask EXCEPT ![a].free = @ \cup {p}] /\ UNCHANGED trouble
       \/ run[p] # None /\ Goes(a, "refused") /\ UNCHANGED trouble
       \/ Mishap /\ ask' = [ask EXCEPT ![a].silent = @ \cup {p}]
    /\ UNCHANGED <<defined, secret, run, instances, crossed, raced>>

\* _live_context(): a swarm needs a running stack to point its load at.
Against == \E i \in instances : ~i.swarm

\* _confirmed(): the names there are now are exactly those that were confirmed.
Stands(a) ==
    /\ ask[a].kind \in Confirming => LabelsOf(ask[a].shown) = LabelsOf(Listed(ask[a].kind))
    /\ ask[a].kind \in {"destroy", "delete", "swarmstop"} => ask[a].shown # {}
    /\ ask[a].kind = "swarm" => Against

\* Mutant: what there is by now is destroyed, confirmed or not.
CheckAnew(a) ==
    /\ ask[a].to = "asking" /\ ask[a].free \cup ask[a].silent = Peers(a)
    /\ ask' = [ask EXCEPT ![a].to = "checked",
                          ![a].doomed = IF ask[a].kind \in Confirming
                                        THEN LabelsOf(Listed(ask[a].kind)) ELSE {}]
    /\ UNCHANGED <<defined, secret, run, instances, crossed, raced, trouble>>

Check(a) ==
    /\ ask[a].to = "asking" /\ ask[a].free \cup ask[a].silent = Peers(a)
    /\ IF Stands(a)
       THEN ask' = [ask EXCEPT ![a].to = "checked", ![a].doomed = LabelsOf(ask[a].shown)]
       ELSE Goes(a, "refused")
    /\ UNCHANGED <<defined, secret, run, instances, crossed, raced, trouble>>

\* _settle_secrets(): the value read when the ask began stands; without one a
\* new one is kept here, whatever has been kept since, and the peers are told.
Settle(a) ==
    /\ ask[a].to = "checked"
    /\ IF ask[a].kind \in Launching /\ ask[a].value = None
       THEN /\ secret' = [secret EXCEPT ![ask[a].at] = a]
            /\ ask' = [ask EXCEPT ![a].to = "telling", ![a].value = a]
       ELSE Goes(a, "starting") /\ UNCHANGED secret
    /\ UNCHANGED <<defined, run, instances, crossed, raced, trouble>>

\* _propagate(): the values this member holds now, whole, to all who hear it.
Tell(a) ==
    /\ ask[a].to = "telling"
    /\ \E heard \in SUBSET Peers(a) :
           /\ IF heard = Peers(a) THEN UNCHANGED trouble ELSE Mishap
           /\ secret' = [m \in Members |-> IF m \in heard
                                           THEN secret[ask[a].at] ELSE secret[m]]
    /\ Goes(a, "starting")
    /\ UNCHANGED <<defined, run, instances, crossed, raced>>

\* _start(): one run of a stack at a time, on this member.
Start(a) ==
    /\ ask[a].to = "starting"
    /\ IF run[ask[a].at] = None
       THEN /\ Goes(a, "going") /\ run' = [run EXCEPT ![ask[a].at] = a]
            /\ crossed' = crossed \cup {<<b, a>> : b \in {b \in Asks \ {a} :
                              InFlight(b) /\ ask[a].at \in ask[b].free}}
       ELSE Goes(a, "refused") /\ UNCHANGED <<run, crossed>>
    /\ UNCHANGED <<defined, secret, instances, raced, trouble>>

-----------------------------------------------------------------------------
(* The run, and what is left to do after it.                                   *)

Bearer(l) == {i \in instances : Label(i) = l}

\* Whatever has the name goes; a name that is gone already counts as destroyed.
DestroyOne(a, l) ==
    /\ ask[a].to \in {"going", "ending"} /\ l \in ask[a].doomed
    /\ \/ /\ instances' = instances \ Bearer(l) /\ UNCHANGED trouble
          /\ ask' = [ask EXCEPT ![a].doomed = @ \ {l}]
       \/ /\ Bearer(l) # {} /\ Mishap /\ UNCHANGED instances
          /\ ask' = [ask EXCEPT ![a].doomed = @ \ {l}, ![a].kept = @ \cup {l}]
    /\ UNCHANGED <<defined, secret, run, crossed, raced>>

\* What has the tag of this run, but for the names it has tried already.
OwnOf(a) == {i \in instances : i.swarm /\ i.by = a /\ Label(i) \notin ask[a].kept}

\* What a run makes on each of some members, under a name that is free there: the
\* lowest of its template's (_free_names).
Made(a, where, name) ==
    {[by |-> a, at |-> m, name |-> name[m], with |-> ask[a].value,
      swarm |-> ask[a].kind = "swarm"] : m \in where}

\* The launches of the plan, together: unless the destruction before them failed,
\* they give each instance the run's value of the secret.  They may fail, too.  A
\* swarm's teardown follows whatever came of them, and finds what the run made.
Launch(a) ==
    /\ ask[a].to = "going" /\ ask[a].kind \in Launching /\ ask[a].doomed = {}
    /\ ask[a].kept = {}
    /\ \E where \in SUBSET Members, name \in [Members -> Names] :
           /\ LabelsOf(Made(a, where, name)) \cap LabelsOf(instances) = {}
           /\ instances' = instances \cup Made(a, where, name)
    /\ Goes(a, "ending")
    /\ UNCHANGED <<defined, secret, run, crossed, raced, trouble>>

TearDown(a) ==
    /\ ask[a].to = "ending" /\ ask[a].kind = "swarm" /\ OwnOf(a) # {}
    /\ ask[a].doomed = {}
    /\ ask' = [ask EXCEPT ![a].shown = @ \cup OwnOf(a), ![a].doomed = LabelsOf(OwnOf(a))]
    /\ UNCHANGED <<defined, secret, run, instances, crossed, raced, trouble>>

AfterAnyRun(a) == IF ask[a].kind = "delete" THEN "dropping" ELSE "over"

\* A deletion the run was part of goes on if nothing is left over.
AfterRun(a) ==
    IF ask[a].kind # "delete" THEN "over"
    ELSE IF ask[a].kept = {} THEN "dropping" ELSE "refused"

Finish(a) ==
    /\ ask[a].to \in {"going", "ending"} /\ ask[a].doomed = {}
    /\ ask[a].kind = "swarm" => ask[a].to = "ending" /\ OwnOf(a) = {}
    /\ ask[a].kind \in {"launch", "relaunch"} => ask[a].to = "ending" \/ ask[a].kept # {}
    /\ run' = [run EXCEPT ![ask[a].at] = None]
    /\ Goes(a, AfterRun(a))
    /\ UNCHANGED <<defined, secret, instances, crossed, raced, trouble>>

\* The definition goes here, then its values, then each peer is told.
Drop(a) ==
    /\ ask[a].to = "dropping"
    /\ Goes(a, IF ask[a].at \in defined THEN "forgetting" ELSE "refused")
    /\ defined' = defined \ {ask[a].at}
    /\ UNCHANGED <<secret, run, instances, crossed, raced, trouble>>

Forget(a) ==
    /\ ask[a].to = "forgetting" /\ Goes(a, "spreading")
    /\ secret' = [secret EXCEPT ![ask[a].at] = None]
    /\ UNCHANGED <<defined, run, instances, crossed, raced, trouble>>

\* A peer deletes by the same code, without instances: refused while it runs.
Spread(a) ==
    /\ ask[a].to = "spreading" /\ Goes(a, "over")
    /\ \E heard \in SUBSET Peers(a) :
           LET gone == {p \in heard : run[p] = None /\ p \in defined}
           IN  /\ IF heard = Peers(a) THEN UNCHANGED trouble ELSE Mishap
               /\ defined' = defined \ gone
               /\ secret' = [m \in Members |-> IF m \in gone THEN None ELSE secret[m]]
    /\ UNCHANGED <<run, instances, crossed, raced>>

Next ==
    \/ \E a \in Asks, m \in Members, kind \in Kinds : Begin(a, m, kind)
    \/ \E a \in Asks, p \in Members : AskPeer(a, p)
    \/ \E a \in Asks : \/ DeletesOnlyTheName(a) \/ LookHere(a) \/ Check(a) \/ Settle(a)
                       \/ Tell(a) \/ Start(a) \/ Launch(a) \/ TearDown(a) \/ Finish(a)
                       \/ Drop(a) \/ Forget(a) \/ Spread(a)
                       \/ \E l \in ask[a].doomed : DestroyOne(a, l)

Spec == Init /\ [][Next]_vars

-----------------------------------------------------------------------------
(* Two runs of the stack go at once, on two members, only when the one that began *)
(* later had heard from the other's member before that one registered its run,    *)
(* or not at all: _busy() asks every peer.                                        *)
OverlapOnlyByCrossing ==
    \A m, n \in Members :
        LET a == run[m]
            b == run[n]
        IN  m # n /\ a # None /\ b # None =>
                \/ <<a, b>> \in crossed \/ <<b, a>> \in crossed
                \/ n \in ask[a].silent \/ m \in ask[b].silent

(* "A member that launches this stack next must use the same password the         *)
(* database is about to be given" (_settle_secrets): all instances of a stack     *)
(* nobody deleted hold one value, unless a push was lost or two launches read     *)
(* the secret before either had told of its own.                                  *)
Calm ==
    /\ trouble = 0 /\ raced = {}
    /\ \A a \in Asks : ask[a].kind \in Deleting => ask[a].to = "none"

OnePassword == Calm => \A i, j \in instances : i.with = j.with

(* A deletion that was given what to destroy is done only when nothing of it is   *)
(* left, whatever has its name by then: "a destroy that fails keeps the stack"    *)
(* (delete_stack).                                                                *)
DeletedIsDestroyed ==
    \A a \in Asks : ask[a].kind = "delete" /\ ask[a].to = "over"
                        => ask[a].shown \cap instances = {}

StackHolds == OverlapOnlyByCrossing /\ OnePassword /\ DeletedIsDestroyed

\* What a was shown, or made, is gone, and i has the name of it.
Replaces(i, a) == \E j \in ask[a].shown \ instances : Label(j) = Label(i)

(* An instance is destroyed only by an ask it was confirmed for, by the teardown  *)
(* of the swarm run that made it, or by one of these because it has the name of   *)
(* an instance that was so and that another ask has destroyed since: whatever     *)
(* else another run launched is left, on whichever member (_confirmed,            *)
(* _swarm_teardown).                                                              *)
ShownOrOwn ==
    \A i \in instances \ instances' :
        \E a \in Asks :
            /\ Label(i) \in ask[a].doomed /\ Label(i) \notin ask'[a].doomed
            /\ i \in ask[a].shown \/ (i.by # a /\ Replaces(i, a))
            /\ ask[a].kind = "swarm" => \A j \in ask[a].shown : j.by = a
OnlyShownOrOwn == [][ShownOrOwn]_vars

(* What _confirmed() says of itself, that it keeps a destroy from taking out "an  *)
(* instance launched after the user looked" (stacks.py:1902-1903).  It does not:  *)
(* a relaunch that ends in between gives the same names to other instances.       *)
LaunchedLaterStays ==
    [][\A i \in instances \ instances' :
           \E a \in Asks : i \in ask[a].shown /\ Label(i) \notin ask'[a].doomed]_vars

-----------------------------------------------------------------------------
(* What holds between the steps, and StackHolds rests on.                         *)

\* A run is known to its own member, has asked every peer, and is to destroy
\* what it was confirmed for or made.
AsksFit ==
    /\ \A m \in Members : run[m] # None =>
           ask[run[m]].at = m /\ ask[run[m]].to \in {"going", "ending"}
    /\ \A a \in Asks :
           /\ ask[a].to \in {"checked", "telling", "starting", "going", "ending"} =>
                  Peers(a) \subseteq ask[a].free \cup ask[a].silent
           /\ ask[a].to = "telling" => ask[a].kind \in Launching /\ ask[a].value = a
           /\ ask[a].to \in {"dropping", "forgetting", "spreading"} => ask[a].kind \in Deleting
           /\ ask[a].to = "none" => ask[a].doomed = {}
           /\ \A l \in ask[a].doomed : \E i \in ask[a].shown : Label(i) = l
           /\ ask[a].kind = "swarm" => \A i \in ask[a].shown : i.by = a
           /\ ask[a].kind # "swarm" /\ ask[a].to = "ending" => ask[a].doomed = {}

\* An instance there is, or was when somebody confirmed it, comes of a launch
\* that is past: what was destroyed is not made again.
MadeByLaunch ==
    \A i \in instances \cup UNION {ask[a].shown : a \in Asks} :
        i.by \in Asks => ask[i.by].kind \in Launching /\ ask[i.by].to \in {"ending", "over"}

\* No two instances of a member have one name.
NamesApart == \A i, j \in instances : Label(i) = Label(j) => i = j

\* A teardown knows all its run made, once it has begun.
OwnAreKnown ==
    \A a \in Asks : ask[a].kind = "swarm" /\ ask[a].doomed # {} =>
        \A i \in instances : i.by = a /\ Label(i) \in ask[a].doomed => i \in ask[a].shown

\* A deletion has destroyed what it was confirmed for, but for what is left to do.
DeletionsFit ==
    \A a \in Asks : ask[a].kind = "delete" =>
        /\ ask[a].to \in {"checked", "starting", "going", "ending"} =>
               \A i \in ask[a].shown \cap instances : Label(i) \in ask[a].doomed \cup ask[a].kept
        /\ ask[a].to \in {"dropping", "forgetting", "spreading", "over"} =>
               ask[a].shown \cap instances = {}

\* The stack's value is w: nobody holds, read or used another.  While some
\* member has yet to hear of it, the ask that made it has yet to tell.
OneValue(w) ==
    /\ \A m \in Members : secret[m] # w =>
           secret[m] = None /\ \E a \in Asks : ask[a].to = "telling"
    /\ \A i \in instances : i.with = w /\ w # None
    /\ \A a \in Asks : ask[a].kind \in Launching =>
           /\ ask[a].to \in {"begun", "asking", "checked"} => ask[a].value = w
           /\ ask[a].to = "telling" => w = a /\ secret[ask[a].at] = a
           /\ ask[a].to \in {"starting", "going"} => ask[a].value = w /\ w # None
    /\ \A a, b \in Asks : Unsaid(a) /\ Unsaid(b) => a = b
    /\ w \in Asks => ask[w].to \notin {"none", "begun", "asking", "checked"}

StackInv ==
    /\ TypeOK /\ AsksFit /\ MadeByLaunch /\ NamesApart /\ OwnAreKnown /\ DeletionsFit /\ OverlapOnlyByCrossing
    /\ Calm => \E w \in Values : OneValue(w)

(* The value a run's instances were given is the one its member keeps for the     *)
(* next launch (_settle_secrets).  It fails: two launches on one member may both  *)
(* find none, and the one _start() then refuses has put its value over the        *)
(* other's.                                                                       *)
KeptIsUsed ==
    \A m \in Members :
        run[m] # None /\ m \in defined /\ ask[run[m]].kind = "launch"
            /\ (\A a \in Asks : ask[a].kind \notin Deleting)
        => secret[m] = ask[run[m]].value
=============================================================================
