----------------------------- MODULE LanBridge ------------------------------
(***************************************************************************)
(* Moving the network card a host is reached by onto a bridge and back     *)
(* (src/waterpump/hostnet.py, nm_device to lan_link_up, apply, apply_all   *)
(* and delegate; fabrichelper.py, _lan and _convert; service.py,           *)
(* convert_nic and revert_lan_bridge): a root helper gives NetworkManager  *)
(* one command after another, each of which may fail, and undoes a         *)
(* conversion that did not come up.  The helper may be killed, or the host *)
(* restarted, between any two of them.                                     *)
(***************************************************************************)
EXTENDS Naturals, Sequences

CONSTANTS
    MaxAsks,       \* bound: conversions and reversions that are asked for
    MaxTrouble     \* bound: commands that fail, bridges without an address, crashes

VARIABLES
    named,         \* the connections of the card that name it (connection.interface-name)
    auto,          \* those that come up by themselves
    own,           \* the connection the last conversion took the card from
    back,          \* the connection the plan gives the card back to, or "none"
    made,          \* the connections made for the bridge: "bridge", "port"
    up,            \* what holds the card: one of its connections, "port" or "none"
    doing,         \* "nothing", "convert", "undo" or "revert"
    plan,          \* the commands still to be run
    failed,        \* the commands of the last undoing that failed
    undone,        \* whether the last thing done was to undo a conversion
    cut,           \* whether an undoing or a reversion failed, or was cut short
    unfound,       \* whether a reversion found no connection to give the card back to
    asks,          \* so far, bounded by MaxAsks
    trouble        \* so far, bounded by MaxTrouble

card == <<named, own, back>>
vars == <<named, auto, own, back, made, up, doing, plan, failed, undone, cut, unfound, asks, trouble>>

\* The card's connections: what a host has, and another profile for the same card.
Connections == {"first", "second"}

Init ==
    /\ named \in SUBSET Connections /\ auto \in {A \in SUBSET Connections : "first" \in A}
    /\ own = "first" /\ back = "none" /\ made = {} /\ up = "first"
    /\ doing = "nothing" /\ plan = <<>> /\ failed = {} /\ undone = FALSE
    /\ cut = FALSE /\ unfound = FALSE /\ asks = 0 /\ trouble = 0

ConvertPlanOwnFirst == <<"keepOwnDown", "addBridge", "addPort", "portUp", "bridgeUp">>

\* lan_convert_plan(): the card's own connection is kept, and kept from coming up.
ConvertPlan == <<"addBridge", "addPort", "keepOwnDown", "portUp", "bridgeUp">>

\* lan_revert_plan(): of a conversion just tried it is known whose card it was ...
UndoPlan == <<"deletePort", "deleteBridge", "letOwnComeUp", "ownUp">>

\* ... otherwise it is looked up, and there is nothing to do for one not found.
RevertPlan(c) ==
    IF c # "none" THEN UndoPlan ELSE <<"deletePort", "deleteBridge">>

\* _previous_connection(): the first that names the port's card, whether or not it is
\* the one conversion switched off.
Previous == IF "port" \in made THEN named ELSE {}

Mishap == trouble < MaxTrouble /\ trouble' = trouble + 1

-----------------------------------------------------------------------------
(* The helper.                                                                 *)

\* A card NetworkManager runs and that is no port yet, and a free name: the
\* bridge's connection comes up by itself, so its interface exists with it.
Convert ==
    /\ doing = "nothing" /\ asks < MaxAsks /\ asks' = asks + 1
    /\ up \in Connections /\ "bridge" \notin made
    /\ own' = up /\ back' = up
    /\ doing' = "convert" /\ plan' = ConvertPlan /\ undone' = FALSE
    /\ UNCHANGED <<named, auto, made, up, failed, cut, unfound, trouble>>

\* Nothing has a NIC on the bridge (_bridge_users), which nm_lan_bridges() lists.
Revert ==
    /\ doing = "nothing" /\ asks < MaxAsks /\ asks' = asks + 1
    /\ "bridge" \in made
    /\ \/ back' \in Previous /\ UNCHANGED trouble
       \/ back' = "none" /\ (IF Previous = {} THEN UNCHANGED trouble ELSE Mishap)
    /\ unfound' = (unfound \/ back' = "none")
    /\ doing' = "revert" /\ plan' = RevertPlan(back') /\ undone' = FALSE
    /\ UNCHANGED <<named, own, auto, made, up, failed, cut>>

\* What a command that succeeds does.  Deleting a connection takes the card from it.
Effect(c) ==
    /\ made' = CASE c = "addBridge" -> made \cup {"bridge"}
                 [] c = "addPort" -> made \cup {"port"}
                 [] c = "deleteBridge" -> made \ {"bridge"}
                 [] c = "deletePort" -> made \ {"port"}
                 [] OTHER -> made
    /\ auto' = CASE c = "keepOwnDown" -> auto \ {back}
                 [] c = "letOwnComeUp" -> auto \cup {back}
                 [] OTHER -> auto
    /\ up' = CASE c = "portUp" -> "port"
               [] c = "ownUp" -> back
               [] c = "deletePort" /\ up = "port" -> "none"
               [] OTHER -> up

\* There is nothing of the kind to delete.
InVain(c) ==
    \/ c = "deletePort" /\ "port" \notin made
    \/ c = "deleteBridge" /\ "bridge" \notin made

\* A connection that does not come up may have taken the card from the other.
Lost(c) ==
    /\ up' \in IF c \in {"portUp", "ownUp"} THEN {up, "none"} ELSE {up}
    /\ UNCHANGED <<made, auto>>

\* apply_all() goes on whatever failed, and apply() ends there: a conversion is
\* then undone.
AfterFailure ==
    CASE doing = "undo" -> plan' = Tail(plan) /\ UNCHANGED doing
      [] doing = "convert" -> plan' = UndoPlan /\ doing' = "undo"
      [] doing = "revert" -> plan' = <<>> /\ UNCHANGED doing

\* One command of the plan.
Run ==
    /\ plan # <<>>
    /\ LET c == Head(plan)
       IN  \/ /\ ~InVain(c) /\ Effect(c)
              /\ plan' = Tail(plan) /\ UNCHANGED <<doing, failed, cut, trouble>>
           \/ /\ IF InVain(c) THEN UNCHANGED trouble ELSE Mishap
              /\ Lost(c) /\ AfterFailure
              /\ failed' = IF doing = "undo" THEN failed \cup {c} ELSE {}
              /\ cut' = (cut \/ doing \in {"undo", "revert"})
    /\ UNCHANGED <<card, undone, unfound, asks>>

\* lan_link_up(): an address, and the way out the card had; if not, all is undone.
Look ==
    /\ doing = "convert" /\ plan = <<>>
    /\ \/ doing' = "nothing" /\ UNCHANGED <<plan, trouble>>
       \/ Mishap /\ doing' = "undo" /\ plan' = UndoPlan
    /\ failed' = {}
    /\ UNCHANGED <<card, auto, made, up, undone, cut, unfound, asks>>

Done ==
    /\ doing \in {"undo", "revert"} /\ plan = <<>>
    /\ doing' = "nothing" /\ undone' = (doing = "undo")
    /\ UNCHANGED <<card, auto, made, up, plan, failed, cut, unfound, asks, trouble>>

\* What may hold the card after the host started: what comes up by itself.
ByItself == auto \cup (IF made = {"bridge", "port"} THEN {"port"} ELSE {})

\* The helper is killed, or the whole host restarts.
Crash ==
    /\ Mishap
    /\ doing' = "nothing" /\ plan' = <<>> /\ undone' = FALSE
    /\ cut' = (cut \/ doing \in {"undo", "revert"})
    /\ up' \in {up} \cup (IF ByItself = {} THEN {"none"} ELSE ByItself)
    /\ UNCHANGED <<card, auto, made, failed, unfound, asks>>

Next == Convert \/ Revert \/ Run \/ Look \/ Done \/ Crash

Spec == Init /\ [][Next]_vars

-----------------------------------------------------------------------------
(* A conversion that failed "leaves the host as it was" (convert_nic): once it is *)
(* undone the connection that had the card has it, and comes up by itself, unless *)
(* the very command that sees to it failed.                                       *)
PutBack ==
    undone =>
        /\ back = own
        /\ own \in auto \/ "letOwnComeUp" \in failed
        /\ up = own \/ "ownUp" \in failed
        /\ made = {} \/ failed \cap {"deletePort", "deleteBridge"} # {}

(* Whenever the host restarts, or the helper dies, while nothing is being undone  *)
(* or reverted, some connection of the card comes up by itself: the order of      *)
(* lan_convert_plan() leaves no moment without one.  Not after a reversion that   *)
(* failed, and not after one that found no connection to go back to               *)
(* (_previous_connection: none names the card, or nmcli did not answer), which    *)
(* deletes the bridge all the same: see RevertedToOwn.                            *)
ComesBack ==
    doing \in {"nothing", "convert"} /\ ~cut /\ ~unfound => ByItself # {}

(* In short: an undone conversion leaves what was there, and while connections of *)
(* the card can be found the host is not left without one it is reached by.       *)
HostKeepsItsWay == PutBack /\ ComesBack

(* What docs/lan.md:122-123 says of a reversion, that it "brings the NIC's own    *)
(* connection back": the one conversion switched off comes up again.  It does not *)
(* hold: that one is looked for by the card it names, which it need not, and      *)
(* another that names the card may be found first (hostnet.py:937-951).           *)
RevertedToOwn ==
    doing = "nothing" /\ made = {} /\ ~cut => own \in auto \/ up = own
-----------------------------------------------------------------------------
(* Why it holds: the inductive invariant, proved in NodePartsProof. *)

TypeOK ==
    /\ named \subseteq Connections /\ auto \subseteq Connections
    /\ own \in Connections /\ back \in Connections \cup {"none"}
    /\ made \subseteq {"bridge", "port"} /\ up \in Connections \cup {"port", "none"}
    /\ doing \in {"nothing", "convert", "undo", "revert"}
    /\ undone \in BOOLEAN /\ cut \in BOOLEAN /\ unfound \in BOOLEAN

\* Some connection comes up by itself, or this is known to be a host where none may.
Way == cut \/ unfound \/ auto # {}

\* What is left of a conversion, and what there is by then: the card's own connection
\* is kept down only once the port is there to take its place.
Converting ==
    \/ /\ Way
       /\ \/ plan = ConvertPlan
          \/ plan = <<"addPort", "keepOwnDown", "portUp", "bridgeUp">> /\ "bridge" \in made
    \/ /\ made = {"bridge", "port"}
       /\ \/ plan = <<"keepOwnDown", "portUp", "bridgeUp">>
          \/ plan = <<"portUp", "bridgeUp">>
          \/ plan = <<"bridgeUp">>
          \/ plan = <<>>

\* How far an undoing is: it goes on whatever failed, and what it ran and what did not
\* fail is done.
NoPort == "port" \notin made \/ "deletePort" \in failed
Unmade == made = {} \/ failed \cap {"deletePort", "deleteBridge"} # {}
LetUp == back \in auto \/ "letOwnComeUp" \in failed
Up == up = back \/ "ownUp" \in failed

Undoing ==
    \/ plan = UndoPlan
    \/ plan = <<"deleteBridge", "letOwnComeUp", "ownUp">> /\ NoPort
    \/ plan = <<"letOwnComeUp", "ownUp">> /\ Unmade
    \/ plan = <<"ownUp">> /\ Unmade /\ LetUp /\ Way
    \/ plan = <<>> /\ Unmade /\ LetUp /\ Up /\ Way

\* A reversion ends at its first failure.
Reverting ==
    \/ /\ back # "none"
       /\ \/ plan = UndoPlan
          \/ plan = <<"deleteBridge", "letOwnComeUp", "ownUp">>
          \/ plan = <<"letOwnComeUp", "ownUp">>
          \/ plan = <<"ownUp">> /\ Way
    \/ unfound /\ plan \in {<<"deletePort", "deleteBridge">>, <<"deleteBridge">>}
    \/ plan = <<>> /\ Way

\* What the command c at the head of the plan may do: what it is for, or nothing.
Ran(c) ==
    \/ ~InVain(c) /\ Effect(c) /\ plan' = Tail(plan) /\ UNCHANGED <<doing, failed, cut>>
    \/ /\ Lost(c) /\ AfterFailure
       /\ failed' = IF doing = "undo" THEN failed \cup {c} ELSE {}
       /\ cut' = (cut \/ doing \in {"undo", "revert"})

WayInv ==
    /\ TypeOK
    /\ doing = "nothing" => plan = <<>>
    /\ doing = "convert" => Converting
    /\ doing = "undo" => Undoing
    /\ doing = "revert" => Reverting
    /\ doing \in {"convert", "undo"} => back = own
    /\ undone => doing = "nothing"
    /\ HostKeepsItsWay
=============================================================================
