---------------------------- MODULE TemplateRuns ----------------------------
(***************************************************************************)
(* Launching, destroying and recreating the instances of one template, on  *)
(* one node or over several (src/waterpump/cluster.py, service.py).        *)
(*                                                                         *)
(* The node a person talks to lists the template's instances, checks that  *)
(* they are still what the person was shown, records a run, and hands each *)
(* node its share.  A share on the coordinator's own node runs inside its  *)
(* run; a share elsewhere is a run of its own there, started by a call and *)
(* followed by polling.  A node has one run of a template at a time.       *)
(***************************************************************************)
EXTENDS Naturals, FiniteSets

CONSTANTS
    Nodes,      \* members of the cluster
    Names,      \* instance names, 1..n: the lowest free ones are taken
    MaxOps,     \* bound: operations people begin
    MaxTrouble  \* bound: what the daemons refuse, polls that fail, and what is made or
                \* deleted past these runs (a CLI launch, one row's Delete)

VARIABLES
    instances,  \* instances[n]: the template's instances there, with the run that made them
    run,        \* run[n]: the template's recorded run there (_runs)
    op,         \* op[c]: the operation whose coordinator is c
    shares,     \* the shares of operations, at work or over
    ops, trouble    \* so far, bounded as above

\* The names are numbers.
NamesAssumption == Names \subseteq Nat

runVars == <<instances, run, op, shares, ops, trouble>>

NoRun == [of |-> 0, live |-> FALSE]
Resting == [at |-> "rest"]

NamesOn(n) == {i.name : i \in instances[n]}

-----------------------------------------------------------------------------
Init ==
    /\ instances \in [Nodes -> {{}, {[name |-> 1, by |-> 0]}, {[name |-> 2, by |-> 0]}}]
    /\ run = [n \in Nodes |-> NoRun]
    /\ op = [c \in Nodes |-> Resting]
    /\ shares = {} /\ ops = 0 /\ trouble = 0

(* template_instances(): what the person is shown, and sends back. *)
Destructive(c, action) ==
    /\ op[c] = Resting /\ ops < MaxOps /\ ops' = ops + 1
    /\ \E n \in Nodes : instances[n] # {}
    /\ op' = [op EXCEPT ![c] = [at |-> "shown", id |-> ops', action |-> action,
                                want |-> [n \in Nodes |-> NamesOn(n)]]]
    /\ UNCHANGED <<instances, run, shares, trouble>>

Lowest(free, k) == {m \in free : Cardinality({l \in free : l < m}) < k}

TakenNames == UNION {NamesOn(n) : n \in Nodes}

(* _share_names(): to each target in turn a name of its own, that no member has. *)
SharedNames(targets) ==
    {name \in [targets -> Lowest(Names \ TakenNames, Cardinality(targets))] :
        \A n, m \in targets : name[n] = name[m] => n = m}

(* launch_targets() and template_targets(): the nodes asked for, less those in *)
(* maintenance, or with the template's snapshot, or this one; a launch over none is refused. *)
Targets == SUBSET Nodes \ {{}}

(* launch_template() over `targets`, one instance each.  On this node alone the *)
(* names are picked inside the run.                                             *)
Launch(c, targets) ==
    /\ op[c] = Resting /\ ops < MaxOps /\ ops' = ops + 1
    /\ \E name \in SharedNames(targets) :
          op' = [op EXCEPT ![c] =
                   [at |-> "checked", id |-> ops', action |-> "launch",
                    want |-> [n \in Nodes |-> IF n \in targets THEN {name[n]} ELSE {}]]]
    /\ UNCHANGED <<instances, run, shares, trouble>>

(* _refuse_drift() over every node, or _confirmed_instances() on this one. *)
Check(c) ==
    /\ op[c].at = "shown"
    /\ op' = [op EXCEPT ![c] =
                IF \A n \in Nodes : op[c].want[n] \in {{}, NamesOn(n)}
                THEN [@ EXCEPT !.at = "checked"] ELSE Resting]
    /\ UNCHANGED <<instances, run, shares, ops, trouble>>

Share(c, n) ==
    [id |-> op[c].id, of |-> c, node |-> n, action |-> op[c].action, names |-> op[c].want[n],
     left |-> op[c].want[n], gone |-> {}, ok |-> {}, alone |-> TRUE, awaited |-> TRUE,
     at |-> IF n = c THEN "confirm" ELSE "called"]

(* track_run() on the coordinator, and its work handing out the shares. *)
Track(c) ==
    /\ op[c].at = "checked"
    /\ IF run[c].live
       THEN op' = [op EXCEPT ![c] = Resting] /\ UNCHANGED <<run, shares>>
       ELSE /\ run' = [run EXCEPT ![c] = [of |-> op[c].id, live |-> TRUE]]
            /\ shares' = shares \cup {Share(c, n) : n \in {m \in Nodes : op[c].want[m] # {}}}
            /\ op' = [op EXCEPT ![c].at = "run"]
    /\ UNCHANGED <<instances, ops, trouble>>

Becomes(s, t) == shares' = (shares \ {s}) \cup {t}

Confirmed(s) == s.action = "launch" \/ NamesOn(s.node) = s.names

(* The call reaches the other node, which checks its share by itself first. *)
ShareArrives(s) ==
    /\ s.at = "called"
    /\ Becomes(s, [s EXCEPT !.at = IF Confirmed(s) THEN "track" ELSE "over"])
    /\ UNCHANGED <<instances, run, op, ops, trouble>>

\* track_run() takes one run of a template at a time.
FreeFor(n) == ~run[n].live

ShareTracked(s) ==
    /\ s.at = "track"
    /\ IF FreeFor(s.node)
       THEN /\ run' = [run EXCEPT ![s.node] = [of |-> s.id, live |-> TRUE]]
            /\ Becomes(s, [s EXCEPT !.at = "confirm"])
       ELSE Becomes(s, [s EXCEPT !.at = "over"]) /\ UNCHANGED run
    /\ UNCHANGED <<instances, op, ops, trouble>>

\* The names of a launch that is this node's alone are picked here.
Picked(s) ==
    IF /\ s.action = "launch" /\ s.node = s.of
       /\ \A n \in Nodes \ {s.of} : op[s.of].want[n] = {}
    THEN Lowest(Names \ NamesOn(s.node), 1) ELSE s.names

\* Mutant: the set was confirmed before the run was recorded, and that is enough.
ConfirmedBefore(s) == TRUE

\* Asked again inside the run.
StillConfirmed(s) == Confirmed(s)

\* A run's work begins: destroy_instances(), recreate_instances(), launch_instances().
ShareBegins(s) ==
    /\ s.at = "confirm"
    /\ IF StillConfirmed(s)
       THEN Becomes(s, [s EXCEPT !.at = "work", !.names = Picked(s), !.left = Picked(s)])
       ELSE Becomes(s, [s EXCEPT !.at = "work", !.left = {}])
    /\ UNCHANGED <<instances, run, op, ops, trouble>>

(* _remove_instance(): what is not there any more counts as removed. *)
Remove(s, name) ==
    /\ s.at = "work" /\ s.action # "launch" /\ name \in s.left
    /\ instances' = [instances EXCEPT ![s.node] = {i \in @ : i.name # name}]
    /\ Becomes(s, IF s.action = "destroy"
                  THEN [s EXCEPT !.left = @ \ {name}, !.ok = @ \cup {name}]
                  ELSE [s EXCEPT !.left = @ \ {name}, !.gone = @ \cup {name}])
    /\ UNCHANGED <<run, op, ops, trouble>>

\* The daemon does not delete it: it is reported, and not recreated beside itself.
RemoveFails(s, name) ==
    /\ s.at = "work" /\ s.action # "launch" /\ name \in s.left
    /\ trouble < MaxTrouble /\ trouble' = trouble + 1
    /\ Becomes(s, [s EXCEPT !.left = @ \ {name}])
    /\ UNCHANGED <<instances, run, op, ops>>

ToMake(s) == IF s.action = "launch" THEN s.left ELSE s.gone

(* _create_from_template(): the daemon refuses a name that is taken. *)
Make(s, name) ==
    /\ s.at = "work" /\ name \in ToMake(s)
    /\ LET made == name \notin NamesOn(s.node) IN
         /\ instances' = IF made
                         THEN [instances EXCEPT ![s.node] = @ \cup {[name |-> name, by |-> s.id]}]
                         ELSE instances
         /\ Becomes(s, [s EXCEPT !.left = @ \ {name}, !.gone = @ \ {name},
                                 !.ok = IF made THEN @ \cup {name} ELSE @])
    /\ UNCHANGED <<run, op, ops, trouble>>

MakeFails(s, name) ==
    /\ s.at = "work" /\ name \in ToMake(s)
    /\ trouble < MaxTrouble /\ trouble' = trouble + 1
    /\ Becomes(s, [s EXCEPT !.left = @ \ {name}, !.gone = @ \ {name}])
    /\ UNCHANGED <<instances, run, op, ops>>

Through(s) == s.at = "work" /\ s.left = {} /\ s.gone = {}

\* The work is done; on another node that ends the run it was there.
ShareEnds(s) ==
    /\ Through(s)
    /\ Becomes(s, [s EXCEPT !.at = "over"])
    /\ run' = IF s.node = s.of THEN run ELSE [run EXCEPT ![s.node].live = FALSE]
    /\ UNCHANGED <<instances, op, ops, trouble>>

(* The coordinator polls (_await_run): the record may have given way to another *)
(* run's by now, which reads as a failure.  Nobody waits for a lost share.       *)
ShareHeard(s) ==
    /\ s.at = "over"
    /\ shares' = shares \ {s}
    /\ UNCHANGED <<instances, run, op, ops, trouble>>

PollFails(s) ==
    /\ s.node # s.of /\ s.awaited /\ s.at # "over"
    /\ trouble < MaxTrouble /\ trouble' = trouble + 1
    /\ Becomes(s, [s EXCEPT !.awaited = FALSE])
    /\ UNCHANGED <<instances, run, op, ops>>

OpEnds(c) ==
    /\ op[c].at = "run"
    /\ \A s \in shares : ~(s.of = c /\ s.id = op[c].id /\ s.awaited)
    /\ run' = [run EXCEPT ![c].live = FALSE]
    /\ op' = [op EXCEPT ![c] = Resting]
    /\ UNCHANGED <<instances, shares, ops, trouble>>

-----------------------------------------------------------------------------
\* Shares at n have company.
Disturbed(n) == shares' = {IF s.node = n THEN [s EXCEPT !.alone = FALSE] ELSE s : s \in shares}

(* A CLI launch, whose process has runs of its own, or an import that carries the tag. *)
Appears(n, name) ==
    /\ trouble < MaxTrouble /\ trouble' = trouble + 1
    /\ name \notin NamesOn(n)
    /\ instances' = [instances EXCEPT ![n] = @ \cup {[name |-> name, by |-> 0]}]
    /\ Disturbed(n)
    /\ UNCHANGED <<run, op, ops>>

(* delete_containers() of one row. *)
Vanishes(n, i) ==
    /\ trouble < MaxTrouble /\ trouble' = trouble + 1
    /\ instances' = [instances EXCEPT ![n] = @ \ {i}]
    /\ Disturbed(n)
    /\ UNCHANGED <<run, op, ops>>

Next ==
    \/ \E c \in Nodes :
          \/ \E action \in {"destroy", "recreate"} : Destructive(c, action)
          \/ \E targets \in Targets : Launch(c, targets)
          \/ Check(c) \/ Track(c) \/ OpEnds(c)
    \/ \E s \in shares :
          \/ ShareArrives(s) \/ ShareTracked(s) \/ ShareBegins(s) \/ ShareEnds(s)
          \/ ShareHeard(s) \/ PollFails(s)
          \/ \E name \in s.left \cup s.gone :
                Remove(s, name) \/ RemoveFails(s, name) \/ Make(s, name) \/ MakeFails(s, name)
    \/ \E n \in Nodes :
          \/ \E name \in Names : Appears(n, name)
          \/ \E i \in instances[n] : Vanishes(n, i)

Spec == Init /\ [][Next]_runVars

-----------------------------------------------------------------------------
(* A share that did all it was asked, with nobody else at work on that node past *)
(* the template's runs, is whole: after a destroy the template has no instance   *)
(* left there, after a recreate exactly the instances that were confirmed, each   *)
(* made anew, and after a launch the new ones beside what there was.  Another     *)
(* coordinator's run, at whatever moment, does not come between.                  *)
ShareIsWhole ==
    \A s \in shares : Through(s) /\ s.alone /\ s.ok = s.names =>
        /\ s.action = "destroy" => instances[s.node] = {}
        /\ s.action = "recreate" => instances[s.node] = [name : s.names, by : {s.id}]
        /\ s.action = "launch" => [name : s.names, by : {s.id}] \subseteq instances[s.node]

(* The runs of a template follow one another on each node, wherever they were      *)
(* begun: a share that another member hands out does not work beside a run here,   *)
(* also after that member gave up waiting for it.                                  *)
OneShareAtATime ==
    \A s, t \in shares :
        s.node = t.node /\ s.at \in {"confirm", "work"} /\ t.at \in {"confirm", "work"} => s = t

SharesAreDone == ShareIsWhole /\ OneShareAtATime

-----------------------------------------------------------------------------
(* What holds between the steps, and SharesAreDone rests on.                       *)

Actions == {"launch", "destroy", "recreate"}
Instance == [name : Nat, by : Nat]
Asked == [at : {"shown", "checked", "run"}, id : Nat, action : Actions,
          want : [Nodes -> SUBSET Nat]]
Shares == [id : Nat, of : Nodes, node : Nodes, action : Actions, names : SUBSET Nat,
           left : SUBSET Nat, gone : SUBSET Nat, ok : SUBSET Nat, alone : BOOLEAN,
           awaited : BOOLEAN, at : {"called", "track", "confirm", "work", "over"}]

TypeOK ==
    /\ instances \in [Nodes -> SUBSET Instance] /\ run \in [Nodes -> [of : Nat, live : BOOLEAN]]
    /\ op \in [Nodes -> {Resting} \cup Asked] /\ shares \subseteq Shares
    /\ ops \in Nat /\ trouble \in Nat

\* An operation has a number of its own, and one share on each node.
NumbersFit ==
    /\ \A c, d \in Nodes : op[c] # Resting =>
           op[c].id <= ops /\ (op[d] # Resting /\ op[c].id = op[d].id => c = d)
    /\ \A s \in shares : s.id <= ops /\ \A c \in Nodes :
           op[c] # Resting /\ op[c].id = s.id => s.of = c /\ op[c].at = "run"
    /\ \A s, t \in shares : s.id = t.id /\ s.node = t.node => s = t

Active(s) == s.at \in {"confirm", "work"}

\* The run on record is the one at work; a coordinator's own share is never given up.
RunsFit ==
    /\ \A c \in Nodes : op[c].at = "run" => run[c] = [of |-> op[c].id, live |-> TRUE]
    /\ \A s \in shares :
           /\ Active(s) => run[s.node] = [of |-> s.id, live |-> TRUE]
           /\ s.node = s.of => s.awaited /\ op[s.of].at = "run" /\ op[s.of].id = s.id

Made(s, name) == [name |-> name, by |-> s.id]

\* A share found something else than was confirmed, or all it was to do failed.
Skipped(s) == s.left = {} /\ s.gone = {} /\ s.ok = {}

\* How far a share that nobody disturbs is.
ShareFits(s) ==
    /\ s.action # "launch" => s.names # {}
    /\ s.at \notin {"work", "over"} => s.gone = {} /\ s.ok = {}
    /\ s.action = "destroy" => s.gone = {}
    /\ s.at = "work" =>
           s.ok \cap (s.left \cup s.gone) = {} /\ s.left \cup s.gone \cup s.ok \subseteq s.names
    /\ s.at = "work" /\ s.alone =>
           /\ s.action = "destroy" => Skipped(s) \/ NamesOn(s.node) = s.names \ s.ok
           /\ s.action = "recreate" => Skipped(s) \/
                  /\ NamesOn(s.node) \subseteq s.names \ s.gone
                  /\ \A i \in instances[s.node] : i.name \in s.ok => i = Made(s, i.name)
           /\ s.action # "destroy" =>
                  \A name \in s.ok : Made(s, name) \in instances[s.node]

WorkFits == \A s \in shares : ShareFits(s)

SharesInv == TypeOK /\ NumbersFit /\ RunsFit /\ WorkFits
=============================================================================
