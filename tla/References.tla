----------------------------- MODULE References -----------------------------
(***************************************************************************)
(* Records that name other records (src/waterpump/store.py, dependents and *)
(* prune_module; bootstrap.py, save_module and delete_module; service.py,  *)
(* _stored_selection, save_template, save_bootstrap_profile and            *)
(* remove_module; tasks.py, save_task; cluster.py, refuse_in_use and the   *)
(* save and delete of each kind): a template and a profile name modules, a *)
(* task names a template and modules.  A save requires what it names, and a*)
(* person's deletion is refused while something names what it deletes, both*)
(* by this node's records alone; then the other members are told, and apply*)
(* a save to the same rules but a deletion whatever names it.              *)
(* Reconciliation, which settles what a member missed, is Definitions'.    *)
(***************************************************************************)
EXTENDS Naturals, FiniteSets

CONSTANTS
    Members,       \* the nodes of the cluster
    Ops,           \* bound: the saves and deletions people make
    MaxLost        \* bound: pushes that are lost

VARIABLES
    shipped,       \* whether the module is a built-in that an upload only shadows
    held,          \* held[n][x]: what n holds of x, see Copies
    op,            \* op[o]: what o does, and how far it is, see Op
    crossed,       \* whether two operations were ever going at once
    lost           \* so far, bounded by MaxLost

vars == <<shipped, held, op, crossed, lost>>

\* A stack names templates as a task does, and is deleted no differently.
Things == {"module", "template", "profile", "task"}

Needs == [module |-> {}, template |-> {"module"}, profile |-> {"module"},
          task |-> {"module", "template"}]

\* "bare": a template that lost the module it named.
Copies == {"absent", "whole", "bare"}

Op == [at : Members, does : {"save", "delete"}, of : Things, told : SUBSET Members,
       to : {"none", "checked", "removed", "telling", "over"}]

TypeOK ==
    /\ shipped \in BOOLEAN /\ held \in [Members -> [Things -> Copies]]
    /\ op \in [Ops -> Op] /\ crossed \in BOOLEAN /\ lost \in Nat

\* discover_modules(): a built-in is there with or without an upload over it.
There(n, x) == held[n][x] # "absent" \/ (x = "module" /\ shipped)

\* What n holds that names x.
Dependents(n, x) == {y \in Things : x \in Needs[y] /\ held[n][y] = "whole"}

Init ==
    \E full \in SUBSET Things, m \in Members :
        /\ shipped \in BOOLEAN
        /\ \A x \in full : Needs[x] \subseteq full \cup (IF shipped THEN {"module"} ELSE {})
        /\ held = [n \in Members |-> [x \in Things |-> IF x \in full THEN "whole" ELSE "absent"]]
        /\ op = [o \in Ops |-> [at |-> m, does |-> "save", of |-> "module", told |-> {},
                                to |-> "none"]]
        /\ crossed = FALSE /\ lost = 0

-----------------------------------------------------------------------------
(* Where a person asks.                                                        *)

Goes(o, stage) == op' = [op EXCEPT ![o].to = stage]

Going(o) == op[o].to \notin {"none", "over"}

\* _stored_selection() and save_task() require what the record names.
Accepts(n, x) == \A y \in Needs[x] : There(n, y)

AlwaysFree(n, x) == TRUE

\* refuse_in_use(), but for an upload that shadows a built-in.
Free(n, x) == Dependents(n, x) = {} \/ (x = "module" /\ shipped)

Begin(o, n, does, x) ==
    /\ op[o].to = "none"
    /\ IF does = "save" THEN Accepts(n, x) ELSE held[n][x] # "absent" /\ Free(n, x)
    /\ op' = [op EXCEPT ![o] = [at |-> n, does |-> does, of |-> x, told |-> {n},
                                to |-> "checked"]]
    /\ crossed' = (crossed \/ \E p \in Ops : Going(p))
    /\ UNCHANGED <<shipped, held, lost>>

Save(o) ==
    /\ op[o].to = "checked" /\ op[o].does = "save" /\ Goes(o, "telling")
    /\ held' = [held EXCEPT ![op[o].at][op[o].of] = "whole"]
    /\ UNCHANGED <<shipped, crossed, lost>>

Remove(o) ==
    /\ op[o].to = "checked" /\ op[o].does = "delete"
    /\ Goes(o, IF op[o].of = "module" THEN "removed" ELSE "telling")
    /\ held' = [held EXCEPT ![op[o].at][op[o].of] = "absent"]
    /\ UNCHANGED <<shipped, crossed, lost>>

\* prune_module(): templates lose the module, a profile with nothing else goes.
\* Nothing is pruned when the built-in comes back.
Pruned(records) ==
    IF shipped THEN records
    ELSE [records EXCEPT !.template = IF @ = "whole" THEN "bare" ELSE @, !.profile = "absent"]

Prune(o) ==
    /\ op[o].to = "removed" /\ Goes(o, "telling")
    /\ held' = [held EXCEPT ![op[o].at] = Pruned(@)]
    /\ UNCHANGED <<shipped, crossed, lost>>

-----------------------------------------------------------------------------
(* At a member that is told.                                                   *)

\* A save is applied to the rules of a person's; what is no longer here to send,
\* or names what is not there, is not saved.
Saved(n, o) ==
    LET x == op[o].of
        mine == held[op[o].at][x]
    IN  IF mine # "absent" /\ (mine = "bare" \/ Accepts(n, x))
        THEN [held[n] EXCEPT ![x] = mine] ELSE held[n]

\* A deletion is never refused there.
Deleted(n, x) ==
    LET without == [held[n] EXCEPT ![x] = "absent"]
    IN  IF x = "module" /\ held[n][x] # "absent" THEN Pruned(without) ELSE without

Applied(n, o) == IF op[o].does = "save" THEN Saved(n, o) ELSE Deleted(n, op[o].of)

Tell(o, n) ==
    /\ op[o].to = "telling" /\ n \notin op[o].told
    /\ op' = [op EXCEPT ![o].told = @ \cup {n}]
    /\ \/ held' = [held EXCEPT ![n] = Applied(n, o)] /\ UNCHANGED lost
       \/ lost < MaxLost /\ lost' = lost + 1 /\ UNCHANGED held
    /\ UNCHANGED <<shipped, crossed>>

End(o) ==
    /\ op[o].to = "telling" /\ op[o].told = Members /\ Goes(o, "over")
    /\ UNCHANGED <<shipped, held, crossed, lost>>

Next ==
    \E o \in Ops :
        \/ \E n \in Members, does \in {"save", "delete"}, x \in Things : Begin(o, n, does, x)
        \/ \E n \in Members : Tell(o, n)
        \/ Save(o) \/ Remove(o) \/ Prune(o) \/ End(o)

Spec == Init /\ [][Next]_vars

-----------------------------------------------------------------------------
(* On no member does a record name what is not there, however many saves and      *)
(* deletions followed one another, unless two went at once or a push was lost:    *)
(* a stack or a task whose template is gone fails when it is launched             *)
(* (dependents).                                                                  *)
NothingDangles ==
    ~crossed /\ lost = 0 =>
        \A n \in Members, x \in Things :
            held[n][x] = "whole" /\ ~(\E o \in Ops : Going(o)) => Accepts(n, x)

(* What a person deleted is deleted on every member that was told, even where a   *)
(* record made meanwhile names it: refusing it there "would leave the cluster     *)
(* disagreeing for good" (refuse_in_use).                                         *)
DeletedWhereTold ==
    \A o \in Ops :
        op[o].does = "delete" /\ op[o].to = "over" /\ lost = 0
            /\ (\A p \in Ops : op[p].does = "save" /\ op[p].of = op[o].of => op[p].to = "none")
        => \A n \in Members : held[n][op[o].of] = "absent"

ReferencesHold == NothingDangles /\ DeletedWhereTold

-----------------------------------------------------------------------------
(* Why it holds: the inductive invariant, proved in ClusterPartsProof. *)

\* Of one node's records r: what x needs is there; whatever is there has what it needs.
HasAll(r, x) == \A y \in Needs[x] : r[y] # "absent" \/ (y = "module" /\ shipped)

Coherent(r) == \A x \in Things : r[x] = "whole" => HasAll(r, x)

\* What an operation w makes of the records of a node.
Without(r, w) == [r EXCEPT ![w.of] = "absent"]

Outcome(r, w) ==
    IF w.does = "save" THEN [r EXCEPT ![w.of] = "whole"]
    ELSE IF w.of = "module" THEN Pruned(Without(r, w)) ELSE Without(r, w)

\* How far w is, where everybody held r before it: at its own node, and at the others.
AtItsOwn(r, w) ==
    IF w.to = "checked" THEN r
    ELSE IF w.to = "removed" THEN Without(r, w) ELSE Outcome(r, w)

Halfway(r, w) ==
    /\ Coherent(r) /\ Coherent(Outcome(r, w))
    /\ w.does = "save" => HasAll(r, w.of)
    /\ w.does = "delete" => r[w.of] # "absent"
    /\ w.to = "removed" => w.does = "delete" /\ w.of = "module"
    /\ held[w.at] = AtItsOwn(r, w)
    /\ \A n \in Members \ {w.at} : held[n] = IF n \in w.told THEN Outcome(r, w) ELSE r

\* One operation after another leaves all members with the same records, which fit.
OneByOne ==
    ~crossed /\ lost = 0 =>
        \/ /\ \A o \in Ops : ~Going(o)
           /\ \E r \in [Things -> Copies] : Coherent(r) /\ \A n \in Members : held[n] = r
        \/ \E o \in Ops :
              /\ Going(o) /\ \A p \in Ops \ {o} : ~Going(p)
              /\ \E r \in [Things -> Copies], w \in {op[o]} : Halfway(r, w)

Unsaved(x) == \A p \in Ops : op[p].does = "save" /\ op[p].of = x => op[p].to = "none"

DeletedSoFar ==
    \A o \in Ops :
        op[o].does = "delete" /\ op[o].to \in {"removed", "telling", "over"} /\ lost = 0
            /\ Unsaved(op[o].of)
        => \A n \in op[o].told : held[n][op[o].of] = "absent"

Stages ==
    \A o \in Ops :
        /\ op[o].to = "over" => op[o].told = Members
        /\ op[o].to \in {"checked", "removed"} => op[o].told = {op[o].at}
        /\ op[o].to # "none" => op[o].at \in op[o].told
        /\ op[o].to = "removed" => op[o].does = "delete"

ReferencesInv == TypeOK /\ Stages /\ OneByOne /\ DeletedSoFar
=============================================================================
