------------------------------ MODULE Instances -----------------------------
(***************************************************************************)
(* Making a template's instances on one node: what a launch reads before it *)
(* starts, what each create reads of its own, and what an instance says of    *)
(* where it came from (src/waterpump/service.py).                             *)
(*                                                                            *)
(* One launch or recreate of the template is at work at a time, with a thread  *)
(* per instance.  People edit the template and the stack beside it, take away   *)
(* what the launch was going to use, and tear down the stack whose instance the  *)
(* template's snapshot is of.                                                   *)
(***************************************************************************)
EXTENDS Naturals, FiniteSets

CONSTANTS
    Names,       \* instance names
    MaxOps,      \* bound: launches and recreates
    MaxChanges   \* bound: what people change, and what the daemon refuses

VARIABLES
    template,  \* the template's revision, 0 once deleted
    stack,     \* the revision of the stack that launches it
    has,       \* what this node has of what the template names
    inst,      \* inst[n]: the instance, or NoInstance
    op,        \* the launch or recreate at work, and what it read when it began
    thread,    \* thread[n]: the create of n, and the revision it read
    taken,     \* instances at work that the teardown of the source's stack destroyed
    ops, changes   \* so far, bounded as above

instVars == <<template, stack, has, inst, op, thread, taken, ops, changes>>

Things == {"snapshot", "image", "pool"}
NoInstance == [there |-> FALSE]
Idle == [at |-> "idle"]
NoTag == [of |-> "none", rev |-> 0]

\* An instance made outside waterpump carries no mark at all.
Foreign == [there |-> TRUE, mark |-> "none", made |-> 0, rev |-> 0, tag |-> NoTag, plan |-> 0,
            want |-> NoTag, handed |-> FALSE, over |-> TRUE, ok |-> TRUE]

Init ==
    /\ template = 1 /\ stack = 1 /\ has \in SUBSET Things
    /\ inst \in [Names -> {NoInstance, Foreign}]
    /\ op = Idle /\ thread = [n \in Names |-> Idle]
    /\ taken = {} /\ ops = 0 /\ changes = 0

Standing == {n \in Names : inst[n].there}
OfTemplate == {n \in Standing : inst[n].mark = "template"}

Changed == changes < MaxChanges /\ changes' = changes + 1

-----------------------------------------------------------------------------
(* resolve_source(): the snapshot where it is, else an image made from it. *)
Source == IF "snapshot" \in has THEN "snapshot" ELSE "image"
SourceHere == has \cap {"snapshot", "image"} # {}

(* place_template(): a pool this node does not have falls back to the profile's. *)
Placed == IF "pool" \in has THEN "pool" ELSE "profile"

(* _mark_stale(): made from another revision than there is now; never one that has   *)
(* none, nor when the template is gone.                                              *)
Stale(n) == template # 0 /\ inst[n].rev # 0 /\ inst[n].rev # template

(* prepare_launch(), by a person or by a step of the stack, whose stages were read    *)
(* when the stack's own launch began; names are free ones.                            *)
Launch(names, byStack) ==
    /\ op = Idle /\ ops < MaxOps /\ ops' = ops + 1
    /\ template # 0 /\ SourceHere /\ names # {} /\ names \cap Standing = {}
    /\ op' = [at |-> "works", kind |-> "launch", made |-> template, source |-> Source,
              pool |-> Placed, plan |-> stack, names |-> names,
              tags |-> [n \in names |-> [of |-> IF byStack THEN "stack" ELSE "none", rev |-> 0]]]
    /\ thread' = [n \in Names |-> IF n \in names THEN [at |-> "begin"] ELSE Idle]
    /\ UNCHANGED <<template, stack, has, inst, taken, changes>>

(* recreate_instances() of all, or of the stale ones that no stack launched: each     *)
(* keeps the stack it is in, at the revision it has.                                  *)
Chosen(stale) ==
    IF stale THEN {n \in OfTemplate : Stale(n) /\ inst[n].tag.of = "none"} ELSE OfTemplate

Recreate(stale) ==
    /\ op = Idle /\ ops < MaxOps /\ ops' = ops + 1
    /\ template # 0 /\ SourceHere /\ Chosen(stale) # {}
    /\ op' = [at |-> "works", kind |-> "recreate", made |-> template, source |-> Source,
              pool |-> Placed, plan |-> stack, names |-> Chosen(stale),
              tags |-> [n \in Chosen(stale) |-> inst[n].tag]]
    /\ thread' = [n \in Names |-> IF n \in Chosen(stale) THEN [at |-> "remove"] ELSE Idle]
    /\ UNCHANGED <<template, stack, has, inst, taken, changes>>

\* The pool takes a thread for each, a few at once; the run is over with the last.
OpEnds ==
    /\ op # Idle /\ \A n \in Names : thread[n] = Idle
    /\ op' = Idle
    /\ UNCHANGED <<template, stack, has, inst, thread, taken, ops, changes>>

-----------------------------------------------------------------------------
(* _remove_instance(): what is not there is removed; what is refused is left alone. *)
Remove(n) ==
    /\ thread[n].at = "remove"
    /\ thread' = [thread EXCEPT ![n] = [at |-> "begin"]]
    /\ inst' = [inst EXCEPT ![n] = NoInstance]
    /\ UNCHANGED <<template, stack, has, op, taken, ops, changes>>

RemoveRefused(n) ==
    /\ thread[n].at = "remove" /\ Changed
    /\ thread' = [thread EXCEPT ![n] = Idle]
    /\ UNCHANGED <<template, stack, has, inst, op, taken, ops>>

(* _create_from_template(): the revisions are read here; a recreated instance takes    *)
(* the stack's revision it had.                                                        *)
TagOf(n) ==
    LET tag == op.tags[n] IN
    IF tag.of = "stack" /\ op.kind = "launch" THEN [tag EXCEPT !.rev = stack] ELSE tag

Begin(n) ==
    /\ thread[n].at = "begin"
    /\ thread' = [thread EXCEPT ![n] = [at |-> "make", rev |-> template, tag |-> TagOf(n)]]
    /\ UNCHANGED <<template, stack, has, inst, op, taken, ops, changes>>

(* create_container() and the daemon: refused where the pool, the snapshot or the image  *)
(* it was going to use has gone, or the name is taken.                                   *)
Possible(n) == op.source \in has /\ (op.pool = "pool" => "pool" \in has) /\ n \notin Standing

\* The mutant: a clone is started as it came.
Straight == "start"

\* A clone is made its own before it is started.
AfterMaking == IF op.source = "snapshot" THEN "detach" ELSE "start"

\* What the clone of an instance of a stack says until it is detached.
Copied(tag) ==
    IF op.source = "snapshot" /\ tag.of = "none" THEN [of |-> "source", rev |-> 1] ELSE tag

Make(n) ==
    /\ thread[n].at = "make" /\ Possible(n)
    /\ inst' = [inst EXCEPT ![n] =
          [there |-> TRUE, mark |-> "template", made |-> op.made, rev |-> thread[n].rev,
           tag |-> Copied(thread[n].tag), plan |-> op.plan, want |-> thread[n].tag,
           handed |-> op.kind = "recreate" /\ op.tags[n].of = "source",
           over |-> FALSE, ok |-> FALSE]]
    /\ thread' = [thread EXCEPT ![n].at = AfterMaking]
    /\ UNCHANGED <<template, stack, has, op, taken, ops, changes>>

MakeFails(n) ==
    /\ thread[n].at = "make" /\ ~Possible(n)
    /\ thread' = [thread EXCEPT ![n] = Idle]
    /\ UNCHANGED <<template, stack, has, inst, op, taken, ops, changes>>

(* _detach_clone(): every tag that this create did not set goes. *)
Detach(n) ==
    /\ thread[n].at = "detach" /\ inst[n].there
    /\ inst' = [inst EXCEPT ![n].tag = thread[n].tag]
    /\ thread' = [thread EXCEPT ![n].at = "start"]
    /\ UNCHANGED <<template, stack, has, op, taken, ops, changes>>

(* Started, and its bootstrap through: the create ends, and says that it worked. *)
Start(n) ==
    /\ thread[n].at = "start" /\ inst[n].there
    /\ inst' = [inst EXCEPT ![n].over = TRUE, ![n].ok = TRUE]
    /\ thread' = [thread EXCEPT ![n] = Idle]
    /\ UNCHANGED <<template, stack, has, op, taken, ops, changes>>

(* The daemon refuses, or the instance is gone: the create has failed, and what it  *)
(* made so far stays as it is.                                                       *)
Fails(n) ==
    /\ thread[n].at \in {"detach", "start"}
    /\ IF inst[n].there
       THEN Changed /\ inst' = [inst EXCEPT ![n].over = TRUE]
       ELSE UNCHANGED <<inst, changes>>
    /\ thread' = [thread EXCEPT ![n] = Idle]
    /\ UNCHANGED <<template, stack, has, op, taken, ops>>

-----------------------------------------------------------------------------
(* What people do meanwhile. *)

EditTemplate ==
    /\ template # 0 /\ Changed /\ template' \in {0, template + 1}
    /\ UNCHANGED <<stack, has, inst, op, thread, taken, ops>>

EditStack ==
    /\ Changed /\ stack' = stack + 1
    /\ UNCHANGED <<template, has, inst, op, thread, taken, ops>>

TakeAway(x) ==
    /\ x \in has /\ Changed /\ has' = has \ {x}
    /\ UNCHANGED <<template, stack, inst, op, thread, taken, ops>>

(* import_instance(): an instance made elsewhere becomes the template's, of no revision. *)
Import(n) ==
    /\ n \in Standing /\ inst[n].mark = "none" /\ Changed
    /\ inst' = [inst EXCEPT ![n].mark = "template"]
    /\ UNCHANGED <<template, stack, has, op, thread, taken, ops>>

\* Destroying the stack whose instance the snapshot is of: all that carry its tag.
TearDownSource ==
    /\ Changed
    /\ LET gone == {n \in Standing : inst[n].tag.of = "source"} IN
         /\ gone # {}
         /\ inst' = [n \in Names |-> IF n \in gone THEN NoInstance ELSE inst[n]]
         /\ taken' = taken \cup {n \in gone : inst[n].ok}
    /\ UNCHANGED <<template, stack, has, op, thread, ops>>

Next ==
    \/ \E names \in SUBSET Names, byStack \in BOOLEAN : Launch(names, byStack)
    \/ \E stale \in BOOLEAN : Recreate(stale)
    \/ OpEnds \/ EditTemplate \/ EditStack \/ TearDownSource
    \/ \E n \in Names :
          \/ Remove(n) \/ RemoveRefused(n) \/ Begin(n) \/ Make(n) \/ MakeFails(n)
          \/ Detach(n) \/ Start(n) \/ Fails(n) \/ Import(n)
    \/ \E x \in Things : TakeAway(x)

Spec == Init /\ [][Next]_instVars

-----------------------------------------------------------------------------
(* An instance whose create worked says of its stack what the launch that made it     *)
(* was told, or what the instance it replaced said, whatever became of its siblings    *)
(* or of the source; and it says the stack of its source only when the instance it     *)
(* replaced already did: a clone whose create failed before it was detached keeps the  *)
(* source's tag, and recreate_instances() hands that on (service.py:2928-2936).         *)
TagsAreItsOwn ==
    \A n \in Standing : inst[n].ok =>
        /\ inst[n].tag = inst[n].want
        /\ inst[n].tag.of = "source" => inst[n].handed

(* _detach_clone(): "the source's stack, say, which a stack's teardown would then take  *)
(* this clone for -- is removed here": no teardown takes an instance that is at work.    *)
(* It does not hold: one that was handed its source's tag is taken (TagsAreItsOwn).      *)
NoneIsTaken == taken = {}

(* docs/templates.md: "Each instance records which version of its template it was      *)
(* made from."                                                                         *)
RevisionIsItsOwn == \A n \in Standing : inst[n].rev # 0 => inst[n].rev = inst[n].made

-----------------------------------------------------------------------------
(* Why it holds: the inductive invariant, proved in NodePartsProof. *)

Tags == [of : {"none", "stack", "source"}, rev : Nat]

Instance == [there : {TRUE}, mark : {"none", "template"}, made : Nat, rev : Nat, tag : Tags,
             plan : Nat, want : Tags, handed : BOOLEAN,
             over : BOOLEAN, ok : BOOLEAN]

Thread == {Idle} \cup [at : {"remove", "begin"}]
              \cup [at : {"make", "detach", "start"}, rev : Nat, tag : Tags]

TypeOK ==
    /\ template \in Nat /\ stack \in Nat /\ has \subseteq Things
    /\ inst \in [Names -> {NoInstance} \cup Instance]
    /\ op # Idle => op.made \in Nat /\ op.plan \in Nat /\ op.tags \in [op.names -> Tags]
    /\ thread \in [Names -> Thread]

\* A thread is of the launch at work.
ThreadsAreTheOps == \A n \in Names : thread[n] # Idle => op # Idle /\ n \in op.names

\* A thread is told the source's stack only to replace an instance that says so.
Handed(n) == op.kind = "recreate" /\ op.tags[n].of = "source"

ToldAsHanded(n) ==
    /\ op # Idle => op.kind \in {"launch", "recreate"}
    /\ op # Idle /\ n \in op.names /\ op.tags[n].of = "source" => Handed(n)
    /\ thread[n].at \in {"make", "detach", "start"} /\ thread[n].tag.of = "source" => Handed(n)

\* What is made says what its thread was told, at the latest before it is started.
Told(n) ==
    inst[n].there =>
        /\ inst[n].want.of = "source" => inst[n].handed
        /\ thread[n].at = "detach" => inst[n].want = thread[n].tag
        /\ thread[n].at = "start" => inst[n].tag = inst[n].want

TagInv ==
    /\ TypeOK /\ ThreadsAreTheOps
    /\ \A n \in Names : ToldAsHanded(n) /\ Told(n)
    /\ TagsAreItsOwn
=============================================================================
