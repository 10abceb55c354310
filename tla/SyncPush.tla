------------------------------ MODULE SyncPush ------------------------------
(* Shared definitions pushed by hand from one member to another, with what they   *)
(* need to be of use there (src/waterpump/cluster.py, sync, _sync_payload and       *)
(* _sync_to; the saves that take them in are service.py's, stacks.py's and          *)
(* tasks.py's).  A push after a save sends the same payload of one record.          *)
(*                                                                                *)
(* One record of each kind: a module that may declare the parameter P; a template  *)
(* that may use the module and give P; a stack that may launch the template, from  *)
(* its stages or from a swarm's, and declare a secret x; x's value; a task, run    *)
(* from the template, with a script for its job or the module, which it may give P. *)
EXTENDS Integers, FiniteSets

CONSTANTS
    Nodes,
    MaxTrouble    \* bound: records saved or deleted by people, and calls that fail

NodesAssumption == "nobody" \notin Nodes

VARIABLES
    held,      \* held[n][kind]: n's record: who saved it last, and what it is with
    sync,      \* the sync: where it is, what it read, what it has pushed
    crossed,   \* kinds saved by people, at either end, since the sync began
    faults,    \* calls that failed
    trouble    \* so far, bounded by MaxTrouble

syncVars == <<held, sync, crossed, faults, trouble>>

\* The order of _sync_payload(): what is named goes before what names it.
Place == [modules |-> 1, templates |-> 2, stacks |-> 3, secrets |-> 4, tasks |-> 5]
Kinds == DOMAIN Place
Nobody == "nobody"
Absent == [by |-> Nobody, with |-> {}]
May == [modules |-> {"P"}, templates |-> {"modules", "P"}, stacks |-> {"templates", "x"},
        secrets |-> {"x"}, tasks |-> {"templates", "modules", "P"}]

There(n, kind) == held[n][kind].by # Nobody

\* Whether a record makes sense at all, whoever holds it.
Sound(kind, with) ==
    /\ with \subseteq May[kind]
    /\ "P" \in with => kind = "modules" \/ "modules" \in with
    /\ kind = "tasks" => "templates" \in with
    /\ kind = "secrets" => with = {"x"}

(* _stored_selection(), _check_flow(), save_task(): what the record names is there, *)
(* and the parameters it gives are declared.  adopt_secrets() asks nothing.          *)
Accepts(records, kind, with) ==
    /\ \A needed \in with \cap Kinds : records[needed].by # Nobody
    /\ kind \in {"templates", "tasks"} /\ "P" \in with => "P" \in records["modules"].with

\* The selection is completed: it gives all that its modules declare by then.
Completed(records, kind, record) ==
    IF kind \in {"templates", "tasks"} /\ "modules" \in record.with
    THEN [record EXCEPT !.with = @ \cup records["modules"].with] ELSE record

\* A stack's save drops the values it does not declare.
Saved(records, kind, record) ==
    [records EXCEPT ![kind] = Completed(records, kind, record),
        !.secrets = IF kind = "stacks" /\ "x" \notin record.with THEN Absent
                    ELSE IF kind = "secrets" THEN record ELSE @]

NoSync == [at |-> "none", from |-> Nobody, to |-> Nobody, asked |-> {}, needs |-> {},
           items |-> [k \in {} |-> Absent], left |-> {}, failed |-> {}, done |-> {}]

(* An end that has everything, of its own; or one that has nothing. *)
Full(n) == [k \in Kinds |-> [by |-> n, with |-> IF k = "modules" THEN {} ELSE May[k] \ {"P"}]]
Empty == [k \in Kinds |-> Absent]

\* One end starts with any records that fit together.
Whole(n) ==
    {r \in [modules : {Absent} \cup [by : {n}, with : {{"P"}}],
            templates : {Absent} \cup [by : {n}, with : SUBSET May.templates],
            stacks : {Absent} \cup [by : {n}, with : {{"templates"}, {"templates", "x"}}],
            secrets : {Absent} \cup [by : {n}, with : {{"x"}}],
            tasks : {Absent} \cup [by : {n}, with : {{"templates"}, {"templates", "modules"},
                                            {"templates", "modules", "P"}}]] :
        /\ \A k \in Kinds : r[k] # Absent => Sound(k, r[k].with) /\ Accepts(r, k, r[k].with)
        /\ r.secrets # Absent => "x" \in r.stacks.with}

Init ==
    /\ \E a \in Nodes : \E full \in Whole(a) :
          \E other \in [Nodes \ {a} -> BOOLEAN] :
             held = [n \in Nodes |-> IF n = a THEN full ELSE IF other[n] THEN Full(n) ELSE Empty]
    /\ sync = NoSync /\ crossed = {} /\ faults = 0 /\ trouble = 0

-----------------------------------------------------------------------------
\* What comes after the sync is nothing to it.
Trouble == trouble < MaxTrouble /\ sync.at # "over" /\ trouble' = trouble + 1

(* sync(), one direction on purpose. *)

Begin(a, b, asked) ==
    /\ sync.at = "none" /\ a # b /\ asked # {}
    /\ sync' = [NoSync EXCEPT !.at = "stacks", !.from = a, !.to = b, !.asked = asked]
    /\ crossed' = {}
    /\ UNCHANGED <<held, faults, trouble>>

Here == held[sync.from]
Taken(kinds) == [k \in DOMAIN sync.items \cup kinds |-> IF k \in kinds THEN Here[k] ELSE sync.items[k]]
Named(kinds) == UNION {Here[k].with : k \in kinds}

\* Tasks and stacks are read first, and drag along what they name.
ReadStacks ==
    /\ sync.at = "stacks"
    /\ LET kinds == {k \in sync.asked \cap {"stacks", "tasks"} : There(sync.from, k)}
       IN sync' = [sync EXCEPT !.at = "templates", !.items = Taken(kinds), !.needs = Named(kinds)]
    /\ UNCHANGED <<held, crossed, faults, trouble>>

\* Mutant: only what was asked for.
AskedOnly(kind) == kind \in sync.asked

\* Asked for, or named by what is sent.
Wanted(kind) == kind \in sync.asked \cup sync.needs

ReadTemplates ==
    /\ sync.at = "templates"
    /\ LET kinds == {k \in {"templates"} : Wanted(k) /\ There(sync.from, k)}
       IN sync' = [sync EXCEPT !.at = "modules", !.items = Taken(kinds), !.needs = @ \cup Named(kinds)]
    /\ UNCHANGED <<held, crossed, faults, trouble>>

\* The values of a stack that declares some go even when there are none.
ReadRest ==
    /\ sync.at = "modules"
    /\ LET kinds == {k \in {"modules"} : Wanted(k) /\ There(sync.from, k)}
                    \cup {k \in {"secrets"} \cap sync.asked :
                             There(sync.from, k) \/ "x" \in Here["stacks"].with}
       IN sync' = [sync EXCEPT !.at = "push", !.items = Taken(kinds),
                     !.left = DOMAIN sync.items \cup kinds]
    /\ UNCHANGED <<held, crossed, faults, trouble>>

(* _sync_to(): one item after another, whatever became of the ones before. *)
Due(kind) ==
    /\ sync.at = "push" /\ kind \in sync.left
    /\ \A other \in sync.left : Place[kind] <= Place[other]

Push(kind) ==
    /\ Due(kind)
    /\ IF Accepts(held[sync.to], kind, sync.items[kind].with)
       THEN /\ held' = [held EXCEPT ![sync.to] = Saved(@, kind, sync.items[kind])]
            /\ sync' = [sync EXCEPT !.left = @ \ {kind}, !.done = @ \cup {kind}]
       ELSE /\ UNCHANGED held
            /\ sync' = [sync EXCEPT !.left = @ \ {kind}, !.failed = @ \cup {kind}]
    /\ UNCHANGED <<crossed, faults, trouble>>

PushFails(kind) ==
    /\ Due(kind) /\ Trouble /\ faults' = faults + 1
    /\ sync' = [sync EXCEPT !.left = @ \ {kind}, !.failed = @ \cup {kind}]
    /\ UNCHANGED <<held, crossed>>

Ends ==
    /\ sync.at = "push" /\ sync.left = {}
    /\ sync' = [sync EXCEPT !.at = "over"]
    /\ UNCHANGED <<held, crossed, faults, trouble>>

-----------------------------------------------------------------------------
(* People, at either end: to the rules that a push meets; what is named stays. *)

Changed(kind) == Trouble /\ crossed' = crossed \cup {kind}

Save(n, kind, with) ==
    /\ Changed(kind) /\ Sound(kind, with) /\ Accepts(held[n], kind, with)
    /\ held' = [held EXCEPT ![n] = Saved(@, kind, [by |-> n, with |-> with])]
    /\ UNCHANGED <<sync, faults>>

Delete(n, kind) ==
    /\ Changed(kind) /\ There(n, kind)
    /\ \A other \in Kinds : kind \notin held[n][other].with
    /\ held' = [held EXCEPT ![n] = [k \in Kinds |->
                   IF k = kind \/ (k = "secrets" /\ kind = "stacks") THEN Absent ELSE held[n][k]]]
    /\ UNCHANGED <<sync, faults>>

Next ==
    \/ \E a, b \in Nodes, asked \in {{k} : k \in Kinds} \cup {Kinds} : Begin(a, b, asked)
    \/ ReadStacks \/ ReadTemplates \/ ReadRest \/ Ends
    \/ \E kind \in Kinds : Push(kind) \/ PushFails(kind)
    \/ \E n \in Nodes, kind \in Kinds :
          Delete(n, kind) \/ (\E with \in SUBSET May[kind] : Save(n, kind, with))

-----------------------------------------------------------------------------
(* Whether what n holds can be launched and run as it is. *)
Fits(n) == \A k \in Kinds : There(n, k) => Accepts(held[n], k, held[n][k].with)

(* "Syncing a template also pushes the uploaded modules it uses, so it is not       *)
(* broken on arrival" (docs/cluster.md); a stack and a task drag their templates     *)
(* the same way.  From an end whose records fit together, and with nobody saving     *)
(* meanwhile, every item is accepted unless its call, or that of something it        *)
(* needs, fails; what was accepted is what was sent, completed by what its modules    *)
(* declare over there; and what arrived is whole at every moment of the push, not     *)
(* only at its end.                                                                  *)
ArrivesWhole ==
    sync.at \in {"push", "over"} /\ crossed = {} =>
        /\ \A k \in sync.done : held[sync.to][k] = Completed(held[sync.to], k, sync.items[k])
        /\ \A k \in sync.done : Accepts(held[sync.to], k, held[sync.to][k].with)
        /\ Fits(sync.from) /\ faults = 0 => sync.failed = {}

-----------------------------------------------------------------------------
(* Why it holds: the inductive invariant, proved in ClusterPartsProof.          *)

Records == [by : Nodes \cup {Nobody}, with : SUBSET {"modules", "templates", "x", "P"}]

Sync(D) == [at : {"none", "stacks", "templates", "modules", "push", "over"},
            from : Nodes \cup {Nobody}, to : Nodes \cup {Nobody}, asked : SUBSET Kinds,
            needs : SUBSET {"modules", "templates", "x", "P"},
            items : [D -> Records],
            left : SUBSET Kinds, failed : SUBSET Kinds, done : SUBSET Kinds]

TypeOK ==
    /\ held \in [Nodes -> [Kinds -> Records]]
    /\ \A n \in Nodes, k \in Kinds : held[n][k].with \subseteq May[k]
    /\ \E D \in SUBSET Kinds : sync \in Sync(D)
    /\ \A k \in DOMAIN sync.items : sync.items[k].with \subseteq May[k]
    /\ sync.at # "none" => sync.from \in Nodes /\ sync.to \in Nodes /\ sync.from # sync.to
    /\ faults \in Nat /\ trouble \in Nat

\* A record that is not there names nothing; who gives P uses the module that declares it.
Makes(k, record) ==
    /\ record.by = Nobody => record.with = {}
    /\ k # "modules" /\ "P" \in record.with => "modules" \in record.with

MakesSense ==
    /\ \A n \in Nodes, k \in Kinds : Makes(k, held[n][k])
    /\ \A k \in DOMAIN sync.items : Makes(k, sync.items[k])

\* What was read is what is still there, as long as nobody saved or deleted.
ReadIsThere ==
    /\ sync.at = "none" => DOMAIN sync.items = {}
    /\ crossed = {} => \A k \in DOMAIN sync.items : sync.items[k] = held[sync.from][k]

\* What is named is read after what names it: by now, each of these kinds was.
ReadBy ==
    [none |-> {}, stacks |-> {}, templates |-> {"stacks", "tasks"},
     modules |-> {"stacks", "tasks", "templates"}, push |-> Kinds, over |-> Kinds]

\* What is read takes along what it names.
NamedGoesAlong ==
    /\ sync.at \in {"none", "stacks", "templates", "modules"} =>
          /\ DOMAIN sync.items \subseteq ReadBy[sync.at]
          /\ \A k \in DOMAIN sync.items : sync.items[k].with \subseteq sync.needs
    /\ crossed = {} =>
          \A k \in DOMAIN sync.items :
             \A needed \in sync.items[k].with \cap ReadBy[sync.at] :
                There(sync.from, needed) => needed \in DOMAIN sync.items

\* What is pushed was read, and goes in order.
InOrder ==
    /\ sync.at \notin {"push", "over"} => sync.left = {} /\ sync.done = {} /\ sync.failed = {}
    /\ sync.at \in {"push", "over"} =>
          /\ DOMAIN sync.items = sync.left \cup sync.done \cup sync.failed
          /\ \A k \in sync.left, d \in sync.done \cup sync.failed : Place[d] < Place[k]

SyncInv == TypeOK /\ MakesSense /\ ReadIsThere /\ NamedGoesAlong /\ InOrder /\ ArrivesWhole
=============================================================================
