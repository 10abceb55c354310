------------------------------- MODULE Fabric -------------------------------
(***************************************************************************)
(* Fabrics: a prefix of the cluster's, a subnet of it on each member, and   *)
(* routes between them (src/waterpump/fabric.py).                           *)
(*                                                                          *)
(* A node's claim is its own file; what it knows of the others' claims came  *)
(* with their member records.  Creating, extending and deleting a fabric is  *)
(* an operation of the node a person talks to (the coordinator), which has   *)
(* one such change at a time and calls the others side by side; a node that  *)
(* joins is offered its subnets by the node that admits it.  Taking a claim, *)
(* or giving it up, is a thread of the node it is about, and levels the      *)
(* member records with every other member itself.  Two things go on beside    *)
(* that: a node in maintenance leaves its routes as they are, and what looks  *)
(* at the LAN rewrites the file the claims are in, under no lock.             *)
(***************************************************************************)
EXTENDS Naturals, FiniteSets

CONSTANTS
    Nodes,      \* hosts, numbered: members are gone through in their order
    Founders,   \* the sets of nodes a behaviour may start with as members
    Fabrics,    \* fabric names
    Prefixes,   \* blocks of addresses, none of which overlaps another
    Subnets,    \* the subnets of a prefix, numbered
    MaxOps,     \* bound: operations begun
    MaxFaults   \* bound: calls and helpers that fail, and rewritings for the LAN's sake

NoPrefix == "none"

\* A prefix has a last subnet; at the start each member has the subnet of its number.
FabricAssumption ==
    /\ Nodes \subseteq Subnets /\ Subnets \subseteq Nat /\ \E last \in Subnets : Subnets \subseteq 0 .. last
    /\ NoPrefix \notin Prefixes /\ Founders \subseteq SUBSET Nodes

VARIABLES
    members,   \* the nodes in the cluster
    claim,     \* claim[n][f]: the prefix and subnet n holds (fabric.json), or NoClaim
    said,      \* said[n][m][f]: m's claim as n has it in m's record
    routes,    \* routes[n]: the routes n has programmed
    marked,    \* the nodes in maintenance
    skipped,   \* ghost: those whose routes were last left alone, or could not be programmed
    rewrites,  \* for the LAN's sake: who is about to write its claims back as it read them
    op,        \* op[c]: the operation whose coordinator is c
    jobs,      \* the threads that take or give up a claim, or level the records
    ops, faults    \* so far, bounded as above

fabricVars == <<members, claim, said, routes, marked, skipped, rewrites, op, jobs, ops, faults>>
hostVars == <<routes, marked, skipped, rewrites>>

NoFabric == "none"
NoClaim == [prefix |-> NoPrefix, subnet |-> 0]
Nothing == [f \in Fabrics |-> NoClaim]
Resting ==
    [kind |-> "none", fabric |-> NoFabric, prefix |-> NoPrefix, at |-> "rest", want |-> {},
     fresh |-> {}, ok |-> FALSE, alone |-> FALSE]

Held(c) == c # NoClaim

\* The claims as n sees them: its own, and the others' as their records say (_claims).
Seen(n) == [said[n] EXCEPT ![n] = claim[n]]

(* desired_routes(): to those in a fabric of ours that agree on its prefix. *)
Desired(mine, seen, n) ==
    {r \in [to : Nodes \ {n}, fabric : Fabrics, claim : [prefix : Prefixes, subnet : Subnets]] :
        /\ seen[r.to][r.fabric] = r.claim
        /\ Held(mine[r.fabric]) /\ mine[r.fabric].prefix = r.claim.prefix}

\* Every operation but this is at rest, and the records agree with the claims.
Alone(c) ==
    /\ jobs = {} /\ \A m \in Nodes \ {c} : op[m].at \in {"rest", "done"}
    /\ \A n, m \in members : n # m => said[n][m] = claim[m]

Beside(o) == IF o.at = "done" THEN Resting ELSE [o EXCEPT !.alone = FALSE]

-----------------------------------------------------------------------------
\* At the start some fabrics stand, each on every member.
Standing(m, on, n) ==
    [f \in Fabrics |-> IF n \in m /\ on[f] # NoPrefix THEN [prefix |-> on[f], subnet |-> n]
                       ELSE NoClaim]

Init ==
    \E m \in Founders, on \in [Fabrics -> Prefixes \cup {NoPrefix}] :
        /\ \A f, g \in Fabrics : f # g /\ on[f] # NoPrefix => on[f] # on[g]
        /\ members = m
        /\ claim = [n \in Nodes |-> Standing(m, on, n)]
        /\ said = [n \in Nodes |-> [l \in Nodes |-> IF n \in m THEN claim[l] ELSE Nothing]]
        /\ routes = [n \in Nodes |-> Desired(claim[n], said[n], n)]
        /\ marked \in SUBSET m /\ skipped = {} /\ rewrites = {}
        /\ op = [n \in Nodes |-> Resting]
        /\ jobs = {} /\ ops = 0 /\ faults = 0

Begin(c, o) ==
    /\ op[c].at \in {"rest", "done"} /\ ops < MaxOps /\ ops' = ops + 1
    /\ op' = [m \in Nodes |-> IF m = c THEN o ELSE Beside(op[m])]

Operation(c, kind, f) ==
    [kind |-> kind, fabric |-> f, prefix |-> NoPrefix, at |-> "check", want |-> {},
     fresh |-> {}, ok |-> TRUE, alone |-> Alone(c)]

(* create(), extend(), delete(): they wait for _change_lock first. *)
Create(c, f, p) ==
    /\ c \in members
    /\ Begin(c, [Operation(c, "create", f) EXCEPT !.prefix = p])
    /\ UNCHANGED <<members, claim, said, hostVars, jobs, faults>>

Extend(c, f) ==
    /\ c \in members
    /\ Begin(c, Operation(c, "extend", f))
    /\ UNCHANGED <<members, claim, said, hostVars, jobs, faults>>

Delete(c, f) ==
    /\ c \in members
    /\ Begin(c, Operation(c, "delete", f))
    /\ UNCHANGED <<members, claim, said, hostVars, jobs, faults>>

\* definitions(): prefixes any member claims the fabric with, as c sees it.
Defined(seen, f) == {seen[n][f].prefix : n \in {m \in members : Held(seen[m][f])}}

(* allocate(): claims with this prefix stay (one of two alike), and the others get *)
(* the free subnets, in the order of the nodes.                                    *)
Keeps(seen, f, p, among) ==
    {n \in among : /\ seen[n][f].prefix = p
                   /\ \A m \in among : seen[m][f] = seen[n][f] => n <= m}

Taken(seen, f, p, among) == {seen[n][f].subnet : n \in {m \in among : seen[m][f].prefix = p}}

\* How many come before x.
Place(x, among) == Cardinality({y \in among : y < x})

Allocation(seen, f, p, among) ==
    LET waiting == among \ Keeps(seen, f, p, among)
        free == Subnets \ Taken(seen, f, p, among)
    IN {a \in [to : waiting, subnet : free] : Place(a.to, waiting) = Place(a.subnet, free)}

\* It is refused when it runs out of subnets.
Suffices(seen, f, p, among) ==
    \A n \in among \ Keeps(seen, f, p, among) :
        \E a \in Allocation(seen, f, p, among) : a.to = n

\* Who is in maintenance as c has it: its own mark, and the others' as its records say.
Known(c) == {k \in SUBSET members : c \in k <=> c \in marked}

(* check(): every member says what it holds itself, and the coordinator has its   *)
(* records; no name or prefix that is taken anywhere, and nobody in maintenance.  *)
CheckCreate(c) ==
    /\ op[c].at = "check" /\ op[c].kind = "create"
    /\ LET f == op[c].fabric  p == op[c].prefix
           taken == \/ Defined(Seen(c), f) \cup Defined(claim, f) # {}
                    \/ \E g \in Fabrics : p \in Defined(Seen(c), g) \cup Defined(claim, g)
       IN \E known \in Known(c) :
            op' = [op EXCEPT ![c] =
                  IF taken \/ known # {} \/ ~Suffices(Seen(c), f, p, members) THEN Resting
                  ELSE [@ EXCEPT !.at = "begin", !.want = Allocation(Seen(c), f, p, members),
                                 !.fresh = members]]
    /\ UNCHANGED <<members, claim, said, hostVars, jobs, ops, faults>>

\* extend(): only those without a claim are given one, and only they are asked about.
CheckExtend(c) ==
    /\ op[c].at = "check" /\ op[c].kind = "extend"
    /\ LET f == op[c].fabric IN
         IF Defined(Seen(c), f) = {}
         THEN op' = [op EXCEPT ![c] = Resting]
         ELSE \E p \in IF Held(claim[c][f]) THEN {claim[c][f].prefix} ELSE Defined(Seen(c), f) :
                 LET missing == {n \in members : Seen(c)[n][f].prefix # p}
                     want == {a \in Allocation(Seen(c), f, p, members) : a.to \in missing}
                 IN \E known \in Known(c) :
                    op' = [op EXCEPT ![c] =
                      IF missing \cap known # {} \/ missing = {} \/ ~Suffices(Seen(c), f, p, members) THEN Resting
                      ELSE [@ EXCEPT !.at = "begin", !.prefix = p, !.want = want, !.fresh = missing]]
    /\ UNCHANGED <<members, claim, said, hostVars, jobs, ops, faults>>

\* delete(): any member has it, by its own word or by ours, and nobody is in maintenance.
CheckDelete(c) ==
    /\ op[c].at = "check" /\ op[c].kind = "delete"
    /\ LET f == op[c].fabric IN \E known \in Known(c) :
         op' = [op EXCEPT ![c] =
                  IF known # {} \/ Defined(Seen(c), f) \cup Defined(claim, f) = {} THEN Resting
                  ELSE [@ EXCEPT !.at = "tell", !.want = {[to |-> n, subnet |-> 0] : n \in members}]]
    /\ UNCHANGED <<members, claim, said, hostVars, jobs, ops, faults>>

Job(kind, n, c, o, s) ==
    [kind |-> kind, node |-> n, by |-> c, fabric |-> o.fabric,
     claim |-> [prefix |-> o.prefix, subnet |-> s], at |-> "call",
     read |-> Nothing, left |-> {}, got |-> {}]

\* What an operation waits for: not the levelling that a mark sends round.
JobsOf(c) == {j \in jobs : j.by = c /\ j.kind \notin {"mark", "lift"}}

(* _hand_out(): this node first, and the peers when it took its own claim. *)
HandOut(c) ==
    /\ op[c].at = "begin" /\ JobsOf(c) = {}
    /\ jobs' = jobs \cup {Job("claim", a.to, c, op[c], a.subnet) : a \in {b \in op[c].want : b.to = c}}
    /\ op' = [op EXCEPT ![c].at = "tell", ![c].want = {a \in @ : a.to # c}]
    /\ UNCHANGED <<members, claim, said, hostVars, ops, faults>>

Kind(o) == IF o.kind = "delete" THEN "drop" ELSE "claim"

Tell(c) ==
    /\ op[c].at = "tell" /\ JobsOf(c) = {}
    /\ jobs' = jobs \cup {Job(Kind(op[c]), a.to, c, op[c], a.subnet) : a \in {b \in op[c].want : b.to # c}}
    /\ op' = [op EXCEPT ![c].at = IF op[c].kind = "delete" THEN "leave" ELSE "level"]
    /\ UNCHANGED <<members, claim, said, hostVars, ops, faults>>

\* delete() takes its own node last.
LeaveHere(c) ==
    /\ op[c].at = "leave" /\ JobsOf(c) = {}
    /\ jobs' = jobs \cup {Job("drop", c, c, op[c], 0)}
    /\ op' = [op EXCEPT ![c].at = "level"]
    /\ UNCHANGED <<members, claim, said, hostVars, ops, faults>>

\* The records are levelled once more (sync_members).
LevelOnce(c) ==
    /\ op[c].at = "level" /\ JobsOf(c) = {}
    /\ jobs' = jobs \cup {[Job("level", c, c, op[c], 0) EXCEPT
                              !.at = "sync", !.read = claim[c], !.left = members \ {c}]}
    /\ op' = [op EXCEPT ![c].at = "last"]
    /\ UNCHANGED <<members, claim, said, hostVars, ops, faults>>

OpEnds(c) ==
    /\ op[c].at = "last" /\ JobsOf(c) = {}
    /\ op' = [op EXCEPT ![c].at = "done"]
    /\ UNCHANGED <<members, claim, said, hostVars, jobs, ops, faults>>

-----------------------------------------------------------------------------
(* enroll() and join(): the admitting node offers a subnet of each of its fabrics *)
(* (enrolment_claims), and the joiner takes them one by one.                      *)
Offers(x, by) ==
    {o \in [fabric : Fabrics, prefix : Prefixes, subnet : Subnets] :
        LET a == <<Seen(by), o.fabric, o.prefix, members \cup {x}>> IN
        /\ claim[by][o.fabric].prefix = o.prefix
        /\ Suffices(a[1], a[2], a[3], a[4])
        /\ [to |-> x, subnet |-> o.subnet] \in Allocation(a[1], a[2], a[3], a[4])}

Join(x, by) ==
    /\ x \notin members /\ by \in members
    /\ members' = members \cup {x}
    /\ said' = [said EXCEPT ![x] = Seen(by)]
    /\ Begin(x, [Operation(x, "join", NoFabric) EXCEPT !.at = "offers", !.want = Offers(x, by)])
    /\ UNCHANGED <<claim, hostVars, jobs, faults>>

TakeOffer(x) ==
    /\ op[x].at = "offers" /\ JobsOf(x) = {}
    /\ IF op[x].want = {}
       THEN op' = [op EXCEPT ![x].at = "level"] /\ UNCHANGED jobs
       ELSE \E offer \in op[x].want :
               /\ jobs' = jobs \cup {Job("claim", x, x, offer, offer.subnet)}
               /\ op' = [op EXCEPT ![x].want = @ \ {offer}]
    /\ UNCHANGED <<members, claim, said, hostVars, ops, faults>>

-----------------------------------------------------------------------------
(* The threads. *)

Becomes(j, k) == jobs' = (jobs \ {j}) \cup {k}

Syncs(j, mine) == [j EXCEPT !.at = "sync", !.read = mine, !.left = members \ {j.node}]

\* A coordinator that cannot take its own claim tells nobody else.
Stopped(o, j) == IF j.node = j.by /\ o.at = "tell" THEN "done" ELSE o.at

\* A thread is over, and says so to whoever waits for it.
Over(j, ok) ==
    /\ jobs' = jobs \ {j}
    /\ op' = [op EXCEPT ![j.by].ok = @ /\ ok,
                        ![j.by].at = IF ok THEN @ ELSE Stopped(op[j.by], j)]

\* What accept_claim() checks and saves under one lock.
FreeHere(n, f, p) ==
    /\ ~Held(claim[n][f]) \/ claim[n][f].prefix = p
    /\ \A g \in Fabrics \ {f} : claim[n][g].prefix # p

(* _program(): the routes become what is wanted, or the helper refuses, and some  *)
(* of the commands may have been carried out.                                     *)
Program(n, mine, seen) ==
    \/ /\ routes' = [routes EXCEPT ![n] = Desired(mine, seen, n)]
       /\ skipped' = skipped \ {n} /\ UNCHANGED faults
    \/ /\ faults < MaxFaults /\ faults' = faults + 1
       /\ \E some \in SUBSET (routes[n] \cup Desired(mine, seen, n)) :
             /\ routes[n] \cap Desired(mine, seen, n) \subseteq some
             /\ routes' = [routes EXCEPT ![n] = some]
       /\ skipped' = skipped \cup {n}

\* _reapply(): nothing in maintenance; a failure is not passed on.
Reapply(n, mine, seen) ==
    IF n \in marked THEN skipped' = skipped \cup {n} /\ UNCHANGED <<routes, faults>>
    ELSE Program(n, mine, seen)

(* accept_claim(): refused in maintenance; then the claim, its bridge and the records. *)
MayTake(j) == j.node \notin marked /\ FreeHere(j.node, j.fabric, j.claim.prefix)

Accept(j) ==
    /\ j.at = "call" /\ j.kind = "claim"
    /\ IF MayTake(j)
       THEN /\ claim' = [claim EXCEPT ![j.node][j.fabric] = j.claim]
            /\ Becomes(j, Syncs(j, claim'[j.node]))
            /\ UNCHANGED op
       ELSE Over(j, FALSE) /\ UNCHANGED claim
    /\ UNCHANGED <<members, said, hostVars, ops, faults>>

\* The bridge cannot be made: the claim is saved, and the caller is told of a failure.
BridgeFails(j) ==
    /\ j.at = "call" /\ j.kind = "claim" /\ MayTake(j)
    /\ faults < MaxFaults /\ faults' = faults + 1
    /\ claim' = [claim EXCEPT ![j.node][j.fabric] = j.claim]
    /\ skipped' = skipped \cup {j.node}
    /\ Over(j, FALSE)
    /\ UNCHANGED <<members, said, routes, marked, rewrites, ops>>

(* leave() reads the claims before it has the lock. *)
LeaveReads(j) ==
    /\ j.at = "call" /\ j.kind = "drop"
    /\ IF Held(claim[j.node][j.fabric])
       THEN Becomes(j, [j EXCEPT !.at = "save", !.read = claim[j.node]]) /\ UNCHANGED op
       ELSE Over(j, TRUE)
    /\ UNCHANGED <<members, claim, said, hostVars, ops, faults>>

\* ... saves what it read without the fabric's, and programs the routes that are left.
LeaveSaves(j) ==
    /\ j.at = "save"
    /\ LET mine == [j.read EXCEPT ![j.fabric] = NoClaim] IN
         /\ claim' = [claim EXCEPT ![j.node] = mine]
         /\ Program(j.node, mine, said[j.node])
         /\ Becomes(j, Syncs(j, mine))
    /\ UNCHANGED <<members, said, marked, rewrites, op, ops>>

(* announce() at m: the caller's record is what the caller says it is, and when   *)
(* that is news m routes by it; the answer has m's own.                           *)
Announced(j, m) ==
    /\ j.at = "sync" /\ m \in j.left
    /\ said' = [said EXCEPT ![m][j.node] = j.read]
    /\ IF said[m][j.node] = j.read THEN UNCHANGED <<routes, skipped, faults>>
       ELSE Reapply(m, claim[m], said'[m])
    /\ Becomes(j, [j EXCEPT !.left = @ \ {m}, !.got = @ \cup {[of |-> m, claims |-> claim[m]]}])
    /\ UNCHANGED <<members, claim, marked, rewrites, op, ops>>

AnnounceFails(j, m) ==
    /\ j.at = "sync" /\ m \in j.left /\ faults < MaxFaults
    /\ faults' = faults + 1
    /\ Becomes(j, [j EXCEPT !.left = @ \ {m}])
    /\ op' = [op EXCEPT ![j.by].alone = FALSE]
    /\ UNCHANGED <<members, claim, said, hostVars, ops>>

\* remember_members() over the answers, once they are all in.
Heard(j) ==
    [m \in Nodes |-> LET own == {g.claims : g \in {h \in j.got : h.of = m}}
                     IN IF own = {} THEN said[j.node][m] ELSE CHOOSE c \in own : TRUE]

\* Mutant: accept_claim() leaves the routes to the records' news.
LiftReapplies(j) == j.kind = "lift"

\* Who looks at the routes whatever the records say: accept_claim() and set_maintenance().
Reapplies(j) == j.kind \in {"claim", "lift"}

(* ... and reapply(), when there is news or the caller wants it. *)
SyncEnds(j) ==
    /\ j.at = "sync" /\ j.left = {}
    /\ said' = [said EXCEPT ![j.node] = Heard(j)]
    /\ IF Heard(j) = said[j.node] /\ ~Reapplies(j)
       THEN UNCHANGED <<routes, skipped, faults>>
       ELSE Reapply(j.node, claim[j.node], said'[j.node])
    /\ Over(j, TRUE)
    /\ UNCHANGED <<members, claim, marked, rewrites, ops>>

CallFails(j) ==
    /\ j.at = "call" /\ j.node # j.by /\ faults < MaxFaults
    /\ faults' = faults + 1
    /\ Over(j, FALSE)
    /\ UNCHANGED <<members, claim, said, hostVars, ops>>

-----------------------------------------------------------------------------
(* What goes on beside them. *)

\* set_maintenance(): the mark is set or lifted, and the records are levelled.
SetMaintenance(n) ==
    /\ n \in members /\ ops < MaxOps /\ ops' = ops + 1
    /\ marked' = IF n \in marked THEN marked \ {n} ELSE marked \cup {n}
    /\ jobs' = jobs \cup {Syncs(Job(IF n \in marked THEN "lift" ELSE "mark", n, n, Resting, 0), claim[n])}
    /\ op' = [m \in Nodes |-> Beside(op[m])]
    /\ UNCHANGED <<members, claim, said, routes, skipped, rewrites, faults>>

\* sync_lan() of a reapply(): the LAN is another, and _save() reads the file.
LanReads(n) ==
    /\ n \in members /\ faults < MaxFaults /\ faults' = faults + 1
    /\ rewrites' = rewrites \cup {[node |-> n, read |-> claim[n]]}
    /\ UNCHANGED <<members, claim, said, routes, marked, skipped, op, jobs, ops>>

(* ... and writes it back whole, with the claims of before; the routes follow.  An *)
(* operation that had its claim changed by that had not the cluster alone.         *)
LanSaves(w) ==
    /\ claim' = [claim EXCEPT ![w.node] = w.read]
    /\ rewrites' = rewrites \ {w}
    /\ Reapply(w.node, w.read, said[w.node])
    /\ op' = IF w.read = claim[w.node] THEN op ELSE [m \in Nodes |-> Beside(op[m])]
    /\ UNCHANGED <<members, said, marked, jobs, ops>>

\* The pass that looks at the routes again every so often (start()).
Round(n) ==
    /\ n \in members
    /\ Reapply(n, claim[n], said[n])
    /\ UNCHANGED <<members, claim, said, marked, rewrites, op, jobs, ops>>

Next ==
    \/ \E c \in Nodes :
          \/ \E f \in Fabrics : \/ Extend(c, f) \/ Delete(c, f)
                                \/ \E p \in Prefixes : Create(c, f, p)
          \/ CheckCreate(c) \/ CheckExtend(c) \/ CheckDelete(c)
          \/ HandOut(c) \/ Tell(c) \/ LeaveHere(c) \/ LevelOnce(c) \/ OpEnds(c)
          \/ \E by \in Nodes : Join(c, by)
          \/ TakeOffer(c) \/ SetMaintenance(c) \/ LanReads(c) \/ Round(c)
    \/ \E j \in jobs :
          \/ Accept(j) \/ BridgeFails(j) \/ LeaveReads(j) \/ LeaveSaves(j)
          \/ SyncEnds(j) \/ CallFails(j)
          \/ \E m \in Nodes : Announced(j, m) \/ AnnounceFails(j, m)
    \/ \E w \in rewrites : LanSaves(w)

Spec == Init /\ [][Next]_fabricVars

-----------------------------------------------------------------------------
Routed(n, m, f) ==
    [to |-> m, fabric |-> f, claim |-> claim[m][f]] \in routes[n]

RoutedBoth(n, m, f) == (Routed(n, m, f) \/ n \in skipped) /\ (Routed(m, n, f) \/ m \in skipped)

Report(c) == op[c].at = "done" /\ op[c].ok /\ op[c].alone

(* However creates, extends and joins cross, no node ever holds two fabrics over  *)
(* the same addresses: whichever claim comes second is refused where it meets the *)
(* first, and the rest of its fabric stands.                                      *)
PrefixesApart ==
    \A n \in Nodes : \A f, g \in Fabrics :
        f # g /\ Held(claim[n][f]) => claim[n][f].prefix # claim[n][g].prefix

Taking(n) == \E j \in jobs : j.node = n /\ j.kind = "claim" /\ j.at = "sync"

(* Whoever is not skipped, nor in the middle of taking a claim, routes to just what *)
(* its claims and its records come to: records are looked at for news, and claims   *)
(* change in three places, and none of them forgets the routes.                     *)
RoutesFollow ==
    \A n \in Nodes : routes[n] = Desired(claim[n], said[n], n) \/ n \in skipped \/ Taking(n)

(* A create or extend that ended well, with nothing beside it: every member holds a  *)
(* subnet, those that it gave one hold it alone, and the coordinator and each of them  *)
(* route to one another, but for one that was skipped: a member in maintenance or    *)
(* without its helper is reported as done.  A node that joined has its subnets alone,  *)
(* and routes in the same way.  After a delete nothing of it is left, and nobody else  *)
(* routes into it.                                                                   *)
ChangeIsDone ==
    \A c \in Nodes : Report(c) =>
        LET f == op[c].fabric IN
        /\ op[c].kind \in {"create", "extend"} =>
              /\ \A n \in members : Held(claim[n][f])
              /\ \A n \in op[c].fresh : \A m \in members \ {n} : claim[n][f] # claim[m][f]
              /\ \A n \in members \ {c} : RoutedBoth(c, n, f)
        /\ op[c].kind = "delete" =>
              /\ \A n \in members : ~Held(claim[n][f])
              /\ \A n \in members \ skipped : \A r \in routes[n] : r.fabric # f
        /\ op[c].kind = "join" =>
              \A g \in Fabrics : \A n \in members \ {c} :
                 Held(claim[c][g]) /\ Held(claim[n][g]) /\ claim[c][g].prefix = claim[n][g].prefix =>
                    claim[c][g] # claim[n][g] /\ RoutedBoth(c, n, g)

FabricsHold == PrefixesApart /\ RoutesFollow /\ ChangeIsDone

(* What fabric.py:687-690 says of maintenance, that a host's routes stay exactly as     *)
(* they were until it ends: leave() programs them all the same (1477-1479), when the    *)
(* coordinator's record of the mark is behind.                                          *)
RoutesAreFrozen == [][\A n \in marked : routes'[n] = routes[n]]_fabricVars

-----------------------------------------------------------------------------
(* Why it holds: what an operation does step by step, when it has the cluster alone. *)

Blocks == [prefix : Prefixes, subnet : Subnets]
Claims == [Fabrics -> Blocks \cup {NoClaim}]

OpFits(o, who) ==
    /\ o \in [kind : {"none", "create", "extend", "delete", "join"}, fabric : Fabrics \cup {NoFabric},
              prefix : Prefixes \cup {NoPrefix},
              at : {"rest", "check", "offers", "begin", "tell", "leave", "level", "last", "done"},
              want : {o.want}, fresh : SUBSET who, ok : BOOLEAN, alone : BOOLEAN]
    /\ o.kind = "none" => o.at = "rest"
    /\ o.kind \in {"create", "extend"} =>
          /\ o.at \in {"check", "begin", "tell", "level", "last", "done"}
          /\ o.fabric \in Fabrics /\ o.want \subseteq [to : who, subnet : Subnets]
          /\ o.kind = "create" \/ o.at # "check" => o.prefix \in Prefixes
    /\ o.kind = "delete" =>
          /\ o.at \in {"check", "tell", "leave", "level", "last", "done"}
          /\ o.fabric \in Fabrics /\ o.want \subseteq [to : who, subnet : {0}]
    /\ o.kind = "join" =>
          /\ o.at \in {"offers", "level", "last", "done"}
          /\ o.want \subseteq [fabric : Fabrics, prefix : Prefixes, subnet : Subnets]

JobFits(j, who) ==
    /\ j \in [kind : {"claim", "drop", "level", "mark", "lift"}, node : who, by : who,
              fabric : Fabrics \cup {NoFabric},
              claim : [prefix : Prefixes \cup {NoPrefix}, subnet : Subnets \cup {0}],
              at : {"call", "save", "sync"}, read : Claims, left : SUBSET who,
              got : SUBSET [of : who, claims : Claims]]
    /\ j.kind = "claim" => j.claim \in Blocks /\ j.fabric \in Fabrics
    /\ j.kind = "drop" => j.fabric \in Fabrics
    /\ j.at = "save" => j.kind = "drop"
    /\ j.kind \in {"level", "mark", "lift"} => j.at = "sync"

ClaimsOK ==
    members \subseteq Nodes /\ claim \in [Nodes -> Claims] /\ said \in [Nodes -> [Nodes -> Claims]]

OpsOK ==
    /\ op = [n \in Nodes |-> op[n]]
    /\ \A n \in Nodes : OpFits(op[n], members) /\ (op[n].at # "rest" => n \in members)

TypeOK == ClaimsOK /\ OpsOK /\ \A j \in jobs : JobFits(j, members)

HostOK ==
    /\ routes = [n \in Nodes |-> routes[n]]
    /\ \A w \in rewrites : w.node \in members /\ w.read \in Claims

\* What a node holds is apart, and so is what it is about to write back.
IsApart(mine) == \A f, g \in Fabrics : f # g /\ Held(mine[f]) => mine[f].prefix # mine[g].prefix
ReadsApart ==
    /\ \A j \in jobs : j.at = "save" => IsApart(j.read)
    /\ \A w \in rewrites : IsApart(w.read)

OutsideHoldNothing == \A n \in Nodes \ members : claim[n] = Nothing

-----------------------------------------------------------------------------
Calm(c) == op[c].alone /\ op[c].ok
Agree == \A n, m \in members : n # m => said[n][m] = claim[m]

\* The subnets that a create or extend has still to give.
Due(c) ==
    (IF op[c].at \in {"begin", "tell"} THEN op[c].want ELSE {})
    \cup {[to |-> j.node, subnet |-> j.claim.subnet] : j \in {k \in jobs : k.at = "call"}}

IsDue(c, n) == \E a \in Due(c) : a.to = n
Has(c, n) == claim[n][op[c].fabric].prefix = op[c].prefix

GivenOut(c) ==
    /\ \A n \in members : Has(c, n) \/ IsDue(c, n)
    /\ \A a, b \in Due(c) : a.to = b.to <=> a.subnet = b.subnet
    /\ \A a \in Due(c) : \A n \in members \ {a.to} : Has(c, n) => claim[n][op[c].fabric].subnet # a.subnet
    /\ \A n \in op[c].fresh : \A m \in members \ {n} :
          Has(c, n) /\ Has(c, m) /\ ~IsDue(c, n) => claim[n][op[c].fabric] # claim[m][op[c].fabric]
    /\ op[c].at = "tell" => \A a \in op[c].want : a.to # c

Going(c, n) ==
    \/ op[c].at = "tell" \/ (op[c].at = "leave" /\ n = c)
    \/ \E j \in jobs : j.node = n /\ j.at \in {"call", "save"}

Cleared(c) ==
    /\ \A n \in members : Held(claim[n][op[c].fabric]) => Going(c, n)
    /\ op[c].at = "tell" => op[c].want = {[to |-> n, subnet |-> 0] : n \in members}

\* The offers that a node which joins has still to take.
Offered(c) ==
    (IF op[c].at = "offers" THEN op[c].want ELSE {})
    \cup {[fabric |-> j.fabric, prefix |-> j.claim.prefix, subnet |-> j.claim.subnet] :
              j \in {k \in jobs : k.at = "call"}}

Joined(c) ==
    \A n \in members \ {c} :
        /\ \A o \in Offered(c) : claim[n][o.fabric].prefix = o.prefix => claim[n][o.fabric].subnet # o.subnet
        /\ \A g \in Fabrics : Held(claim[c][g]) => claim[c][g] # claim[n][g]

\* Who was told the coordinator's claims.
Told(c, m) == said[m][c] = claim[c]

Levels(c, j) ==
    /\ j.kind = "level" /\ j.node = c /\ j.read = claim[c] /\ j.left \subseteq members \ {c}
    /\ j.got = {[of |-> m, claims |-> claim[m]] : m \in (members \ {c}) \ j.left}
    /\ \A m \in (members \ {c}) \ j.left : Told(c, m)

Levelled(c) == \A m \in members \ {c} : Told(c, m) /\ said[c][m] = claim[m]

\* What a thread of the operation's does, before the records are levelled.
Works(c, j) ==
    /\ j.kind = (IF op[c].kind = "delete" THEN "drop" ELSE "claim")
    /\ op[c].kind = "join" => j.node = c
    /\ op[c].kind # "join" => j.fabric = op[c].fabric /\ (j.kind = "claim" => j.claim.prefix = op[c].prefix)

CalmFits(c) ==
    /\ op[c].at # "rest" /\ \A m \in Nodes \ {c} : op[m].at = "rest"
    /\ \A j \in jobs : j.by = c
    /\ op[c].at = "check" => jobs = {} /\ Agree
    /\ op[c].at \notin {"last", "done"} => \A j \in jobs : Works(c, j)
    /\ op[c].at # "check" =>
          /\ op[c].kind \in {"create", "extend"} => GivenOut(c)
          /\ op[c].kind = "delete" => Cleared(c)
          /\ op[c].kind = "join" => Joined(c)
    /\ op[c].at = "last" => (jobs = {} /\ Levelled(c)) \/ \E j \in jobs : jobs = {j} /\ Levels(c, j)
    /\ op[c].at = "done" => jobs = {} /\ Levelled(c)

FabricInv ==
    /\ TypeOK /\ HostOK /\ PrefixesApart /\ ReadsApart /\ OutsideHoldNothing /\ RoutesFollow
    /\ \A c \in Nodes : Calm(c) => CalmFits(c)
=============================================================================
