----------------------------- MODULE Definitions -----------------------------
(***************************************************************************)
(* How the members keep one shared definition level (src/waterpump/        *)
(* cluster.py, _propagate and reconcile; store.py, the change ledger): a   *)
(* save or a deletion is pushed to every member at once, best effort, and  *)
(* a node that has been away settles itself against the others by a pass   *)
(* that compares digests and ledgers, puts its own copy right, and then    *)
(* tells the members that are behind.                                      *)
(*                                                                         *)
(* A copy of the definition is the number of the edit it came from, so two *)
(* copies are equal when their digests are.  The ledger's stamps are the   *)
(* seconds of one clock; a tombstone is never older than its thirty days.  *)
(***************************************************************************)
EXTENDS Integers

CONSTANTS
    Node,          \* the members
    MaxTime,       \* bound: seconds that pass
    MaxEdits,      \* bound: saves by a person
    MaxDeletes,    \* bound: deletions by a person
    MaxPasses,     \* bound: reconciliations begun
    MaxFaults      \* bound: nodes going down, and calls failing that need not

ASSUME BoundsAssumption ==
    /\ MaxTime >= 1 /\ MaxEdits >= 1
    /\ {MaxTime, MaxEdits, MaxDeletes, MaxPasses, MaxFaults} \subseteq Nat

VARIABLES
    now,           \* the time
    up,            \* the nodes whose serve is running
    copy,          \* copy[n]: the edit that n's record holds, or None
    changes,       \* changes[n]: n's ledger entry for it
    untold,        \* the nodes where a save has not read what it will push
    calls,         \* pushes and deletions on their way
    pass,          \* pass[n]: n's reconciliation
    calm,          \* calm[n]: nobody else changed anything since n's pass began,
                   \* and none of its calls failed
    edits, deletes, locals, passes, faults      \* so far, bounded as above

vars == <<now, up, copy, changes, untold, calls, pass, calm,
          edits, deletes, locals, passes, faults>>

None == 0

Copy == None..MaxEdits

NoEntry == [at |-> 0, deleted |-> FALSE]

Entry == [at : 0..MaxTime, deleted : BOOLEAN]

Manifest == [copy : Copy, entry : Entry]

Unread == [copy |-> None, entry |-> NoEntry]

\* What a node tells a peer that asks: what it holds and what it last did.
ManifestOf(n) == [copy |-> copy[n], entry |-> changes[n]]

Idle == [at |-> "idle", left |-> {}, reached |-> {}, seen |-> [n \in Node |-> Unread],
         from |-> {}, push |-> {}, drop |-> {}]

Over(reached) == [Idle EXCEPT !.at = "over", !.reached = reached]

Running(n) == pass[n].at \notin {"idle", "over"}

Call == [by : Node, to : Node, act : {"save", "drop"}, body : Copy]

Saves(n, to, body) == [by : {n}, to : to, act : {"save"}, body : {body}]
Drops(n, to) == [by : {n}, to : to, act : {"drop"}, body : {None}]

-----------------------------------------------------------------------------
(* Writing the record and its ledger entry.                                *)

\* The time is read only here; any may have passed since it was last read.
Stamped(n, deleted) ==
    \E t \in {now, now + 1} \cap 1..MaxTime :
        /\ now' = t
        /\ changes' = [changes EXCEPT ![n] = [at |-> t, deleted |-> deleted]]

Saved(n, body) == copy' = [copy EXCEPT ![n] = body] /\ Stamped(n, FALSE)

\* Only a deletion that removed something is a tombstone.
Removed(n) ==
    /\ copy' = [copy EXCEPT ![n] = None]
    /\ IF copy[n] = None THEN UNCHANGED <<now, changes>> ELSE Stamped(n, TRUE)

\* What a step that is not n's own pass does to the passes under way.
Disturbs == calm' = [n \in Node |-> FALSE]
DisturbsOthers(n) == calm' = [m \in Node |-> m = n /\ calm[m]]
Spoils(n) == calm' = [calm EXCEPT ![n] = FALSE]

Counted == <<edits, deletes, locals, passes, faults>>

-----------------------------------------------------------------------------
(* What people do.                                                         *)

\* A save on n; what it pushes is read a moment later.
Save(n) ==
    /\ n \in up \ untold /\ edits < MaxEdits
    /\ edits' = edits + 1
    /\ Saved(n, edits + 1)
    /\ untold' = untold \cup {n}
    /\ Disturbs
    /\ UNCHANGED <<up, calls, pass, deletes, locals, passes, faults>>

Propagate(n) ==
    /\ n \in untold
    /\ untold' = untold \ {n}
    /\ calls' = IF copy[n] = None THEN calls
                ELSE calls \cup Saves(n, Node \ {n}, copy[n])
    /\ UNCHANGED <<now, up, copy, changes, pass, calm, Counted>>

\* A deletion of the definition, for every member.
Delete(n) ==
    /\ n \in up /\ copy[n] # None /\ deletes + locals < MaxDeletes
    /\ deletes' = deletes + 1
    /\ Removed(n)
    /\ calls' = calls \cup Drops(n, Node \ {n})
    /\ Disturbs
    /\ UNCHANGED <<up, untold, pass, edits, locals, passes, faults>>

\* --local-only: the other members are not told.
DeleteHere(n) ==
    /\ n \in up /\ copy[n] # None /\ deletes + locals < MaxDeletes
    /\ locals' = locals + 1
    /\ Removed(n)
    /\ Disturbs
    /\ UNCHANGED <<up, untold, calls, pass, edits, deletes, passes, faults>>

-----------------------------------------------------------------------------
(* The processes and the network.                                          *)

GoesDown(n) ==
    /\ n \in up /\ faults < MaxFaults
    /\ faults' = faults + 1
    /\ up' = up \ {n}
    /\ untold' = untold \ {n}
    /\ pass' = [pass EXCEPT ![n] = Idle]

Off(n) ==
    /\ GoesDown(n)
    /\ Spoils(n)
    /\ UNCHANGED <<now, copy, changes, calls, edits, deletes, locals, passes>>

\* The process dies after it wrote the record and before it noted the change.
TornSave(n) ==
    /\ edits < MaxEdits
    /\ GoesDown(n)
    /\ edits' = edits + 1
    /\ copy' = [copy EXCEPT ![n] = edits + 1]
    /\ Disturbs
    /\ UNCHANGED <<now, changes, calls, deletes, locals, passes>>

TornDelete(n) ==
    /\ copy[n] # None /\ deletes + locals < MaxDeletes
    /\ GoesDown(n)
    /\ deletes' = deletes + 1
    /\ copy' = [copy EXCEPT ![n] = None]
    /\ Disturbs
    /\ UNCHANGED <<now, changes, calls, edits, locals, passes>>

On(n) ==
    /\ n \notin up
    /\ up' = up \cup {n}
    /\ UNCHANGED <<now, copy, changes, untold, calls, pass, calm, Counted>>

\* A call gets through, maybe long after its caller gave it up.  The receiver
\* stamps its own entry, and passes nothing on.
Receive(c) ==
    /\ c.to \in up
    /\ calls' = calls \ {c}
    /\ IF c.act = "save" THEN Saved(c.to, c.body) ELSE Removed(c.to)
    /\ Disturbs
    /\ UNCHANGED <<up, untold, pass, Counted>>

\* A call to a node that is down is refused; one to a node that is up may fail.
Fails(m) ==
    \/ m \notin up /\ faults' = faults
    \/ m \in up /\ faults < MaxFaults /\ faults' = faults + 1

Lose(c) ==
    /\ Fails(c.to)
    /\ calls' = calls \ {c}
    /\ UNCHANGED <<now, up, copy, changes, untold, pass, calm, edits, deletes, locals, passes>>

-----------------------------------------------------------------------------
(* A reconciliation.                                                       *)

StartPass(n) ==
    /\ n \in up /\ ~Running(n) /\ passes < MaxPasses
    /\ passes' = passes + 1
    /\ pass' = [pass EXCEPT ![n] = [Idle EXCEPT !.at = "asking", !.left = Node \ {n}]]
    /\ calm' = [calm EXCEPT ![n] = TRUE]
    /\ UNCHANGED <<now, up, copy, changes, untold, calls, edits, deletes, locals, faults>>

Ask(n, m) ==
    /\ pass[n].at = "asking" /\ m \in pass[n].left /\ m \in up
    /\ pass' = [pass EXCEPT ![n].left = @ \ {m}, ![n].reached = @ \cup {m},
                            ![n].seen[m] = ManifestOf(m)]
    /\ UNCHANGED <<now, up, copy, changes, untold, calls, calm, Counted>>

\* A member that does not answer is left out of the pass.
AskFails(n, m) ==
    /\ pass[n].at = "asking" /\ m \in pass[n].left
    /\ Fails(m)
    /\ pass' = [pass EXCEPT ![n].left = @ \ {m}]
    /\ UNCHANGED <<now, up, copy, changes, untold, calls, calm, edits, deletes, locals, passes>>

Holders(p) == {m \in p.reached : p.seen[m].copy # None}

\* Members that deleted it, and have nothing of that name since.
Buriers(p) == {m \in p.reached : p.seen[m].entry.deleted /\ p.seen[m].copy = None}

\* My deletion is at least as new as anything the holders last did.
DeletionIsNewer(mine, p) ==
    mine.entry.deleted /\ \A m \in Holders(p) : mine.entry.at >= p.seen[m].entry.at

\* The holders that saved it last; the code takes one of them by name.
NewestCopy(p) ==
    {m \in Holders(p) : \A k \in Holders(p) : p.seen[m].entry.at >= p.seen[k].entry.at}

\* A member deleted it after I last touched it.
BuriedSince(mine, p) == \E m \in Buriers(p) : p.seen[m].entry.at > mine.entry.at

\* _inward(): what this node missed, or should have dropped.
Inward(n) ==
    LET p == pass[n]
        mine == ManifestOf(n)
    IN  /\ p.at = "asking" /\ p.left = {}
        /\ pass' = [pass EXCEPT ![n] =
             IF mine.copy = None /\ Holders(p) # {} /\ ~DeletionIsNewer(mine, p)
             THEN [p EXCEPT !.at = "pulling", !.from = NewestCopy(p)]
             ELSE IF mine.copy # None /\ BuriedSince(mine, p)
             THEN [p EXCEPT !.at = "removing"]
             ELSE [p EXCEPT !.at = "settling"]]
        /\ UNCHANGED <<now, up, copy, changes, untold, calls, calm, Counted>>

Applied(n) == pass' = [pass EXCEPT ![n].at = "settling", ![n].from = {}]

\* Mutant: what is adopted is not noted in the ledger.
PullUnnoted(n, m) ==
    /\ pass[n].at = "pulling" /\ m \in pass[n].from
    /\ m \in up /\ copy[m] # None
    /\ copy' = [copy EXCEPT ![n] = copy[m]]
    /\ Applied(n)
    /\ DisturbsOthers(n)
    /\ UNCHANGED <<now, changes, up, untold, calls, Counted>>

\* Mutant: the manifest's own copy is adopted, without fetching it.
PullFromManifest(n, m) ==
    /\ pass[n].at = "pulling" /\ m \in pass[n].from
    /\ m \in up
    /\ Saved(n, pass[n].seen[m].copy)
    /\ Applied(n)
    /\ DisturbsOthers(n)
    /\ UNCHANGED <<up, untold, calls, Counted>>

\* The body is fetched now, whatever the manifest said.
Pull(n, m) ==
    /\ pass[n].at = "pulling" /\ m \in pass[n].from
    /\ m \in up /\ copy[m] # None
    /\ Saved(n, copy[m])
    /\ Applied(n)
    /\ DisturbsOthers(n)
    /\ UNCHANGED <<up, untold, calls, Counted>>

\* The member does not answer, or no longer has it.
PullFails(n, m) ==
    /\ pass[n].at = "pulling" /\ m \in pass[n].from
    /\ \/ Fails(m)
       \/ m \in up /\ copy[m] = None /\ faults' = faults
    /\ Applied(n)
    /\ Spoils(n)
    /\ UNCHANGED <<now, up, copy, changes, untold, calls, edits, deletes, locals, passes>>

Remove(n) ==
    /\ pass[n].at = "removing"
    /\ Removed(n)
    /\ Applied(n)
    /\ DisturbsOthers(n)
    /\ UNCHANGED <<up, untold, calls, Counted>>

\* Mutants: a push to every member that differs; a tie that nobody settles.
BehindIfDifferent(mine, p) ==
    {m \in p.reached : /\ mine.copy # None /\ p.seen[m].copy # mine.copy
                       /\ ~(p.seen[m].entry.deleted /\ p.seen[m].entry.at > mine.entry.at)}

OutlivedStrictly(mine, p) ==
    {m \in p.reached : /\ mine.copy = None /\ p.seen[m].copy # None
                       /\ mine.entry.deleted /\ mine.entry.at > p.seen[m].entry.at}

\* The members to push to, and those to delete it from.
Behind(mine, p) ==
    {m \in p.reached : /\ mine.copy # None /\ p.seen[m].copy = None
                       /\ ~(p.seen[m].entry.deleted /\ p.seen[m].entry.at > mine.entry.at)}

Outlived(mine, p) ==
    {m \in p.reached : /\ mine.copy = None /\ p.seen[m].copy # None
                       /\ mine.entry.deleted /\ mine.entry.at >= p.seen[m].entry.at}

\* _outward() is judged on what this node holds now.
Settle(n) ==
    LET mine == ManifestOf(n)
    IN  /\ pass[n].at = "settling"
        /\ pass' = [pass EXCEPT ![n].at = "telling",
                                ![n].push = Behind(mine, pass[n]),
                                ![n].drop = Outlived(mine, pass[n])]
        /\ UNCHANGED <<now, up, copy, changes, untold, calls, calm, Counted>>

Told(n, m) == pass' = [pass EXCEPT ![n].push = @ \ {m}, ![n].drop = @ \ {m}]

\* _push() sends what is here by then, and nothing if it has gone.
PushBody(n) == IF copy[n] = None THEN {} ELSE {copy[n]}

NothingToPush(n, m) ==
    /\ pass[n].at = "telling" /\ m \in pass[n].push /\ PushBody(n) = {}
    /\ Told(n, m)
    /\ UNCHANGED <<now, up, copy, changes, untold, calls, calm, Counted>>

Tell(n, m) ==
    /\ pass[n].at = "telling" /\ m \in up
    /\ \/ /\ m \in pass[n].push
          /\ \E body \in PushBody(n) : Saved(m, body)
       \/ m \in pass[n].drop /\ Removed(m)
    /\ Told(n, m)
    /\ DisturbsOthers(n)
    /\ UNCHANGED <<up, untold, calls, Counted>>

\* The call is refused or lost, or given up while it is still on its way.
TellFails(n, m) ==
    /\ pass[n].at = "telling"
    /\ \/ m \in pass[n].drop
       \/ m \in pass[n].push /\ PushBody(n) # {}
    /\ Fails(m)
    /\ \/ calls' = calls
       \/ /\ m \in up
          /\ calls' = calls \cup (IF m \in pass[n].drop THEN Drops(n, {m})
                                  ELSE UNION {Saves(n, {m}, b) : b \in PushBody(n)})
    /\ Told(n, m)
    /\ Spoils(n)
    /\ UNCHANGED <<now, up, copy, changes, untold, edits, deletes, locals, passes>>

EndPass(n) ==
    /\ pass[n].at = "telling" /\ pass[n].push = {} /\ pass[n].drop = {}
    /\ pass' = [pass EXCEPT ![n] = Over(pass[n].reached)]
    /\ UNCHANGED <<now, up, copy, changes, untold, calls, calm, Counted>>

-----------------------------------------------------------------------------

\* The first edit has been pushed, and has reached some of the members.
Init ==
    /\ now = 1 /\ edits = 1
    /\ \E reached \in SUBSET Node \ {{}} :
          /\ copy = [n \in Node |-> IF n \in reached THEN 1 ELSE None]
          /\ changes = [n \in Node |->
                           IF n \in reached THEN [at |-> 1, deleted |-> FALSE] ELSE NoEntry]
    /\ up = Node
    /\ untold = {} /\ calls = {}
    /\ pass = [n \in Node |-> Idle]
    /\ calm = [n \in Node |-> FALSE]
    /\ deletes = 0 /\ locals = 0 /\ passes = 0 /\ faults = 0

People(n) == Save(n) \/ Propagate(n) \/ Delete(n) \/ DeleteHere(n)

Process(n) == Off(n) \/ TornSave(n) \/ TornDelete(n) \/ On(n)

Pass(n) ==
    \/ StartPass(n) \/ Inward(n) \/ Remove(n) \/ Settle(n) \/ EndPass(n)
    \/ \E m \in Node : \/ Ask(n, m) \/ AskFails(n, m)
                       \/ Pull(n, m) \/ PullFails(n, m)
                       \/ NothingToPush(n, m) \/ Tell(n, m) \/ TellFails(n, m)

Next ==
    \/ \E n \in Node : People(n) \/ Process(n) \/ Pass(n)
    \/ \E c \in calls : Receive(c) \/ Lose(c)

Spec == Init /\ [][Next]_vars

-----------------------------------------------------------------------------

PassRecord ==
    [at : {"idle", "asking", "pulling", "removing", "settling", "telling", "over"},
     left : SUBSET Node, reached : SUBSET Node, seen : [Node -> Manifest],
     from : SUBSET Node, push : SUBSET Node, drop : SUBSET Node]

TypeOK ==
    /\ now \in 1..MaxTime /\ up \subseteq Node /\ untold \subseteq up
    /\ copy \in [Node -> Copy] /\ changes \in [Node -> Entry]
    /\ calls \subseteq Call
    /\ pass \in [Node -> PassRecord]
    /\ calm \in [Node -> BOOLEAN]
    /\ {edits, deletes, locals, passes, faults} \subseteq Nat
    /\ edits <= MaxEdits /\ deletes + locals <= MaxDeletes
    /\ passes <= MaxPasses /\ faults <= MaxFaults

Level(n, m) == copy[m] = None <=> copy[n] = None

(* A pass that nobody disturbed and whose calls all went through leaves the
   node and every member it reached level: all of them hold the definition or
   none does.  Who pulls, who drops and who is told is decided in three
   readings (_inward, the manifest read again, _outward) over stamps that come
   from earlier pushes, deletions and passes of several members. *)
PassLevels ==
    \A n \in Node : pass[n].at = "over" /\ calm[n] =>
        \A m \in pass[n].reached : Level(n, m)

(* Why PassLevels holds, pass by pass: what an undisturbed pass read is still
   so when it settles; by then its node's own word, on each member it is not
   level with, is one that _outward() acts on; and whoever it has yet to tell
   is exactly who is not level. *)
Tethered(n) ==
    LET p == pass[n]
    IN  /\ n \notin p.left \cup p.reached
        /\ p.from \cup p.push \cup p.drop \subseteq p.reached

StillSo(n) ==
    pass[n].at \in {"asking", "pulling", "removing", "settling"} =>
        \A m \in pass[n].reached : pass[n].seen[m] = ManifestOf(m)

Ready(n) ==
    /\ pass[n].at = "pulling" => copy[n] = None
    /\ pass[n].at = "removing" => copy[n] # None
    /\ pass[n].at = "settling" => \A m \in pass[n].reached :
          /\ copy[n] # None /\ copy[m] = None /\ changes[m].deleted
                => changes[m].at <= changes[n].at
          /\ copy[n] = None /\ copy[m] # None
                => changes[n].deleted /\ changes[m].at <= changes[n].at

Telling(n) ==
    pass[n].at = "telling" => \A m \in pass[n].reached :
        /\ m \in pass[n].push => copy[m] = None /\ copy[n] # None
        /\ m \in pass[n].drop => copy[m] # None /\ copy[n] = None
        /\ m \notin pass[n].push \cup pass[n].drop => Level(n, m)

SettleInv ==
    /\ TypeOK
    /\ \A n \in Node : changes[n].at <= now /\ Tethered(n)
    /\ \A n \in Node : calm[n] => StillSo(n) /\ Ready(n) /\ Telling(n)
    /\ PassLevels

(* A pass never settles a difference: where a member holds a copy, an
   undisturbed pass leaves it or removes it, and never puts another in its
   place (_conflicts: "Reported, never resolved"). *)
ConflictsAreLeft ==
    [][\A n \in Node : calm[n] /\ calm'[n] =>
           \A m \in Node : copy[m] # None /\ copy'[m] # None => copy'[m] = copy[m]]_vars

(* Once no member holds the definition and no push of it is on its way, only a
   person brings it back: no pass, however old what it read, makes a copy out
   of a manifest. *)
GoneIsGone ==
    [][/\ \A n \in Node : copy[n] = None
       /\ \A c \in calls : c.act = "drop"
       /\ edits' = edits
       => \A n \in Node : copy'[n] = None]_vars

(* Deleting with --local-only leaves the other nodes' copies alone: while
   nobody has deleted the definition for everyone, a pass that nobody disturbs
   takes no member's copy. *)
LocalOnlyIsLocal ==
    [][\A n \in Node : calm[n] /\ calm'[n] /\ deletes = 0 =>
           \A m \in Node : copy[m] # None => copy'[m] # None]_vars
=============================================================================
