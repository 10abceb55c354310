----------------------------- MODULE EventRing -----------------------------
(***************************************************************************)
(* The live tail: each `serve` keeps its latest events in a ring, and a       *)
(* reader follows all of them through one member with a cursor per node        *)
(* (src/waterpump/eventlog.py, and logs() of cluster.py).                      *)
(*                                                                             *)
(* A poll asks every node side by side.  A node with nothing that matches      *)
(* holds its answer until something does, or the time is up; the poll returns  *)
(* soon after the first has events, and leaves those still waiting to the next. *)
(***************************************************************************)
EXTENDS Naturals, FiniteSets, FiniteSetsExt

CONSTANTS
    Nodes,     \* members
    Ring,      \* BUFFER_SIZE
    Page,      \* the limit of one answer
    MaxEvents, \* bound: events of one process
    MaxBoots,  \* bound: restarts of a node's serve
    MaxPolls   \* bound: polls

\* The ring holds events, and an answer too.
RingAssumption == Ring \in Nat \ {0} /\ Page \in Nat \ {0}

VARIABLES
    boot,     \* boot[n]: which process of n this is
    count,    \* count[n]: events it has had
    hits,     \* hits[n]: those of them that match the reader's filters
    cursor,   \* cursor[n]: what the reader asks n from, or NoCursor
    read,     \* read[n]: what the poll's request is doing at n
    got,      \* got[n]: events of this process of n that the reader has been given
    since,    \* since[n]: the reader has been told that what is up to here may be missing
    polls

ringVars == <<boot, count, hits, cursor, read, got, since, polls>>

NoCursor == [boot |-> 0, seq |-> 0]
Idle == [at |-> "idle", seq |-> 0, told |-> 0, events |-> {}, cursor |-> NoCursor]

Init ==
    /\ boot = [n \in Nodes |-> 1] /\ count = [n \in Nodes |-> 0] /\ hits = [n \in Nodes |-> {}]
    /\ cursor = [n \in Nodes |-> NoCursor]
    /\ read = [n \in Nodes |-> Idle] /\ got = [n \in Nodes |-> {}]
    /\ since = [n \in Nodes |-> 0] /\ polls = 0

\* The events that are still in the ring.
Kept(n) == {k \in 1 .. count[n] : k + Ring > count[n]}

-----------------------------------------------------------------------------
(* EventBuffer.add().  A reader that was woken takes its turn at the lock before a *)
(* whole ring of further events (thousands) has been added.                        *)
Add(n, hit) ==
    /\ count[n] < MaxEvents
    /\ read[n].at = "waiting" => count[n] - read[n].seq < Ring
    /\ count' = [count EXCEPT ![n] = @ + 1]
    /\ hits' = [hits EXCEPT ![n] = IF hit THEN @ \cup {count[n] + 1} ELSE @]
    /\ UNCHANGED <<boot, cursor, read, got, since, polls>>

\* A new process has a ring of its own; a request at the old one fails.
Restart(n) ==
    /\ boot[n] <= MaxBoots
    /\ boot' = [boot EXCEPT ![n] = @ + 1] /\ count' = [count EXCEPT ![n] = 0]
    /\ hits' = [hits EXCEPT ![n] = {}] /\ got' = [got EXCEPT ![n] = {}]
    /\ since' = [since EXCEPT ![n] = 0]
    /\ read' = [read EXCEPT ![n] = IF @.at \in {"asked", "waiting"} THEN [Idle EXCEPT !.at = "failed"] ELSE @]
    /\ UNCHANGED <<cursor, polls>>

-----------------------------------------------------------------------------
(* read(): a page of a node's ring. *)

\* Mutant: an answer that is full is as far on as any other.
FullyOn(n, matched) == count[n]

\* How far an answer gets: to its last event when there may be more.
Through(n, matched) == IF Cardinality(matched) >= Page THEN Max(matched) ELSE count[n]

Firsts(s) == {k \in s : Cardinality({l \in s : l <= k}) <= Page}
Lasts(s) == {k \in s : Cardinality({l \in s : l >= k}) <= Page}

Answer(n, events, seq, told) ==
    [at |-> "answered", seq |-> 0, told |-> told, events |-> events,
     cursor |-> [boot |-> boot[n], seq |-> seq]]

(* Without a cursor: the latest.  With one of another process: from its beginning. *)
ReadBegins(n) ==
    LET new == cursor[n] = NoCursor
        seq == IF cursor[n].boot = boot[n] THEN cursor[n].seq ELSE 0
        matched == Firsts({k \in Kept(n) \cap hits[n] : k > seq})
        \* truncated, and only of a cursor of this process; a reset says so otherwise
        told == IF Kept(n) = {} THEN 0 ELSE IF seq + 1 < Min(Kept(n)) THEN Min(Kept(n)) - 1 ELSE 0
    IN
    /\ read[n].at = "asked"
    /\ read' = [read EXCEPT ![n] =
         IF new THEN Answer(n, Lasts(Kept(n) \cap hits[n]), count[n], count[n])
         ELSE IF matched # {} THEN Answer(n, matched, Through(n, matched), told)
         ELSE [Idle EXCEPT !.at = "waiting", !.seq = count[n], !.told = told]]
    /\ UNCHANGED <<boot, count, hits, cursor, got, since, polls>>

\* Woken, or out of time.
ReadEnds(n) ==
    LET matched == Firsts({k \in Kept(n) \cap hits[n] : k > read[n].seq}) IN
    /\ read[n].at = "waiting"
    /\ read' = [read EXCEPT ![n] =
         Answer(n, matched, IF matched = {} THEN count[n] ELSE Through(n, matched), @.told)]
    /\ UNCHANGED <<boot, count, hits, cursor, got, since, polls>>

\* Woken by events that do not match: they are not looked at again.
ReadGoesOn(n) ==
    /\ read[n].at = "waiting" /\ read[n].seq < count[n]
    /\ {k \in Kept(n) \cap hits[n] : k > read[n].seq} = {}
    /\ read' = [read EXCEPT ![n].seq = count[n]]
    /\ UNCHANGED <<boot, count, hits, cursor, got, since, polls>>

ReadFails(n) ==
    /\ read[n].at = "asked"
    /\ read' = [read EXCEPT ![n] = [Idle EXCEPT !.at = "failed"]]
    /\ UNCHANGED <<boot, count, hits, cursor, got, since, polls>>

-----------------------------------------------------------------------------
(* logs(): a poll of the whole cluster. *)

Poll ==
    /\ polls < MaxPolls /\ polls' = polls + 1 /\ \A n \in Nodes : read[n].at = "idle"
    /\ read' = [n \in Nodes |-> [Idle EXCEPT !.at = "asked"]]
    /\ UNCHANGED <<boot, count, hits, cursor, got, since>>

\* Mutant: a node that is still waiting is passed over.
PassedOver(n) ==
    IF read[n].at = "answered" THEN read[n].cursor ELSE [boot |-> boot[n], seq |-> count[n]]

\* A node that has not answered keeps its place.
NextCursor(n) == IF read[n].at = "answered" THEN read[n].cursor ELSE cursor[n]

(* The poll returns with what there is, after the first events or after its time.  *)
(* Of the first, only the latest of all nodes are shown: all of it is backlog.      *)
Returns ==
    /\ \E n \in Nodes : read[n].at # "idle"
    /\ cursor' = [n \in Nodes |-> NextCursor(n)]
    /\ LET current == {n \in Nodes : read[n].at = "answered" /\ read[n].cursor.boot = boot[n]} IN
         /\ got' = [n \in Nodes |-> IF n \in current THEN got[n] \cup read[n].events ELSE got[n]]
         /\ since' = [n \in Nodes |-> IF n \in current /\ read[n].told > since[n]
                                      THEN read[n].told ELSE since[n]]
    /\ read' = [n \in Nodes |-> Idle]
    /\ UNCHANGED <<boot, count, hits, polls>>

\* Its answer does not reach the reader, who asks again from the same place.
AnswerLost ==
    /\ \E n \in Nodes : read[n].at # "idle"
    /\ read' = [n \in Nodes |-> Idle]
    /\ UNCHANGED <<boot, count, hits, cursor, got, since, polls>>

Next ==
    \/ Poll \/ Returns \/ AnswerLost
    \/ \E n \in Nodes :
          \/ \E hit \in BOOLEAN : Add(n, hit)
          \/ Restart(n) \/ ReadBegins(n) \/ ReadEnds(n) \/ ReadGoesOn(n) \/ ReadFails(n)

Spec == Init /\ [][Next]_ringVars

-----------------------------------------------------------------------------
(* A reader that follows its cursors through answers that come late, are cut short *)
(* or get lost misses no event of a process and is given none twice: every event    *)
(* that matches and is behind its cursor was given, or lies where it was told that  *)
(* some may be missing ("the next poll asks them again from the same place and       *)
(* nothing is lost", cluster.py).                                                    *)
NothingIsSkipped ==
    \A n \in Nodes : cursor[n].boot = boot[n] =>
        \A k \in hits[n] : since[n] < k => (k \in got[n] <=> k <= cursor[n].seq)
-----------------------------------------------------------------------------
(* Why it holds: the inductive invariant, proved in ClusterPartsProof.          *)

Cursors == [boot : Nat, seq : Nat]

\* Every variable that a reader's place depends on keeps its type.
TypeOK ==
    /\ boot \in [Nodes -> Nat \ {0}]
    /\ count \in [Nodes -> Nat]
    /\ hits \in [Nodes -> SUBSET Nat]
    /\ cursor \in [Nodes -> Cursors]
    /\ read \in [Nodes -> [at : {"idle", "asked", "waiting", "answered", "failed"}, seq : Nat,
                           told : Nat, events : SUBSET Nat, cursor : Cursors]]
    /\ got \in [Nodes -> SUBSET Nat]
    /\ since \in [Nodes -> Nat]

\* Where the reader stands in n's ring: at its beginning when it knows another process.
From(n) == IF cursor[n].boot = boot[n] THEN cursor[n].seq ELSE 0

\* Nobody has seen what is yet to come.
NothingEarly(n) ==
    /\ hits[n] \in SUBSET (1 .. count[n]) /\ got[n] \in SUBSET (1 .. count[n])
    /\ cursor[n].boot <= boot[n] /\ From(n) <= count[n]
    /\ cursor[n].boot # boot[n] => got[n] = {}

\* A request that waits has nothing to give that it did not tell of.
WaitsForMore(n) ==
    read[n].at = "waiting" =>
        /\ From(n) <= read[n].seq /\ read[n].seq <= count[n] /\ count[n] <= read[n].seq + Ring
        /\ \A k \in hits[n] : k <= From(n) \/ k <= read[n].told \/ read[n].seq < k

\* An answer that is under way has everything between the reader's place and its own.
AnswersInFull(n) ==
    read[n].at = "answered" =>
        /\ read[n].cursor.boot # boot[n] => cursor[n].boot # boot[n]
        /\ read[n].cursor.boot <= boot[n]
        /\ read[n].cursor.boot = boot[n] =>
              /\ From(n) <= read[n].cursor.seq /\ read[n].cursor.seq <= count[n]
              /\ read[n].events \in SUBSET (1 .. read[n].cursor.seq)
              /\ \A k \in hits[n] : From(n) < k /\ read[n].told < k =>
                    (k \in read[n].events <=> k <= read[n].cursor.seq)

\* NothingIsSkipped, of one node.
HasAll(n) ==
    cursor[n].boot = boot[n] =>
        \A k \in hits[n] : since[n] < k => (k \in got[n] <=> k <= cursor[n].seq)

Follows(n) == NothingEarly(n) /\ WaitsForMore(n) /\ AnswersInFull(n) /\ HasAll(n)

RingInv == TypeOK /\ \A n \in Nodes : Follows(n)

\* What a step leaves alone at a node stays as it is there.
Still(n) ==
    /\ boot'[n] = boot[n] /\ count'[n] = count[n] /\ hits'[n] = hits[n] /\ cursor'[n] = cursor[n]
    /\ read'[n] = read[n] /\ got'[n] = got[n] /\ since'[n] = since[n]

(* A step that only moves the request at n on. *)
OnlyRead(n, r) ==
    /\ read' = [read EXCEPT ![n] = r]
    /\ UNCHANGED <<boot, count, hits, cursor, got, since, polls>>

Requests == [at : {"idle", "asked", "waiting", "answered", "failed"}, seq : Nat, told : Nat,
             events : SUBSET Nat, cursor : Cursors]

\* A set of numbers that ends.
Bounded(S) == S \in SUBSET Nat /\ \E b \in Nat : \A k \in S : k <= b
=============================================================================
