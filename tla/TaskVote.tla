------------------------------ MODULE TaskVote ------------------------------
(***************************************************************************)
(* The vote on one scheduled occurrence of a task (src/waterpump/tasks.py, *)
(* TaskService; store.py, claim_task_grant and release_task_grant).  There *)
(* is no leader: an eligible node that reaches the occurrence asks every   *)
(* member for its grant, runs the task if a strict majority of the members *)
(* it knows grants it, and otherwise gives back what it collected.         *)
(*                                                                         *)
(* One occurrence is enough: grants are keyed by occurrence and two keys   *)
(* never meet.  Clocks are reduced to where each node's own clock stands   *)
(* against the occurrence.  Whose turn it is and the skew that a voter     *)
(* measures are left open: any eligible node may stand as soon as it is    *)
(* due by its clock, and any voter may veto.  A node's contenders come one *)
(* after another (see SlotComes).                                          *)
(***************************************************************************)
EXTENDS Integers, FiniteSets

CONSTANTS
    Node,          \* every node of the model
    Founders,      \* the members when the occurrence comes up; the others may join
    Eligible,      \* the nodes of the task's groups
    Rank,          \* Rank[n]: the place of n in the order rank() gives this occurrence
    MaxTries,      \* bound: how often one node may stand for the occurrence
    MaxRestarts,   \* bound: restarts of `serve`, over all nodes
    MaxSpread,     \* bound: how far apart two members' clocks may be, see Clock
    Slow,          \* the members that a call may still reach after its timeout
    MaxStray,      \* bound: how many calls that timed out may still be on their way
    Jumpy,         \* the nodes whose clock may be set back across the slot
    None           \* no candidate

ASSUME FoundersAssumption == Founders \subseteq Node /\ Founders # {} /\ IsFiniteSet(Node)
ASSUME EligibleAssumption == Eligible \subseteq Node
ASSUME RankAssumption ==
    /\ Rank \in [Node -> Nat]
    /\ \A m, n \in Node : Rank[m] = Rank[n] => m = n
ASSUME BoundsAssumption ==
    MaxTries \in Nat /\ MaxRestarts \in Nat /\ MaxSpread \in Nat /\ MaxStray \in Nat
    /\ Jumpy \subseteq Node /\ Slow \subseteq Node
ASSUME NoneAssumption == None \notin Node

VARIABLES
    clock,         \* clock[n]: n's own clock against the slot, see Clock
    upcoming,      \* upcoming[n]: the slot in n's scheduler round, see Upcoming
    members,       \* members[n]: the members n knows, itself included
    stage,         \* stage[n]: where n's contender thread is, see Stage
    tries,         \* tries[n]: how often n has stood for the occurrence
    order,         \* order[n]: the eligible nodes n knew as it began to contend
    voters,        \* voters[n]: the members n asks, read when it starts asking
    answer,        \* answer[n][v]: what came of n's call to v, see Answer
    grants,        \* grants[v]: on v's disk, the candidate it granted the occurrence
    net,           \* the calls on their way to a member
    ran,           \* history: the runs started, each with the members that granted it
    verdict,       \* verdict[n]: what n put on record when its candidacy ended
    restarts       \* restarts so far, bounded by MaxRestarts

vars == <<clock, upcoming, members, stage, tries, order, voters, answer, grants,
          net, ran, verdict, restarts>>

\* Before the slot (0), in the window every node's turn falls in (late_limit()),
\* past that window, and past the expiry of the grant (GRANT_KEEP later).
Clock == 0..3
early == 0
due == 1
late == 2
expired == 3

\* Next in the scheduler's table, or behind it.
Upcoming == {"armed", "passed"}

Stage == {"idle", "waiting", "asking", "done"}

\* Not asked, no answer yet, no answer within the timeout, granted to the
\* candidate, granted to another node, vetoed.
Answer == {"unasked", "pending", "failed", "granted", "held", "vetoed"}

Verdict == {"nothing", "declined", "failed", "held", "vetoed", "missed", "next"}

Message == [type : {"ask", "release"}, from : Node, to : Node, try : 1..MaxTries]

Run == [node : Node, try : 1..MaxTries, by : SUBSET Node, of : SUBSET Node]

Unasked == [v \in Node |-> "unasked"]

\* A joiner holds the cluster's tasks once it is enrolled (join() reconciles).
Joined(n) == n \in Founders \/ members[n] # {n}

\* Mutant of Majority: half is enough.
AtLeastHalf(Q, V) == Cardinality(Q) >= Cardinality(V) \div 2

\* More than half of the members asked.
Majority(Q, V) == Cardinality(Q) > Cardinality(V) \div 2

\* The contender thread ends, and what it had gathered goes with it.
Ends(n) ==
    /\ stage' = [stage EXCEPT ![n] = "done"]
    /\ order' = [order EXCEPT ![n] = {}]
    /\ voters' = [voters EXCEPT ![n] = {}]
    /\ answer' = [answer EXCEPT ![n] = Unasked]

With(n, a) == {v \in voters[n] : answer[n][v] = a}

\* The last in n's order, which is the one to report a miss.
LastToStand(n) == \A m \in order[n] : Rank[m] <= Rank[n]

Calls(kind, n, V) == [type : {kind}, from : {n}, to : V, try : {tries[n]}]
-----------------------------------------------------------------------------
(* Clocks and restarts. *)

ClockPasses(n) ==
    /\ clock[n] < expired
    /\ \A m \in Node \ {n} : clock[n] + 1 - clock[m] <= MaxSpread
    /\ clock' = [clock EXCEPT ![n] = @ + 1]
    /\ UNCHANGED <<upcoming, members, stage, tries, order, voters, answer, grants,
                   net, ran, verdict, restarts>>

\* n's clock is set back across the slot.
ClockStepsBack(n) ==
    /\ n \in Jumpy
    /\ clock[n] \in {due, late}
    /\ \A m \in Node \ {n} : clock[m] <= MaxSpread
    /\ clock' = [clock EXCEPT ![n] = early]
    /\ UNCHANGED <<upcoming, members, stage, tries, order, voters, answer, grants,
                   net, ran, verdict, restarts>>

\* A round of the scheduler that has no entry for the task makes one: the next
\* slot ahead of the clock, "never catching up on what fell before".  The entry
\* of a node that is not eligible leads to nothing (_contend returns at once).
FreshEntry(n) == IF clock[n] = early /\ n \in Eligible THEN "armed" ELSE "passed"

\* `serve` stops, and starts again at any later time: the contender thread, its
\* open calls and the scheduler's table are gone ...
ProcessStarts(n) ==
    /\ Joined(n)
    /\ restarts < MaxRestarts
    /\ restarts' = restarts + 1
    /\ upcoming' = [upcoming EXCEPT ![n] = FreshEntry(n)]
    /\ stage' = [stage EXCEPT ![n] = "idle"]
    /\ order' = [order EXCEPT ![n] = {}]
    /\ voters' = [voters EXCEPT ![n] = {}]
    /\ answer' = [answer EXCEPT ![n] = Unasked]
    /\ net' = {m \in net : m.to # n}
    /\ UNCHANGED <<clock, members, tries, ran, verdict>>

\* Mutant of Restart: grants are kept in memory only.
RestartForgetting(n) == ProcessStarts(n) /\ grants' = [grants EXCEPT ![n] = None]

\* ... but the grants file is not.
Restart(n) == ProcessStarts(n) /\ UNCHANGED grants

\* The task's schedule was edited, or paused and resumed, by the time of n's
\* next round: its entry starts over.
ScheduleEdited(n) ==
    /\ Joined(n)
    /\ upcoming[n] # FreshEntry(n)
    /\ upcoming' = [upcoming EXCEPT ![n] = FreshEntry(n)]
    /\ UNCHANGED <<clock, members, stage, tries, order, voters, answer, grants,
                   net, ran, verdict, restarts>>
-----------------------------------------------------------------------------
(* Membership. *)

\* enroll() on c, join() on j: c records the joiner and hands over its list.
Enroll(c, j) ==
    /\ Joined(c) /\ ~Joined(j)
    /\ members' = [members EXCEPT ![c] = @ \cup {j}, ![j] = members[c] \cup {j}]
    /\ upcoming' = [upcoming EXCEPT ![j] = FreshEntry(j)]
    /\ UNCHANGED <<clock, stage, tries, order, voters, answer, grants,
                   net, ran, verdict, restarts>>

\* One call of sync_members(): n announces itself to m and takes m's list.
Announce(n, m) ==
    /\ n # m /\ Joined(n) /\ m \in members[n]
    /\ members' = [members EXCEPT ![m] = @ \cup {n},
                                  ![n] = @ \cup members[m] \cup {n}]
    /\ members' # members
    /\ UNCHANGED <<clock, upcoming, stage, tries, order, voters, answer, grants,
                   net, ran, verdict, restarts>>
-----------------------------------------------------------------------------
(* The scheduler and the contender. *)

\* A round of the scheduler on n takes out a slot that has come, and a node that
\* is not too late starts a contender.  Bounds: MaxTries of them, one at a time.
\* (_loop starts a second while the first still waits or asks, if the clock was
\* set back across the slot and the entry made anew meanwhile.)
SlotComes(n) ==
    /\ upcoming[n] = "armed" /\ clock[n] # early
    /\ upcoming' = [upcoming EXCEPT ![n] = "passed"]
    /\ \/ /\ clock[n] = due
          /\ stage[n] \in {"idle", "done"} /\ tries[n] < MaxTries
          /\ stage' = [stage EXCEPT ![n] = "waiting"]
          /\ tries' = [tries EXCEPT ![n] = @ + 1]
          /\ order' = [order EXCEPT ![n] = Eligible \cap members[n]]
       \/ /\ clock[n] \in {late, expired}
          /\ UNCHANGED <<stage, tries, order>>
    /\ UNCHANGED <<clock, members, voters, answer, grants, net, ran, verdict, restarts>>

\* n's turn has come, and it declines, or finds the task running (overlap skip).
Decline(n) ==
    /\ stage[n] = "waiting"
    /\ Ends(n)
    /\ verdict' = [verdict EXCEPT ![n] = "declined"]
    /\ UNCHANGED <<clock, upcoming, members, tries, grants, net, ran, restarts>>

\* n stands: it calls every member it knows, itself included.
Stand(n) ==
    /\ stage[n] = "waiting"
    /\ stage' = [stage EXCEPT ![n] = "asking"]
    /\ voters' = [voters EXCEPT ![n] = members[n]]
    /\ answer' = [answer EXCEPT ![n] = [v \in Node |->
                      IF v \in members[n] THEN "pending" ELSE "unasked"]]
    /\ net' = net \cup Calls("ask", n, members[n])
    /\ UNCHANGED <<clock, upcoming, members, tries, order, grants, ran, verdict, restarts>>

\* What becomes of v's answer a to the call m: it reaches its caller, or is lost
\* on the way, or the caller has stopped waiting for it.  A call to oneself is a
\* function call, whose answer is not lost.
Reply(m, a) ==
    LET awaited == /\ stage[m.from] = "asking" /\ tries[m.from] = m.try
                   /\ answer[m.from][m.to] = "pending"
    IN  \/ /\ awaited
           /\ answer' = [answer EXCEPT ![m.from][m.to] = a]
        \/ /\ awaited /\ m.from # m.to
           /\ answer' = [answer EXCEPT ![m.from][m.to] = "failed"]
        \/ ~awaited /\ UNCHANGED answer

\* Mutant of Claim: the last to ask gets the grant.
ClaimByLast(v, candidate) == candidate

\* claim_task_grant(): who holds v's grant once candidate has asked for it.
Claim(v, candidate) == IF grants[v] = None THEN candidate ELSE grants[v]

\* Mutant of TooLate: a member votes however late it is asked.
NeverTooLate(v) == FALSE

\* v vetoes any candidate by then: every node's turn has ended.
TooLate(v) == clock[v] \in {late, expired}

\* grant() on v: a veto, or the grant to whoever asks first.
HandleAsk(v, m) ==
    /\ m \in net /\ m.type = "ask" /\ m.to = v
    /\ net' = net \ {m}
    /\ \/ /\ Reply(m, "vetoed")
          /\ UNCHANGED grants
       \/ /\ ~TooLate(v)
          /\ grants' = [grants EXCEPT ![v] = Claim(v, m.from)]
          /\ Reply(m, IF Claim(v, m.from) = m.from THEN "granted" ELSE "held")
    /\ UNCHANGED <<clock, upcoming, members, stage, tries, order, voters, ran, verdict,
                   restarts>>

\* Mutant of GrantOver: a grant ends with the time it can be asked for in, as if
\* GRANT_KEEP were 0.
GrantOverAtOnce(v) == clock[v] \in {late, expired}

GrantOver(v) == clock[v] = expired

\* A claim for some other occurrence rewrites v's file without expired grants.
DropExpired(v) ==
    /\ GrantOver(v) /\ grants[v] # None
    /\ grants' = [grants EXCEPT ![v] = None]
    /\ UNCHANGED <<clock, upcoming, members, stage, tries, order, voters, answer,
                   net, ran, verdict, restarts>>

\* The calls that nobody waits for any more.
Stray == {m \in net : m.type = "ask" /\ answer[m.from][m.to] # "pending"}

\* n's call to v times out, or v cannot be reached.  The call may still arrive,
\* or it never does.
CallFails(n, v) ==
    /\ stage[n] = "asking" /\ v # n
    /\ answer[n][v] = "pending"
    /\ answer' = [answer EXCEPT ![n][v] = "failed"]
    /\ \/ v \in Slow /\ Cardinality(Stray) < MaxStray /\ UNCHANGED net
       \/ net' = net \ Calls("ask", n, {v})
    /\ UNCHANGED <<clock, upcoming, members, stage, tries, order, voters, grants,
                   ran, verdict, restarts>>

Answered(n) == stage[n] = "asking" /\ With(n, "pending") = {}

\* Mutant of Win: the winner, too, gives back what it was granted.
WinThenRelease(n) ==
    /\ Answered(n) /\ Majority(With(n, "granted"), voters[n])
    /\ Ends(n)
    /\ ran' = ran \cup {[node |-> n, try |-> tries[n],
                         by |-> With(n, "granted"), of |-> voters[n]]}
    /\ net' = net \cup Calls("release", n, With(n, "granted"))
    /\ UNCHANGED <<clock, upcoming, members, tries, grants, verdict, restarts>>

\* A strict majority granted: n starts the run, or fails to start it at all
\* (a secret is not set, a module is gone) and records that.
Win(n) ==
    /\ Answered(n) /\ Majority(With(n, "granted"), voters[n])
    /\ Ends(n)
    /\ \/ /\ ran' = ran \cup {[node |-> n, try |-> tries[n],
                               by |-> With(n, "granted"), of |-> voters[n]]}
          /\ UNCHANGED verdict
       \/ /\ verdict' = [verdict EXCEPT ![n] = "failed"]
          /\ UNCHANGED ran
    /\ UNCHANGED <<clock, upcoming, members, tries, grants, net, restarts>>

\* Mutant of Lose: only those that answered are asked for their grants back.
LoseQuietly(n) ==
    /\ Answered(n) /\ ~Majority(With(n, "granted"), voters[n])
    /\ Ends(n)
    /\ net' = net \cup Calls("release", n, With(n, "granted"))
    /\ verdict' = [verdict EXCEPT ![n] = "next"]
    /\ UNCHANGED <<clock, upcoming, members, tries, grants, ran, restarts>>

\* Short of a majority: n asks those that granted it, and those that did not
\* answer, for its grant to be dropped, and puts the outcome on record.
Lose(n) ==
    /\ Answered(n) /\ ~Majority(With(n, "granted"), voters[n])
    /\ Ends(n)
    /\ net' = net \cup Calls("release", n, With(n, "granted") \cup With(n, "failed"))
    /\ verdict' = [verdict EXCEPT ![n] =
                      IF With(n, "held") # {} THEN "held"
                      ELSE IF Majority(With(n, "vetoed"), voters[n]) THEN "vetoed"
                      ELSE IF LastToStand(n) THEN "missed" ELSE "next"]
    /\ UNCHANGED <<clock, upcoming, members, tries, grants, ran, restarts>>

\* release_task_grant(): only the holder's own release drops a grant.
Released(v, candidate) == IF grants[v] = candidate THEN None ELSE grants[v]

HandleRelease(v, m) ==
    /\ m \in net /\ m.type = "release" /\ m.to = v
    /\ net' = net \ {m}
    /\ grants' = [grants EXCEPT ![v] = Released(v, m.from)]
    /\ UNCHANGED <<clock, upcoming, members, stage, tries, order, voters, answer,
                   ran, verdict, restarts>>
-----------------------------------------------------------------------------
Init ==
    /\ clock = [n \in Node |-> early]
    /\ upcoming = [n \in Node |-> IF n \in Founders \cap Eligible THEN "armed" ELSE "passed"]
    /\ members = [n \in Node |-> IF n \in Founders THEN Founders ELSE {n}]
    /\ stage = [n \in Node |-> "idle"]
    /\ tries = [n \in Node |-> 0]
    /\ order = [n \in Node |-> {}]
    /\ voters = [n \in Node |-> {}]
    /\ answer = [n \in Node |-> Unasked]
    /\ grants = [v \in Node |-> None]
    /\ net = {}
    /\ ran = {}
    /\ verdict = [n \in Node |-> "nothing"]
    /\ restarts = 0

Next ==
    \/ \E n \in Node : ClockPasses(n)
    \/ \E n \in Node : ClockStepsBack(n)
    \/ \E n \in Node : Restart(n)
    \/ \E n \in Node : ScheduleEdited(n)
    \/ \E c, j \in Node : Enroll(c, j)
    \/ \E n, m \in Node : Announce(n, m)
    \/ \E n \in Node : SlotComes(n)
    \/ \E n \in Node : Decline(n)
    \/ \E n \in Node : Stand(n)
    \/ \E v \in Node, m \in net : HandleAsk(v, m)
    \/ \E v \in Node : DropExpired(v)
    \/ \E n, v \in Node : CallFails(n, v)
    \/ \E n \in Node : Win(n)
    \/ \E n \in Node : Lose(n)
    \/ \E v \in Node, m \in net : HandleRelease(v, m)

Spec == Init /\ [][Next]_vars
-----------------------------------------------------------------------------
(* What the vote is for. *)

\* Every variable has its type.
TypeOK ==
    /\ clock \in [Node -> Clock]
    /\ upcoming \in [Node -> Upcoming]
    /\ members \in [Node -> SUBSET Node]
    /\ stage \in [Node -> Stage]
    /\ tries \in [Node -> 0..MaxTries]
    /\ order \in [Node -> SUBSET Node]
    /\ voters \in [Node -> SUBSET Node]
    /\ answer \in [Node -> [Node -> Answer]]
    /\ grants \in [Node -> Node \cup {None}]
    /\ net \subseteq Message
    /\ ran \subseteq Run
    /\ verdict \in [Node -> Verdict]
    /\ restarts \in 0..MaxRestarts

\* One occurrence is started at most once, by whichever node: of candidates that
\* stand once each, however the calls, the restarts and a joiner cross them.
AtMostOnce == \A r, s \in ran : r = s

\* "Clocks decide when a node tries, never whether two runs happen" (tasks.py,
\* the module's header), and "an occurrence never runs twice" (docs/tasks.md).
\* The code does not keep to it: a clock set back across the slot before the
\* node's entry is made anew has it stand again, and the grants its first run
\* was started with count for the second.
NeverTwice == AtMostOnce

\* What makes it so: the members that granted the occurrence to the node that
\* ran it still hold it for that node when anybody else asks.  No release, late
\* request or restart takes one back; only its expiry does, and by then the
\* member vetoes the occurrence as too late.
WinnerKeepsItsGrants ==
    \A r \in ran : \A v \in r.by :
        grants[v] = r.node \/ (clock[v] = expired /\ grants[v] = None)

\* The vote implements the promise made about an occurrence.
Promise == INSTANCE Occurrence WITH
    Candidacy <- Node \X (1..MaxTries),
    started <- {<<r.node, r.try>> : r \in ran}

AtMostOneCandidacyRuns == Promise!Spec

\* "A candidate short of a majority gives its grants back, so the next node can
\* still gather one" (docs/tasks.md), also "one whose yes was lost in a timeout"
\* (tasks.py, _negotiate): once its releases have arrived, no member holds a
\* grant for a candidate that lost.  A member of Slow may, whom the call can
\* reach after its release, and so may one that restarts and loses the release
\* (MaxRestarts = 0 where this is checked and proved): until the grant expires.
LosersHoldNothing ==
    net = {} => \A n \in Node, v \in Node \ Slow :
        verdict[n] \in {"held", "vetoed", "missed", "next"} => grants[v] # n
-----------------------------------------------------------------------------
(* Why it holds: the inductive invariant, proved in TaskVoteProof. *)

\* The members n counts on: those that granted it while it asks, and those its
\* run was started with.
Backing(n) ==
    {v \in voters[n] : stage[n] = "asking" /\ answer[n][v] = "granted"}
        \cup UNION {r.by : r \in {q \in ran : q.node = n}}

\* A node stands once: its slot leaves the table when it stands, and cannot
\* come back because its clock is past the slot.
StandsOnce ==
    \A n \in Node :
        /\ tries[n] > 0 => clock[n] # early /\ upcoming[n] # "armed"
        /\ tries[n] <= 1
        /\ tries[n] = 0 => stage[n] = "idle" /\ \A m \in net : m.from # n

\* A member backs one node, and holds the grant for it until it expires.
BackingIsHeld ==
    \A n \in Node : \A v \in Backing(n) :
        grants[v] = n \/ (clock[v] = expired /\ grants[v] = None)

BackingIsExclusive ==
    \A n, m \in Node : n # m => Backing(n) \cap Backing(m) = {}

\* A node that ran is through with the occurrence; one that released has lost.
RunsAreFinal ==
    /\ \A r \in ran : tries[r.node] = 1 /\ r.try = 1 /\ stage[r.node] \in {"idle", "done"}
    /\ \A m \in net : m.type = "release" =>
            /\ stage[m.from] \in {"idle", "done"}
            /\ \A r \in ran : r.node # m.from

\* Whoever asks, asks all the founders, because whoever learns of a member
\* learns of every founder; a run was granted by a majority of those asked.
VotersCoverFounders ==
    /\ \A n \in Node :
            /\ n \in members[n]
            /\ Joined(n) => Founders \subseteq members[n]
            /\ \A m \in members[n] : m # n => Joined(m)
            /\ upcoming[n] = "armed" \/ stage[n] = "waiting" => Joined(n)
            /\ stage[n] = "asking" => Founders \subseteq voters[n]
    /\ \A r \in ran : Founders \subseteq r.of /\ r.by \subseteq r.of /\ Majority(r.by, r.of)

\* The inductive invariant: AtMostOnce and what it takes to keep it, step by
\* step.
VoteInv ==
    /\ TypeOK
    /\ StandsOnce
    /\ BackingIsHeld
    /\ BackingIsExclusive
    /\ RunsAreFinal
    /\ VotersCoverFounders
    /\ AtMostOnce
=============================================================================
