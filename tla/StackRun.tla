------------------------------ MODULE StackRun ------------------------------
(***************************************************************************)
(* One run of a stack's swarms (src/waterpump/stacks.py, launch_swarms     *)
(* and _execute): its stages one after another, the steps of a stage in    *)
(* parallel, launches that are followed in the background, a Stop at any   *)
(* step, and each swarm's own teardown, which has to find every instance   *)
(* that the run's launches made, or are still making.                      *)
(*                                                                         *)
(* A launch is a template run of this node (service.py, track_run) with a  *)
(* share on each of its nodes; a peer's share is followed by polling it.   *)
(* One instance per share is enough to tell a share made from one still    *)
(* being made.                                                             *)
(***************************************************************************)
EXTENDS Integers, FiniteSets, Sequences

CONSTANTS
    Node,          \* the members
    Home,          \* the one the run is driven from
    Plan,          \* Plan[i]: the steps of stage i, teardowns included
    SwarmOf,       \* SwarmOf[s]: the swarm of step s
    Kind,          \* Kind[s]: what step s does, see Kinds
    Where,         \* Where[s]: the nodes launch step s puts an instance on
    MaxSilences,   \* bound: how often a member does not answer a listing
    MaxFailures,   \* bound: how often a deletion fails
    MaxForgotten,  \* bound: how many finished template runs are dismissed
    MaxLost        \* bound: how often polling a peer's share fails

Stages == 1..Len(Plan)

Step == UNION {Plan[i] : i \in Stages}

\* A launch that waits for its bootstrap; one that does not; a script or a
\* sleep; a health gate; a swarm's own teardown.
Kinds == {"launch", "follow", "script", "healthy", "teardown"}

Launches == {s \in Step : Kind[s] \in {"launch", "follow"}}

Teardowns == {s \in Step : Kind[s] = "teardown"}

Swarm(i) == SwarmOf[CHOOSE s \in Plan[i] : TRUE]

ASSUME MembersAssumption == Home \in Node
ASSUME PlanAssumption ==
    /\ Plan \in Seq(SUBSET Step) /\ Plan # <<>>
    /\ \A i, j \in Stages : i # j => Plan[i] \cap Plan[j] = {}
    /\ DOMAIN SwarmOf = Step /\ Kind \in [Step -> Kinds]
    /\ Where \in [Launches -> SUBSET Node]
    /\ \A i \in Stages : Plan[i] # {} /\ \A s, t \in Plan[i] : SwarmOf[s] = SwarmOf[t]
\* A swarm is named once, so that its stages follow one another; its teardown is the
\* last of them (launch_swarms()).
ASSUME SwarmsAssumption ==
    /\ \A i, j, k \in Stages : i < j /\ j < k /\ Swarm(i) = Swarm(k) => Swarm(j) = Swarm(i)
    /\ \A i \in Stages : \A s \in Plan[i] \cap Teardowns :
          Plan[i] = {s} /\ \A j \in Stages : i < j => Swarm(j) # Swarm(i)
ASSUME BoundsAssumption ==
    MaxSilences \in Nat /\ MaxFailures \in Nat /\ MaxForgotten \in Nat /\ MaxLost \in Nat

VARIABLES
    at,            \* the stage the driver is at, one past the last when it is through
    driver,        \* whether it looks at that stage, runs it, or has finished
    begun,         \* the swarms that got as far as starting
    stopped,       \* why no further stage is started, or "no"
    cancelling,    \* whether the run was told to stop
    state,         \* state[s]: the state on s's record
    thread,        \* thread[s]: where s's thread is, see Thread
    following,     \* the launches whose follower is going
    launched,      \* the launches registered in _launched
    record,        \* record[s]: the template run of launch s, see Record
    share,         \* share[s][n]: where n is with its share of launch s
    unwatched,     \* the shares whose polling failed
    spoiled,       \* the launches with a share that failed
    instances,     \* the instances there are, by launch and node
    tear,          \* the teardown's loop: where it is and what it has read
    silences, failures, forgotten, lost      \* so far, bounded as above

vars == <<at, driver, begun, stopped, cancelling, state, thread, following, launched,
          record, share, unwatched, spoiled, instances, tear, silences, failures,
          forgotten, lost>>

State == {"pending", "running", "ready", "done", "failed", "cancelled", "skipped"}

\* Not started; past its first check; waiting for the template run; ended.
Thread == {"none", "begun", "checked", "awaiting", "ended"}

\* "forgotten" is a finished one that was dismissed, or that a later run of the
\* same template replaced.
Record == {"none", "going", "ok", "bad", "forgotten"}

Share == {"none", "creating", "booting", "over"}

Resting == [at |-> "off", settled |-> FALSE, doomed |-> {}, done |-> {}, failed |-> FALSE]

AnyFailed == \E s \in Step : state[s] = "failed"

\* _check_running() raises: the run was stopped, or has failed elsewhere.
Halting == cancelling \/ AnyFailed

runnerVars == <<at, driver, begun, stopped, cancelling>>
launchVars == <<launched, record, share, unwatched, spoiled>>
bounds == <<silences, failures, forgotten, lost>>
-----------------------------------------------------------------------------
(* The driver: _execute(). *)

\* Mutant of MustJoin: followers are joined at the end only.
JoinsAtEnd(i) == i > Len(Plan)

\* Between two swarms, and at the end, every follower is joined first.
MustJoin(i) == i > Len(Plan) \/ (i > 1 /\ Swarm(i) # Swarm(i - 1))

\* Why nothing further is started, once cancelling and the records were read.
Verdict == CASE stopped # "no" -> stopped
             [] stopped = "no" /\ cancelling -> "cancelled"
             [] stopped = "no" /\ ~cancelling /\ AnyFailed -> "skipped"
             [] OTHER -> "no"

\* A teardown runs however the stages before it ended, if its swarm started.
Always(i) == (\A s \in Plan[i] : Kind[s] = "teardown") /\ Swarm(i) \in begun

Looks == driver = "looking" /\ at \in Stages /\ (MustJoin(at) => following = {})

SkipStage ==
    /\ Looks /\ Verdict # "no" /\ ~Always(at)
    /\ stopped' = Verdict
    /\ state' = [s \in Step |-> IF s \in Plan[at] THEN Verdict ELSE state[s]]
    /\ at' = at + 1
    /\ UNCHANGED <<driver, begun, cancelling, thread, following, launchVars, instances,
                   tear, bounds>>

BeginStage ==
    /\ Looks /\ (Verdict = "no" \/ Always(at))
    /\ stopped' = Verdict
    /\ begun' = begun \cup {Swarm(at)}
    /\ driver' = "running"
    /\ state' = [s \in Step |-> IF s \in Plan[at] THEN "running" ELSE state[s]]
    /\ thread' = [s \in Step |-> IF s \in Plan[at] THEN "begun" ELSE thread[s]]
    /\ UNCHANGED <<at, cancelling, following, launchVars, instances, tear, bounds>>

\* The threads of the stage are joined.
EndStage ==
    /\ driver = "running" /\ \A s \in Plan[at] : thread[s] = "ended"
    /\ driver' = "looking"
    /\ at' = at + 1
    /\ UNCHANGED <<begun, stopped, cancelling, state, thread, following, launchVars,
                   instances, tear, bounds>>

Finish ==
    /\ driver = "looking" /\ at > Len(Plan) /\ following = {}
    /\ driver' = "finished"
    /\ UNCHANGED <<at, begun, stopped, cancelling, state, thread, following, launchVars,
                   instances, tear, bounds>>

\* cancel_stack_run(), stop_swarm(), or `serve` on its way out (stop_swarms()).
Cancel ==
    /\ driver # "finished" /\ ~cancelling
    /\ cancelling' = TRUE
    /\ UNCHANGED <<at, driver, begun, stopped, state, thread, following, launchVars,
                   instances, tear, bounds>>
-----------------------------------------------------------------------------
(* The steps: _run_step() and what it calls. *)

Ends(s, how) ==
    /\ state' = [state EXCEPT ![s] = how]
    /\ thread' = [thread EXCEPT ![s] = "ended"]

\* A script, a sleep: it runs to its end, or stops within a second.
ScriptEnds(s) ==
    /\ Kind[s] = "script" /\ thread[s] = "begun"
    /\ \/ \E how \in {"done", "failed"} : Ends(s, how)
       \/ Halting /\ Ends(s, "cancelled")
    /\ UNCHANGED <<runnerVars, following, launchVars, instances, tear, bounds>>

\* The launches of the stages before s in its swarm.
Earlier(s) == {t \in Launches : /\ SwarmOf[t] = SwarmOf[s]
                                /\ \E i, j \in Stages : i < j /\ t \in Plan[i] /\ s \in Plan[j]}

\* _wait_healthy(): it waits for their followers, asks for them to have ended
\* well, and polls the instances' health until its timeout.
HealthEnds(s) ==
    /\ Kind[s] = "healthy" /\ thread[s] = "begun"
    /\ \/ /\ Earlier(s) \cap following = {}
          /\ \/ Ends(s, "failed")
             \/ (\A t \in Earlier(s) : state[t] = "done") /\ Ends(s, "done")
       \/ Halting /\ Ends(s, "cancelled")
    /\ UNCHANGED <<runnerVars, following, launchVars, instances, tear, bounds>>

\* _launch() looks once more whether the run goes on ...
LaunchChecks(s) ==
    /\ s \in Launches /\ thread[s] = "begun"
    /\ IF Halting THEN Ends(s, "cancelled")
       ELSE thread' = [thread EXCEPT ![s] = "checked"] /\ UNCHANGED state
    /\ UNCHANGED <<runnerVars, following, launchVars, instances, tear, bounds>>

\* ... and starts the template run, or is refused (the template is busy, a
\* node is not to be found).
LaunchStarts(s) ==
    /\ thread[s] = "checked"
    /\ \/ /\ thread' = [thread EXCEPT ![s] = "awaiting"]
          /\ launched' = launched \cup {s}
          /\ record' = [record EXCEPT ![s] = "going"]
          /\ share' = [share EXCEPT ![s] = [n \in Node |->
                          IF n \in Where[s] THEN "creating" ELSE "none"]]
          /\ UNCHANGED state
       \/ Ends(s, "failed") /\ UNCHANGED <<launched, record, share>>
    /\ UNCHANGED <<runnerVars, following, unwatched, spoiled, instances, tear, bounds>>

\* Mutant of Reported: a run that is not reported any more is waited for.
ReportedWhileKept(s, how) ==
    \/ how = "done" /\ record[s] = "ok"
    \/ how = "failed" /\ record[s] = "bad"
    \/ how = "cancelled" /\ Halting

\* What _await_template_run() and _finish_launch() make of the template run.
Reported(s, how) ==
    \/ how = "done" /\ record[s] = "ok"
    \/ how = "failed" /\ record[s] \in {"bad", "forgotten"}
    \/ how = "cancelled" /\ Halting

LaunchEnds(s) ==
    /\ Kind[s] = "launch" /\ thread[s] = "awaiting"
    /\ \E how \in {"done", "failed", "cancelled"} : Reported(s, how) /\ Ends(s, how)
    /\ UNCHANGED <<runnerVars, following, launchVars, instances, tear, bounds>>

\* _await_ready(): every instance is running, or the template run is over and
\* some are good: from here on a follower waits for the run.  Or they are not
\* in time, none is good, or the run halts.
Ready(s) ==
    /\ Kind[s] = "follow" /\ thread[s] = "awaiting"
    /\ \/ /\ \/ record[s] = "going" /\ \A n \in Where[s] : <<s, n>> \in instances
             \/ record[s] \in {"ok", "bad"} /\ \E n \in Where[s] : <<s, n>> \in instances
          /\ state' = [state EXCEPT ![s] = "ready"]
          /\ thread' = [thread EXCEPT ![s] = "ended"]
          /\ following' = following \cup {s}
       \/ Ends(s, "failed") /\ UNCHANGED following
       \/ Halting /\ Ends(s, "cancelled") /\ UNCHANGED following
    /\ UNCHANGED <<runnerVars, launchVars, instances, tear, bounds>>

FollowerEnds(s) ==
    /\ s \in following
    /\ following' = following \ {s}
    /\ \E how \in {"done", "failed", "cancelled"} :
           Reported(s, how) /\ state' = [state EXCEPT ![s] = how]
    /\ UNCHANGED <<runnerVars, thread, launchVars, instances, tear, bounds>>
-----------------------------------------------------------------------------
(* A launch's template run, with its shares. *)

\* n makes its instance, or cannot.
Create(s, n) ==
    /\ share[s][n] = "creating"
    /\ \/ /\ share' = [share EXCEPT ![s][n] = "booting"]
          /\ instances' = instances \cup {<<s, n>>}
          /\ UNCHANGED spoiled
       \/ /\ share' = [share EXCEPT ![s][n] = "over"]
          /\ spoiled' = spoiled \cup {s}
          /\ UNCHANGED instances
    /\ UNCHANGED <<runnerVars, state, thread, following, launched, record, unwatched,
                   tear, bounds>>

\* The bootstrap in it ends: badly, if the instance is gone.
Boot(s, n) ==
    /\ share[s][n] = "booting"
    /\ share' = [share EXCEPT ![s][n] = "over"]
    /\ \/ <<s, n>> \in instances /\ UNCHANGED spoiled
       \/ spoiled' = spoiled \cup {s}
    /\ UNCHANGED <<runnerVars, state, thread, following, launched, record, unwatched,
                   instances, tear, bounds>>

\* A poll of n fails, or takes too long: its share counts as failed
\* (_launch_on), while n goes on with it.
PollFails(s, n) ==
    /\ lost < MaxLost /\ n # Home
    /\ record[s] = "going" /\ share[s][n] \in {"creating", "booting"}
    /\ <<s, n>> \notin unwatched
    /\ lost' = lost + 1
    /\ unwatched' = unwatched \cup {<<s, n>>}
    /\ spoiled' = spoiled \cup {s}
    /\ UNCHANGED <<runnerVars, state, thread, following, launched, record, share,
                   instances, tear, silences, failures, forgotten>>

\* Every share that is watched is over.  With some failed it may still be enough
\* (min_percent).
RecordEnds(s) ==
    /\ record[s] = "going"
    /\ \A n \in Where[s] : share[s][n] = "over" \/ <<s, n>> \in unwatched
    /\ \E how \in (IF s \in spoiled THEN {"ok", "bad"} ELSE {"ok"}) :
           record' = [record EXCEPT ![s] = how]
    /\ UNCHANGED <<runnerVars, state, thread, following, launched, share, unwatched,
                   spoiled, instances, tear, bounds>>

\* dismiss_template_run(), or another run of the template.
Forget(s) ==
    /\ record[s] \in {"ok", "bad"} /\ forgotten < MaxForgotten
    /\ forgotten' = forgotten + 1
    /\ record' = [record EXCEPT ![s] = "forgotten"]
    /\ UNCHANGED <<runnerVars, state, thread, following, launched, share, unwatched,
                   spoiled, instances, tear, silences, failures, lost>>
-----------------------------------------------------------------------------
(* A swarm's teardown: _swarm_teardown(). *)

Tears(s, where) == Kind[s] = "teardown" /\ thread[s] = "begun" /\ tear.at = where

\* No launch of this run is going.
Settled == \A s \in launched : record[s] # "going"

\* A round asks first whether the launches are over ...
TearReads(s) ==
    /\ Tears(s, "off")
    /\ tear' = [tear EXCEPT !.at = "listing", !.settled = Settled]
    /\ UNCHANGED <<runnerVars, state, thread, following, launchVars, instances, bounds>>

\* ... and lists the swarm's instances after that.  A member that does not
\* answer ends the teardown: _members() acts on nothing it cannot tell.
TearLists(s) ==
    /\ Tears(s, "listing")
    /\ \/ /\ tear' = [tear EXCEPT !.at = "deleting",
                          !.doomed = {i \in instances : SwarmOf[i[1]] = SwarmOf[s]} \ tear.done]
          /\ UNCHANGED <<state, thread, silences>>
       \/ /\ silences < MaxSilences
          /\ silences' = silences + 1
          /\ Ends(s, "failed")
          /\ tear' = Resting
    /\ UNCHANGED <<runnerVars, following, launchVars, instances, failures, forgotten, lost>>

\* One deletion; an instance that is not found is as good as deleted.
TearDeletes(s, i) ==
    /\ Tears(s, "deleting") /\ i \in tear.doomed
    /\ \/ /\ instances' = instances \ {i}
          /\ tear' = [tear EXCEPT !.doomed = @ \ {i}, !.done = @ \cup {i}]
          /\ UNCHANGED failures
       \/ /\ i \in instances /\ failures < MaxFailures
          /\ failures' = failures + 1
          /\ tear' = [tear EXCEPT !.doomed = @ \ {i}, !.done = @ \cup {i}, !.failed = TRUE]
          /\ UNCHANGED instances
    /\ UNCHANGED <<runnerVars, state, thread, following, launchVars, silences, forgotten, lost>>

\* The launches were over before the round listed what there is.
LastRound == tear.settled

\* The round ends: with it the teardown, or a while later another one begins.
TearEnds(s) ==
    /\ Tears(s, "deleting") /\ tear.doomed = {}
    /\ IF LastRound
       THEN /\ Ends(s, IF tear.failed THEN "failed" ELSE "done")
            /\ launched' = {}
            /\ tear' = Resting
       ELSE /\ tear' = [tear EXCEPT !.at = "off"]
            /\ UNCHANGED <<state, thread, launched>>
    /\ UNCHANGED <<runnerVars, following, record, share, unwatched, spoiled, instances, bounds>>
-----------------------------------------------------------------------------
Init ==
    /\ at = 1 /\ driver = "looking" /\ begun = {} /\ stopped = "no" /\ cancelling = FALSE
    /\ state = [s \in Step |-> "pending"]
    /\ thread = [s \in Step |-> "none"]
    /\ following = {} /\ launched = {}
    /\ record = [s \in Launches |-> "none"]
    /\ share = [s \in Launches |-> [n \in Node |-> "none"]]
    /\ unwatched = {} /\ spoiled = {} /\ instances = {}
    /\ tear = Resting
    /\ silences = 0 /\ failures = 0 /\ forgotten = 0 /\ lost = 0

StepEnds(s) == ScriptEnds(s) \/ HealthEnds(s) \/ LaunchEnds(s) \/ Ready(s)

Driver == SkipStage \/ BeginStage \/ EndStage \/ Finish

Works(s) ==
    \/ LaunchChecks(s) \/ LaunchStarts(s) \/ StepEnds(s)
    \/ TearReads(s) \/ TearLists(s) \/ TearEnds(s)
    \/ \E i \in Launches \X Node : TearDeletes(s, i)

Next ==
    \/ SkipStage
    \/ BeginStage
    \/ EndStage
    \/ Finish
    \/ Cancel
    \/ \E s \in Step : ScriptEnds(s)
    \/ \E s \in Step : HealthEnds(s)
    \/ \E s \in Step : LaunchChecks(s)
    \/ \E s \in Step : LaunchStarts(s)
    \/ \E s \in Step : LaunchEnds(s)
    \/ \E s \in Step : Ready(s)
    \/ \E s \in Step : FollowerEnds(s)
    \/ \E s \in Launches, n \in Node : Create(s, n)
    \/ \E s \in Launches, n \in Node : Boot(s, n)
    \/ \E s \in Launches, n \in Node : PollFails(s, n)
    \/ \E s \in Launches : RecordEnds(s)
    \/ \E s \in Launches : Forget(s)
    \/ \E s \in Step : TearReads(s)
    \/ \E s \in Step : TearLists(s)
    \/ \E s \in Step, i \in Launches \X Node : TearDeletes(s, i)
    \/ \E s \in Step : TearEnds(s)

Spec == Init /\ [][Next]_vars

\* Threads go on; a script, a health gate and the wait for an instance have
\* deadlines, and so has a peer's share; nodes finish what they create.
Fairness ==
    /\ WF_vars(Driver)
    /\ \A s \in Step : WF_vars(Works(s)) /\ WF_vars(FollowerEnds(s))
    /\ \A s \in Launches : WF_vars(RecordEnds(s))
    /\ \A s \in Launches, n \in Node : WF_vars(Create(s, n)) /\ WF_vars(Boot(s, n))

FairSpec == Spec /\ Fairness
-----------------------------------------------------------------------------
(* What is asked of it. *)

\* Every variable has its type.
TypeOK ==
    /\ at \in 1..Len(Plan) + 1
    /\ driver \in {"looking", "running", "finished"}
    /\ driver = "running" => at \in Stages
    /\ begun \subseteq {SwarmOf[s] : s \in Step}
    /\ stopped \in {"no", "cancelled", "skipped"}
    /\ cancelling \in BOOLEAN
    /\ state \in [Step -> State] /\ thread \in [Step -> Thread]
    /\ following \subseteq Launches /\ launched \subseteq Launches
    /\ record \in [Launches -> Record] /\ share \in [Launches -> [Node -> Share]]
    /\ unwatched \subseteq Launches \X Node /\ spoiled \subseteq Launches
    /\ instances \subseteq Launches \X Node
    /\ tear \in [at : {"off", "listing", "deleting"}, settled : BOOLEAN,
                 doomed : SUBSET (Launches \X Node), done : SUBSET (Launches \X Node),
                 failed : BOOLEAN]
    /\ silences \in 0..MaxSilences /\ failures \in 0..MaxFailures
    /\ forgotten \in 0..MaxForgotten /\ lost \in 0..MaxLost

\* "The next swarm starts only once every such launch of the one before has
\* reported, so a late failure still stops the sequence" (docs/stacks.md): once
\* a step has been started, every step of the swarms before its own, followed
\* launches and the teardown included, is done and stays so.
SwarmsInSequence ==
    \A i, j \in Stages : i < j /\ Swarm(i) # Swarm(j) =>
        \A s \in Plan[i], t \in Plan[j] : thread[t] # "none" => state[s] = "done"

\* "Its instances are destroyed, whether the last stage finished, a step failed,
\* or you pressed Stop" (docs/stacks.md): no swarm that was started is left
\* without its teardown when the run is over, and no thread with it.
BegunIsTornDown ==
    driver = "finished" =>
        /\ following = {} /\ \A s \in Step : thread[s] \in {"none", "ended"}
        /\ \A s \in Teardowns :
              IF SwarmOf[s] \in begun THEN state[s] \in {"done", "failed"}
              ELSE state[s] \in {"skipped", "cancelled"}

\* What is left of swarm w, outside the shares in X: instances, or shares that
\* are still to make theirs.
LeftOf(w, X) ==
    {q \in (Launches \X Node) \ X :
        /\ SwarmOf[q[1]] = w
        /\ q \in instances \/ share[q[1]][q[2]] = "creating"}

\* A teardown that is done leaves nothing of its swarm behind, and nothing still
\* to come, then and from then on, but for the shares whose polling failed.
TornDownLeavesNothing ==
    \A s \in Teardowns : state[s] = "done" => LeftOf(SwarmOf[s], unwatched) = {}

TornDownForGood == BegunIsTornDown /\ TornDownLeavesNothing

\* The swarms of a sequence keep their order, and each that was started is torn
\* down, for good, before the next.
SequenceHolds == SwarmsInSequence /\ TornDownForGood

\* The run ends: no wait, of the driver, a step, a follower or the teardown, is
\* for something that does not come, whatever is stopped, dismissed or silent.
RunEnds == <>(driver = "finished")
-----------------------------------------------------------------------------
(* Why SequenceHolds does: the inductive invariant, proved in StackRunProof.    *)

\* A stage's threads go while the driver is at it; none is started before, and after
\* it those that were not started were passed over.
ThreadsFit ==
    /\ \A s \in Step : thread[s] \notin {"none", "ended"} => driver = "running" /\ s \in Plan[at]
    /\ driver = "running" => \A s \in Plan[at] : thread[s] # "none"
    /\ \A i \in Stages : i > at \/ (i = at /\ driver = "looking") =>
          \A s \in Plan[i] : thread[s] = "none"
    /\ \A i \in Stages : i < at => \A s \in Plan[i] :
          thread[s] = "none" => stopped # "no" /\ state[s] \in {"skipped", "cancelled"}
    /\ driver = "finished" => at > Len(Plan) /\ following = {}

\* What a step's record says of its thread.
StatesFit ==
    \A s \in Step :
        /\ thread[s] = "none" => state[s] \in {"pending", "skipped", "cancelled"}
        /\ thread[s] \in {"begun", "checked", "awaiting"} => state[s] = "running"
        /\ thread[s] = "ended" => state[s] \in {"ready", "done", "failed", "cancelled"}
        /\ thread[s] = "ended" /\ state[s] = "cancelled" => Halting
        /\ state[s] = "ready" <=> s \in following
        /\ thread[s] \in {"checked", "awaiting"} => s \in Launches
        /\ thread[s] = "ended" /\ s \in Teardowns => state[s] \in {"done", "failed"}

\* The swarms that begun are those with a step started; their teardowns are not passed over.
BegunFits ==
    /\ \A w \in begun : \E k \in Stages :
          Swarm(k) = w /\ \A s \in Plan[k] : thread[s] # "none"
    /\ \A s \in Step : thread[s] # "none" => SwarmOf[s] \in begun
    /\ \A i \in Stages : i < at => \A s \in Plan[i] \cap Teardowns :
          SwarmOf[s] \in begun => thread[s] # "none"

\* A share is there once its launch has a template run, which is not over before the
\* share is, unless nobody watches it.
SharesFit ==
    \A s \in Launches :
        /\ thread[s] \in {"none", "begun", "checked"} =>
              record[s] = "none" /\ \A n \in Node : share[s][n] = "none"
        /\ record[s] = "going" => s \in launched
        /\ \A n \in Node :
              /\ share[s][n] = "creating" => n \in Where[s] /\ record[s] # "none"
              /\ record[s] \in {"ok", "bad", "forgotten"} /\ n \in Where[s] =>
                    share[s][n] = "over" \/ <<s, n>> \in unwatched
              /\ <<s, n>> \in instances => share[s][n] \in {"booting", "over"}

\* Once a teardown saw the launches over, what it has listed, or dealt with, is all there is.
TearFits ==
    /\ tear.at # "off" => \E s \in Teardowns : thread[s] = "begun"
    /\ tear.at # "off" /\ tear.settled => \A s \in Launches : record[s] # "going"
    /\ \A q \in tear.doomed \cup tear.done : share[q[1]][q[2]] \in {"booting", "over"}
    /\ tear.done \cap instances # {} => tear.failed
    /\ \A s \in Teardowns : thread[s] = "begun" /\ tear.at = "deleting" /\ tear.settled =>
          {i \in instances : SwarmOf[i[1]] = SwarmOf[s]} \subseteq tear.doomed \cup tear.done \cup unwatched

StackInv ==
    /\ TypeOK /\ ThreadsFit /\ StatesFit /\ BegunFits /\ SharesFit /\ TearFits
    /\ SwarmsInSequence /\ TornDownLeavesNothing
=============================================================================
