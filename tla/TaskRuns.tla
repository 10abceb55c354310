------------------------------ MODULE TaskRuns ------------------------------
(***************************************************************************)
(* The runs of one task on one node (src/waterpump/tasks.py, _start to     *)
(* sweep; store.py, save_task_run): the thread that works a run, whoever   *)
(* stops it (a timer, a cancel, `serve` on its way out), the sweeper, and  *)
(* the record each run leaves in the task's history file.                  *)
(*                                                                         *)
(* Most runs belong to `serve`.  Without it a CLI command runs the task in *)
(* its own process: same daemon, same history file, but a `_live` and a    *)
(* lock of its own.  Processes may end at any step.                        *)
(***************************************************************************)
EXTENDS Integers, FiniteSets, Sequences

CONSTANTS
    ServeRuns,     \* the runs started in `serve`
    CliRuns,       \* the runs started by a CLI command, each in a process of its own
    Serve,         \* the process of `serve`
    Kept,          \* TASK_RUNS_KEPT: how many runs the history of a task keeps
    MaxRuns,       \* bound: how many of these runs are started
    MaxRestarts,   \* bound: how often `serve` ends or executes itself anew
    MaxFailures,   \* bound: how often the daemon fails to delete an instance
    MayReusePid    \* whether the pid of a process that ended may name another one

RunsAssumption == ServeRuns \cap CliRuns = {} /\ Serve \notin ServeRuns \cup CliRuns
BoundsAssumption ==
    /\ Kept \in Nat \ {0} /\ MaxRuns \in Nat
    /\ MaxRestarts \in Nat /\ MaxFailures \in Nat /\ MayReusePid \in BOOLEAN

Runs == ServeRuns \cup CliRuns

Process == {Serve} \cup CliRuns

Owner(r) == IF r \in CliRuns THEN r ELSE Serve

VARIABLES
    alive,         \* the processes that run
    pids,          \* the runs of an ended process whose recorded pid ...
                   \* names `serve` itself (own) or a stranger (reused)
    stage,         \* stage[r]: where the thread that works r is, see Stage
    result,        \* result[r]: what r's job came to
    stopped,       \* stopped[r]: why r was ended early, or "no"
    stopping,      \* the runs whose stopper has yet to remove the instance
    live,          \* the runs in their process's _live
    requested,     \* the instances the daemon was asked to create and has not yet
    instances,     \* the instances there are, by run
    started,       \* the runs in the order they were started
    file,          \* file[r]: the status of r in the history file, or "none"
    saves,         \* save_task_run() calls between their read and their write
    sweep,         \* the sweeper's round: where it is and what it has read
    restarts,      \* so far, bounded by MaxRestarts
    failures,      \* so far, bounded by MaxFailures
    overlapped     \* history: the runs whose last record was saved while another
                   \* process was saving, or the sweeper acting on what it had read

vars == <<alive, pids, stage, result, stopped, stopping, live, requested, instances,
          started, file, saves, sweep, restarts, failures, overlapped>>

\* Registered in _live; asking for the instance (and its setup); launched; at
\* the job; leaving (the `finally`); removing the instance; removed; decided,
\* and about to save the final record; over.  Or gone with its process.
Stage == {"unborn", "registered", "launching", "launched", "working", "leaving",
          "removing", "removed", "closing", "over", "gone"}

Final == {"ok", "failed", "timed_out", "cancelled", "lost"}

Status == {"none", "running"} \cup Final

History == [Runs -> Status]

Save == [by : Process, run : Runs, status : Status \ {"none"}, seen : History]

Round == [at : {"idle", "listed", "read", "acting"}, found : SUBSET Runs,
          history : History, live : SUBSET ServeRuns]

NoHistory == [r \in Runs |-> "none"]

Resting == [at |-> "idle", found |-> {}, history |-> NoHistory, live |-> {}]

AtWork(r) == stage[r] \in {"launching", "launched", "working"}

Newer(r) == {s \in Runs : \E i, j \in DOMAIN started : i < j /\ started[i] = r /\ started[j] = s}

\* save_task_run(): the newest Kept runs of the history.
Newest(h) == [r \in Runs |-> IF Cardinality({s \in Newer(r) : h[s] # "none"}) < Kept
                             THEN h[r] ELSE "none"]
-----------------------------------------------------------------------------
(* The thread that works a run. *)

\* _start(): the run is registered, and its first record is to be saved.
Start(r) ==
    /\ stage[r] = "unborn" /\ Owner(r) \in alive /\ Len(started) < MaxRuns
    /\ stage' = [stage EXCEPT ![r] = "registered"]
    /\ live' = live \cup {r}
    /\ started' = Append(started, r)
    /\ UNCHANGED <<alive, pids, result, stopped, stopping, requested, instances, file,
                   saves, sweep, restarts, failures, overlapped>>

\* What a run says of itself when it saves its record at this point.
Said(r) == IF stage[r] = "closing" THEN result[r] ELSE "running"

\* save_task_run() in r's thread takes its process's lock and reads the file ...
SaveBegins(r) ==
    /\ stage[r] \in {"registered", "launched", "leaving", "closing"}
    /\ \A s \in saves : s.by # Owner(r)
    /\ saves' = saves \cup {[by |-> Owner(r), run |-> r, status |-> Said(r), seen |-> file]}
    /\ UNCHANGED <<alive, pids, stage, result, stopped, stopping, live, requested,
                   instances, started, file, sweep, restarts, failures, overlapped>>

\* Where the thread goes from here once its record is saved.  A launch that is
\* refused before anything is created (prepare_launch) leaves at once.
NextStage(r) ==
    CASE stage[r] = "registered" -> {"launching", "leaving"}
      [] stage[r] = "launched"   -> {"working"}
      [] stage[r] = "leaving"    -> {"removing"}
      [] stage[r] = "closing"    -> {"over"}

\* ... and replaces it by what it read, with the record in it.
SaveEnds(s) ==
    /\ s \in saves
    /\ saves' = saves \ {s}
    /\ file' = Newest([s.seen EXCEPT ![s.run] = s.status])
    /\ IF s.status = "lost"
       THEN UNCHANGED <<stage, requested>>
       ELSE \E next \in NextStage(s.run) :
                /\ stage' = [stage EXCEPT ![s.run] = next]
                /\ requested' = IF next = "launching" THEN requested \cup {s.run} ELSE requested
    /\ overlapped' = IF s.status \in Final \ {"lost"}
                           /\ (sweep.at \in {"read", "acting"} \/ saves # {s})
                     THEN overlapped \cup {s.run} ELSE overlapped
    /\ UNCHANGED <<alive, pids, result, stopped, stopping, live, instances, started,
                   sweep, restarts, failures>>

\* The daemon creates the instance, also when who asked for it is gone.
DaemonCreates(r) ==
    /\ r \in requested
    /\ requested' = requested \ {r}
    /\ instances' = instances \cup {r}
    /\ UNCHANGED <<alive, pids, stage, result, stopped, stopping, live, started, file,
                   saves, sweep, restarts, failures, overlapped>>

\* create_from_template() returns or fails; _check() ends a run stopped meanwhile.
LaunchEnds(r) ==
    /\ stage[r] = "launching"
    /\ \/ r \notin requested /\ stopped[r] = "no"
          /\ stage' = [stage EXCEPT ![r] = "launched"]
       \/ stage' = [stage EXCEPT ![r] = "leaving"]
    /\ requested' = requested \ {r}
    /\ UNCHANGED <<alive, pids, result, stopped, stopping, live, instances, started, file,
                   saves, sweep, restarts, failures, overlapped>>

\* The job ends; in an instance that is gone it cannot have gone well.
JobEnds(r) ==
    /\ stage[r] = "working"
    /\ stage' = [stage EXCEPT ![r] = "leaving"]
    /\ \E outcome \in (IF r \in instances /\ stopped[r] = "no" THEN {"ok", "failed"}
                       ELSE {"failed"}) :
           result' = [result EXCEPT ![r] = outcome]
    /\ UNCHANGED <<alive, pids, stopped, stopping, live, requested, instances, started,
                   file, saves, sweep, restarts, failures, overlapped>>

\* _remove_instance(r): the instance is gone, unless the daemon fails.
Removal(r) ==
    \/ instances' = instances \ {r} /\ UNCHANGED failures
    \/ /\ r \in instances /\ failures < MaxFailures
       /\ failures' = failures + 1
       /\ UNCHANGED instances

\* The run's end removes its instance, however it ended.
Remove(r) ==
    /\ stage[r] = "removing"
    /\ stage' = [stage EXCEPT ![r] = "removed"]
    /\ Removal(r)
    /\ UNCHANGED <<alive, pids, result, stopped, stopping, live, requested, started, file,
                   saves, sweep, restarts, overlapped>>

\* Mutants of Verdict: whether the run was stopped is not looked at again; only
\* that is looked at.
VerdictOfJob(r) == result[r]
\* A stop that came before the run was decided outweighs what the job came to.
Verdict(r) == IF stopped[r] = "no" THEN result[r] ELSE stopped[r]

\* Under the lock, the run is decided and leaves _live.
Decide(r) ==
    /\ stage[r] = "removed"
    /\ stage' = [stage EXCEPT ![r] = "closing"]
    /\ result' = [result EXCEPT ![r] = Verdict(r)]
    /\ live' = live \ {r}
    /\ UNCHANGED <<alive, pids, stopped, stopping, requested, instances, started, file,
                   saves, sweep, restarts, failures, overlapped>>
-----------------------------------------------------------------------------
(* Stopping a run. *)

\* _stop(), by the timer (from the launch on) or by cancel_run()/cancel_all():
\* under the lock the run is marked, if nothing has decided or stopped it yet.
Stop(r, why) ==
    /\ r \in live /\ stopped[r] = "no"
    /\ why = "timed_out" => stage[r] # "registered"
    /\ stopped' = [stopped EXCEPT ![r] = why]
    /\ stopping' = stopping \cup {r}
    /\ UNCHANGED <<alive, pids, stage, result, live, requested, instances, started, file,
                   saves, sweep, restarts, failures, overlapped>>

\* Then its instance is removed, which ends whatever runs in it.
StopRemoves(r) ==
    /\ r \in stopping
    /\ stopping' = stopping \ {r}
    /\ Removal(r)
    /\ UNCHANGED <<alive, pids, stage, result, stopped, live, requested, started, file,
                   saves, sweep, restarts, overlapped>>
-----------------------------------------------------------------------------
(* Processes. *)

\* The threads of the runs in R end with their process.
Die(R) ==
    /\ stage' = [r \in Runs |-> IF r \in R /\ stage[r] \notin {"unborn", "over"}
                                THEN "gone" ELSE stage[r]]
    /\ live' = live \ R
    /\ stopping' = stopping \ R
    /\ saves' = {s \in saves : s.by \notin {Owner(r) : r \in R}}
    /\ UNCHANGED <<result, stopped, requested, instances, started, file, failures, overlapped>>

Ended(R) == {r \in R : stage[r] \notin {"unborn", "over"}}

\* The pid of a process that ended may come to name a stranger.
Strangers(R) ==
    IF MayReusePid THEN {pids.reused, pids.reused \cup Ended(R)} ELSE {pids.reused}

\* `serve` ends, by a signal or on its own.
ServeEnds ==
    /\ Serve \in alive /\ restarts < MaxRestarts
    /\ restarts' = restarts + 1
    /\ alive' = alive \ {Serve}
    /\ Die(ServeRuns)
    /\ sweep' = Resting
    /\ \E strangers \in Strangers(ServeRuns \cup pids.own) :
           pids' = [own |-> {}, reused |-> strangers]

ServeBegins ==
    /\ Serve \notin alive
    /\ alive' = alive \cup {Serve}
    /\ UNCHANGED <<pids, stage, result, stopped, stopping, live, requested, instances,
                   started, file, saves, sweep, restarts, failures, overlapped>>

\* _reexec(): `serve` starts over as the same process, under the same pid.
ServeReexecs ==
    /\ Serve \in alive /\ restarts < MaxRestarts
    /\ restarts' = restarts + 1
    /\ Die(ServeRuns)
    /\ sweep' = Resting
    /\ pids' = [pids EXCEPT !.own = @ \cup Ended(ServeRuns)]
    /\ UNCHANGED alive

\* The command ends: its run is over, it was interrupted, or did not wait.
CliEnds(c) ==
    /\ c \in CliRuns /\ c \in alive /\ stage[c] # "unborn"
    /\ alive' = alive \ {c}
    /\ Die({c})
    /\ \E strangers \in Strangers({c}) : pids' = [pids EXCEPT !.reused = strangers]
    /\ UNCHANGED <<sweep, restarts>>

\* _pid_alive() of the pid in r's record, and whether that pid is the sweeper's.
PidAlive(r) ==
    \/ r \in pids.own \cup pids.reused
    \/ stage[r] # "gone" /\ Owner(r) \in alive

PidIsOwn(r) == r \in pids.own \/ (r \in ServeRuns /\ stage[r] # "gone")
-----------------------------------------------------------------------------
(* The sweeper. *)

\* list_containers().
SweepLists ==
    /\ Serve \in alive /\ sweep.at = "idle"
    /\ sweep' = [sweep EXCEPT !.at = "listed", !.found = instances]
    /\ UNCHANGED <<alive, pids, stage, result, stopped, stopping, live, requested,
                   instances, started, file, saves, restarts, failures, overlapped>>

\* load_task_runs().
SweepReadsHistory ==
    /\ sweep.at = "listed"
    /\ sweep' = [sweep EXCEPT !.at = "read", !.history = file]
    /\ UNCHANGED <<alive, pids, stage, result, stopped, stopping, live, requested,
                   instances, started, file, saves, restarts, failures, overlapped>>

\* Mutants of Living: the sweeper goes by the history; by nothing.
LivingByRecord == {r \in ServeRuns : sweep.history[r] = "running"}
\* The runs going in this process.
Living == live \cap ServeRuns

SweepReadsLive ==
    /\ sweep.at = "read"
    /\ sweep' = [sweep EXCEPT !.at = "acting", !.live = Living, !.found = @ \ Living]
    /\ UNCHANGED <<alive, pids, stage, result, stopped, stopping, live, requested,
                   instances, started, file, saves, restarts, failures, overlapped>>

\* Mutant of LeftAlone: a run on record is taken to have seen to its instance.
LeftIfRecorded(r) == sweep.history[r] # "none"

\* Another process is at it, says the record.
LeftAlone(r) == sweep.history[r] = "running" /\ ~PidIsOwn(r) /\ PidAlive(r)

\* One instance of the list is destroyed, or left alone.
SweepRemoves(r) ==
    /\ sweep.at = "acting" /\ r \in sweep.found
    /\ sweep' = [sweep EXCEPT !.found = @ \ {r}]
    /\ IF LeftAlone(r) THEN UNCHANGED <<instances, failures>> ELSE Removal(r)
    /\ UNCHANGED <<alive, pids, stage, result, stopped, stopping, live, requested,
                   started, file, saves, restarts, overlapped>>

\* On record as running, but nobody is at it.
Abandoned(r) ==
    sweep.history[r] = "running" /\ r \notin sweep.live /\ (PidIsOwn(r) \/ ~PidAlive(r))

\* One such record is to be saved as lost.
SweepCloses(r) ==
    /\ sweep.at = "acting" /\ sweep.found = {} /\ Abandoned(r)
    /\ \A s \in saves : s.by # Serve
    /\ saves' = saves \cup {[by |-> Serve, run |-> r, status |-> "lost", seen |-> file]}
    /\ sweep' = [sweep EXCEPT !.history[r] = "none"]
    /\ UNCHANGED <<alive, pids, stage, result, stopped, stopping, live, requested,
                   instances, started, file, restarts, failures, overlapped>>

SweepEnds ==
    /\ sweep.at = "acting" /\ sweep.found = {} /\ \A r \in Runs : ~Abandoned(r)
    /\ \A s \in saves : s.status # "lost"
    /\ sweep' = Resting
    /\ UNCHANGED <<alive, pids, stage, result, stopped, stopping, live, requested,
                   instances, started, file, saves, restarts, failures, overlapped>>
-----------------------------------------------------------------------------
Init ==
    /\ alive = Process
    /\ pids = [own |-> {}, reused |-> {}]
    /\ stage = [r \in Runs |-> "unborn"]
    /\ result = [r \in Runs |-> "failed"]
    /\ stopped = [r \in Runs |-> "no"]
    /\ stopping = {} /\ live = {} /\ requested = {} /\ instances = {}
    /\ started = <<>>
    /\ file = NoHistory
    /\ saves = {}
    /\ sweep = Resting
    /\ restarts = 0 /\ failures = 0 /\ overlapped = {}

Worker(r) ==
    SaveBegins(r) \/ LaunchEnds(r) \/ JobEnds(r) \/ Remove(r) \/ Decide(r)

Sweeper ==
    \/ SweepLists \/ SweepReadsHistory \/ SweepReadsLive \/ SweepEnds
    \/ \E r \in Runs : SweepRemoves(r) \/ SweepCloses(r)

Next ==
    \/ \E r \in Runs : Start(r)
    \/ \E r \in Runs : SaveBegins(r)
    \/ \E s \in saves : SaveEnds(s)
    \/ \E r \in Runs : DaemonCreates(r)
    \/ \E r \in Runs : LaunchEnds(r)
    \/ \E r \in Runs : JobEnds(r)
    \/ \E r \in Runs : Remove(r)
    \/ \E r \in Runs : Decide(r)
    \/ \E r \in Runs, why \in {"timed_out", "cancelled"} : Stop(r, why)
    \/ \E r \in Runs : StopRemoves(r)
    \/ ServeEnds
    \/ ServeBegins
    \/ ServeReexecs
    \/ \E c \in CliRuns : CliEnds(c)
    \/ SweepLists
    \/ SweepReadsHistory
    \/ SweepReadsLive
    \/ \E r \in Runs : SweepRemoves(r)
    \/ \E r \in Runs : SweepCloses(r)
    \/ SweepEnds

Spec == Init /\ [][Next]_vars

\* A thread that can go on does: jobs end (the timer sees to it), the daemon
\* answers, `serve` is started again by its service manager and sweeps every
\* SWEEP_SECONDS.
Fairness ==
    /\ \A r \in Runs : WF_vars(Worker(r))
    /\ \A p \in Process : WF_vars(\E s \in saves : s.by = p /\ SaveEnds(s))
    /\ \A r \in Runs : WF_vars(DaemonCreates(r)) /\ WF_vars(StopRemoves(r))
    /\ WF_vars(ServeBegins)
    /\ WF_vars(Sweeper)

FairSpec == Spec /\ Fairness
-----------------------------------------------------------------------------
(* What is asked of it. *)

\* Every variable has its type.
TypeOK ==
    /\ alive \subseteq Process
    /\ pids \in [own : SUBSET ServeRuns, reused : SUBSET Runs]
    /\ stage \in [Runs -> Stage]
    /\ result \in [Runs -> Final]
    /\ stopped \in [Runs -> {"no", "timed_out", "cancelled"}]
    /\ stopping \subseteq Runs /\ live \subseteq Runs
    /\ requested \subseteq Runs /\ instances \subseteq Runs
    /\ started \in Seq(Runs)
    /\ file \in History
    /\ saves \subseteq Save
    /\ sweep \in Round
    /\ restarts \in 0..MaxRestarts /\ failures \in 0..MaxFailures
    /\ overlapped \subseteq Runs

\* A run that nobody stopped keeps its instance until it is done with it: in
\* particular the sweeper, whose three readings are of three moments, never
\* takes it ("takes any task instance on this node that no live run owns").
Undisturbed(R) ==
    \A r \in R : AtWork(r) /\ r \in instances /\ r \notin instances'
                    => stopped[r] # "no"

OwnRunsAreUndisturbed == [][Undisturbed(ServeRuns)]_vars

\* Once a stop was accepted (the API said so), the run is not recorded as if it
\* had ended by itself; and a run nobody stopped is not recorded as stopped.
StopsAreRecorded ==
    \A r \in Runs :
        /\ file[r] \in {"ok", "failed"} => stopped[r] = "no"
        /\ file[r] \in {"timed_out", "cancelled"} => stopped[r] = file[r]

\* The sweeper closes no record of a run that is still going.
LostIsNotLive == \A r \in Runs : file[r] = "lost" => r \notin live

\* "The instance is destroyed, however the run ended" (docs/tasks.md): a run is
\* over with its instance there only if the daemon failed to delete it.
OverLeavesNothing ==
    failures = 0 => \A r \in Runs : stage[r] = "over" => r \notin instances

\* What a run came to stays on record until newer runs push it out, however often
\* it is saved around and swept: unless another process was saving while its last
\* record was (the lock is a process's own), or the sweeper had read the history
\* before that and acted on it after (see LostWasGoing).
FinalRecordStands ==
    \A r \in Runs : stage[r] = "over" /\ r \notin overlapped => file[r] \in {result[r], "none"}

\* What a record says happened, and what it says is gone is gone.
RecordsTellTheTruth ==
    StopsAreRecorded /\ LostIsNotLive /\ FinalRecordStands /\ OverLeavesNothing

\* What there still is of a run that is over, or whose process is gone: its
\* instance, or a record that says it is running.
Unsettled(r) ==
    \/ stage[r] \in {"over", "gone"} /\ r \in instances
    \/ stage[r] = "gone" /\ file[r] = "running"

\* What a run leaves behind is swept, and its record closed.
GoneIsSettled == \A r \in Runs : Unsettled(r) ~> ~Unsettled(r)
-----------------------------------------------------------------------------
(* Why it holds: the inductive invariant, proved in NodePartsProof.             *)

Born(r) == stage[r] # "unborn"

\* Decided, or gone with its process: _live will not have it again.
Past(r) == stage[r] \in {"closing", "over", "gone"}

\* Nothing stands in a history, whenever it was read, that a run could still belie.
Told(h) ==
    \A r \in Runs :
        /\ h[r] # "none" => Born(r)
        /\ h[r] \in {"ok", "failed"} => stopped[r] = "no" /\ Past(r)
        /\ h[r] \in {"timed_out", "cancelled"} => stopped[r] = h[r]
        /\ h[r] = "lost" => Past(r)

\* A run is in _live until it is decided, and only while its process runs.
LiveIsGoing ==
    /\ \A r \in Runs : r \in live <=> Born(r) /\ ~Past(r)
    /\ \A r \in live : Owner(r) \in alive
    /\ \A r \in stopping : stopped[r] # "no"
    /\ \A r \in pids.own : stage[r] = "gone"

InstancesAreBorn ==
    /\ \A r \in requested : stage[r] \in {"launching", "gone"}
    /\ \A r \in instances \cup sweep.found : Born(r)
    /\ failures = 0 => \A r \in Runs : stage[r] \in {"removed", "closing", "over"}
                                            => r \notin instances

\* What the job came to stands until the run is decided; then a stop outweighs it.
Decided ==
    \A r \in Runs :
        /\ ~Past(r) => result[r] \in {"ok", "failed"}
        /\ stage[r] = "closing" => IF result[r] \in {"ok", "failed"} THEN stopped[r] = "no"
                                   ELSE stopped[r] = result[r]

\* A process saves one record at a time, and a thread stands still meanwhile.
SavesAreTold ==
    /\ \A s, t \in saves : s.by = t.by => s = t
    /\ \A s \in saves :
           /\ Told(s.seen)
           /\ IF s.status = "lost" THEN Past(s.run)
              ELSE /\ stage[s.run] \in {"registered", "launched", "leaving", "closing"}
                   /\ s.by = Owner(s.run) /\ s.status = Said(s.run)

\* What the sweeper has not yet seen to is none of a run in this process.
SweptIsPast ==
    /\ \A r \in Runs : sweep.history[r] # "none" => Born(r)
    /\ sweep.at = "acting" =>
           \A r \in ServeRuns :
               r \in sweep.found \/ (sweep.history[r] = "running" /\ r \notin sweep.live)
                   => Past(r)

\* Whoever writes the history next, or closes a record, has read what r came to.
FinalIsRead ==
    \A r \in Runs : stage[r] = "over" /\ r \notin overlapped =>
        /\ file[r] \in {result[r], "none"}
        /\ \A s \in saves : s.run # r /\ s.seen[r] \in {result[r], "none"}
        /\ sweep.at \in {"read", "acting"} => sweep.history[r] \in {result[r], "none"}

RunsInv ==
    /\ TypeOK /\ Told(file)
    /\ LiveIsGoing /\ InstancesAreBorn /\ Decided /\ SavesAreTold /\ SweptIsPast /\ FinalIsRead
-----------------------------------------------------------------------------
(* What the documentation says besides, and the code does not keep to. *)

\* "A run in another process still running (a CLI run without `serve`) is left
\* alone: its history record names a live PID" (tasks.py, sweep).
CliRunsAreUndisturbed == [][Undisturbed(CliRuns)]_vars

\* "A run that was going when `serve` stopped is marked `lost`" (docs/tasks.md).
\* In the code so is one that ended by itself between the sweeper's reading of the
\* history and its reading of the live runs, or whose record a command's save set
\* back: what it came to is lost with it (tasks.py, sweep; store.py, save_task_run).
LostWasGoing == \A r \in Runs : file[r] = "lost" => stage[r] # "over"
=============================================================================
