------------------------------ MODULE Launches ------------------------------
(***************************************************************************)
(* Creates on one node, and the streak of failures that puts the node into *)
(* maintenance (src/waterpump/service.py, cluster.py, store.py).           *)
(*                                                                         *)
(* A create is a thread of a process: `serve`, or a CLI command beside it. *)
(* Each process has a lock around the streak and a flag that it is about   *)
(* to mark the node; the streak and the mark are files of the node, the    *)
(* first read and rewritten under a lock between processes.                *)
(***************************************************************************)
EXTENDS Naturals, FiniteSets

CONSTANTS
    Procs,       \* processes of the node that launch
    Threads,     \* creates at work at once
    Names,       \* instance names
    Limit,       \* LAUNCH_FAILURE_LIMIT
    MaxFaults,   \* bound: failures that are the node's
    MaxPeople    \* bound: how often a person marks the node, or takes the mark away

VARIABLES
    th,         \* th[t]: where the create is, of which process and name, what came of it
    creates,    \* creates[p]: names with an unfinished record in p (_creates)
    instances,  \* what the daemon has
    lock,       \* lock[p]: the thread that holds p's _launch_streak_lock
    tripping,   \* tripping[p]: a thread of p is about to mark the node (_tripping)
    streak,     \* launch-failures.json
    mark,       \* maintenance.json
    lifting,    \* a person's set_maintenance(False) is between its two files
    faults, people,   \* so far, bounded as above
    lapsed      \* a mark was not written, or was lifted before its thread was through

LimitAssumption == Limit \in Nat \ {0}

launchVars == <<th, creates, instances, lock, tripping, streak, mark, lifting,
                faults, people, lapsed>>

NoMark == "nobody"

Resting == [at |-> "rest"]

Marked == mark # NoMark

-----------------------------------------------------------------------------
Init ==
    /\ th = [t \in Threads |-> Resting]
    /\ creates = [p \in Procs |-> {}]
    /\ instances = {}
    /\ lock = [p \in Procs |-> {}]
    /\ tripping = [p \in Procs |-> FALSE]
    /\ streak = 0 /\ mark = NoMark /\ lifting = FALSE
    /\ faults = 0 /\ people = 0 /\ lapsed = FALSE

At(t, place) == th[t].at = place

To(t, place) == th' = [th EXCEPT ![t].at = place]

\* Said of the launch, and carried to where it is counted.
Came(t, how) == th' = [th EXCEPT ![t].at = "note", ![t].came = how]

(* A request: refuse_maintenance(), then _begin_create(), which takes one create *)
(* of a name in this process.                                                    *)
Create(t, p, n) ==
    /\ At(t, "rest") /\ ~Marked
    /\ n \notin creates[p]
    /\ creates' = [creates EXCEPT ![p] = @ \cup {n}]
    /\ th' = [th EXCEPT ![t] = [at |-> "making", proc |-> p, name |-> n, came |-> "ok", count |-> 0]]
    /\ UNCHANGED <<instances, lock, tripping, streak, mark, lifting, faults, people,
                   lapsed>>

(* The daemon makes it, refuses it (the name is taken, or anything else that is *)
(* the request's fault), or fails.                                              *)
DaemonMakes(t) ==
    /\ At(t, "making") /\ th[t].name \notin instances
    /\ instances' = instances \cup {th[t].name}
    /\ To(t, "starting")
    /\ UNCHANGED <<creates, lock, tripping, streak, mark, lifting, faults, people, lapsed>>

DaemonRefuses(t) ==
    /\ At(t, "making")
    /\ Came(t, "refused")
    /\ UNCHANGED <<creates, instances, lock, tripping, streak, mark, lifting, faults,
                   people, lapsed>>

DaemonFails(t) ==
    /\ th[t].at \in {"making", "starting"} /\ faults < MaxFaults
    /\ faults' = faults + 1
    /\ Came(t, "fault")
    /\ UNCHANGED <<creates, instances, lock, tripping, streak, mark, lifting, people,
                   lapsed>>

\* Started: what bootstrap makes of it no longer counts.
DaemonStarts(t) ==
    /\ At(t, "starting")
    /\ Came(t, "ok")
    /\ UNCHANGED <<creates, instances, lock, tripping, streak, mark, lifting, faults,
                   people, lapsed>>

-----------------------------------------------------------------------------
(* _note_launch() *)

\* _node_fault(): a refusal neither counts nor ends a streak.
Counts(how) == how # "refused"

\* The lock of the thread's process, taken for the whole of the count.
NoteBegins(t) ==
    /\ At(t, "note")
    /\ IF Counts(th[t].came)
       THEN /\ lock[th[t].proc] = {}
            /\ lock' = [lock EXCEPT ![th[t].proc] = {t}]
            /\ To(t, IF th[t].came = "ok" THEN "read" ELSE "add")
       ELSE To(t, "end") /\ UNCHANGED lock
    /\ UNCHANGED <<creates, instances, tripping, streak, mark, lifting, faults, people,
                   lapsed>>

Release(t) == lock' = [lock EXCEPT ![th[t].proc] = {}]

\* A success ends the streak, if there is one.
NoteReads(t) ==
    /\ At(t, "read")
    /\ IF streak > 0 THEN To(t, "clear") /\ UNCHANGED lock
                     ELSE To(t, "end") /\ Release(t)
    /\ UNCHANGED <<creates, instances, tripping, streak, mark, lifting, faults, people,
                   lapsed>>

NoteClears(t) ==
    /\ At(t, "clear")
    /\ streak' = 0
    /\ To(t, "end") /\ Release(t)
    /\ UNCHANGED <<creates, instances, tripping, mark, lifting, faults, people, lapsed>>

(* add_launch_failure() *)
NoteAdds(t) ==
    /\ At(t, "add")
    /\ streak' = streak + 1
    /\ th' = [th EXCEPT ![t].at = "decide", ![t].count = streak']
    /\ UNCHANGED <<creates, instances, lock, tripping, mark, lifting, faults, people, lapsed>>

\* Mutant: one failure more than the limit.
TripsLate(t) == th[t].count > Limit /\ ~tripping[th[t].proc] /\ ~Marked

\* Whether this failure is the one that marks the node.
Trips(t) == th[t].count >= Limit /\ ~tripping[th[t].proc] /\ ~Marked

NoteDecides(t) ==
    /\ At(t, "decide")
    /\ Release(t)
    /\ IF Trips(t)
       THEN tripping' = [tripping EXCEPT ![th[t].proc] = TRUE] /\ To(t, "trip")
       ELSE To(t, "end") /\ UNCHANGED tripping
    /\ UNCHANGED <<creates, instances, streak, mark, lifting, faults, people, lapsed>>

(* launches_failing(), which is set_maintenance(True): outside the lock. *)
Mark(t) ==
    /\ At(t, "trip")
    /\ mark' = "waterpump"
    /\ To(t, "tripped")
    /\ UNCHANGED <<creates, instances, lock, tripping, streak, lifting, faults, people,
                   lapsed>>

\* Writing the mark raises: said in the log, the launch's own error stands.
MarkFails(t) ==
    /\ At(t, "trip") /\ faults < MaxFaults
    /\ faults' = faults + 1 /\ lapsed' = TRUE
    /\ To(t, "tripped")
    /\ UNCHANGED <<creates, instances, lock, tripping, streak, mark, lifting, people>>

\* The flag goes down whatever came of it.
Untripped(p) == [tripping EXCEPT ![p] = FALSE]

MarkEnds(t) ==
    /\ At(t, "tripped")
    /\ tripping' = Untripped(th[t].proc)
    /\ To(t, "end")
    /\ UNCHANGED <<creates, instances, lock, streak, mark, lifting, faults, people, lapsed>>

\* The record is finished, and the next create of this name may begin.
CreateEnds(t) ==
    /\ At(t, "end")
    /\ creates' = [creates EXCEPT ![th[t].proc] = @ \ {th[t].name}]
    /\ th' = [th EXCEPT ![t] = Resting]
    /\ UNCHANGED <<instances, lock, tripping, streak, mark, lifting, faults, people, lapsed>>

-----------------------------------------------------------------------------
(* set_maintenance(True), by a person. *)
MarkByHand ==
    /\ people < MaxPeople /\ people' = people + 1
    /\ mark' = "someone"
    /\ UNCHANGED <<th, creates, instances, lock, tripping, streak, lifting, faults, lapsed>>

(* set_maintenance(False): the mark goes first, the streak after it. *)
Lift ==
    /\ people < MaxPeople /\ people' = people + 1
    /\ ~lifting /\ lifting' = TRUE
    /\ mark' = NoMark
    /\ lapsed' = (lapsed \/ \E t \in Threads : At(t, "tripped"))
    /\ UNCHANGED <<th, creates, instances, lock, tripping, streak, faults>>

LiftClears ==
    /\ lifting /\ lifting' = FALSE
    /\ streak' = 0
    /\ UNCHANGED <<th, creates, instances, lock, tripping, mark, faults, people, lapsed>>

\* Somebody deletes an instance.
Delete(n) ==
    /\ n \in instances /\ instances' = instances \ {n}
    /\ UNCHANGED <<th, creates, lock, tripping, streak, mark, lifting, faults, people,
                   lapsed>>

Next ==
    \/ \E t \in Threads :
          \/ \E p \in Procs, n \in Names : Create(t, p, n)
          \/ DaemonMakes(t) \/ DaemonRefuses(t) \/ DaemonFails(t) \/ DaemonStarts(t)
          \/ NoteBegins(t) \/ NoteReads(t) \/ NoteClears(t) \/ NoteAdds(t) \/ NoteDecides(t)
          \/ Mark(t) \/ MarkFails(t) \/ MarkEnds(t) \/ CreateEnds(t)
    \/ MarkByHand \/ Lift \/ LiftClears
    \/ \E n \in Names : Delete(n)

Spec == Init /\ [][Next]_launchVars

-----------------------------------------------------------------------------
AtRest == ~lifting /\ \A t \in Threads : At(t, "rest")

(* A node whose launches keep failing is in maintenance: however many threads  *)
(* and processes count failures, whoever marks it by hand and takes the mark   *)
(* away meanwhile, no streak of Limit is left standing without a mark, unless  *)
(* the mark could not be written.  Nor if a person lifts the mark while the    *)
(* thread that set it is still telling the members: until it is done no other  *)
(* thread of its process marks the node, however many more launches fail.      *)
FailingIsMarked == AtRest /\ ~lapsed /\ streak >= Limit => Marked

-----------------------------------------------------------------------------
(* Why it holds: the inductive invariant, proved in NodePartsProof. *)

Places == {"making", "starting", "note", "read", "clear", "add", "decide", "trip", "tripped", "end"}

Work == [at : Places, proc : Procs, name : Names, came : {"ok", "refused", "fault"},
         count : Nat]

TypeOK ==
    /\ th \in [Threads -> {Resting} \cup Work]
    /\ tripping \in [Procs -> BOOLEAN]
    /\ streak \in Nat /\ lifting \in BOOLEAN /\ lapsed \in BOOLEAN

\* The flag is up only while a thread of the process is about to mark the node, or has.
SomeoneTrips ==
    \A p \in Procs : tripping[p] =>
        \E t \in Threads : th[t].at \in {"trip", "tripped"} /\ th[t].proc = p

TrippedIsMarked == \A t \in Threads : At(t, "tripped") => Marked \/ lapsed

\* A streak that is long enough is marked, or a thread is on its way to it, or a person
\* is about to start it over.
StreakIsSeen ==
    streak >= Limit =>
        \/ Marked \/ lapsed \/ lifting
        \/ \E t \in Threads : At(t, "trip") \/ (At(t, "decide") /\ th[t].count >= Limit)

LaunchInv == TypeOK /\ SomeoneTrips /\ TrippedIsMarked /\ StreakIsSeen
=============================================================================
