------------------------------- MODULE Health -------------------------------
(***************************************************************************)
(* Health of one node's instances under `serve`: rounds, app checks on their  *)
(* own schedule, and the record of each instance that both of them write       *)
(* (src/waterpump/health.py, service.py).                                       *)
(*                                                                              *)
(* A round lists the running instances, reads their template's check, gives     *)
(* the checks to the scheduler, probes each instance, and folds what the        *)
(* scheduler has by then into the records.  The scheduler runs checks beside    *)
(* it; a save of the template reaches it at once from a thread of this process, *)
(* and at the next round from any other process.                                *)
(***************************************************************************)
EXTENDS Naturals, FiniteSets

CONSTANTS
    Instances,   \* of one template
    Checks,      \* scripts the template may have as its app check
    Limit,       \* failures_before_unhealthy
    Grace,       \* GRACE_ROUNDS
    MaxChanges   \* bound: what people do, and rounds in which the daemon misses an instance

VARIABLES
    saved,     \* the template's check, or NoCheck
    up,        \* instances that run
    building,  \* instances that are being created or bootstrapped
    telling,   \* saves of this process that have yet to reach the scheduler
    target,    \* target[i]: the check the scheduler has for i, or NoCheck
    due,       \* due[i]: "no", "now" or "later"
    missed,    \* missed[i]: rounds in a row that did not have i
    result,    \* result[i]: the latest result
    atWork,    \* the runs of checks
    round,     \* the round at work
    failures,  \* failures[i]: probes in a row without an answer
    base,      \* base[i]: the machine's status as the last round judged it, or NoCheck
    shown,     \* shown[i]: i's record, or NoRecord
    changes    \* so far, bounded by MaxChanges

healthVars == <<saved, up, building, telling, target, due, missed, result, atWork, round,
                failures, base, shown, changes>>

NoCheck == "no check"
NoResult == [of |-> NoCheck, critical |-> FALSE, streak |-> 0]
NoRecord == [app |-> NoResult, status |-> "none"]
Resting == [at |-> "rest", seen |-> {}, checks |-> [i \in Instances |-> NoCheck],
            probes |-> [i \in Instances |-> "none"], apps |-> [i \in Instances |-> NoResult]]

Init ==
    /\ saved \in Checks \cup {NoCheck} /\ up = Instances /\ building = {} /\ telling = {}
    /\ target = [i \in Instances |-> NoCheck] /\ due = [i \in Instances |-> "no"]
    /\ missed = [i \in Instances |-> 0] /\ result = [i \in Instances |-> NoResult]
    /\ atWork = {} /\ round = Resting /\ failures = [i \in Instances |-> 0]
    /\ base = [i \in Instances |-> NoCheck] /\ shown = [i \in Instances |-> NoRecord]
    /\ changes = 0

Changed == changes < MaxChanges /\ changes' = changes + 1

schedule == <<target, due, missed, result, atWork>>
records == <<failures, base, shown>>

-----------------------------------------------------------------------------
(* fold_app(): the machine's status, and the app's on top of it. *)
Status(b, app) ==
    IF b \notin {"healthy", "degraded"} \/ ~app.critical THEN b
    ELSE IF app.streak >= Limit THEN "unhealthy" ELSE "degraded"

Folded(b, app) == [app |-> app, status |-> Status(b, app)]

(* _app_result_landed(): into the record at once, when the last round had i. *)
Landed(recs, results, who) ==
    [i \in Instances |-> IF i \in who /\ recs[i] # NoRecord THEN Folded(base[i], results[i])
                         ELSE recs[i]]

-----------------------------------------------------------------------------
(* What people and the daemon do. *)

\* A save in this process, or a push, tells the scheduler next; one of another does not.
Save(c, here) ==
    /\ c # saved /\ Changed
    /\ saved' = c
    /\ telling' = IF here THEN telling \cup {c} ELSE telling
    /\ UNCHANGED <<up, building, round>> /\ UNCHANGED schedule /\ UNCHANGED records

(* update_template(), and the records of those it changed. *)
Tell(c) ==
    LET whose == {i \in Instances : target[i] \notin {NoCheck, c}} IN
    /\ c \in telling
    /\ telling' = telling \ {c}
    /\ target' = [i \in Instances |-> IF i \in whose THEN c ELSE target[i]]
    /\ due' = [i \in Instances |-> IF i \notin whose THEN due[i] ELSE IF c = NoCheck THEN "no" ELSE "now"]
    /\ result' = [i \in Instances |-> IF i \in whose THEN NoResult ELSE result[i]]
    /\ shown' = Landed(shown, result', whose)
    /\ UNCHANGED <<saved, up, building, missed, atWork, round, failures, base, changes>>

StopOrStart(i) ==
    /\ Changed
    /\ up' = IF i \in up THEN up \ {i} ELSE up \cup {i}
    /\ UNCHANGED <<saved, building, telling, round>> /\ UNCHANGED schedule /\ UNCHANGED records

Rebuild(i) ==
    /\ i \notin building /\ Changed /\ building' = building \cup {i}
    /\ UNCHANGED <<saved, up, telling, round>> /\ UNCHANGED schedule /\ UNCHANGED records

Built(i) ==
    /\ i \in building /\ building' = building \ {i}
    /\ UNCHANGED <<saved, up, telling, round, changes>> /\ UNCHANGED schedule /\ UNCHANGED records

-----------------------------------------------------------------------------
(* check_health(): a round. *)

\* _health_samples() and _app_checks(); the daemon may fail to report one as running.
RoundBegins(unseen) ==
    /\ round.at = "rest"
    /\ IF unseen = {} THEN UNCHANGED changes ELSE Changed
    /\ round' = [Resting EXCEPT !.at = "give", !.seen = up \ unseen,
                   !.checks = [i \in Instances |-> IF i \in (up \ unseen) \ building THEN saved ELSE NoCheck]]
    /\ UNCHANGED <<saved, up, building, telling>> /\ UNCHANGED schedule /\ UNCHANGED records

\* Mutant: one that comes back with the check it had is not put on the schedule again.
DueIfChanged(i, c) == IF c = target[i] THEN due[i] ELSE "now"

\* A new or changed check is due at once.
DueOnce(i, c) == IF c = target[i] /\ due[i] # "no" THEN due[i] ELSE "now"

(* set_targets(): an instance that is missing is kept, unscheduled, for a while. *)
RoundGives ==
    LET given == {i \in Instances : round.checks[i] # NoCheck}
        kept == {i \in Instances \ given : target[i] # NoCheck /\ missed[i] < Grace}
    IN
    /\ round.at = "give"
    /\ missed' = [i \in Instances |-> IF i \in kept THEN missed[i] + 1 ELSE 0]
    /\ result' = [i \in Instances |-> IF i \in given \cup kept THEN result[i] ELSE NoResult]
    /\ due' = [i \in Instances |-> IF i \in given THEN DueOnce(i, round.checks[i]) ELSE "no"]
    /\ target' = [i \in Instances |-> IF i \in given THEN round.checks[i]
                                      ELSE IF i \in kept THEN target[i] ELSE NoCheck]
    /\ round' = [round EXCEPT !.at = "probe"]
    /\ UNCHANGED <<saved, up, building, telling, atWork, changes>> /\ UNCHANGED records

\* A probe, and the latest result read beside it.
RoundProbes(i, answers) ==
    /\ round.at = "probe" /\ i \in round.seen /\ round.probes[i] = "none"
    /\ round' = [round EXCEPT !.probes[i] = answers,
                   !.apps[i] = IF round.checks[i] # NoCheck THEN result[i] ELSE NoResult]
    /\ UNCHANGED <<saved, up, building, telling, changes>> /\ UNCHANGED schedule /\ UNCHANGED records

\* evaluate(): one failed probe degrades, a streak of them is a failure.
Streak(i) == IF round.probes[i] = "answers" THEN 0
             ELSE IF failures[i] < Limit THEN failures[i] + 1 ELSE Limit

Judged(i) == IF Streak(i) >= Limit THEN "unhealthy"
             ELSE IF Streak(i) > 0 THEN "degraded" ELSE "healthy"

RoundEnds ==
    /\ round.at = "probe" /\ \A i \in round.seen : round.probes[i] # "none"
    /\ failures' = [i \in Instances |-> IF i \in round.seen THEN Streak(i) ELSE 0]
    /\ base' = [i \in Instances |-> IF i \in round.seen THEN Judged(i) ELSE NoCheck]
    /\ shown' = [i \in Instances |-> IF i \in round.seen THEN Folded(base'[i], round.apps[i])
                                     ELSE NoRecord]
    /\ round' = Resting
    /\ UNCHANGED <<saved, up, building, telling, changes>> /\ UNCHANGED schedule

-----------------------------------------------------------------------------
(* AppChecker. *)

IntervalPasses(i) ==
    /\ due[i] = "later" /\ due' = [due EXCEPT ![i] = "now"]
    /\ UNCHANGED <<saved, up, building, telling, target, missed, result, atWork, round, changes>>
    /\ UNCHANGED records

\* A run is scheduled from its start, and never overlaps the one before it.
Starts(i) ==
    /\ due[i] = "now" /\ \A r \in atWork : r.of # i
    /\ due' = [due EXCEPT ![i] = "later"]
    /\ atWork' = atWork \cup {[of |-> i, check |-> target[i]]}
    /\ UNCHANGED <<saved, up, building, telling, target, missed, result, round, changes>>
    /\ UNCHANGED records

StillAsked(r) == target[r.of] = r.check

(* _check(): dropped when the instance is being built, or retargeted meanwhile. *)
Answers(r, critical) ==
    /\ r \in atWork
    /\ atWork' = atWork \ {r}
    /\ IF r.of \notin building /\ StillAsked(r)
       THEN /\ result' = [result EXCEPT ![r.of] =
                 [of |-> r.check, critical |-> critical,
                  streak |-> IF ~critical THEN 0 ELSE IF @.streak < Limit THEN @.streak + 1 ELSE Limit]]
            /\ shown' = Landed(shown, result', {r.of})
       ELSE UNCHANGED <<result, shown>>
    /\ UNCHANGED <<saved, up, building, telling, target, due, missed, round, failures, base, changes>>

Next ==
    \/ \E c \in Checks \cup {NoCheck} : \/ \E here \in BOOLEAN : Save(c, here)
                                        \/ Tell(c)
    \/ \E i \in Instances :
          \/ StopOrStart(i) \/ Rebuild(i) \/ Built(i) \/ IntervalPasses(i) \/ Starts(i)
          \/ \E answers \in {"answers", "silent"} : RoundProbes(i, answers)
    \/ \E unseen \in SUBSET up : RoundBegins(unseen)
    \/ RoundGives \/ RoundEnds
    \/ \E r \in [of : Instances, check : Checks], critical \in BOOLEAN : Answers(r, critical)

(* Rounds follow one another for as long as serve runs, and so do the ticks of the *)
(* scheduler; a probe and a check both have a time limit.                          *)
Fairness ==
    /\ WF_healthVars(RoundBegins({})) /\ WF_healthVars(RoundGives) /\ WF_healthVars(RoundEnds)
    /\ \A c \in Checks \cup {NoCheck} : WF_healthVars(Tell(c))
    /\ \A i \in Instances :
         /\ WF_healthVars(Built(i)) /\ WF_healthVars(IntervalPasses(i)) /\ WF_healthVars(Starts(i))
         /\ WF_healthVars(\E answers \in {"answers", "silent"} : RoundProbes(i, answers))
         /\ WF_healthVars(\E c \in Checks, critical \in BOOLEAN :
                             Answers([of |-> i, check |-> c], critical))

Spec == Init /\ [][Next]_healthVars /\ Fairness

-----------------------------------------------------------------------------
(* However saves, restarts, missed rounds and slow checks cross, in the end each    *)
(* instance that runs shows a result of the check its template has by then, and     *)
(* one without a check shows none.                                                  *)
ShownIsSaved == \A i \in up : shown[i] # NoRecord /\ shown[i].app.of = saved
ShowsWhatIsSaved == <>[]ShownIsSaved

(* "Their old result goes too -- its streak belongs to a script that is no longer   *)
(* the check." (health.py): a streak that counts is of the check that made it.       *)
StreakIsOfOneCheck ==
    [][\A i \in Instances :
          result'[i].streak > result[i].streak /\ result[i].streak > 0 =>
             result[i].of = result'[i].of]_healthVars
=============================================================================
