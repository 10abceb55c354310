------------------------------- MODULE MCLive -------------------------------
(* What must end or settle, in components that share no state, checked in one     *)
(* run: a behaviour is one of them from its initial states on, under its own       *)
(* fairness, and `part` says which.  Its variables are s1, s2, ...; those it has   *)
(* no use for stay idle.                                                           *)
EXTENDS Naturals, Sequences, FiniteSets

CONSTANTS Serve, r, c

VARIABLES part, s1, s2, s3, s4, s5, s6, s7, s8, s9, s10, s11, s12, s13, s14, s15, s16

vars == <<part, s1, s2, s3, s4, s5, s6, s7, s8, s9, s10, s11, s12, s13, s14, s15, s16>>

\* A run of `serve` and one of a CLI command, under two restarts.
Runs == INSTANCE TaskRuns WITH
    ServeRuns <- {r}, CliRuns <- {c}, Kept <- 2, MaxRuns <- 1, MaxRestarts <- 2,
    MaxFailures <- 2, MayReusePid <- FALSE,
    alive <- s1, pids <- s2, stage <- s3, result <- s4, stopped <- s5, stopping <- s6,
    live <- s7, requested <- s8, instances <- s9, started <- s10, file <- s11, saves <- s12,
    sweep <- s13, restarts <- s14, failures <- s15, overlapped <- s16

Health == INSTANCE Health WITH
    Instances <- {"i"}, Checks <- {"c", "d"}, Limit <- 2, Grace <- 1, MaxChanges <- 2,
    saved <- s1, up <- s2, building <- s3, telling <- s4, target <- s5, due <- s6,
    missed <- s7, result <- s8, atWork <- s9, round <- s10, failures <- s11, base <- s12,
    shown <- s13, changes <- s14

ASSUME ConstantsFit == Runs!RunsAssumption /\ Runs!BoundsAssumption

Init ==
    \/ part = "runs" /\ Runs!Init
    \/ part = "health" /\ Health!Init /\ s15 = 0 /\ s16 = 0

Next ==
    \/ part = "runs" /\ Runs!Next /\ UNCHANGED part
    \/ part = "health" /\ Health!Next /\ UNCHANGED <<s15, s16, part>>

\* The fairness of each component, in the behaviours that are the component's.
RunsFairness ==
    /\ \A x \in Runs!Runs :
          /\ WF_(Runs!vars)(part = "runs" /\ Runs!Worker(x))
          /\ WF_(Runs!vars)(part = "runs" /\ Runs!DaemonCreates(x))
          /\ WF_(Runs!vars)(part = "runs" /\ Runs!StopRemoves(x))
    /\ \A p \in Runs!Process :
          WF_(Runs!vars)(part = "runs" /\ \E s \in s12 : s.by = p /\ Runs!SaveEnds(s))
    /\ WF_(Runs!vars)(part = "runs" /\ Runs!ServeBegins)
    /\ WF_(Runs!vars)(part = "runs" /\ Runs!Sweeper)

HealthFairness ==
    /\ WF_(Health!healthVars)(part = "health" /\ Health!RoundBegins({}))
    /\ WF_(Health!healthVars)(part = "health" /\ Health!RoundGives)
    /\ WF_(Health!healthVars)(part = "health" /\ Health!RoundEnds)
    /\ \A k \in {"c", "d", Health!NoCheck} :
          WF_(Health!healthVars)(part = "health" /\ Health!Tell(k))
    /\ WF_(Health!healthVars)(part = "health" /\ Health!Built("i"))
    /\ WF_(Health!healthVars)(part = "health" /\ Health!IntervalPasses("i"))
    /\ WF_(Health!healthVars)(part = "health" /\ Health!Starts("i"))
    /\ WF_(Health!healthVars)(
          part = "health" /\ \E x \in {"answers", "silent"} : Health!RoundProbes("i", x))
    /\ WF_(Health!healthVars)(
          part = "health" /\ \E k \in {"c", "d"}, critical \in BOOLEAN :
                                Health!Answers([of |-> "i", check |-> k], critical))

Spec == Init /\ [][Next]_vars /\ RunsFairness /\ HealthFairness

\* What a run leaves behind is swept, and its record closed (TaskRuns).
GoneIsSettled == \A x \in Runs!Runs : []<>(part = "runs" => ~Runs!Unsettled(x))

\* In the end each instance that runs shows a result of its check (Health).
ShowsWhatIsSaved == <>[](part = "health" => Health!ShownIsSaved)
=============================================================================
