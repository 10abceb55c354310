---------------------------- MODULE StackRunProof ---------------------------
(***************************************************************************)
(* The swarms of a run keep their order and are torn down for good          *)
(* (StackRun), for any plan, members and bounds.  The invariant has three    *)
(* layers: which threads go at a stage (ThreadsFit, StatesFit, BegunFits,     *)
(* SwarmsInSequence), what the launches' shares are at (SharesFit), and what   *)
(* a teardown has seen of them (TearFits, TornDownLeavesNothing).  The first    *)
(* is shown for each way a thread moves, the others for each action that        *)
(* touches the launches or the teardown, and once for all that do not.           *)
(***************************************************************************)
EXTENDS StackRun, TLAPS

-----------------------------------------------------------------------------
(* The plan. *)

\* Stages are numbered, and each has steps of the plan.
LEMMA Plans ==
    /\ Len(Plan) \in Nat
    /\ \A i \in Stages : i \in Nat /\ 1 <= i /\ i <= Len(Plan) /\ Plan[i] \subseteq Step /\ Plan[i] # {}
  BY PlanAssumption DEF Stages, Step

\* A step has a stage.
LEMMA HasStage == \A s \in Step : \E i \in Stages : s \in Plan[i]
  BY DEF Step

\* A step has no two stages.
LEMMA OneStage == \A i, j \in Stages : \A s \in Plan[i] : s \in Plan[j] => i = j
  BY PlanAssumption

\* The swarm of a stage is that of each of its steps.
LEMMA SwarmIs == \A i \in Stages : \A s \in Plan[i] : Swarm(i) = SwarmOf[s]
  <1> SUFFICES ASSUME NEW i \in Stages, NEW s \in Plan[i] PROVE Swarm(i) = SwarmOf[s]
    OBVIOUS
  <1>1. (CHOOSE t \in Plan[i] : TRUE) \in Plan[i]
    OBVIOUS
  <1> QED  BY <1>1, PlanAssumption DEF Swarm

\* No launch is a teardown.
LEMMA Kinds2 == Launches \cap Teardowns = {} /\ Launches \subseteq Step /\ Teardowns \subseteq Step
  BY DEF Launches, Teardowns

\* Nothing of a swarm comes after its teardown, and nothing beside it.
LEMMA TeardownIsLast ==
    \A i, j \in Stages : \A s \in Plan[i] \cap Teardowns, t \in Plan[j] :
        SwarmOf[s] = SwarmOf[t] => j < i \/ (i = j /\ s = t)
  <1> SUFFICES ASSUME NEW i \in Stages, NEW j \in Stages, NEW s \in Plan[i] \cap Teardowns,
                      NEW t \in Plan[j], SwarmOf[s] = SwarmOf[t]
               PROVE  j < i \/ (i = j /\ s = t)
    OBVIOUS
  <1>1. Swarm(i) = Swarm(j)
    BY SwarmIs
  <1>2. Plan[i] = {s} /\ (i < j => Swarm(j) # Swarm(i))
    BY SwarmsAssumption
  <1>3. ~(i < j)
    BY <1>1, <1>2
  <1>4. i \in Nat /\ j \in Nat
    BY Plans
  <1>5. CASE i = j
    BY <1>2, <1>5
  <1>6. CASE i # j
    BY <1>3, <1>4, <1>6
  <1> QED  BY <1>5, <1>6

-----------------------------------------------------------------------------
(* The first layer. *)

\* What the proofs below need of types.
LEMMA Typed ==
    ASSUME TypeOK
    PROVE  /\ at \in Nat /\ at >= 1 /\ at <= Len(Plan) + 1
           /\ state \in [Step -> State] /\ thread \in [Step -> Thread]
           /\ driver = "running" => at \in Stages
           /\ driver \in {"looking", "running", "finished"}
           /\ stopped \in {"no", "cancelled", "skipped"} /\ following \subseteq Launches
  BY Plans DEF TypeOK

\* Where nothing of it changes, the layer stands.
LEMMA Control0 ==
    ASSUME ThreadsFit, StatesFit, BegunFits, SwarmsInSequence,
           UNCHANGED <<at, driver, begun, stopped, cancelling, state, thread, following>>
    PROVE  ThreadsFit' /\ StatesFit' /\ BegunFits' /\ SwarmsInSequence'
  <1>1. ThreadsFit'
    BY DEF ThreadsFit
  <1>2. StatesFit'
    BY DEF StatesFit, Halting, AnyFailed
  <1>3. BegunFits'
    BY DEF BegunFits
  <1>4. SwarmsInSequence'
    BY DEF SwarmsInSequence
  <1> QED  BY <1>1, <1>2, <1>3, <1>4

\* A thread that ends, well or not.
LEMMA ControlEnds ==
    ASSUME TypeOK, ThreadsFit, StatesFit, BegunFits, SwarmsInSequence,
           NEW s \in Step, NEW how \in {"done", "failed", "cancelled"},
           thread[s] \in {"begun", "checked", "awaiting"}, Ends(s, how),
           how = "cancelled" => Halting /\ s \notin Teardowns,
           UNCHANGED <<at, driver, begun, stopped, cancelling, following>>
    PROVE  ThreadsFit' /\ StatesFit' /\ BegunFits' /\ SwarmsInSequence'
  <1> USE Typed
  <1>a. /\ state' = [state EXCEPT ![s] = how] /\ thread' = [thread EXCEPT ![s] = "ended"]
        /\ state'[s] = how /\ thread'[s] = "ended"
        /\ \A t \in Step : t # s => state'[t] = state[t] /\ thread'[t] = thread[t]
    BY DEF Ends
  <1>b. state[s] = "running" /\ thread[s] # "none" /\ thread[s] # "ended"
    BY DEF StatesFit
  <1>c. \A t \in Step : /\ thread'[t] = "none" <=> thread[t] = "none"
                        /\ thread'[t] = "none" => state'[t] = state[t]
                        /\ state[t] \in {"done", "failed"} => state'[t] = state[t]
    BY <1>a, <1>b
  <1>d. Halting => Halting'
    BY <1>c DEF Halting, AnyFailed
  <1>e. \A i \in Stages : Plan[i] \subseteq Step
    BY Plans
  <1>1. ThreadsFit'
    <2>1. (\A t \in Step : thread[t] \notin {"none", "ended"} => driver = "running" /\ t \in Plan[at])'
      BY <1>a DEF ThreadsFit
    <2>2. (driver = "running" => \A t \in Plan[at] : thread[t] # "none")'
      BY <1>c, <1>e DEF ThreadsFit
    <2>3. (\A i \in Stages : i > at \/ (i = at /\ driver = "looking") =>
              \A t \in Plan[i] : thread[t] = "none")'
      BY <1>c, <1>e DEF ThreadsFit
    <2>4. (\A i \in Stages : i < at => \A t \in Plan[i] :
              thread[t] = "none" => stopped # "no" /\ state[t] \in {"skipped", "cancelled"})'
      BY <1>c, <1>e DEF ThreadsFit
    <2>5. (driver = "finished" => at > Len(Plan) /\ following = {})'
      BY DEF ThreadsFit
    <2> QED  BY <2>1, <2>2, <2>3, <2>4, <2>5 DEF ThreadsFit
  <1>2. StatesFit'
    <2> SUFFICES ASSUME NEW t \in Step
                 PROVE  (/\ thread[t] = "none" => state[t] \in {"pending", "skipped", "cancelled"}
                         /\ thread[t] \in {"begun", "checked", "awaiting"} => state[t] = "running"
                         /\ thread[t] = "ended" => state[t] \in {"ready", "done", "failed", "cancelled"}
                         /\ thread[t] = "ended" /\ state[t] = "cancelled" => Halting
                         /\ state[t] = "ready" <=> t \in following
                         /\ thread[t] \in {"checked", "awaiting"} => t \in Launches
                         /\ thread[t] = "ended" /\ t \in Teardowns => state[t] \in {"done", "failed"})'
      BY DEF StatesFit
    <2>1. CASE t = s
      <3>1. s \notin following
        BY <1>b DEF StatesFit
      <3> QED  BY <1>a, <1>d, <2>1, <3>1
    <2>2. CASE t # s
      BY <1>a, <1>d, <2>2 DEF StatesFit
    <2> QED  BY <2>1, <2>2
  <1>3. BegunFits'
    <2>1. (\A w \in begun : \E k \in Stages : Swarm(k) = w /\ \A t \in Plan[k] : thread[t] # "none")'
      BY <1>c, <1>e DEF BegunFits
    <2>2. (\A t \in Step : thread[t] # "none" => SwarmOf[t] \in begun)'
      BY <1>c DEF BegunFits
    <2>3. (\A i \in Stages : i < at => \A t \in Plan[i] \cap Teardowns :
              SwarmOf[t] \in begun => thread[t] # "none")'
      BY <1>c, <1>e DEF BegunFits
    <2> QED  BY <2>1, <2>2, <2>3 DEF BegunFits
  <1>4. SwarmsInSequence'
    BY <1>c, <1>e DEF SwarmsInSequence
  <1> QED  BY <1>1, <1>2, <1>3, <1>4

\* A launch's thread that goes on.
LEMMA ControlGoesOn ==
    ASSUME TypeOK, ThreadsFit, StatesFit, BegunFits, SwarmsInSequence,
           NEW s \in Launches, NEW to \in {"checked", "awaiting"},
           thread[s] \in {"begun", "checked"}, thread' = [thread EXCEPT ![s] = to],
           UNCHANGED <<at, driver, begun, stopped, cancelling, state, following>>
    PROVE  ThreadsFit' /\ StatesFit' /\ BegunFits' /\ SwarmsInSequence'
  <1> USE Typed
  <1>a. /\ s \in Step /\ thread'[s] = to
        /\ \A t \in Step : t # s => thread'[t] = thread[t]
    BY Kinds2
  <1>b. state[s] = "running"
    BY <1>a DEF StatesFit
  <1>c. \A t \in Step : thread'[t] = "none" <=> thread[t] = "none"
    BY <1>a
  <1>e. \A i \in Stages : Plan[i] \subseteq Step
    BY Plans
  <1>1. ThreadsFit'
    <2>1. (\A t \in Step : thread[t] \notin {"none", "ended"} => driver = "running" /\ t \in Plan[at])'
      BY <1>a DEF ThreadsFit
    <2>2. (driver = "running" => \A t \in Plan[at] : thread[t] # "none")'
      BY <1>c, <1>e DEF ThreadsFit
    <2>3. (\A i \in Stages : i > at \/ (i = at /\ driver = "looking") =>
              \A t \in Plan[i] : thread[t] = "none")'
      BY <1>c, <1>e DEF ThreadsFit
    <2>4. (\A i \in Stages : i < at => \A t \in Plan[i] :
              thread[t] = "none" => stopped # "no" /\ state[t] \in {"skipped", "cancelled"})'
      BY <1>c, <1>e DEF ThreadsFit
    <2>5. (driver = "finished" => at > Len(Plan) /\ following = {})'
      BY DEF ThreadsFit
    <2> QED  BY <2>1, <2>2, <2>3, <2>4, <2>5 DEF ThreadsFit
  <1>2. StatesFit'
    BY <1>a, <1>b, Kinds2 DEF StatesFit, Halting, AnyFailed
  <1>3. BegunFits'
    <2>1. (\A w \in begun : \E k \in Stages : Swarm(k) = w /\ \A t \in Plan[k] : thread[t] # "none")'
      BY <1>c, <1>e DEF BegunFits
    <2>2. (\A t \in Step : thread[t] # "none" => SwarmOf[t] \in begun)'
      BY <1>c DEF BegunFits
    <2>3. (\A i \in Stages : i < at => \A t \in Plan[i] \cap Teardowns :
              SwarmOf[t] \in begun => thread[t] # "none")'
      BY <1>c, <1>e DEF BegunFits
    <2> QED  BY <2>1, <2>2, <2>3 DEF BegunFits
  <1>4. SwarmsInSequence'
    BY <1>c, <1>e DEF SwarmsInSequence
  <1> QED  BY <1>1, <1>2, <1>3, <1>4

\* A launch that is ready: its thread ends, and a follower waits in its place.
LEMMA ControlReady ==
    ASSUME TypeOK, ThreadsFit, StatesFit, BegunFits, SwarmsInSequence,
           NEW s \in Launches, thread[s] = "awaiting",
           state' = [state EXCEPT ![s] = "ready"], thread' = [thread EXCEPT ![s] = "ended"],
           following' = following \cup {s},
           UNCHANGED <<at, driver, begun, stopped, cancelling>>
    PROVE  ThreadsFit' /\ StatesFit' /\ BegunFits' /\ SwarmsInSequence'
  <1> USE Typed
  <1>a. /\ s \in Step /\ s \notin Teardowns /\ state'[s] = "ready" /\ thread'[s] = "ended"
        /\ \A t \in Step : t # s => state'[t] = state[t] /\ thread'[t] = thread[t]
    BY Kinds2
  <1>b. state[s] = "running" /\ driver = "running"
    BY <1>a DEF StatesFit, ThreadsFit
  <1>c. \A t \in Step : /\ thread'[t] = "none" <=> thread[t] = "none"
                        /\ thread'[t] = "none" => state'[t] = state[t]
                        /\ state[t] \in {"done", "failed"} => state'[t] = state[t]
    BY <1>a, <1>b
  <1>d. Halting => Halting'
    BY <1>c DEF Halting, AnyFailed
  <1>e. \A i \in Stages : Plan[i] \subseteq Step
    BY Plans
  <1>1. ThreadsFit'
    <2>1. (\A t \in Step : thread[t] \notin {"none", "ended"} => driver = "running" /\ t \in Plan[at])'
      BY <1>a DEF ThreadsFit
    <2>2. (driver = "running" => \A t \in Plan[at] : thread[t] # "none")'
      BY <1>c, <1>e DEF ThreadsFit
    <2>3. (\A i \in Stages : i > at \/ (i = at /\ driver = "looking") =>
              \A t \in Plan[i] : thread[t] = "none")'
      BY <1>c, <1>e DEF ThreadsFit
    <2>4. (\A i \in Stages : i < at => \A t \in Plan[i] :
              thread[t] = "none" => stopped # "no" /\ state[t] \in {"skipped", "cancelled"})'
      BY <1>c, <1>e DEF ThreadsFit
    <2>5. (driver = "finished" => at > Len(Plan) /\ following = {})'
      BY <1>b DEF ThreadsFit
    <2> QED  BY <2>1, <2>2, <2>3, <2>4, <2>5 DEF ThreadsFit
  <1>2. StatesFit'
    <2> SUFFICES ASSUME NEW t \in Step
                 PROVE  (/\ thread[t] = "none" => state[t] \in {"pending", "skipped", "cancelled"}
                         /\ thread[t] \in {"begun", "checked", "awaiting"} => state[t] = "running"
                         /\ thread[t] = "ended" => state[t] \in {"ready", "done", "failed", "cancelled"}
                         /\ thread[t] = "ended" /\ state[t] = "cancelled" => Halting
                         /\ state[t] = "ready" <=> t \in following
                         /\ thread[t] \in {"checked", "awaiting"} => t \in Launches
                         /\ thread[t] = "ended" /\ t \in Teardowns => state[t] \in {"done", "failed"})'
      BY DEF StatesFit
    <2>1. CASE t = s
      BY <1>a, <1>d, <2>1
    <2>2. CASE t # s
      BY <1>a, <1>d, <2>2 DEF StatesFit
    <2> QED  BY <2>1, <2>2
  <1>3. BegunFits'
    <2>1. (\A w \in begun : \E k \in Stages : Swarm(k) = w /\ \A t \in Plan[k] : thread[t] # "none")'
      BY <1>c, <1>e DEF BegunFits
    <2>2. (\A t \in Step : thread[t] # "none" => SwarmOf[t] \in begun)'
      BY <1>c DEF BegunFits
    <2>3. (\A i \in Stages : i < at => \A t \in Plan[i] \cap Teardowns :
              SwarmOf[t] \in begun => thread[t] # "none")'
      BY <1>c, <1>e DEF BegunFits
    <2> QED  BY <2>1, <2>2, <2>3 DEF BegunFits
  <1>4. SwarmsInSequence'
    BY <1>c, <1>e DEF SwarmsInSequence
  <1> QED  BY <1>1, <1>2, <1>3, <1>4

\* A follower that ends.
LEMMA ControlFollower ==
    ASSUME TypeOK, ThreadsFit, StatesFit, BegunFits, SwarmsInSequence,
           NEW s \in Step, FollowerEnds(s)
    PROVE  ThreadsFit' /\ StatesFit' /\ BegunFits' /\ SwarmsInSequence'
  <1> USE Typed
  <1>0. PICK how \in {"done", "failed", "cancelled"} :
            Reported(s, how) /\ state' = [state EXCEPT ![s] = how]
    BY DEF FollowerEnds
  <1>u. /\ s \in following /\ following' = following \ {s}
        /\ UNCHANGED <<at, driver, begun, stopped, cancelling, thread>>
    BY DEF FollowerEnds, runnerVars
  <1>h. how = "cancelled" => Halting
    BY <1>0 DEF Reported
  <1>a. /\ s \notin Teardowns /\ state'[s] = how
        /\ \A t \in Step : t # s => state'[t] = state[t]
    BY <1>0, <1>u, Kinds2
  <1>b. state[s] = "ready" /\ thread[s] = "ended"
    BY <1>u DEF StatesFit, Thread
  <1>c. \A t \in Step : /\ thread'[t] = "none" => state'[t] = state[t]
                        /\ state[t] \in {"done", "failed"} => state'[t] = state[t]
    BY <1>a, <1>b, <1>u
  <1>d. Halting => Halting'
    BY <1>c, <1>u DEF Halting, AnyFailed
  <1>e. \A i \in Stages : Plan[i] \subseteq Step
    BY Plans
  <1>1. ThreadsFit'
    <2>4. (\A i \in Stages : i < at => \A t \in Plan[i] :
              thread[t] = "none" => stopped # "no" /\ state[t] \in {"skipped", "cancelled"})'
      BY <1>c, <1>e, <1>u DEF ThreadsFit
    <2>5. (driver = "finished" => at > Len(Plan) /\ following = {})'
      BY <1>u DEF ThreadsFit
    <2> QED  BY <1>u, <2>4, <2>5 DEF ThreadsFit
  <1>2. StatesFit'
    <2> SUFFICES ASSUME NEW t \in Step
                 PROVE  (/\ thread[t] = "none" => state[t] \in {"pending", "skipped", "cancelled"}
                         /\ thread[t] \in {"begun", "checked", "awaiting"} => state[t] = "running"
                         /\ thread[t] = "ended" => state[t] \in {"ready", "done", "failed", "cancelled"}
                         /\ thread[t] = "ended" /\ state[t] = "cancelled" => Halting
                         /\ state[t] = "ready" <=> t \in following
                         /\ thread[t] \in {"checked", "awaiting"} => t \in Launches
                         /\ thread[t] = "ended" /\ t \in Teardowns => state[t] \in {"done", "failed"})'
      BY DEF StatesFit
    <2>1. CASE t = s
      BY <1>a, <1>b, <1>d, <1>h, <1>u, <2>1
    <2>2. CASE t # s
      BY <1>a, <1>d, <1>u, <2>2 DEF StatesFit
    <2> QED  BY <2>1, <2>2
  <1>3. BegunFits'
    BY <1>u DEF BegunFits
  <1>4. SwarmsInSequence'
    BY <1>c, <1>e, <1>u DEF SwarmsInSequence
  <1> QED  BY <1>1, <1>2, <1>3, <1>4

\* Why the run goes on, or not.
LEMMA VerdictIs ==
    ASSUME TypeOK
    PROVE  /\ Verdict \in {"no", "cancelled", "skipped"}
           /\ Verdict = "no" => stopped = "no" /\ ~cancelling /\ ~AnyFailed
           /\ stopped # "no" => Verdict = stopped
  <1> USE Typed
  <1>0. cancelling \in BOOLEAN
    BY DEF TypeOK
  <1>1. CASE stopped # "no"
    BY <1>1 DEF Verdict
  <1>2. CASE stopped = "no" /\ cancelling
    BY <1>2 DEF Verdict
  <1>3. CASE stopped = "no" /\ ~cancelling /\ AnyFailed
    BY <1>3 DEF Verdict
  <1>4. CASE stopped = "no" /\ ~cancelling /\ ~AnyFailed
    BY <1>4 DEF Verdict
  <1> QED  BY <1>0, <1>1, <1>2, <1>3, <1>4

\* The run is told to stop.
LEMMA ControlCancel ==
    ASSUME TypeOK, ThreadsFit, StatesFit, BegunFits, SwarmsInSequence, Cancel
    PROVE  ThreadsFit' /\ StatesFit' /\ BegunFits' /\ SwarmsInSequence'
  <1>u. UNCHANGED <<at, driver, begun, stopped, state, thread, following>> /\ cancelling'
    BY DEF Cancel
  <1>1. ThreadsFit'
    BY <1>u DEF ThreadsFit
  <1>2. StatesFit'
    BY <1>u DEF StatesFit, Halting, AnyFailed
  <1>3. BegunFits'
    BY <1>u DEF BegunFits
  <1>4. SwarmsInSequence'
    BY <1>u DEF SwarmsInSequence
  <1> QED  BY <1>1, <1>2, <1>3, <1>4

\* The last stage is over.
LEMMA ControlFinish ==
    ASSUME TypeOK, ThreadsFit, StatesFit, BegunFits, SwarmsInSequence, Finish
    PROVE  ThreadsFit' /\ StatesFit' /\ BegunFits' /\ SwarmsInSequence'
  <1> USE Typed, Plans
  <1>u. /\ UNCHANGED <<at, begun, stopped, cancelling, state, thread, following>>
        /\ driver = "looking" /\ driver' = "finished" /\ at > Len(Plan) /\ following = {}
    BY DEF Finish
  <1>1. ThreadsFit'
    <2>1. \A i \in Stages : ~(i > at) /\ i # at
      BY <1>u
    <2> QED  BY <1>u, <2>1 DEF ThreadsFit
  <1>2. StatesFit'
    BY <1>u DEF StatesFit, Halting, AnyFailed
  <1>3. BegunFits'
    BY <1>u DEF BegunFits
  <1>4. SwarmsInSequence'
    BY <1>u DEF SwarmsInSequence
  <1> QED  BY <1>1, <1>2, <1>3, <1>4

\* The threads of a stage were joined.
LEMMA ControlEndStage ==
    ASSUME TypeOK, ThreadsFit, StatesFit, BegunFits, SwarmsInSequence, EndStage
    PROVE  ThreadsFit' /\ StatesFit' /\ BegunFits' /\ SwarmsInSequence'
  <1> USE Typed, Plans
  <1>u. /\ UNCHANGED <<begun, stopped, cancelling, state, thread, following>>
        /\ driver = "running" /\ driver' = "looking" /\ at' = at + 1 /\ at \in Stages
        /\ \A s \in Plan[at] : thread[s] = "ended"
    BY DEF EndStage
  <1>o. \A i \in Stages : /\ i > at' \/ (i = at' /\ driver' = "looking") => i > at
                          /\ i < at' => i < at \/ i = at
    BY <1>u
  <1>1. ThreadsFit'
    <2>1. (\A s \in Step : thread[s] \notin {"none", "ended"} => driver = "running" /\ s \in Plan[at])'
      BY <1>u DEF ThreadsFit
    <2>3. (\A i \in Stages : i > at \/ (i = at /\ driver = "looking") =>
              \A s \in Plan[i] : thread[s] = "none")'
      BY <1>o, <1>u DEF ThreadsFit
    <2>4. (\A i \in Stages : i < at => \A s \in Plan[i] :
              thread[s] = "none" => stopped # "no" /\ state[s] \in {"skipped", "cancelled"})'
      BY <1>o, <1>u DEF ThreadsFit
    <2> QED  BY <1>u, <2>1, <2>3, <2>4 DEF ThreadsFit
  <1>2. StatesFit'
    BY <1>u DEF StatesFit, Halting, AnyFailed
  <1>3. BegunFits'
    <2>3. (\A i \in Stages : i < at => \A s \in Plan[i] \cap Teardowns :
              SwarmOf[s] \in begun => thread[s] # "none")'
      BY <1>o, <1>u DEF BegunFits
    <2> QED  BY <1>u, <2>3 DEF BegunFits
  <1>4. SwarmsInSequence'
    BY <1>u DEF SwarmsInSequence
  <1> QED  BY <1>1, <1>2, <1>3, <1>4

\* A stage that is passed over: no teardown of a swarm that begun is.
LEMMA ControlSkipStage ==
    ASSUME TypeOK, ThreadsFit, StatesFit, BegunFits, SwarmsInSequence, SkipStage
    PROVE  ThreadsFit' /\ StatesFit' /\ BegunFits' /\ SwarmsInSequence'
  <1> USE Typed, Plans
  <1>u. /\ UNCHANGED <<driver, begun, cancelling, thread, following>>
        /\ driver = "looking" /\ at' = at + 1 /\ at \in Stages
        /\ stopped' = Verdict /\ Verdict \in {"cancelled", "skipped"}
        /\ state' = [s \in Step |-> IF s \in Plan[at] THEN Verdict ELSE state[s]]
    BY VerdictIs DEF SkipStage, Looks
  <1>o. \A i \in Stages : /\ i > at' \/ (i = at' /\ driver' = "looking") => i > at
                          /\ i < at' => i < at \/ i = at
    BY <1>u
  <1>p. \A s \in Plan[at] : s \in Step /\ thread[s] = "none" /\ state'[s] = Verdict
    BY <1>u DEF ThreadsFit
  <1>q. \A s \in Step : s \notin Plan[at] => state'[s] = state[s]
    BY <1>u
  <1>c. \A s \in Step : thread[s] # "none" => state'[s] = state[s]
    BY <1>p, <1>q
  <1>1. ThreadsFit'
    <2>1. (\A s \in Step : thread[s] \notin {"none", "ended"} => driver = "running" /\ s \in Plan[at])'
      BY <1>u DEF ThreadsFit
    <2>3. (\A i \in Stages : i > at \/ (i = at /\ driver = "looking") =>
              \A s \in Plan[i] : thread[s] = "none")'
      BY <1>o, <1>u DEF ThreadsFit
    <2>4. (\A i \in Stages : i < at => \A s \in Plan[i] :
              thread[s] = "none" => stopped # "no" /\ state[s] \in {"skipped", "cancelled"})'
      <3> SUFFICES ASSUME NEW i \in Stages, i < at', NEW s \in Plan[i], thread[s] = "none"
                   PROVE  state'[s] \in {"skipped", "cancelled"}
        BY <1>u
      <3>1. CASE i = at
        BY <1>p, <1>u, <3>1
      <3>2. CASE i # at
        <4>1. i < at
          BY <1>o, <3>2
        <4>2. s \in Step /\ s \notin Plan[at] /\ state[s] \in {"skipped", "cancelled"}
          BY <1>u, <3>2, <4>1, OneStage DEF ThreadsFit
        <4> QED  BY <1>q, <4>2
      <3> QED  BY <3>1, <3>2
    <2> QED  BY <1>u, <2>1, <2>3, <2>4 DEF ThreadsFit
  <1>2. StatesFit'
    <2>1. Halting => Halting'
      <3>1. \A s \in Step : state[s] = "failed" => thread[s] # "none"
        BY DEF StatesFit
      <3> QED  BY <1>c, <1>u, <3>1 DEF Halting, AnyFailed
    <2> SUFFICES ASSUME NEW t \in Step
                 PROVE  (/\ thread[t] = "none" => state[t] \in {"pending", "skipped", "cancelled"}
                         /\ thread[t] \in {"begun", "checked", "awaiting"} => state[t] = "running"
                         /\ thread[t] = "ended" => state[t] \in {"ready", "done", "failed", "cancelled"}
                         /\ thread[t] = "ended" /\ state[t] = "cancelled" => Halting
                         /\ state[t] = "ready" <=> t \in following
                         /\ thread[t] \in {"checked", "awaiting"} => t \in Launches
                         /\ thread[t] = "ended" /\ t \in Teardowns => state[t] \in {"done", "failed"})'
      BY DEF StatesFit
    <2>2. CASE t \in Plan[at]
      <3>1. thread[t] = "none" /\ state[t] # "ready"
        BY <1>p, <2>2 DEF StatesFit
      <3>2. t \notin following
        BY <3>1 DEF StatesFit
      <3> QED  BY <1>p, <1>u, <2>2, <3>1, <3>2
    <2>3. CASE t \notin Plan[at]
      BY <1>q, <1>u, <2>1, <2>3 DEF StatesFit
    <2> QED  BY <2>2, <2>3
  <1>3. BegunFits'
    <2>3. (\A i \in Stages : i < at => \A s \in Plan[i] \cap Teardowns :
              SwarmOf[s] \in begun => thread[s] # "none")'
      <3> SUFFICES ASSUME NEW i \in Stages, i < at', NEW s \in Plan[i] \cap Teardowns,
                          SwarmOf[s] \in begun
                   PROVE  thread[s] # "none"
        BY <1>u
      <3>1. CASE i = at
        <4>1. Plan[at] = {s} /\ Kind[s] = "teardown" /\ Swarm(at) = SwarmOf[s]
          BY <3>1, SwarmsAssumption, SwarmIs DEF Teardowns
        <4>2. Always(at)
          BY <4>1 DEF Always
        <4> QED  BY <4>2 DEF SkipStage
      <3>2. CASE i # at
        <4>1. i < at
          BY <1>o, <3>2
        <4> QED  BY <4>1 DEF BegunFits
      <3> QED  BY <3>1, <3>2
    <2> QED  BY <1>u, <2>3 DEF BegunFits
  <1>4. SwarmsInSequence'
    <2> SUFFICES ASSUME NEW i \in Stages, NEW j \in Stages, i < j, Swarm(i) # Swarm(j),
                        NEW s \in Plan[i], NEW t \in Plan[j], thread[t] # "none"
                 PROVE  state'[s] = "done"
      BY <1>u DEF SwarmsInSequence
    <2>1. state[s] = "done" /\ s \in Step
      BY DEF SwarmsInSequence
    <2>2. thread[s] # "none"
      BY <2>1 DEF StatesFit
    <2> QED  BY <1>c, <2>1, <2>2
  <1> QED  BY <1>1, <1>2, <1>3, <1>4

\* A stage that is started: the swarms before it are through.
LEMMA ControlBeginStage ==
    ASSUME TypeOK, ThreadsFit, StatesFit, BegunFits, SwarmsInSequence, BeginStage
    PROVE  ThreadsFit' /\ StatesFit' /\ BegunFits' /\ SwarmsInSequence'
  <1> USE Typed, Plans
  <1>u. /\ UNCHANGED <<at, cancelling, following>>
        /\ driver = "looking" /\ driver' = "running" /\ at \in Stages
        /\ MustJoin(at) => following = {}
        /\ stopped' = Verdict /\ begun' = begun \cup {Swarm(at)}
        /\ state' = [s \in Step |-> IF s \in Plan[at] THEN "running" ELSE state[s]]
        /\ thread' = [s \in Step |-> IF s \in Plan[at] THEN "begun" ELSE thread[s]]
    BY DEF BeginStage, Looks
  <1>p. \A s \in Plan[at] : /\ s \in Step /\ thread[s] = "none"
                            /\ state'[s] = "running" /\ thread'[s] = "begun"
    BY <1>u DEF ThreadsFit
  <1>q. \A s \in Step : s \notin Plan[at] => state'[s] = state[s] /\ thread'[s] = thread[s]
    BY <1>u
  <1>c. \A s \in Step : /\ thread[s] # "none" => state'[s] = state[s] /\ thread'[s] = thread[s]
                        /\ thread'[s] = "none" => thread[s] = "none" /\ state'[s] = state[s]
    BY <1>p, <1>q
  <1>d. Halting => Halting'
    <2>1. \A s \in Step : state[s] = "failed" => thread[s] # "none"
      BY DEF StatesFit
    <2> QED  BY <1>c, <1>u, <2>1 DEF Halting, AnyFailed
  <1>v. stopped # "no" => stopped' # "no"
    BY <1>u, VerdictIs
  <1>1. ThreadsFit'
    <2>1. (\A s \in Step : thread[s] \notin {"none", "ended"} => driver = "running" /\ s \in Plan[at])'
      <3>1. \A s \in Step : thread[s] \in {"none", "ended"}
        BY <1>u DEF ThreadsFit
      <3> QED  BY <1>p, <1>q, <1>u, <3>1
    <2>2. (driver = "running" => \A s \in Plan[at] : thread[s] # "none")'
      BY <1>p, <1>u
    <2>3. (\A i \in Stages : i > at \/ (i = at /\ driver = "looking") =>
              \A s \in Plan[i] : thread[s] = "none")'
      <3> SUFFICES ASSUME NEW i \in Stages, i > at, NEW s \in Plan[i]
                   PROVE  thread'[s] = "none"
        BY <1>u
      <3>1. s \in Step /\ thread[s] = "none" /\ s \notin Plan[at]
        BY <1>u, OneStage DEF ThreadsFit
      <3> QED  BY <1>q, <3>1
    <2>4. (\A i \in Stages : i < at => \A s \in Plan[i] :
              thread[s] = "none" => stopped # "no" /\ state[s] \in {"skipped", "cancelled"})'
      <3> SUFFICES ASSUME NEW i \in Stages, i < at, NEW s \in Plan[i], thread'[s] = "none"
                   PROVE  stopped' # "no" /\ state'[s] \in {"skipped", "cancelled"}
        BY <1>u
      <3>1. s \in Step /\ thread[s] = "none" /\ state'[s] = state[s]
        BY <1>c
      <3> QED  BY <1>v, <3>1 DEF ThreadsFit
    <2> QED  BY <1>u, <2>1, <2>2, <2>3, <2>4 DEF ThreadsFit
  <1>2. StatesFit'
    <2> SUFFICES ASSUME NEW t \in Step
                 PROVE  (/\ thread[t] = "none" => state[t] \in {"pending", "skipped", "cancelled"}
                         /\ thread[t] \in {"begun", "checked", "awaiting"} => state[t] = "running"
                         /\ thread[t] = "ended" => state[t] \in {"ready", "done", "failed", "cancelled"}
                         /\ thread[t] = "ended" /\ state[t] = "cancelled" => Halting
                         /\ state[t] = "ready" <=> t \in following
                         /\ thread[t] \in {"checked", "awaiting"} => t \in Launches
                         /\ thread[t] = "ended" /\ t \in Teardowns => state[t] \in {"done", "failed"})'
      BY DEF StatesFit
    <2>2. CASE t \in Plan[at]
      <3>1. thread[t] = "none" /\ state[t] # "ready"
        BY <1>p, <2>2 DEF StatesFit
      <3>2. t \notin following
        BY <3>1 DEF StatesFit
      <3> QED  BY <1>p, <1>u, <2>2, <3>1, <3>2
    <2>3. CASE t \notin Plan[at]
      BY <1>d, <1>q, <1>u, <2>3 DEF StatesFit
    <2> QED  BY <2>2, <2>3
  <1>3. BegunFits'
    <2>1. (\A w \in begun : \E k \in Stages : Swarm(k) = w /\ \A s \in Plan[k] : thread[s] # "none")'
      <3> SUFFICES ASSUME NEW w \in begun'
                   PROVE  \E k \in Stages : Swarm(k) = w /\ \A s \in Plan[k] : thread'[s] # "none"
        OBVIOUS
      <3>1. CASE w \in begun
        <4>1. PICK k \in Stages : Swarm(k) = w /\ \A s \in Plan[k] : thread[s] # "none"
          BY <3>1 DEF BegunFits
        <4> QED  BY <1>c, <4>1
      <3>2. CASE w = Swarm(at)
        BY <1>p, <1>u, <3>2
      <3> QED  BY <1>u, <3>1, <3>2
    <2>2. (\A s \in Step : thread[s] # "none" => SwarmOf[s] \in begun)'
      <3> SUFFICES ASSUME NEW s \in Step, thread'[s] # "none" PROVE SwarmOf[s] \in begun'
        OBVIOUS
      <3>1. CASE s \in Plan[at]
        BY <1>u, <3>1, SwarmIs
      <3>2. CASE s \notin Plan[at]
        BY <1>q, <1>u, <3>2 DEF BegunFits
      <3> QED  BY <3>1, <3>2
    <2>3. (\A i \in Stages : i < at => \A s \in Plan[i] \cap Teardowns :
              SwarmOf[s] \in begun => thread[s] # "none")'
      <3> SUFFICES ASSUME NEW i \in Stages, i < at, NEW s \in Plan[i] \cap Teardowns,
                          SwarmOf[s] \in begun'
                   PROVE  thread'[s] # "none"
        BY <1>u
      <3>1. SwarmOf[s] # Swarm(at)
        BY <1>u, SwarmsAssumption, SwarmIs
      <3>2. s \in Step /\ thread[s] # "none"
        BY <1>u, <3>1 DEF BegunFits
      <3> QED  BY <1>c, <3>2
    <2> QED  BY <2>1, <2>2, <2>3 DEF BegunFits
  <1>4. SwarmsInSequence'
    <2> SUFFICES ASSUME NEW i \in Stages, NEW j \in Stages, i < j, Swarm(i) # Swarm(j),
                        NEW s \in Plan[i], NEW t \in Plan[j], thread'[t] # "none"
                 PROVE  state'[s] = "done"
      BY DEF SwarmsInSequence
    <2>0. s \in Step /\ t \in Step
      OBVIOUS
    <2>1. (state[s] = "done") => state'[s] = "done"
      <3>1. state[s] = "done" => thread[s] # "none"
        BY <2>0 DEF StatesFit
      <3> QED  BY <1>c, <2>0, <3>1
    <2>2. CASE thread[t] # "none"
      <3>1. state[s] = "done"
        BY <2>2 DEF SwarmsInSequence
      <3> QED  BY <2>1, <3>1
    <2>3. CASE thread[t] = "none"
      <3>1. t \in Plan[at] /\ j = at
        BY <1>q, <1>u, <2>0, <2>3, OneStage
      <3>2. CASE Verdict = "no"
        <4>0. stopped = "no" /\ ~AnyFailed /\ ~Halting
          BY <3>2, VerdictIs DEF Halting
        <4>1. \A k \in Stages : k < at => \A r \in Plan[k] : thread[r] = "ended"
          BY <1>u, <4>0 DEF ThreadsFit
        <4>2. thread[s] = "ended" /\ state[s] \in {"ready", "done"}
          BY <2>0, <3>1, <4>0, <4>1 DEF StatesFit, AnyFailed
        <4>3. CASE following = {}
          BY <2>0, <2>1, <4>2, <4>3 DEF StatesFit
        <4>4. CASE following # {}
          <5>1. at > 1 /\ at - 1 \in Stages /\ Swarm(at) = Swarm(at - 1)
            BY <1>u, <3>1, <4>4 DEF MustJoin, Stages
          <5>2. PICK r \in Plan[at - 1] : thread[r] = "ended"
            BY <4>1, <5>1
          <5>3. i < at - 1
            BY <3>1, <5>1
          <5>4. state[s] = "done"
            BY <3>1, <5>1, <5>2, <5>3 DEF SwarmsInSequence
          <5> QED  BY <2>1, <5>4
        <4> QED  BY <4>3, <4>4
      <3>3. CASE Always(at)
        <4>1. PICK k \in Stages : Swarm(k) = Swarm(at) /\ \A r \in Plan[k] : thread[r] # "none"
          BY <3>3 DEF Always, BegunFits
        <4>2. PICK r \in Plan[k] : thread[r] # "none"
          BY <4>1
        <4>3. k < at
          BY <1>u, <4>2 DEF ThreadsFit
        <4>4. i < k
          <5>1. k # i
            BY <3>1, <4>1
          <5>2. ~(k < i)
            BY <3>1, <4>1, SwarmsAssumption
          <5> QED  BY <5>1, <5>2
        <4>5. state[s] = "done"
          BY <3>1, <4>1, <4>2, <4>4 DEF SwarmsInSequence
        <4> QED  BY <2>1, <4>5
      <3> QED  BY <3>2, <3>3 DEF BeginStage
    <2> QED  BY <2>2, <2>3
  <1> QED  BY <1>1, <1>2, <1>3, <1>4

-----------------------------------------------------------------------------
(* The other two. *)

\* An action that leaves the launches' shares and the teardown's loop alone, moves threads
\* on, and begins a teardown only where none is at work.
LEMMA Data0 ==
    ASSUME SharesFit, TearFits, TornDownLeavesNothing,
           UNCHANGED <<launched, record, share, unwatched, instances, tear>>,
           \A s \in Launches : thread'[s] \in {"none", "begun", "checked"} =>
                                   thread[s] \in {"none", "begun", "checked"},
           \A s \in Teardowns : /\ thread[s] = "begun" => thread'[s] = "begun"
                                /\ thread'[s] = "begun" => thread[s] = "begun" \/ tear.at = "off"
                                /\ state'[s] = "done" => state[s] = "done"
    PROVE  SharesFit' /\ TearFits' /\ TornDownLeavesNothing'
  <1>1. SharesFit'
    BY DEF SharesFit
  <1>2. TearFits'
    <2>1. (tear.at # "off" => \E s \in Teardowns : thread[s] = "begun")'
      BY DEF TearFits
    <2>2. (\A s \in Teardowns : thread[s] = "begun" /\ tear.at = "deleting" /\ tear.settled =>
              {i \in instances : SwarmOf[i[1]] = SwarmOf[s]}
                  \subseteq tear.doomed \cup tear.done \cup unwatched)'
      BY DEF TearFits
    <2> QED  BY <2>1, <2>2 DEF TearFits
  <1>3. TornDownLeavesNothing'
    BY DEF TornDownLeavesNothing, LeftOf
  <1> QED  BY <1>1, <1>2, <1>3

\* Its case of a thread that ends, and is no teardown's.
LEMMA DataEnds ==
    ASSUME TypeOK, SharesFit, TearFits, TornDownLeavesNothing,
           NEW s \in Step \ Teardowns, NEW how \in {"done", "failed", "cancelled"}, Ends(s, how),
           UNCHANGED <<launched, record, share, unwatched, instances, tear>>
    PROVE  SharesFit' /\ TearFits' /\ TornDownLeavesNothing'
  <1>1. /\ \A t \in Step : t # s => thread'[t] = thread[t] /\ state'[t] = state[t]
        /\ thread'[s] = "ended"
    BY Typed DEF Ends
  <1> QED  BY <1>1, Data0, Kinds2

LEMMA DataSkipStage ==
    ASSUME TypeOK, ThreadsFit, StatesFit, SharesFit, TearFits, TornDownLeavesNothing, SkipStage
    PROVE  SharesFit' /\ TearFits' /\ TornDownLeavesNothing'
  <1>1. \A s \in Step : state'[s] = "done" => state[s] = "done"
    BY VerdictIs DEF SkipStage
  <1>2. UNCHANGED <<launched, record, share, unwatched, instances, tear, thread>>
    BY DEF SkipStage, launchVars
  <1> QED  BY <1>1, <1>2, Data0, Kinds2

LEMMA DataBeginStage ==
    ASSUME TypeOK, ThreadsFit, StatesFit, SharesFit, TearFits, TornDownLeavesNothing, BeginStage
    PROVE  SharesFit' /\ TearFits' /\ TornDownLeavesNothing'
  <1>1. \A s \in Step : /\ thread[s] \in {"none", "ended"}
                        /\ state'[s] = "done" => state[s] = "done"
    BY DEF BeginStage, Looks, ThreadsFit
  <1>2. \A s \in Plan[at] : thread[s] = "none"
    BY Typed DEF BeginStage, Looks, ThreadsFit
  <1>3. UNCHANGED <<launched, record, share, unwatched, instances, tear>>
    BY DEF BeginStage, launchVars
  <1>4. tear.at = "off"
    BY <1>1, Kinds2 DEF TearFits
  <1>5. \A s \in Step : thread'[s] = IF s \in Plan[at] THEN "begun" ELSE thread[s]
    BY DEF BeginStage
  <1>6. \A s \in Launches : thread'[s] \in {"none", "begun", "checked"} =>
                                   thread[s] \in {"none", "begun", "checked"}
    BY <1>2, <1>5, Kinds2
  <1>7. \A s \in Teardowns : thread[s] = "begun" => thread'[s] = "begun"
    BY <1>1, Kinds2
  <1> QED  BY <1>1, <1>3, <1>4, <1>6, <1>7, Data0, Kinds2

LEMMA DataFollower ==
    ASSUME TypeOK, StatesFit, SharesFit, TearFits, TornDownLeavesNothing, NEW s \in Step, FollowerEnds(s)
    PROVE  SharesFit' /\ TearFits' /\ TornDownLeavesNothing'
  <1>1. s \notin Teardowns /\ UNCHANGED <<launched, record, share, unwatched, instances, tear, thread>>
    BY Typed, Kinds2 DEF FollowerEnds, launchVars
  <1>2. \A t \in Step : t # s => state'[t] = state[t]
    BY Typed DEF FollowerEnds
  <1> QED  BY <1>1, <1>2, Data0, Kinds2

\* A launch starts: its swarm's teardown is still to come, and none is at work.
LEMMA DataLaunchStarts ==
    ASSUME TypeOK, ThreadsFit, StatesFit, SharesFit, TearFits, TornDownLeavesNothing,
           NEW s \in Launches, thread[s] = "checked",
           thread' = [thread EXCEPT ![s] = "awaiting"],
           launched' = launched \cup {s},
           record' = [record EXCEPT ![s] = "going"],
           share' = [share EXCEPT ![s] = [n \in Node |->
                          IF n \in Where[s] THEN "creating" ELSE "none"]],
           UNCHANGED <<state, unwatched, instances, tear>>
    PROVE  SharesFit' /\ TearFits' /\ TornDownLeavesNothing'
  <1> USE Typed, Kinds2
  <1>t. /\ record \in [Launches -> Record] /\ share \in [Launches -> [Node -> Share]]
        /\ instances \subseteq Launches \X Node
        /\ tear.doomed \subseteq Launches \X Node /\ tear.done \subseteq Launches \X Node
    BY DEF TypeOK
  <1>a. /\ record'[s] = "going" /\ thread'[s] = "awaiting"
        /\ \A n \in Node : share'[s][n] = IF n \in Where[s] THEN "creating" ELSE "none"
        /\ \A q \in Launches : q # s => record'[q] = record[q] /\ share'[q] = share[q]
        /\ \A q \in Step : q # s => thread'[q] = thread[q]
    BY <1>t
  <1>b. /\ record[s] = "none" /\ \A n \in Node : share[s][n] = "none"
    BY DEF SharesFit
  <1>c. s \in Plan[at] /\ driver = "running" /\ at \in Stages
    BY DEF ThreadsFit
  <1>d. \A q \in Teardowns : thread[q] # "begun"
    <2> SUFFICES ASSUME NEW q \in Teardowns, thread[q] = "begun" PROVE FALSE
      OBVIOUS
    <2>1. q \in Plan[at]
      BY DEF ThreadsFit
    <2>2. Plan[at] = {q}
      BY <1>c, <2>1, SwarmsAssumption
    <2> QED  BY <1>c, <2>2
  <1>e. tear.at = "off"
    BY <1>d DEF TearFits
  <1>1. SharesFit'
    <2> SUFFICES ASSUME NEW q \in Launches
                 PROVE  (/\ thread[q] \in {"none", "begun", "checked"} =>
                               record[q] = "none" /\ \A n \in Node : share[q][n] = "none"
                         /\ record[q] = "going" => q \in launched
                         /\ \A n \in Node :
                               /\ share[q][n] = "creating" => n \in Where[q] /\ record[q] # "none"
                               /\ record[q] \in {"ok", "bad", "forgotten"} /\ n \in Where[q] =>
                                     share[q][n] = "over" \/ <<q, n>> \in unwatched
                               /\ <<q, n>> \in instances => share[q][n] \in {"booting", "over"})'
      BY DEF SharesFit
    <2>1. CASE q = s
      <3>1. \A n \in Node : <<s, n>> \notin instances
        BY <1>b DEF SharesFit
      <3> QED  BY <1>a, <2>1, <3>1
    <2>2. CASE q # s
      BY <1>a, <2>2 DEF SharesFit
    <2> QED  BY <2>1, <2>2
  <1>2. TearFits'
    <2>1. \A q \in tear.doomed \cup tear.done : q[1] # s
      BY <1>b, <1>t DEF TearFits
    <2>2. \A q \in tear.doomed \cup tear.done : share'[q[1]][q[2]] \in {"booting", "over"}
      BY <1>a, <1>t, <2>1 DEF TearFits
    <2> QED  BY <1>e, <2>2 DEF TearFits
  <1>3. TornDownLeavesNothing'
    <2> SUFFICES ASSUME NEW d \in Teardowns, state[d] = "done",
                        NEW q \in (Launches \X Node) \ unwatched, SwarmOf[q[1]] = SwarmOf[d],
                        q \in instances \/ share'[q[1]][q[2]] = "creating"
                 PROVE  FALSE
      BY DEF TornDownLeavesNothing, LeftOf
    <2>0. ~(q \in instances \/ share[q[1]][q[2]] = "creating")
      BY DEF TornDownLeavesNothing, LeftOf
    <2>1. q[1] = s
      BY <1>a, <2>0
    <2>2. PICK i \in Stages : d \in Plan[i]
      BY HasStage
    <2>3. at < i
      <3>1. ~(i < at)
        BY <1>c, <2>1, <2>2, TeardownIsLast, Plans
      <3>2. i # at
        BY <1>c, <2>1, <2>2, TeardownIsLast, Plans
      <3> QED  BY <2>2, <3>1, <3>2, Plans
    <2>4. thread[d] = "none"
      BY <2>2, <2>3 DEF ThreadsFit
    <2> QED  BY <2>4 DEF StatesFit
  <1> QED  BY <1>1, <1>2, <1>3

\* A share makes its instance, or cannot.
LEMMA DataCreate ==
    ASSUME TypeOK, SharesFit, TearFits, TornDownLeavesNothing,
           NEW s \in Launches, NEW n \in Node, Create(s, n)
    PROVE  SharesFit' /\ TearFits' /\ TornDownLeavesNothing'
  <1>t. /\ share \in [Launches -> [Node -> Share]] /\ instances \subseteq Launches \X Node
        /\ tear.doomed \subseteq Launches \X Node /\ tear.done \subseteq Launches \X Node
    BY DEF TypeOK
  <1>u. UNCHANGED <<state, thread, launched, record, unwatched, tear>>
    BY DEF Create
  <1>a. /\ share[s][n] = "creating" /\ share'[s][n] \in {"booting", "over"}
        /\ share' \in [Launches -> [Node -> Share]]
        /\ \A q \in Launches, m \in Node : q # s \/ m # n => share'[q][m] = share[q][m]
    BY <1>t DEF Create, Share
  <1>b. instances' = instances \/ instances' = instances \cup {<<s, n>>}
    BY DEF Create
  <1>c. <<s, n>> \notin tear.doomed \cup tear.done
    BY <1>a DEF TearFits
  <1>d. instances' # instances => share'[s][n] = "booting"
    BY <1>t DEF Create
  <1>1. SharesFit'
    <2> SUFFICES ASSUME NEW q \in Launches
                 PROVE  (/\ thread[q] \in {"none", "begun", "checked"} =>
                               record[q] = "none" /\ \A m \in Node : share[q][m] = "none"
                         /\ record[q] = "going" => q \in launched
                         /\ \A m \in Node :
                               /\ share[q][m] = "creating" => m \in Where[q] /\ record[q] # "none"
                               /\ record[q] \in {"ok", "bad", "forgotten"} /\ m \in Where[q] =>
                                     share[q][m] = "over" \/ <<q, m>> \in unwatched
                               /\ <<q, m>> \in instances => share[q][m] \in {"booting", "over"})'
      BY DEF SharesFit
    <2>1. (thread[q] \in {"none", "begun", "checked"} =>
               record[q] = "none" /\ \A m \in Node : share[q][m] = "none")'
      <3>1. q = s => thread[q] \notin {"none", "begun", "checked"}
        BY <1>a DEF SharesFit
      <3> QED  BY <1>a, <1>u, <3>1 DEF SharesFit
    <2>2. (record[q] = "going" => q \in launched)'
      BY <1>u DEF SharesFit
    <2>3. ASSUME NEW m \in Node
          PROVE  (/\ share[q][m] = "creating" => m \in Where[q] /\ record[q] # "none"
                  /\ record[q] \in {"ok", "bad", "forgotten"} /\ m \in Where[q] =>
                        share[q][m] = "over" \/ <<q, m>> \in unwatched
                  /\ <<q, m>> \in instances => share[q][m] \in {"booting", "over"})'
      <3>1. CASE q = s /\ m = n
        <4>1. record[s] \in {"ok", "bad", "forgotten"} /\ n \in Where[s] => <<s, n>> \in unwatched
          BY <1>a DEF SharesFit
        <4> QED  BY <1>a, <1>u, <3>1, <4>1
      <3>2. CASE ~(q = s /\ m = n)
        <4>1. share'[q][m] = share[q][m] /\ (<<q, m>> \in instances' => <<q, m>> \in instances)
          BY <1>a, <1>b, <3>2
        <4> QED  BY <1>u, <4>1 DEF SharesFit
      <3> QED  BY <3>1, <3>2
    <2> QED  BY <2>1, <2>2, <2>3
  <1>2. TearFits'
    <2>1. \A q \in tear.doomed \cup tear.done : share'[q[1]][q[2]] \in {"booting", "over"}
      <3> SUFFICES ASSUME NEW q \in tear.doomed \cup tear.done
                   PROVE  share'[q[1]][q[2]] \in {"booting", "over"}
        OBVIOUS
      <3>1. q = <<q[1], q[2]>> /\ q[1] \in Launches /\ q[2] \in Node
        BY <1>t
      <3>2. q[1] # s \/ q[2] # n
        BY <1>c, <3>1
      <3> QED  BY <1>a, <3>1, <3>2 DEF TearFits
    <2>2. tear.done \cap instances' # {} => tear.failed
      BY <1>b, <1>c DEF TearFits
    <2>3. \A d \in Teardowns : thread[d] = "begun" /\ tear.at = "deleting" /\ tear.settled =>
              {i \in instances' : SwarmOf[i[1]] = SwarmOf[d]}
                  \subseteq tear.doomed \cup tear.done \cup unwatched
      <3> SUFFICES ASSUME NEW d \in Teardowns, thread[d] = "begun", tear.at = "deleting",
                          tear.settled, NEW i \in instances', SwarmOf[i[1]] = SwarmOf[d]
                   PROVE  i \in tear.doomed \cup tear.done \cup unwatched
        OBVIOUS
      <3>1. CASE i \in instances
        BY <3>1 DEF TearFits
      <3>2. CASE i = <<s, n>>
        <4>1. record[s] # "going" /\ record[s] # "none" /\ n \in Where[s] /\ record[s] \in Record
          BY <1>a DEF TearFits, SharesFit, TypeOK
        <4>2. <<s, n>> \in unwatched
          BY <1>a, <4>1 DEF SharesFit, Record
        <4> QED  BY <3>2, <4>2
      <3> QED  BY <1>b, <3>1, <3>2
    <2> QED  BY <1>u, <2>1, <2>2, <2>3 DEF TearFits
  <1>3. TornDownLeavesNothing'
    <2> SUFFICES ASSUME NEW d \in Teardowns, state[d] = "done",
                        NEW q \in (Launches \X Node) \ unwatched, SwarmOf[q[1]] = SwarmOf[d],
                        q \in instances' \/ share'[q[1]][q[2]] = "creating"
                 PROVE  FALSE
      BY <1>u DEF TornDownLeavesNothing, LeftOf
    <2>1. ~(q \in instances \/ share[q[1]][q[2]] = "creating")
      BY DEF TornDownLeavesNothing, LeftOf
    <2>2. q = <<q[1], q[2]>> /\ q[1] \in Launches /\ q[2] \in Node
      OBVIOUS
    <2>3. q # <<s, n>>
      BY <1>a, <2>1
    <2>4. q[1] # s \/ q[2] # n
      BY <2>2, <2>3
    <2> QED  BY <1>a, <1>b, <2>1, <2>2, <2>3, <2>4
  <1> QED  BY <1>1, <1>2, <1>3

\* The bootstrap in it ends.
LEMMA DataBoot ==
    ASSUME TypeOK, SharesFit, TearFits, TornDownLeavesNothing,
           NEW s \in Launches, NEW n \in Node, Boot(s, n)
    PROVE  SharesFit' /\ TearFits' /\ TornDownLeavesNothing'
  <1>t. /\ share \in [Launches -> [Node -> Share]] /\ instances \subseteq Launches \X Node
        /\ tear.doomed \subseteq Launches \X Node /\ tear.done \subseteq Launches \X Node
    BY DEF TypeOK
  <1>u. UNCHANGED <<state, thread, launched, record, unwatched, instances, tear>>
    BY DEF Boot
  <1>a. /\ share[s][n] = "booting" /\ share'[s][n] = "over"
        /\ \A q \in Launches, m \in Node : q # s \/ m # n => share'[q][m] = share[q][m]
    BY <1>t DEF Boot, Share
  <1>b. \A q \in Launches, m \in Node :
            /\ share'[q][m] = "creating" => share[q][m] = "creating"
            /\ share[q][m] = "over" => share'[q][m] = "over"
            /\ share[q][m] \in {"booting", "over"} => share'[q][m] \in {"booting", "over"}
    BY <1>a
  <1>1. SharesFit'
    <2>1. \A q \in Launches : thread[q] \in {"none", "begun", "checked"} =>
              \A m \in Node : share'[q][m] = "none"
      BY <1>a DEF SharesFit
    <2> QED  BY <1>b, <1>u, <2>1 DEF SharesFit
  <1>2. TearFits'
    <2>1. \A q \in tear.doomed \cup tear.done : share'[q[1]][q[2]] \in {"booting", "over"}
      BY <1>b, <1>t DEF TearFits
    <2> QED  BY <1>u, <2>1 DEF TearFits
  <1>3. TornDownLeavesNothing'
    <2> SUFFICES ASSUME NEW d \in Teardowns, state[d] = "done",
                        NEW q \in (Launches \X Node) \ unwatched, SwarmOf[q[1]] = SwarmOf[d],
                        q \in instances \/ share'[q[1]][q[2]] = "creating"
                 PROVE  FALSE
      BY <1>u DEF TornDownLeavesNothing, LeftOf
    <2> QED  BY <1>b DEF TornDownLeavesNothing, LeftOf
  <1> QED  BY <1>1, <1>2, <1>3

\* A share is not watched any more.
LEMMA DataPollFails ==
    ASSUME TypeOK, SharesFit, TearFits, TornDownLeavesNothing,
           NEW s \in Launches, NEW n \in Node, PollFails(s, n)
    PROVE  SharesFit' /\ TearFits' /\ TornDownLeavesNothing'
  <1>u. /\ UNCHANGED <<state, thread, launched, record, share, instances, tear>>
        /\ unwatched \subseteq unwatched'
    BY DEF PollFails
  <1>1. SharesFit'
    BY <1>u DEF SharesFit
  <1>2. TearFits'
    BY <1>u DEF TearFits
  <1>3. TornDownLeavesNothing'
    BY <1>u DEF TornDownLeavesNothing, LeftOf
  <1> QED  BY <1>1, <1>2, <1>3

\* A template run ends, when its shares have, or is forgotten after that.
LEMMA DataRecord ==
    ASSUME TypeOK, SharesFit, TearFits, TornDownLeavesNothing,
           NEW s \in Launches, RecordEnds(s) \/ Forget(s)
    PROVE  SharesFit' /\ TearFits' /\ TornDownLeavesNothing'
  <1>u. UNCHANGED <<state, thread, launched, share, unwatched, instances, tear>>
    BY DEF RecordEnds, Forget
  <1>a. /\ record[s] \in {"going", "ok", "bad"} /\ record'[s] \in {"ok", "bad", "forgotten"}
        /\ \A q \in Launches : q # s => record'[q] = record[q]
        /\ record[s] = "going" =>
              \A n \in Where[s] : share[s][n] = "over" \/ <<s, n>> \in unwatched
    BY DEF RecordEnds, Forget, TypeOK
  <1>1. SharesFit'
    <2> SUFFICES ASSUME NEW q \in Launches
                 PROVE  (/\ thread[q] \in {"none", "begun", "checked"} =>
                               record[q] = "none" /\ \A m \in Node : share[q][m] = "none"
                         /\ record[q] = "going" => q \in launched
                         /\ \A m \in Node :
                               /\ share[q][m] = "creating" => m \in Where[q] /\ record[q] # "none"
                               /\ record[q] \in {"ok", "bad", "forgotten"} /\ m \in Where[q] =>
                                     share[q][m] = "over" \/ <<q, m>> \in unwatched
                               /\ <<q, m>> \in instances => share[q][m] \in {"booting", "over"})'
      BY DEF SharesFit
    <2>1. CASE q = s
      BY <1>a, <1>u, <2>1 DEF SharesFit
    <2>2. CASE q # s
      BY <1>a, <1>u, <2>2 DEF SharesFit
    <2> QED  BY <2>1, <2>2
  <1>2. TearFits'
    <2>1. tear.at # "off" /\ tear.settled => \A q \in Launches : record'[q] # "going"
      BY <1>a DEF TearFits
    <2> QED  BY <1>u, <2>1 DEF TearFits
  <1>3. TornDownLeavesNothing'
    BY <1>u DEF TornDownLeavesNothing, LeftOf
  <1> QED  BY <1>1, <1>2, <1>3

-----------------------------------------------------------------------------
(* A teardown's round. *)

\* The loop's fields.
LEMMA TearTyped ==
    ASSUME TypeOK
    PROVE  /\ tear = [at |-> tear.at, settled |-> tear.settled, doomed |-> tear.doomed,
                      done |-> tear.done, failed |-> tear.failed]
           /\ tear.at \in {"off", "listing", "deleting"}
           /\ tear.settled \in BOOLEAN /\ tear.failed \in BOOLEAN
           /\ tear.doomed \subseteq Launches \X Node /\ tear.done \subseteq Launches \X Node
           /\ instances \subseteq Launches \X Node
  BY DEF TypeOK

\* It asks whether the launches are over.
LEMMA TearReadsFits ==
    ASSUME TypeOK, SharesFit, TearFits, TornDownLeavesNothing, NEW s \in Step, TearReads(s)
    PROVE  SharesFit' /\ TearFits' /\ TornDownLeavesNothing'
  <1>u. /\ UNCHANGED <<state, thread, launched, record, share, unwatched, instances>>
        /\ s \in Teardowns /\ thread[s] = "begun" /\ tear.at = "off"
    BY DEF TearReads, Tears, launchVars, Teardowns
  <1>a. /\ tear'.at = "listing" /\ tear'.settled = Settled
        /\ tear'.doomed = tear.doomed /\ tear'.done = tear.done /\ tear'.failed = tear.failed
    BY TearTyped DEF TearReads
  <1>1. SharesFit'
    BY <1>u DEF SharesFit
  <1>2. TearFits'
    <2>1. Settled => \A q \in Launches : record[q] # "going"
      BY DEF Settled, SharesFit
    <2> QED  BY <1>a, <1>u, <2>1 DEF TearFits
  <1>3. TornDownLeavesNothing'
    BY <1>u DEF TornDownLeavesNothing, LeftOf
  <1> QED  BY <1>1, <1>2, <1>3

\* It lists what there is.
LEMMA TearListsFits ==
    ASSUME TypeOK, SharesFit, TearFits, TornDownLeavesNothing, ThreadsFit, StatesFit,
           NEW s \in Step, TearLists(s)
    PROVE  SharesFit' /\ TearFits' /\ TornDownLeavesNothing'
  <1>u. /\ UNCHANGED <<launched, record, share, unwatched, instances>>
        /\ s \in Teardowns /\ thread[s] = "begun" /\ tear.at = "listing" /\ s \in Step
    BY DEF TearLists, Tears, launchVars, Teardowns
  <1>o. \A d \in Teardowns : thread[d] = "begun" => d = s
    <2>1. \A d \in Teardowns : thread[d] = "begun" => d \in Plan[at] /\ at \in Stages
      BY Typed, Kinds2 DEF ThreadsFit
    <2>2. s \in Plan[at] /\ at \in Stages
      BY <1>u, <2>1
    <2> QED  BY <1>u, <2>1, <2>2, SwarmsAssumption
  <1>1. CASE /\ tear' = [tear EXCEPT !.at = "deleting",
                            !.doomed = {i \in instances : SwarmOf[i[1]] = SwarmOf[s]} \ tear.done]
             /\ UNCHANGED <<state, thread>>
    <2>a. /\ tear'.at = "deleting" /\ tear'.settled = tear.settled
          /\ tear'.doomed = {i \in instances : SwarmOf[i[1]] = SwarmOf[s]} \ tear.done
          /\ tear'.done = tear.done /\ tear'.failed = tear.failed
      BY <1>1, TearTyped
    <2>1. SharesFit'
      BY <1>u, <1>1 DEF SharesFit
    <2>2. TearFits'
      <3>1. \A q \in tear'.doomed \cup tear'.done : share[q[1]][q[2]] \in {"booting", "over"}
        <4>1. \A q \in instances : share[q[1]][q[2]] \in {"booting", "over"}
          BY TearTyped DEF SharesFit
        <4> QED  BY <2>a, <4>1 DEF TearFits
      <3>2. \A d \in Teardowns : thread[d] = "begun" =>
                {i \in instances : SwarmOf[i[1]] = SwarmOf[d]} \subseteq tear'.doomed \cup tear'.done
        BY <1>o, <2>a
      <3>3. tear'.settled => \A q \in Launches : record[q] # "going"
        BY <1>u, <2>a DEF TearFits
      <3>4. tear'.done \cap instances # {} => tear'.failed
        BY <2>a DEF TearFits
      <3> QED  BY <1>u, <1>1, <3>1, <3>2, <3>3, <3>4 DEF TearFits
    <2>3. TornDownLeavesNothing'
      BY <1>u, <1>1 DEF TornDownLeavesNothing, LeftOf
    <2> QED  BY <2>1, <2>2, <2>3
  <1>2. CASE Ends(s, "failed") /\ tear' = Resting
    <2>a. /\ \A t \in Step : t # s => thread'[t] = thread[t] /\ state'[t] = state[t]
          /\ thread'[s] = "ended" /\ state'[s] = "failed"
          /\ tear'.at = "off" /\ tear'.doomed = {} /\ tear'.done = {}
      BY <1>2, Typed DEF Ends, Resting
    <2>1. SharesFit'
      BY <1>u, <2>a, Kinds2 DEF SharesFit
    <2>2. TearFits'
      BY <2>a DEF TearFits
    <2>3. TornDownLeavesNothing'
      BY <1>u, <2>a, Kinds2 DEF TornDownLeavesNothing, LeftOf
    <2> QED  BY <2>1, <2>2, <2>3
  <1> QED  BY <1>1, <1>2 DEF TearLists

\* It deletes one of those, or fails to.
LEMMA TearDeletesFits ==
    ASSUME TypeOK, SharesFit, TearFits, TornDownLeavesNothing,
           NEW s \in Step, NEW i \in Launches \X Node, TearDeletes(s, i)
    PROVE  SharesFit' /\ TearFits' /\ TornDownLeavesNothing'
  <1>u. /\ UNCHANGED <<state, thread, launched, record, share, unwatched>>
        /\ s \in Teardowns /\ thread[s] = "begun" /\ tear.at = "deleting" /\ i \in tear.doomed
    BY DEF TearDeletes, Tears, launchVars, Teardowns
  <1>a. /\ tear'.at = "deleting" /\ tear'.settled = tear.settled
        /\ tear'.doomed = tear.doomed \ {i} /\ tear'.done = tear.done \cup {i}
    BY <1>u, TearTyped DEF TearDeletes
  <1>b. /\ instances' \subseteq instances
        /\ i \in instances' => tear'.failed
        /\ tear.failed => tear'.failed
    <2>1. CASE instances' = instances \ {i} /\ tear'.failed = tear.failed
      BY <2>1
    <2>2. CASE instances' = instances /\ tear'.failed
      BY <2>2
    <2>3. \/ instances' = instances \ {i} /\ tear'.failed = tear.failed
          \/ instances' = instances /\ tear'.failed
      BY TearTyped DEF TearDeletes
    <2> QED  BY <2>1, <2>2, <2>3
  <1>1. SharesFit'
    BY <1>b, <1>u DEF SharesFit
  <1>2. TearFits'
    <2>1. \A q \in tear'.doomed \cup tear'.done : share[q[1]][q[2]] \in {"booting", "over"}
      BY <1>a, <1>u DEF TearFits
    <2>2. \A d \in Teardowns : thread[d] = "begun" /\ tear'.at = "deleting" /\ tear'.settled =>
              {q \in instances' : SwarmOf[q[1]] = SwarmOf[d]}
                  \subseteq tear'.doomed \cup tear'.done \cup unwatched
      BY <1>a, <1>b, <1>u DEF TearFits
    <2>3. tear'.settled => \A q \in Launches : record[q] # "going"
      BY <1>a, <1>u DEF TearFits
    <2>4. tear'.done \cap instances' # {} => tear'.failed
      BY <1>a, <1>b DEF TearFits
    <2> QED  BY <1>u, <2>1, <2>2, <2>3, <2>4 DEF TearFits
  <1>3. TornDownLeavesNothing'
    BY <1>b, <1>u DEF TornDownLeavesNothing, LeftOf
  <1> QED  BY <1>1, <1>2, <1>3

\* The round ends: if it was the last, nothing is left of the swarm.
LEMMA TearEndsFits ==
    ASSUME TypeOK, SharesFit, TearFits, TornDownLeavesNothing, ThreadsFit, StatesFit,
           NEW s \in Step, TearEnds(s)
    PROVE  SharesFit' /\ TearFits' /\ TornDownLeavesNothing'
  <1>u. /\ UNCHANGED <<record, share, unwatched, instances>>
        /\ s \in Teardowns /\ thread[s] = "begun" /\ tear.at = "deleting" /\ tear.doomed = {}
    BY DEF TearEnds, Tears, Teardowns
  <1>1. CASE LastRound
    <2> DEFINE how == IF tear.failed THEN "failed" ELSE "done"
    <2>u. Ends(s, how) /\ launched' = {} /\ tear' = Resting
      BY <1>1 DEF TearEnds
    <2>a. /\ \A t \in Step : t # s => thread'[t] = thread[t] /\ state'[t] = state[t]
          /\ thread'[s] = "ended" /\ state'[s] = how
          /\ tear'.at = "off" /\ tear'.doomed = {} /\ tear'.done = {}
      BY <2>u, Typed DEF Ends, Resting
    <2>b. \A q \in Launches : record[q] # "going"
      BY <1>1, <1>u DEF LastRound, TearFits
    <2>1. SharesFit'
      BY <1>u, <2>a, <2>b, Kinds2 DEF SharesFit
    <2>2. TearFits'
      BY <2>a DEF TearFits
    <2>3. TornDownLeavesNothing'
      <3> SUFFICES ASSUME NEW d \in Teardowns, state'[d] = "done",
                          NEW q \in (Launches \X Node) \ unwatched, SwarmOf[q[1]] = SwarmOf[d],
                          q \in instances \/ share[q[1]][q[2]] = "creating"
                   PROVE  FALSE
        BY <1>u DEF TornDownLeavesNothing, LeftOf
      <3>1. CASE d # s
        <4>1. state[d] = "done"
          BY <2>a, <3>1, Kinds2
        <4> QED  BY <4>1 DEF TornDownLeavesNothing, LeftOf
      <3>2. CASE d = s
        <4>1. ~tear.failed
          BY <2>a, <3>2
        <4>2. q \notin instances
          BY <1>u, <1>1, <3>2, <4>1 DEF TearFits, LastRound
        <4>3. q = <<q[1], q[2]>> /\ q[1] \in Launches /\ q[2] \in Node
          OBVIOUS
        <4>4. share[q[1]][q[2]] = "creating"
          BY <4>2
        <4>5. q[2] \in Where[q[1]] /\ record[q[1]] \in {"ok", "bad", "forgotten"}
          BY <2>b, <4>3, <4>4 DEF SharesFit, TypeOK, Record
        <4>6. <<q[1], q[2]>> \in unwatched
          BY <4>3, <4>4, <4>5 DEF SharesFit
        <4> QED  BY <4>3, <4>6
      <3> QED  BY <3>1, <3>2
    <2> QED  BY <2>1, <2>2, <2>3
  <1>2. CASE ~LastRound
    <2>u. UNCHANGED <<state, thread, launched>> /\ tear' = [tear EXCEPT !.at = "off"]
      BY <1>2 DEF TearEnds
    <2>a. /\ tear'.at = "off" /\ tear'.doomed = tear.doomed /\ tear'.done = tear.done
          /\ tear'.failed = tear.failed
      BY <2>u, TearTyped
    <2>1. SharesFit'
      BY <1>u, <2>u DEF SharesFit
    <2>2. TearFits'
      BY <1>u, <2>a, <2>u DEF TearFits
    <2>3. TornDownLeavesNothing'
      BY <1>u, <2>u DEF TornDownLeavesNothing, LeftOf
    <2> QED  BY <2>1, <2>2, <2>3
  <1> QED  BY <1>1, <1>2

-----------------------------------------------------------------------------
(* Types. *)

\* A step that ends, well or not.
LEMMA EndsTyped ==
    ASSUME TypeOK, NEW s \in Step, NEW how \in State, Ends(s, how)
    PROVE  state' \in [Step -> State] /\ thread' \in [Step -> Thread]
  BY DEF TypeOK, Ends, Thread

\* The driver's own actions.
LEMMA DriverTyped ==
    ASSUME TypeOK, SkipStage \/ BeginStage \/ EndStage \/ Finish \/ Cancel
    PROVE  TypeOK'
  <1> USE Plans, Typed
  <1>s. at \in Stages => at + 1 \in 1..Len(Plan) + 1
    BY DEF Stages
  <1>1. CASE SkipStage
    BY <1>1, <1>s, VerdictIs DEF SkipStage, Looks, TypeOK, State, launchVars, bounds
  <1>2. CASE BeginStage
    <2>1. Swarm(at) \in {SwarmOf[s] : s \in Step}
      <3>1. at \in Stages
        BY <1>2 DEF BeginStage, Looks
      <3>2. PICK s \in Plan[at] : s \in Step
        BY <3>1
      <3> QED  BY <3>1, <3>2, SwarmIs
    <2>2. /\ begun' \subseteq {SwarmOf[s] : s \in Step}
          /\ state' \in [Step -> State] /\ thread' \in [Step -> Thread]
      BY <1>2, <2>1 DEF BeginStage, TypeOK, State, Thread
    <2> QED  BY <1>2, <2>2, VerdictIs DEF BeginStage, Looks, TypeOK, launchVars, bounds
  <1>3. CASE EndStage
    BY <1>3, <1>s DEF EndStage, TypeOK, launchVars, bounds
  <1>4. CASE Finish
    BY <1>4 DEF Finish, TypeOK, launchVars, bounds
  <1>5. CASE Cancel
    BY <1>5 DEF Cancel, TypeOK, launchVars, bounds
  <1> QED  BY <1>1, <1>2, <1>3, <1>4, <1>5

\* The steps' and the followers'.
LEMMA StepTyped ==
    ASSUME TypeOK, NEW s \in Step,
           ScriptEnds(s) \/ HealthEnds(s) \/ LaunchChecks(s) \/ LaunchStarts(s) \/ LaunchEnds(s)
               \/ Ready(s) \/ FollowerEnds(s),
           StatesFit
    PROVE  TypeOK'
  <1> USE EndsTyped DEF State, runnerVars, launchVars, bounds
  <1>0. \A how \in State : Ends(s, how) => state' \in [Step -> State] /\ thread' \in [Step -> Thread]
    BY EndsTyped
  <1>1. CASE ScriptEnds(s)
    BY <1>0, <1>1 DEF ScriptEnds, TypeOK
  <1>2. CASE HealthEnds(s)
    BY <1>0, <1>2 DEF HealthEnds, TypeOK
  <1>3. CASE LaunchChecks(s)
    BY <1>0, <1>3 DEF LaunchChecks, TypeOK, Thread
  <1>4. CASE LaunchStarts(s)
    <2>1. s \in Launches
      BY <1>4 DEF LaunchStarts, StatesFit
    <2>2. /\ state' \in [Step -> State] /\ thread' \in [Step -> Thread]
      BY <1>0, <1>4 DEF LaunchStarts, TypeOK, Thread
    <2>3. /\ launched' \subseteq Launches /\ record' \in [Launches -> Record]
          /\ share' \in [Launches -> [Node -> Share]]
      <3> DEFINE made == [n \in Node |-> IF n \in Where[s] THEN "creating" ELSE "none"]
      <3>1. made \in [Node -> Share] /\ record \in [Launches -> Record]
            /\ share \in [Launches -> [Node -> Share]] /\ launched \subseteq Launches
        BY DEF TypeOK, Share
      <3>2. \/ launched' = launched \cup {s} /\ record' = [record EXCEPT ![s] = "going"]
               /\ share' = [share EXCEPT ![s] = made]
            \/ launched' = launched /\ record' = record /\ share' = share
        BY <1>4 DEF LaunchStarts
      <3> HIDE DEF made
      <3> QED  BY <2>1, <3>1, <3>2 DEF Record
    <2> QED  BY <1>4, <2>2, <2>3 DEF LaunchStarts, TypeOK
  <1>5. CASE LaunchEnds(s)
    BY <1>0, <1>5 DEF LaunchEnds, TypeOK
  <1>6. CASE Ready(s)
    <2>1. s \in Launches
      BY <1>6 DEF Ready, Launches
    <2>2. state' \in [Step -> State] /\ thread' \in [Step -> Thread] /\ following' \subseteq Launches
      BY <1>0, <1>6, <2>1 DEF Ready, TypeOK, Thread
    <2> QED  BY <1>6, <2>2 DEF Ready, TypeOK
  <1>7. CASE FollowerEnds(s)
    BY <1>7 DEF FollowerEnds, TypeOK
  <1> QED  BY <1>1, <1>2, <1>3, <1>4, <1>5, <1>6, <1>7

\* The shares' and the records'.
LEMMA LaunchTyped ==
    ASSUME TypeOK, BoundsAssumption, NEW s \in Launches,
           (\E n \in Node : Create(s, n) \/ Boot(s, n) \/ PollFails(s, n)) \/ RecordEnds(s) \/ Forget(s)
    PROVE  TypeOK'
  <1> USE DEF runnerVars, bounds
  <1>1. ASSUME NEW n \in Node, Create(s, n) PROVE TypeOK'
    <2>1. share \in [Launches -> [Node -> Share]] /\ instances \subseteq Launches \X Node
          /\ spoiled \subseteq Launches
      BY DEF TypeOK
    <2>2. \E to \in Share : share' = [share EXCEPT ![s][n] = to]
      BY <1>1 DEF Create, Share
    <2>3. share' \in [Launches -> [Node -> Share]]
      BY <2>1, <2>2
    <2>4. instances' \subseteq Launches \X Node /\ spoiled' \subseteq Launches
      BY <1>1, <2>1 DEF Create
    <2> QED  BY <1>1, <2>3, <2>4 DEF Create, TypeOK
  <1>2. ASSUME NEW n \in Node, Boot(s, n) PROVE TypeOK'
    BY <1>2 DEF Boot, TypeOK, Share
  <1>3. ASSUME NEW n \in Node, PollFails(s, n) PROVE TypeOK'
    BY <1>3, BoundsAssumption DEF PollFails, TypeOK
  <1>4. CASE RecordEnds(s)
    BY <1>4 DEF RecordEnds, TypeOK, Record
  <1>5. CASE Forget(s)
    BY <1>5, BoundsAssumption DEF Forget, TypeOK, Record
  <1> QED  BY <1>1, <1>2, <1>3, <1>4, <1>5

\* A teardown's.
LEMMA TearKeepsTypes ==
    ASSUME TypeOK, NEW s \in Step,
           TearReads(s) \/ TearLists(s) \/ (\E i \in Launches \X Node : TearDeletes(s, i)) \/ TearEnds(s)
    PROVE  TypeOK'
  <1> USE TearTyped, BoundsAssumption DEF runnerVars, launchVars, bounds
  <1>1. CASE TearReads(s)
    <2>1. Settled \in BOOLEAN
      BY DEF Settled
    <2>2. tear' = [at |-> "listing", settled |-> Settled, doomed |-> tear.doomed,
                   done |-> tear.done, failed |-> tear.failed]
      BY <1>1 DEF TearReads
    <2> QED  BY <1>1, <2>1, <2>2 DEF TearReads, TypeOK
  <1>2. CASE TearLists(s)
    <2>1. CASE Ends(s, "failed") /\ tear' = Resting /\ silences' \in 0..MaxSilences
      <3>1. state' \in [Step -> State] /\ thread' \in [Step -> Thread]
        BY <2>1, EndsTyped DEF State
      <3> QED  BY <1>2, <2>1, <3>1 DEF TearLists, TypeOK, Resting
    <2>2. CASE /\ tear' = [tear EXCEPT !.at = "deleting",
                              !.doomed = {i \in instances : SwarmOf[i[1]] = SwarmOf[s]} \ tear.done]
               /\ UNCHANGED <<state, thread, silences>>
      BY <1>2, <2>2 DEF TearLists, TypeOK
    <2> QED  BY <1>2, <2>1, <2>2 DEF TearLists, TypeOK
  <1>3. ASSUME NEW i \in Launches \X Node, TearDeletes(s, i) PROVE TypeOK'
    <2>1. instances' \subseteq instances /\ failures' \in 0..MaxFailures
      <3>1. /\ instances' \subseteq instances
            /\ failures' = failures \/ (failures < MaxFailures /\ failures' = failures + 1)
        BY <1>3 DEF TearDeletes
      <3>2. failures \in 0..MaxFailures
        BY DEF TypeOK
      <3> QED  BY <3>1, <3>2
    <2>2. /\ tear'.at = tear.at /\ tear'.settled = tear.settled
          /\ tear'.failed \in BOOLEAN /\ tear'.doomed = tear.doomed \ {i} /\ tear'.done = tear.done \cup {i}
          /\ tear' = [at |-> tear'.at, settled |-> tear'.settled, doomed |-> tear'.doomed,
                      done |-> tear'.done, failed |-> tear'.failed]
      BY <1>3 DEF TearDeletes
    <2>3. tear' \in [at : {"off", "listing", "deleting"}, settled : BOOLEAN,
                     doomed : SUBSET (Launches \X Node), done : SUBSET (Launches \X Node),
                     failed : BOOLEAN]
      BY <2>2
    <2>4. instances' \subseteq Launches \X Node
      BY <2>1
    <2> QED  BY <1>3, <2>1, <2>3, <2>4 DEF TearDeletes, TypeOK
  <1>4. CASE TearEnds(s)
    <2>1. CASE LastRound
      <3>1. state' \in [Step -> State] /\ thread' \in [Step -> Thread]
        <4>1. Ends(s, "failed") \/ Ends(s, "done")
          BY <1>4, <2>1 DEF TearEnds
        <4> QED  BY <4>1, EndsTyped DEF State
      <3>2. tear' = Resting /\ launched' = {}
        BY <1>4, <2>1 DEF TearEnds
      <3>3. /\ UNCHANGED runnerVars /\ UNCHANGED bounds
            /\ UNCHANGED <<following, record, share, unwatched, spoiled, instances>>
        BY <1>4 DEF TearEnds
      <3> QED  BY <3>1, <3>2, <3>3 DEF TypeOK, Resting
    <2>2. CASE ~LastRound
      BY <1>4, <2>2 DEF TearEnds, TypeOK
    <2> QED  BY <2>1, <2>2
  <1> QED  BY <1>1, <1>2, <1>3, <1>4

-----------------------------------------------------------------------------
\* The first state.
LEMMA StackInit == Init => StackInv
  <1> SUFFICES ASSUME Init PROVE StackInv
    OBVIOUS
  <1> USE Plans, BoundsAssumption
  <1>1. TypeOK
    <2>1. /\ state \in [Step -> State] /\ thread \in [Step -> Thread]
          /\ record \in [Launches -> Record] /\ share \in [Launches -> [Node -> Share]]
      BY DEF Init, State, Thread, Record, Share
    <2>2. tear \in [at : {"off", "listing", "deleting"}, settled : BOOLEAN,
                    doomed : SUBSET (Launches \X Node), done : SUBSET (Launches \X Node),
                    failed : BOOLEAN]
      BY DEF Init, Resting
    <2>3. /\ at \in 1..Len(Plan) + 1 /\ 0 \in 0..MaxSilences /\ 0 \in 0..MaxFailures
          /\ 0 \in 0..MaxForgotten /\ 0 \in 0..MaxLost
      BY DEF Init
    <2> QED  BY <2>1, <2>2, <2>3 DEF Init, TypeOK
  <1>2. ThreadsFit
    <2>1. \A i \in Stages : ~(i < at)
      BY DEF Init
    <2>2. \A i \in Stages : \A s \in Plan[i] : thread[s] = "none"
      BY DEF Init
    <2>3. driver = "looking" /\ \A s \in Step : thread[s] = "none"
      BY DEF Init
    <2> QED  BY <2>1, <2>2, <2>3 DEF ThreadsFit
  <1>3. StatesFit
    BY DEF Init, StatesFit
  <1>4. BegunFits
    <2>1. \A i \in Stages : ~(i < at)
      BY DEF Init
    <2> QED  BY <2>1 DEF Init, BegunFits
  <1>5. SharesFit
    BY DEF Init, SharesFit
  <1>6. TearFits
    BY DEF Init, TearFits, Resting
  <1>7. SwarmsInSequence
    BY DEF Init, SwarmsInSequence
  <1>8. TornDownLeavesNothing
    BY DEF Init, TornDownLeavesNothing, Teardowns
  <1> QED  BY <1>1, <1>2, <1>3, <1>4, <1>5, <1>6, <1>7, <1>8 DEF StackInv

\* A step of the program.
LEMMA StackNext == StackInv /\ [Next]_vars => StackInv'
  <1> SUFFICES ASSUME StackInv, [Next]_vars PROVE StackInv'
    OBVIOUS
  <1> USE Typed, Kinds2
  <1>0. /\ TypeOK /\ ThreadsFit /\ StatesFit /\ BegunFits /\ SharesFit /\ TearFits
        /\ SwarmsInSequence /\ TornDownLeavesNothing
    BY DEF StackInv
  <1> DEFINE Control == ThreadsFit /\ StatesFit /\ BegunFits /\ SwarmsInSequence
  <1> DEFINE Data == SharesFit /\ TearFits /\ TornDownLeavesNothing
  <1>q. TypeOK' /\ Control' /\ Data' => StackInv'
    BY DEF StackInv
  <1>d. UNCHANGED launchVars /\ UNCHANGED instances /\ UNCHANGED tear =>
            UNCHANGED <<launched, record, share, unwatched, instances, tear>>
    BY DEF launchVars
  <1>r. UNCHANGED runnerVars => UNCHANGED <<at, driver, begun, stopped, cancelling>>
    BY DEF runnerVars
  <1>1. CASE SkipStage
    BY <1>0, <1>1, <1>q, DriverTyped, ControlSkipStage, DataSkipStage
  <1>2. CASE BeginStage
    BY <1>0, <1>2, <1>q, DriverTyped, ControlBeginStage, DataBeginStage
  <1>3. CASE EndStage
    <2>1. UNCHANGED <<state, thread>> /\ UNCHANGED <<launched, record, share, unwatched, instances, tear>>
      BY <1>3, <1>d DEF EndStage
    <2>2. Data'
      BY <1>0, <2>1, Data0
    <2> QED  BY <1>0, <1>3, <1>q, <2>2, DriverTyped, ControlEndStage
  <1>4. CASE Finish
    <2>1. UNCHANGED <<state, thread>> /\ UNCHANGED <<launched, record, share, unwatched, instances, tear>>
      BY <1>4, <1>d DEF Finish
    <2>2. Data'
      BY <1>0, <2>1, Data0
    <2> QED  BY <1>0, <1>4, <1>q, <2>2, DriverTyped, ControlFinish
  <1>5. CASE Cancel
    <2>1. UNCHANGED <<state, thread>> /\ UNCHANGED <<launched, record, share, unwatched, instances, tear>>
      BY <1>5, <1>d DEF Cancel
    <2>2. Data'
      BY <1>0, <2>1, Data0
    <2> QED  BY <1>0, <1>5, <1>q, <2>2, DriverTyped, ControlCancel
  <1>e. ASSUME NEW s \in Step, NEW how \in {"done", "failed", "cancelled"}, Ends(s, how),
               thread[s] \in {"begun", "checked", "awaiting"}, s \notin Teardowns,
               how = "cancelled" => Halting, UNCHANGED runnerVars, UNCHANGED following,
               UNCHANGED <<launched, record, share, unwatched, instances, tear>>
        PROVE  Control' /\ Data'
    BY <1>0, <1>e, <1>r, ControlEnds, DataEnds
  <1>6. ASSUME NEW s \in Step, ScriptEnds(s) PROVE StackInv'
    <2>1. Control' /\ Data'
      BY <1>6, <1>d, <1>e DEF ScriptEnds, Teardowns
    <2> QED  BY <1>0, <1>6, <1>q, <2>1, StepTyped
  <1>7. ASSUME NEW s \in Step, HealthEnds(s) PROVE StackInv'
    <2>1. Control' /\ Data'
      BY <1>7, <1>d, <1>e DEF HealthEnds, Teardowns
    <2> QED  BY <1>0, <1>7, <1>q, <2>1, StepTyped
  <1>8. ASSUME NEW s \in Step, LaunchChecks(s) PROVE StackInv'
    <2>u. /\ s \in Launches /\ thread[s] = "begun" /\ UNCHANGED runnerVars /\ UNCHANGED following
          /\ UNCHANGED <<launched, record, share, unwatched, instances, tear>>
      BY <1>8, <1>d DEF LaunchChecks
    <2>1. CASE Halting /\ Ends(s, "cancelled")
      <3>1. Control' /\ Data'
        BY <1>e, <2>1, <2>u
      <3> QED  BY <1>0, <1>8, <1>q, <3>1, StepTyped
    <2>2. CASE thread' = [thread EXCEPT ![s] = "checked"] /\ UNCHANGED state
      <3>1. Control'
        BY <1>0, <1>r, <2>2, <2>u, ControlGoesOn
      <3>2. \A t \in Step : t # s => thread'[t] = thread[t]
        BY <1>0, <2>2
      <3>3. Data'
        BY <1>0, <2>2, <2>u, <3>2, Data0
      <3> QED  BY <1>0, <1>8, <1>q, <3>1, <3>3, StepTyped
    <2> QED  BY <1>8, <2>1, <2>2 DEF LaunchChecks
  <1>9. ASSUME NEW s \in Step, LaunchStarts(s) PROVE StackInv'
    <2>u. /\ s \in Launches /\ thread[s] = "checked" /\ UNCHANGED runnerVars /\ UNCHANGED following
          /\ UNCHANGED <<unwatched, instances, tear>>
      BY <1>0, <1>9 DEF LaunchStarts, StatesFit
    <2>1. CASE Ends(s, "failed") /\ UNCHANGED <<launched, record, share>>
      <3>1. Control' /\ Data'
        BY <1>e, <2>1, <2>u
      <3> QED  BY <1>0, <1>9, <1>q, <3>1, StepTyped
    <2>2. CASE /\ thread' = [thread EXCEPT ![s] = "awaiting"]
               /\ launched' = launched \cup {s}
               /\ record' = [record EXCEPT ![s] = "going"]
               /\ share' = [share EXCEPT ![s] = [n \in Node |->
                               IF n \in Where[s] THEN "creating" ELSE "none"]]
               /\ UNCHANGED state
      <3>1. Control'
        BY <1>0, <1>r, <2>2, <2>u, ControlGoesOn
      <3>3. Data'
        BY <1>0, <2>2, <2>u, DataLaunchStarts
      <3> QED  BY <1>0, <1>9, <1>q, <3>1, <3>3, StepTyped
    <2> QED  BY <1>9, <2>1, <2>2 DEF LaunchStarts
  <1>10. ASSUME NEW s \in Step, LaunchEnds(s) PROVE StackInv'
    <2>1. Control' /\ Data'
      BY <1>10, <1>d, <1>e DEF LaunchEnds, Reported, Teardowns
    <2> QED  BY <1>0, <1>10, <1>q, <2>1, StepTyped
  <1>11. ASSUME NEW s \in Step, Ready(s) PROVE StackInv'
    <2>u. /\ s \in Launches /\ thread[s] = "awaiting" /\ UNCHANGED runnerVars
          /\ UNCHANGED <<launched, record, share, unwatched, instances, tear>>
      BY <1>11, <1>d DEF Ready, Launches
    <2>1. CASE UNCHANGED following /\ (Ends(s, "failed") \/ (Halting /\ Ends(s, "cancelled")))
      <3>1. Control' /\ Data'
        BY <1>e, <2>1, <2>u
      <3> QED  BY <1>0, <1>11, <1>q, <3>1, StepTyped
    <2>2. CASE /\ state' = [state EXCEPT ![s] = "ready"]
               /\ thread' = [thread EXCEPT ![s] = "ended"]
               /\ following' = following \cup {s}
      <3>1. Control'
        BY <1>0, <1>r, <2>2, <2>u, ControlReady
      <3>2. thread'[s] = "ended" /\ \A t \in Step : t # s => thread'[t] = thread[t] /\ state'[t] = state[t]
        BY <1>0, <2>2
      <3>3. Data'
        BY <1>0, <2>u, <3>2, Data0
      <3> QED  BY <1>0, <1>11, <1>q, <3>1, <3>3, StepTyped
    <2> QED  BY <1>11, <2>1, <2>2 DEF Ready
  <1>12. ASSUME NEW s \in Step, FollowerEnds(s) PROVE StackInv'
    BY <1>0, <1>12, <1>q, StepTyped, ControlFollower, DataFollower
  <1>13. ASSUME NEW s \in Launches, NEW n \in Node, Create(s, n) PROVE StackInv'
    <2>1. Control'
      BY <1>0, <1>13, <1>r, Control0 DEF Create
    <2> QED  BY <1>0, <1>13, <1>q, <2>1, BoundsAssumption, LaunchTyped, DataCreate
  <1>14. ASSUME NEW s \in Launches, NEW n \in Node, Boot(s, n) PROVE StackInv'
    <2>1. Control'
      BY <1>0, <1>14, <1>r, Control0 DEF Boot
    <2> QED  BY <1>0, <1>14, <1>q, <2>1, BoundsAssumption, LaunchTyped, DataBoot
  <1>15. ASSUME NEW s \in Launches, NEW n \in Node, PollFails(s, n) PROVE StackInv'
    <2>1. Control'
      BY <1>0, <1>15, <1>r, Control0 DEF PollFails
    <2> QED  BY <1>0, <1>15, <1>q, <2>1, BoundsAssumption, LaunchTyped, DataPollFails
  <1>16. ASSUME NEW s \in Launches, RecordEnds(s) \/ Forget(s) PROVE StackInv'
    <2>1. Control'
      BY <1>0, <1>16, <1>r, Control0 DEF RecordEnds, Forget
    <2> QED  BY <1>0, <1>16, <1>q, <2>1, BoundsAssumption, LaunchTyped, DataRecord
  <1>17. ASSUME NEW s \in Step, TearReads(s) PROVE StackInv'
    <2>1. Control'
      BY <1>0, <1>17, <1>r, Control0 DEF TearReads
    <2> QED  BY <1>0, <1>17, <1>q, <2>1, TearKeepsTypes, TearReadsFits
  <1>18. ASSUME NEW s \in Step, TearLists(s) PROVE StackInv'
    <2>u. thread[s] = "begun" /\ UNCHANGED runnerVars /\ UNCHANGED following
      BY <1>18 DEF TearLists, Tears
    <2>1. Control'
      <3>1. CASE UNCHANGED <<state, thread>>
        BY <1>0, <1>r, <2>u, <3>1, Control0
      <3>2. CASE Ends(s, "failed")
        BY <1>0, <1>r, <2>u, <3>2, ControlEnds
      <3> QED  BY <1>18, <3>1, <3>2 DEF TearLists
    <2> QED  BY <1>0, <1>18, <1>q, <2>1, TearKeepsTypes, TearListsFits
  <1>19. ASSUME NEW s \in Step, NEW i \in Launches \X Node, TearDeletes(s, i) PROVE StackInv'
    <2>1. Control'
      BY <1>0, <1>19, <1>r, Control0 DEF TearDeletes
    <2> QED  BY <1>0, <1>19, <1>q, <2>1, TearKeepsTypes, TearDeletesFits
  <1>20. ASSUME NEW s \in Step, TearEnds(s) PROVE StackInv'
    <2>u. thread[s] = "begun" /\ UNCHANGED runnerVars /\ UNCHANGED following
      BY <1>20 DEF TearEnds, Tears
    <2>1. Control'
      <3>1. CASE UNCHANGED <<state, thread>>
        BY <1>0, <1>r, <2>u, <3>1, Control0
      <3>2. CASE Ends(s, "failed") \/ Ends(s, "done")
        BY <1>0, <1>r, <2>u, <3>2, ControlEnds
      <3> QED  BY <1>20, <3>1, <3>2 DEF TearEnds
    <2> QED  BY <1>0, <1>20, <1>q, <2>1, TearKeepsTypes, TearEndsFits
  <1>21. CASE UNCHANGED vars
    <2> USE <1>21 DEF vars
    <2>1. TypeOK'
      BY <1>0 DEF TypeOK
    <2>2. Control'
      BY <1>0, Control0
    <2>3. Data'
      BY <1>0, Data0
    <2> QED  BY <1>q, <2>1, <2>2, <2>3
  <1> HIDE DEF Control, Data
  <1> QED
    BY <1>1, <1>2, <1>3, <1>4, <1>5, <1>6, <1>7, <1>8, <1>9, <1>10, <1>11, <1>12, <1>13, <1>14,
       <1>15, <1>16, <1>17, <1>18, <1>19, <1>20, <1>21 DEF Next

\* At the end each swarm that was started has had its teardown, and nothing waits.
LEMMA TornDown == StackInv => BegunIsTornDown
  <1> SUFFICES ASSUME StackInv, driver = "finished"
               PROVE  /\ following = {} /\ \A s \in Step : thread[s] \in {"none", "ended"}
                      /\ \A s \in Teardowns :
                            IF SwarmOf[s] \in begun THEN state[s] \in {"done", "failed"}
                            ELSE state[s] \in {"skipped", "cancelled"}
    BY DEF BegunIsTornDown
  <1> USE Typed, Kinds2, Plans
  <1>0. TypeOK /\ ThreadsFit /\ StatesFit /\ BegunFits
    BY DEF StackInv
  <1>1. at > Len(Plan) /\ following = {} /\ \A s \in Step : thread[s] \in {"none", "ended"}
    BY <1>0 DEF ThreadsFit
  <1>2. ASSUME NEW s \in Teardowns
        PROVE  IF SwarmOf[s] \in begun THEN state[s] \in {"done", "failed"}
               ELSE state[s] \in {"skipped", "cancelled"}
    <2>1. PICK i \in Stages : s \in Plan[i]
      BY <1>2, HasStage
    <2>2. i < at
      BY <1>0, <1>1, <2>1
    <2>3. CASE SwarmOf[s] \in begun
      BY <1>0, <1>1, <2>1, <2>2, <2>3 DEF BegunFits, StatesFit
    <2>4. CASE SwarmOf[s] \notin begun
      BY <1>0, <2>1, <2>2, <2>4 DEF BegunFits, ThreadsFit
    <2> QED  BY <2>3, <2>4
  <1> QED  BY <1>1, <1>2

\* Every variable has its type, and the invariant stands, in every state of a run.
THEOREM StackRunTyped == Spec => []TypeOK
  <1>1. StackInv => TypeOK
    BY DEF StackInv
  <1> QED  BY <1>1, StackInit, StackNext, PTL DEF Spec

\* The swarms of a run keep their order, each starts once all of the one before is done, and
\* each that was started is torn down: when its teardown is done nothing of it is there or
\* still to come, but for shares that nobody could watch (stacks.py, _execute(),
\* _swarm_teardown()).
THEOREM SwarmsAreTornDown == Spec => []SequenceHolds
  <1>1. StackInv => SequenceHolds
    BY TornDown DEF StackInv, SequenceHolds, TornDownForGood
  <1> QED  BY <1>1, StackInit, StackNext, PTL DEF Spec
=============================================================================
