--------------------------- MODULE NodePartsProof ---------------------------
(* Proofs about the components of one node: for each, that its invariant holds at  *)
(* first and that a step keeps it.  What follows for the runs is in MCPartsProof.    *)
EXTENDS NodeParts, Integers, Sequences, FiniteSets, FiniteSetTheorems,
        TLAPS

-----------------------------------------------------------------------------
(* Moving the network card onto a bridge.                                    *)
LEMMA BridgeWayInit == Bridge!Init => Bridge!WayInv
  BY DEF Bridge!Init, Bridge!WayInv, Bridge!TypeOK, Bridge!HostKeepsItsWay, Bridge!PutBack, Bridge!ComesBack, Bridge!ByItself, Bridge!Connections

LEMMA BridgeRunRuns == ASSUME Bridge!Run PROVE s8 # <<>> /\ Bridge!Ran(Head(s8)) /\ UNCHANGED <<Bridge!card, s10, s12>>
  BY DEF Bridge!Run, Bridge!Ran

LEMMA BridgeEffects ==
    ASSUME NEW c, Bridge!Effect(c)
    PROVE  /\ c = "addBridge" => s5' = s5 \cup {"bridge"} /\ UNCHANGED <<s2, s6>>
           /\ c = "addPort" => s5' = s5 \cup {"port"} /\ UNCHANGED <<s2, s6>>
           /\ c = "deletePort" => s5' = s5 \ {"port"} /\ UNCHANGED s2
           /\ c = "deleteBridge" => s5' = s5 \ {"bridge"} /\ UNCHANGED <<s2, s6>>
           /\ c = "keepOwnDown" => s2' = s2 \ {s4} /\ UNCHANGED <<s5, s6>>
           /\ c = "letOwnComeUp" => s2' = s2 \cup {s4} /\ UNCHANGED <<s5, s6>>
           /\ c = "ownUp" => s6' = s4 /\ UNCHANGED <<s5, s2>>
           /\ c \in {"portUp", "bridgeUp"} => UNCHANGED <<s5, s2>>
  BY DEF Bridge!Effect

LEMMA BridgeTypeStep == ASSUME Bridge!WayInv, [Bridge!Next]_(Bridge!vars) PROVE Bridge!TypeOK'
  <1> DEFINE auto == s2  own == s3  back == s4  made == s5  up == s6  doing == s7  plan == s8
             undone == s10  cut == s11  unfound == s12
  <1>0. /\ Bridge!TypeOK /\ (doing = "nothing" => plan = <<>>)
        /\ doing = "convert" => Bridge!Converting
        /\ doing = "undo" => Bridge!Undoing
        /\ doing = "revert" => Bridge!Reverting
        /\ doing \in {"convert", "undo"} => back = own
    BY DEF Bridge!WayInv
  <1> USE <1>0 DEF Bridge!TypeOK
  <1>1. CASE Bridge!Convert \/ Bridge!Look \/ Bridge!Done
    BY <1>1 DEF Bridge!Convert, Bridge!Look, Bridge!Done, Bridge!card
  <1>2. CASE Bridge!Revert
    <2>1. back' \in Bridge!Connections \cup {"none"}
      BY <1>2 DEF Bridge!Revert, Bridge!Previous
    <2>2. QED
      BY <1>2, <2>1 DEF Bridge!Revert
  <1>3. CASE Bridge!Run
    <2>1. PICK c : c = Head(plan) /\ Bridge!Ran(c) /\ UNCHANGED <<Bridge!card, undone, unfound>>
      BY <1>3, BridgeRunRuns
    <2>2. made' \subseteq {"bridge", "port"}
      BY <2>1 DEF Bridge!Ran, Bridge!Effect, Bridge!Lost
    <2>3. doing # "nothing" /\ plan # <<>>
      BY <1>3 DEF Bridge!Run
    <2>4. c \in {"letOwnComeUp", "ownUp"} => back \in Bridge!Connections
      <3>1. CASE doing = "revert" /\ back = "none"
        <4>1. plan \in {<<"deletePort", "deleteBridge">>, <<"deleteBridge">>, <<>>}
          BY <3>1 DEF Bridge!Reverting
        <4>2. QED
          BY <2>1, <2>3, <4>1
      <3>2. QED
        BY <2>3, <3>1
    <2>5. auto' \subseteq Bridge!Connections
      <3>1. auto' \in {auto, auto \ {back}} \/ (c = "letOwnComeUp" /\ auto' = auto \cup {back})
        BY <2>1 DEF Bridge!Ran, Bridge!Effect, Bridge!Lost
      <3>2. QED
        BY <2>4, <3>1
    <2>6. up' \in Bridge!Connections \cup {"port", "none"}
      <3>1. up' \in {up, "port", "none"} \/ (c = "ownUp" /\ up' = back)
        BY <2>1 DEF Bridge!Ran, Bridge!Effect, Bridge!Lost
      <3>2. QED
        BY <2>4, <3>1
    <2>7. doing' \in {"nothing", "convert", "undo", "revert"}
      <3>1. Bridge!Ran(c) => doing' = doing \/ Bridge!AfterFailure
        BY DEF Bridge!Ran
      <3>2. CASE Bridge!AfterFailure /\ doing # "nothing"
        BY <3>2 DEF Bridge!AfterFailure
      <3>3. QED
        BY <2>1, <2>3, <3>1, <3>2
    <2>8. cut' \in BOOLEAN
      BY <2>1 DEF Bridge!Ran
    <2>9. QED
      BY <2>1, <2>2, <2>5, <2>6, <2>7, <2>8 DEF Bridge!card
  <1>4. CASE Bridge!Crash
    BY <1>4 DEF Bridge!Crash, Bridge!ByItself, Bridge!card
  <1>5. CASE UNCHANGED Bridge!vars
    BY <1>5 DEF Bridge!vars
  <1>6. QED
    BY <1>1, <1>2, <1>3, <1>4, <1>5 DEF Bridge!Next

LEMMA BridgeConvertingStep ==
    ASSUME Bridge!TypeOK, Bridge!Converting, s7 = "convert", Bridge!Run
    PROVE  \/ s7' = "convert" /\ Bridge!Converting'
           \/ s7' = "undo" /\ Bridge!Undoing'
  <1> DEFINE made == s5  doing == s7  plan == s8  cut == s11  unfound == s12
  <1>1. plan # <<>> /\ Bridge!Ran(Head(plan))
    BY BridgeRunRuns
  <1>2. CASE doing' = "undo" /\ plan' = Bridge!UndoPlan
    BY <1>2 DEF Bridge!Undoing
  <1>3. CASE Bridge!Effect(Head(plan)) /\ plan' = Tail(plan) /\ UNCHANGED <<doing, cut, unfound>>
    <2>1. CASE plan = Bridge!ConvertPlan /\ Bridge!Way
      <3>1. Head(plan) = "addBridge" /\ Tail(plan) = <<"addPort", "keepOwnDown", "portUp", "bridgeUp">>
        BY <2>1 DEF Bridge!ConvertPlan
      <3>2. QED
        BY <1>3, <2>1, <3>1, BridgeEffects DEF Bridge!Converting, Bridge!Way
    <2>2. CASE /\ plan = <<"addPort", "keepOwnDown", "portUp", "bridgeUp">> /\ "bridge" \in made
               /\ Bridge!Way
      <3>1. Head(plan) = "addPort" /\ Tail(plan) = <<"keepOwnDown", "portUp", "bridgeUp">>
        BY <2>2
      <3>2. made' = {"bridge", "port"}
        BY <1>3, <2>2, <3>1, BridgeEffects DEF Bridge!TypeOK
      <3>3. QED
        BY <1>3, <2>2, <3>1, <3>2, BridgeEffects DEF Bridge!Converting, Bridge!Way
    <2>3. CASE plan = <<"keepOwnDown", "portUp", "bridgeUp">> /\ made = {"bridge", "port"}
      <3>1. Head(plan) = "keepOwnDown" /\ Tail(plan) = <<"portUp", "bridgeUp">>
        BY <2>3
      <3>2. QED
        BY <1>3, <2>3, <3>1, BridgeEffects DEF Bridge!Converting
    <2>4. CASE plan = <<"portUp", "bridgeUp">> /\ made = {"bridge", "port"}
      <3>1. Head(plan) = "portUp" /\ Tail(plan) = <<"bridgeUp">>
        BY <2>4
      <3>2. QED
        BY <1>3, <2>4, <3>1, BridgeEffects DEF Bridge!Converting
    <2>5. CASE plan = <<"bridgeUp">> /\ made = {"bridge", "port"}
      <3>1. Head(plan) = "bridgeUp" /\ Tail(plan) = <<>>
        BY <2>5
      <3>2. QED
        BY <1>3, <2>5, <3>1, BridgeEffects DEF Bridge!Converting
    <2>6. QED
      BY <1>1, <2>1, <2>2, <2>3, <2>4, <2>5 DEF Bridge!Converting
  <1>4. QED
    BY <1>1, <1>2, <1>3, BridgeRunRuns DEF Bridge!Ran, Bridge!AfterFailure

LEMMA BridgeUndoingStep ==
    ASSUME Bridge!TypeOK, Bridge!Undoing, s7 = "undo", Bridge!Run
    PROVE  s7' = "undo" /\ Bridge!Undoing'
  <1> DEFINE auto == s2  back == s4  made == s5  up == s6  doing == s7  plan == s8
             failed == s9  cut == s11  unfound == s12
  <1> DEFINE c == Head(plan)
  <1>1. plan # <<>> /\ Bridge!Ran(c) /\ UNCHANGED <<back, unfound>>
    BY BridgeRunRuns DEF Bridge!card
  <1>2. doing' = "undo" /\ plan' = Tail(plan) /\ failed \subseteq failed'
    BY <1>1 DEF Bridge!Ran, Bridge!AfterFailure
  <1>3. \/ Bridge!Effect(c) /\ cut' = cut
        \/ c \in failed' /\ cut' /\ UNCHANGED <<made, auto>> /\ up' \in {up, "none"}
             /\ (c \notin {"portUp", "ownUp"} => up' = up)
    BY <1>1 DEF Bridge!Ran, Bridge!Lost
  <1>4. Bridge!Unmade /\ made' \subseteq made => Bridge!Unmade'
    BY <1>2 DEF Bridge!Unmade
  <1> HIDE DEF c
  <1>5. CASE plan = Bridge!UndoPlan
    <2>1. c = "deletePort" /\ Tail(plan) = <<"deleteBridge", "letOwnComeUp", "ownUp">>
      BY <1>5 DEF Bridge!UndoPlan, c
    <2>2. Bridge!NoPort'
      BY <1>3, <2>1, BridgeEffects DEF Bridge!NoPort
    <2>3. QED
      BY <1>2, <2>1, <2>2 DEF Bridge!Undoing
  <1>6. CASE plan = <<"deleteBridge", "letOwnComeUp", "ownUp">> /\ Bridge!NoPort
    <2>1. c = "deleteBridge" /\ Tail(plan) = <<"letOwnComeUp", "ownUp">>
      BY <1>6 DEF c
    <2>2. Bridge!Unmade'
      <3>1. CASE made' = made \ {"bridge"}
        BY <1>2, <1>6, <3>1 DEF Bridge!Unmade, Bridge!NoPort, Bridge!TypeOK
      <3>2. CASE c \in failed'
        BY <2>1, <3>2 DEF Bridge!Unmade
      <3>3. QED
        BY <1>3, <2>1, <3>1, <3>2, BridgeEffects
    <2>3. QED
      BY <1>2, <2>1, <2>2 DEF Bridge!Undoing
  <1>7. CASE plan = <<"letOwnComeUp", "ownUp">> /\ Bridge!Unmade
    <2>1. c = "letOwnComeUp" /\ Tail(plan) = <<"ownUp">>
      BY <1>7 DEF c
    <2>2. Bridge!Unmade' /\ Bridge!LetUp' /\ Bridge!Way'
      BY <1>1, <1>2, <1>3, <1>4, <1>7, <2>1, BridgeEffects DEF Bridge!LetUp, Bridge!Way
    <2>3. QED
      BY <1>2, <2>1, <2>2 DEF Bridge!Undoing
  <1>8. CASE plan = <<"ownUp">> /\ Bridge!Unmade /\ Bridge!LetUp /\ Bridge!Way
    <2>1. c = "ownUp" /\ Tail(plan) = <<>>
      BY <1>8 DEF c
    <2>2. Bridge!Unmade' /\ Bridge!LetUp' /\ Bridge!Up' /\ Bridge!Way'
      BY <1>1, <1>2, <1>3, <1>4, <1>8, <2>1, BridgeEffects DEF Bridge!LetUp, Bridge!Up, Bridge!Way
    <2>3. QED
      BY <1>2, <2>1, <2>2 DEF Bridge!Undoing
  <1>9. QED
    BY <1>1, <1>5, <1>6, <1>7, <1>8 DEF Bridge!Undoing

LEMMA BridgeRevertingStep ==
    ASSUME Bridge!TypeOK, Bridge!Reverting, s7 = "revert", Bridge!Run
    PROVE  s7' = "revert" /\ Bridge!Reverting'
  <1> DEFINE auto == s2  back == s4  doing == s7  plan == s8  cut == s11  unfound == s12
  <1>1. plan # <<>> /\ Bridge!Ran(Head(plan)) /\ UNCHANGED <<back, unfound>>
    BY BridgeRunRuns DEF Bridge!card
  <1>2. doing' = "revert"
    BY <1>1 DEF Bridge!Ran, Bridge!AfterFailure
  <1>3. CASE plan' = <<>> /\ cut'
    BY <1>2, <1>3 DEF Bridge!Reverting, Bridge!Way
  <1>4. CASE Bridge!Effect(Head(plan)) /\ plan' = Tail(plan) /\ cut' = cut
    <2>1. CASE plan = Bridge!UndoPlan /\ back # "none"
      <3>1. Tail(plan) = <<"deleteBridge", "letOwnComeUp", "ownUp">>
        BY <2>1 DEF Bridge!UndoPlan
      <3>2. QED
        BY <1>1, <1>2, <1>4, <2>1, <3>1 DEF Bridge!Reverting
    <2>2. CASE plan = <<"deleteBridge", "letOwnComeUp", "ownUp">> /\ back # "none"
      <3>1. Tail(plan) = <<"letOwnComeUp", "ownUp">>
        BY <2>2
      <3>2. QED
        BY <1>1, <1>2, <1>4, <2>2, <3>1 DEF Bridge!Reverting
    <2>3. CASE plan = <<"letOwnComeUp", "ownUp">> /\ back # "none"
      <3>1. Head(plan) = "letOwnComeUp" /\ Tail(plan) = <<"ownUp">>
        BY <2>3
      <3>2. auto' = auto \cup {back}
        BY <1>4, <3>1, BridgeEffects
      <3>3. QED
        BY <1>1, <1>2, <1>4, <2>3, <3>1, <3>2 DEF Bridge!Reverting, Bridge!Way
    <2>4. CASE plan = <<"ownUp">> /\ back # "none" /\ Bridge!Way
      <3>1. Head(plan) = "ownUp" /\ Tail(plan) = <<>>
        BY <2>4
      <3>2. auto' = auto
        BY <1>4, <3>1, BridgeEffects
      <3>3. QED
        BY <1>1, <1>2, <1>4, <2>4, <3>1, <3>2 DEF Bridge!Reverting, Bridge!Way
    <2>5. CASE unfound /\ plan = <<"deletePort", "deleteBridge">>
      <3>1. Tail(plan) = <<"deleteBridge">>
        BY <2>5
      <3>2. QED
        BY <1>1, <1>2, <1>4, <2>5, <3>1 DEF Bridge!Reverting
    <2>6. CASE unfound /\ plan = <<"deleteBridge">>
      <3>1. Tail(plan) = <<>>
        BY <2>6
      <3>2. QED
        BY <1>1, <1>2, <1>4, <2>6, <3>1 DEF Bridge!Reverting, Bridge!Way
    <2>7. QED
      BY <1>1, <2>1, <2>2, <2>3, <2>4, <2>5, <2>6 DEF Bridge!Reverting
  <1>5. QED
    BY <1>1, <1>3, <1>4 DEF Bridge!Ran, Bridge!AfterFailure

LEMMA BridgeWayStep == ASSUME Bridge!WayInv, [Bridge!Next]_(Bridge!vars) PROVE Bridge!WayInv'
  <1> DEFINE auto == s2  own == s3  back == s4  made == s5  up == s6  doing == s7  plan == s8
             failed == s9  undone == s10  cut == s11  unfound == s12
  <1>t. Bridge!TypeOK'
    BY BridgeTypeStep
  <1> USE DEF Bridge!WayInv, Bridge!HostKeepsItsWay, Bridge!PutBack, Bridge!ComesBack, Bridge!ByItself
  <1>1. CASE Bridge!Convert
    BY <1>t, <1>1 DEF Bridge!Convert, Bridge!Converting, Bridge!TypeOK, Bridge!Way
  <1>2. CASE Bridge!Revert
    <2>1. Bridge!Reverting'
      BY <1>2 DEF Bridge!Revert, Bridge!RevertPlan, Bridge!Reverting, Bridge!Previous
    <2>2. QED
      BY <1>t, <1>2, <2>1 DEF Bridge!Revert
  <1>3. CASE Bridge!Run
    <2>1. /\ plan # <<>> /\ UNCHANGED <<own, back, undone, unfound>>
          /\ doing \in {"convert", "undo", "revert"}
      BY <1>3, BridgeRunRuns DEF Bridge!TypeOK, Bridge!card
    <2>0. ~undone
      BY <2>1
    <2>2. CASE doing = "convert"
      <3>0. Bridge!TypeOK /\ Bridge!Converting
        BY <2>2
      <3>1. \/ doing' = "convert" /\ Bridge!Converting'
            \/ doing' = "undo" /\ Bridge!Undoing'
        <4> HIDE DEF Bridge!WayInv, Bridge!HostKeepsItsWay, Bridge!PutBack, Bridge!ComesBack, Bridge!ByItself
        <4>1. QED
          BY <1>3, <2>2, <3>0, BridgeConvertingStep
      <3>2. Bridge!Converting' => cut' \/ unfound' \/ auto' # {} \/ made' = {"bridge", "port"}
        BY DEF Bridge!Converting, Bridge!Way
      <3>3. Bridge!ComesBack'
        BY <3>1, <3>2
      <3>4. QED
        BY <1>t, <2>0, <2>1, <2>2, <3>1, <3>3
    <2>3. CASE doing = "undo"
      <3>1. doing' = "undo" /\ Bridge!Undoing'
        BY <1>3, <2>3, BridgeUndoingStep
      <3>2. QED
        BY <1>t, <2>0, <2>1, <2>3, <3>1
    <2>4. CASE doing = "revert"
      <3>1. doing' = "revert" /\ Bridge!Reverting'
        BY <1>3, <2>4, BridgeRevertingStep
      <3>2. QED
        BY <1>t, <2>0, <2>1, <2>4, <3>1
    <2>5. QED
      BY <2>1, <2>2, <2>3, <2>4
  <1>4. CASE Bridge!Look
    <2>1. Bridge!Converting /\ plan = <<>>
      BY <1>4 DEF Bridge!Look
    <2>2. made = {"bridge", "port"}
      BY <2>1 DEF Bridge!Converting, Bridge!ConvertPlan
    <2>3. QED
      BY <1>t, <1>4, <2>2 DEF Bridge!Look, Bridge!Undoing, Bridge!card
  <1>5. CASE Bridge!Done
    <2>0. UNCHANGED <<Bridge!card, auto, made, up, failed, cut, unfound, plan>> /\ doing' = "nothing"
      BY <1>5 DEF Bridge!Done
    <2>1. CASE doing = "undo"
      <3>1. Bridge!Undoing /\ plan = <<>>
        BY <1>5, <2>1 DEF Bridge!Done
      <3>2. Bridge!Unmade /\ Bridge!LetUp /\ Bridge!Up /\ Bridge!Way /\ back = own
        BY <2>1, <3>1 DEF Bridge!Undoing, Bridge!UndoPlan
      <3>3. Bridge!PutBack' /\ Bridge!ComesBack'
        BY <2>0, <3>2 DEF Bridge!Unmade, Bridge!LetUp, Bridge!Up, Bridge!Way, Bridge!card
      <3>4. QED
        BY <1>t, <1>5, <2>0, <2>1, <3>1, <3>3 DEF Bridge!Done
    <2>2. CASE doing = "revert"
      <3>1. Bridge!Reverting /\ plan = <<>>
        BY <1>5, <2>2 DEF Bridge!Done
      <3>2. Bridge!Way
        BY <3>1 DEF Bridge!Reverting, Bridge!UndoPlan
      <3>3. ~undone'
        BY <1>5, <2>2 DEF Bridge!Done
      <3>4. cut' \/ unfound' \/ auto' # {}
        BY <2>0, <3>2 DEF Bridge!Way
      <3>5. QED
        BY <1>t, <2>0, <3>1, <3>3, <3>4
    <2>3. QED
      BY <1>5, <2>1, <2>2 DEF Bridge!Done
  <1>6. CASE Bridge!Crash
    BY <1>t, <1>6 DEF Bridge!Crash, Bridge!TypeOK, Bridge!card
  <1>7. CASE UNCHANGED Bridge!vars
    BY <1>t, <1>7 DEF Bridge!vars, Bridge!Converting, Bridge!Undoing, Bridge!Reverting, Bridge!NoPort, Bridge!Unmade, Bridge!LetUp, Bridge!Up, Bridge!RevertPlan, Bridge!Way
  <1>8. QED
    BY <1>1, <1>2, <1>3, <1>4, <1>5, <1>6, <1>7 DEF Bridge!Next

-----------------------------------------------------------------------------
(* Creates, and the streak that puts the node into maintenance.              *)
LEMMA LaunchesLaunchInit == Launches!LimitAssumption /\ Launches!Init => Launches!LaunchInv
  <1> DEFINE th == s1  streak == s6
  <1> SUFFICES ASSUME Launches!LimitAssumption, Launches!Init PROVE Launches!LaunchInv
    OBVIOUS
  <1>1. \A t \in Twins : th[t] = Launches!Resting
    BY DEF Launches!Init
  <1>2. streak = 0 /\ ~(0 >= FailureLimit)
    BY DEF Launches!Init, Launches!LimitAssumption
  <1>3. Launches!TypeOK
    BY DEF Launches!Init, Launches!TypeOK
  <1>4. QED
    BY <1>1, <1>2, <1>3 DEF Launches!Init, Launches!LaunchInv, Launches!SomeoneTrips, Launches!TrippedIsMarked, Launches!StreakIsSeen, Launches!Resting, Launches!At

\* A create at work stays one wherever it goes.
LEMMA LaunchesWorking ==
    ASSUME Launches!TypeOK, NEW t \in Twins, ~Launches!At(t, "rest")
    PROVE  /\ \A place \in Launches!Places : [s1[t] EXCEPT !.at = place] \in Launches!Work
           /\ \A how \in {"ok", "refused", "fault"} : [s1[t] EXCEPT !.at = "note", !.came = how] \in Launches!Work
           /\ \A count \in Nat : [s1[t] EXCEPT !.at = "decide", !.count = count] \in Launches!Work
           /\ \A w \in Launches!Work : [s1 EXCEPT ![t] = w] \in [Twins -> {Launches!Resting} \cup Launches!Work]
  <1> DEFINE th == s1
  <1>1. th[t] \in Launches!Work
    BY DEF Launches!TypeOK, Launches!At, Launches!Resting
  <1>2. \A place \in Launches!Places : [th[t] EXCEPT !.at = place] \in Launches!Work
    BY <1>1 DEF Launches!Work
  <1>3. \A how \in {"ok", "refused", "fault"} : [th[t] EXCEPT !.at = "note", !.came = how] \in Launches!Work
    BY <1>1 DEF Launches!Work, Launches!Places
  <1>4. \A count \in Nat : [th[t] EXCEPT !.at = "decide", !.count = count] \in Launches!Work
    BY <1>1 DEF Launches!Work, Launches!Places
  <1>5. \A w \in Launches!Work : [th EXCEPT ![t] = w] \in [Twins -> {Launches!Resting} \cup Launches!Work]
    BY DEF Launches!TypeOK
  <1>6. QED
    BY <1>2, <1>3, <1>4, <1>5

LEMMA LaunchesLaunchType == ASSUME Launches!TypeOK, [Launches!Next]_(Launches!launchVars) PROVE Launches!TypeOK'
  <1> DEFINE th == s1  tripping == s5  streak == s6  lifting == s8  lapsed == s11
  <1> DEFINE Ths == [Twins -> {Launches!Resting} \cup Launches!Work]
  <1>1. ASSUME NEW t \in Twins, NEW p \in Pair, NEW n \in LaunchNames, Launches!Create(t, p, n) PROVE th' \in Ths
    <2> DEFINE w == [at |-> "making", proc |-> p, name |-> n, came |-> "ok", count |-> 0]
    <2>1. w \in Launches!Work
      BY DEF Launches!Work, Launches!Places
    <2> HIDE DEF w
    <2>2. QED
      BY <1>1, <2>1 DEF Launches!Create, Launches!TypeOK, w
  <1>2. ASSUME NEW t \in Twins,
               \/ Launches!DaemonMakes(t) \/ Launches!DaemonRefuses(t) \/ Launches!DaemonFails(t) \/ Launches!DaemonStarts(t)
               \/ Launches!NoteBegins(t) \/ Launches!NoteReads(t) \/ Launches!NoteClears(t) \/ Launches!NoteAdds(t) \/ Launches!NoteDecides(t)
               \/ Launches!Mark(t) \/ Launches!MarkFails(t) \/ Launches!MarkEnds(t)
        PROVE  th' \in Ths
    <2>1. ~Launches!At(t, "rest")
      BY <1>2 DEF Launches!DaemonMakes, Launches!DaemonRefuses, Launches!DaemonFails, Launches!DaemonStarts, Launches!NoteBegins, Launches!NoteReads,
                  Launches!NoteClears, Launches!NoteAdds, Launches!NoteDecides, Launches!Mark, Launches!MarkFails, Launches!MarkEnds, Launches!At
    <2>2. streak' \in Nat \/ ~Launches!NoteAdds(t)
      BY DEF Launches!NoteAdds, Launches!TypeOK
    <2>3. \/ \E place \in Launches!Places : Launches!To(t, place)
          \/ \E how \in {"ok", "refused", "fault"} : Launches!Came(t, how)
          \/ \E count \in Nat : th' = [th EXCEPT ![t].at = "decide", ![t].count = count]
      <3>1. CASE Launches!NoteAdds(t)
        BY <2>2, <3>1 DEF Launches!NoteAdds
      <3>2. CASE Launches!DaemonRefuses(t) \/ Launches!DaemonFails(t) \/ Launches!DaemonStarts(t)
        BY <3>2 DEF Launches!DaemonRefuses, Launches!DaemonFails, Launches!DaemonStarts
      <3>3. CASE Launches!NoteBegins(t)
        BY <3>3 DEF Launches!NoteBegins, Launches!Places
      <3>4. CASE Launches!NoteReads(t) \/ Launches!NoteClears(t) \/ Launches!NoteDecides(t)
        BY <3>4 DEF Launches!NoteReads, Launches!NoteClears, Launches!NoteDecides, Launches!Places
      <3>5. CASE Launches!DaemonMakes(t) \/ Launches!Mark(t) \/ Launches!MarkFails(t) \/ Launches!MarkEnds(t)
        BY <3>5 DEF Launches!DaemonMakes, Launches!Mark, Launches!MarkFails, Launches!MarkEnds, Launches!Places
      <3>6. QED
        BY <1>2, <3>1, <3>2, <3>3, <3>4, <3>5
    <2>4. ASSUME NEW place \in Launches!Places, Launches!To(t, place) PROVE th' \in Ths
      <3>1. th' = [th EXCEPT ![t] = [th[t] EXCEPT !.at = place]]
        BY <2>4 DEF Launches!To
      <3>2. QED
        BY <2>1, <3>1, LaunchesWorking
    <2>5. ASSUME NEW how \in {"ok", "refused", "fault"}, Launches!Came(t, how) PROVE th' \in Ths
      <3>1. th' = [th EXCEPT ![t] = [th[t] EXCEPT !.at = "note", !.came = how]]
        BY <2>5 DEF Launches!Came
      <3>2. QED
        BY <2>1, <3>1, LaunchesWorking
    <2>6. ASSUME NEW count \in Nat, th' = [th EXCEPT ![t].at = "decide", ![t].count = count]
          PROVE  th' \in Ths
      <3>1. th' = [th EXCEPT ![t] = [th[t] EXCEPT !.at = "decide", !.count = count]]
        BY <2>6
      <3>2. QED
        BY <2>1, <3>1, LaunchesWorking
    <2>7. QED
      BY <2>3, <2>4, <2>5, <2>6
  <1>3. ASSUME NEW t \in Twins, Launches!CreateEnds(t) PROVE th' \in Ths
    BY <1>3 DEF Launches!CreateEnds, Launches!TypeOK
  <1>4. ASSUME \/ Launches!MarkByHand \/ Launches!Lift \/ Launches!LiftClears \/ UNCHANGED Launches!launchVars
               \/ \E n \in LaunchNames : Launches!Delete(n)
        PROVE  th' \in Ths
    <2>1. th' = th
      BY <1>4 DEF Launches!MarkByHand, Launches!Lift, Launches!LiftClears, Launches!Delete, Launches!launchVars
    <2>2. QED
      BY <2>1 DEF Launches!TypeOK
  <1>5. th' \in Ths
    BY <1>1, <1>2, <1>3, <1>4 DEF Launches!Next, Launches!TypeOK
  <1>6. tripping' \in [Pair -> BOOLEAN]
    <2>1. CASE \E t \in Twins : Launches!NoteDecides(t) \/ Launches!MarkEnds(t)
      BY <2>1 DEF Launches!TypeOK, Launches!NoteDecides, Launches!MarkEnds, Launches!Untripped
    <2>2. CASE tripping' = tripping
      BY <2>2 DEF Launches!TypeOK
    <2>3. ASSUME NEW t \in Twins, NEW p \in Pair, NEW n \in LaunchNames, Launches!Create(t, p, n)
          PROVE  tripping' = tripping
      BY <2>3 DEF Launches!Create
    <2>4. ASSUME NEW t \in Twins,
                 \/ Launches!DaemonMakes(t) \/ Launches!DaemonRefuses(t) \/ Launches!DaemonFails(t) \/ Launches!DaemonStarts(t)
                 \/ Launches!NoteBegins(t) \/ Launches!NoteReads(t) \/ Launches!NoteClears(t) \/ Launches!NoteAdds(t)
                 \/ Launches!Mark(t) \/ Launches!MarkFails(t) \/ Launches!CreateEnds(t)
          PROVE  tripping' = tripping
      BY <2>4 DEF Launches!DaemonMakes, Launches!DaemonRefuses, Launches!DaemonFails, Launches!DaemonStarts, Launches!NoteBegins, Launches!NoteReads,
         Launches!NoteClears, Launches!NoteAdds, Launches!Mark, Launches!MarkFails, Launches!CreateEnds
    <2>5. ASSUME \/ Launches!MarkByHand \/ Launches!Lift \/ Launches!LiftClears \/ UNCHANGED Launches!launchVars
                 \/ \E n \in LaunchNames : Launches!Delete(n)
          PROVE  tripping' = tripping
      BY <2>5 DEF Launches!MarkByHand, Launches!Lift, Launches!LiftClears, Launches!Delete, Launches!launchVars
    <2>6. QED
      BY <2>1, <2>2, <2>3, <2>4, <2>5 DEF Launches!Next
  <1>7. streak' \in Nat /\ lifting' \in BOOLEAN /\ lapsed' \in BOOLEAN
    <2>1. ASSUME NEW t \in Twins, NEW p \in Pair, NEW n \in LaunchNames, Launches!Create(t, p, n)
          PROVE  streak' = streak /\ lifting' = lifting /\ lapsed' = lapsed
      BY <2>1 DEF Launches!Create
    <2>2. ASSUME NEW t \in Twins,
                 \/ Launches!DaemonMakes(t) \/ Launches!DaemonRefuses(t) \/ Launches!DaemonFails(t) \/ Launches!DaemonStarts(t)
                 \/ Launches!NoteBegins(t) \/ Launches!NoteReads(t) \/ Launches!NoteClears(t) \/ Launches!NoteAdds(t) \/ Launches!NoteDecides(t)
                 \/ Launches!Mark(t) \/ Launches!MarkFails(t) \/ Launches!MarkEnds(t) \/ Launches!CreateEnds(t)
          PROVE  streak' \in {streak, streak + 1, 0} /\ lifting' = lifting /\ lapsed' \in {lapsed, TRUE}
      BY <2>2 DEF Launches!DaemonMakes, Launches!DaemonRefuses, Launches!DaemonFails, Launches!DaemonStarts, Launches!NoteBegins, Launches!NoteReads,
         Launches!NoteClears, Launches!NoteAdds, Launches!NoteDecides, Launches!Mark, Launches!MarkFails, Launches!MarkEnds, Launches!CreateEnds
    <2>3. ASSUME \/ Launches!MarkByHand \/ Launches!Lift \/ Launches!LiftClears \/ UNCHANGED Launches!launchVars
                 \/ \E n \in LaunchNames : Launches!Delete(n)
          PROVE  streak' \in {streak, 0} /\ lifting' \in BOOLEAN /\ lapsed' \in BOOLEAN
      BY <2>3 DEF Launches!MarkByHand, Launches!Lift, Launches!LiftClears, Launches!Delete, Launches!launchVars, Launches!TypeOK
    <2>4. lifting \in BOOLEAN /\ lapsed \in BOOLEAN
      BY DEF Launches!TypeOK
    <2>5. lifting' \in BOOLEAN /\ lapsed' \in BOOLEAN
      BY <2>1, <2>2, <2>3, <2>4 DEF Launches!Next
    <2>6. streak' \in {streak, streak + 1, 0}
      BY <2>1, <2>2, <2>3 DEF Launches!Next
    <2>7. QED
      BY <2>5, <2>6 DEF Launches!TypeOK
  <1>8. QED
    BY <1>5, <1>6, <1>7 DEF Launches!TypeOK

LEMMA LaunchesLaunchStep ==
    ASSUME Launches!LimitAssumption, Launches!LaunchInv, [Launches!Next]_(Launches!launchVars) PROVE Launches!LaunchInv'
  <1>0. Launches!TypeOK /\ Launches!TypeOK' /\ Launches!SomeoneTrips /\ Launches!TrippedIsMarked /\ Launches!StreakIsSeen
    BY LaunchesLaunchType DEF Launches!LaunchInv
  <1> SUFFICES Launches!SomeoneTrips' /\ Launches!TrippedIsMarked' /\ Launches!StreakIsSeen'
    BY <1>0 DEF Launches!LaunchInv
  <1> USE <1>0 DEF Launches!TypeOK, Launches!LimitAssumption, Launches!SomeoneTrips, Launches!TrippedIsMarked, Launches!StreakIsSeen,
                   Launches!At, Launches!To, Launches!Came, Launches!Marked, Launches!NoMark, Launches!Resting, Launches!Work, Launches!Places
  <1>1. ASSUME NEW t \in Twins, NEW p \in Pair, NEW n \in LaunchNames, Launches!Create(t, p, n)
        PROVE  Launches!SomeoneTrips' /\ Launches!TrippedIsMarked' /\ Launches!StreakIsSeen'
    BY <1>1 DEF Launches!Create
  <1>2. ASSUME NEW t \in Twins,
               \/ Launches!DaemonMakes(t) \/ Launches!DaemonRefuses(t) \/ Launches!DaemonFails(t) \/ Launches!DaemonStarts(t)
        PROVE  Launches!SomeoneTrips' /\ Launches!TrippedIsMarked' /\ Launches!StreakIsSeen'
    BY <1>2 DEF Launches!DaemonMakes, Launches!DaemonRefuses, Launches!DaemonFails, Launches!DaemonStarts
  <1>3. ASSUME NEW t \in Twins, Launches!NoteBegins(t) \/ Launches!NoteReads(t) \/ Launches!NoteClears(t)
        PROVE  Launches!SomeoneTrips' /\ Launches!TrippedIsMarked' /\ Launches!StreakIsSeen'
    BY <1>3 DEF Launches!NoteBegins, Launches!NoteReads, Launches!NoteClears, Launches!Counts, Launches!Release
  <1>4. ASSUME NEW t \in Twins, Launches!NoteAdds(t)
        PROVE  Launches!SomeoneTrips' /\ Launches!TrippedIsMarked' /\ Launches!StreakIsSeen'
    BY <1>4 DEF Launches!NoteAdds
  <1>5. ASSUME NEW t \in Twins, Launches!NoteDecides(t)
        PROVE  Launches!SomeoneTrips' /\ Launches!TrippedIsMarked' /\ Launches!StreakIsSeen'
    BY <1>5 DEF Launches!NoteDecides, Launches!Trips, Launches!Release
  <1>6. ASSUME NEW t \in Twins, Launches!Mark(t) \/ Launches!MarkFails(t)
        PROVE  Launches!SomeoneTrips' /\ Launches!TrippedIsMarked' /\ Launches!StreakIsSeen'
    BY <1>6 DEF Launches!Mark, Launches!MarkFails
  <1>7. ASSUME NEW t \in Twins, Launches!MarkEnds(t)
        PROVE  Launches!SomeoneTrips' /\ Launches!TrippedIsMarked' /\ Launches!StreakIsSeen'
    BY <1>7 DEF Launches!MarkEnds, Launches!Untripped
  <1>8. ASSUME NEW t \in Twins, Launches!CreateEnds(t)
        PROVE  Launches!SomeoneTrips' /\ Launches!TrippedIsMarked' /\ Launches!StreakIsSeen'
    BY <1>8 DEF Launches!CreateEnds
  <1>9. ASSUME Launches!MarkByHand \/ (\E n \in LaunchNames : Launches!Delete(n)) \/ UNCHANGED Launches!launchVars
        PROVE  Launches!SomeoneTrips' /\ Launches!TrippedIsMarked' /\ Launches!StreakIsSeen'
    BY <1>9 DEF Launches!MarkByHand, Launches!Delete, Launches!launchVars
  <1>10. ASSUME Launches!Lift \/ Launches!LiftClears
         PROVE  Launches!SomeoneTrips' /\ Launches!TrippedIsMarked' /\ Launches!StreakIsSeen'
    BY <1>10 DEF Launches!Lift, Launches!LiftClears
  <1>11. QED
    BY <1>1, <1>2, <1>3, <1>4, <1>5, <1>6, <1>7, <1>8, <1>9, <1>10 DEF Launches!Next

LEMMA LaunchesLaunchGives == Launches!LaunchInv => Launches!FailingIsMarked
  BY DEF Launches!LaunchInv, Launches!TrippedIsMarked, Launches!StreakIsSeen, Launches!FailingIsMarked, Launches!AtRest, Launches!At

-----------------------------------------------------------------------------
(* Making a template's instances.                                            *)
LEMMA InstancesTagInit == Instances!Init => Instances!TagInv
  <1> DEFINE inst == s4  thread == s6
  <1> SUFFICES ASSUME Instances!Init PROVE Instances!TagInv
    OBVIOUS
  <1>1. Instances!NoTag \in Instances!Tags
    BY DEF Instances!NoTag, Instances!Tags
  <1> HIDE DEF Instances!NoTag, Instances!Tags
  <1>2. Instances!Foreign \in Instances!Instance
    BY <1>1 DEF Instances!Foreign, Instances!Instance
  <1>3. inst \in [InstanceNames -> {Instances!NoInstance} \cup Instances!Instance]
    BY <1>2 DEF Instances!Init
  <1>4. thread \in [InstanceNames -> Instances!Thread] /\ \A n \in InstanceNames : thread[n] = Instances!Idle
    BY DEF Instances!Init, Instances!Thread
  <1>5. Instances!TypeOK
    BY <1>3, <1>4 DEF Instances!Init, Instances!TypeOK
  <1>6. \A n \in InstanceNames : inst[n] = Instances!Foreign \/ inst[n] = Instances!NoInstance
    BY DEF Instances!Init
  <1>7. Instances!TagsAreItsOwn
    BY <1>6 DEF Instances!TagsAreItsOwn, Instances!Foreign, Instances!NoInstance, Instances!Standing, Instances!NoTag
  <1>8. \A n \in InstanceNames : Instances!ToldAsHanded(n) /\ Instances!Told(n)
    <2>1. \A n \in InstanceNames : Instances!Told(n)
      BY <1>4, <1>6 DEF Instances!Told, Instances!Idle, Instances!Foreign, Instances!NoInstance, Instances!NoTag
    <2>2. \A n \in InstanceNames : Instances!ToldAsHanded(n)
      BY <1>4 DEF Instances!ToldAsHanded, Instances!Idle, Instances!Init
    <2>3. QED
      BY <2>1, <2>2
  <1>9. QED
    BY <1>4, <1>5, <1>7, <1>8 DEF Instances!TagInv, Instances!ThreadsAreTheOps

\* An instance that is there is one, and an absent one is not.
LEMMA InstancesMade == ASSUME Instances!TypeOK, NEW n \in InstanceNames PROVE s4[n].there => s4[n] \in Instances!Instance
  BY DEF Instances!TypeOK, Instances!NoInstance

LEMMA InstancesOpStep ==
    ASSUME Instances!TagInv, NEW names \in SUBSET InstanceNames, s5' # Instances!Idle,
           s5'.made \in Nat /\ s5'.plan \in Nat /\ s5'.tags \in [names -> Instances!Tags] /\ s5'.names = names,
           s6' = [n \in InstanceNames |-> IF n \in names THEN s6'[n] ELSE Instances!Idle],
           \A n \in names : s6'[n] \in [at : {"remove", "begin"}],
           s5'.kind \in {"launch", "recreate"},
           s5'.kind = "launch" => \A n \in names : s5'.tags[n].of # "source",
           UNCHANGED <<s1, s2, s3, s4, s7>>
    PROVE  Instances!TagInv'
  <1> DEFINE thread == s6
  <1>1. Instances!TypeOK'
    BY DEF Instances!TagInv, Instances!TypeOK, Instances!Thread
  <1>2. Instances!ThreadsAreTheOps'
    BY DEF Instances!ThreadsAreTheOps
  <1>3. \A n \in InstanceNames : thread'[n].at \notin {"detach", "start"}
    BY DEF Instances!Idle
  <1>4. \A n \in InstanceNames : Instances!Told(n)' /\ Instances!ToldAsHanded(n)'
    <2>1. \A n \in InstanceNames : Instances!Told(n)'
      BY <1>3 DEF Instances!TagInv, Instances!Told
    <2>2. \A n \in InstanceNames : thread'[n].at # "make"
      BY DEF Instances!Idle
    <2>3. \A n \in InstanceNames : Instances!ToldAsHanded(n)'
      BY <1>3, <2>2 DEF Instances!ToldAsHanded, Instances!Handed
    <2>4. QED
      BY <2>1, <2>3
  <1>5. Instances!TagsAreItsOwn'
    BY DEF Instances!TagInv, Instances!TagsAreItsOwn, Instances!Standing
  <1>6. QED
    BY <1>1, <1>2, <1>4, <1>5 DEF Instances!TagInv

LEMMA InstancesLaunchTags == ASSUME Instances!TagInv, NEW names \in SUBSET InstanceNames, NEW byStack \in BOOLEAN, Instances!Launch(names, byStack)
    PROVE Instances!TagInv'
  <1> DEFINE template == s1  stack == s2  has == s3  inst == s4  op == s5  thread == s6
             taken == s7
  <1> DEFINE tag == [of |-> IF byStack THEN "stack" ELSE "none", rev |-> 0]
  <1>1. tag \in Instances!Tags /\ tag.of # "source"
    BY DEF Instances!Tags
  <1> HIDE DEF tag
  <1>2. /\ op'.made = template /\ op'.plan = stack /\ op'.tags = [n \in names |-> tag]
        /\ op'.names = names /\ op' # Instances!Idle /\ op'.kind = "launch"
    BY DEF Instances!Launch, Instances!Idle, tag
  <1>3. /\ thread' = [n \in InstanceNames |-> IF n \in names THEN [at |-> "begin"] ELSE Instances!Idle]
        /\ UNCHANGED <<template, stack, has, inst, taken>>
    BY DEF Instances!Launch
  <1>4. template \in Nat /\ stack \in Nat
    BY DEF Instances!TagInv, Instances!TypeOK
  <1>5. QED
    BY <1>1, <1>2, <1>3, <1>4, InstancesOpStep

LEMMA InstancesRecreateTags == ASSUME Instances!TagInv, NEW stale \in BOOLEAN, Instances!Recreate(stale) PROVE Instances!TagInv'
  <1> DEFINE template == s1  stack == s2  has == s3  inst == s4  op == s5  thread == s6
             taken == s7
  <1>1. Instances!Chosen(stale) \subseteq InstanceNames /\ \A n \in Instances!Chosen(stale) : inst[n].there
    BY DEF Instances!Chosen, Instances!OfTemplate, Instances!Standing
  <1>2. \A n \in Instances!Chosen(stale) : inst[n].tag \in Instances!Tags
    BY <1>1, InstancesMade DEF Instances!TagInv, Instances!Instance
  <1> HIDE DEF Instances!Chosen
  <1>3. /\ op'.made = template /\ op'.plan = stack /\ op'.tags = [n \in Instances!Chosen(stale) |-> inst[n].tag]
        /\ op'.names = Instances!Chosen(stale) /\ op' # Instances!Idle /\ op'.kind = "recreate"
    BY DEF Instances!Recreate, Instances!Idle
  <1>4. /\ thread' = [n \in InstanceNames |-> IF n \in Instances!Chosen(stale) THEN [at |-> "remove"] ELSE Instances!Idle]
        /\ UNCHANGED <<template, stack, has, inst, taken>>
    BY DEF Instances!Recreate
  <1>5. template \in Nat /\ stack \in Nat
    BY DEF Instances!TagInv, Instances!TypeOK
  <1>6. QED
    BY <1>1, <1>2, <1>3, <1>4, <1>5, InstancesOpStep

LEMMA InstancesOpEndsTags == ASSUME Instances!TagInv, Instances!OpEnds PROVE Instances!TagInv'
  <1>1. Instances!TypeOK'
    BY DEF Instances!TagInv, Instances!TypeOK, Instances!OpEnds
  <1>2. Instances!ThreadsAreTheOps' /\ (\A n \in InstanceNames : Instances!Told(n)') /\ Instances!TagsAreItsOwn'
    BY DEF Instances!TagInv, Instances!OpEnds, Instances!ThreadsAreTheOps, Instances!Told, Instances!TagsAreItsOwn, Instances!Standing
  <1>3. \A n \in InstanceNames : Instances!ToldAsHanded(n)'
    BY DEF Instances!OpEnds, Instances!ToldAsHanded, Instances!Idle
  <1>4. QED
    BY <1>1, <1>2, <1>3 DEF Instances!TagInv

\* A step of one thread, on its own instance.
LEMMA InstancesOneStep ==
    ASSUME Instances!TagInv, NEW n \in InstanceNames, s6[n] # Instances!Idle, NEW t \in Instances!Thread, NEW i \in {Instances!NoInstance} \cup Instances!Instance,
           s6' = [s6 EXCEPT ![n] = t], s4' = [s4 EXCEPT ![n] = i],
           i.there /\ t.at = "detach" => i.want = t.tag,
           i.there /\ t.at = "start" => i.tag = i.want,
           i.there /\ i.ok => i.tag = i.want,
           i.there /\ i.want.of = "source" => i.handed,
           t.at \in {"make", "detach", "start"} /\ t.tag.of = "source" => Instances!Handed(n),
           UNCHANGED <<s1, s2, s5>>, s3' = s3
    PROVE  Instances!TagInv'
  <1> DEFINE inst == s4  thread == s6
  <1>1. Instances!TypeOK'
    BY DEF Instances!TagInv, Instances!TypeOK
  <1>2. /\ thread'[n] = t /\ inst'[n] = i
        /\ \A m \in InstanceNames \ {n} : thread'[m] = thread[m] /\ inst'[m] = inst[m]
    BY DEF Instances!TagInv, Instances!TypeOK
  <1>3. Instances!ThreadsAreTheOps'
    BY <1>2 DEF Instances!TagInv, Instances!ThreadsAreTheOps
  <1>4. \A m \in InstanceNames : Instances!Told(m)'
    BY <1>2 DEF Instances!TagInv, Instances!Told
  <1>5. Instances!TagsAreItsOwn'
    BY <1>2 DEF Instances!TagInv, Instances!TagsAreItsOwn, Instances!Standing
  <1>7. \A m \in InstanceNames : Instances!ToldAsHanded(m)'
    <2>1. \A m \in InstanceNames : Instances!Handed(m)' <=> Instances!Handed(m)
      BY DEF Instances!Handed
    <2>2. QED
      BY <1>2, <2>1 DEF Instances!TagInv, Instances!ToldAsHanded
  <1>6. QED
    BY <1>1, <1>3, <1>4, <1>5, <1>7 DEF Instances!TagInv

LEMMA InstancesSame == ASSUME Instances!TypeOK, NEW n \in InstanceNames
              PROVE  /\ s4[n] \in {Instances!NoInstance} \cup Instances!Instance /\ s4 = [s4 EXCEPT ![n] = s4[n]]
                     /\ s6[n] \in Instances!Thread /\ s6 = [s6 EXCEPT ![n] = s6[n]]
  BY DEF Instances!TypeOK

\* What an instance says of its source's stack it was handed.
LEMMA InstancesSaysHanded == ASSUME Instances!TagInv, NEW n \in InstanceNames, s4[n].there, s4[n].want.of = "source"
                    PROVE  s4[n].handed
  BY DEF Instances!TagInv, Instances!Told

LEMMA InstancesToldHanded == ASSUME Instances!TagInv, NEW n \in InstanceNames, s6[n].at \in {"make", "detach", "start"},
                           s6[n].tag.of = "source"
                    PROVE  Instances!Handed(n)
  BY DEF Instances!TagInv, Instances!ToldAsHanded

LEMMA InstancesRemoveTags == ASSUME Instances!TagInv, NEW n \in InstanceNames, Instances!Remove(n) \/ Instances!RemoveRefused(n) \/ Instances!MakeFails(n) PROVE Instances!TagInv'
  <1> DEFINE template == s1  stack == s2  has == s3  inst == s4  op == s5  thread == s6
  <1>0. Instances!TypeOK /\ Instances!TagsAreItsOwn /\ thread[n] # Instances!Idle
    BY DEF Instances!TagInv, Instances!Remove, Instances!RemoveRefused, Instances!MakeFails, Instances!Idle
  <1>1. CASE Instances!Remove(n)
    <2>1. [at |-> "begin"] \in Instances!Thread
      BY DEF Instances!Thread
    <2>2. ~Instances!NoInstance.there
      BY DEF Instances!NoInstance
    <2>3. [at |-> "begin"].at \notin {"make", "detach", "start"}
      OBVIOUS
    <2>4. /\ thread' = [thread EXCEPT ![n] = [at |-> "begin"]] /\ inst' = [inst EXCEPT ![n] = Instances!NoInstance]
          /\ UNCHANGED <<template, stack, op>> /\ has' = has
      BY <1>1 DEF Instances!Remove
    <2>5. QED
      BY <1>0, <2>1, <2>2, <2>3, <2>4, InstancesOneStep
  <1>2. CASE Instances!RemoveRefused(n) \/ Instances!MakeFails(n)
    <2>1. Instances!Idle \in Instances!Thread /\ Instances!Idle.at \notin {"make", "detach", "start"}
      BY DEF Instances!Thread, Instances!Idle
    <2>2. inst' = [inst EXCEPT ![n] = inst[n]] /\ inst[n] \in {Instances!NoInstance} \cup Instances!Instance
      BY <1>0, <1>2, InstancesSame DEF Instances!RemoveRefused, Instances!MakeFails
    <2>3. inst[n].there /\ inst[n].ok => inst[n].tag = inst[n].want
      BY <1>0 DEF Instances!TagsAreItsOwn, Instances!Standing
    <2>4. /\ thread' = [thread EXCEPT ![n] = Instances!Idle]
          /\ UNCHANGED <<template, stack, op>> /\ has' = has
      BY <1>2 DEF Instances!RemoveRefused, Instances!MakeFails
    <2>5. QED
      BY <1>0, <2>1, <2>2, <2>3, <2>4, InstancesSaysHanded, InstancesOneStep
  <1>3. QED
    BY <1>1, <1>2

LEMMA InstancesBeginTags == ASSUME Instances!TagInv, NEW n \in InstanceNames, Instances!Begin(n) PROVE Instances!TagInv'
  <1> DEFINE template == s1  stack == s2  has == s3  inst == s4  op == s5  thread == s6
  <1>0. Instances!TypeOK /\ Instances!TagsAreItsOwn /\ thread[n] # Instances!Idle
    BY DEF Instances!TagInv, Instances!Begin, Instances!Idle
  <1>1. op.tags[n] \in Instances!Tags
    BY <1>0 DEF Instances!TagInv, Instances!ThreadsAreTheOps, Instances!TypeOK
  <1>2. Instances!TagOf(n) \in Instances!Tags
    BY <1>0, <1>1 DEF Instances!TagOf, Instances!Tags, Instances!TypeOK
  <1> DEFINE t == [at |-> "make", rev |-> template, tag |-> Instances!TagOf(n)]
  <1>3. t \in Instances!Thread /\ t.at = "make"
    BY <1>0, <1>2 DEF Instances!Thread, Instances!TypeOK
  <1>4. thread' = [thread EXCEPT ![n] = t] /\ UNCHANGED <<template, stack, op>> /\ has' = has
    BY DEF Instances!Begin
  <1> HIDE DEF t
  <1>5. inst' = [inst EXCEPT ![n] = inst[n]] /\ inst[n] \in {Instances!NoInstance} \cup Instances!Instance
    BY <1>0, InstancesSame DEF Instances!Begin
  <1>6. inst[n].there /\ inst[n].ok => inst[n].tag = inst[n].want
    BY <1>0 DEF Instances!TagsAreItsOwn, Instances!Standing
  <1>7. t.tag.of = "source" => Instances!Handed(n)
    <2>1. Instances!TagOf(n).of = op.tags[n].of
      BY <1>1 DEF Instances!TagOf, Instances!Tags
    <2>2. op # Instances!Idle /\ n \in op.names
      BY <1>0 DEF Instances!TagInv, Instances!ThreadsAreTheOps
    <2>3. QED
      BY <2>1, <2>2 DEF t, Instances!TagInv, Instances!ToldAsHanded
  <1>8. QED
    BY <1>0, <1>3, <1>4, <1>5, <1>6, <1>7, InstancesSaysHanded, InstancesOneStep

LEMMA InstancesMakeTags == ASSUME Instances!TagInv, NEW n \in InstanceNames, Instances!Make(n) PROVE Instances!TagInv'
  <1> DEFINE template == s1  stack == s2  has == s3  inst == s4  op == s5  thread == s6
  <1>0. Instances!TypeOK /\ thread[n] # Instances!Idle /\ op # Instances!Idle /\ thread[n].at = "make"
    BY DEF Instances!TagInv, Instances!Make, Instances!Idle, Instances!ThreadsAreTheOps
  <1>1. thread[n] \in [at : {"make", "detach", "start"}, rev : Nat, tag : Instances!Tags]
    BY <1>0 DEF Instances!TypeOK, Instances!Thread
  <1> DEFINE tag == thread[n].tag
             i == [there |-> TRUE, mark |-> "template", made |-> op.made, rev |-> thread[n].rev,
                   tag |-> Instances!Copied(tag), plan |-> op.plan, want |-> tag, handed |-> Instances!Handed(n),
                   over |-> FALSE, ok |-> FALSE]
             t == [thread[n] EXCEPT !.at = Instances!AfterMaking]
  <1>2. tag \in Instances!Tags /\ Instances!Copied(tag) \in Instances!Tags /\ thread[n].rev \in Nat
    BY <1>1 DEF Instances!Copied, Instances!Tags
  <1>3. op.made \in Nat /\ op.plan \in Nat
    BY <1>0 DEF Instances!TypeOK
  <1>h. Instances!Handed(n) \in BOOLEAN
    BY DEF Instances!Handed
  <1>4. i \in Instances!Instance /\ ~i.ok /\ i.want = tag /\ i.tag = Instances!Copied(tag) /\ (Instances!Handed(n) => i.handed)
    <2> HIDE DEF Instances!Handed, tag
    <2>1. QED
      BY <1>2, <1>3, <1>h DEF Instances!Instance
  <1>5. t \in Instances!Thread /\ t.tag = tag /\ t.at = Instances!AfterMaking
    BY <1>1 DEF Instances!Thread, Instances!AfterMaking
  <1>6. t.at = "start" => Instances!Copied(tag) = tag
    BY <1>5 DEF Instances!AfterMaking, Instances!Copied
  <1>7. inst' = [inst EXCEPT ![n] = i] /\ UNCHANGED <<template, stack, op>> /\ has' = has
    BY DEF Instances!Make, Instances!Handed
  <1>8. thread' = [thread EXCEPT ![n] = t]
    BY DEF Instances!Make
  <1>9. tag.of = "source" => Instances!Handed(n)
    BY <1>0, InstancesToldHanded
  <1> HIDE DEF i, t, tag
  <1>10. QED
    BY <1>0, <1>4, <1>5, <1>6, <1>7, <1>8, <1>9, InstancesOneStep

LEMMA InstancesDetachTags == ASSUME Instances!TagInv, NEW n \in InstanceNames, Instances!Detach(n) \/ Instances!Start(n) PROVE Instances!TagInv'
  <1> DEFINE template == s1  stack == s2  has == s3  inst == s4  op == s5  thread == s6
  <1>0. /\ Instances!TypeOK /\ Instances!Told(n) /\ thread[n] # Instances!Idle /\ inst[n].there
        /\ thread[n].at \in {"detach", "start"}
    BY DEF Instances!TagInv, Instances!Detach, Instances!Start, Instances!Idle
  <1>1. thread[n] \in [at : {"make", "detach", "start"}, rev : Nat, tag : Instances!Tags]
    BY <1>0 DEF Instances!TypeOK, Instances!Thread
  <1>2. inst[n] \in Instances!Instance
    BY <1>0, InstancesMade
  <1>3. UNCHANGED <<template, stack, op>> /\ has' = has
    BY DEF Instances!Detach, Instances!Start
  <1>4. CASE Instances!Detach(n)
    <2> DEFINE i == [inst[n] EXCEPT !.tag = thread[n].tag]
               t == [thread[n] EXCEPT !.at = "start"]
    <2>1. i \in Instances!Instance /\ i.tag = thread[n].tag /\ i.want = inst[n].want /\ i.handed = inst[n].handed
      BY <1>1, <1>2 DEF Instances!Instance
    <2>2. t \in Instances!Thread /\ t.at = "start" /\ t.tag = thread[n].tag
      BY <1>1 DEF Instances!Thread
    <2>3. inst' = [inst EXCEPT ![n] = i] /\ thread' = [thread EXCEPT ![n] = t]
      BY <1>4 DEF Instances!Detach
    <2>4. inst[n].want = thread[n].tag
      BY <1>0, <1>4 DEF Instances!Told, Instances!Detach
    <2> HIDE DEF i, t
    <2>5. QED
      BY <1>0, <1>3, <2>1, <2>2, <2>3, <2>4, InstancesSaysHanded, InstancesToldHanded, InstancesOneStep
  <1>5. CASE Instances!Start(n)
    <2> DEFINE i == [inst[n] EXCEPT !.over = TRUE, !.ok = TRUE]
    <2>1. i \in Instances!Instance /\ i.tag = inst[n].tag /\ i.want = inst[n].want /\ i.handed = inst[n].handed
      BY <1>2 DEF Instances!Instance
    <2>2. inst' = [inst EXCEPT ![n] = i] /\ thread' = [thread EXCEPT ![n] = Instances!Idle]
      BY <1>5 DEF Instances!Start
    <2>3. Instances!Idle \in Instances!Thread /\ Instances!Idle.at \notin {"make", "detach", "start"}
      BY DEF Instances!Thread, Instances!Idle
    <2>4. inst[n].tag = inst[n].want
      BY <1>0, <1>5 DEF Instances!Told, Instances!Start
    <2> HIDE DEF i
    <2>5. QED
      BY <1>0, <1>3, <2>1, <2>2, <2>3, <2>4, InstancesSaysHanded, InstancesOneStep
  <1>6. QED
    BY <1>4, <1>5

LEMMA InstancesFailsTags == ASSUME Instances!TagInv, NEW n \in InstanceNames, Instances!Fails(n) PROVE Instances!TagInv'
  <1> DEFINE template == s1  stack == s2  has == s3  inst == s4  op == s5  thread == s6
  <1>0. Instances!TypeOK /\ Instances!TagsAreItsOwn /\ thread[n] # Instances!Idle
    BY DEF Instances!TagInv, Instances!Fails, Instances!Idle
  <1>1. /\ thread' = [thread EXCEPT ![n] = Instances!Idle]
        /\ UNCHANGED <<template, stack, op>> /\ has' = has
    BY DEF Instances!Fails
  <1>2. Instances!Idle \in Instances!Thread /\ Instances!Idle.at \notin {"make", "detach", "start"}
    BY DEF Instances!Thread, Instances!Idle
  <1>3. CASE inst[n].there
    <2> DEFINE i == [inst[n] EXCEPT !.over = TRUE]
    <2>1. /\ i \in Instances!Instance /\ i.tag = inst[n].tag /\ i.want = inst[n].want /\ i.ok = inst[n].ok
          /\ i.handed = inst[n].handed
      BY <1>0, <1>3, InstancesMade DEF Instances!Instance
    <2>2. inst' = [inst EXCEPT ![n] = i]
      BY <1>3 DEF Instances!Fails
    <2>3. inst[n].ok => inst[n].tag = inst[n].want
      BY <1>0, <1>3 DEF Instances!TagsAreItsOwn, Instances!Standing
    <2> HIDE DEF i
    <2>4. QED
      BY <1>0, <1>1, <1>2, <1>3, <2>1, <2>2, <2>3, InstancesSaysHanded, InstancesOneStep
  <1>4. CASE ~inst[n].there
    <2>1. inst' = [inst EXCEPT ![n] = inst[n]] /\ inst[n] \in {Instances!NoInstance} \cup Instances!Instance
      BY <1>0, <1>4, InstancesSame DEF Instances!Fails
    <2>2. QED
      BY <1>0, <1>1, <1>2, <1>4, <2>1, InstancesOneStep
  <1>5. QED
    BY <1>3, <1>4

\* What people do to instances leaves each with its tags, or takes it away.
LEMMA InstancesPeopleStep ==
    ASSUME Instances!TagInv, s4' \in [InstanceNames -> {Instances!NoInstance} \cup Instances!Instance],
           \A n \in InstanceNames : s4'[n].there =>
               s4[n].there /\ s4'[n].tag = s4[n].tag /\ s4'[n].want = s4[n].want
                   /\ s4'[n].ok = s4[n].ok /\ s4'[n].handed = s4[n].handed,
           s1' \in Nat /\ s2' \in Nat /\ s3' \subseteq Instances!Things, UNCHANGED <<s5, s6>>
    PROVE  Instances!TagInv'
  <1>1. Instances!TypeOK'
    BY DEF Instances!TagInv, Instances!TypeOK
  <1>2. Instances!ThreadsAreTheOps' /\ (\A n \in InstanceNames : Instances!Told(n)') /\ Instances!TagsAreItsOwn'
    BY DEF Instances!TagInv, Instances!ThreadsAreTheOps, Instances!Told, Instances!TagsAreItsOwn, Instances!Standing
  <1>3. \A n \in InstanceNames : Instances!ToldAsHanded(n)'
    BY DEF Instances!TagInv, Instances!ToldAsHanded, Instances!Handed
  <1>4. QED
    BY <1>1, <1>2, <1>3 DEF Instances!TagInv

LEMMA InstancesPeopleTags ==
    ASSUME Instances!TagInv, Instances!EditTemplate \/ Instances!EditStack \/ Instances!TearDownSource \/ (\E n \in InstanceNames : Instances!Import(n))
               \/ (\E x \in Instances!Things : Instances!TakeAway(x))
    PROVE  Instances!TagInv'
  <1> DEFINE template == s1  stack == s2  has == s3  inst == s4  op == s5  thread == s6
  <1>0. /\ template \in Nat /\ stack \in Nat /\ has \subseteq Instances!Things /\ Instances!TypeOK
        /\ inst \in [InstanceNames -> {Instances!NoInstance} \cup Instances!Instance]
    BY DEF Instances!TagInv, Instances!TypeOK
  <1>1. CASE Instances!EditTemplate \/ Instances!EditStack \/ (\E x \in Instances!Things : Instances!TakeAway(x))
    <2>1. inst' = inst /\ UNCHANGED <<op, thread>>
      BY <1>1 DEF Instances!EditTemplate, Instances!EditStack, Instances!TakeAway
    <2>2. has' \subseteq Instances!Things
      BY <1>0, <1>1 DEF Instances!EditTemplate, Instances!EditStack, Instances!TakeAway
    <2>3. template' \in {0, template, template + 1} /\ stack' \in {stack, stack + 1}
      BY <1>1 DEF Instances!EditTemplate, Instances!EditStack, Instances!TakeAway
    <2>4. template' \in Nat /\ stack' \in Nat
      BY <1>0, <2>3
    <2>5. QED
      BY <1>0, <2>1, <2>2, <2>4, InstancesPeopleStep
  <1>2. ASSUME NEW n \in InstanceNames, Instances!Import(n) PROVE Instances!TagInv'
    <2> DEFINE i == [inst[n] EXCEPT !.mark = "template"]
    <2>1. inst[n] \in Instances!Instance
      BY <1>0, <1>2, InstancesMade DEF Instances!Import, Instances!Standing
    <2>2. /\ i \in Instances!Instance /\ i.tag = inst[n].tag /\ i.want = inst[n].want /\ i.ok = inst[n].ok
          /\ inst[n].there /\ i.handed = inst[n].handed
      BY <2>1 DEF Instances!Instance
    <2>3. inst' = [inst EXCEPT ![n] = i] /\ UNCHANGED <<template, stack, has, op, thread>>
      BY <1>2 DEF Instances!Import
    <2> HIDE DEF i
    <2>4. /\ inst' \in [InstanceNames -> {Instances!NoInstance} \cup Instances!Instance] /\ inst'[n] = i
          /\ \A m \in InstanceNames \ {n} : inst'[m] = inst[m]
      BY <1>0, <2>2, <2>3
    <2>5. QED
      BY <1>0, <2>2, <2>3, <2>4, InstancesPeopleStep
  <1>3. CASE Instances!TearDownSource
    <2> DEFINE gone == {n \in Instances!Standing : inst[n].tag.of = "source"}
    <2>1. /\ inst' = [n \in InstanceNames |-> IF n \in gone THEN Instances!NoInstance ELSE inst[n]]
          /\ UNCHANGED <<template, stack, has, op, thread>>
      BY <1>3 DEF Instances!TearDownSource
    <2>2. ~Instances!NoInstance.there
      BY DEF Instances!NoInstance
    <2> HIDE DEF gone
    <2>3. inst' \in [InstanceNames -> {Instances!NoInstance} \cup Instances!Instance]
      BY <1>0, <2>1
    <2>4. QED
      BY <1>0, <2>1, <2>2, <2>3, InstancesPeopleStep
  <1>4. QED
    BY <1>1, <1>2, <1>3

LEMMA InstancesTagStep == ASSUME Instances!TagInv, [Instances!Next]_(Instances!instVars) PROVE Instances!TagInv'
  <1> DEFINE template == s1  stack == s2  has == s3  inst == s4  op == s5  thread == s6
  <1>1. CASE UNCHANGED Instances!instVars
    <2>1. Instances!TagInv /\ UNCHANGED <<template, stack, has, inst, op, thread>>
      BY <1>1 DEF Instances!instVars
    <2>2. QED
      BY <2>1 DEF Instances!TagInv, Instances!TypeOK, Instances!ThreadsAreTheOps, Instances!Told, Instances!ToldAsHanded, Instances!Handed, Instances!TagsAreItsOwn, Instances!Standing
  <1>2. CASE Instances!Next
    BY <1>2, InstancesLaunchTags, InstancesRecreateTags, InstancesOpEndsTags, InstancesRemoveTags, InstancesBeginTags, InstancesMakeTags, InstancesDetachTags,
       InstancesFailsTags, InstancesPeopleTags DEF Instances!Next
  <1>3. QED
    BY <1>1, <1>2

-----------------------------------------------------------------------------
(* A terminal in the browser.                                                *)
LEMMA TerminalChunksAre ==
    ASSUME NEW k \in Nat
    PROVE  /\ Terminal!Chunks(k) \in Seq({"chunk", "code"}) /\ Len(Terminal!Chunks(k)) = k
           /\ Append(Terminal!Chunks(k), "chunk") = Terminal!Chunks(k + 1)
           /\ Append(Terminal!Chunks(k), "code") = Terminal!Chunks(k) \o <<"code">>
  BY DEF Terminal!Chunks

LEMMA TerminalTellInit == Terminal!Init => Terminal!TellInv
  <1> DEFINE guest == s2  wire == s3  data == s4  out == s6  page == s7  late == s9
  <1> SUFFICES ASSUME Terminal!Init PROVE Terminal!TellInv
    OBVIOUS
  <1>0. wire = <<>> /\ page = [is |-> "there", seen |-> <<>>, closed |-> FALSE]
    BY DEF Terminal!Init
  <1>1. Terminal!TypeOK
    <2>1. guest \in [is : {"runs", "exited", "cutOff"}, printed : Nat, reads : BOOLEAN]
      BY DEF Terminal!Init
    <2>2. data \in [closed : BOOLEAN, broken : BOOLEAN, resizes : BOOLEAN]
      BY DEF Terminal!Init
    <2>3. page \in [is : {"there", "leaving", "lost"}, seen : Seq({"chunk", "code"}), closed : BOOLEAN]
      BY <1>0
    <2>4. out = "asks" /\ late = FALSE
      BY DEF Terminal!Init
    <2>5. wire \in Seq({"chunk", "end"})
      BY <1>0
    <2>6. QED
      BY <2>1, <2>2, <2>3, <2>4, <2>5 DEF Terminal!TypeOK, Terminal!Outs
  <1>2. Terminal!Chunks(0) = <<>>
    BY DEF Terminal!Chunks
  <1>3. page.seen = <<>> /\ wire = <<>> /\ guest.printed = 0 /\ guest.is = "runs" /\ out = "asks" /\ ~page.closed
    BY DEF Terminal!Init
  <1>4. Terminal!HoldsOn /\ Terminal!Flows /\ Terminal!Told
    BY <1>2, <1>3 DEF Terminal!HoldsOn, Terminal!Flows, Terminal!Told, Terminal!Exited
  <1>5. QED
    BY <1>1, <1>3, <1>4 DEF Terminal!TellInv

LEMMA TerminalPageType ==
    ASSUME Terminal!TypeOK, NEW what \in {"chunk", "code"}, NEW next, Terminal!Reaches(what, next) \/ Terminal!SendFails(next)
    PROVE  /\ s7' \in [is : {"there", "leaving", "lost"}, seen : Seq({"chunk", "code"}),
                         closed : BOOLEAN]
           /\ s6' = next
  <1> DEFINE out == s6  page == s7
  <1>1. out' = next
    BY DEF Terminal!Reaches, Terminal!SendFails
  <1>2. CASE page' = [page EXCEPT !.seen = Append(@, what)]
    <2>1. page.seen \in Seq({"chunk", "code"})
      BY DEF Terminal!TypeOK
    <2>2. Append(page.seen, what) \in Seq({"chunk", "code"})
      BY <2>1
    <2>3. QED
      BY <1>1, <1>2, <2>2 DEF Terminal!TypeOK
  <1>3. CASE page' = [page EXCEPT !.closed = TRUE] \/ page' = page
    BY <1>1, <1>3 DEF Terminal!TypeOK
  <1>4. QED
    BY <1>2, <1>3 DEF Terminal!Reaches, Terminal!SendFails

LEMMA TerminalTellType == ASSUME Terminal!TypeOK, [Terminal!Next]_(Terminal!vars) PROVE Terminal!TypeOK'
  <1> DEFINE wire == s3  out == s6  page == s7
  <1> USE DEF Terminal!TypeOK, Terminal!Outs
  <1>1. CASE Terminal!Open
    BY <1>1 DEF Terminal!Open
  <1>2. CASE Terminal!Refused
    BY <1>2 DEF Terminal!Refused
  <1>3. CASE Terminal!Key
    BY <1>3 DEF Terminal!Key
  <1>4. CASE Terminal!Written
    BY <1>4 DEF Terminal!Written
  <1>5. CASE Terminal!PageLeft
    BY <1>5 DEF Terminal!PageLeft
  <1>6. CASE Terminal!InCloses
    BY <1>6 DEF Terminal!InCloses, Terminal!Mark, Terminal!Goodbye
  <1>7. CASE Terminal!Read
    <2>1. wire \in Seq({"chunk", "end"}) => wire = <<>> \/ Tail(wire) \in Seq({"chunk", "end"})
      OBVIOUS
    <2>2. wire' \in Seq({"chunk", "end"})
      BY <1>7, <2>1 DEF Terminal!Read
    <2>3. out' \in Terminal!Outs
      BY <1>7 DEF Terminal!Read, Terminal!Ending
    <2>4. QED
      BY <1>7, <2>2, <2>3 DEF Terminal!Read
  <1>8. CASE Terminal!Send
    <2>1. Terminal!Reaches("chunk", "reads") \/ Terminal!SendFails(Terminal!Ending)
      BY <1>8 DEF Terminal!Send
    <2>2. QED
      BY <1>8, <2>1, TerminalPageType DEF Terminal!Send, Terminal!Ending
  <1>9. CASE Terminal!OutCloses
    BY <1>9 DEF Terminal!OutCloses, Terminal!ExitCode, Terminal!Mark, Terminal!Goodbye
  <1>10. CASE Terminal!Waited
    BY <1>10 DEF Terminal!Waited, Terminal!Finished
  <1>11. CASE Terminal!Say
    <2>1. CASE Terminal!Reaches("code", "hangs") \/ Terminal!SendFails("hangs")
      BY <1>11, <2>1, TerminalPageType DEF Terminal!Say
    <2>2. CASE out' = "hangs" /\ UNCHANGED page
      BY <1>11, <2>2 DEF Terminal!Say
    <2>3. QED
      BY <1>11, <2>1, <2>2 DEF Terminal!Say
  <1>12. CASE Terminal!HangsUp
    BY <1>12 DEF Terminal!HangsUp
  <1>13. CASE Terminal!Joined
    BY <1>13 DEF Terminal!Joined
  <1>14. CASE Terminal!Prints
    BY <1>14 DEF Terminal!Prints
  <1>15. CASE Terminal!Stops
    BY <1>15 DEF Terminal!Stops
  <1>16. CASE Terminal!TakesOrNot
    BY <1>16 DEF Terminal!TakesOrNot
  <1>17. CASE Terminal!Leaves
    BY <1>17 DEF Terminal!Leaves
  <1>18. CASE UNCHANGED Terminal!vars
    BY <1>18 DEF Terminal!vars
  <1>19. QED
    BY <1>1, <1>2, <1>3, <1>4, <1>5, <1>6, <1>7, <1>8, <1>9, <1>10, <1>11, <1>12, <1>13, <1>14,
       <1>15, <1>16, <1>17, <1>18 DEF Terminal!Next

\* What the invariant says of a shell whose page stays.
LEMMA TerminalStays ==
    ASSUME Terminal!TellInv, [Terminal!Next]_(Terminal!vars), s1' = "shell", s7'.is = "there", s2'.is # "cutOff"
    PROVE  /\ s1 = "shell" /\ s7.is = "there" /\ s2.is # "cutOff"
           /\ Terminal!TypeOK /\ Terminal!TypeOK' /\ Terminal!HoldsOn /\ Terminal!Flows /\ Terminal!Told
  <1> DEFINE kind == s1  guest == s2  page == s7
  <1>1. Terminal!TypeOK /\ Terminal!TypeOK'
    BY TerminalTellType DEF Terminal!TellInv
  <1>2. kind = "shell"
    BY DEF Terminal!Next, Terminal!Open, Terminal!Refused, Terminal!Key, Terminal!Written, Terminal!PageLeft, Terminal!InCloses, Terminal!Read, Terminal!Send, Terminal!OutCloses, Terminal!Waited, Terminal!Say,
           Terminal!HangsUp, Terminal!Joined, Terminal!Prints, Terminal!Stops, Terminal!TakesOrNot, Terminal!Leaves, Terminal!vars
  <1>3. page.is = "there"
    <2>1. CASE page' = page
      BY <2>1
    <2>2. CASE Terminal!PageLeft \/ Terminal!Send \/ Terminal!Say \/ Terminal!HangsUp \/ Terminal!Leaves
      BY <1>1, <2>2 DEF Terminal!PageLeft, Terminal!Send, Terminal!Say, Terminal!HangsUp, Terminal!Leaves, Terminal!Reaches, Terminal!SendFails, Terminal!TypeOK
    <2>3. QED
      BY <2>1, <2>2 DEF Terminal!Next, Terminal!Open, Terminal!Refused, Terminal!Key, Terminal!Written, Terminal!InCloses, Terminal!Read, Terminal!OutCloses, Terminal!Waited,
           Terminal!Joined, Terminal!Prints, Terminal!Stops, Terminal!TakesOrNot, Terminal!vars
  <1>4. guest.is # "cutOff"
    <2>1. CASE guest' = guest
      BY <2>1
    <2>2. CASE Terminal!Prints \/ Terminal!Stops \/ Terminal!TakesOrNot
      BY <1>1, <2>2 DEF Terminal!Prints, Terminal!Stops, Terminal!TakesOrNot, Terminal!TypeOK
    <2>3. QED
      BY <2>1, <2>2 DEF Terminal!Next, Terminal!Open, Terminal!Refused, Terminal!Key, Terminal!Written, Terminal!InCloses, Terminal!Read, Terminal!OutCloses, Terminal!Waited,
           Terminal!Joined, Terminal!PageLeft, Terminal!Send, Terminal!Say, Terminal!HangsUp, Terminal!Leaves, Terminal!vars
  <1>5. QED
    BY <1>1, <1>2, <1>3, <1>4 DEF Terminal!TellInv

\* Steps that leave what was printed, the thread that reads and the page as they are.
LEMMA TerminalAsideStep ==
    ASSUME Terminal!HoldsOn, Terminal!Flows, Terminal!Told, Terminal!TypeOK, UNCHANGED <<s6, s3, s8, s9>>,
           s7'.seen = s7.seen /\ s7'.closed = s7.closed,
           s2'.is = s2.is /\ s2'.printed = s2.printed, s4.broken => s4'.broken
    PROVE  Terminal!HoldsOn' /\ Terminal!Flows' /\ Terminal!Told'
  <1>1. Terminal!HoldsOn'
    BY DEF Terminal!HoldsOn
  <1>2. Terminal!Flows'
    BY DEF Terminal!Flows, Terminal!Exited
  <1>3. Terminal!Told'
    BY DEF Terminal!Told, Terminal!Exited
  <1>4. QED
    BY <1>1, <1>2, <1>3

LEMMA TerminalAsideTells ==
    ASSUME Terminal!HoldsOn, Terminal!Flows, Terminal!Told, Terminal!TypeOK, s7.is = "there", s7'.is = "there",
           Terminal!Key \/ Terminal!Written \/ Terminal!PageLeft \/ Terminal!InCloses \/ Terminal!TakesOrNot \/ Terminal!Leaves \/ UNCHANGED Terminal!vars
    PROVE  Terminal!HoldsOn' /\ Terminal!Flows' /\ Terminal!Told'
  <1> DEFINE guest == s2  wire == s3  data == s4  out == s6  page == s7  code == s8  late == s9
  <1>1. UNCHANGED <<out, wire, code, late>>
    BY DEF Terminal!Key, Terminal!Written, Terminal!PageLeft, Terminal!InCloses, Terminal!TakesOrNot, Terminal!Leaves, Terminal!vars
  <1>2. page'.seen = page.seen /\ page'.closed = page.closed
    <2>1. CASE page' = page
      BY <2>1
    <2>2. CASE Terminal!PageLeft
      BY <2>2 DEF Terminal!PageLeft, Terminal!TypeOK
    <2>3. CASE Terminal!Leaves
      BY <2>3 DEF Terminal!Leaves, Terminal!TypeOK
    <2>4. QED
      BY <2>1, <2>2, <2>3 DEF Terminal!Key, Terminal!Written, Terminal!InCloses, Terminal!TakesOrNot, Terminal!vars
  <1>3. guest'.is = guest.is /\ guest'.printed = guest.printed
    <2>1. CASE guest' = guest
      BY <2>1
    <2>2. CASE Terminal!TakesOrNot
      BY <2>2 DEF Terminal!TakesOrNot, Terminal!TypeOK
    <2>3. QED
      BY <2>1, <2>2 DEF Terminal!Key, Terminal!Written, Terminal!PageLeft, Terminal!InCloses, Terminal!Leaves, Terminal!vars
  <1>4. data.broken => data'.broken
    <2>1. CASE data' = data
      BY <2>1
    <2>2. CASE Terminal!Written
      BY <2>2 DEF Terminal!Written, Terminal!TypeOK
    <2>3. CASE Terminal!InCloses
      BY <2>3 DEF Terminal!InCloses, Terminal!Mark, Terminal!Goodbye, Terminal!TypeOK
    <2>4. QED
      BY <2>1, <2>2, <2>3 DEF Terminal!Key, Terminal!PageLeft, Terminal!TakesOrNot, Terminal!Leaves, Terminal!vars
  <1>5. QED
    BY <1>1, <1>2, <1>3, <1>4, TerminalAsideStep

LEMMA TerminalOpenTells ==
    ASSUME Terminal!HoldsOn, Terminal!Flows, Terminal!Open \/ Terminal!Refused PROVE Terminal!HoldsOn' /\ Terminal!Flows' /\ Terminal!Told'
  BY DEF Terminal!Open, Terminal!Refused, Terminal!HoldsOn, Terminal!Flows, Terminal!Told, Terminal!Exited

LEMMA TerminalReadTells ==
    ASSUME Terminal!HoldsOn, Terminal!Flows, Terminal!TypeOK, s1 = "shell", s2.is # "cutOff", Terminal!Read
    PROVE  Terminal!HoldsOn' /\ Terminal!Flows' /\ Terminal!Told'
  <1> DEFINE guest == s2  wire == s3  data == s4  out == s6  page == s7  code == s8  late == s9
  <1>1. /\ out = "reads" /\ UNCHANGED <<guest, data, page, code, late>>
        /\ wire \in Seq({"chunk", "end"}) /\ Len(page.seen) \in Nat /\ guest.printed \in Nat
    BY DEF Terminal!Read, Terminal!TypeOK
  <1>2. /\ page.seen = Terminal!Chunks(Len(page.seen))
        /\ \A i \in 1 .. Len(wire) :
              wire[i] = IF Terminal!Exited /\ i = Len(wire) THEN "end" ELSE "chunk"
        /\ Terminal!Exited => wire # <<>>
        /\ Len(page.seen) + Len(wire) = guest.printed + (IF Terminal!Exited THEN 1 ELSE 0)
    BY <1>1 DEF Terminal!Flows
  <1>3. Terminal!HoldsOn'
    BY <1>1 DEF Terminal!HoldsOn, Terminal!Read, Terminal!Ending
  <1>4. CASE wire # <<>> /\ Head(wire) = "chunk"
    <2>1. out' = "sends" /\ wire' = Tail(wire)
      BY <1>1, <1>4 DEF Terminal!Read
    <2>2. /\ Len(wire') = Len(wire) - 1 /\ Len(wire) \in Nat
          /\ \A i \in 1 .. Len(wire') : wire'[i] = wire[i + 1] /\ i + 1 \in 1 .. Len(wire)
          /\ wire[1] = "chunk" /\ 1 \in 1 .. Len(wire)
      BY <1>1, <1>4, <2>1
    <2>3. Terminal!Exited => Len(wire) # 1
      BY <1>2, <2>2
    <2>4. Terminal!Exited' = Terminal!Exited
      BY <1>1 DEF Terminal!Exited
    <2>5. \A i \in 1 .. Len(wire') : wire'[i] = IF Terminal!Exited /\ i = Len(wire') THEN "end" ELSE "chunk"
      BY <1>2, <2>2
    <2>6. Terminal!Exited => wire' # <<>>
      BY <2>2, <2>3
    <2>7. Len(page.seen) + 1 + Len(wire') = guest.printed + (IF Terminal!Exited THEN 1 ELSE 0)
      BY <1>1, <1>2, <2>2
    <2>8. Terminal!Flows'
      BY <1>1, <1>2, <2>1, <2>4, <2>5, <2>6, <2>7 DEF Terminal!Flows
    <2>9. QED
      BY <1>3, <2>1, <2>8 DEF Terminal!Told
  <1>5. CASE wire # <<>> /\ Head(wire) # "chunk"
    <2>1. /\ Len(wire) \in Nat /\ 1 \in 1 .. Len(wire) /\ Head(wire) = wire[1] /\ wire[1] = "end"
          /\ out' = "close"
      BY <1>1, <1>5 DEF Terminal!Read, Terminal!Ending
    <2>2. Terminal!Exited /\ Len(wire) = 1
      BY <1>2, <2>1
    <2>3. Len(page.seen) = guest.printed
      BY <1>1, <1>2, <2>2
    <2>4. QED
      BY <1>1, <1>2, <1>3, <2>1, <2>2, <2>3 DEF Terminal!Flows, Terminal!Told, Terminal!Exited
  <1>6. CASE wire = <<>>
    <2>1. data.broken /\ out' = "close" /\ ~Terminal!Exited
      BY <1>1, <1>2, <1>6 DEF Terminal!Read, Terminal!Ending
    <2>2. QED
      BY <1>1, <1>3, <2>1 DEF Terminal!Flows, Terminal!Told, Terminal!Exited
  <1>7. QED
    BY <1>4, <1>5, <1>6

LEMMA TerminalSendTells ==
    ASSUME Terminal!HoldsOn, Terminal!Flows, Terminal!TypeOK, s7.is = "there", Terminal!Send
    PROVE  Terminal!HoldsOn' /\ Terminal!Flows' /\ Terminal!Told'
  <1> DEFINE guest == s2  wire == s3  data == s4  out == s6  page == s7  code == s8  late == s9
  <1>1. /\ out = "sends" /\ UNCHANGED <<guest, wire, data, code, late>> /\ ~page.closed
        /\ out' = "reads" /\ page' = [page EXCEPT !.seen = Append(@, "chunk")]
    BY DEF Terminal!Send, Terminal!Reaches, Terminal!SendFails, Terminal!HoldsOn
  <1>2. page.seen \in Seq({"chunk", "code"}) /\ Len(page.seen) \in Nat
    BY DEF Terminal!TypeOK
  <1>3. page'.seen = Append(page.seen, "chunk") /\ ~page'.closed
    BY <1>1 DEF Terminal!TypeOK
  <1>4. page.seen = Terminal!Chunks(Len(page.seen))
    BY <1>1 DEF Terminal!Flows
  <1>5. page'.seen = Terminal!Chunks(Len(page'.seen)) /\ Len(page'.seen) = Len(page.seen) + 1
    <2>1. PICK k \in Nat : k = Len(page.seen)
      BY <1>2
    <2>2. page'.seen = Terminal!Chunks(k + 1)
      BY <1>3, <1>4, <2>1, TerminalChunksAre
    <2>3. Len(page'.seen) = k + 1
      BY <2>2, TerminalChunksAre
    <2>4. QED
      BY <2>1, <2>2, <2>3
  <1>6. Len(page.seen) + 1 + Len(wire) = guest.printed + (IF Terminal!Exited THEN 1 ELSE 0)
    BY <1>1 DEF Terminal!Flows
  <1>7. Terminal!Exited' = Terminal!Exited
    BY <1>1 DEF Terminal!Exited
  <1>8. Len(page'.seen) + 0 + Len(wire') = guest'.printed + (IF Terminal!Exited' THEN 1 ELSE 0)
    <2>1. Len(wire) \in Nat
      BY DEF Terminal!TypeOK
    <2>2. QED
      BY <1>1, <1>2, <1>5, <1>6, <1>7, <2>1
  <1>9. Terminal!Flows'
    BY <1>1, <1>5, <1>7, <1>8 DEF Terminal!Flows
  <1>10. QED
    BY <1>1, <1>3, <1>9 DEF Terminal!HoldsOn, Terminal!Told

LEMMA TerminalCloseTells ==
    ASSUME Terminal!HoldsOn, Terminal!Told, Terminal!TypeOK, Terminal!OutCloses \/ Terminal!Waited \/ Terminal!HangsUp \/ Terminal!Joined, s1 = "shell"
    PROVE  Terminal!HoldsOn' /\ Terminal!Flows' /\ Terminal!Told'
  <1> DEFINE guest == s2  data == s4  out == s6  page == s7  code == s8  late == s9
  <1>1. CASE Terminal!OutCloses
    <2>1. /\ UNCHANGED <<guest, page, code, late>> /\ out \in {"close", "goodbye"}
          /\ \/ out' = "waits" /\ data' = [data EXCEPT !.broken = TRUE]
             \/ out' = "goodbye" /\ data' = [data EXCEPT !.closed = TRUE]
      BY <1>1 DEF Terminal!OutCloses, Terminal!ExitCode, Terminal!Mark, Terminal!Goodbye
    <2>2. (data.broken => data'.broken) /\ (out' = "waits" => data'.broken)
      BY <2>1 DEF Terminal!TypeOK
    <2>3. QED
      BY <2>1, <2>2 DEF Terminal!HoldsOn, Terminal!Flows, Terminal!Told, Terminal!Exited
  <1>2. CASE Terminal!Waited
    BY <1>2 DEF Terminal!Waited, Terminal!Finished, Terminal!HoldsOn, Terminal!Flows, Terminal!Told, Terminal!Exited, Terminal!TypeOK
  <1>3. CASE Terminal!HangsUp
    <2>1. /\ UNCHANGED <<guest, data, code, late>> /\ out = "hangs" /\ out' = "joins"
          /\ page'.seen = page.seen
      BY <1>3 DEF Terminal!HangsUp, Terminal!TypeOK
    <2>2. QED
      BY <2>1 DEF Terminal!HoldsOn, Terminal!Flows, Terminal!Told, Terminal!Exited
  <1>4. CASE Terminal!Joined
    <2>1. /\ UNCHANGED <<guest, page, code, late>> /\ out = "joins" /\ out' = "over" /\ data'.broken
      BY <1>4 DEF Terminal!Joined, Terminal!TypeOK
    <2>2. QED
      BY <2>1 DEF Terminal!HoldsOn, Terminal!Flows, Terminal!Told, Terminal!Exited
  <1>5. QED
    BY <1>1, <1>2, <1>3, <1>4

LEMMA TerminalSayTells ==
    ASSUME Terminal!HoldsOn, Terminal!Told, Terminal!TypeOK, s7.is = "there", Terminal!Say
    PROVE  Terminal!HoldsOn' /\ Terminal!Flows' /\ Terminal!Told'
  <1> DEFINE guest == s2  data == s4  out == s6  page == s7  code == s8  late == s9
  <1>1. out = "says" /\ out' = "hangs" /\ UNCHANGED <<guest, data, code, late>> /\ ~page.closed
    BY DEF Terminal!Say, Terminal!Reaches, Terminal!SendFails, Terminal!HoldsOn
  <1>2. CASE code = "known"
    <2>1. page' = [page EXCEPT !.seen = Append(@, "code")]
      BY <1>1, <1>2 DEF Terminal!Say, Terminal!Reaches, Terminal!SendFails
    <2>2. page'.seen = Append(page.seen, "code") /\ ~page'.closed
      BY <1>1, <2>1 DEF Terminal!TypeOK
    <2>3. Terminal!Exited => page'.seen = Terminal!Chunks(guest.printed) \o <<"code">>
      <3>1. guest.printed \in Nat
        BY DEF Terminal!TypeOK
      <3>2. QED
        BY <1>1, <2>2, <3>1, TerminalChunksAre DEF Terminal!Told
    <2>4. QED
      BY <1>1, <2>2, <2>3 DEF Terminal!HoldsOn, Terminal!Flows, Terminal!Told, Terminal!Exited
  <1>3. CASE code # "known"
    BY <1>1, <1>3 DEF Terminal!Say, Terminal!HoldsOn, Terminal!Flows, Terminal!Told, Terminal!Exited
  <1>4. QED
    BY <1>2, <1>3

LEMMA TerminalPrintTells ==
    ASSUME Terminal!HoldsOn, Terminal!Flows, Terminal!Told, Terminal!TypeOK, Terminal!Prints
    PROVE  Terminal!HoldsOn' /\ Terminal!Flows' /\ Terminal!Told'
  <1> DEFINE guest == s2  wire == s3  data == s4  out == s6  page == s7  code == s8  late == s9
  <1>1. /\ ~Terminal!Exited /\ ~data.broken /\ out # "asks" /\ wire' = Append(wire, "chunk")
        /\ UNCHANGED <<data, out, page, code, late>>
    BY DEF Terminal!Prints, Terminal!Exited
  <1>2. guest'.is = guest.is /\ guest'.printed = guest.printed + 1
    BY DEF Terminal!Prints, Terminal!TypeOK
  <1>3. wire \in Seq({"chunk", "end"}) /\ Len(wire) \in Nat /\ guest.printed \in Nat
    BY DEF Terminal!TypeOK
  <1>4. ~Terminal!Exited'
    BY <1>1, <1>2 DEF Terminal!Exited
  <1>5. out \in {"reads", "sends", "refused"}
    BY <1>1 DEF Terminal!Told, Terminal!TypeOK, Terminal!Outs
  <1>6. /\ Len(wire') = Len(wire) + 1 /\ wire'[Len(wire) + 1] = "chunk"
        /\ \A i \in 1 .. Len(wire) : wire'[i] = wire[i]
    BY <1>1, <1>3
  <1>7. ASSUME out \in {"reads", "sends"} PROVE Terminal!Flows'
    <2>1. /\ page.seen = Terminal!Chunks(Len(page.seen)) /\ \A i \in 1 .. Len(wire) : wire[i] = "chunk"
          /\ Len(page.seen) + (IF out = "sends" THEN 1 ELSE 0) + Len(wire) = guest.printed + 0
      BY <1>1, <1>7 DEF Terminal!Flows
    <2>2. \A i \in 1 .. Len(wire') : wire'[i] = "chunk"
      BY <1>3, <1>6, <2>1
    <2>3. Len(page.seen) \in Nat
      BY DEF Terminal!TypeOK
    <2>4. Len(page.seen) + (IF out = "sends" THEN 1 ELSE 0) + Len(wire') = guest'.printed + 0
      <3> DEFINE seen == Len(page.seen)  sent == IF out = "sends" THEN 1 ELSE 0
                 rest == Len(wire)  new == Len(wire')  printed == guest.printed
      <3>1. seen \in Nat /\ sent \in Nat /\ rest \in Nat /\ printed \in Nat
        BY <1>3, <2>3
      <3>2. seen + sent + rest = printed + 0 /\ new = rest + 1
        BY <1>6, <2>1
      <3>3. guest'.printed = printed + 1
        BY <1>2
      <3> HIDE DEF seen, sent, rest, new, printed
      <3>4. seen + sent + new = guest'.printed + 0
        BY <3>1, <3>2, <3>3
      <3>5. QED
        BY <3>4 DEF seen, sent, new
    <2>5. QED
      BY <1>1, <1>4, <2>1, <2>2, <2>4 DEF Terminal!Flows
  <1>8. QED
    BY <1>1, <1>5, <1>7 DEF Terminal!HoldsOn, Terminal!Flows, Terminal!Told

LEMMA TerminalStopTells ==
    ASSUME Terminal!HoldsOn, Terminal!Flows, Terminal!Told, Terminal!TypeOK, Terminal!Stops, s2'.is # "cutOff"
    PROVE  Terminal!HoldsOn' /\ Terminal!Flows' /\ Terminal!Told'
  <1> DEFINE guest == s2  wire == s3  data == s4  out == s6  page == s7  code == s8  late == s9
  <1>1. /\ ~Terminal!Exited /\ out # "asks" /\ UNCHANGED <<data, out, page, code, late>>
    BY DEF Terminal!Stops, Terminal!Exited
  <1>2. ~data.broken /\ Terminal!Exited' /\ guest'.printed = guest.printed /\ wire' = Append(wire, "end")
    BY DEF Terminal!Stops, Terminal!TypeOK, Terminal!Exited
  <1>3. wire \in Seq({"chunk", "end"}) /\ Len(wire) \in Nat /\ guest.printed \in Nat
    BY DEF Terminal!TypeOK
  <1>5. out \in {"reads", "sends", "refused"}
    BY <1>1, <1>2 DEF Terminal!Told, Terminal!TypeOK, Terminal!Outs
  <1>6. /\ Len(wire') = Len(wire) + 1 /\ wire'[Len(wire) + 1] = "end"
        /\ \A i \in 1 .. Len(wire) : wire'[i] = wire[i]
    BY <1>2, <1>3
  <1>7. ASSUME out \in {"reads", "sends"} PROVE Terminal!Flows'
    <2>1. /\ page.seen = Terminal!Chunks(Len(page.seen)) /\ \A i \in 1 .. Len(wire) : wire[i] = "chunk"
          /\ Len(page.seen) + (IF out = "sends" THEN 1 ELSE 0) + Len(wire) = guest.printed + 0
      BY <1>1, <1>7 DEF Terminal!Flows
    <2>2. \A i \in 1 .. Len(wire') : wire'[i] = IF i = Len(wire') THEN "end" ELSE "chunk"
      BY <1>3, <1>6, <2>1
    <2>3. Len(page.seen) \in Nat
      BY DEF Terminal!TypeOK
    <2>4. Len(page.seen) + (IF out = "sends" THEN 1 ELSE 0) + Len(wire') = guest'.printed + 1
      <3> DEFINE seen == Len(page.seen)  sent == IF out = "sends" THEN 1 ELSE 0
                 rest == Len(wire)  new == Len(wire')  printed == guest.printed
      <3>1. seen \in Nat /\ sent \in Nat /\ rest \in Nat /\ printed \in Nat
        BY <1>3, <2>3
      <3>2. seen + sent + rest = printed + 0 /\ new = rest + 1
        BY <1>6, <2>1
      <3>3. guest'.printed = printed
        BY <1>2
      <3> HIDE DEF seen, sent, rest, new, printed
      <3>4. seen + sent + new = guest'.printed + 1
        BY <3>1, <3>2, <3>3
      <3>5. QED
        BY <3>4 DEF seen, sent, new
    <2>5. wire' # <<>>
      BY <1>3, <1>6
    <2>6. QED
      BY <1>1, <1>2, <2>1, <2>2, <2>4, <2>5 DEF Terminal!Flows
  <1>8. QED
    BY <1>1, <1>5, <1>7 DEF Terminal!HoldsOn, Terminal!Flows, Terminal!Told

LEMMA TerminalTellStep == ASSUME Terminal!TellInv, [Terminal!Next]_(Terminal!vars) PROVE Terminal!TellInv'
  <1> DEFINE kind == s1  guest == s2  out == s6  page == s7
  <1>1. Terminal!TypeOK /\ Terminal!TypeOK'
    BY TerminalTellType DEF Terminal!TellInv
  <1>2. out' = "asks" => guest'.is = "runs"
    <2>1. out' = "asks" => out = "asks"
      BY DEF Terminal!Next, Terminal!Open, Terminal!Refused, Terminal!Key, Terminal!Written, Terminal!PageLeft, Terminal!InCloses, Terminal!Read, Terminal!Send, Terminal!OutCloses, Terminal!Waited, Terminal!Say,
           Terminal!HangsUp, Terminal!Joined, Terminal!Prints, Terminal!Stops, Terminal!TakesOrNot, Terminal!Leaves, Terminal!vars, Terminal!Ending, Terminal!Reaches, Terminal!SendFails,
           Terminal!ExitCode, Terminal!Mark, Terminal!Goodbye
    <2>2. out' = "asks" => guest'.is = guest.is
      BY <1>1, <2>1 DEF Terminal!Next, Terminal!Open, Terminal!Refused, Terminal!Key, Terminal!Written, Terminal!PageLeft, Terminal!InCloses, Terminal!Read, Terminal!Send, Terminal!OutCloses,
           Terminal!Waited, Terminal!Say, Terminal!HangsUp, Terminal!Joined, Terminal!Prints, Terminal!Stops, Terminal!TakesOrNot, Terminal!Leaves, Terminal!vars, Terminal!TypeOK
    <2>3. QED
      BY <2>1, <2>2 DEF Terminal!TellInv
  <1>3. ASSUME kind' = "shell", page'.is = "there", guest'.is # "cutOff"
        PROVE  Terminal!HoldsOn' /\ Terminal!Flows' /\ Terminal!Told'
    <2>1. /\ kind = "shell" /\ page.is = "there" /\ guest.is # "cutOff"
          /\ Terminal!HoldsOn /\ Terminal!Flows /\ Terminal!Told
      BY <1>3, TerminalStays
    <2>2. QED
      BY <1>1, <1>3, <2>1, TerminalAsideTells, TerminalOpenTells, TerminalReadTells, TerminalSendTells, TerminalCloseTells, TerminalSayTells,
         TerminalPrintTells, TerminalStopTells DEF Terminal!Next
  <1>4. QED
    BY <1>1, <1>2, <1>3 DEF Terminal!TellInv

LEMMA TerminalTellGives == Terminal!TellInv => Terminal!ExitIsTold
  BY DEF Terminal!TellInv, Terminal!Told, Terminal!ExitIsTold, Terminal!Exited, Terminal!Chunks

-----------------------------------------------------------------------------
(* Secrets at rest.                                                          *)
LEMMA SealInit == ASSUME Twins # {} PROVE Seal!Init => Seal!SealInv
  <1>1. (CHOOSE s \in Twins : TRUE) \in Twins
    OBVIOUS
  <1>2. QED
    BY <1>1 DEF Seal!Init, Seal!SealInv, Seal!TypeOK, Seal!SealsUnderIt, Seal!MadeIsOwn, Seal!ReadOpens, Seal!HeldOpens, Seal!Keys, Seal!Records

\* A key in place is never replaced: it is put there only where there is none.
LEMMA SealKeyStays ==
    ASSUME Seal!SealInv, [Seal!Next]_(Seal!vars)
    PROVE  s1 # None => s1' = s1
  BY DEF Seal!SealInv, Seal!Next, Seal!vars, Seal!Begin, Seal!ReadKey, Seal!LinkKey, Seal!ReadRecords, Seal!WriteRecords, Seal!Die

LEMMA SealTypeStep ==
    ASSUME Seal!SealInv, [Seal!Next]_(Seal!vars)
    PROVE  Seal!TypeOK'
  <1> USE DEF Seal!SealInv, Seal!TypeOK, Seal!Keys, Seal!Records
  <1>1. ASSUME NEW p \in Pair, NEW s \in Twins, NEW to \in {"set", "clear"}, Seal!Begin(p, s, to)
        PROVE  Seal!TypeOK'
    BY <1>1 DEF Seal!Begin
  <1>2. ASSUME NEW p \in Pair, Seal!ReadKey(p) PROVE Seal!TypeOK'
    BY <1>2 DEF Seal!ReadKey
  <1>3. ASSUME NEW p \in Pair, Seal!LinkKey(p) PROVE Seal!TypeOK'
    BY <1>3 DEF Seal!LinkKey
  <1>4. ASSUME NEW p \in Pair, Seal!ReadRecords(p) PROVE Seal!TypeOK'
    BY <1>4 DEF Seal!ReadRecords
  <1>5. ASSUME NEW p \in Pair, Seal!WriteRecords(p) PROVE Seal!TypeOK'
    BY <1>5 DEF Seal!WriteRecords
  <1>6. ASSUME NEW p \in Pair, Seal!Die(p) PROVE Seal!TypeOK'
    BY <1>6 DEF Seal!Die
  <1>7. CASE UNCHANGED Seal!vars
    BY <1>7 DEF Seal!vars
  <1>8. QED
    BY <1>1, <1>2, <1>3, <1>4, <1>5, <1>6, <1>7 DEF Seal!Next

\* The rest of the invariant, one action at a time.
LEMMA SealStep ==
    ASSUME Seal!SealAssumption, Seal!SealInv, [Seal!Next]_(Seal!vars)
    PROVE  Seal!SealInv'
  <1> DEFINE key == s1
  <1>t. Seal!TypeOK'
    BY SealTypeStep
  <1> SUFFICES (Seal!SealsUnderIt /\ Seal!MadeIsOwn /\ Seal!ReadOpens /\ Seal!HeldOpens)'
    BY <1>t DEF Seal!SealInv
  <1> USE DEF Seal!SealInv, Seal!TypeOK, Seal!Keys, Seal!Records, Seal!SealsUnderIt, Seal!MadeIsOwn, Seal!ReadOpens, Seal!HeldOpens
  <1>1. ASSUME NEW p \in Pair, NEW s \in Twins, NEW to \in {"set", "clear"}, Seal!Begin(p, s, to)
        PROVE  (Seal!SealsUnderIt /\ Seal!MadeIsOwn /\ Seal!ReadOpens /\ Seal!HeldOpens)'
    BY <1>1 DEF Seal!Begin
  <1>2. ASSUME NEW p \in Pair, Seal!ReadKey(p)
        PROVE  (Seal!SealsUnderIt /\ Seal!MadeIsOwn /\ Seal!ReadOpens /\ Seal!HeldOpens)'
    BY <1>2 DEF Seal!ReadKey
  <1>3. ASSUME NEW p \in Pair, Seal!LinkKey(p)
        PROVE  (Seal!SealsUnderIt /\ Seal!MadeIsOwn /\ Seal!ReadOpens /\ Seal!HeldOpens)'
    <2>1. CASE key = None
      BY <1>3, <2>1 DEF Seal!LinkKey, Seal!SealAssumption
    <2>2. CASE key # None
      BY <1>3, <2>2 DEF Seal!LinkKey
    <2>3. QED
      BY <2>1, <2>2
  <1>4. ASSUME NEW p \in Pair, Seal!ReadRecords(p)
        PROVE  (Seal!SealsUnderIt /\ Seal!MadeIsOwn /\ Seal!ReadOpens /\ Seal!HeldOpens)'
    BY <1>4 DEF Seal!ReadRecords
  <1>5. ASSUME NEW p \in Pair, Seal!WriteRecords(p)
        PROVE  (Seal!SealsUnderIt /\ Seal!MadeIsOwn /\ Seal!ReadOpens /\ Seal!HeldOpens)'
    BY <1>5 DEF Seal!WriteRecords
  <1>6. ASSUME NEW p \in Pair, Seal!Die(p)
        PROVE  (Seal!SealsUnderIt /\ Seal!MadeIsOwn /\ Seal!ReadOpens /\ Seal!HeldOpens)'
    BY <1>6 DEF Seal!Die
  <1>7. CASE UNCHANGED Seal!vars
    BY <1>7 DEF Seal!vars
  <1>8. QED
    BY <1>1, <1>2, <1>3, <1>4, <1>5, <1>6, <1>7 DEF Seal!Next

LEMMA SealGives == Seal!SealInv => Seal!SealedOpens
  BY DEF Seal!SealInv, Seal!HeldOpens, Seal!SealedOpens

-----------------------------------------------------------------------------
(* The runs of a task on one node.                                           *)
LEMMA RunsInit == Runs!RunsAssumption /\ Runs!BoundsAssumption /\ Runs!Init => Runs!RunsInv
  <1> DEFINE file == s11
  <1> SUFFICES ASSUME Runs!RunsAssumption, Runs!BoundsAssumption, Runs!Init PROVE Runs!RunsInv
    OBVIOUS
  <1>1. Runs!TypeOK
    BY DEF Runs!Init, Runs!TypeOK, Runs!BoundsAssumption, Runs!Stage, Runs!Final, Runs!History, Runs!Status, Runs!Save, Runs!Round, Runs!Resting,
           Runs!NoHistory, Runs!Process
  <1>2. /\ Runs!Told(file) /\ Runs!LiveIsGoing /\ Runs!InstancesAreBorn /\ Runs!Decided /\ Runs!SavesAreTold
        /\ Runs!SweptIsPast /\ Runs!FinalIsRead
    BY DEF Runs!Init, Runs!Told, Runs!LiveIsGoing, Runs!InstancesAreBorn, Runs!Decided, Runs!SavesAreTold, Runs!SweptIsPast, Runs!FinalIsRead,
           Runs!Born, Runs!Past, Runs!NoHistory, Runs!Resting
  <1>3. QED
    BY <1>1, <1>2 DEF Runs!RunsInv

LEMMA RunsNewestKeeps ==
    ASSUME NEW h \in Runs!History
    PROVE  /\ Runs!Newest(h) \in Runs!History
           /\ \A r \in Runs!Runs : Runs!Newest(h)[r] = h[r] \/ Runs!Newest(h)[r] = "none"
  BY DEF Runs!History, Runs!Newest, Runs!Status

LEMMA RunsRoundFields ==
    ASSUME NEW s \in Runs!Round
    PROVE  /\ s.at \in {"idle", "listed", "read", "acting"} /\ s.found \subseteq Runs!Runs
           /\ s.history \in Runs!History /\ s.live \subseteq Twins
  BY DEF Runs!Round

LEMMA RunsSavesHere ==
    ASSUME NEW s \in Runs!Save
    PROVE  /\ s.by \in Runs!Process /\ s.run \in Runs!Runs /\ s.status \in Runs!Status \ {"none"}
           /\ s.seen \in Runs!History
  BY DEF Runs!Save

LEMMA RunsEndingType ==
    ASSUME Runs!TypeOK, NEW R, R \subseteq Runs!Runs, Runs!Die(R)
    PROVE  /\ s3' \in [Runs!Runs -> Runs!Stage] /\ s7' \subseteq Runs!Runs /\ s6' \subseteq Runs!Runs
           /\ s12' \subseteq Runs!Save
           /\ s4' = s4 /\ s5' = s5 /\ s8' = s8
           /\ s9' = s9 /\ s10' = s10 /\ s11' = s11
           /\ s15' = s15 /\ s16' = s16
  <1> DEFINE stage == s3
  <1>1. stage' \in [Runs!Runs -> Runs!Stage]
    BY DEF Runs!TypeOK, Runs!Die, Runs!Stage
  <1>2. QED
    BY <1>1 DEF Runs!TypeOK, Runs!Die

LEMMA RunsType ==
    ASSUME Runs!RunsAssumption, Runs!BoundsAssumption, Runs!TypeOK, Runs!SavesAreTold, [Runs!Next]_(Runs!vars)
    PROVE  Runs!TypeOK'
  <1> DEFINE alive == s1  pids == s2  stage == s3  requested == s8  file == s11  saves == s12
             sweep == s13  restarts == s14  overlapped == s16
  <1> USE DEF Runs!RunsAssumption, Runs!BoundsAssumption
  <1>1. ASSUME NEW r \in Runs!Runs, Runs!Start(r) PROVE Runs!TypeOK'
    BY <1>1 DEF Runs!TypeOK, Runs!Start, Runs!Stage
  <1>2. ASSUME NEW r \in Runs!Runs, Runs!SaveBegins(r) PROVE Runs!TypeOK'
    <2>1. Runs!Said(r) \in Runs!Status \ {"none"} /\ Runs!Owner(r) \in Runs!Process
      BY DEF Runs!TypeOK, Runs!Said, Runs!Status, Runs!Final, Runs!Owner, Runs!Process
    <2>2. [by |-> Runs!Owner(r), run |-> r, status |-> Runs!Said(r), seen |-> file] \in Runs!Save
      BY <2>1 DEF Runs!TypeOK, Runs!Save
    <2>3. saves' \subseteq Runs!Save
      BY <1>2, <2>2 DEF Runs!SaveBegins, Runs!TypeOK
    <2>4. QED
      BY <1>2, <2>3 DEF Runs!SaveBegins, Runs!TypeOK
  <1>3. ASSUME NEW s \in saves, Runs!SaveEnds(s) PROVE Runs!TypeOK'
    <2>1. s \in Runs!Save
      BY DEF Runs!TypeOK
    <2>2. [s.seen EXCEPT ![s.run] = s.status] \in Runs!History
      BY <2>1, RunsSavesHere DEF Runs!History
    <2>3. file' \in Runs!History
      BY <1>3, <2>2, RunsNewestKeeps DEF Runs!SaveEnds
    <2>4. stage' \in [Runs!Runs -> Runs!Stage] /\ requested' \subseteq Runs!Runs
      <3>1. CASE s.status = "lost"
        BY <1>3, <3>1 DEF Runs!SaveEnds, Runs!TypeOK
      <3>2. ASSUME NEW next \in Runs!NextStage(s.run), stage' = [stage EXCEPT ![s.run] = next],
                   requested' = IF next = "launching" THEN requested \cup {s.run} ELSE requested,
                   stage[s.run] \in {"registered", "launched", "leaving", "closing"}
            PROVE  stage' \in [Runs!Runs -> Runs!Stage] /\ requested' \subseteq Runs!Runs
        BY <2>1, <3>2, RunsSavesHere DEF Runs!NextStage, Runs!TypeOK, Runs!Stage
      <3>3. stage[s.run] \in {"registered", "launched", "leaving", "closing"} \/ s.status = "lost"
        BY DEF Runs!SavesAreTold
      <3>4. QED
        BY <1>3, <3>1, <3>2, <3>3 DEF Runs!SaveEnds
    <2>5. overlapped' \subseteq Runs!Runs
      BY <1>3, <2>1, RunsSavesHere DEF Runs!SaveEnds, Runs!TypeOK
    <2>6. QED
      BY <1>3, <2>3, <2>4, <2>5 DEF Runs!SaveEnds, Runs!TypeOK
  <1>4. ASSUME NEW r \in Runs!Runs, Runs!DaemonCreates(r) PROVE Runs!TypeOK'
    BY <1>4 DEF Runs!TypeOK, Runs!DaemonCreates
  <1>5. ASSUME NEW r \in Runs!Runs, Runs!LaunchEnds(r) PROVE Runs!TypeOK'
    BY <1>5 DEF Runs!TypeOK, Runs!LaunchEnds, Runs!Stage
  <1>6. ASSUME NEW r \in Runs!Runs, Runs!JobEnds(r) PROVE Runs!TypeOK'
    BY <1>6 DEF Runs!TypeOK, Runs!JobEnds, Runs!Stage, Runs!Final
  <1>7. ASSUME NEW r \in Runs!Runs, Runs!Remove(r) PROVE Runs!TypeOK'
    BY <1>7 DEF Runs!TypeOK, Runs!Remove, Runs!Removal, Runs!Stage
  <1>8. ASSUME NEW r \in Runs!Runs, Runs!Decide(r) PROVE Runs!TypeOK'
    BY <1>8 DEF Runs!TypeOK, Runs!Decide, Runs!Verdict, Runs!Stage, Runs!Final
  <1>9. ASSUME NEW r \in Runs!Runs, NEW why \in {"timed_out", "cancelled"}, Runs!Stop(r, why) PROVE Runs!TypeOK'
    BY <1>9 DEF Runs!TypeOK, Runs!Stop
  <1>10. ASSUME NEW r \in Runs!Runs, Runs!StopRemoves(r) PROVE Runs!TypeOK'
    BY <1>10 DEF Runs!TypeOK, Runs!StopRemoves, Runs!Removal
  <1>11. Runs!Resting \in Runs!Round
    BY DEF Runs!Resting, Runs!Round, Runs!NoHistory, Runs!History, Runs!Status
  <1>12. CASE Runs!ServeEnds
    <2>1. pids' \in [own : SUBSET Twins, reused : SUBSET Runs!Runs]
      <3>1. Runs!Ended(Twins \cup pids.own) \subseteq Runs!Runs
        BY DEF Runs!Ended, Runs!TypeOK, Runs!Runs
      <3>2. PICK strangers \in Runs!Strangers(Twins \cup pids.own) :
                    pids' = [own |-> {}, reused |-> strangers]
        BY <1>12 DEF Runs!ServeEnds
      <3>3. strangers \subseteq Runs!Runs
        <4>1. pids.reused \subseteq Runs!Runs
          BY DEF Runs!TypeOK
        <4>2. QED
          BY <3>1, <3>2, <4>1 DEF Runs!Strangers
      <3>4. QED
        BY <3>2, <3>3
    <2>2. Runs!Die(Twins) /\ Twins \subseteq Runs!Runs
      BY <1>12 DEF Runs!ServeEnds, Runs!Runs
    <2>3. alive' \subseteq Runs!Process /\ sweep' \in Runs!Round /\ restarts' \in 0 .. MaxRestarts
      BY <1>11, <1>12 DEF Runs!ServeEnds, Runs!TypeOK
    <2>4. QED
      BY <2>1, <2>2, <2>3, RunsEndingType DEF Runs!TypeOK
  <1>13. CASE Runs!ServeBegins
    BY <1>13 DEF Runs!TypeOK, Runs!ServeBegins, Runs!Process
  <1>14. CASE Runs!ServeReexecs
    <2>1. pids' \in [own : SUBSET Twins, reused : SUBSET Runs!Runs]
      BY <1>14 DEF Runs!ServeReexecs, Runs!Ended, Runs!TypeOK
    <2>2. Runs!Die(Twins) /\ Twins \subseteq Runs!Runs
      BY <1>14 DEF Runs!ServeReexecs, Runs!Runs
    <2>3. alive' \subseteq Runs!Process /\ sweep' \in Runs!Round /\ restarts' \in 0 .. MaxRestarts
      BY <1>11, <1>14 DEF Runs!ServeReexecs, Runs!TypeOK
    <2>4. QED
      BY <2>1, <2>2, <2>3, RunsEndingType DEF Runs!TypeOK
  <1>15. ASSUME NEW c \in Commands, Runs!CliEnds(c) PROVE Runs!TypeOK'
    <2>1. pids' \in [own : SUBSET Twins, reused : SUBSET Runs!Runs]
      BY <1>15 DEF Runs!CliEnds, Runs!Strangers, Runs!Ended, Runs!TypeOK, Runs!Runs
    <2>2. Runs!Die({c}) /\ {c} \subseteq Runs!Runs
      BY <1>15 DEF Runs!CliEnds, Runs!Runs
    <2>3. alive' \subseteq Runs!Process /\ sweep' \in Runs!Round /\ restarts' \in 0 .. MaxRestarts
      BY <1>15 DEF Runs!CliEnds, Runs!TypeOK
    <2>4. QED
      BY <2>1, <2>2, <2>3, RunsEndingType DEF Runs!TypeOK
  <1>16. CASE Runs!SweepLists \/ Runs!SweepReadsHistory \/ Runs!SweepReadsLive
    <2>1. sweep' \in Runs!Round
      <3>1. CASE Runs!SweepLists
        BY <3>1 DEF Runs!SweepLists, Runs!TypeOK, Runs!Round
      <3>2. CASE Runs!SweepReadsHistory
        BY <3>2 DEF Runs!SweepReadsHistory, Runs!TypeOK, Runs!Round
      <3>3. CASE Runs!SweepReadsLive
        BY <3>3 DEF Runs!SweepReadsLive, Runs!TypeOK, Runs!Round, Runs!Living
      <3>4. QED
        BY <1>16, <3>1, <3>2, <3>3
    <2>2. QED
      BY <1>16, <2>1 DEF Runs!SweepLists, Runs!SweepReadsHistory, Runs!SweepReadsLive, Runs!TypeOK
  <1>17. ASSUME NEW r \in Runs!Runs, Runs!SweepRemoves(r) PROVE Runs!TypeOK'
    BY <1>17 DEF Runs!SweepRemoves, Runs!Removal, Runs!TypeOK, Runs!Round
  <1>18. ASSUME NEW r \in Runs!Runs, Runs!SweepCloses(r) PROVE Runs!TypeOK'
    <2>1. [by |-> Serve, run |-> r, status |-> "lost", seen |-> file] \in Runs!Save
      BY DEF Runs!Save, Runs!Process, Runs!Status, Runs!Final, Runs!TypeOK
    <2>2. sweep' \in Runs!Round
      BY <1>18 DEF Runs!SweepCloses, Runs!TypeOK, Runs!Round, Runs!History, Runs!Status
    <2>3. QED
      BY <1>18, <2>1, <2>2 DEF Runs!SweepCloses, Runs!TypeOK
  <1>19. CASE Runs!SweepEnds
    BY <1>11, <1>19 DEF Runs!SweepEnds, Runs!TypeOK
  <1>20. CASE UNCHANGED Runs!vars
    BY <1>20 DEF Runs!vars, Runs!TypeOK
  <1>21. QED
    BY <1>1, <1>2, <1>3, <1>4, <1>5, <1>6, <1>7, <1>8, <1>9, <1>10, <1>12, <1>13, <1>14, <1>15,
       <1>16, <1>17, <1>18, <1>19, <1>20 DEF Runs!Next

\* Where an action leaves the stages and the stops alone, nothing here can change.
LEMMA RunsOnward ==
    ASSUME Runs!RunsAssumption, Runs!RunsInv, [Runs!Next]_(Runs!vars)
    PROVE  \A q \in Runs!Runs :
               /\ Runs!Born(q) => Runs!Born(q)'
               /\ Runs!Past(q) => Runs!Past(q)' /\ s5'[q] = s5[q]
               /\ s5[q] # "no" => s5'[q] = s5[q]
  <1> DEFINE stage == s3  stopped == s5  saves == s12
  <1> DEFINE On == \A q \in Runs!Runs :
               /\ Runs!Born(q) => Runs!Born(q)'
               /\ Runs!Past(q) => Runs!Past(q)' /\ stopped'[q] = stopped[q]
               /\ stopped[q] # "no" => stopped'[q] = stopped[q]
  <1> USE DEF Runs!RunsInv, Runs!TypeOK, Runs!Born, Runs!Past
  <1>1. ASSUME NEW r \in Runs!Runs, Runs!Start(r) PROVE On
    BY <1>1 DEF Runs!Start
  <1>2. ASSUME NEW r \in Runs!Runs, Runs!SaveBegins(r) PROVE On
    BY <1>2 DEF Runs!SaveBegins
  <1>3. ASSUME NEW s \in saves, Runs!SaveEnds(s) PROVE On
    <2>1. s.run \in Runs!Runs
      BY RunsSavesHere
    <2>2. CASE s.status = "lost"
      BY <1>3, <2>2 DEF Runs!SaveEnds
    <2>3. ASSUME s.status # "lost", NEW next \in Runs!NextStage(s.run),
                 stage' = [stage EXCEPT ![s.run] = next]
          PROVE  On
      <3>1. stage[s.run] \in {"registered", "launched", "leaving", "closing"}
        BY <2>3 DEF Runs!SavesAreTold
      <3>2. /\ next # "unborn"
            /\ stage[s.run] = "closing" => next = "over"
        BY <2>1, <2>3, <3>1 DEF Runs!NextStage
      <3>3. stopped' = stopped
        BY <1>3 DEF Runs!SaveEnds
      <3>4. QED
        BY <2>1, <2>3, <3>1, <3>2, <3>3
    <2>4. QED
      BY <1>3, <2>2, <2>3 DEF Runs!SaveEnds
  <1>4. ASSUME NEW r \in Runs!Runs, Runs!DaemonCreates(r) PROVE On
    BY <1>4 DEF Runs!DaemonCreates
  <1>5. ASSUME NEW r \in Runs!Runs, Runs!LaunchEnds(r) PROVE On
    BY <1>5 DEF Runs!LaunchEnds
  <1>6. ASSUME NEW r \in Runs!Runs, Runs!JobEnds(r) PROVE On
    BY <1>6 DEF Runs!JobEnds
  <1>7. ASSUME NEW r \in Runs!Runs, Runs!Remove(r) PROVE On
    BY <1>7 DEF Runs!Remove, Runs!Removal
  <1>8. ASSUME NEW r \in Runs!Runs, Runs!Decide(r) PROVE On
    BY <1>8 DEF Runs!Decide
  <1>9. ASSUME NEW r \in Runs!Runs, NEW why \in {"timed_out", "cancelled"}, Runs!Stop(r, why) PROVE On
    BY <1>9 DEF Runs!Stop, Runs!LiveIsGoing
  <1>10. ASSUME NEW r \in Runs!Runs, Runs!StopRemoves(r) PROVE On
    BY <1>10 DEF Runs!StopRemoves, Runs!Removal
  <1>11. CASE Runs!ServeEnds
    BY <1>11 DEF Runs!ServeEnds, Runs!Die
  <1>12. CASE Runs!ServeBegins
    BY <1>12 DEF Runs!ServeBegins
  <1>13. CASE Runs!ServeReexecs
    BY <1>13 DEF Runs!ServeReexecs, Runs!Die
  <1>14. ASSUME NEW c \in Commands, Runs!CliEnds(c) PROVE On
    BY <1>14 DEF Runs!CliEnds, Runs!Die
  <1>15. CASE Runs!SweepLists
    BY <1>15 DEF Runs!SweepLists
  <1>16. CASE Runs!SweepReadsHistory
    BY <1>16 DEF Runs!SweepReadsHistory
  <1>17. CASE Runs!SweepReadsLive
    BY <1>17 DEF Runs!SweepReadsLive
  <1>18. ASSUME NEW r \in Runs!Runs, Runs!SweepRemoves(r) PROVE On
    BY <1>18 DEF Runs!SweepRemoves, Runs!Removal
  <1>19. ASSUME NEW r \in Runs!Runs, Runs!SweepCloses(r) PROVE On
    BY <1>19 DEF Runs!SweepCloses
  <1>20. CASE Runs!SweepEnds
    BY <1>20 DEF Runs!SweepEnds
  <1>21. CASE UNCHANGED Runs!vars
    BY <1>21 DEF Runs!vars
  <1>22. QED
    BY <1>1, <1>2, <1>3, <1>4, <1>5, <1>6, <1>7, <1>8, <1>9, <1>10, <1>11, <1>12, <1>13, <1>14, <1>15, <1>16, <1>17, <1>18, <1>19, <1>20, <1>21 DEF Runs!Next

LEMMA RunsTellsOn ==
    ASSUME Runs!RunsAssumption, Runs!RunsInv, [Runs!Next]_(Runs!vars), NEW h, Runs!Told(h)
    PROVE  Runs!Told(h)'
  BY RunsOnward DEF Runs!Told

LEMMA RunsFile ==
    ASSUME Runs!RunsAssumption, Runs!RunsInv, [Runs!Next]_(Runs!vars)
    PROVE  Runs!Told(s11)'
  <1> DEFINE stage == s3  stopped == s5  file == s11  saves == s12
  <1>1. ASSUME NEW s \in saves, Runs!SaveEnds(s) PROVE Runs!Told(file)'
    <2> DEFINE h == [s.seen EXCEPT ![s.run] = s.status]
    <2>1. s \in Runs!Save
      BY DEF Runs!RunsInv, Runs!TypeOK
    <2>2. h \in Runs!History /\ h[s.run] = s.status /\ \A q \in Runs!Runs \ {s.run} : h[q] = s.seen[q]
      BY <2>1, RunsSavesHere DEF Runs!History
    <2>3. Runs!Told(s.seen) /\ s.run \in Runs!Runs
      BY <2>1, RunsSavesHere DEF Runs!RunsInv, Runs!SavesAreTold
    <2>4. /\ Runs!Born(s.run)
          /\ s.status \in {"ok", "failed"} => stopped[s.run] = "no" /\ Runs!Past(s.run)
          /\ s.status \in {"timed_out", "cancelled"} => stopped[s.run] = s.status
          /\ s.status = "lost" => Runs!Past(s.run)
      <3>1. CASE s.status = "lost"
        BY <3>1 DEF Runs!RunsInv, Runs!SavesAreTold, Runs!Past, Runs!Born
      <3>2. CASE s.status # "lost"
        <4>1. /\ stage[s.run] \in {"registered", "launched", "leaving", "closing"}
              /\ s.status = Runs!Said(s.run)
          BY <3>2 DEF Runs!RunsInv, Runs!SavesAreTold
        <4>2. CASE stage[s.run] = "closing"
          BY <2>3, <3>2, <4>1, <4>2 DEF Runs!RunsInv, Runs!Decided, Runs!Said, Runs!Past, Runs!Born
        <4>3. CASE stage[s.run] # "closing"
          BY <4>1, <4>3 DEF Runs!Said, Runs!Born
        <4>4. QED
          BY <4>2, <4>3
      <3>3. QED
        BY <3>1, <3>2
    <2> HIDE DEF h
    <2>5. Runs!Told(h)
      BY <2>2, <2>3, <2>4 DEF Runs!Told
    <2>6. Runs!Told(h)'
      BY <2>5, RunsTellsOn
    <2>7. file' = Runs!Newest(h)
      BY <1>1 DEF Runs!SaveEnds, h
    <2>8. \A q \in Runs!Runs : file'[q] = h[q] \/ file'[q] = "none"
      BY <2>2, <2>7, RunsNewestKeeps
    <2>9. QED
      BY <2>6, <2>8 DEF Runs!Told
  <1>2. CASE file' = file
    <2>1. PICK h \in {file} : TRUE
      OBVIOUS
    <2>2. Runs!Told(h)'
      BY <2>1, RunsTellsOn DEF Runs!RunsInv
    <2>3. QED
      BY <1>2, <2>1, <2>2 DEF Runs!Told
  <1>3. file' = file \/ \E s \in saves : Runs!SaveEnds(s)
    BY DEF Runs!Next, Runs!vars, Runs!Start, Runs!SaveBegins, Runs!DaemonCreates, Runs!LaunchEnds, Runs!JobEnds, Runs!Remove, Runs!Decide, Runs!Stop,
           Runs!StopRemoves, Runs!ServeEnds, Runs!ServeBegins, Runs!ServeReexecs, Runs!CliEnds, Runs!Die, Runs!SweepLists,
           Runs!SweepReadsHistory, Runs!SweepReadsLive, Runs!SweepRemoves, Runs!SweepCloses, Runs!SweepEnds
  <1>4. QED
    BY <1>1, <1>2, <1>3

LEMMA RunsLive ==
    ASSUME Runs!RunsAssumption, Runs!RunsInv, [Runs!Next]_(Runs!vars)
    PROVE  Runs!LiveIsGoing'
  <1> DEFINE pids == s2  stage == s3  saves == s12
  <1> USE DEF Runs!RunsInv, Runs!TypeOK, Runs!Born, Runs!Past, Runs!LiveIsGoing, Runs!RunsAssumption, Runs!Runs, Runs!Owner
  <1>1. ASSUME NEW r \in Runs!Runs, Runs!Start(r) PROVE Runs!LiveIsGoing'
    BY <1>1 DEF Runs!Start
  <1>2. ASSUME NEW r \in Runs!Runs, Runs!SaveBegins(r) PROVE Runs!LiveIsGoing'
    BY <1>2 DEF Runs!SaveBegins
  <1>3. ASSUME NEW s \in saves, Runs!SaveEnds(s) PROVE Runs!LiveIsGoing'
    <2>1. s.run \in Runs!Runs
      BY RunsSavesHere
    <2>2. CASE s.status = "lost"
      BY <1>3, <2>2 DEF Runs!SaveEnds
    <2>3. ASSUME s.status # "lost", NEW next \in Runs!NextStage(s.run),
                 stage' = [stage EXCEPT ![s.run] = next]
          PROVE  Runs!LiveIsGoing'
      <3>1. stage[s.run] \in {"registered", "launched", "leaving", "closing"}
        BY <2>3 DEF Runs!SavesAreTold
      <3>2. /\ next \notin {"unborn", "gone", "closing"}
            /\ next = "over" <=> stage[s.run] = "closing"
        BY <2>1, <2>3, <3>1 DEF Runs!NextStage
      <3>3. QED
        BY <1>3, <2>1, <2>3, <3>1, <3>2 DEF Runs!SaveEnds
    <2>4. QED
      BY <1>3, <2>2, <2>3 DEF Runs!SaveEnds
  <1>4. ASSUME NEW r \in Runs!Runs, Runs!DaemonCreates(r) PROVE Runs!LiveIsGoing'
    BY <1>4 DEF Runs!DaemonCreates
  <1>5. ASSUME NEW r \in Runs!Runs, Runs!LaunchEnds(r) PROVE Runs!LiveIsGoing'
    BY <1>5 DEF Runs!LaunchEnds
  <1>6. ASSUME NEW r \in Runs!Runs, Runs!JobEnds(r) PROVE Runs!LiveIsGoing'
    BY <1>6 DEF Runs!JobEnds
  <1>7. ASSUME NEW r \in Runs!Runs, Runs!Remove(r) PROVE Runs!LiveIsGoing'
    BY <1>7 DEF Runs!Remove, Runs!Removal
  <1>8. ASSUME NEW r \in Runs!Runs, Runs!Decide(r) PROVE Runs!LiveIsGoing'
    BY <1>8 DEF Runs!Decide
  <1>9. ASSUME NEW r \in Runs!Runs, NEW why \in {"timed_out", "cancelled"}, Runs!Stop(r, why) PROVE Runs!LiveIsGoing'
    BY <1>9 DEF Runs!Stop
  <1>10. ASSUME NEW r \in Runs!Runs, Runs!StopRemoves(r) PROVE Runs!LiveIsGoing'
    BY <1>10 DEF Runs!StopRemoves, Runs!Removal
  <1>11. CASE Runs!ServeEnds
    BY <1>11 DEF Runs!ServeEnds, Runs!Die
  <1>12. CASE Runs!ServeBegins
    BY <1>12 DEF Runs!ServeBegins
  <1>13. CASE Runs!ServeReexecs
    <2>1. pids'.own = pids.own \cup Runs!Ended(Twins)
      BY <1>13 DEF Runs!ServeReexecs
    <2>2. \A q \in pids'.own : stage'[q] = "gone"
      BY <1>13, <2>1 DEF Runs!ServeReexecs, Runs!Die, Runs!Ended
    <2>3. QED
      BY <1>13, <2>2 DEF Runs!ServeReexecs, Runs!Die
  <1>14. ASSUME NEW c \in Commands, Runs!CliEnds(c) PROVE Runs!LiveIsGoing'
    BY <1>14 DEF Runs!CliEnds, Runs!Die
  <1>15. CASE Runs!SweepLists
    BY <1>15 DEF Runs!SweepLists
  <1>16. CASE Runs!SweepReadsHistory
    BY <1>16 DEF Runs!SweepReadsHistory
  <1>17. CASE Runs!SweepReadsLive
    BY <1>17 DEF Runs!SweepReadsLive
  <1>18. ASSUME NEW r \in Runs!Runs, Runs!SweepRemoves(r) PROVE Runs!LiveIsGoing'
    BY <1>18 DEF Runs!SweepRemoves, Runs!Removal
  <1>19. ASSUME NEW r \in Runs!Runs, Runs!SweepCloses(r) PROVE Runs!LiveIsGoing'
    BY <1>19 DEF Runs!SweepCloses
  <1>20. CASE Runs!SweepEnds
    BY <1>20 DEF Runs!SweepEnds
  <1>21. CASE UNCHANGED Runs!vars
    BY <1>21 DEF Runs!vars
  <1>22. QED
    BY <1>1, <1>2, <1>3, <1>4, <1>5, <1>6, <1>7, <1>8, <1>9, <1>10, <1>11, <1>12, <1>13, <1>14, <1>15, <1>16, <1>17, <1>18, <1>19, <1>20, <1>21 DEF Runs!Next

LEMMA RunsInstances ==
    ASSUME Runs!RunsAssumption, Runs!RunsInv, [Runs!Next]_(Runs!vars)
    PROVE  Runs!InstancesAreBorn'
  <1> DEFINE stage == s3  requested == s8  instances == s9  saves == s12  sweep == s13
             failures == s15
  <1>0. requested \subseteq Runs!Runs /\ instances \subseteq Runs!Runs /\ sweep.found \subseteq Runs!Runs
    BY RunsRoundFields DEF Runs!RunsInv, Runs!TypeOK
  <1>1. ASSUME NEW r \in Runs!Runs, Runs!Start(r) PROVE Runs!InstancesAreBorn'
    BY <1>1 DEF Runs!Start, Runs!RunsInv, Runs!TypeOK, Runs!Born, Runs!InstancesAreBorn
  <1>2. ASSUME NEW r \in Runs!Runs, Runs!SaveBegins(r) PROVE Runs!InstancesAreBorn'
    BY <1>2 DEF Runs!SaveBegins, Runs!RunsInv, Runs!TypeOK, Runs!Born, Runs!InstancesAreBorn
  <1>3. ASSUME NEW s \in saves, Runs!SaveEnds(s) PROVE Runs!InstancesAreBorn'
    <2>1. s.run \in Runs!Runs
      BY RunsSavesHere DEF Runs!RunsInv, Runs!TypeOK
    <2>2. CASE s.status = "lost"
      BY <1>3, <2>2 DEF Runs!SaveEnds, Runs!RunsInv, Runs!TypeOK, Runs!Born, Runs!InstancesAreBorn
    <2>3. ASSUME s.status # "lost", NEW next \in Runs!NextStage(s.run),
                 stage' = [stage EXCEPT ![s.run] = next],
                 requested' = IF next = "launching" THEN requested \cup {s.run} ELSE requested
          PROVE  Runs!InstancesAreBorn'
      <3>1. stage[s.run] \in {"registered", "launched", "leaving", "closing"}
        BY <2>3 DEF Runs!RunsInv, Runs!SavesAreTold
      <3>2. /\ next \notin {"unborn", "removed", "closing"}
            /\ next = "over" <=> stage[s.run] = "closing"
        BY <2>1, <2>3, <3>1 DEF Runs!NextStage
      <3>3. QED
        BY <1>3, <2>1, <2>3, <3>1, <3>2 DEF Runs!SaveEnds, Runs!RunsInv, Runs!TypeOK, Runs!Born, Runs!InstancesAreBorn
    <2>4. QED
      BY <1>3, <2>2, <2>3 DEF Runs!SaveEnds
  <1>4. ASSUME NEW r \in Runs!Runs, Runs!DaemonCreates(r) PROVE Runs!InstancesAreBorn'
    BY <1>4 DEF Runs!DaemonCreates, Runs!RunsInv, Runs!TypeOK, Runs!Born, Runs!InstancesAreBorn
  <1>5. ASSUME NEW r \in Runs!Runs, Runs!LaunchEnds(r) PROVE Runs!InstancesAreBorn'
    <2>1. stage'[r] \in {"launched", "leaving"} /\ \A q \in Runs!Runs \ {r} : stage'[q] = stage[q]
      BY <1>5 DEF Runs!LaunchEnds, Runs!RunsInv, Runs!TypeOK
    <2>2. /\ requested' = requested \ {r} /\ instances' = instances
          /\ sweep' = sweep /\ failures' = failures
      BY <1>5 DEF Runs!LaunchEnds
    <2>3. stage[r] = "launching"
      BY <1>5 DEF Runs!LaunchEnds
    <2>4. \A q \in Runs!Runs : /\ stage'[q] = "unborn" => stage[q] = "unborn"
                         /\ stage'[q] \in {"removed", "closing", "over"} => stage'[q] = stage[q]
      BY <2>1, <2>3
    <2>5. QED
      BY <1>0, <2>1, <2>2, <2>4 DEF Runs!RunsInv, Runs!Born, Runs!InstancesAreBorn
  <1>6. ASSUME NEW r \in Runs!Runs, Runs!JobEnds(r) PROVE Runs!InstancesAreBorn'
    BY <1>6 DEF Runs!JobEnds, Runs!RunsInv, Runs!TypeOK, Runs!Born, Runs!InstancesAreBorn
  <1>7. ASSUME NEW r \in Runs!Runs, Runs!Remove(r) PROVE Runs!InstancesAreBorn'
    BY <1>7 DEF Runs!Remove, Runs!Removal, Runs!RunsInv, Runs!TypeOK, Runs!Born, Runs!InstancesAreBorn
  <1>8. ASSUME NEW r \in Runs!Runs, Runs!Decide(r) PROVE Runs!InstancesAreBorn'
    BY <1>8 DEF Runs!Decide, Runs!RunsInv, Runs!TypeOK, Runs!Born, Runs!InstancesAreBorn
  <1>9. ASSUME NEW r \in Runs!Runs, NEW why \in {"timed_out", "cancelled"}, Runs!Stop(r, why) PROVE Runs!InstancesAreBorn'
    BY <1>9 DEF Runs!Stop, Runs!RunsInv, Runs!TypeOK, Runs!Born, Runs!InstancesAreBorn
  <1>10. ASSUME NEW r \in Runs!Runs, Runs!StopRemoves(r) PROVE Runs!InstancesAreBorn'
    BY <1>10 DEF Runs!StopRemoves, Runs!Removal, Runs!RunsInv, Runs!TypeOK, Runs!Born, Runs!InstancesAreBorn
  <1>11. CASE Runs!ServeEnds
    BY <1>11 DEF Runs!ServeEnds, Runs!Die, Runs!Resting, Runs!RunsInv, Runs!TypeOK, Runs!Born, Runs!InstancesAreBorn
  <1>12. CASE Runs!ServeBegins
    BY <1>12 DEF Runs!ServeBegins, Runs!RunsInv, Runs!TypeOK, Runs!Born, Runs!InstancesAreBorn
  <1>13. CASE Runs!ServeReexecs
    BY <1>13 DEF Runs!ServeReexecs, Runs!Die, Runs!Resting, Runs!RunsInv, Runs!TypeOK, Runs!Born, Runs!InstancesAreBorn
  <1>14. ASSUME NEW c \in Commands, Runs!CliEnds(c) PROVE Runs!InstancesAreBorn'
    <2>1. \A q \in Runs!Runs : stage'[q] # stage[q] => stage'[q] = "gone" /\ stage[q] # "unborn"
      <3>1. stage' = [q \in Runs!Runs |-> IF q = c /\ stage[q] \notin {"unborn", "over"}
                                      THEN "gone" ELSE stage[q]]
        BY <1>14 DEF Runs!CliEnds, Runs!Die
      <3>2. QED
        BY <3>1
    <2>2. /\ requested' = requested /\ instances' = instances
          /\ sweep' = sweep /\ failures' = failures
      BY <1>14 DEF Runs!CliEnds, Runs!Die
    <2>3. QED
      BY <1>0, <2>1, <2>2 DEF Runs!RunsInv, Runs!Born, Runs!InstancesAreBorn
  <1>15. CASE Runs!SweepLists
    BY <1>15 DEF Runs!SweepLists, Runs!RunsInv, Runs!TypeOK, Runs!Born, Runs!InstancesAreBorn
  <1>16. CASE Runs!SweepReadsHistory
    BY <1>16 DEF Runs!SweepReadsHistory, Runs!RunsInv, Runs!TypeOK, Runs!Born, Runs!InstancesAreBorn
  <1>17. CASE Runs!SweepReadsLive
    <2>1. sweep'.found \subseteq sweep.found
      BY <1>17 DEF Runs!SweepReadsLive
    <2>2. QED
      BY <1>17, <2>1 DEF Runs!SweepReadsLive, Runs!RunsInv, Runs!TypeOK, Runs!Born, Runs!InstancesAreBorn
  <1>18. ASSUME NEW r \in Runs!Runs, Runs!SweepRemoves(r) PROVE Runs!InstancesAreBorn'
    BY <1>18 DEF Runs!SweepRemoves, Runs!Removal, Runs!RunsInv, Runs!TypeOK, Runs!Born, Runs!InstancesAreBorn
  <1>19. ASSUME NEW r \in Runs!Runs, Runs!SweepCloses(r) PROVE Runs!InstancesAreBorn'
    BY <1>19 DEF Runs!SweepCloses, Runs!RunsInv, Runs!TypeOK, Runs!Born, Runs!InstancesAreBorn
  <1>20. CASE Runs!SweepEnds
    BY <1>20 DEF Runs!SweepEnds, Runs!Resting, Runs!RunsInv, Runs!TypeOK, Runs!Born, Runs!InstancesAreBorn
  <1>21. CASE UNCHANGED Runs!vars
    BY <1>21 DEF Runs!vars, Runs!RunsInv, Runs!TypeOK, Runs!Born, Runs!InstancesAreBorn
  <1>22. QED
    BY <1>1, <1>2, <1>3, <1>4, <1>5, <1>6, <1>7, <1>8, <1>9, <1>10, <1>11, <1>12, <1>13, <1>14, <1>15, <1>16, <1>17, <1>18, <1>19, <1>20, <1>21 DEF Runs!Next

LEMMA RunsDecided ==
    ASSUME Runs!RunsAssumption, Runs!RunsInv, [Runs!Next]_(Runs!vars)
    PROVE  Runs!Decided'
  <1> DEFINE stage == s3  saves == s12
  <1>1. ASSUME NEW r \in Runs!Runs, Runs!Start(r) PROVE Runs!Decided'
    BY <1>1 DEF Runs!Start, Runs!RunsInv, Runs!TypeOK, Runs!Past, Runs!LiveIsGoing, Runs!Decided
  <1>2. ASSUME NEW r \in Runs!Runs, Runs!SaveBegins(r) PROVE Runs!Decided'
    BY <1>2 DEF Runs!SaveBegins, Runs!RunsInv, Runs!TypeOK, Runs!Past, Runs!Decided
  <1>3. ASSUME NEW s \in saves, Runs!SaveEnds(s) PROVE Runs!Decided'
    <2>1. s.run \in Runs!Runs
      BY RunsSavesHere DEF Runs!RunsInv, Runs!TypeOK
    <2>2. CASE s.status = "lost"
      BY <1>3, <2>2 DEF Runs!SaveEnds, Runs!RunsInv, Runs!Past, Runs!Decided
    <2>3. ASSUME s.status # "lost", NEW next \in Runs!NextStage(s.run),
                 stage' = [stage EXCEPT ![s.run] = next]
          PROVE  Runs!Decided'
      <3>1. stage[s.run] \in {"registered", "launched", "leaving", "closing"}
        BY <2>3 DEF Runs!RunsInv, Runs!SavesAreTold
      <3>2. /\ next # "closing"
            /\ next = "over" <=> stage[s.run] = "closing"
        BY <2>1, <2>3, <3>1 DEF Runs!NextStage
      <3>3. QED
        BY <1>3, <2>1, <2>3, <3>1, <3>2 DEF Runs!SaveEnds, Runs!RunsInv, Runs!TypeOK, Runs!Past, Runs!Decided
    <2>4. QED
      BY <1>3, <2>2, <2>3 DEF Runs!SaveEnds
  <1>4. ASSUME NEW r \in Runs!Runs, Runs!DaemonCreates(r) PROVE Runs!Decided'
    BY <1>4 DEF Runs!DaemonCreates, Runs!RunsInv, Runs!TypeOK, Runs!Past, Runs!LiveIsGoing, Runs!Decided
  <1>5. ASSUME NEW r \in Runs!Runs, Runs!LaunchEnds(r) PROVE Runs!Decided'
    BY <1>5 DEF Runs!LaunchEnds, Runs!RunsInv, Runs!TypeOK, Runs!Past, Runs!LiveIsGoing, Runs!Decided
  <1>6. ASSUME NEW r \in Runs!Runs, Runs!JobEnds(r) PROVE Runs!Decided'
    BY <1>6 DEF Runs!JobEnds, Runs!RunsInv, Runs!TypeOK, Runs!Past, Runs!LiveIsGoing, Runs!Decided
  <1>7. ASSUME NEW r \in Runs!Runs, Runs!Remove(r) PROVE Runs!Decided'
    BY <1>7 DEF Runs!Remove, Runs!Removal, Runs!RunsInv, Runs!TypeOK, Runs!Past, Runs!LiveIsGoing, Runs!Decided
  <1>8. ASSUME NEW r \in Runs!Runs, Runs!Decide(r) PROVE Runs!Decided'
    BY <1>8 DEF Runs!Decide, Runs!Verdict, Runs!RunsInv, Runs!TypeOK, Runs!Past, Runs!Decided
  <1>9. ASSUME NEW r \in Runs!Runs, NEW why \in {"timed_out", "cancelled"}, Runs!Stop(r, why) PROVE Runs!Decided'
    BY <1>9 DEF Runs!Stop, Runs!RunsInv, Runs!TypeOK, Runs!Past, Runs!LiveIsGoing, Runs!Decided
  <1>10. ASSUME NEW r \in Runs!Runs, Runs!StopRemoves(r) PROVE Runs!Decided'
    BY <1>10 DEF Runs!StopRemoves, Runs!Removal, Runs!RunsInv, Runs!TypeOK, Runs!Past, Runs!LiveIsGoing, Runs!Decided
  <1>11. CASE Runs!ServeEnds
    BY <1>11 DEF Runs!ServeEnds, Runs!Die, Runs!RunsInv, Runs!TypeOK, Runs!Past, Runs!LiveIsGoing, Runs!Decided
  <1>12. CASE Runs!ServeBegins
    BY <1>12 DEF Runs!ServeBegins, Runs!RunsInv, Runs!TypeOK, Runs!Past, Runs!LiveIsGoing, Runs!Decided
  <1>13. CASE Runs!ServeReexecs
    BY <1>13 DEF Runs!ServeReexecs, Runs!Die, Runs!RunsInv, Runs!TypeOK, Runs!Past, Runs!LiveIsGoing, Runs!Decided
  <1>14. ASSUME NEW c \in Commands, Runs!CliEnds(c) PROVE Runs!Decided'
    BY <1>14 DEF Runs!CliEnds, Runs!Die, Runs!RunsInv, Runs!TypeOK, Runs!Past, Runs!LiveIsGoing, Runs!Decided
  <1>15. CASE Runs!SweepLists
    BY <1>15 DEF Runs!SweepLists, Runs!RunsInv, Runs!TypeOK, Runs!Past, Runs!LiveIsGoing, Runs!Decided
  <1>16. CASE Runs!SweepReadsHistory
    BY <1>16 DEF Runs!SweepReadsHistory, Runs!RunsInv, Runs!TypeOK, Runs!Past, Runs!LiveIsGoing, Runs!Decided
  <1>17. CASE Runs!SweepReadsLive
    BY <1>17 DEF Runs!SweepReadsLive, Runs!RunsInv, Runs!TypeOK, Runs!Past, Runs!LiveIsGoing, Runs!Decided
  <1>18. ASSUME NEW r \in Runs!Runs, Runs!SweepRemoves(r) PROVE Runs!Decided'
    BY <1>18 DEF Runs!SweepRemoves, Runs!Removal, Runs!RunsInv, Runs!TypeOK, Runs!Past, Runs!LiveIsGoing, Runs!Decided
  <1>19. ASSUME NEW r \in Runs!Runs, Runs!SweepCloses(r) PROVE Runs!Decided'
    BY <1>19 DEF Runs!SweepCloses, Runs!RunsInv, Runs!TypeOK, Runs!Past, Runs!LiveIsGoing, Runs!Decided
  <1>20. CASE Runs!SweepEnds
    BY <1>20 DEF Runs!SweepEnds, Runs!RunsInv, Runs!TypeOK, Runs!Past, Runs!LiveIsGoing, Runs!Decided
  <1>21. CASE UNCHANGED Runs!vars
    BY <1>21 DEF Runs!vars, Runs!RunsInv, Runs!TypeOK, Runs!Past, Runs!LiveIsGoing, Runs!Decided
  <1>22. QED
    BY <1>1, <1>2, <1>3, <1>4, <1>5, <1>6, <1>7, <1>8, <1>9, <1>10, <1>11, <1>12, <1>13, <1>14, <1>15, <1>16, <1>17, <1>18, <1>19, <1>20, <1>21 DEF Runs!Next

\* The record that is to be saved, whoever saves it, is still the right one after a
\* step that leaves the thread of its run where it is.
LEMMA RunsSavesStand ==
    ASSUME Runs!RunsAssumption, Runs!RunsInv, [Runs!Next]_(Runs!vars),
           s12' \subseteq s12,
           \A s \in s12' : s.status # "lost" =>
               s3'[s.run] = s3[s.run] /\ s4'[s.run] = s4[s.run]
    PROVE  Runs!SavesAreTold'
  <1> DEFINE stage == s3  saves == s12
  <1>1. ASSUME NEW s \in saves'
        PROVE  /\ Runs!Told(s.seen)'
               /\ IF s.status = "lost" THEN Runs!Past(s.run)'
                  ELSE /\ stage'[s.run] \in {"registered", "launched", "leaving", "closing"}
                       /\ s.by = Runs!Owner(s.run) /\ s.status = Runs!Said(s.run)'
    <2>1. s \in saves /\ s.run \in Runs!Runs /\ Runs!Told(s.seen)
      BY RunsSavesHere DEF Runs!RunsInv, Runs!TypeOK, Runs!SavesAreTold
    <2>2. Runs!Told(s.seen)'
      BY <2>1, RunsTellsOn
    <2>3. CASE s.status = "lost"
      BY <2>1, <2>2, <2>3, RunsOnward DEF Runs!RunsInv, Runs!SavesAreTold
    <2>4. CASE s.status # "lost"
      BY <2>1, <2>2, <2>4 DEF Runs!RunsInv, Runs!SavesAreTold, Runs!Said
    <2>5. QED
      BY <2>3, <2>4
  <1>2. QED
    BY <1>1 DEF Runs!RunsInv, Runs!SavesAreTold

LEMMA RunsSavesJoin ==
    ASSUME Runs!RunsAssumption, Runs!RunsInv, [Runs!Next]_(Runs!vars), NEW s,
           s.seen = s11, s.run \in Runs!Runs, s12' = s12 \cup {s}, \A t \in s12 : t.by # s.by,
           s3' = s3, s4' = s4,
           IF s.status = "lost" THEN Runs!Past(s.run)
           ELSE /\ s3[s.run] \in {"registered", "launched", "leaving", "closing"}
                /\ s.by = Runs!Owner(s.run) /\ s.status = Runs!Said(s.run)
    PROVE  Runs!SavesAreTold'
  <1> DEFINE stage == s3  saves == s12
  <1>1. ASSUME NEW u \in saves'
        PROVE  /\ Runs!Told(u.seen)'
               /\ IF u.status = "lost" THEN Runs!Past(u.run)'
                  ELSE /\ stage'[u.run] \in {"registered", "launched", "leaving", "closing"}
                       /\ u.by = Runs!Owner(u.run) /\ u.status = Runs!Said(u.run)'
    <2>1. u.run \in Runs!Runs /\ Runs!Told(u.seen)
      BY RunsSavesHere DEF Runs!RunsInv, Runs!TypeOK, Runs!SavesAreTold
    <2>2. Runs!Told(u.seen)'
      BY <2>1, RunsTellsOn
    <2>3. CASE u.status = "lost"
      BY <2>1, <2>2, <2>3 DEF Runs!RunsInv, Runs!SavesAreTold, Runs!Past
    <2>4. CASE u.status # "lost"
      BY <2>1, <2>2, <2>4 DEF Runs!RunsInv, Runs!SavesAreTold, Runs!Said
    <2>5. QED
      BY <2>3, <2>4
  <1>2. QED
    BY <1>1 DEF Runs!RunsInv, Runs!SavesAreTold

LEMMA RunsSavesEnd ==
    ASSUME Runs!RunsAssumption, Runs!RunsInv, [Runs!Next]_(Runs!vars), NEW R, R \subseteq Runs!Runs, Runs!Die(R)
    PROVE  Runs!SavesAreTold'
  <1> DEFINE stage == s3  result == s4  saves == s12
  <1>1. saves' \subseteq saves /\ result' = result
    BY DEF Runs!Die
  <1>2. ASSUME NEW s \in saves', s.status # "lost" PROVE stage'[s.run] = stage[s.run]
    <2>1. s.run \in Runs!Runs /\ s.by = Runs!Owner(s.run)
      BY <1>1, <1>2, RunsSavesHere DEF Runs!RunsInv, Runs!TypeOK, Runs!SavesAreTold
    <2>2. s.run \notin R
      BY <2>1 DEF Runs!Die
    <2>3. QED
      BY <2>1, <2>2 DEF Runs!Die
  <1>3. QED
    BY <1>1, <1>2, RunsSavesStand

LEMMA RunsAbandonedIsPast ==
    ASSUME Runs!RunsAssumption, Runs!RunsInv, NEW r \in Runs!Runs, s13.at = "acting", Runs!Abandoned(r)
    PROVE  Runs!Past(r)
  <1> DEFINE sweep == s13
  <1>1. sweep.history[r] = "running" /\ r \notin sweep.live /\ Runs!Born(r)
    BY DEF Runs!Abandoned, Runs!RunsInv, Runs!SweptIsPast
  <1>2. CASE Runs!PidIsOwn(r)
    BY <1>1, <1>2 DEF Runs!PidIsOwn, Runs!RunsInv, Runs!SweptIsPast, Runs!LiveIsGoing, Runs!Past
  <1>3. CASE ~Runs!PidAlive(r)
    BY <1>1, <1>3 DEF Runs!PidAlive, Runs!RunsInv, Runs!LiveIsGoing, Runs!Past
  <1>4. QED
    BY <1>2, <1>3 DEF Runs!Abandoned

LEMMA RunsSaves ==
    ASSUME Runs!RunsAssumption, Runs!RunsInv, [Runs!Next]_(Runs!vars)
    PROVE  Runs!SavesAreTold'
  <1> DEFINE stage == s3  result == s4  file == s11  saves == s12
  <1>1. ASSUME NEW r \in Runs!Runs, Runs!Start(r) PROVE Runs!SavesAreTold'
    <2>1. \A q \in Runs!Runs \ {r} : stage'[q] = stage[q]
      BY <1>1 DEF Runs!Start, Runs!RunsInv, Runs!TypeOK
    <2>2. \A s \in saves : s.run \in Runs!Runs
      BY RunsSavesHere DEF Runs!RunsInv, Runs!TypeOK
    <2>3. \A s \in saves : s.status # "lost" => s.run # r
      BY <1>1 DEF Runs!Start, Runs!RunsInv, Runs!SavesAreTold
    <2>4. QED
      BY <1>1, <2>1, <2>2, <2>3, RunsSavesStand DEF Runs!Start
  <1>2. ASSUME NEW r \in Runs!Runs, Runs!SaveBegins(r) PROVE Runs!SavesAreTold'
    <2> DEFINE new == [by |-> Runs!Owner(r), run |-> r, status |-> Runs!Said(r), seen |-> file]
    <2>1. PICK s \in {new} : TRUE
      OBVIOUS
    <2>2. /\ s.seen = file /\ s.run = r /\ s.by = Runs!Owner(r) /\ s.status = Runs!Said(r)
          /\ saves' = saves \cup {s}
      BY <1>2, <2>1 DEF Runs!SaveBegins
    <2>3. Runs!Said(r) # "lost"
      BY DEF Runs!RunsInv, Runs!TypeOK, Runs!Decided, Runs!Said
    <2>4. QED
      BY <1>2, <2>2, <2>3, RunsSavesJoin DEF Runs!SaveBegins
  <1>3. ASSUME NEW s \in saves, Runs!SaveEnds(s) PROVE Runs!SavesAreTold'
    <2>1. s.run \in Runs!Runs
      BY RunsSavesHere DEF Runs!RunsInv, Runs!TypeOK
    <2>2. \A q \in Runs!Runs \ {s.run} : stage'[q] = stage[q]
      BY <1>3, <2>1 DEF Runs!SaveEnds, Runs!RunsInv, Runs!TypeOK
    <2>3. /\ saves' = saves \ {s} /\ result' = result
          /\ s.status = "lost" => stage' = stage
      BY <1>3 DEF Runs!SaveEnds
    <2>4. ASSUME NEW t \in saves', t.status # "lost", t.run = s.run PROVE s.status = "lost"
      BY <2>3, <2>4 DEF Runs!RunsInv, Runs!SavesAreTold
    <2>5. \A t \in saves' : t.run \in Runs!Runs
      BY <2>3, RunsSavesHere DEF Runs!RunsInv, Runs!TypeOK
    <2>6. QED
      BY <2>2, <2>3, <2>4, <2>5, RunsSavesStand
  <1>4. ASSUME NEW r \in Runs!Runs, Runs!DaemonCreates(r) PROVE Runs!SavesAreTold'
    BY <1>4, RunsSavesStand DEF Runs!DaemonCreates, Runs!RunsInv, Runs!TypeOK, Runs!SavesAreTold
  <1>5. ASSUME NEW r \in Runs!Runs, Runs!LaunchEnds(r) PROVE Runs!SavesAreTold'
    <2>1. \A q \in Runs!Runs \ {r} : stage'[q] = stage[q]
      BY <1>5 DEF Runs!LaunchEnds, Runs!RunsInv, Runs!TypeOK
    <2>2. \A s \in saves : s.run \in Runs!Runs
      BY RunsSavesHere DEF Runs!RunsInv, Runs!TypeOK
    <2>3. \A s \in saves : s.status # "lost" => s.run # r
      BY <1>5 DEF Runs!LaunchEnds, Runs!RunsInv, Runs!SavesAreTold
    <2>4. QED
      BY <1>5, <2>1, <2>2, <2>3, RunsSavesStand DEF Runs!LaunchEnds
  <1>6. ASSUME NEW r \in Runs!Runs, Runs!JobEnds(r) PROVE Runs!SavesAreTold'
    BY <1>6, RunsSavesStand DEF Runs!JobEnds, Runs!RunsInv, Runs!TypeOK, Runs!SavesAreTold
  <1>7. ASSUME NEW r \in Runs!Runs, Runs!Remove(r) PROVE Runs!SavesAreTold'
    BY <1>7, RunsSavesStand DEF Runs!Remove, Runs!Removal, Runs!RunsInv, Runs!TypeOK, Runs!SavesAreTold
  <1>8. ASSUME NEW r \in Runs!Runs, Runs!Decide(r) PROVE Runs!SavesAreTold'
    BY <1>8, RunsSavesStand DEF Runs!Decide, Runs!RunsInv, Runs!TypeOK, Runs!SavesAreTold
  <1>9. ASSUME NEW r \in Runs!Runs, NEW why \in {"timed_out", "cancelled"}, Runs!Stop(r, why) PROVE Runs!SavesAreTold'
    BY <1>9, RunsSavesStand DEF Runs!Stop, Runs!RunsInv, Runs!TypeOK, Runs!SavesAreTold
  <1>10. ASSUME NEW r \in Runs!Runs, Runs!StopRemoves(r) PROVE Runs!SavesAreTold'
    BY <1>10, RunsSavesStand DEF Runs!StopRemoves, Runs!Removal, Runs!RunsInv, Runs!TypeOK, Runs!SavesAreTold
  <1>11. CASE Runs!ServeEnds
    <2>1. QED
      BY <1>11, RunsSavesEnd DEF Runs!ServeEnds, Runs!Runs
  <1>12. CASE Runs!ServeBegins
    BY <1>12, RunsSavesStand DEF Runs!ServeBegins, Runs!RunsInv, Runs!TypeOK, Runs!SavesAreTold
  <1>13. CASE Runs!ServeReexecs
    <2>1. QED
      BY <1>13, RunsSavesEnd DEF Runs!ServeReexecs, Runs!Runs
  <1>14. ASSUME NEW c \in Commands, Runs!CliEnds(c) PROVE Runs!SavesAreTold'
    <2>1. {c} \subseteq Runs!Runs /\ Runs!Die({c})
      BY <1>14 DEF Runs!CliEnds, Runs!Runs
    <2>2. QED
      BY <2>1, RunsSavesEnd
  <1>15. CASE Runs!SweepLists
    BY <1>15, RunsSavesStand DEF Runs!SweepLists, Runs!RunsInv, Runs!TypeOK, Runs!SavesAreTold
  <1>16. CASE Runs!SweepReadsHistory
    BY <1>16, RunsSavesStand DEF Runs!SweepReadsHistory, Runs!RunsInv, Runs!TypeOK, Runs!SavesAreTold
  <1>17. CASE Runs!SweepReadsLive
    BY <1>17, RunsSavesStand DEF Runs!SweepReadsLive, Runs!RunsInv, Runs!TypeOK, Runs!SavesAreTold
  <1>18. ASSUME NEW r \in Runs!Runs, Runs!SweepRemoves(r) PROVE Runs!SavesAreTold'
    BY <1>18, RunsSavesStand DEF Runs!SweepRemoves, Runs!Removal, Runs!RunsInv, Runs!TypeOK, Runs!SavesAreTold
  <1>19. ASSUME NEW r \in Runs!Runs, Runs!SweepCloses(r) PROVE Runs!SavesAreTold'
    <2> DEFINE new == [by |-> Serve, run |-> r, status |-> "lost", seen |-> file]
    <2>1. PICK s \in {new} : TRUE
      OBVIOUS
    <2>2. /\ s.seen = file /\ s.run = r /\ s.by = Serve /\ s.status = "lost"
          /\ saves' = saves \cup {s}
      BY <1>19, <2>1 DEF Runs!SweepCloses
    <2>3. Runs!Past(r)
      BY <1>19, RunsAbandonedIsPast DEF Runs!SweepCloses
    <2>4. QED
      BY <1>19, <2>2, <2>3, RunsSavesJoin DEF Runs!SweepCloses
  <1>20. CASE Runs!SweepEnds
    BY <1>20, RunsSavesStand DEF Runs!SweepEnds, Runs!RunsInv, Runs!TypeOK, Runs!SavesAreTold
  <1>21. CASE UNCHANGED Runs!vars
    BY <1>21, RunsSavesStand DEF Runs!vars, Runs!RunsInv, Runs!TypeOK, Runs!SavesAreTold
  <1>22. QED
    BY <1>1, <1>2, <1>3, <1>4, <1>5, <1>6, <1>7, <1>8, <1>9, <1>10, <1>11, <1>12, <1>13, <1>14, <1>15, <1>16, <1>17, <1>18, <1>19, <1>20, <1>21 DEF Runs!Next

LEMMA RunsSweptStands ==
    ASSUME Runs!RunsAssumption, Runs!RunsInv, [Runs!Next]_(Runs!vars),
           s13'.at = s13.at, s13'.live = s13.live, s13'.found \subseteq s13.found,
           \A q \in Runs!Runs : s13'.history[q] = s13.history[q] \/ s13'.history[q] = "none"
    PROVE  Runs!SweptIsPast'
  BY RunsOnward DEF Runs!RunsInv, Runs!SweptIsPast, Runs!Runs

LEMMA RunsSwept ==
    ASSUME Runs!RunsAssumption, Runs!RunsInv, [Runs!Next]_(Runs!vars)
    PROVE  Runs!SweptIsPast'
  <1> DEFINE live == s7  file == s11  sweep == s13
  <1>1. CASE sweep' = sweep
    BY <1>1, RunsSweptStands
  <1>2. CASE sweep' = Runs!Resting
    BY <1>2 DEF Runs!Resting, Runs!NoHistory, Runs!SweptIsPast
  <1>3. CASE Runs!SweepLists
    <2>1. sweep'.at = "listed" /\ sweep'.history = sweep.history
      BY <1>3 DEF Runs!SweepLists, Runs!RunsInv, Runs!TypeOK, Runs!Round
    <2>2. QED
      BY <2>1, RunsOnward DEF Runs!RunsInv, Runs!SweptIsPast
  <1>4. CASE Runs!SweepReadsHistory
    <2>1. sweep'.at = "read" /\ sweep'.history = file
      BY <1>4 DEF Runs!SweepReadsHistory, Runs!RunsInv, Runs!TypeOK, Runs!Round
    <2>2. QED
      BY <2>1, RunsOnward DEF Runs!RunsInv, Runs!Told, Runs!SweptIsPast
  <1>5. CASE Runs!SweepReadsLive
    <2>1. /\ sweep'.history = sweep.history /\ sweep'.live = live \cap Twins
          /\ sweep'.found = sweep.found \ (live \cap Twins)
      BY <1>5 DEF Runs!SweepReadsLive, Runs!Living, Runs!RunsInv, Runs!TypeOK, Runs!Round
    <2>2. ASSUME NEW r \in Twins, r \notin live, Runs!Born(r) PROVE Runs!Past(r)'
      BY <2>2, RunsOnward DEF Runs!RunsInv, Runs!LiveIsGoing, Runs!Runs
    <2>3. \A r \in Twins : r \in sweep.found => Runs!Born(r)
      BY DEF Runs!RunsInv, Runs!InstancesAreBorn
    <2>4. \A r \in Twins : sweep.history[r] = "running" => Runs!Born(r)
      BY DEF Runs!RunsInv, Runs!SweptIsPast, Runs!Runs
    <2>5. QED
      BY <2>1, <2>2, <2>3, <2>4, RunsOnward DEF Runs!RunsInv, Runs!SweptIsPast
  <1>6. ASSUME NEW r \in Runs!Runs, Runs!SweepRemoves(r) PROVE Runs!SweptIsPast'
    <2>1. /\ sweep'.at = sweep.at /\ sweep'.live = sweep.live /\ sweep'.history = sweep.history
          /\ sweep'.found = sweep.found \ {r}
      BY <1>6 DEF Runs!SweepRemoves, Runs!RunsInv, Runs!TypeOK, Runs!Round
    <2>2. QED
      BY <2>1, RunsSweptStands
  <1>7. ASSUME NEW r \in Runs!Runs, Runs!SweepCloses(r) PROVE Runs!SweptIsPast'
    <2>1. /\ sweep'.at = sweep.at /\ sweep'.live = sweep.live /\ sweep'.found = sweep.found
          /\ sweep'.history = [sweep.history EXCEPT ![r] = "none"]
      BY <1>7 DEF Runs!SweepCloses, Runs!RunsInv, Runs!TypeOK, Runs!Round
    <2>2. sweep.history \in Runs!History
      BY RunsRoundFields DEF Runs!RunsInv, Runs!TypeOK
    <2>3. QED
      BY <2>1, <2>2, RunsSweptStands DEF Runs!History
  <1>8. \/ sweep' = sweep \/ sweep' = Runs!Resting \/ Runs!SweepLists \/ Runs!SweepReadsHistory
        \/ Runs!SweepReadsLive \/ \E r \in Runs!Runs : Runs!SweepRemoves(r) \/ Runs!SweepCloses(r)
    BY DEF Runs!Next, Runs!vars, Runs!Start, Runs!SaveBegins, Runs!SaveEnds, Runs!DaemonCreates, Runs!LaunchEnds, Runs!JobEnds, Runs!Remove,
           Runs!Decide, Runs!Stop, Runs!StopRemoves, Runs!ServeEnds, Runs!ServeBegins, Runs!ServeReexecs, Runs!CliEnds, Runs!SweepEnds
  <1>9. QED
    BY <1>1, <1>2, <1>3, <1>4, <1>5, <1>6, <1>7, <1>8

\* A step that leaves the history, what is about to be saved of it and what the sweeper
\* read, and ends no run, leaves what was read of those that are over.
LEMMA RunsFinalStays ==
    ASSUME Runs!RunsInv, s11' = s11, s12' \subseteq s12, s16' = s16,
           \/ s13' = s13 \/ s13' = Runs!Resting,
           \A r \in Runs!Runs : s3'[r] = "over" => s3[r] = "over" /\ s4'[r] = s4[r]
    PROVE  Runs!FinalIsRead'
  BY DEF Runs!RunsInv, Runs!FinalIsRead, Runs!Resting

LEMMA RunsFinalSaved ==
    ASSUME Runs!RunsAssumption, Runs!RunsInv, NEW s \in s12, Runs!SaveEnds(s)
    PROVE  Runs!FinalIsRead'
  <1> DEFINE stage == s3  result == s4  file == s11  saves == s12  sweep == s13
             overlapped == s16
  <1> DEFINE h == [s.seen EXCEPT ![s.run] = s.status]
  <1>1. s.run \in Runs!Runs /\ s.seen \in Runs!History /\ s.status \in Runs!Status \ {"none"}
    BY RunsSavesHere DEF Runs!RunsInv, Runs!TypeOK
  <1>2. h \in Runs!History /\ h[s.run] = s.status /\ \A q \in Runs!Runs \ {s.run} : h[q] = s.seen[q]
    BY <1>1 DEF Runs!History
  <1>3. file' = Runs!Newest(h) /\ saves' = saves \ {s} /\ UNCHANGED <<sweep, result>>
    BY DEF Runs!SaveEnds
  <1> HIDE DEF h
  <1>4. \A q \in Runs!Runs : file'[q] = h[q] \/ file'[q] = "none"
    BY <1>2, <1>3, RunsNewestKeeps
  <1>5. \A q \in Runs!Runs \ {s.run} : stage'[q] = stage[q]
    BY <1>1 DEF Runs!SaveEnds, Runs!RunsInv, Runs!TypeOK
  <1>6. overlapped \subseteq overlapped'
    BY DEF Runs!SaveEnds
  <1> SUFFICES ASSUME NEW r \in Runs!Runs, stage'[r] = "over", r \notin overlapped'
               PROVE  /\ file'[r] \in {result[r], "none"}
                      /\ \A t \in saves' : t.run # r /\ t.seen[r] \in {result[r], "none"}
                      /\ sweep.at \in {"read", "acting"} => sweep.history[r] \in {result[r], "none"}
    BY <1>3 DEF Runs!FinalIsRead
  <1>7. CASE stage[r] = "over"
    <2>1. /\ \A t \in saves : t.run # r /\ t.seen[r] \in {result[r], "none"}
          /\ sweep.at \in {"read", "acting"} => sweep.history[r] \in {result[r], "none"}
      BY <1>6, <1>7 DEF Runs!RunsInv, Runs!FinalIsRead
    <2>2. h[r] \in {result[r], "none"}
      BY <1>2, <2>1
    <2>3. QED
      BY <1>3, <1>4, <2>1, <2>2
  <1>8. CASE stage[r] # "over"
    <2>1. r = s.run /\ s.status # "lost"
      <3>1. r = s.run
        BY <1>5, <1>8
      <3>2. s.status = "lost" => stage' = stage
        BY DEF Runs!SaveEnds
      <3>3. QED
        BY <1>8, <3>1, <3>2
    <2>2. PICK next \in Runs!NextStage(s.run) : stage' = [stage EXCEPT ![s.run] = next]
      BY <2>1 DEF Runs!SaveEnds
    <2>3. stage[r] \in {"registered", "launched", "leaving", "closing"} /\ s.status = Runs!Said(r)
      BY <2>1 DEF Runs!RunsInv, Runs!SavesAreTold
    <2>4. next = "over"
      BY <1>1, <2>1, <2>2 DEF Runs!RunsInv, Runs!TypeOK
    <2>5. stage[r] = "closing"
      BY <2>1, <2>2, <2>3, <2>4 DEF Runs!NextStage
    <2>6. s.status = result[r] /\ s.status \in Runs!Final \ {"lost"}
      BY <2>1, <2>3, <2>5 DEF Runs!Said, Runs!RunsInv, Runs!TypeOK
    <2>7. ~(sweep.at \in {"read", "acting"}) /\ saves = {s}
      BY <2>1, <2>6 DEF Runs!SaveEnds
    <2>8. QED
      BY <1>2, <1>3, <1>4, <2>1, <2>6, <2>7
  <1>9. QED
    BY <1>7, <1>8

LEMMA RunsFinal ==
    ASSUME Runs!RunsAssumption, Runs!RunsInv, [Runs!Next]_(Runs!vars)
    PROVE  Runs!FinalIsRead'
  <1> DEFINE stage == s3  result == s4  file == s11  saves == s12  sweep == s13
             overlapped == s16
  <1> USE DEF Runs!RunsInv, Runs!TypeOK
  <1>1. ASSUME NEW r \in Runs!Runs, Runs!Start(r) PROVE Runs!FinalIsRead'
    BY <1>1, RunsFinalStays DEF Runs!Start
  <1>2. ASSUME NEW r \in Runs!Runs, Runs!SaveBegins(r) PROVE Runs!FinalIsRead'
    <2> DEFINE new == [by |-> Runs!Owner(r), run |-> r, status |-> Runs!Said(r), seen |-> file]
    <2>1. PICK s \in {new} : TRUE
      OBVIOUS
    <2>2. s.seen = file /\ s.run = r /\ saves' = saves \cup {s}
      BY <1>2, <2>1 DEF Runs!SaveBegins
    <2>3. stage[r] # "over" /\ UNCHANGED <<stage, result, overlapped, file, sweep>>
      BY <1>2 DEF Runs!SaveBegins
    <2> HIDE DEF new
    <2>4. QED
      BY <2>2, <2>3 DEF Runs!FinalIsRead
  <1>3. ASSUME NEW s \in saves, Runs!SaveEnds(s) PROVE Runs!FinalIsRead'
    BY <1>3, RunsFinalSaved
  <1>4. ASSUME NEW r \in Runs!Runs, Runs!DaemonCreates(r) PROVE Runs!FinalIsRead'
    BY <1>4, RunsFinalStays DEF Runs!DaemonCreates
  <1>5. ASSUME NEW r \in Runs!Runs, Runs!LaunchEnds(r) PROVE Runs!FinalIsRead'
    BY <1>5, RunsFinalStays DEF Runs!LaunchEnds
  <1>6. ASSUME NEW r \in Runs!Runs, Runs!JobEnds(r) PROVE Runs!FinalIsRead'
    BY <1>6, RunsFinalStays DEF Runs!JobEnds
  <1>7. ASSUME NEW r \in Runs!Runs, Runs!Remove(r) PROVE Runs!FinalIsRead'
    BY <1>7, RunsFinalStays DEF Runs!Remove, Runs!Removal
  <1>8. ASSUME NEW r \in Runs!Runs, Runs!Decide(r) PROVE Runs!FinalIsRead'
    BY <1>8, RunsFinalStays DEF Runs!Decide
  <1>9. ASSUME NEW r \in Runs!Runs, NEW why \in {"timed_out", "cancelled"}, Runs!Stop(r, why) PROVE Runs!FinalIsRead'
    BY <1>9, RunsFinalStays DEF Runs!Stop
  <1>10. ASSUME NEW r \in Runs!Runs, Runs!StopRemoves(r) PROVE Runs!FinalIsRead'
    BY <1>10, RunsFinalStays DEF Runs!StopRemoves, Runs!Removal
  <1>11. CASE Runs!ServeEnds
    BY <1>11, RunsFinalStays DEF Runs!ServeEnds, Runs!Die
  <1>12. CASE Runs!ServeBegins
    BY <1>12, RunsFinalStays DEF Runs!ServeBegins
  <1>13. CASE Runs!ServeReexecs
    BY <1>13, RunsFinalStays DEF Runs!ServeReexecs, Runs!Die
  <1>14. ASSUME NEW c \in Commands, Runs!CliEnds(c) PROVE Runs!FinalIsRead'
    BY <1>14, RunsFinalStays DEF Runs!CliEnds, Runs!Die
  <1>15. CASE Runs!SweepLists
    <2>1. sweep'.at = "listed"
      BY <1>15 DEF Runs!SweepLists, Runs!Round
    <2>2. QED
      BY <1>15, <2>1 DEF Runs!SweepLists, Runs!FinalIsRead
  <1>16. CASE Runs!SweepReadsHistory
    <2>1. sweep'.history = file
      BY <1>16 DEF Runs!SweepReadsHistory, Runs!Round
    <2>2. QED
      BY <1>16, <2>1 DEF Runs!SweepReadsHistory, Runs!FinalIsRead
  <1>17. CASE Runs!SweepReadsLive
    <2>1. sweep'.history = sweep.history /\ sweep.at = "read"
      BY <1>17 DEF Runs!SweepReadsLive, Runs!Round
    <2>2. QED
      BY <1>17, <2>1 DEF Runs!SweepReadsLive, Runs!FinalIsRead
  <1>18. ASSUME NEW r \in Runs!Runs, Runs!SweepRemoves(r) PROVE Runs!FinalIsRead'
    <2>1. sweep'.history = sweep.history /\ sweep.at = "acting"
      BY <1>18 DEF Runs!SweepRemoves, Runs!Round
    <2>2. UNCHANGED <<stage, result, overlapped, file, saves>>
      BY <1>18 DEF Runs!SweepRemoves
    <2>3. QED
      BY <2>1, <2>2 DEF Runs!FinalIsRead
  <1>19. ASSUME NEW r \in Runs!Runs, Runs!SweepCloses(r) PROVE Runs!FinalIsRead'
    <2> DEFINE new == [by |-> Serve, run |-> r, status |-> "lost", seen |-> file]
    <2>1. PICK s \in {new} : TRUE
      OBVIOUS
    <2>2. s.seen = file /\ s.run = r /\ saves' = saves \cup {s}
      BY <1>19, <2>1 DEF Runs!SweepCloses
    <2>3. /\ sweep.at = "acting" /\ UNCHANGED <<stage, result, overlapped, file>>
          /\ sweep.history[r] = "running"
      BY <1>19 DEF Runs!SweepCloses, Runs!Abandoned
    <2>4. sweep.history \in Runs!History /\ sweep'.history = [sweep.history EXCEPT ![r] = "none"]
      BY <1>19, RunsRoundFields DEF Runs!SweepCloses, Runs!Round
    <2>5. stage[r] = "over" => r \in overlapped
      BY <2>3 DEF Runs!FinalIsRead, Runs!Final
    <2> HIDE DEF new
    <2>6. QED
      BY <2>2, <2>3, <2>4, <2>5 DEF Runs!FinalIsRead, Runs!History
  <1>20. CASE Runs!SweepEnds
    BY <1>20, RunsFinalStays DEF Runs!SweepEnds
  <1>21. CASE UNCHANGED Runs!vars
    BY <1>21, RunsFinalStays DEF Runs!vars
  <1>22. QED
    BY <1>1, <1>2, <1>3, <1>4, <1>5, <1>6, <1>7, <1>8, <1>9, <1>10, <1>11, <1>12, <1>13, <1>14, <1>15, <1>16, <1>17, <1>18, <1>19, <1>20, <1>21 DEF Runs!Next

LEMMA RunsStep == Runs!RunsAssumption /\ Runs!BoundsAssumption /\ Runs!RunsInv /\ [Runs!Next]_(Runs!vars) => Runs!RunsInv'
  BY RunsType, RunsFile, RunsLive, RunsInstances, RunsDecided, RunsSaves, RunsSwept, RunsFinal DEF Runs!RunsInv

LEMMA RunsTell == Runs!RunsInv => Runs!RecordsTellTheTruth
  <1> SUFFICES ASSUME Runs!RunsInv PROVE Runs!RecordsTellTheTruth
    OBVIOUS
  <1>1. Runs!StopsAreRecorded
    BY DEF Runs!RunsInv, Runs!Told, Runs!StopsAreRecorded
  <1>2. Runs!LostIsNotLive
    BY DEF Runs!RunsInv, Runs!Told, Runs!LiveIsGoing, Runs!LostIsNotLive
  <1>3. Runs!OverLeavesNothing
    BY DEF Runs!RunsInv, Runs!InstancesAreBorn, Runs!OverLeavesNothing
  <1>4. Runs!FinalRecordStands
    BY DEF Runs!RunsInv, Runs!FinalIsRead, Runs!FinalRecordStands
  <1>5. QED
    BY <1>1, <1>2, <1>3, <1>4 DEF Runs!RecordsTellTheTruth

LEMMA RunsUndisturbed ==
    ASSUME Runs!RunsAssumption, Runs!RunsInv, [Runs!Next]_(Runs!vars)
    PROVE  Runs!Undisturbed(Twins)
  <1> DEFINE stopped == s5  live == s7  instances == s9
  <1> SUFFICES ASSUME NEW r \in Twins, Runs!AtWork(r), r \in instances, r \notin instances'
               PROVE  stopped[r] # "no"
    BY DEF Runs!Undisturbed
  <1>1. r \in Runs!Runs /\ r \in live /\ ~Runs!Past(r)
    BY DEF Runs!RunsInv, Runs!LiveIsGoing, Runs!AtWork, Runs!Born, Runs!Past, Runs!Runs
  <1>2. ASSUME NEW q \in Runs!Runs, Runs!Remove(q) PROVE q # r
    BY <1>2 DEF Runs!Remove, Runs!AtWork
  <1>3. ASSUME NEW q \in Runs!Runs, Runs!StopRemoves(q), q = r PROVE stopped[r] # "no"
    BY <1>3 DEF Runs!StopRemoves, Runs!RunsInv, Runs!LiveIsGoing
  <1>4. ASSUME NEW q \in Runs!Runs, Runs!SweepRemoves(q) PROVE q # r
    BY <1>1, <1>4 DEF Runs!SweepRemoves, Runs!RunsInv, Runs!SweptIsPast
  <1>5. \/ \E q \in Runs!Runs : instances' = instances \ {q} /\ (Runs!Remove(q) \/ Runs!StopRemoves(q) \/ Runs!SweepRemoves(q))
        \/ instances \subseteq instances'
    BY DEF Runs!Next, Runs!vars, Runs!Start, Runs!SaveBegins, Runs!SaveEnds, Runs!DaemonCreates, Runs!LaunchEnds, Runs!JobEnds, Runs!Remove, Runs!Removal,
           Runs!Decide, Runs!Stop, Runs!StopRemoves, Runs!ServeEnds, Runs!ServeBegins, Runs!ServeReexecs, Runs!CliEnds, Runs!Die, Runs!SweepLists,
           Runs!SweepReadsHistory, Runs!SweepReadsLive, Runs!SweepRemoves, Runs!SweepCloses, Runs!SweepEnds
  <1>6. QED
    BY <1>2, <1>3, <1>4, <1>5

-----------------------------------------------------------------------------
(* The host's networks.                                                      *)
\* Which of the kinds of job one is, by where it is.
LEMMA NetworksJobKinds ==
    ASSUME NEW i \in Networks!Jobs
    PROVE  /\ i.at \in {"create", "lan", "macvlan", "delete"} => i \in Networks!AskJobs
           /\ i.at = "init" => i \in Networks!InitJobs
           /\ i.at = "change" => i \in Networks!ChangeJobs
           /\ i.at = "make" => i \in Networks!MakeJobs
           /\ i.at = "write" => i \in Networks!WriteJobs
           /\ i.at = "gateway" => i \in Networks!GatewayJobs
           /\ i.at = "offer" => i \in Networks!OfferJobs
           /\ i.at = "destroy" => i \in Networks!DestroyJobs
  <1>2. /\ \A j \in Networks!AskJobs : j.at \in {"create", "lan", "macvlan", "delete"}
        /\ \A j \in Networks!InitJobs : j.at = "init"
    BY DEF Networks!AskJobs, Networks!InitJobs
  <1>3. \A j \in Networks!ChangeJobs : j.at = "change"
    BY DEF Networks!ChangeJobs
  <1>4. \A j \in Networks!MakeJobs : j.at = "make"
    BY DEF Networks!MakeJobs
  <1>5. \A j \in Networks!WriteJobs : j.at = "write"
    BY DEF Networks!WriteJobs
  <1>6. /\ \A j \in Networks!GatewayJobs : j.at = "gateway"
        /\ \A j \in Networks!OfferJobs : j.at = "offer"
        /\ \A j \in Networks!DestroyJobs : j.at = "destroy"
    BY DEF Networks!GatewayJobs, Networks!OfferJobs, Networks!DestroyJobs
  <1>7. \A j \in Networks!OtherJobs : j.at \in {"idle", "refused", "firewall", "rules"}
    BY DEF Networks!OtherJobs, Networks!Idle
  <1>8. QED
    BY <1>2, <1>3, <1>4, <1>5, <1>6, <1>7 DEF Networks!Jobs

LEMMA NetworksNetKinds ==
    ASSUME Networks!TypeOK, NEW x \in NetNames
    PROVE  /\ s1[x] \in Networks!Nets
           /\ s1[x].kind = "bridge" =>
                 s1[x] \in [kind : {"bridge"}, subnet : Subnets, fabric : BOOLEAN]
           /\ s1[x].kind \in {"none", "bridge", "lan", "macvlan"}
  <1> DEFINE net == s1
  <1>1. net[x] \in Networks!Nets
    BY DEF Networks!TypeOK
  <1>2. CASE net[x] = Networks!NoNet
    BY <1>1, <1>2 DEF Networks!NoNet
  <1>3. CASE net[x] \in [kind : {"bridge"}, subnet : Subnets, fabric : BOOLEAN]
    BY <1>1, <1>3
  <1>4. CASE net[x] \in [kind : {"lan", "macvlan"}, subnet : {Networks!AnyBlock}, fabric : {FALSE}]
    BY <1>1, <1>4
  <1>5. QED
    BY <1>1, <1>2, <1>3, <1>4 DEF Networks!Nets

LEMMA NetworksApartInit == ASSUME Networks!Init PROVE Networks!ApartInv
  <1>1. Networks!TypeOK
    BY DEF Networks!Init, Networks!TypeOK, Networks!Nets, Networks!Jobs, Networks!OtherJobs
  <1>2. Networks!HoldsTheLock /\ Networks!StillClear /\ Networks!SubnetsApart
    BY DEF Networks!Init, Networks!HoldsTheLock, Networks!StillClear, Networks!MakeIsClear, Networks!WriteIsClear, Networks!GatewayKeeps, Networks!SubnetsApart, Networks!Holding, Networks!Idle, Networks!NoNet
  <1>3. QED
    BY <1>1, <1>2 DEF Networks!ApartInv

LEMMA NetworksClearStays ==
    ASSUME Networks!NoneMoves, NEW x \in NetNames, NEW subnet, Networks!Clear(x, subnet)
    PROVE  Networks!Clear(x, subnet)'
  BY DEF Networks!NoneMoves, Networks!Clear

LEMMA NetworksApartStays == ASSUME Networks!SubnetsApart, Networks!NoneMoves PROVE Networks!SubnetsApart'
  BY DEF Networks!SubnetsApart, Networks!NoneMoves

\* A step of one request that moves no network keeps all of it.
LEMMA NetworksMovesOn ==
    ASSUME Networks!ApartInv, NEW t \in Pair, NEW j \in Networks!Jobs, Networks!To(t, j), Networks!TypeOK', Networks!NoneMoves,
           Networks!LockFits(t, j), Networks!Ready(j), UNCHANGED <<s3, s7>>
    PROVE  Networks!ApartInv'
  <1> DEFINE apart == s3  lock == s4  job == s5  late == s7
  <1>1. \A s \in Pair : job'[s] = IF s = t THEN j ELSE job[s]
    BY DEF Networks!ApartInv, Networks!TypeOK, Networks!To
  <1>2. Networks!HoldsTheLock'
    <2>1. SUFFICES ASSUME NEW s \in Pair \ apart, job'[s].at \in Networks!Holding PROVE lock' = {s}
      BY DEF Networks!HoldsTheLock
    <2>2. CASE s = t
      BY <1>1, <2>1, <2>2 DEF Networks!LockFits, Networks!Holding
    <2>3. CASE s # t
      <3>1. lock = {s}
        BY <1>1, <2>1, <2>3 DEF Networks!ApartInv, Networks!HoldsTheLock
      <3>2. QED
        BY <2>3, <3>1 DEF Networks!LockFits, Networks!Free
    <2>4. QED
      BY <2>2, <2>3
  <1>3. \A s \in Pair : Networks!Ready(job[s]) \/ (s \in late /\ Networks!ReadLate(job[s]))
    BY DEF Networks!ReadLate, Networks!ApartInv, Networks!StillClear, Networks!MakeIsClear, Networks!WriteIsClear, Networks!GatewayKeeps, Networks!Ready
  <1>4. \A s \in Pair : Networks!Ready(job'[s]) \/ (s \in late' /\ Networks!ReadLate(job'[s]))
    BY <1>1, <1>3
  <1>5. \A s \in Pair : job'[s].at \in {"make", "write"} => job'[s].x \in NetNames
    <2>1. \A s \in Pair : job'[s] \in Networks!Jobs
      BY DEF Networks!TypeOK
    <2>2. \A i \in Networks!Jobs : i.at \in {"make", "write"} => i.x \in NetNames
      BY NetworksJobKinds DEF Networks!MakeJobs, Networks!WriteJobs
    <2>3. QED
      BY <2>1, <2>2
  <1>6. Networks!MakeIsClear'
    BY <1>4, <1>5, NetworksClearStays DEF Networks!MakeIsClear, Networks!Ready
  <1>7. Networks!WriteIsClear'
    BY <1>4, <1>5, NetworksClearStays DEF Networks!WriteIsClear, Networks!Ready, Networks!ReadLate
  <1>8. Networks!GatewayKeeps'
    BY <1>4 DEF Networks!GatewayKeeps, Networks!Ready, Networks!ReadLate
  <1>9. Networks!SubnetsApart'
    BY NetworksApartStays DEF Networks!ApartInv
  <1>10. QED
    BY <1>2, <1>6, <1>7, <1>8, <1>9 DEF Networks!ApartInv, Networks!StillClear

\* A request that wrote under the lock leaves it; nobody else was to write.
LEMMA NetworksLeaves ==
    ASSUME Networks!ApartInv, NEW t \in Pair, NEW j \in Networks!Jobs, Networks!To(t, j), Networks!TypeOK', Networks!SubnetsApart',
           s5[t].at \in Networks!Holding, j.at \notin Networks!Holding \cup {"gateway"},
           Networks!Passes(t), s4' = s4 \ {t}, UNCHANGED s3
    PROVE  Networks!ApartInv'
  <1> DEFINE apart == s3  lock == s4  job == s5  late == s7
  <1>1. \A s \in Pair : job'[s] = IF s = t THEN j ELSE job[s]
    BY DEF Networks!ApartInv, Networks!TypeOK, Networks!To
  <1>2. \A s \in Pair : job'[s].at \in {"make", "write"} => s \in late' /\ job'[s] = job[s]
    <2>1. SUFFICES ASSUME NEW s \in Pair, job'[s].at \in {"make", "write"}
                   PROVE  s \in late' /\ job'[s] = job[s]
      OBVIOUS
    <2>2. s # t /\ job'[s] = job[s] /\ job[s].at \in Networks!Holding
      BY <1>1, <2>1 DEF Networks!Holding
    <2>3. t \in apart \/ s \in apart
      BY <2>2 DEF Networks!ApartInv, Networks!HoldsTheLock
    <2>4. QED
      BY <2>1, <2>2, <2>3 DEF Networks!Passes
  <1>3. Networks!HoldsTheLock'
    <2>1. SUFFICES ASSUME NEW s \in Pair \ apart, job'[s].at \in Networks!Holding PROVE lock' = {s}
      BY DEF Networks!HoldsTheLock
    <2>2. s # t /\ job[s].at \in Networks!Holding
      BY <1>1, <2>1
    <2>3. lock = {s}
      BY <2>2 DEF Networks!ApartInv, Networks!HoldsTheLock
    <2>4. QED
      BY <2>2, <2>3
  <1>4. Networks!MakeIsClear'
    BY <1>2 DEF Networks!MakeIsClear
  <1>5. Networks!WriteIsClear'
    BY <1>2 DEF Networks!ApartInv, Networks!StillClear, Networks!WriteIsClear
  <1>6. Networks!GatewayKeeps'
    BY <1>1 DEF Networks!ApartInv, Networks!StillClear, Networks!GatewayKeeps
  <1>7. QED
    BY <1>3, <1>4, <1>5, <1>6 DEF Networks!ApartInv, Networks!StillClear

-----------------------------------------------------------------------------
\* The word for a request's next step is one of the jobs.
LEMMA NetworksTypeMoves ==
    ASSUME Networks!TypeOK, NEW t \in Pair, NEW j \in Networks!Jobs, Networks!To(t, j), s1' \in [NetNames -> Networks!Nets],
           s4' = Networks!Free \/ \E s \in Pair : s4' = {s}, s8' \in SUBSET NetNames,
           UNCHANGED s3
    PROVE  Networks!TypeOK'
  BY DEF Networks!TypeOK, Networks!To

\* The steps that change no network at all.
LEMMA NetworksStaysPut ==
    ASSUME Networks!ApartInv, NEW t \in Pair, NEW j \in Networks!Jobs, Networks!To(t, j), UNCHANGED <<s1, s8, s3, s7>>,
           Networks!LockFits(t, j), Networks!Ready(j)
    PROVE  Networks!ApartInv'
  <1> DEFINE lock == s4
  <1>1. lock' = Networks!Free \/ \E s \in Pair : lock' = {s}
    BY DEF Networks!ApartInv, Networks!TypeOK, Networks!LockFits, Networks!Free
  <1>2. Networks!TypeOK'
    BY <1>1, NetworksTypeMoves DEF Networks!ApartInv, Networks!TypeOK
  <1>3. Networks!NoneMoves
    BY DEF Networks!NoneMoves
  <1>4. QED
    BY <1>2, <1>3, NetworksMovesOn

LEMMA NetworksAskKeeps ==
    ASSUME Networks!ApartInv, NEW t \in Pair, NEW x \in NetNames, NEW subnet \in Subnets \cup {Networks!AnyBlock},
           \/ \E op \in {"create", "change"} : Networks!Ask(t, op, x, subnet)
           \/ Networks!EnsureBridge(t, x, subnet)
           \/ Networks!Initialize(t, x)
           \/ \E op \in {"lan", "macvlan", "delete"} : Networks!Ask(t, op, x, Networks!AnyBlock)
    PROVE  Networks!ApartInv'
  <1> DEFINE net == s1  apart == s3  lock == s4  late == s7  overwritten == s8
  <1>1. Networks!Idle \in Networks!Jobs
    BY DEF Networks!Jobs, Networks!OtherJobs
  <1>2. \A op \in {"create", "lan", "macvlan", "delete"}, fabric \in BOOLEAN,
           s \in Subnets \cup {Networks!AnyBlock} :
             [at |-> op, x |-> x, subnet |-> s, fabric |-> fabric] \in Networks!Jobs
    BY DEF Networks!Jobs, Networks!AskJobs
  <1>3. subnet # Networks!AnyBlock => \A fabric \in BOOLEAN :
             [at |-> "change", x |-> x, subnet |-> subnet, fabric |-> fabric] \in Networks!Jobs
    BY DEF Networks!Jobs, Networks!ChangeJobs
  <1>4. \A j \in Networks!Jobs :
           Networks!To(t, j) /\ j.at \notin Networks!Holding \cup {"gateway"} /\ UNCHANGED <<net, lock, overwritten, apart, late>>
               => Networks!ApartInv'
    BY NetworksStaysPut DEF Networks!LockFits, Networks!Ready, Networks!Holding
  <1>5. ASSUME NEW op \in {"create", "change", "lan", "macvlan", "delete"},
               NEW s \in Subnets \cup {Networks!AnyBlock}, Networks!Ask(t, op, x, s),
               s \in Subnets \/ op # "change"
        PROVE  Networks!ApartInv'
    <2>1. [at |-> op, x |-> x, subnet |-> s, fabric |-> FALSE] \in Networks!Jobs
      BY <1>5 DEF Networks!Jobs, Networks!AskJobs, Networks!ChangeJobs
    <2>2. QED
      BY <1>4, <1>5, <2>1 DEF Networks!Ask, Networks!Holding
  <1>6. CASE \E op \in {"create", "change"} : Networks!Ask(t, op, x, subnet)
    <2>1. PICK op \in {"create", "change"} : Networks!Ask(t, op, x, subnet)
      BY <1>6
    <2>2. subnet \in Subnets \/ op # "change"
      BY <2>1 DEF Networks!Ask
    <2>3. QED
      BY <1>5, <2>1, <2>2
  <1>7. CASE \E op \in {"lan", "macvlan", "delete"} : Networks!Ask(t, op, x, Networks!AnyBlock)
    BY <1>5, <1>7
  <1>8. CASE Networks!EnsureBridge(t, x, subnet)
    <2>1. CASE Networks!There(x) /\ ~(net[x].kind = "bridge" /\ net[x].fabric)
      BY <1>1, <1>4, <1>8, <2>1 DEF Networks!EnsureBridge, Networks!Idle, Networks!Holding
    <2>2. CASE Networks!There(x) /\ net[x].kind = "bridge" /\ net[x].fabric
      <3> DEFINE j == [at |-> "change", x |-> x, subnet |-> subnet, fabric |-> TRUE]
      <3>1. Networks!To(t, j) /\ subnet # Networks!AnyBlock /\ UNCHANGED <<net, lock, overwritten, apart, late>>
        BY <1>8, <2>2 DEF Networks!EnsureBridge
      <3>2. j \in Networks!Jobs /\ j.at \notin Networks!Holding \cup {"gateway"}
        BY <1>3, <3>1 DEF Networks!Holding
      <3>3. QED
        BY <1>4, <3>1, <3>2
    <2>3. CASE ~Networks!There(x)
      <3> DEFINE j == [at |-> "create", x |-> x, subnet |-> subnet, fabric |-> TRUE]
      <3>1. Networks!To(t, j) /\ UNCHANGED <<net, lock, overwritten, apart, late>>
        BY <1>8, <2>3 DEF Networks!EnsureBridge
      <3>2. j \in Networks!Jobs /\ j.at \notin Networks!Holding \cup {"gateway"}
        BY <1>2 DEF Networks!Holding
      <3>3. QED
        BY <1>4, <3>1, <3>2
    <2>4. QED
      BY <2>1, <2>2, <2>3
  <1>9. CASE Networks!Initialize(t, x)
    <2>1. CASE Networks!To(t, Networks!Idle)
      BY <1>1, <1>4, <1>9, <2>1 DEF Networks!Initialize, Networks!Idle, Networks!Holding
    <2>2. CASE Networks!To(t, [at |-> "init", x |-> x, subnet |-> Networks!AnyBlock, fabric |-> FALSE])
      <3> DEFINE j == [at |-> "init", x |-> x, subnet |-> Networks!AnyBlock, fabric |-> FALSE]
      <3>1. j \in Networks!Jobs /\ j.at \notin Networks!Holding \cup {"gateway"}
        BY DEF Networks!Holding, Networks!Jobs, Networks!InitJobs
      <3>2. UNCHANGED <<net, lock, overwritten, apart, late>>
        BY <1>9 DEF Networks!Initialize
      <3>3. QED
        BY <1>4, <2>2, <3>1, <3>2
    <2>3. QED
      BY <1>9, <2>1, <2>2 DEF Networks!Initialize
  <1>10. QED
    BY <1>6, <1>7, <1>8, <1>9

-----------------------------------------------------------------------------
\* A block that is not in use is clear of every other network.
LEMMA NetworksFreeIsClear ==
    ASSUME Networks!NetAssumption, NEW x \in NetNames, NEW subnet \in Subnets, subnet \notin Networks!InUse(x)
    PROVE  Networks!Clear(x, subnet)
  BY DEF Networks!NetAssumption, Networks!InUse, Networks!Clear, Networks!AnyBlock

LEMMA NetworksCreateReadsKeeps ==
    ASSUME Networks!NetAssumption, Networks!ApartInv, NEW t \in Pair, Networks!CreateReads(t)
    PROVE  Networks!ApartInv'
  <1> DEFINE net == s1  apart == s3  lock == s4  job == s5  late == s7  overwritten == s8
  <1>1. job[t] \in Networks!AskJobs \cup Networks!InitJobs
    BY NetworksJobKinds DEF Networks!CreateReads, Networks!ApartInv, Networks!TypeOK
  <1>2. /\ IF t \in apart THEN lock' = lock ELSE lock = Networks!Free /\ lock' = {t}
        /\ UNCHANGED <<net, overwritten, apart, late>>
    BY DEF Networks!CreateReads, Networks!Takes
  <1>3. CASE Networks!To(t, [at |-> "refused"])
    <2>1. [at |-> "refused"] \in Networks!Jobs
      BY DEF Networks!Jobs, Networks!OtherJobs
    <2>2. Networks!LockFits(t, [at |-> "refused"]) /\ Networks!Ready([at |-> "refused"])
      BY <1>2 DEF Networks!LockFits, Networks!Ready
    <2>3. QED
      BY <1>2, <1>3, <2>1, <2>2, NetworksStaysPut
  <1>4. CASE ~Networks!To(t, [at |-> "refused"])
    <2> DEFINE j == [at |-> "make", x |-> job[t].x, subnet |-> job[t].subnet,
                     fabric |-> job[t].fabric,
                     kind |-> IF job[t].at \in {"create", "init"} THEN "bridge" ELSE job[t].at]
    <2>1. Networks!To(t, j) /\ job[t].at \in {"create", "lan", "macvlan", "init"}
      BY <1>4 DEF Networks!CreateReads
    <2>2. job[t].at = "init" \/ Networks!BlockFree(job[t].x, job[t].subnet)
      BY <1>4 DEF Networks!CreateReads
    <2>3. j \in Networks!Jobs
      BY <1>1, <2>1 DEF Networks!Jobs, Networks!MakeJobs, Networks!AskJobs, Networks!InitJobs
    <2>4. Networks!Ready(j)
      <3>1. SUFFICES ASSUME j.subnet # Networks!AnyBlock PROVE Networks!Clear(j.x, j.subnet)
        BY DEF Networks!Ready
      <3>2. job[t].at # "init"
        BY <1>1, <3>1 DEF Networks!InitJobs, Networks!AskJobs
      <3>3. j.x \in NetNames /\ j.subnet \in Subnets /\ j.subnet \notin Networks!InUse(j.x)
        BY <1>1, <2>2, <3>1, <3>2 DEF Networks!AskJobs, Networks!InitJobs, Networks!BlockFree
      <3>4. QED
        BY <3>3, NetworksFreeIsClear
    <2>5. Networks!LockFits(t, j)
      BY <1>2 DEF Networks!LockFits
    <2>6. QED
      BY <1>2, <2>1, <2>3, <2>4, <2>5, NetworksStaysPut
  <1>5. QED
    BY <1>3, <1>4

\* A name that has its network written anew is clear of the rest, or was written over.
LEMMA NetworksPlacedApart ==
    ASSUME Networks!ApartInv, NEW x \in NetNames, s8 \subseteq s8',
           \A y \in NetNames \ {x} : s1'[y] = s1[y],
           \/ x \in s8'
           \/ s1'[x].kind # "bridge"
           \/ Networks!Clear(x, s1'[x].subnet)
           \/ /\ x \notin s8 /\ s1[x].kind = "bridge"
              /\ s1'[x].subnet = s1[x].subnet
    PROVE  Networks!SubnetsApart'
  <1> DEFINE net == s1  overwritten == s8
  <1>1. Networks!SubnetsApart
    BY DEF Networks!ApartInv
  <1>2. SUFFICES ASSUME NEW z \in NetNames \ overwritten', net'[z].kind = "bridge"
                 PROVE  /\ net'[z].subnet \notin HostSubnets
                        /\ \A y \in NetNames \ (overwritten' \cup {z}) :
                              net'[y].kind = "bridge" => net'[y].subnet # net'[z].subnet
    BY DEF Networks!SubnetsApart
  <1>3. CASE z = x
    BY <1>1, <1>2, <1>3 DEF Networks!Clear, Networks!SubnetsApart
  <1>4. CASE z # x
    <2>1. net'[z] = net[z] /\ z \notin overwritten
      BY <1>4
    <2>2. net'[z].subnet \notin HostSubnets
      BY <1>1, <1>2, <2>1 DEF Networks!SubnetsApart
    <2>3. ASSUME NEW y \in NetNames \ (overwritten' \cup {z}), net'[y].kind = "bridge"
          PROVE  net'[y].subnet # net'[z].subnet
      <3>1. CASE y # x
        BY <1>1, <1>2, <2>1, <2>3, <3>1 DEF Networks!SubnetsApart
      <3>2. CASE y = x
        BY <1>1, <1>2, <1>4, <2>1, <2>3, <3>2 DEF Networks!SubnetsApart, Networks!Clear
      <3>3. QED
        BY <3>1, <3>2
    <2>4. QED
      BY <2>2, <2>3
  <1>5. QED
    BY <1>3, <1>4

LEMMA NetworksMakeKeeps ==
    ASSUME Networks!NetAssumption, Networks!ApartInv, NEW t \in Pair, Networks!Make(t)
    PROVE  Networks!ApartInv'
  <1> DEFINE net == s1  apart == s3  lock == s4  job == s5  late == s7  overwritten == s8
  <1>1. job[t] \in Networks!MakeJobs
    BY NetworksJobKinds DEF Networks!Make, Networks!Works, Networks!ApartInv, Networks!TypeOK
  <1>2. /\ job[t].at = "make" /\ job[t].at \in Networks!Holding
        /\ lock' = lock \ {t} /\ Networks!Passes(t) /\ apart' = apart
    BY DEF Networks!Make, Networks!Works, Networks!Holding
  <1>l. lock' = Networks!Free \/ \E s \in Pair : lock' = {s}
    BY <1>2 DEF Networks!ApartInv, Networks!TypeOK, Networks!Free
  <1> DEFINE x == job[t].x
  <1>3. x \in NetNames
    BY <1>1 DEF Networks!MakeJobs
  <1>4. PICK j \in Networks!Jobs : Networks!To(t, j) /\ j.at \notin Networks!Holding \cup {"gateway"}
    <2>1. [at |-> "firewall"] \in Networks!Jobs /\ Networks!Idle \in Networks!Jobs /\ [at |-> "offer", x |-> x] \in Networks!Jobs
      BY <1>3 DEF Networks!Jobs, Networks!OtherJobs, Networks!OfferJobs
    <2>2. \/ Networks!To(t, Networks!Idle) \/ Networks!To(t, [at |-> "firewall"]) \/ Networks!To(t, [at |-> "offer", x |-> x])
      BY DEF Networks!Make, Networks!Ends
    <2>3. QED
      BY <2>1, <2>2 DEF Networks!Idle, Networks!Holding
  <1>5. CASE UNCHANGED <<net, overwritten>>
    <2>1. Networks!TypeOK'
      BY <1>2, <1>l, <1>4, <1>5, NetworksTypeMoves DEF Networks!ApartInv, Networks!TypeOK
    <2>2. Networks!SubnetsApart'
      BY <1>5 DEF Networks!ApartInv, Networks!SubnetsApart
    <2>3. QED
      BY <1>2, <1>4, <2>1, <2>2, NetworksLeaves
  <1>6. CASE job[t].kind # "bridge" /\ overwritten' = overwritten /\ net' = [net EXCEPT ![x] = Networks!Lan(job[t].kind)]
    <2>1. Networks!Lan(job[t].kind) \in Networks!Nets /\ Networks!Lan(job[t].kind).kind # "bridge"
      BY <1>1, <1>6 DEF Networks!MakeJobs, Networks!Lan, Networks!Nets
    <2>2. /\ net' \in [NetNames -> Networks!Nets] /\ net'[x].kind # "bridge"
          /\ \A y \in NetNames \ {x} : net'[y] = net[y]
      BY <1>3, <1>6, <2>1 DEF Networks!ApartInv, Networks!TypeOK
    <2>3. Networks!SubnetsApart'
      BY <1>3, <1>6, <2>2, NetworksPlacedApart
    <2>4. Networks!TypeOK'
      BY <1>2, <1>l, <1>4, <1>6, <2>2, NetworksTypeMoves DEF Networks!ApartInv, Networks!TypeOK
    <2>5. QED
      BY <1>2, <1>4, <2>3, <2>4, NetworksLeaves
  <1>7. ASSUME NEW subnet \in IF job[t].subnet = Networks!AnyBlock THEN Subnets \ Networks!InUse(x)
                              ELSE {job[t].subnet},
               job[t].kind = "bridge", net' = [net EXCEPT ![x] = Networks!Bridge(subnet, job[t].fabric)],
               overwritten' = IF t \in late /\ job[t].subnet # Networks!AnyBlock
                              THEN overwritten \cup {x} ELSE overwritten
        PROVE  Networks!ApartInv'
    <2>1. subnet \in Subnets /\ (Networks!Clear(x, subnet) \/ x \in overwritten')
      <3>1. CASE job[t].subnet = Networks!AnyBlock
        BY <1>3, <1>7, <3>1, NetworksFreeIsClear
      <3>2. CASE job[t].subnet # Networks!AnyBlock
        BY <1>1, <1>2, <1>7, <3>2 DEF Networks!ApartInv, Networks!StillClear, Networks!MakeIsClear, Networks!MakeJobs
      <3>3. QED
        BY <3>1, <3>2
    <2>2. Networks!Bridge(subnet, job[t].fabric) \in Networks!Nets /\ Networks!Bridge(subnet, job[t].fabric).subnet = subnet
      BY <1>1, <2>1 DEF Networks!MakeJobs, Networks!Bridge, Networks!Nets
    <2>3. /\ net' \in [NetNames -> Networks!Nets] /\ net'[x].subnet = subnet
          /\ \A y \in NetNames \ {x} : net'[y] = net[y]
      BY <1>3, <1>7, <2>2 DEF Networks!ApartInv, Networks!TypeOK
    <2>4. Networks!SubnetsApart'
      BY <1>3, <1>7, <2>1, <2>3, NetworksPlacedApart
    <2>o. overwritten' \in SUBSET NetNames
      BY <1>3, <1>7 DEF Networks!ApartInv, Networks!TypeOK
    <2>5. Networks!TypeOK'
      BY <1>2, <1>l, <1>4, <2>o, <2>3, NetworksTypeMoves DEF Networks!ApartInv, Networks!TypeOK
    <2>6. QED
      BY <1>2, <1>4, <2>4, <2>5, NetworksLeaves
  <1>8. QED
    BY <1>5, <1>6, <1>7 DEF Networks!Make

LEMMA NetworksChangeReadsKeeps ==
    ASSUME Networks!NetAssumption, Networks!ApartInv, NEW t \in Pair, Networks!ChangeReads(t)
    PROVE  Networks!ApartInv'
  <1> DEFINE net == s1  apart == s3  lock == s4  job == s5  late == s7  overwritten == s8
  <1>1. job[t] \in Networks!ChangeJobs
    BY NetworksJobKinds DEF Networks!ChangeReads, Networks!Works, Networks!ApartInv, Networks!TypeOK
  <1>2. /\ IF t \in apart THEN lock' = lock ELSE lock = Networks!Free /\ lock' = {t}
        /\ UNCHANGED <<net, overwritten, apart, late>>
    BY DEF Networks!ChangeReads, Networks!Takes
  <1>3. CASE Networks!To(t, [at |-> "refused"])
    <2>1. [at |-> "refused"] \in Networks!Jobs
      BY DEF Networks!Jobs, Networks!OtherJobs
    <2>2. Networks!LockFits(t, [at |-> "refused"]) /\ Networks!Ready([at |-> "refused"])
      BY <1>2 DEF Networks!LockFits, Networks!Ready
    <2>3. QED
      BY <1>2, <1>3, <2>1, <2>2, NetworksStaysPut
  <1>4. CASE ~Networks!To(t, [at |-> "refused"])
    <2> DEFINE x == job[t].x
               now == net[x]
               value == [now EXCEPT !.subnet = job[t].subnet]
               j == [at |-> "write", x |-> x, fabric |-> job[t].fabric, was |-> now,
                     value |-> value]
    <2>1. /\ Networks!To(t, j) /\ now.kind = "bridge"
          /\ job[t].subnet = now.subnet \/ Networks!BlockFree(x, job[t].subnet)
      BY <1>4 DEF Networks!ChangeReads
    <2>2. x \in NetNames /\ job[t].subnet \in Subnets /\ job[t].fabric \in BOOLEAN
      BY <1>1 DEF Networks!ChangeJobs
    <2>3. now \in [kind : {"bridge"}, subnet : Subnets, fabric : BOOLEAN] /\ now \in Networks!Nets
      BY <2>1, <2>2, NetworksNetKinds DEF Networks!ApartInv
    <2>4. /\ value \in Networks!Nets /\ value.kind = "bridge" /\ value.subnet = job[t].subnet
      <3>1. value = [kind |-> "bridge", subnet |-> job[t].subnet, fabric |-> now.fabric]
        BY <2>3
      <3>2. QED
        BY <2>2, <2>3, <3>1 DEF Networks!Nets
    <2>5. j \in Networks!Jobs
      BY <2>2, <2>3, <2>4 DEF Networks!Jobs, Networks!WriteJobs
    <2>6. value.subnet = now.subnet \/ Networks!Clear(x, value.subnet)
      BY <2>1, <2>2, <2>4, NetworksFreeIsClear DEF Networks!BlockFree, Networks!NetAssumption, Networks!AnyBlock
    <2>7. Networks!Ready(j) /\ Networks!LockFits(t, j)
      BY <1>2, <2>1, <2>4, <2>6 DEF Networks!Ready, Networks!LockFits
    <2>8. QED
      BY <1>2, <2>1, <2>5, <2>7, NetworksStaysPut
  <1>5. QED
    BY <1>3, <1>4

-----------------------------------------------------------------------------
\* What the daemon makes of settings: those of a bridge that is there.
LEMMA NetworksPutFacts ==
    ASSUME Networks!TypeOK, NEW j, j.x \in NetNames, j.value \in Networks!Nets, j.value.kind = "bridge",
           NEW crossed \in BOOLEAN, Networks!Put(j, crossed)
    PROVE  /\ s1' \in [NetNames -> Networks!Nets] /\ s8' \in SUBSET NetNames
           /\ s8 \subseteq s8'
           /\ \A y \in NetNames \ {j.x} : s1'[y] = s1[y]
           /\ \/ UNCHANGED <<s1, s8>>
              \/ /\ s1[j.x].kind = "bridge" /\ s1'[j.x].kind = "bridge"
                 /\ s1'[j.x].subnet = j.value.subnet
                 /\ (s1[j.x] = j.was /\ ~crossed) \/ j.x \in s8'
  <1> DEFINE net == s1  overwritten == s8
  <1>1. CASE net[j.x].kind # "bridge"
    BY <1>1 DEF Networks!Put, Networks!TypeOK
  <1>2. CASE net[j.x].kind = "bridge"
    <2> DEFINE v == [j.value EXCEPT !.fabric = net[j.x].fabric]
    <2>1. /\ net' = [net EXCEPT ![j.x] = v]
          /\ overwritten' = overwritten \cup (IF net[j.x] # j.was \/ crossed THEN {j.x} ELSE {})
      BY <1>2 DEF Networks!Put
    <2>2. net[j.x] \in [kind : {"bridge"}, subnet : Subnets, fabric : BOOLEAN]
      BY <1>2, NetworksNetKinds
    <2>3. j.value \in [kind : {"bridge"}, subnet : Subnets, fabric : BOOLEAN]
      <3>1. CASE j.value = Networks!NoNet
        BY <3>1 DEF Networks!NoNet
      <3>2. CASE j.value \in [kind : {"lan", "macvlan"}, subnet : {Networks!AnyBlock}, fabric : {FALSE}]
        BY <3>2
      <3>3. QED
        BY <3>1, <3>2 DEF Networks!Nets
    <2>4. v = [kind |-> "bridge", subnet |-> j.value.subnet, fabric |-> net[j.x].fabric]
      BY <2>3
    <2>5. v \in Networks!Nets /\ v.kind = "bridge" /\ v.subnet = j.value.subnet
      BY <2>2, <2>3, <2>4 DEF Networks!Nets
    <2>6. /\ net' \in [NetNames -> Networks!Nets] /\ net'[j.x] = v
          /\ \A y \in NetNames \ {j.x} : net'[y] = net[y]
      BY <2>1, <2>5 DEF Networks!TypeOK
    <2>7. /\ overwritten' \in SUBSET NetNames /\ overwritten \subseteq overwritten'
          /\ (net[j.x] = j.was /\ ~crossed) \/ j.x \in overwritten'
      BY <2>1 DEF Networks!TypeOK
    <2>8. QED
      BY <1>2, <2>5, <2>6, <2>7
  <1>3. QED
    BY <1>1, <1>2

LEMMA NetworksWriteKeeps ==
    ASSUME Networks!ApartInv, NEW t \in Pair, Networks!Write(t)
    PROVE  Networks!ApartInv'
  <1> DEFINE net == s1  apart == s3  lock == s4  job == s5  late == s7  overwritten == s8
  <1>1. job[t] \in Networks!WriteJobs
    BY NetworksJobKinds DEF Networks!Write, Networks!Works, Networks!ApartInv, Networks!TypeOK
  <1> DEFINE x == job[t].x
             crossed == t \in late /\ job[t].value.subnet # job[t].was.subnet
  <1>2. /\ job[t].at = "write" /\ job[t].at \in Networks!Holding /\ lock' = lock \ {t}
        /\ Networks!Put(job[t], crossed) /\ Networks!Passes(t) /\ apart' = apart
    BY DEF Networks!Write, Networks!Works, Networks!Holding
  <1>l. lock' = Networks!Free \/ \E s \in Pair : lock' = {s}
    BY <1>2 DEF Networks!ApartInv, Networks!TypeOK, Networks!Free
  <1>3. x \in NetNames /\ job[t].value \in Networks!Nets
    BY <1>1 DEF Networks!WriteJobs
  <1>4. /\ job[t].value.kind = "bridge" /\ job[t].was.kind = "bridge"
        /\ crossed \/ job[t].value.subnet = job[t].was.subnet \/ Networks!Clear(x, job[t].value.subnet)
    BY <1>2 DEF Networks!ApartInv, Networks!StillClear, Networks!WriteIsClear
  <1>5. /\ net' \in [NetNames -> Networks!Nets] /\ overwritten' \in SUBSET NetNames
        /\ overwritten \subseteq overwritten'
        /\ \A y \in NetNames \ {x} : net'[y] = net[y]
        /\ \/ UNCHANGED <<net, overwritten>>
           \/ /\ net[x].kind = "bridge" /\ net'[x].kind = "bridge"
              /\ net'[x].subnet = job[t].value.subnet
              /\ (net[x] = job[t].was /\ ~crossed) \/ x \in overwritten'
    <2>1. crossed \in BOOLEAN
      OBVIOUS
    <2> HIDE DEF crossed
    <2>2. QED
      BY <1>2, <1>3, <1>4, <2>1, NetworksPutFacts DEF Networks!ApartInv
  <1>6. PICK j \in Networks!Jobs : Networks!To(t, j) /\ j.at \notin Networks!Holding \cup {"gateway"}
    <2>1. Networks!Idle \in Networks!Jobs /\ [at |-> "offer", x |-> x] \in Networks!Jobs
      BY <1>3 DEF Networks!Jobs, Networks!OtherJobs, Networks!OfferJobs
    <2>2. Networks!To(t, Networks!Idle) \/ Networks!To(t, [at |-> "offer", x |-> x])
      BY DEF Networks!Write
    <2>3. QED
      BY <2>1, <2>2 DEF Networks!Idle, Networks!Holding
  <1>7. Networks!TypeOK'
    BY <1>2, <1>l, <1>5, <1>6, NetworksTypeMoves DEF Networks!ApartInv
  <1>8. CASE UNCHANGED <<net, overwritten>>
    <2>1. Networks!SubnetsApart'
      BY <1>8 DEF Networks!ApartInv, Networks!SubnetsApart
    <2>2. QED
      BY <1>2, <1>6, <1>7, <2>1, NetworksLeaves
  <1>9. CASE ~UNCHANGED <<net, overwritten>>
    <2>1. \/ x \in overwritten'
          \/ Networks!Clear(x, net'[x].subnet)
          \/ x \notin overwritten /\ net[x].kind = "bridge" /\ net'[x].subnet = net[x].subnet
      <3>1. CASE Networks!Clear(x, job[t].value.subnet)
        BY <1>5, <1>9, <3>1 DEF Networks!Clear
      <3>2. CASE job[t].value.subnet = job[t].was.subnet
        BY <1>5, <1>9, <3>2
      <3>3. CASE crossed
        BY <1>5, <1>9, <3>3
      <3>4. QED
        BY <1>4, <3>1, <3>2, <3>3
    <2>2. Networks!SubnetsApart'
      BY <1>3, <1>5, <2>1, NetworksPlacedApart
    <2>3. QED
      BY <1>2, <1>6, <1>7, <2>2, NetworksLeaves
  <1>10. QED
    BY <1>8, <1>9

LEMMA NetworksOfferKeeps ==
    ASSUME Networks!ApartInv, NEW t \in Pair, Networks!Offer(t)
    PROVE  Networks!ApartInv'
  <1> DEFINE net == s1  apart == s3  lock == s4  job == s5  late == s7  overwritten == s8
  <1>1. job[t] \in Networks!GatewayJobs
    BY NetworksJobKinds DEF Networks!Offer, Networks!Works, Networks!ApartInv, Networks!TypeOK
  <1>2. Networks!Put(job[t], FALSE) /\ Networks!To(t, Networks!Idle) /\ UNCHANGED <<lock, apart, late>>
    BY DEF Networks!Offer, Networks!Ends
  <1> DEFINE x == job[t].x
  <1>3. /\ x \in NetNames /\ job[t].value \in Networks!Nets
        /\ job[t].value = job[t].was /\ job[t].was.kind = "bridge"
    BY <1>1 DEF Networks!GatewayJobs, Networks!Offer, Networks!Works, Networks!ApartInv, Networks!StillClear, Networks!GatewayKeeps
  <1>4. /\ net' \in [NetNames -> Networks!Nets] /\ overwritten' \in SUBSET NetNames
        /\ overwritten \subseteq overwritten'
        /\ \A y \in NetNames \ {x} : net'[y] = net[y]
        /\ \/ UNCHANGED <<net, overwritten>>
           \/ /\ net[x].kind = "bridge" /\ net'[x].kind = "bridge"
              /\ net'[x].subnet = job[t].value.subnet
              /\ net[x] = job[t].was \/ x \in overwritten'
    BY <1>2, <1>3, NetworksPutFacts DEF Networks!ApartInv
  <1>5. Networks!NoneMoves
    BY <1>3, <1>4 DEF Networks!NoneMoves
  <1>6. Networks!Idle \in Networks!Jobs /\ Networks!LockFits(t, Networks!Idle) /\ Networks!Ready(Networks!Idle)
    BY <1>2 DEF Networks!Jobs, Networks!OtherJobs, Networks!LockFits, Networks!Ready, Networks!Idle, Networks!Holding
  <1>7. Networks!TypeOK'
    BY <1>2, <1>4, <1>6, NetworksTypeMoves DEF Networks!ApartInv, Networks!TypeOK
  <1>8. QED
    BY <1>2, <1>5, <1>6, <1>7, NetworksMovesOn

LEMMA NetworksDestroyKeeps ==
    ASSUME Networks!ApartInv, NEW t \in Pair, Networks!Destroy(t)
    PROVE  Networks!ApartInv'
  <1> DEFINE net == s1  apart == s3  lock == s4  job == s5  late == s7  overwritten == s8
  <1> DEFINE x == job[t].x
  <1>1. x \in NetNames
    BY NetworksJobKinds DEF Networks!Destroy, Networks!Works, Networks!ApartInv, Networks!TypeOK, Networks!DestroyJobs
  <1>2. /\ net' \in [NetNames -> Networks!Nets] /\ overwritten' \in SUBSET NetNames /\ UNCHANGED <<lock, apart, late>>
        /\ \/ UNCHANGED <<net, overwritten>>
           \/ net' = [net EXCEPT ![x] = Networks!NoNet] /\ overwritten' = overwritten \ {x}
    BY DEF Networks!Destroy, Networks!ApartInv, Networks!TypeOK, Networks!Nets
  <1>3. Networks!NoneMoves
    BY <1>1, <1>2 DEF Networks!NoneMoves, Networks!ApartInv, Networks!TypeOK, Networks!NoNet
  <1>4. PICK j \in Networks!Jobs : Networks!To(t, j) /\ j.at \notin Networks!Holding \cup {"gateway"}
    <2>1. Networks!Idle \in Networks!Jobs /\ [at |-> "firewall"] \in Networks!Jobs
      BY DEF Networks!Jobs, Networks!OtherJobs
    <2>2. Networks!To(t, Networks!Idle) \/ Networks!To(t, [at |-> "firewall"])
      BY DEF Networks!Destroy
    <2>3. QED
      BY <2>1, <2>2 DEF Networks!Idle, Networks!Holding
  <1>5. Networks!TypeOK'
    BY <1>2, <1>4, NetworksTypeMoves DEF Networks!ApartInv, Networks!TypeOK
  <1>6. Networks!LockFits(t, j) /\ Networks!Ready(j)
    BY <1>2, <1>4 DEF Networks!LockFits, Networks!Ready, Networks!Holding
  <1>7. QED
    BY <1>2, <1>3, <1>4, <1>5, <1>6, NetworksMovesOn

-----------------------------------------------------------------------------
\* Every other step reads, lets go of the lock, or concerns what is not bridges' blocks.
LEMMA NetworksOthersKeep ==
    ASSUME Networks!ApartInv, NEW t \in Pair,
           \/ Networks!Refused(t) \/ Networks!OfferReads(t) \/ Networks!DeleteReads(t)
           \/ Networks!FirewallReads(t) \/ Networks!Rules(t) \/ Networks!Round(t)
    PROVE  Networks!ApartInv'
  <1> DEFINE net == s1  apart == s3  lock == s4  job == s5  late == s7  overwritten == s8
  <1>1. Networks!Idle \in Networks!Jobs /\ [at |-> "firewall"] \in Networks!Jobs /\ [at |-> "rules", bridges |-> Networks!LanBridges] \in Networks!Jobs
    BY DEF Networks!Jobs, Networks!OtherJobs, Networks!LanBridges
  <1>2. \A j \in Networks!Jobs :
           Networks!To(t, j) /\ j.at \notin Networks!Holding \cup {"gateway"} /\ UNCHANGED <<net, lock, overwritten, apart, late>>
               => Networks!ApartInv'
    BY NetworksStaysPut DEF Networks!LockFits, Networks!Ready, Networks!Holding
  <1>3. CASE Networks!Refused(t)
    <2>1. lock = {t} \/ t \in apart
      BY <1>3 DEF Networks!Refused, Networks!Works, Networks!ApartInv, Networks!HoldsTheLock, Networks!Holding
    <2>3. lock' = lock \/ lock = {t}
      BY <1>3, <2>1 DEF Networks!Refused, Networks!ApartInv, Networks!TypeOK, Networks!Free
    <2>2. Networks!LockFits(t, Networks!Idle) /\ Networks!Ready(Networks!Idle)
      BY <1>3, <2>3 DEF Networks!Refused, Networks!LockFits, Networks!Ready, Networks!Idle, Networks!Holding
    <2>4. QED
      BY <1>1, <1>3, <2>2, NetworksStaysPut DEF Networks!Refused, Networks!Ends
  <1>4. CASE Networks!OfferReads(t)
    <2>1. CASE Networks!To(t, Networks!Idle)
      BY <1>1, <1>2, <1>4, <2>1 DEF Networks!OfferReads, Networks!Idle, Networks!Holding
    <2>2. CASE ~Networks!To(t, Networks!Idle)
      <3> DEFINE x == job[t].x
                 j == [at |-> "gateway", x |-> x, was |-> net[x], value |-> net[x]]
      <3>1. /\ Networks!To(t, j) /\ net[x].kind = "bridge" /\ job[t].at = "offer"
            /\ UNCHANGED <<net, lock, overwritten, apart, late>>
        BY <1>4, <2>2 DEF Networks!OfferReads, Networks!Ends, Networks!Works
      <3>2. x \in NetNames
        BY <3>1, NetworksJobKinds DEF Networks!ApartInv, Networks!TypeOK, Networks!OfferJobs
      <3>3. j \in Networks!Jobs
        BY <3>2, NetworksNetKinds DEF Networks!Jobs, Networks!GatewayJobs, Networks!ApartInv
      <3>4. Networks!LockFits(t, j) /\ Networks!Ready(j)
        BY <3>1 DEF Networks!LockFits, Networks!Ready, Networks!Holding
      <3>5. QED
        BY <3>1, <3>3, <3>4, NetworksStaysPut
    <2>3. QED
      BY <2>1, <2>2
  <1>5. CASE Networks!DeleteReads(t)
    <2> DEFINE x == job[t].x
               j == [at |-> "destroy", x |-> x, kind |-> net[x].kind]
    <2>1. x \in NetNames
      BY <1>5, NetworksJobKinds DEF Networks!DeleteReads, Networks!Works, Networks!ApartInv, Networks!TypeOK, Networks!AskJobs
    <2>2. j \in Networks!Jobs /\ j.at \notin Networks!Holding \cup {"gateway"}
      BY <2>1, NetworksNetKinds DEF Networks!Jobs, Networks!DestroyJobs, Networks!ApartInv, Networks!Holding
    <2>3. (Networks!To(t, Networks!Idle) \/ Networks!To(t, j)) /\ UNCHANGED <<net, lock, overwritten, apart, late>>
      BY <1>5 DEF Networks!DeleteReads
    <2>4. QED
      BY <1>1, <1>2, <2>2, <2>3 DEF Networks!Idle, Networks!Holding
  <1>6. CASE Networks!FirewallReads(t)
    BY <1>1, <1>2, <1>6 DEF Networks!FirewallReads, Networks!Holding
  <1>7. CASE Networks!Rules(t)
    BY <1>1, <1>2, <1>7 DEF Networks!Rules, Networks!Ends, Networks!Idle, Networks!Holding
  <1>8. CASE Networks!Round(t)
    BY <1>1, <1>2, <1>8 DEF Networks!Round, Networks!Holding
  <1>9. QED
    BY <1>3, <1>4, <1>5, <1>6, <1>7, <1>8

LEMMA NetworksStutterKeeps ==
    ASSUME Networks!ApartInv, UNCHANGED <<s1, s4, s5, s8, s3, s7>>
    PROVE  Networks!ApartInv'
  <1>1. Networks!TypeOK'
    BY DEF Networks!ApartInv, Networks!TypeOK
  <1>2. Networks!HoldsTheLock' /\ Networks!SubnetsApart'
    BY DEF Networks!ApartInv, Networks!HoldsTheLock, Networks!SubnetsApart
  <1>3. Networks!StillClear'
    BY DEF Networks!ApartInv, Networks!StillClear, Networks!MakeIsClear, Networks!WriteIsClear, Networks!GatewayKeeps, Networks!Clear
  <1>4. QED
    BY <1>1, <1>2, <1>3 DEF Networks!ApartInv

\* The steps together.
LEMMA NetworksApartStep ==
    ASSUME Networks!NetAssumption, Networks!ApartInv, [Networks!Next]_(Networks!netVars)
    PROVE  Networks!ApartInv'
  <1>1. CASE \E t \in Pair, x \in NetNames, subnet \in Subnets \cup {Networks!AnyBlock} :
               \/ \E op \in {"create", "change"} : Networks!Ask(t, op, x, subnet)
               \/ Networks!EnsureBridge(t, x, subnet)
    BY <1>1, NetworksAskKeeps
  <1>2. CASE \E t \in Pair, x \in NetNames :
               \/ Networks!Initialize(t, x)
               \/ \E op \in {"lan", "macvlan", "delete"} : Networks!Ask(t, op, x, Networks!AnyBlock)
    BY <1>2, NetworksAskKeeps
  <1>3. CASE \E t \in Pair :
               \/ Networks!CreateReads(t) \/ Networks!Make(t) \/ Networks!ChangeReads(t) \/ Networks!Write(t) \/ Networks!Refused(t)
               \/ Networks!OfferReads(t) \/ Networks!Offer(t) \/ Networks!DeleteReads(t) \/ Networks!Destroy(t)
               \/ Networks!FirewallReads(t) \/ Networks!Rules(t) \/ Networks!Round(t)
    BY <1>3, NetworksCreateReadsKeeps, NetworksMakeKeeps, NetworksChangeReadsKeeps, NetworksWriteKeeps, NetworksOfferKeeps,
       NetworksDestroyKeeps, NetworksOthersKeep
  <1>4. CASE \E x \in NetNames : Networks!Attach(x)
    BY <1>4, NetworksStutterKeeps DEF Networks!Attach
  <1>5. CASE Networks!DockerRestarts
    BY <1>5, NetworksStutterKeeps DEF Networks!DockerRestarts
  <1>6. CASE UNCHANGED Networks!netVars
    BY <1>6, NetworksStutterKeeps DEF Networks!netVars
  <1>7. QED
    BY <1>1, <1>2, <1>3, <1>4, <1>5, <1>6 DEF Networks!Next

-----------------------------------------------------------------------------
(* Applying the settings, and serve coming and going.                        *)
LEMMA LifeInit == Life!Init => Life!LifeInv
  <1> DEFINE files == s1  serves == s3
  <1> SUFFICES ASSUME Life!Init PROVE Life!LifeInv
    OBVIOUS
  <1>1. Life!TypeOK /\ Life!AddressLast(files) /\ Life!AddressLast(serves)
    BY DEF Life!Init, Life!TypeOK, Life!Files, Life!Work, Life!AddressLast
  <1>2. Life!SetupFits
    BY DEF Life!Init, Life!SetupFits
  <1>3. Life!TornDown /\ Life!EndedProperly
    BY DEF Life!Init, Life!TornDown, Life!EndedProperly, Life!NoWork
  <1>4. QED
    BY <1>1, <1>2, <1>3 DEF Life!LifeInv

\* One file after another is saved or removed: the address is the last there is.
LEMMA LifeSetupStepKeeps == ASSUME Life!LifeInv, Life!SetupStep PROVE Life!LifeInv'
  <1> DEFINE files == s1  serves == s3  at == s4  setup == s6  work == s7
  <1> USE DEF Life!LifeInv
  <1>1. UNCHANGED <<serves, at, work>> /\ setup # Life!NoSetup /\ setup' = [setup EXCEPT !.left = Tail(@)]
    BY DEF Life!SetupStep
  <1>2. Life!TornDown' /\ Life!EndedProperly' /\ Life!AddressLast(serves)'
    BY <1>1 DEF Life!TornDown, Life!EndedProperly, Life!AddressLast
  <1>3. ASSUME setup.does = "apply", Life!Applying PROVE Life!TypeOK' /\ Life!AddressLast(files)' /\ Life!SetupFits'
    <2>1. files' = files \cup {Head(setup.left)} /\ setup.left # <<>>
      BY <1>3 DEF Life!SetupStep
    <2>2. CASE setup.left = Life!ApplySteps
      <3>1. Head(setup.left) = "admin" /\ Tail(setup.left) = <<"certificate", "login", "address">>
        BY <2>2 DEF Life!ApplySteps
      <3>2. QED
        BY <1>1, <1>3, <2>1, <3>1 DEF Life!TypeOK, Life!Files, Life!AddressLast, Life!SetupFits, Life!Applying
    <2>3. CASE setup.left = <<"certificate", "login", "address">> /\ "admin" \in files
      <3>1. Head(setup.left) = "certificate" /\ Tail(setup.left) = <<"login", "address">>
        BY <2>3
      <3>2. QED
        BY <1>1, <1>3, <2>1, <2>3, <3>1 DEF Life!TypeOK, Life!Files, Life!AddressLast, Life!SetupFits, Life!Applying
    <2>4. CASE setup.left = <<"login", "address">> /\ {"admin", "certificate"} \subseteq files
      <3>1. Head(setup.left) = "login" /\ Tail(setup.left) = <<"address">>
        BY <2>4
      <3>2. QED
        BY <1>1, <1>3, <2>1, <2>4, <3>1 DEF Life!TypeOK, Life!Files, Life!AddressLast, Life!SetupFits, Life!Applying
    <2>5. CASE setup.left = <<"address">> /\ {"admin", "certificate", "login"} \subseteq files
      <3>1. Head(setup.left) = "address" /\ Tail(setup.left) = <<>>
        BY <2>5
      <3>2. QED
        BY <1>1, <1>3, <2>1, <2>5, <3>1 DEF Life!TypeOK, Life!Files, Life!AddressLast, Life!SetupFits, Life!Applying
    <2>6. QED
      BY <1>3, <2>1, <2>2, <2>3, <2>4, <2>5 DEF Life!Applying
  <1>4. ASSUME setup.does = "reset", Life!Resetting PROVE Life!TypeOK' /\ Life!AddressLast(files)' /\ Life!SetupFits'
    <2>1. files' = files \ {Head(setup.left)} /\ setup.left # <<>>
      BY <1>4 DEF Life!SetupStep
    <2>2. CASE setup.left = Life!ResetSteps
      <3>1. Head(setup.left) = "address" /\ Tail(setup.left) = <<"login", "certificate">>
        BY <2>2 DEF Life!ResetSteps
      <3>2. QED
        BY <1>1, <1>4, <2>1, <3>1 DEF Life!TypeOK, Life!Files, Life!AddressLast, Life!SetupFits, Life!Resetting
    <2>3. CASE setup.left = <<"login", "certificate">> /\ "address" \notin files
      <3>1. Tail(setup.left) = <<"certificate">>
        BY <2>3
      <3>2. QED
        BY <1>1, <1>4, <2>1, <2>3, <3>1 DEF Life!TypeOK, Life!Files, Life!AddressLast, Life!SetupFits, Life!Resetting
    <2>4. CASE setup.left = <<"certificate">> /\ "address" \notin files
      <3>1. Tail(setup.left) = <<>>
        BY <2>4
      <3>2. QED
        BY <1>1, <1>4, <2>1, <2>4, <3>1 DEF Life!TypeOK, Life!Files, Life!AddressLast, Life!SetupFits, Life!Resetting
    <2>5. QED
      BY <1>4, <2>1, <2>2, <2>3, <2>4 DEF Life!Resetting
  <1>5. QED
    BY <1>1, <1>2, <1>3, <1>4 DEF Life!SetupFits

\* What the configuring is about stays as it is.
LEMMA LifeFilesStand ==
    ASSUME Life!LifeInv, UNCHANGED <<s1, s6>>, s3' \in {s3, s1}
    PROVE  s1' \subseteq Life!Files /\ s3' \subseteq Life!Files /\ Life!AddressLast(s1)' /\ Life!AddressLast(s3)'
           /\ Life!SetupFits'
  BY DEF Life!LifeInv, Life!TypeOK, Life!AddressLast, Life!SetupFits, Life!Applying, Life!Resetting

LEMMA LifeConfigureKeeps == ASSUME Life!LifeInv, NEW by, Life!Configure(by) PROVE Life!LifeInv'
  <1> DEFINE files == s1  serves == s3  at == s4  setup == s6  work == s7
  <1>1. UNCHANGED <<files, serves, at, work>>
    BY DEF Life!Configure
  <1>2. Life!TypeOK' /\ Life!AddressLast(files)' /\ Life!AddressLast(serves)' /\ Life!TornDown' /\ Life!EndedProperly'
    BY <1>1 DEF Life!LifeInv, Life!TypeOK, Life!AddressLast, Life!TornDown, Life!EndedProperly
  <1>3. PICK given \in BOOLEAN :
           /\ given \/ "admin" \in files
           /\ setup' = [at |-> by, does |-> "apply",
                         left |-> IF given THEN Life!ApplySteps ELSE Tail(Life!ApplySteps)]
    BY DEF Life!Configure
  <1>4. Tail(Life!ApplySteps) = <<"certificate", "login", "address">>
    BY DEF Life!ApplySteps
  <1>5. Life!SetupFits'
    BY <1>1, <1>3, <1>4 DEF Life!SetupFits, Life!Applying
  <1>6. QED
    BY <1>2, <1>5 DEF Life!LifeInv

LEMMA LifeOtherSetupKeeps ==
    ASSUME Life!LifeInv, Life!Reset \/ Life!SetupFails \/ Life!SetupEnds \/ Life!JoinsOrLeaves
    PROVE  Life!LifeInv'
  <1> DEFINE files == s1  serves == s3  at == s4  setup == s6  work == s7
  <1>1. UNCHANGED <<files, serves, at, work>>
    BY DEF Life!Reset, Life!SetupFails, Life!SetupEnds, Life!JoinsOrLeaves
  <1>2. Life!TypeOK' /\ Life!AddressLast(files)' /\ Life!AddressLast(serves)' /\ Life!TornDown' /\ Life!EndedProperly'
    BY <1>1 DEF Life!LifeInv, Life!TypeOK, Life!AddressLast, Life!TornDown, Life!EndedProperly
  <1>3. setup' \in {setup, Life!NoSetup} \/ setup' = [at |-> "cli", does |-> "reset", left |-> Life!ResetSteps]
    BY DEF Life!Reset, Life!SetupFails, Life!SetupEnds, Life!JoinsOrLeaves
  <1>4. Life!SetupFits'
    BY <1>1, <1>3 DEF Life!LifeInv, Life!SetupFits, Life!Applying, Life!Resetting
  <1>5. QED
    BY <1>2, <1>4 DEF Life!LifeInv

\* Work begins and ends.
LEMMA LifeWorkKeeps ==
    ASSUME Life!LifeInv, NEW w \in Life!Pieces, Life!WorkEnds(w) \/ (\E kind \in Life!Kinds : Life!Begin(w, kind))
    PROVE  Life!LifeInv'
  <1> DEFINE files == s1  serves == s3  at == s4  setup == s6  work == s7
  <1>1. UNCHANGED <<files, serves, setup, at>> /\ at # "down"
    BY DEF Life!WorkEnds, Life!Begin, Life!Alive
  <1>2. PICK new :
           /\ work' = [work EXCEPT ![w] = new]
           /\ \/ new = [at |-> "done"]
              \/ \E kind \in Life!Kinds : new = [at |-> "goes", kind |-> kind, late |-> at # "serving"]
    BY DEF Life!WorkEnds, Life!Begin
  <1>3. new \in Life!Work /\ work \in [Life!Pieces -> Life!Work] /\ (new.at = "goes" /\ at \in {"tasks", "gone"} => new.late)
    <2>1. CASE new = [at |-> "done"]
      BY <2>1 DEF Life!Work, Life!LifeInv, Life!TypeOK
    <2>2. ASSUME NEW kind \in Life!Kinds, new = [at |-> "goes", kind |-> kind, late |-> at # "serving"]
          PROVE  new \in Life!Work /\ (at \in {"tasks", "gone"} => new.late)
      <3>1. (at # "serving") \in BOOLEAN
        OBVIOUS
      <3>2. new \in Life!Work
        BY <2>2, <3>1 DEF Life!Work
      <3>3. at \in {"tasks", "gone"} => new.late
        BY <2>2
      <3>4. QED
        BY <3>2, <3>3
    <2>3. QED
      BY <1>2, <2>1, <2>2 DEF Life!LifeInv, Life!TypeOK
  <1>4. Life!TypeOK'
    BY <1>1, <1>2, <1>3 DEF Life!LifeInv, Life!TypeOK
  <1>5. work'[w] = new /\ \A v \in Life!Pieces \ {w} : work'[v] = work[v]
    BY <1>2, <1>3
  <1>6. Life!TornDown'
    BY <1>1, <1>3, <1>5 DEF Life!LifeInv, Life!TornDown
  <1>7. Life!EndedProperly'
    BY <1>2, <1>5 DEF Life!LifeInv, Life!EndedProperly
  <1>8. QED
    BY <1>1, <1>4, <1>6, <1>7, LifeFilesStand DEF Life!LifeInv

\* It comes to its end, place by place.
LEMMA LifePlaceKeeps ==
    ASSUME Life!LifeInv, Life!CtrlC \/ Life!Shutdown \/ Life!SigTerm \/ Life!WaitEnds
    PROVE  Life!LifeInv'
  <1> DEFINE files == s1  serves == s3  at == s4  setup == s6  work == s7
  <1>1. UNCHANGED <<files, serves, setup, work>> /\ at' \in {"waits", "swarms", "gone"}
    BY DEF Life!CtrlC, Life!Shutdown, Life!SigTerm, Life!WaitEnds, Life!AfterShutdown
  <1>2. at' = "gone" => Life!Going(Life!Kinds) = {}
    BY DEF Life!CtrlC, Life!Shutdown, Life!SigTerm, Life!WaitEnds, Life!AfterShutdown
  <1>3. at' = "gone" => \A w \in Life!Pieces : work[w].at = "goes" => work[w].kind \notin {"swarm", "task"}
    BY <1>2 DEF Life!Going, Life!Kinds
  <1>4. Life!TypeOK' /\ Life!EndedProperly'
    BY <1>1 DEF Life!LifeInv, Life!TypeOK, Life!EndedProperly
  <1>5. Life!TornDown'
    BY <1>1, <1>3 DEF Life!TornDown
  <1>6. QED
    BY <1>1, <1>4, <1>5, LifeFilesStand DEF Life!LifeInv

\* Those of a kind are torn down, or were too long about it.
LEMMA LifeTeardownKeeps ==
    ASSUME Life!LifeInv, Life!SwarmsEnd \/ Life!TasksEnd
    PROVE  Life!LifeInv'
  <1> DEFINE files == s1  serves == s3  at == s4  setup == s6  work == s7
  <1>1. UNCHANGED <<files, serves, setup>>
    BY DEF Life!SwarmsEnd, Life!TasksEnd
  <1>2. PICK kind \in {"swarm", "task"} :
           /\ Life!Stopped(kind)
           /\ at = (IF kind = "swarm" THEN "swarms" ELSE "tasks")
           /\ at' = (IF kind = "swarm" THEN "tasks" ELSE "gone")
    BY DEF Life!SwarmsEnd, Life!TasksEnd
  <1>3. work \in [Life!Pieces -> Life!Work]
    BY DEF Life!LifeInv, Life!TypeOK
  <1>4. \A w \in Life!Pieces :
           /\ work'[w] = work[w] \/ (work[w].at = "goes" /\ work'[w] = [work[w] EXCEPT !.late = TRUE])
           /\ w \in Life!Going({kind}) => work'[w].late
    <2>1. CASE UNCHANGED work /\ \A w \in Life!Going({kind}) : work[w].late
      BY <2>1
    <2>2. CASE work' = [w \in Life!Pieces |-> IF w \in Life!Going({kind}) THEN [work[w] EXCEPT !.late = TRUE]
                                         ELSE work[w]]
      <3>1. ASSUME NEW w \in Life!Pieces, work[w].at = "goes" PROVE [work[w] EXCEPT !.late = TRUE].late
        BY <1>3, <3>1 DEF Life!Work, Life!NoWork
      <3>2. QED
        BY <2>2, <3>1 DEF Life!Going
    <2>3. QED
      BY <1>2, <2>1, <2>2 DEF Life!Stopped
  <1>5. work' \in [Life!Pieces -> Life!Work]
    <2>1. CASE UNCHANGED work
      BY <1>3, <2>1
    <2>2. CASE work' = [w \in Life!Pieces |-> IF w \in Life!Going({kind}) THEN [work[w] EXCEPT !.late = TRUE]
                                         ELSE work[w]]
      <3>1. \A w \in Life!Pieces : work[w] \in Life!Work
        BY <1>3
      <3>2. \A w \in Life!Pieces : work[w].at = "goes" => [work[w] EXCEPT !.late = TRUE] \in Life!Work
        BY <3>1 DEF Life!Work, Life!NoWork
      <3>3. QED
        BY <2>2, <3>1, <3>2 DEF Life!Going
    <2>3. QED
      BY <1>2, <2>1, <2>2 DEF Life!Stopped
  <1>6. ASSUME NEW w \in Life!Pieces
        PROVE  /\ work'[w].at = work[w].at
               /\ work[w].at = "goes" => work'[w].kind = work[w].kind /\ (work[w].late => work'[w].late)
               /\ work[w].at # "goes" => work'[w] = work[w]
    <2>1. work[w] \in Life!Work
      BY <1>3
    <2>2. CASE work'[w] = work[w]
      BY <2>2
    <2>3. CASE work[w].at = "goes" /\ work'[w] = [work[w] EXCEPT !.late = TRUE]
      BY <2>1, <2>3 DEF Life!Work, Life!NoWork
    <2>4. QED
      BY <1>4, <2>2, <2>3
  <1>7. Life!TornDown'
    <2> SUFFICES ASSUME NEW w \in Life!Pieces, work'[w].at = "goes"
                 PROVE  /\ at' \in {"tasks", "gone"} /\ work'[w].kind = "swarm" => work'[w].late
                        /\ at' = "gone" /\ work'[w].kind = "task" => work'[w].late
      BY DEF Life!TornDown
    <2>1. work[w].at = "goes" /\ work'[w].kind = work[w].kind /\ (work[w].late => work'[w].late)
      BY <1>6
    <2>2. work[w].kind = kind => work'[w].late
      BY <1>4, <2>1 DEF Life!Going
    <2>3. CASE kind = "swarm"
      BY <1>2, <2>1, <2>2, <2>3
    <2>4. CASE kind = "task"
      BY <1>2, <2>1, <2>2, <2>4 DEF Life!LifeInv, Life!TornDown
    <2>5. QED
      BY <2>3, <2>4
  <1>8. Life!EndedProperly'
    BY <1>6 DEF Life!LifeInv, Life!EndedProperly
  <1>9. QED
    BY <1>1, <1>2, <1>5, <1>7, <1>8, LifeFilesStand DEF Life!LifeInv, Life!TypeOK

\* The process is over, of itself or not; what goes ends with it.
LEMMA LifeOverKeeps ==
    ASSUME Life!LifeInv, Life!Ends \/ Life!Dies
    PROVE  Life!LifeInv'
  <1> DEFINE files == s1  serves == s3  at == s4  setup == s6  work == s7
  <1>1. PICK how \in {"stop", "signal"} : Life!Over(how) /\ (how = "stop" => at = "gone")
    BY DEF Life!Ends, Life!Dies
  <1>2. UNCHANGED <<files, serves>> /\ at' = "down" /\ setup' \in {setup, Life!NoSetup}
    BY <1>1 DEF Life!Ends, Life!Dies, Life!Over
  <1>3. work \in [Life!Pieces -> Life!Work]
    BY DEF Life!LifeInv, Life!TypeOK
  <1>4. ASSUME NEW w \in Life!Pieces
        PROVE  work'[w] = IF work[w].at # "goes" THEN work[w]
                          ELSE [at |-> "cut", kind |-> work[w].kind, late |-> work[w].late, by |-> how]
    BY <1>1 DEF Life!Over
  <1>5. \A w \in Life!Pieces : work'[w] \in Life!Work
    <2> SUFFICES ASSUME NEW w \in Life!Pieces PROVE work'[w] \in Life!Work
      OBVIOUS
    <2>1. work[w] \in Life!Work
      BY <1>3
    <2>2. work[w].at = "goes" => work[w].kind \in Life!Kinds /\ work[w].late \in BOOLEAN
      BY <2>1 DEF Life!Work, Life!NoWork
    <2>3. CASE work[w].at # "goes"
      BY <1>4, <2>1, <2>3
    <2>4. CASE work[w].at = "goes"
      <3>1. work'[w] = [at |-> "cut", kind |-> work[w].kind, late |-> work[w].late, by |-> how]
        BY <1>4, <2>4
      <3>2. QED
        BY <1>1, <2>2, <2>4, <3>1 DEF Life!Work
    <2>5. QED
      BY <2>3, <2>4
  <1>6. work' \in [Life!Pieces -> Life!Work]
    BY <1>1, <1>5 DEF Life!Over
  <1>7. Life!TornDown'
    BY <1>2, <1>4 DEF Life!TornDown
  <1>8. Life!EndedProperly'
    <2> SUFFICES ASSUME NEW w \in Life!Pieces, work'[w].at = "cut", work'[w].kind \in {"swarm", "task"}
                 PROVE  work'[w].by = "signal" \/ work'[w].late
      BY DEF Life!EndedProperly
    <2>1. CASE work[w].at # "goes"
      BY <1>4, <2>1 DEF Life!LifeInv, Life!EndedProperly
    <2>2. CASE work[w].at = "goes"
      <3>1. work'[w] = [at |-> "cut", kind |-> work[w].kind, late |-> work[w].late, by |-> how]
        BY <1>4, <2>2
      <3>2. CASE how = "signal"
        BY <3>1, <3>2
      <3>3. CASE how = "stop"
        BY <1>1, <2>2, <3>1, <3>3 DEF Life!LifeInv, Life!TornDown
      <3>4. QED
        BY <1>1, <3>2, <3>3
    <2>3. QED
      BY <2>1, <2>2
  <1>9. Life!SetupFits'
    BY <1>2 DEF Life!LifeInv, Life!SetupFits, Life!Applying, Life!Resetting
  <1>10. Life!AddressLast(files)' /\ Life!AddressLast(serves)' /\ Life!TypeOK'
    BY <1>2, <1>6 DEF Life!LifeInv, Life!TypeOK, Life!AddressLast
  <1>11. QED
    BY <1>7, <1>8, <1>9, <1>10 DEF Life!LifeInv

LEMMA LifeStartsKeeps == ASSUME Life!LifeInv, Life!Starts PROVE Life!LifeInv'
  <1> DEFINE files == s1  serves == s3  at == s4  setup == s6  work == s7
  <1>1. at' = "serving" /\ serves' = files /\ UNCHANGED <<files, setup>>
        /\ work' = [w \in Life!Pieces |-> Life!NoWork]
    BY DEF Life!Starts
  <1>2. Life!TornDown' /\ Life!EndedProperly'
    BY <1>1 DEF Life!TornDown, Life!EndedProperly, Life!NoWork
  <1>3. work' \in [Life!Pieces -> Life!Work]
    BY <1>1 DEF Life!Work
  <1>4. QED
    BY <1>1, <1>2, <1>3, LifeFilesStand DEF Life!LifeInv, Life!TypeOK

LEMMA LifeStep == Life!LifeInv /\ [Life!Next]_(Life!serveVars) => Life!LifeInv'
  <1> SUFFICES ASSUME Life!LifeInv, [Life!Next]_(Life!serveVars) PROVE Life!LifeInv'
    OBVIOUS
  <1>1. ASSUME NEW by, Life!Configure(by) PROVE Life!LifeInv'
    BY <1>1, LifeConfigureKeeps
  <1>2. ASSUME Life!SetupStep PROVE Life!LifeInv'
    BY <1>2, LifeSetupStepKeeps
  <1>3. ASSUME NEW w \in Life!Pieces, Life!WorkEnds(w) \/ (\E kind \in Life!Kinds : Life!Begin(w, kind)) PROVE Life!LifeInv'
    BY <1>3, LifeWorkKeeps
  <1>4. ASSUME UNCHANGED Life!serveVars PROVE Life!LifeInv'
    BY <1>4, LifeFilesStand DEF Life!serveVars, Life!LifeInv, Life!TypeOK, Life!TornDown, Life!EndedProperly
  <1>5. QED
    BY <1>1, <1>2, <1>3, <1>4, LifeOtherSetupKeeps, LifePlaceKeeps, LifeTeardownKeeps, LifeOverKeeps, LifeStartsKeeps
       DEF Life!Next

LEMMA LifeGives == Life!LifeInv => Life!NothingIsHalfDone
  BY DEF Life!LifeInv, Life!AddressLast, Life!NothingIsHalfDone, Life!AddressIsLast, Life!Files

-----------------------------------------------------------------------------
(* Images.                                                                   *)
LEMMA ImagesNeedOf ==
    ASSUME NEW n, NEW i
    PROVE  /\ <<"based", i>> \in Images!Needs(n) <=> i \in s5[n]
           /\ <<"pinned", i>> \in Images!Needs(n) <=> i \in s3[n]
           /\ <<"launched", i>> \in Images!Needs(n) <=> i \in s1[n] /\ Images!Called(n, i) \cap s4[n] # {}
  BY DEF Images!Needs

LEMMA ImagesNeedsAre == Images!TypeOK => \A n \in Pair : Images!Needs(n) \subseteq {"based", "pinned", "launched"} \X Images!AllImages
  BY DEF Images!TypeOK, Images!Needs, Images!AllImages

LEMMA ImagesInit == Images!ImagesAssumption /\ Images!Init => Images!ImagesInv
  <1> SUFFICES ASSUME Images!ImagesAssumption, Images!Init PROVE Images!ImagesInv
    OBVIOUS
  <1>1. Images!TypeOK
    BY DEF Images!Init, Images!TypeOK, Images!Prunes, Images!NoPrune
  <1>2. Images!AliasesFit
    BY DEF Images!Init, Images!AliasesFit
  <1>3. \A n \in Pair : Images!PruneFits(n)
    BY DEF Images!Init, Images!PruneFits, Images!NoPrune
  <1>4. QED
    BY <1>1, <1>2, <1>3 DEF Images!ImagesInv

-----------------------------------------------------------------------------
\* What a prune remembers goes with its needs.
LEMMA ImagesRemembers ==
    ASSUME Images!ImagesInv, Images!TypeOK', Images!NamesStay, Images!Remembering
    PROVE  \A n \in Pair : Images!PruneFits(n)'
  <1> DEFINE held == s1  prune == s7
  <1> SUFFICES ASSUME NEW n \in Pair PROVE Images!PruneFits(n)'
    OBVIOUS
  <1> DEFINE p == prune[n]
  <1>1. p \in Images!Prunes /\ prune'[n] = [p EXCEPT !.still = @ \cap Images!Needs(n)']
    BY DEF Images!Remembering, Images!ImagesInv, Images!TypeOK
  <1>2. /\ prune'[n].still = p.still \cap Images!Needs(n)'
        /\ prune'[n].at = p.at /\ prune'[n].based = p.based /\ prune'[n].pinned = p.pinned
        /\ prune'[n].named = p.named /\ prune'[n].list = p.list
    BY <1>1 DEF Images!Prunes
  <1>3. Images!PruneFits(n)
    BY DEF Images!ImagesInv
  <1> HIDE DEF p
  <1>4. prune'[n].still \subseteq Images!Needs(n)'
    BY <1>2
  <1>5. ASSUME NEW b \in ImageBuilds
        PROVE  /\ <<"based", b>> \in prune'[n].still => b \in prune'[n].based
               /\ prune'[n].at \in {"templates", "list", "delete"} /\ <<"pinned", b>> \in prune'[n].still
                     => b \in prune'[n].pinned
               /\ prune'[n].at = "delete" /\ b \in prune'[n].list
                     => \A need \in prune'[n].still : need[2] # b
    BY <1>2, <1>3 DEF Images!PruneFits, p
  <1>6. ASSUME NEW b \in ImageBuilds, prune'[n].at \in {"list", "delete"}, <<"launched", b>> \in prune'[n].still
        PROVE  Images!Called(n, b)' \cap prune'[n].named # {}
    <2>1. Images!Called(n, b) \cap p.named # {}
      BY <1>2, <1>3, <1>6 DEF Images!PruneFits, p
    <2>2. b \in held[n]
      <3>1. <<"launched", b>> \in Images!Needs(n)
        BY <1>2, <1>3, <1>6 DEF Images!PruneFits, p
      <3>2. QED
        BY <3>1, ImagesNeedOf
    <2>3. b \in held'[n]
      <3>1. <<"launched", b>> \in Images!Needs(n)'
        BY <1>4, <1>6
      <3>2. QED
        BY <3>1 DEF Images!Needs
    <2>4. Images!Called(n, b) \subseteq Images!Called(n, b)'
      BY <2>2, <2>3 DEF Images!NamesStay
    <2>5. QED
      BY <1>2, <2>1, <2>4
  <1>7. QED
    BY <1>4, <1>5, <1>6 DEF Images!PruneFits

\* Where nothing is taken away, nothing is forgotten.
LEMMA ImagesGrows ==
    ASSUME Images!ImagesInv, UNCHANGED <<s2, s3, s4, s5, s7>>,
           \A n \in Pair : s1[n] \subseteq s1'[n]
    PROVE  \A n \in Pair : Images!PruneFits(n)'
  <1> SUFFICES ASSUME NEW n \in Pair PROVE Images!PruneFits(n)'
    OBVIOUS
  <1>1. \A i : Images!Called(n, i)' = Images!Called(n, i)
    BY DEF Images!Called, Images!Named
  <1>2. Images!Needs(n) \subseteq Images!Needs(n)'
    BY <1>1 DEF Images!Needs
  <1>3. Images!PruneFits(n)
    BY DEF Images!ImagesInv
  <1>4. QED
    BY <1>1, <1>2, <1>3 DEF Images!PruneFits

\* One name more: a build had it, or it never was the build's.
LEMMA ImagesNamingFits ==
    ASSUME Images!ImagesInv, NEW m \in Pair, NEW a \in Images!Names, NEW i \in Images!AllImages, Images!Fits(a, i),
           Images!NoImage \notin Images!AllImages,
           s2' = [s2 EXCEPT ![m][a] = i]
    PROVE  /\ Images!NamesStay
           /\ \A n \in Pair, x \in Images!Names : s2'[n][x] # Images!NoImage => Images!Fits(x, s2'[n][x])
           /\ s2' \in [Pair -> [Images!Names -> Images!AllImages \cup {Images!NoImage}]]
  <1> DEFINE alias == s2
  <1>1. alias \in [Pair -> [Images!Names -> Images!AllImages \cup {Images!NoImage}]]
    BY DEF Images!ImagesInv, Images!TypeOK
  <1>2. \A n \in Pair, x \in Images!Names : alias'[n][x] = IF n = m /\ x = a THEN i ELSE alias[n][x]
    BY <1>1
  <1>3. \A n \in Pair, x \in Images!Names : alias[n][x] # Images!NoImage => Images!Fits(x, alias[n][x])
    BY DEF Images!ImagesInv, Images!AliasesFit
  <1>4. Images!NamesStay
    <2> SUFFICES ASSUME NEW n \in Pair, NEW b \in ImageBuilds, NEW x \in Images!Called(n, b)
                 PROVE  x \in Images!Called(n, b)'
      BY DEF Images!NamesStay
    <2>1. CASE x = Images!Fingerprint(b)
      BY <2>1 DEF Images!Called
    <2>2. CASE x \in Images!Names /\ alias[n][x] = b
      <3>1. b \in Images!AllImages /\ b # Images!NoImage
        BY DEF Images!AllImages
      <3>2. x = Images!PinAlias(b)
        BY <1>3, <2>2, <3>1 DEF Images!Fits
      <3>3. x = a => i = b
        BY <3>2 DEF Images!Fits
      <3>4. alias'[n][x] = b
        BY <1>2, <2>2, <3>3
      <3>5. QED
        BY <2>2, <3>4 DEF Images!Called, Images!Named
    <2>3. QED
      BY <2>1, <2>2 DEF Images!Called, Images!Named
  <1>5. QED
    BY <1>1, <1>2, <1>3, <1>4

\* An image goes with its names: no other's goes with it.
LEMMA ImagesGoingFits ==
    ASSUME Images!ImagesInv, NEW m \in Pair, NEW i \in Images!AllImages, Images!Goes(m, i)
    PROVE  /\ Images!NamesStay
           /\ \A n \in Pair, x \in Images!Names : s2'[n][x] # Images!NoImage => Images!Fits(x, s2'[n][x])
           /\ s2' \in [Pair -> [Images!Names -> Images!AllImages \cup {Images!NoImage}]]
           /\ s1' \in [Pair -> SUBSET Images!AllImages]
           /\ \A n \in Pair : s1'[n] = IF n = m THEN s1[n] \ {i} ELSE s1[n]
           /\ \A n \in Pair : \A j : j # i \/ n # m => Images!Called(n, j) \subseteq Images!Called(n, j)'
  <1> DEFINE held == s1  alias == s2
  <1>1. alias \in [Pair -> [Images!Names -> Images!AllImages \cup {Images!NoImage}]] /\ held \in [Pair -> SUBSET Images!AllImages]
    BY DEF Images!ImagesInv, Images!TypeOK
  <1>2. \A n \in Pair, x \in Images!Names :
           alias'[n][x] = IF n = m /\ alias[n][x] = i THEN Images!NoImage ELSE alias[n][x]
    BY <1>1 DEF Images!Goes
  <1>3. alias' \in [Pair -> [Images!Names -> Images!AllImages \cup {Images!NoImage}]]
    BY <1>1 DEF Images!Goes
  <1>4. \A n \in Pair : held'[n] = IF n = m THEN held[n] \ {i} ELSE held[n]
    BY <1>1 DEF Images!Goes
  <1>5. held' \in [Pair -> SUBSET Images!AllImages]
    BY <1>1 DEF Images!Goes
  <1>6. \A n \in Pair : \A j : j # i \/ n # m => Images!Called(n, j) \subseteq Images!Called(n, j)'
    BY <1>2 DEF Images!Called, Images!Named
  <1>7. Images!NamesStay
    BY <1>4, <1>6 DEF Images!NamesStay
  <1>8. \A n \in Pair, x \in Images!Names : alias'[n][x] # Images!NoImage => Images!Fits(x, alias'[n][x])
    BY <1>2 DEF Images!ImagesInv, Images!AliasesFit
  <1>9. QED
    BY <1>3, <1>4, <1>5, <1>6, <1>7, <1>8

-----------------------------------------------------------------------------
(* The jobs. *)
\* A new job has a name that fits its image.
LEMMA ImagesTrackedFits ==
    ASSUME Images!ImagesInv, NEW n \in Pair, NEW j \in Images!Jobs, Images!Fits(j.alias, j.image), Images!Tracked(n, j)
    PROVE  Images!JobsStand
  <1> DEFINE job == s6
  <1>1. \A k \in DOMAIN job : job[k] \in Images!Jobs /\ Images!Fits(job[k].alias, job[k].image)
    BY DEF Images!ImagesInv, Images!TypeOK, Images!AliasesFit
  <1>2. \A k \in DOMAIN job' : job'[k] = IF k \in DOMAIN job THEN job[k] ELSE j
    BY DEF Images!Tracked
  <1>3. QED
    BY <1>1, <1>2 DEF Images!JobsStand

\* A job that goes on is of the same image and name.
LEMMA ImagesGoingOnFits ==
    ASSUME Images!ImagesInv, NEW k \in DOMAIN s6, NEW j \in Images!Jobs, s6' = [s6 EXCEPT ![k] = j],
           j.alias = s6[k].alias, j.image = s6[k].image
    PROVE  Images!JobsStand
  <1> DEFINE job == s6
  <1>1. \A l \in DOMAIN job : job[l] \in Images!Jobs /\ Images!Fits(job[l].alias, job[l].image)
    BY DEF Images!ImagesInv, Images!TypeOK, Images!AliasesFit
  <1>2. QED
    BY <1>1 DEF Images!JobsStand

LEMMA ImagesJobFields ==
    ASSUME Images!ImagesInv, NEW k \in DOMAIN s6
    PROVE  /\ s6[k] \in Images!Jobs /\ s6[k].node \in Pair /\ s6[k].alias \in Images!Names
           /\ s6[k].image \in Images!AllImages /\ Images!Fits(s6[k].alias, s6[k].image)
  BY DEF Images!ImagesInv, Images!TypeOK, Images!AliasesFit, Images!Jobs

LEMMA ImagesNewJob ==
    ASSUME NEW n \in Pair, NEW a \in Images!Names, NEW i \in Images!AllImages, NEW to \in SUBSET Pair,
           NEW at \in {"publish", "copy", "fetch"}
    PROVE  /\ Images!Job(n, a, i, to, at) \in Images!Jobs
           /\ Images!Job(n, a, i, to, at).alias = a /\ Images!Job(n, a, i, to, at).image = i
  BY DEF Images!Job, Images!Jobs

\* Where only the jobs change.
LEMMA ImagesOnlyJobs ==
    ASSUME Images!ImagesInv, Images!JobsStand, UNCHANGED <<s1, s2, s3, s4, s5, s7>>
    PROVE  Images!ImagesInv'
  <1>1. Images!TypeOK'
    BY DEF Images!ImagesInv, Images!TypeOK, Images!JobsStand
  <1>2. Images!AliasesFit'
    BY DEF Images!ImagesInv, Images!AliasesFit, Images!JobsStand
  <1>3. \A n \in Pair : Images!PruneFits(n)'
    BY ImagesGrows
  <1>4. QED
    BY <1>1, <1>2, <1>3 DEF Images!ImagesInv

LEMMA ImagesPublishKeeps ==
    ASSUME Images!ImagesAssumption, Images!ImagesInv, NEW n \in Pair, NEW a \in Images!Given, NEW i \in ImageMade,
           NEW to \in SUBSET Pair, Images!Publish(n, i, a, to)
    PROVE  Images!ImagesInv'
  <1>1. Images!Fits(a, i)
    BY DEF Images!Fits, Images!Given, Images!PinAlias, Images!ImagesAssumption
  <1>2. a \in Images!Names /\ i \in Images!AllImages
    BY DEF Images!Names, Images!AllImages
  <1>3. Images!JobsStand
    BY <1>1, <1>2, ImagesNewJob, ImagesTrackedFits DEF Images!Publish
  <1>4. QED
    BY <1>3, ImagesOnlyJobs DEF Images!Publish

LEMMA ImagesCopyKeeps ==
    ASSUME Images!ImagesInv, NEW n \in Pair, NEW a \in Images!Names, NEW to \in SUBSET Pair, Images!Copy(n, a, to)
    PROVE  Images!ImagesInv'
  <1> DEFINE alias == s2
  <1>1. Images!Fits(a, alias[n][a]) /\ alias[n][a] \in Images!AllImages
    BY DEF Images!Copy, Images!ImagesInv, Images!AliasesFit, Images!TypeOK
  <1>2. Images!JobsStand
    BY <1>1, ImagesNewJob, ImagesTrackedFits DEF Images!Copy
  <1>3. QED
    BY <1>2, ImagesOnlyJobs DEF Images!Copy

LEMMA ImagesPinnedFits == ASSUME NEW b \in ImageBuilds PROVE Images!PinAlias(b) \in Images!Names /\ Images!Fits(Images!PinAlias(b), b) /\ b \in Images!AllImages
  BY DEF Images!Names, Images!Fits, Images!PinAlias, Images!AllImages

LEMMA ImagesFetchAgainKeeps ==
    ASSUME Images!ImagesInv, NEW n \in Pair, NEW b \in ImageBuilds, Images!FetchAgain(n, b)
    PROVE  Images!ImagesInv'
  <1>1. Images!JobsStand
    BY ImagesPinnedFits, ImagesNewJob, ImagesTrackedFits DEF Images!FetchAgain
  <1>2. QED
    BY <1>1, ImagesOnlyJobs DEF Images!FetchAgain

\* A step of a job that leaves all else as it is.
LEMMA ImagesJobStepKeeps ==
    ASSUME Images!ImagesInv, NEW k \in DOMAIN s6,
           \/ Images!PublishStarts(k) \/ Images!FetchFails(k) \/ Images!JobEnds(k)
           \/ \E m \in Pair : Images!Sends(k, m) \/ Images!SendFails(k, m)
    PROVE  Images!ImagesInv'
  <1> DEFINE held == s1  alias == s2  pins == s3  launched == s4  based == s5  job == s6
             prune == s7
  <1>1. job[k] \in Images!Jobs
    BY ImagesJobFields
  <1>2. UNCHANGED <<held, alias, pins, launched, based, prune>>
    BY DEF Images!PublishStarts, Images!FetchFails, Images!JobEnds, Images!Sends, Images!SendFails
  <1>3. \E j \in Images!Jobs : job' = [job EXCEPT ![k] = j] /\ j.alias = job[k].alias /\ j.image = job[k].image
    <2>1. ASSUME NEW at \in {"making", "done"}, job' = [job EXCEPT ![k].at = at]
          PROVE  \E j \in Images!Jobs : job' = [job EXCEPT ![k] = j] /\ j.alias = job[k].alias /\ j.image = job[k].image
      <3> DEFINE j == [job[k] EXCEPT !.at = at]
      <3>1. j \in Images!Jobs /\ j.alias = job[k].alias /\ j.image = job[k].image
        BY <1>1 DEF Images!Jobs
      <3>2. job' = [job EXCEPT ![k] = j]
        BY <2>1
      <3>3. QED
        BY <3>1, <3>2
    <2>2. CASE Images!PublishStarts(k)
      <3>1. job' = [job EXCEPT ![k].at = "making"] \/ job' = [job EXCEPT ![k].at = "done"]
        BY <2>2 DEF Images!PublishStarts
      <3>2. QED
        BY <2>1, <3>1
    <2>3. CASE Images!FetchFails(k)
      BY <2>1, <2>3 DEF Images!FetchFails
    <2>4. CASE Images!JobEnds(k)
      <3> DEFINE j == [job[k] EXCEPT !.at = "done", !.ok = job[k].failed = {}]
      <3>1. j \in Images!Jobs /\ j.alias = job[k].alias /\ j.image = job[k].image
        BY <1>1 DEF Images!Jobs
      <3>2. job' = [job EXCEPT ![k] = j]
        BY <2>4 DEF Images!JobEnds
      <3>3. QED
        BY <3>1, <3>2
    <2>5. ASSUME NEW m \in Pair, Images!Sends(k, m)
          PROVE  \E j \in Images!Jobs : job' = [job EXCEPT ![k] = j] /\ j.alias = job[k].alias /\ j.image = job[k].image
      <3> DEFINE j == [job[k] EXCEPT !.waiting = @ \ {m}, !.sending = @ \cup {m}]
      <3>1. j \in Images!Jobs /\ j.alias = job[k].alias /\ j.image = job[k].image
        BY <1>1 DEF Images!Jobs
      <3>2. job' = [job EXCEPT ![k] = j]
        BY <2>5 DEF Images!Sends
      <3>3. QED
        BY <3>1, <3>2
    <2>6. ASSUME NEW m \in Pair, Images!SendFails(k, m)
          PROVE  \E j \in Images!Jobs : job' = [job EXCEPT ![k] = j] /\ j.alias = job[k].alias /\ j.image = job[k].image
      <3> DEFINE j == [job[k] EXCEPT !.sending = @ \ {m}, !.failed = @ \cup {m}]
      <3>1. j \in Images!Jobs /\ j.alias = job[k].alias /\ j.image = job[k].image
        BY <1>1 DEF Images!Jobs
      <3>2. job' = [job EXCEPT ![k] = j]
        BY <2>6 DEF Images!SendFails
      <3>3. QED
        BY <3>1, <3>2
    <2>7. QED
      BY <2>2, <2>3, <2>4, <2>5, <2>6
  <1>4. Images!JobsStand
    BY <1>3, ImagesGoingOnFits
  <1>5. QED
    BY <1>2, <1>4, ImagesOnlyJobs

\* An image is made, or pulled.
LEMMA ImagesMadeKeeps ==
    ASSUME Images!ImagesInv, NEW k \in DOMAIN s6, Images!PublishMade(k) \/ Images!Fetched(k)
    PROVE  Images!ImagesInv'
  <1> DEFINE held == s1  alias == s2  pins == s3  launched == s4  based == s5  job == s6
             prune == s7
  <1>1. job[k] \in Images!Jobs /\ job[k].node \in Pair /\ job[k].image \in Images!AllImages
    BY ImagesJobFields
  <1> DEFINE j == [job[k] EXCEPT !.at = "name"]
  <1>2. j \in Images!Jobs /\ j.alias = job[k].alias /\ j.image = job[k].image
    BY <1>1 DEF Images!Jobs
  <1>3. /\ held' = [held EXCEPT ![job[k].node] = @ \cup {job[k].image}]
        /\ job' = [job EXCEPT ![k] = j]
        /\ UNCHANGED <<alias, pins, launched, based, prune>>
    BY DEF Images!PublishMade, Images!Fetched
  <1> HIDE DEF j
  <1>4. Images!JobsStand
    BY <1>2, <1>3, ImagesGoingOnFits
  <1>5. held \in [Pair -> SUBSET Images!AllImages]
    BY DEF Images!ImagesInv, Images!TypeOK
  <1>6. held' \in [Pair -> SUBSET Images!AllImages] /\ \A n \in Pair : held[n] \subseteq held'[n]
    BY <1>1, <1>3, <1>5
  <1>7. \A n \in Pair : Images!PruneFits(n)'
    BY <1>3, <1>6, ImagesGrows
  <1>8. Images!TypeOK'
    BY <1>3, <1>4, <1>6 DEF Images!ImagesInv, Images!TypeOK, Images!JobsStand
  <1>9. Images!AliasesFit'
    BY <1>3, <1>4 DEF Images!ImagesInv, Images!AliasesFit, Images!JobsStand
  <1>10. QED
    BY <1>7, <1>8, <1>9 DEF Images!ImagesInv

\* What a prune remembers stays what it may be.
LEMMA ImagesRemembersType ==
    ASSUME Images!ImagesInv, Images!Remembering
    PROVE  s7' \in [Pair -> Images!Prunes]
  <1> DEFINE prune == s7
  <1>1. prune \in [Pair -> Images!Prunes]
    BY DEF Images!ImagesInv, Images!TypeOK
  <1>2. ASSUME NEW n \in Pair PROVE [prune[n] EXCEPT !.still = @ \cap Images!Needs(n)'] \in Images!Prunes
    BY <1>1 DEF Images!Prunes
  <1>3. QED
    BY <1>2 DEF Images!Remembering

LEMMA ImagesArrivesKeeps ==
    ASSUME Images!ImagesAssumption, Images!ImagesInv, NEW k \in DOMAIN s6, NEW m \in Pair, Images!Arrives(k, m)
    PROVE  Images!ImagesInv'
  <1> DEFINE held == s1  alias == s2  pins == s3  launched == s4  based == s5  job == s6
  <1>1. /\ job[k] \in Images!Jobs /\ job[k].alias \in Images!Names
        /\ job[k].image \in Images!AllImages /\ Images!Fits(job[k].alias, job[k].image)
    BY ImagesJobFields
  <1> DEFINE j == [job[k] EXCEPT !.sending = @ \ {m}, !.got = @ \cup {m}]
  <1>2. j \in Images!Jobs /\ j.alias = job[k].alias /\ j.image = job[k].image
    BY <1>1 DEF Images!Jobs
  <1>3. job' = [job EXCEPT ![k] = j]
    BY DEF Images!Arrives
  <1> HIDE DEF j
  <1>4. Images!JobsStand
    BY <1>2, <1>3, ImagesGoingOnFits
  <1>5. /\ held' = [held EXCEPT ![m] = @ \cup {job[k].image}]
        /\ alias' = [alias EXCEPT ![m][job[k].alias] = job[k].image]
        /\ UNCHANGED <<pins, launched, based>> /\ Images!Remembering
    BY DEF Images!Arrives
  <1>6. /\ Images!NamesStay
        /\ \A n \in Pair, x \in Images!Names : alias'[n][x] # Images!NoImage => Images!Fits(x, alias'[n][x])
        /\ alias' \in [Pair -> [Images!Names -> Images!AllImages \cup {Images!NoImage}]]
    BY <1>1, <1>5, ImagesNamingFits DEF Images!ImagesAssumption
  <1>7. held' \in [Pair -> SUBSET Images!AllImages]
    BY <1>1, <1>5 DEF Images!ImagesInv, Images!TypeOK
  <1>8. Images!TypeOK'
    BY <1>4, <1>5, <1>6, <1>7, ImagesRemembersType DEF Images!ImagesInv, Images!TypeOK, Images!JobsStand
  <1>9. Images!AliasesFit'
    BY <1>4, <1>6 DEF Images!AliasesFit, Images!JobsStand
  <1>10. QED
    BY <1>5, <1>6, <1>8, <1>9, ImagesRemembers DEF Images!ImagesInv

LEMMA ImagesPublishNamedKeeps ==
    ASSUME Images!ImagesAssumption, Images!ImagesInv, NEW k \in DOMAIN s6, Images!PublishNamed(k)
    PROVE  Images!ImagesInv'
  <1> DEFINE held == s1  alias == s2  pins == s3  launched == s4  based == s5  job == s6
  <1>1. /\ job[k] \in Images!Jobs /\ job[k].alias \in Images!Names /\ job[k].node \in Pair
        /\ job[k].image \in Images!AllImages /\ Images!Fits(job[k].alias, job[k].image)
    BY ImagesJobFields
  <1>2. UNCHANGED <<held, pins, launched, based>> /\ Images!Remembering
    BY DEF Images!PublishNamed
  <1>3. \E j \in Images!Jobs : job' = [job EXCEPT ![k] = j] /\ j.alias = job[k].alias /\ j.image = job[k].image
    <2> DEFINE c == [job[k] EXCEPT !.at = "copy"]  d == [job[k] EXCEPT !.at = "done"]
    <2>1. /\ c \in Images!Jobs /\ c.alias = job[k].alias /\ c.image = job[k].image
          /\ d \in Images!Jobs /\ d.alias = job[k].alias /\ d.image = job[k].image
      BY <1>1 DEF Images!Jobs
    <2>2. job' = [job EXCEPT ![k] = c] \/ job' = [job EXCEPT ![k] = d]
      BY DEF Images!PublishNamed
    <2>3. QED
      BY <2>1, <2>2
  <1>4. Images!JobsStand
    BY <1>3, ImagesGoingOnFits
  <1>5. /\ Images!NamesStay
        /\ \A n \in Pair, x \in Images!Names : alias'[n][x] # Images!NoImage => Images!Fits(x, alias'[n][x])
        /\ alias' \in [Pair -> [Images!Names -> Images!AllImages \cup {Images!NoImage}]]
    <2>1. CASE UNCHANGED alias
      <3>1. Images!NamesStay
        BY <2>1 DEF Images!NamesStay, Images!Called, Images!Named
      <3>2. QED
        BY <2>1, <3>1 DEF Images!ImagesInv, Images!TypeOK, Images!AliasesFit
    <2>2. CASE alias' = [alias EXCEPT ![job[k].node][job[k].alias] = job[k].image]
      BY <1>1, <2>2, ImagesNamingFits DEF Images!ImagesAssumption
    <2>3. QED
      BY <2>1, <2>2 DEF Images!PublishNamed
  <1>6. Images!TypeOK'
    BY <1>2, <1>4, <1>5, ImagesRemembersType DEF Images!ImagesInv, Images!TypeOK, Images!JobsStand
  <1>7. Images!AliasesFit'
    BY <1>4, <1>5 DEF Images!AliasesFit, Images!JobsStand
  <1>8. QED
    BY <1>2, <1>5, <1>6, <1>7, ImagesRemembers DEF Images!ImagesInv

-----------------------------------------------------------------------------
(* What people do beside that. *)

\* What is needed changes; the images and their names do not, or there is one more.
LEMMA ImagesNeedsChange ==
    ASSUME Images!ImagesInv, Images!Remembering, Images!JobsStand, UNCHANGED s2,
           s1' \in [Pair -> SUBSET Images!AllImages], s3' \in [Pair -> SUBSET ImageBuilds],
           s4' \in [Pair -> SUBSET Images!Launchable], s5' \in [Pair -> SUBSET ImageBuilds]
    PROVE  Images!ImagesInv'
  <1>1. Images!TypeOK'
    BY ImagesRemembersType DEF Images!ImagesInv, Images!TypeOK, Images!JobsStand
  <1>2. Images!AliasesFit'
    BY DEF Images!ImagesInv, Images!AliasesFit, Images!JobsStand
  <1>3. Images!NamesStay
    BY DEF Images!NamesStay, Images!Called, Images!Named
  <1>4. QED
    BY <1>1, <1>2, <1>3, ImagesRemembers DEF Images!ImagesInv

LEMMA ImagesJobsAsTheyAre == ASSUME Images!ImagesInv, UNCHANGED s6 PROVE Images!JobsStand
  BY DEF Images!ImagesInv, Images!TypeOK, Images!AliasesFit, Images!JobsStand

LEMMA ImagesPinKeeps ==
    ASSUME Images!ImagesInv, NEW n \in Pair, NEW b \in ImageBuilds, Images!Pin(n, b)
    PROVE  Images!ImagesInv'
  <1> DEFINE pins == s3  job == s6
  <1>1. Images!JobsStand
    <2>1. CASE Images!Tracked(n, Images!Job(n, Images!PinAlias(b), b, Pair \ {n}, "fetch"))
      BY <2>1, ImagesPinnedFits, ImagesNewJob, ImagesTrackedFits
    <2>2. CASE UNCHANGED job
      BY <2>2, ImagesJobsAsTheyAre
    <2>3. QED
      BY <2>1, <2>2 DEF Images!Pin
  <1>2. pins' \in [Pair -> SUBSET ImageBuilds]
    BY DEF Images!Pin, Images!ImagesInv, Images!TypeOK
  <1>3. QED
    BY <1>1, <1>2, ImagesNeedsChange DEF Images!Pin, Images!ImagesInv, Images!TypeOK

LEMMA ImagesPeopleKeep ==
    ASSUME Images!ImagesInv,
           \/ \E n \in Pair, b \in ImageBuilds : Images!Unpin(n, b) \/ Images!LaunchPinned(n, b)
           \/ \E n, m \in Pair : Images!PinTravels(n, m)
           \/ \E n \in Pair, names \in SUBSET Images!Launchable : Images!SaveTemplate(n, names)
           \/ \E n \in Pair, i \in Images!AllImages : Images!InstanceGoes(n, i)
    PROVE  Images!ImagesInv'
  <1> DEFINE held == s1  alias == s2  pins == s3  launched == s4  based == s5  job == s6
  <1>1. /\ held \in [Pair -> SUBSET Images!AllImages] /\ pins \in [Pair -> SUBSET ImageBuilds]
        /\ launched \in [Pair -> SUBSET Images!Launchable] /\ based \in [Pair -> SUBSET ImageBuilds]
    BY DEF Images!ImagesInv, Images!TypeOK
  <1>2. ImageBuilds \subseteq Images!AllImages
    BY DEF Images!AllImages
  <1>3. UNCHANGED <<alias, job>> /\ Images!Remembering
    BY DEF Images!Unpin, Images!LaunchPinned, Images!PinTravels, Images!SaveTemplate, Images!InstanceGoes
  <1>4. held' \in [Pair -> SUBSET Images!AllImages]
    BY <1>1, <1>2 DEF Images!Unpin, Images!LaunchPinned, Images!PinTravels, Images!SaveTemplate, Images!InstanceGoes
  <1>5. pins' \in [Pair -> SUBSET ImageBuilds]
    BY <1>1 DEF Images!Unpin, Images!LaunchPinned, Images!PinTravels, Images!SaveTemplate, Images!InstanceGoes
  <1>6. launched' \in [Pair -> SUBSET Images!Launchable]
    BY <1>1 DEF Images!Unpin, Images!LaunchPinned, Images!PinTravels, Images!SaveTemplate, Images!InstanceGoes
  <1>7. based' \in [Pair -> SUBSET ImageBuilds]
    BY <1>1 DEF Images!Unpin, Images!LaunchPinned, Images!PinTravels, Images!SaveTemplate, Images!InstanceGoes
  <1>8. QED
    BY <1>3, <1>4, <1>5, <1>6, <1>7, ImagesNeedsChange, ImagesJobsAsTheyAre

LEMMA ImagesDeleteImageKeeps ==
    ASSUME Images!ImagesInv, NEW n \in Pair, NEW i \in Images!AllImages, Images!DeleteImage(n, i)
    PROVE  Images!ImagesInv'
  <1> DEFINE held == s1  alias == s2  pins == s3  launched == s4  based == s5  job == s6
  <1>1. Images!Goes(n, i) /\ UNCHANGED <<pins, launched, based, job>> /\ Images!Remembering
    BY DEF Images!DeleteImage
  <1>2. /\ Images!NamesStay
        /\ \A m \in Pair, x \in Images!Names : alias'[m][x] # Images!NoImage => Images!Fits(x, alias'[m][x])
        /\ alias' \in [Pair -> [Images!Names -> Images!AllImages \cup {Images!NoImage}]]
        /\ held' \in [Pair -> SUBSET Images!AllImages]
    BY <1>1, ImagesGoingFits
  <1>3. Images!TypeOK'
    BY <1>1, <1>2, ImagesRemembersType DEF Images!ImagesInv, Images!TypeOK
  <1>4. Images!AliasesFit'
    BY <1>1, <1>2 DEF Images!ImagesInv, Images!AliasesFit
  <1>5. QED
    BY <1>1, <1>2, <1>3, <1>4, ImagesRemembers DEF Images!ImagesInv

-----------------------------------------------------------------------------
(* The prune. *)

\* One prune goes on; what is needed stays as it is.
LEMMA ImagesPruneGoesOn ==
    ASSUME Images!ImagesInv, NEW n \in Pair, NEW p \in Images!Prunes, s7' = [s7 EXCEPT ![n] = p],
           UNCHANGED <<s1, s2, s3, s4, s5, s6>>,
           p.still \subseteq Images!Needs(n),
           \A b \in ImageBuilds :
              /\ <<"based", b>> \in p.still => b \in p.based
              /\ p.at \in {"templates", "list", "delete"} /\ <<"pinned", b>> \in p.still => b \in p.pinned
              /\ p.at \in {"list", "delete"} /\ <<"launched", b>> \in p.still =>
                    Images!Called(n, b) \cap p.named # {}
              /\ p.at = "delete" /\ b \in p.list => \A need \in p.still : need[2] # b
    PROVE  Images!ImagesInv'
  <1> DEFINE prune == s7
  <1>1. prune \in [Pair -> Images!Prunes]
    BY DEF Images!ImagesInv, Images!TypeOK
  <1>2. Images!TypeOK' /\ Images!AliasesFit'
    BY <1>1 DEF Images!ImagesInv, Images!TypeOK, Images!AliasesFit
  <1>3. \A m \in Pair : Images!Needs(m)' = Images!Needs(m) /\ \A i : Images!Called(m, i)' = Images!Called(m, i)
    BY DEF Images!Needs, Images!Called, Images!Named
  <1>4. ASSUME NEW m \in Pair PROVE Images!PruneFits(m)'
    <2>1. CASE m = n
      <3>1. prune'[m] = p
        BY <1>1, <2>1
      <3>2. QED
        BY <1>3, <2>1, <3>1 DEF Images!PruneFits
    <2>2. CASE m # n
      <3>1. prune'[m] = prune[m] /\ Images!PruneFits(m)
        BY <1>1, <2>2 DEF Images!ImagesInv
      <3>2. QED
        BY <1>3, <3>1 DEF Images!PruneFits
    <2>3. QED
      BY <2>1, <2>2
  <1>5. QED
    BY <1>2, <1>4 DEF Images!ImagesInv

LEMMA ImagesPruneBeginsKeeps ==
    ASSUME Images!ImagesInv, NEW n \in Pair, NEW previewed \in BOOLEAN, Images!PruneBegins(n, previewed)
    PROVE  Images!ImagesInv'
  <1> DEFINE held == s1  alias == s2  pins == s3  launched == s4  based == s5  job == s6
             prune == s7
  <1> DEFINE only == IF previewed THEN Images!Unneeded(n) ELSE ImageBuilds
             p == [Images!NoPrune EXCEPT !.at = "pins", !.still = Images!Needs(n), !.based = based[n], !.only = only]
  <1>1. prune' = [prune EXCEPT ![n] = p] /\ UNCHANGED <<held, alias, pins, launched, based, job>>
    BY DEF Images!PruneBegins
  <1>2. only \subseteq ImageBuilds /\ based[n] \subseteq ImageBuilds
        /\ Images!Needs(n) \subseteq {"based", "pinned", "launched"} \X Images!AllImages
    BY ImagesNeedsAre DEF Images!Unneeded, Images!ImagesInv, Images!TypeOK
  <1>3. p.at = "pins" /\ p.still = Images!Needs(n) /\ p.based = based[n] /\ p \in Images!Prunes
    BY <1>2 DEF Images!NoPrune, Images!Prunes
  <1> HIDE DEF p, only
  <1>4. \A b \in ImageBuilds : <<"based", b>> \in p.still => b \in p.based
    BY <1>3, ImagesNeedOf
  <1>5. QED
    BY <1>1, <1>3, <1>4, ImagesPruneGoesOn

LEMMA ImagesPruneReadsKeep ==
    ASSUME Images!ImagesInv, NEW n \in Pair, Images!PruneReadsPins(n) \/ Images!PruneReadsTemplates(n)
    PROVE  Images!ImagesInv'
  <1> DEFINE held == s1  alias == s2  pins == s3  launched == s4  based == s5  job == s6
             prune == s7
  <1>1. prune[n] \in Images!Prunes /\ Images!PruneFits(n) /\ pins[n] \subseteq ImageBuilds /\ launched[n] \subseteq Images!Launchable
    BY DEF Images!ImagesInv, Images!TypeOK
  <1>2. UNCHANGED <<held, alias, pins, launched, based, job>>
    BY DEF Images!PruneReadsPins, Images!PruneReadsTemplates
  <1>3. CASE Images!PruneReadsPins(n)
    <2> DEFINE p == [prune[n] EXCEPT !.at = "templates", !.pinned = pins[n]]
    <2>1. prune' = [prune EXCEPT ![n] = p]
      BY <1>3 DEF Images!PruneReadsPins, Images!PinsRead
    <2>2. p \in Images!Prunes /\ p.at = "templates" /\ p.pinned = pins[n] /\ p.still = prune[n].still
          /\ p.based = prune[n].based
      BY <1>1 DEF Images!Prunes
    <2> HIDE DEF p
    <2>3. p.still \subseteq Images!Needs(n) /\ \A b \in ImageBuilds : <<"based", b>> \in p.still => b \in p.based
      BY <1>1, <2>2 DEF Images!PruneFits
    <2>4. \A b \in ImageBuilds : <<"pinned", b>> \in p.still => b \in p.pinned
      BY <2>2, <2>3, ImagesNeedOf
    <2>5. QED
      BY <1>2, <2>1, <2>2, <2>3, <2>4, ImagesPruneGoesOn
  <1>4. CASE Images!PruneReadsTemplates(n)
    <2> DEFINE p == [prune[n] EXCEPT !.at = "list", !.named = launched[n]]
    <2>1. prune' = [prune EXCEPT ![n] = p]
      BY <1>4 DEF Images!PruneReadsTemplates
    <2>2. p \in Images!Prunes /\ p.at = "list" /\ p.pinned = prune[n].pinned /\ p.still = prune[n].still
          /\ p.based = prune[n].based /\ p.named = launched[n]
      BY <1>1 DEF Images!Prunes
    <2> HIDE DEF p
    <2>3. p.still \subseteq Images!Needs(n)
          /\ \A b \in ImageBuilds :
                /\ <<"based", b>> \in p.still => b \in p.based
                /\ <<"pinned", b>> \in p.still => b \in p.pinned
      BY <1>1, <1>4, <2>2 DEF Images!PruneFits, Images!PruneReadsTemplates
    <2>4. \A b \in ImageBuilds : <<"launched", b>> \in p.still => Images!Called(n, b) \cap p.named # {}
      BY <2>2, <2>3, ImagesNeedOf
    <2>5. /\ p \in Images!Prunes /\ p.at = "list" /\ p.still \subseteq Images!Needs(n)
          /\ \A b \in ImageBuilds :
                /\ <<"based", b>> \in p.still => b \in p.based
                /\ <<"pinned", b>> \in p.still => b \in p.pinned
                /\ <<"launched", b>> \in p.still => Images!Called(n, b) \cap p.named # {}
      BY <2>2, <2>3, <2>4
    <2>6. QED
      BY <1>2, <2>1, <2>5, ImagesPruneGoesOn
  <1>5. QED
    BY <1>3, <1>4

\* It lists nothing that has been needed all along.
LEMMA ImagesPruneListsKeeps ==
    ASSUME Images!ImagesInv, NEW n \in Pair, Images!PruneLists(n)
    PROVE  Images!ImagesInv'
  <1> DEFINE held == s1  alias == s2  pins == s3  launched == s4  based == s5  job == s6
             prune == s7
  <1> DEFINE q == prune[n]
             list == {i \in held[n] \cap ImageBuilds \cap q.only :
                        i \notin q.based \cup q.pinned /\ Images!Called(n, i) \cap q.named = {}}
             p == [q EXCEPT !.at = "delete", !.list = list]
  <1>1. q \in Images!Prunes /\ Images!PruneFits(n) /\ q.at = "list"
    BY DEF Images!ImagesInv, Images!TypeOK, Images!PruneLists
  <1>2. prune' = [prune EXCEPT ![n] = p] /\ UNCHANGED <<held, alias, pins, launched, based, job>>
    BY DEF Images!PruneLists
  <1>3. list \in SUBSET ImageBuilds
    OBVIOUS
  <1>4. p \in Images!Prunes /\ p.at = "delete" /\ p.still = q.still /\ p.based = q.based
        /\ p.pinned = q.pinned /\ p.named = q.named /\ p.list = list
    <2> HIDE DEF list
    <2> QED BY <1>1, <1>3 DEF Images!Prunes
  <1>5. ASSUME NEW b \in list, NEW need \in q.still PROVE need[2] # b
    <2>1. q.still \subseteq {"based", "pinned", "launched"} \X Images!AllImages
      BY <1>1 DEF Images!Prunes
    <2>2. b \in ImageBuilds /\ b \notin q.based /\ b \notin q.pinned /\ Images!Called(n, b) \cap q.named = {}
      OBVIOUS
    <2> HIDE DEF list
    <2>3. <<"based", b>> \notin q.still /\ <<"pinned", b>> \notin q.still /\ <<"launched", b>> \notin q.still
      BY <1>1, <2>2 DEF Images!PruneFits
    <2>4. PICK kind \in {"based", "pinned", "launched"}, i \in Images!AllImages : need = <<kind, i>>
      BY <2>1
    <2>5. QED
      BY <2>3, <2>4
  <1> HIDE DEF p, list
  <1>6. /\ p.still \subseteq Images!Needs(n)
        /\ \A b \in ImageBuilds :
              /\ <<"based", b>> \in p.still => b \in p.based
              /\ <<"pinned", b>> \in p.still => b \in p.pinned
              /\ <<"launched", b>> \in p.still => Images!Called(n, b) \cap p.named # {}
    BY <1>1, <1>4 DEF Images!PruneFits
  <1>7. QED
    BY <1>2, <1>4, <1>5, <1>6, ImagesPruneGoesOn

LEMMA ImagesPruneEndsKeeps ==
    ASSUME Images!ImagesInv, NEW n \in Pair, Images!PruneEnds(n)
    PROVE  Images!ImagesInv'
  <1>1. Images!NoPrune \in Images!Prunes /\ Images!NoPrune.still = {}
    BY DEF Images!NoPrune, Images!Prunes
  <1>2. QED
    BY <1>1, ImagesPruneGoesOn DEF Images!PruneEnds

\* What it deletes was in nobody's way: no prune here remembers a need of it, and the
\* others look at their own images.
LEMMA ImagesPruneDeletesKeeps ==
    ASSUME Images!ImagesInv, NEW n \in Pair, NEW i \in Images!AllImages, Images!PruneDeletes(n, i)
    PROVE  Images!ImagesInv'
  <1> DEFINE held == s1  alias == s2  pins == s3  launched == s4  based == s5  job == s6
             prune == s7
  <1> DEFINE p == [prune[n] EXCEPT !.list = @ \ {i}]
  <1>1. prune \in [Pair -> Images!Prunes] /\ prune[n] \in Images!Prunes /\ Images!PruneFits(n)
    BY DEF Images!ImagesInv, Images!TypeOK
  <1>2. /\ Images!Goes(n, i) /\ prune' = [prune EXCEPT ![n] = p]
        /\ UNCHANGED <<pins, launched, based, job>>
        /\ prune[n].at = "delete" /\ i \in prune[n].list
    BY DEF Images!PruneDeletes
  <1>3. /\ Images!NamesStay
        /\ \A m \in Pair, x \in Images!Names : alias'[m][x] # Images!NoImage => Images!Fits(x, alias'[m][x])
        /\ alias' \in [Pair -> [Images!Names -> Images!AllImages \cup {Images!NoImage}]]
        /\ held' \in [Pair -> SUBSET Images!AllImages]
        /\ \A m \in Pair : held'[m] = IF m = n THEN held[m] \ {i} ELSE held[m]
        /\ \A m \in Pair : \A j : j # i \/ m # n => Images!Called(m, j) \subseteq Images!Called(m, j)'
    BY <1>2, ImagesGoingFits
  <1>4. p \in Images!Prunes /\ p.at = "delete" /\ p.still = prune[n].still /\ p.based = prune[n].based
        /\ p.pinned = prune[n].pinned /\ p.named = prune[n].named /\ p.list = prune[n].list \ {i}
    BY <1>1, <1>2 DEF Images!Prunes
  <1> HIDE DEF p
  <1>5. Images!TypeOK' /\ Images!AliasesFit'
    BY <1>1, <1>2, <1>3, <1>4 DEF Images!ImagesInv, Images!TypeOK, Images!AliasesFit
  <1>6. i \in ImageBuilds /\ \A need \in prune[n].still : need[2] # i
    <2>1. i \in ImageBuilds
      BY <1>1, <1>2 DEF Images!Prunes
    <2>2. QED
      BY <1>1, <1>2, <2>1 DEF Images!PruneFits
  <1>7. \A m \in Pair : prune'[m] = IF m = n THEN p ELSE prune[m]
    BY <1>1, <1>2
  <1>8. ASSUME NEW m \in Pair PROVE Images!PruneFits(m)'
    <2>1. Images!PruneFits(m)
      BY DEF Images!ImagesInv
    <2>2. /\ prune'[m].still = prune[m].still /\ prune'[m].at = prune[m].at
          /\ prune'[m].based = prune[m].based /\ prune'[m].pinned = prune[m].pinned
          /\ prune'[m].named = prune[m].named /\ prune'[m].list \subseteq prune[m].list
      BY <1>4, <1>7, <1>2
    <2>3. ASSUME NEW j, <<"launched", j>> \in prune[m].still
          PROVE  j # i \/ m # n
      BY <1>6, <2>3
    <2>4. prune[m].still \subseteq Images!Needs(m)'
      <3> SUFFICES ASSUME NEW need \in prune[m].still PROVE need \in Images!Needs(m)'
        OBVIOUS
      <3>1. need \in Images!Needs(m)
        BY <2>1 DEF Images!PruneFits
      <3>2. CASE need \in ({"based"} \X based[m]) \cup ({"pinned"} \X pins[m])
        BY <1>2, <3>2 DEF Images!Needs
      <3>3. ASSUME NEW j \in held[m], need = <<"launched", j>>, Images!Called(m, j) \cap launched[m] # {}
            PROVE  need \in Images!Needs(m)'
        <4>1. j # i \/ m # n
          BY <2>3, <3>3
        <4>2. Images!Called(m, j) \subseteq Images!Called(m, j)' /\ j \in held'[m]
          BY <1>3, <4>1
        <4>3. Images!Called(m, j)' \cap launched'[m] # {}
          BY <1>2, <3>3, <4>2
        <4>4. QED
          BY <3>3, <4>2, <4>3 DEF Images!Needs
      <3>4. QED
        BY <3>1, <3>2, <3>3 DEF Images!Needs
    <2>5. ASSUME NEW b \in ImageBuilds, prune[m].at \in {"list", "delete"}, <<"launched", b>> \in prune[m].still
          PROVE  Images!Called(m, b)' \cap prune[m].named # {}
      <3>1. Images!Called(m, b) \subseteq Images!Called(m, b)'
        BY <1>3, <2>3, <2>5
      <3>2. QED
        BY <2>1, <2>5, <3>1 DEF Images!PruneFits
    <2>6. QED
      BY <2>1, <2>2, <2>4, <2>5 DEF Images!PruneFits
  <1>9. QED
    BY <1>5, <1>8 DEF Images!ImagesInv

-----------------------------------------------------------------------------
LEMMA ImagesStep == Images!ImagesAssumption /\ Images!ImagesInv /\ [Images!Next]_(Images!imageVars) => Images!ImagesInv'
  <1> DEFINE job == s6
  <1> SUFFICES ASSUME Images!ImagesAssumption, Images!ImagesInv, [Images!Next]_(Images!imageVars) PROVE Images!ImagesInv'
    OBVIOUS
  <1>1. ASSUME NEW n \in Pair, NEW a \in Images!Given, NEW i \in ImageMade, NEW to \in SUBSET Pair, Images!Publish(n, i, a, to)
        PROVE  Images!ImagesInv'
    BY <1>1, ImagesPublishKeeps
  <1>2. ASSUME NEW n \in Pair, NEW a \in Images!Names, NEW to \in SUBSET Pair, Images!Copy(n, a, to) PROVE Images!ImagesInv'
    BY <1>2, ImagesCopyKeeps
  <1>3. ASSUME NEW n \in Pair, NEW b \in ImageBuilds,
               Images!Pin(n, b) \/ Images!FetchAgain(n, b) \/ Images!Unpin(n, b) \/ Images!LaunchPinned(n, b)
        PROVE  Images!ImagesInv'
    BY <1>3, ImagesPinKeeps, ImagesFetchAgainKeeps, ImagesPeopleKeep
  <1>4. ASSUME NEW n \in Pair, NEW m \in Pair, Images!PinTravels(n, m) PROVE Images!ImagesInv'
    BY <1>4, ImagesPeopleKeep
  <1>5. ASSUME NEW n \in Pair, NEW names \in SUBSET Images!Launchable, Images!SaveTemplate(n, names) PROVE Images!ImagesInv'
    BY <1>5, ImagesPeopleKeep
  <1>6. ASSUME NEW n \in Pair, NEW i \in Images!AllImages, Images!InstanceGoes(n, i) \/ Images!DeleteImage(n, i) \/ Images!PruneDeletes(n, i)
        PROVE  Images!ImagesInv'
    BY <1>6, ImagesPeopleKeep, ImagesDeleteImageKeeps, ImagesPruneDeletesKeeps
  <1>7. ASSUME NEW n \in Pair,
               \/ \E previewed \in BOOLEAN : Images!PruneBegins(n, previewed)
               \/ Images!PruneReadsPins(n) \/ Images!PruneReadsTemplates(n) \/ Images!PruneLists(n) \/ Images!PruneEnds(n)
        PROVE  Images!ImagesInv'
    BY <1>7, ImagesPruneBeginsKeeps, ImagesPruneReadsKeep, ImagesPruneListsKeeps, ImagesPruneEndsKeeps
  <1>8. ASSUME NEW k \in DOMAIN job,
               \/ Images!PublishStarts(k) \/ Images!PublishMade(k) \/ Images!PublishNamed(k) \/ Images!Fetched(k) \/ Images!FetchFails(k)
               \/ Images!JobEnds(k)
               \/ \E m \in Pair : Images!Sends(k, m) \/ Images!Arrives(k, m) \/ Images!SendFails(k, m)
        PROVE  Images!ImagesInv'
    BY <1>8, ImagesJobStepKeeps, ImagesMadeKeeps, ImagesPublishNamedKeeps, ImagesArrivesKeeps
  <1>9. ASSUME UNCHANGED Images!imageVars PROVE Images!ImagesInv'
    BY <1>9, ImagesJobsAsTheyAre, ImagesOnlyJobs DEF Images!imageVars
  <1>10. QED
    BY <1>1, <1>2, <1>3, <1>4, <1>5, <1>6, <1>7, <1>8, <1>9 DEF Images!Next

LEMMA ImagesGives == Images!ImagesInv => Images!NeededStays
  <1> DEFINE prune == s7
  <1> SUFFICES ASSUME Images!ImagesInv, NEW n \in Pair, NEW i \in Images!AllImages, Images!PruneDeletes(n, i)
               PROVE  i \in ImageBuilds /\ \A need \in prune[n].still : need[2] # i
    BY DEF Images!NeededStays
  <1>1. prune[n] \in Images!Prunes /\ Images!PruneFits(n) /\ prune[n].at = "delete" /\ i \in prune[n].list
    BY DEF Images!ImagesInv, Images!TypeOK, Images!PruneDeletes
  <1>2. i \in ImageBuilds
    BY <1>1 DEF Images!Prunes
  <1>3. QED
    BY <1>1, <1>2 DEF Images!PruneFits

-----------------------------------------------------------------------------
(* A storage pool and what lies on it.                                       *)
LEMMA PoolInit == Pool!Init => Pool!PoolInv
  <1> DEFINE pool == s1  instance == s2  image == s3  volume == s4  profile == s5
             foreign == s6  changes == s9
  <1> SUFFICES ASSUME Pool!Init PROVE Pool!PoolInv
    OBVIOUS
  <1>1. Pool!NoPlan \in Pool!Plans
    BY DEF Pool!NoPlan, Pool!Plans
  <1>2. Pool!NoJob \in Pool!Jobs /\ Pool!NoJob.at = "none"
    BY <1>1 DEF Pool!NoJob, Pool!Jobs
  <1>3. pool \in Pool!Pools
    <2>1. PICK d \in Pool!Drivers : pool = [is |-> TRUE, driver |-> d, size |-> 1,
                                       zpool |-> IF d = "zfs" THEN "imported" ELSE "none"]
      BY DEF Pool!Init
    <2> DEFINE zpool == IF d = "zfs" THEN "imported" ELSE "none"
    <2>2. zpool \in {"none", "imported", "exported", "destroyed"}
      OBVIOUS
    <2>3. pool = [is |-> TRUE, driver |-> d, size |-> 1, zpool |-> zpool]
      BY <2>1
    <2> HIDE DEF zpool
    <2>4. QED
      BY <2>2, <2>3 DEF Pool!Pools
  <1>4. instance \in [PoolMachines -> Pool!Instance]
    <2>1. [is : {TRUE}, on : Pool!Places, with : SUBSET PoolVolumes] \subseteq Pool!Instance
      BY DEF Pool!Instance
    <2>2. Pool!Gone \in Pool!Instance
      BY DEF Pool!Gone, Pool!Instance, Pool!Places
    <2>3. QED
      BY <2>1, <2>2 DEF Pool!Init
  <1>5. image \in [PoolFingerprints -> {"none", "pool", "elsewhere"}] /\ volume \in [PoolVolumes -> Int]
        /\ profile \in [PoolProfiles -> SUBSET Pool!Places] /\ foreign \in BOOLEAN /\ changes \in Int
    BY DEF Pool!Init, Pool!Places
  <1>6. Pool!TypeOK
    BY <1>2, <1>3, <1>4, <1>5 DEF Pool!TypeOK, Pool!Init
  <1>7. QED
    BY <1>2, <1>6 DEF Pool!Init, Pool!PoolInv, Pool!LeftIsShown, Pool!LeftIsDue, Pool!ReadingHolds

\* The plan lists parts of what there is, and why.
LEMMA PoolPlanIsIn ==
    ASSUME Pool!TypeOK
    PROVE  /\ Pool!Plan \in Pool!Plans
           /\ \A i \in Pool!Plan.instances : s2[i].on = "pool"
           /\ \A i \in Pool!Plan.attached : s2[i].with # {}
  <1> DEFINE instance == s2  foreign == s6
  <1>1. Pool!Stored \subseteq PoolMachines /\ Pool!Cached \subseteq PoolFingerprints /\ Pool!There \subseteq PoolVolumes
        /\ Pool!Naming \subseteq PoolProfiles /\ \A v \in PoolVolumes : Pool!Users(v) \subseteq PoolMachines
    BY DEF Pool!Stored, Pool!Cached, Pool!There, Pool!Naming, Pool!Users
  <1>2. UNION {Pool!Users(v) : v \in Pool!There} \ Pool!Stored \subseteq PoolMachines
    BY <1>1
  <1>3. foreign \in BOOLEAN
    BY DEF Pool!TypeOK
  <1>4. Pool!Plan \in Pool!Plans
    BY <1>1, <1>2, <1>3 DEF Pool!Plan, Pool!Plans
  <1>5. \A i \in Pool!Plan.instances : instance[i].on = "pool"
    BY DEF Pool!Plan, Pool!Stored
  <1>6. ASSUME NEW i \in Pool!Plan.attached PROVE instance[i].with # {}
    <2>1. PICK v \in Pool!There : i \in Pool!Users(v)
      BY DEF Pool!Plan
    <2>2. QED
      BY <2>1 DEF Pool!Users
  <1>7. QED
    BY <1>4, <1>5, <1>6

\* What keeps the data, the plan and what the job read as they are.
LEMMA PoolJobGoesOn ==
    ASSUME Pool!PoolInv, NEW j \in Pool!Jobs, s7' = j,
           j.at \in {"none", "asked", "told", "failed", "deleted"},
           Pool!TypeOK'
    PROVE  Pool!PoolInv'
  BY DEF Pool!PoolInv, Pool!LeftIsShown, Pool!LeftIsDue, Pool!ReadingHolds

LEMMA PoolShowKeeps ==
    ASSUME Pool!PoolInv, NEW force \in BOOLEAN, Pool!Show(force)
    PROVE  Pool!PoolInv'
  <1> DEFINE job == s7
  <1> DEFINE j == [Pool!NoJob EXCEPT !.at = "asked", !.force = force, !.shown = Pool!Plan]
  <1>1. Pool!Plan \in Pool!Plans /\ Pool!NoPlan \in Pool!Plans
    BY PoolPlanIsIn DEF Pool!PoolInv, Pool!NoPlan, Pool!Plans
  <1>2. j \in Pool!Jobs /\ j.at = "asked"
    BY <1>1 DEF Pool!NoJob, Pool!Jobs
  <1>3. job' = j
    BY DEF Pool!Show
  <1> HIDE DEF j
  <1>4. Pool!TypeOK'
    BY <1>2, <1>3 DEF Pool!Show, Pool!PoolInv, Pool!TypeOK
  <1>5. QED
    BY <1>2, <1>3, <1>4, PoolJobGoesOn

LEMMA PoolBeginKeeps ==
    ASSUME Pool!PoolInv, Pool!Begin
    PROVE  Pool!PoolInv'
  <1> DEFINE pool == s1  instance == s2  job == s7
  <1> DEFINE at == IF ~pool.is \/ Pool!Refused THEN "told" ELSE "removes"
             left == IF job.force THEN Pool!Plan ELSE Pool!NoPlan
             j == [job EXCEPT !.at = at, !.left = left]
  <1>1. Pool!Plan \in Pool!Plans /\ Pool!NoPlan \in Pool!Plans /\ job \in Pool!Jobs
    BY PoolPlanIsIn DEF Pool!PoolInv, Pool!TypeOK, Pool!NoPlan, Pool!Plans
  <1>2. left \in Pool!Plans /\ at \in {"told", "removes"}
    BY <1>1
  <1>3. job' = j
    BY DEF Pool!Begin
  <1>4. j \in Pool!Jobs /\ j.at = at /\ j.left = left /\ j.force = job.force /\ j.shown = job.shown
    <2> HIDE DEF at, left
    <2> QED BY <1>1, <1>2 DEF Pool!Jobs
  <1> HIDE DEF j
  <1>5. Pool!TypeOK'
    BY <1>3, <1>4 DEF Pool!Begin, Pool!PoolInv, Pool!TypeOK
  <1>6. CASE at = "told"
    BY <1>3, <1>4, <1>5, <1>6, PoolJobGoesOn
  <1>7. CASE at = "removes"
    <2>1. pool.is /\ ~Pool!Refused
      BY <1>7
    <2>2. Pool!LeftIsShown'
      <3>1. job.force => left = job.shown
        BY <2>1 DEF Pool!Refused, Pool!AsShown
      <3>2. ~job.force => left = Pool!NoPlan
        OBVIOUS
      <3>3. pool'.is
        BY <2>1 DEF Pool!Begin
      <3> HIDE DEF left
      <3>4. QED
        BY <1>3, <1>4, <3>1, <3>2, <3>3 DEF Pool!LeftIsShown, Pool!Covers
    <2>3. \A i \in left.instances : instance[i].on = "pool"
      BY PoolPlanIsIn DEF Pool!PoolInv, Pool!NoPlan
    <2>4. \A i \in left.attached : instance[i].with # {}
      BY PoolPlanIsIn DEF Pool!PoolInv, Pool!NoPlan
    <2>5. Pool!LeftIsDue'
      <3> HIDE DEF left, at
      <3> QED
        BY <1>3, <1>4, <2>3, <2>4 DEF Pool!LeftIsDue, Pool!Begin
    <2>6. Pool!ReadingHolds'
      BY <1>3, <1>4, <1>7 DEF Pool!ReadingHolds
    <2>7. QED
      BY <1>5, <2>2, <2>5, <2>6 DEF Pool!PoolInv
  <1>8. QED
    BY <1>2, <1>6, <1>7

\* A step of the removal takes something off what is left, or fails.
LEMMA PoolRemovalGoesOn ==
    ASSUME Pool!PoolInv, Pool!Working, Pool!TypeOK', NEW j \in Pool!Jobs, s7' = j, j.at = "removes",
           j.force = s7.force, j.shown = s7.shown, Pool!Covers(s7.left, j.left),
           s1' = s1, s8' = s8,
           \A i \in j.left.instances \cup j.left.attached : s2'[i] = s2[i]
    PROVE  Pool!PoolInv'
  <1>1. Pool!LeftIsShown'
    BY DEF Pool!PoolInv, Pool!Working, Pool!LeftIsShown, Pool!Covers
  <1>2. Pool!LeftIsDue'
    BY DEF Pool!PoolInv, Pool!Working, Pool!LeftIsDue, Pool!Covers
  <1>3. Pool!ReadingHolds'
    BY DEF Pool!ReadingHolds
  <1>4. QED
    BY <1>1, <1>2, <1>3 DEF Pool!PoolInv

\* What a failure leaves: a job that does nothing more.
LEMMA PoolFailureKeeps ==
    ASSUME Pool!PoolInv, s7' = [s7 EXCEPT !.at = "failed"],
           UNCHANGED <<s1, s2, s4, s5, s6, s9>>,
           s3' \in [PoolFingerprints -> {"none", "pool", "elsewhere"}]
    PROVE  Pool!PoolInv'
  <1> DEFINE job == s7
  <1> DEFINE j == [job EXCEPT !.at = "failed"]
  <1>1. j \in Pool!Jobs /\ j.at = "failed"
    BY DEF Pool!PoolInv, Pool!TypeOK, Pool!Jobs
  <1> HIDE DEF j
  <1>2. job' = j
    BY DEF j
  <1>3. Pool!TypeOK'
    BY <1>1, <1>2 DEF Pool!PoolInv, Pool!TypeOK
  <1>4. QED
    BY <1>1, <1>2, <1>3, PoolJobGoesOn

LEMMA PoolInstanceGoesKeeps ==
    ASSUME Pool!PoolInv, NEW i \in PoolMachines, Pool!InstanceGoes(i)
    PROVE  Pool!PoolInv'
  <1> DEFINE pool == s1  instance == s2  job == s7  crossed == s8
  <1>1. CASE instance[i].is
    <2> DEFINE left == [job.left EXCEPT !.instances = @ \ {i}, !.attached = @ \ {i}]
               j == [job EXCEPT !.left = left]
    <2>1. job \in Pool!Jobs /\ job.left \in Pool!Plans /\ job.at = "removes"
      BY DEF Pool!PoolInv, Pool!TypeOK, Pool!Jobs, Pool!InstanceGoes, Pool!Working
    <2>2. left \in Pool!Plans /\ left.instances = job.left.instances \ {i}
          /\ left.attached = job.left.attached \ {i} /\ Pool!Covers(job.left, left)
      BY <2>1 DEF Pool!Plans, Pool!Covers
    <2>3. job' = j /\ instance' = [instance EXCEPT ![i] = Pool!Gone]
      BY <1>1, <2>1 DEF Pool!InstanceGoes, Pool!Jobs, Pool!Plans
    <2>4. j \in Pool!Jobs /\ j.at = "removes" /\ j.left = left /\ j.force = job.force /\ j.shown = job.shown
      <3> HIDE DEF left
      <3> QED BY <2>1, <2>2 DEF Pool!Jobs
    <2> HIDE DEF j, left
    <2>5. Pool!Gone \in Pool!Instance
      BY DEF Pool!Gone, Pool!Instance, Pool!Places
    <2>6. Pool!TypeOK'
      BY <2>3, <2>4, <2>5 DEF Pool!InstanceGoes, Pool!PoolInv, Pool!TypeOK
    <2>7. \A k \in left.instances \cup left.attached : instance'[k] = instance[k]
      BY <2>2, <2>3 DEF Pool!PoolInv, Pool!TypeOK
    <2>8. Pool!Working /\ pool' = pool /\ crossed' = crossed
      BY DEF Pool!InstanceGoes
    <2>9. QED
      BY <2>2, <2>3, <2>4, <2>6, <2>7, <2>8, PoolRemovalGoesOn
  <1>2. CASE ~instance[i].is
    BY <1>2, PoolFailureKeeps DEF Pool!InstanceGoes, Pool!PoolInv, Pool!TypeOK
  <1>3. QED
    BY <1>1, <1>2

LEMMA PoolProfileReadKeeps ==
    ASSUME Pool!PoolInv, NEW p \in PoolProfiles, Pool!ProfileRead(p)
    PROVE  Pool!PoolInv'
  <1> DEFINE profile == s5  job == s7  crossed == s8
  <1> DEFINE j == [job EXCEPT !.at = "profile", !.of = {p}, !.read = profile[p]]
  <1>1. job \in Pool!Jobs /\ job.at = "removes" /\ profile[p] \in SUBSET Pool!Places
    BY DEF Pool!PoolInv, Pool!TypeOK, Pool!ProfileRead, Pool!Working
  <1>2. j \in Pool!Jobs /\ j.at = "profile" /\ j.of = {p} /\ j.read = profile[p] /\ j.left = job.left
        /\ j.force = job.force /\ j.shown = job.shown
    BY <1>1 DEF Pool!Jobs
  <1>3. job' = j
    BY DEF Pool!ProfileRead
  <1> HIDE DEF j
  <1>4. Pool!TypeOK'
    BY <1>2, <1>3 DEF Pool!ProfileRead, Pool!PoolInv, Pool!TypeOK
  <1>5. Pool!LeftIsShown'
    BY <1>1, <1>2, <1>3 DEF Pool!ProfileRead, Pool!PoolInv, Pool!LeftIsShown
  <1>6. \A i \in PoolMachines : <<"instance", i>> \notin crossed' => <<"instance", i>> \notin crossed
    BY DEF Pool!ProfileRead
  <1>7. Pool!LeftIsDue'
    BY <1>1, <1>2, <1>3, <1>6 DEF Pool!ProfileRead, Pool!PoolInv, Pool!LeftIsDue
  <1>8. Pool!ReadingHolds'
    BY <1>2, <1>3 DEF Pool!ProfileRead, Pool!ReadingHolds
  <1>9. QED
    BY <1>4, <1>5, <1>7, <1>8 DEF Pool!PoolInv

LEMMA PoolProfileWrittenKeeps ==
    ASSUME Pool!PoolInv, NEW p \in PoolProfiles, Pool!ProfileWritten(p)
    PROVE  Pool!PoolInv'
  <1> DEFINE job == s7
  <1> DEFINE left == [job.left EXCEPT !.profiles = @ \ {p}]
             j == [job EXCEPT !.at = "removes", !.left = left, !.of = {}, !.read = {}]
  <1>1. job \in Pool!Jobs /\ job.left \in Pool!Plans /\ job.at = "profile"
    BY DEF Pool!PoolInv, Pool!TypeOK, Pool!Jobs, Pool!ProfileWritten
  <1>2. left \in Pool!Plans /\ Pool!Covers(job.left, left)
    BY <1>1 DEF Pool!Plans, Pool!Covers
  <1>3. job' = j
    BY <1>1 DEF Pool!ProfileWritten, Pool!Jobs, Pool!Plans
  <1>4. j \in Pool!Jobs /\ j.at = "removes" /\ j.left = left /\ j.force = job.force /\ j.shown = job.shown
    <2> HIDE DEF left
    <2> QED BY <1>1, <1>2 DEF Pool!Jobs
  <1> HIDE DEF j, left
  <1>5. Pool!TypeOK'
    BY <1>1, <1>3, <1>4 DEF Pool!ProfileWritten, Pool!PoolInv, Pool!TypeOK, Pool!Jobs
  <1>6. Pool!LeftIsShown'
    BY <1>1, <1>2, <1>3, <1>4 DEF Pool!ProfileWritten, Pool!PoolInv, Pool!LeftIsShown, Pool!Covers
  <1>7. Pool!LeftIsDue'
    BY <1>1, <1>2, <1>3, <1>4 DEF Pool!ProfileWritten, Pool!PoolInv, Pool!LeftIsDue, Pool!Covers
  <1>8. Pool!ReadingHolds'
    BY <1>3, <1>4 DEF Pool!ReadingHolds
  <1>9. QED
    BY <1>5, <1>6, <1>7, <1>8 DEF Pool!PoolInv

LEMMA PoolImageGoesKeeps ==
    ASSUME Pool!PoolInv, NEW f \in PoolFingerprints, Pool!ImageGoes(f)
    PROVE  Pool!PoolInv'
  <1> DEFINE pool == s1  instance == s2  image == s3  job == s7  crossed == s8
  <1>1. image' \in [PoolFingerprints -> {"none", "pool", "elsewhere"}]
    BY DEF Pool!ImageGoes, Pool!PoolInv, Pool!TypeOK
  <1>2. CASE image[f] = "none"
    BY <1>1, <1>2, PoolFailureKeeps DEF Pool!ImageGoes
  <1>3. CASE image[f] # "none"
    <2> DEFINE left == [job.left EXCEPT !.images = @ \ {f}]
               j == [job EXCEPT !.left = left]
    <2>1. job \in Pool!Jobs /\ job.left \in Pool!Plans /\ job.at = "removes"
      BY DEF Pool!PoolInv, Pool!TypeOK, Pool!Jobs, Pool!ImageGoes, Pool!Working
    <2>2. left \in Pool!Plans /\ Pool!Covers(job.left, left)
      BY <2>1 DEF Pool!Plans, Pool!Covers
    <2>3. job' = j
      BY <1>3, <2>1 DEF Pool!ImageGoes, Pool!Jobs, Pool!Plans
    <2>4. j \in Pool!Jobs /\ j.at = "removes" /\ j.left = left /\ j.force = job.force /\ j.shown = job.shown
      <3> HIDE DEF left
      <3> QED BY <2>1, <2>2 DEF Pool!Jobs
    <2> HIDE DEF j, left
    <2>5. Pool!TypeOK'
      BY <1>1, <2>3, <2>4 DEF Pool!ImageGoes, Pool!PoolInv, Pool!TypeOK
    <2>6. Pool!Working /\ UNCHANGED <<pool, instance, crossed>>
      BY DEF Pool!ImageGoes
    <2>7. QED
      BY <2>2, <2>3, <2>4, <2>5, <2>6, PoolRemovalGoesOn
  <1>4. QED
    BY <1>2, <1>3

LEMMA PoolVolumeGoesKeeps ==
    ASSUME Pool!PoolInv, NEW v \in PoolVolumes, Pool!VolumeGoes(v)
    PROVE  Pool!PoolInv'
  <1> DEFINE pool == s1  instance == s2  volume == s4  job == s7  crossed == s8
  <1>1. CASE volume[v] > 0 /\ Pool!Users(v) = {}
    <2> DEFINE left == [job.left EXCEPT !.volumes = @ \ {v}]
               j == [job EXCEPT !.left = left]
    <2>1. job \in Pool!Jobs /\ job.left \in Pool!Plans /\ job.at = "removes"
      BY DEF Pool!PoolInv, Pool!TypeOK, Pool!Jobs, Pool!VolumeGoes, Pool!Working
    <2>2. left \in Pool!Plans /\ Pool!Covers(job.left, left)
      BY <2>1 DEF Pool!Plans, Pool!Covers
    <2>3. job' = j /\ volume' = [volume EXCEPT ![v] = 0]
      BY <1>1, <2>1 DEF Pool!VolumeGoes, Pool!Jobs, Pool!Plans
    <2>4. j \in Pool!Jobs /\ j.at = "removes" /\ j.left = left /\ j.force = job.force /\ j.shown = job.shown
      <3> HIDE DEF left
      <3> QED BY <2>1, <2>2 DEF Pool!Jobs
    <2> HIDE DEF j, left
    <2>5. Pool!TypeOK'
      BY <2>3, <2>4 DEF Pool!VolumeGoes, Pool!PoolInv, Pool!TypeOK
    <2>6. Pool!Working /\ UNCHANGED <<pool, instance, crossed>>
      BY DEF Pool!VolumeGoes
    <2>7. QED
      BY <2>2, <2>3, <2>4, <2>5, <2>6, PoolRemovalGoesOn
  <1>2. CASE ~(volume[v] > 0 /\ Pool!Users(v) = {})
    BY <1>2, PoolFailureKeeps DEF Pool!VolumeGoes, Pool!PoolInv, Pool!TypeOK
  <1>3. QED
    BY <1>1, <1>2

LEMMA PoolRejectedKeeps == Pool!PoolInv /\ Pool!Rejected => Pool!PoolInv'
  BY PoolFailureKeeps DEF Pool!Rejected, Pool!PoolInv, Pool!TypeOK

LEMMA PoolLooksKeeps ==
    ASSUME Pool!PoolInv, Pool!Looks
    PROVE  Pool!PoolInv'
  <1> DEFINE job == s7
  <1> DEFINE at == IF Pool!Imported THEN "told" ELSE "unregister"
             j == [job EXCEPT !.at = at]
  <1>1. job \in Pool!Jobs /\ job.at = "removes" /\ at \in {"told", "unregister"}
    BY DEF Pool!PoolInv, Pool!TypeOK, Pool!Looks, Pool!Working
  <1>2. job' = j
    BY DEF Pool!Looks, Pool!Detached
  <1>3. j \in Pool!Jobs /\ j.at = at /\ j.left = job.left /\ j.force = job.force /\ j.shown = job.shown
    <2> HIDE DEF at
    <2> QED BY <1>1 DEF Pool!Jobs
  <1> HIDE DEF j
  <1>4. Pool!TypeOK'
    BY <1>2, <1>3 DEF Pool!Looks, Pool!PoolInv, Pool!TypeOK
  <1>5. CASE Pool!Imported
    BY <1>2, <1>3, <1>4, <1>5, PoolJobGoesOn
  <1>6. CASE ~Pool!Imported
    <2>1. Pool!LeftIsShown'
      BY <1>1, <1>2, <1>3, <1>6 DEF Pool!Looks, Pool!PoolInv, Pool!LeftIsShown
    <2>2. Pool!LeftIsDue' /\ Pool!ReadingHolds'
      BY <1>2, <1>3, <1>6 DEF Pool!Looks, Pool!LeftIsDue, Pool!ReadingHolds, Pool!Imported
    <2>3. QED
      BY <1>4, <2>1, <2>2 DEF Pool!PoolInv
  <1>7. QED
    BY <1>5, <1>6

LEMMA PoolUnregisterKeeps ==
    ASSUME Pool!PoolInv, Pool!Unregister
    PROVE  Pool!PoolInv'
  <1> DEFINE pool == s1  job == s7
  <1>1. CASE pool.is /\ ~Pool!InUse
    <2> DEFINE zpool == IF Pool!Imported THEN "destroyed" ELSE pool.zpool
               q == [pool EXCEPT !.is = FALSE, !.zpool = zpool]
               j == [job EXCEPT !.at = "deleted"]
    <2>1. pool' = q /\ job' = j
      BY <1>1 DEF Pool!Unregister
    <2>2. j \in Pool!Jobs /\ j.at = "deleted"
      BY DEF Pool!PoolInv, Pool!TypeOK, Pool!Jobs
    <2>3. q \in Pool!Pools
      BY DEF Pool!PoolInv, Pool!TypeOK, Pool!Pools
    <2> HIDE DEF q, j
    <2>4. Pool!TypeOK'
      BY <2>1, <2>2, <2>3 DEF Pool!Unregister, Pool!PoolInv, Pool!TypeOK
    <2>5. QED
      BY <2>1, <2>2, <2>4, PoolJobGoesOn
  <1>2. CASE ~(pool.is /\ ~Pool!InUse)
    BY <1>2, PoolFailureKeeps DEF Pool!Unregister, Pool!PoolInv, Pool!TypeOK
  <1>3. QED
    BY <1>1, <1>2
-----------------------------------------------------------------------------
\* What somebody else changes, other than the pool's being there, is crossed out.
LEMMA PoolOthersKeep ==
    ASSUME Pool!PoolInv, NEW what, Pool!Changed(what), Pool!TypeOK', s1.is => s1'.is /\ s1'.driver = s1.driver,
           \A i \in PoolMachines : s2'[i] = s2[i] \/ <<"instance", i>> \in what,
           \A p \in PoolProfiles : s5'[p] = s5[p] \/ <<"profile", p>> \in what,
           s1.is => s1'.zpool = s1.zpool \/ <<"zpool">> \in what
    PROVE  Pool!PoolInv'
  <1> DEFINE pool == s1  job == s7  crossed == s8
  <1>1. job' = job /\ crossed' = crossed \cup what
    BY DEF Pool!Changed
  <1>2. Pool!LeftIsShown'
    BY <1>1 DEF Pool!PoolInv, Pool!LeftIsShown
  <1>3. Pool!LeftIsDue'
    BY <1>1 DEF Pool!PoolInv, Pool!LeftIsDue
  <1>4. Pool!ReadingHolds'
    <2>1. job.at = "profile" => job.of \subseteq PoolProfiles
      BY DEF Pool!PoolInv, Pool!TypeOK, Pool!Jobs
    <2>2. job.at = "unregister" => pool.is
      BY DEF Pool!PoolInv, Pool!LeftIsShown
    <2>3. QED
      BY <1>1, <2>1, <2>2 DEF Pool!PoolInv, Pool!ReadingHolds, Pool!Imported
  <1>5. QED
    BY <1>2, <1>3, <1>4 DEF Pool!PoolInv

LEMMA PoolCreateKeeps ==
    ASSUME Pool!PoolInv, NEW d \in Pool!Drivers, Pool!Create(d)
    PROVE  Pool!PoolInv'
  <1> DEFINE pool == s1  changes == s9
  <1>1. pool \in Pool!Pools /\ changes \in Int
    BY DEF Pool!PoolInv, Pool!TypeOK, Pool!Pools
  <1>2. pool' \in Pool!Pools
    BY <1>1 DEF Pool!Create, Pool!Pools
  <1>3. Pool!TypeOK'
    BY <1>1, <1>2 DEF Pool!Create, Pool!Changed, Pool!PoolInv, Pool!TypeOK, Pool!Pools
  <1>4. QED
    BY <1>3, PoolOthersKeep DEF Pool!Create

LEMMA PoolGrowKeeps ==
    ASSUME Pool!PoolInv, NEW to \in Int, Pool!Grow(to)
    PROVE  Pool!PoolInv'
  <1> DEFINE pool == s1  changes == s9
  <1>1. pool \in Pool!Pools /\ changes \in Int
    BY DEF Pool!PoolInv, Pool!TypeOK, Pool!Pools
  <1>2. pool' \in Pool!Pools /\ pool'.is /\ pool'.driver = pool.driver /\ pool'.zpool = pool.zpool
    BY <1>1 DEF Pool!Grow, Pool!Pools
  <1>3. Pool!TypeOK'
    BY <1>1, <1>2 DEF Pool!Grow, Pool!Changed, Pool!PoolInv, Pool!TypeOK, Pool!Pools
  <1>4. QED
    BY <1>2, <1>3, PoolOthersKeep DEF Pool!Grow

LEMMA PoolZpoolKeeps ==
    ASSUME Pool!PoolInv, NEW to \in {"imported", "exported"}, Pool!Zpool(to)
    PROVE  Pool!PoolInv'
  <1> DEFINE pool == s1  changes == s9
  <1>1. pool \in Pool!Pools /\ changes \in Int
    BY DEF Pool!PoolInv, Pool!TypeOK, Pool!Pools
  <1>2. pool' \in Pool!Pools /\ pool'.is = pool.is /\ pool'.driver = pool.driver
    BY <1>1 DEF Pool!Zpool, Pool!Pools
  <1>3. Pool!TypeOK'
    BY <1>1, <1>2 DEF Pool!Zpool, Pool!Changed, Pool!PoolInv, Pool!TypeOK, Pool!Pools
  <1>4. QED
    BY <1>2, <1>3, PoolOthersKeep DEF Pool!Zpool

LEMMA PoolInstanceChangeKeeps ==
    ASSUME Pool!PoolInv, NEW i \in PoolMachines, NEW r \in Pool!Instance, Pool!Changed({<<"instance", i>>}),
           s2' = [s2 EXCEPT ![i] = r], UNCHANGED <<s1, s3, s4, s5>>
    PROVE  Pool!PoolInv'
  <1> DEFINE instance == s2  changes == s9
  <1>1. instance \in [PoolMachines -> Pool!Instance] /\ changes \in Int
    BY DEF Pool!PoolInv, Pool!TypeOK
  <1>2. Pool!TypeOK'
    BY <1>1 DEF Pool!Changed, Pool!PoolInv, Pool!TypeOK
  <1>3. \A k \in PoolMachines : instance'[k] = instance[k] \/ <<"instance", k>> \in {<<"instance", i>>}
    BY <1>1
  <1>4. QED
    BY <1>2, <1>3, PoolOthersKeep

LEMMA PoolLaunchKeeps ==
    ASSUME Pool!PoolInv, NEW i \in PoolMachines, NEW on \in Pool!Places, NEW with \in SUBSET PoolVolumes,
           Pool!Launch(i, on, with)
    PROVE  Pool!PoolInv'
  <1>1. [is |-> TRUE, on |-> on, with |-> with] \in Pool!Instance
    BY DEF Pool!Instance
  <1>2. QED
    BY <1>1, PoolInstanceChangeKeeps DEF Pool!Launch

LEMMA PoolDeleteKeeps ==
    ASSUME Pool!PoolInv, NEW i \in PoolMachines, Pool!Delete(i)
    PROVE  Pool!PoolInv'
  <1>1. Pool!Gone \in Pool!Instance
    BY DEF Pool!Gone, Pool!Instance, Pool!Places
  <1>2. QED
    BY <1>1, PoolInstanceChangeKeeps DEF Pool!Delete

LEMMA PoolAttachKeeps ==
    ASSUME Pool!PoolInv, NEW i \in PoolMachines, NEW v \in PoolVolumes, Pool!Attach(i, v)
    PROVE  Pool!PoolInv'
  <1> DEFINE instance == s2
  <1> DEFINE r == [instance[i] EXCEPT !.with = @ \cup {v}]
  <1>1. r \in Pool!Instance
    BY DEF Pool!PoolInv, Pool!TypeOK, Pool!Instance
  <1>2. instance' = [instance EXCEPT ![i] = r]
    BY DEF Pool!Attach, Pool!PoolInv, Pool!TypeOK
  <1> HIDE DEF r
  <1>3. QED
    BY <1>1, <1>2, PoolInstanceChangeKeeps DEF Pool!Attach

LEMMA PoolVolumeSetKeeps ==
    ASSUME Pool!PoolInv, NEW v \in PoolVolumes, NEW to \in Int, Pool!VolumeSet(v, to)
    PROVE  Pool!PoolInv'
  <1>1. Pool!TypeOK'
    BY DEF Pool!VolumeSet, Pool!Changed, Pool!PoolInv, Pool!TypeOK
  <1>2. QED
    BY <1>1, PoolOthersKeep DEF Pool!VolumeSet

LEMMA PoolEditProfileKeeps ==
    ASSUME Pool!PoolInv, NEW p \in PoolProfiles, NEW disks \in SUBSET Pool!Places, Pool!EditProfile(p, disks)
    PROVE  Pool!PoolInv'
  <1> DEFINE profile == s5
  <1>1. profile \in [PoolProfiles -> SUBSET Pool!Places]
    BY DEF Pool!PoolInv, Pool!TypeOK
  <1>2. Pool!TypeOK'
    BY DEF Pool!EditProfile, Pool!Changed, Pool!PoolInv, Pool!TypeOK
  <1>3. \A q \in PoolProfiles : profile'[q] = profile[q] \/ <<"profile", q>> \in {<<"profile", p>>}
    BY <1>1 DEF Pool!EditProfile
  <1>4. QED
    BY <1>2, <1>3, PoolOthersKeep DEF Pool!EditProfile

LEMMA PoolFetchKeeps ==
    ASSUME Pool!PoolInv, NEW f \in PoolFingerprints, NEW to \in {"none", "pool", "elsewhere"}, Pool!Fetch(f, to)
    PROVE  Pool!PoolInv'
  <1>1. Pool!TypeOK'
    BY DEF Pool!Fetch, Pool!Changed, Pool!PoolInv, Pool!TypeOK
  <1>2. QED
    BY <1>1, PoolOthersKeep DEF Pool!Fetch
-----------------------------------------------------------------------------
LEMMA PoolStep == Pool!PoolInv /\ [Pool!Next]_(Pool!poolVars) => Pool!PoolInv'
  <1> SUFFICES ASSUME Pool!PoolInv, [Pool!Next]_(Pool!poolVars) PROVE Pool!PoolInv'
    OBVIOUS
  <1>1. CASE \E force \in BOOLEAN : Pool!Show(force)
    BY <1>1, PoolShowKeeps
  <1>2. CASE Pool!Begin \/ Pool!Rejected \/ Pool!Looks \/ Pool!Unregister
    BY <1>2, PoolBeginKeeps, PoolRejectedKeeps, PoolLooksKeeps, PoolUnregisterKeeps
  <1>3. CASE \E i \in PoolMachines : Pool!InstanceGoes(i) \/ Pool!Delete(i)
    BY <1>3, PoolInstanceGoesKeeps, PoolDeleteKeeps
  <1>4. CASE \E p \in PoolProfiles : Pool!ProfileRead(p) \/ Pool!ProfileWritten(p)
    BY <1>4, PoolProfileReadKeeps, PoolProfileWrittenKeeps
  <1>5. CASE \E f \in PoolFingerprints :
                Pool!ImageGoes(f) \/ (\E to \in {"none", "pool", "elsewhere"} : Pool!Fetch(f, to))
    BY <1>5, PoolImageGoesKeeps, PoolFetchKeeps
  <1>6. CASE \E v \in PoolVolumes : Pool!VolumeGoes(v) \/ (\E to \in 0 .. PoolSize : Pool!VolumeSet(v, to))
    BY <1>6, PoolVolumeGoesKeeps, PoolVolumeSetKeeps
  <1>7. CASE \E d \in Pool!Drivers : Pool!Create(d)
    BY <1>7, PoolCreateKeeps
  <1>8. CASE \E to \in 2 .. PoolSize : Pool!Grow(to)
    BY <1>8, PoolGrowKeeps
  <1>9. CASE \E i \in PoolMachines, on \in Pool!Places, with \in SUBSET PoolVolumes : Pool!Launch(i, on, with)
    BY <1>9, PoolLaunchKeeps
  <1>10. CASE \E i \in PoolMachines, v \in PoolVolumes : Pool!Attach(i, v)
    BY <1>10, PoolAttachKeeps
  <1>11. CASE \E p \in PoolProfiles, disks \in SUBSET Pool!Places : Pool!EditProfile(p, disks)
    BY <1>11, PoolEditProfileKeeps
  <1>12. CASE \E to \in {"imported", "exported"} : Pool!Zpool(to)
    BY <1>12, PoolZpoolKeeps
  <1>13. CASE UNCHANGED Pool!poolVars
    BY <1>13 DEF Pool!poolVars, Pool!PoolInv, Pool!TypeOK, Pool!LeftIsShown, Pool!LeftIsDue, Pool!ReadingHolds, Pool!Imported
  <1>14. QED
    BY <1>1, <1>2, <1>3, <1>4, <1>5, <1>6, <1>7, <1>8, <1>9, <1>10, <1>11, <1>12, <1>13 DEF Pool!Next

\* A step of the job itself takes what it may.
LEMMA PoolGives == Pool!PoolInv /\ [Pool!Next]_(Pool!poolVars) => Pool!TakesShown
  <1> DEFINE pool == s1  instance == s2  image == s3  volume == s4  profile == s5
             foreign == s6  job == s7  crossed == s8  changes == s9
  <1> SUFFICES ASSUME Pool!PoolInv, [Pool!Next]_(Pool!poolVars), changes' = changes PROVE Pool!TakesShown
    BY DEF Pool!TakesShown
  <1> DEFINE Alone == UNCHANGED <<instance, image, volume, profile, pool>>
  <1>1. changes \in Int /\ job \in Pool!Jobs
    BY DEF Pool!PoolInv, Pool!TypeOK
  <1>2. ASSUME NEW what, Pool!Changed(what) PROVE FALSE
    BY <1>1, <1>2 DEF Pool!Changed
  <1>3. CASE Alone
    BY <1>3 DEF Pool!TakesShown
  <1>4. ASSUME NEW i \in PoolMachines, Pool!InstanceGoes(i) PROVE Pool!TakesShown
    <2>1. UNCHANGED <<image, volume, profile, pool>> /\ \A k \in PoolMachines \ {i} : instance'[k] = instance[k]
      BY <1>4 DEF Pool!InstanceGoes, Pool!PoolInv, Pool!TypeOK
    <2>2. job.at = "removes" /\ i \in job.left.instances \cup job.left.attached
      BY <1>4 DEF Pool!InstanceGoes, Pool!Working
    <2>3. job.force /\ i \in job.shown.instances \cup job.shown.attached
      BY <2>2 DEF Pool!PoolInv, Pool!LeftIsShown, Pool!Covers, Pool!NoPlan
    <2>4. <<"instance", i>> \notin crossed => instance[i].on = "pool" \/ instance[i].with # {}
      BY <2>2 DEF Pool!PoolInv, Pool!LeftIsDue
    <2>5. QED
      BY <2>1, <2>3, <2>4 DEF Pool!TakesShown
  <1>5. ASSUME NEW p \in PoolProfiles, Pool!ProfileWritten(p) PROVE Pool!TakesShown
    <2>1. UNCHANGED <<image, volume, instance, pool>>
          /\ profile' = [profile EXCEPT ![p] = job.read \ {"pool"}] /\ p \in job.of /\ job.at = "profile"
      BY <1>5 DEF Pool!ProfileWritten
    <2>2. p \in job.shown.profiles
      BY <2>1 DEF Pool!PoolInv, Pool!LeftIsShown, Pool!ReadingHolds, Pool!Covers, Pool!NoPlan
    <2>3. <<"profile", p>> \notin crossed => profile[p] = job.read
      BY <2>1 DEF Pool!PoolInv, Pool!ReadingHolds
    <2>4. profile'[p] = job.read \ {"pool"} /\ \A q \in PoolProfiles \ {p} : profile'[q] = profile[q]
      BY <2>1 DEF Pool!PoolInv, Pool!TypeOK
    <2>5. QED
      BY <2>1, <2>2, <2>3, <2>4 DEF Pool!TakesShown
  <1>6. ASSUME NEW f \in PoolFingerprints, Pool!ImageGoes(f) PROVE Pool!TakesShown
    <2>1. UNCHANGED <<instance, volume, profile, pool>> /\ \A g \in PoolFingerprints \ {f} : image'[g] = image[g]
      BY <1>6 DEF Pool!ImageGoes, Pool!PoolInv, Pool!TypeOK
    <2>2. job.at = "removes" /\ f \in job.left.images
      BY <1>6 DEF Pool!ImageGoes, Pool!Working
    <2>3. job.force /\ f \in job.shown.images
      BY <2>2 DEF Pool!PoolInv, Pool!LeftIsShown, Pool!Covers, Pool!NoPlan
    <2>4. QED
      BY <2>1, <2>3 DEF Pool!TakesShown
  <1>7. ASSUME NEW v \in PoolVolumes, Pool!VolumeGoes(v) PROVE Pool!TakesShown
    <2>1. UNCHANGED <<instance, image, profile, pool>> /\ \A w \in PoolVolumes \ {v} : volume'[w] = volume[w]
      BY <1>7 DEF Pool!VolumeGoes, Pool!PoolInv, Pool!TypeOK
    <2>2. job.at = "removes" /\ v \in job.left.volumes
      BY <1>7 DEF Pool!VolumeGoes, Pool!Working
    <2>3. v \in job.shown.volumes /\ (volume'[v] # volume[v] => Pool!Users(v) = {})
      BY <1>7, <2>2 DEF Pool!PoolInv, Pool!LeftIsShown, Pool!Covers, Pool!NoPlan, Pool!VolumeGoes
    <2>4. QED
      BY <2>1, <2>3 DEF Pool!TakesShown
  <1>8. ASSUME Pool!Unregister PROVE Pool!TakesShown
    <2>1. UNCHANGED <<instance, image, volume, profile>>
      BY <1>8 DEF Pool!Unregister
    <2>2. foreign => pool' = pool
      BY <1>8 DEF Pool!Unregister, Pool!InUse
    <2>3. pool'.zpool = "destroyed" => <<"zpool">> \in crossed \/ pool.zpool = "destroyed"
      <3>1. job.at = "unregister" /\ (Pool!Imported => <<"zpool">> \in crossed)
        BY <1>8 DEF Pool!Unregister, Pool!PoolInv, Pool!ReadingHolds
      <3>2. CASE pool' = pool
        BY <3>2
      <3>3. CASE pool' # pool
        <4> DEFINE zpool == IF Pool!Imported THEN "destroyed" ELSE pool.zpool
        <4>1. pool' = [pool EXCEPT !.is = FALSE, !.zpool = zpool]
          BY <1>8, <3>3 DEF Pool!Unregister
        <4>2. pool'.zpool = zpool
          BY <4>1 DEF Pool!PoolInv, Pool!TypeOK, Pool!Pools
        <4>3. QED
          BY <3>1, <4>2
      <3>4. QED
        BY <3>2, <3>3
    <2>4. QED
      BY <2>1, <2>2, <2>3 DEF Pool!TakesShown
  <1>9. \/ Alone
        \/ \E what : Pool!Changed(what)
        \/ \E i \in PoolMachines : Pool!InstanceGoes(i)
        \/ \E p \in PoolProfiles : Pool!ProfileWritten(p)
        \/ \E f \in PoolFingerprints : Pool!ImageGoes(f)
        \/ \E v \in PoolVolumes : Pool!VolumeGoes(v)
        \/ Pool!Unregister
    <2>1. CASE Pool!Begin \/ Pool!Rejected \/ Pool!Looks \/ UNCHANGED Pool!poolVars \/ \E force \in BOOLEAN : Pool!Show(force)
      BY <2>1 DEF Pool!Begin, Pool!Rejected, Pool!Looks, Pool!Show, Pool!poolVars
    <2>2. CASE \E p \in PoolProfiles : Pool!ProfileRead(p)
      BY <2>2 DEF Pool!ProfileRead
    <2>3. CASE \E i \in PoolMachines : Pool!Delete(i)
      BY <2>3 DEF Pool!Delete
    <2>4. CASE \E f \in PoolFingerprints, to \in {"none", "pool", "elsewhere"} : Pool!Fetch(f, to)
      BY <2>4 DEF Pool!Fetch
    <2>5. CASE \E v \in PoolVolumes, to \in 0 .. PoolSize : Pool!VolumeSet(v, to)
      BY <2>5 DEF Pool!VolumeSet
    <2>6. CASE \E d \in Pool!Drivers : Pool!Create(d)
      BY <2>6 DEF Pool!Create
    <2>7. CASE \E to \in 2 .. PoolSize : Pool!Grow(to)
      BY <2>7 DEF Pool!Grow
    <2>8. CASE \E i \in PoolMachines, on \in Pool!Places, with \in SUBSET PoolVolumes : Pool!Launch(i, on, with)
      BY <2>8 DEF Pool!Launch
    <2>9. CASE \E i \in PoolMachines, v \in PoolVolumes : Pool!Attach(i, v)
      BY <2>9 DEF Pool!Attach
    <2>10. CASE \E p \in PoolProfiles, disks \in SUBSET Pool!Places : Pool!EditProfile(p, disks)
      BY <2>10 DEF Pool!EditProfile
    <2>11. CASE \E to \in {"imported", "exported"} : Pool!Zpool(to)
      BY <2>11 DEF Pool!Zpool
    <2> HIDE DEF Alone
    <2>12. QED
      BY <2>1, <2>2, <2>3, <2>4, <2>5, <2>6, <2>7, <2>8, <2>9, <2>10, <2>11 DEF Pool!Next
  <1> HIDE DEF Alone
  <1>10. QED
    BY <1>2, <1>3, <1>4, <1>5, <1>6, <1>7, <1>8, <1>9

-----------------------------------------------------------------------------
(* A node's half of its fabrics.                                             *)
\* What is wanted is ways to the peers, in fabrics of this node's.
LEMMA HostDesiredIs ==
    ASSUME Host!TypeOK
    PROVE  Host!Desired \subseteq Host!PeerWays /\ \A w \in Host!Desired : w.fabric \in s1
  <1> DEFINE mine == s1  peer == s2
  <1>1. ASSUME NEW p \in HostPeers, NEW f \in mine \cap peer[p].claims
        PROVE  Host!Way(p, f) \in Host!PeerWays /\ Host!Way(p, f).fabric \in mine
    <2>1. peer[p].via \in Host!Addresses \cup {Host!Far} /\ f \in HostFabrics
      BY <1>1 DEF Host!TypeOK
    <2>2. QED
      BY <1>1, <2>1 DEF Host!Way, Host!PeerWays
  <1>2. QED
    BY <1>1 DEF Host!Desired

LEMMA HostGuestRoutesAre == Host!TypeOK => Host!GuestRoutes \subseteq Host!GuestWays
  <1> DEFINE mine == s1  peer == s2
  <1> SUFFICES ASSUME Host!TypeOK PROVE Host!GuestRoutes \subseteq Host!GuestWays
    OBVIOUS
  <1>1. ASSUME NEW p \in HostPeers, NEW f \in peer[p].claims PROVE Host!Way(p, f) \in Host!GuestWays
    <2>1. peer[p].via \in Host!Addresses \cup {Host!Far} /\ f \in HostFabrics
      BY <1>1 DEF Host!TypeOK
    <2>2. QED
      BY <1>1, <2>1 DEF Host!Way, Host!GuestWays
  <1>2. ASSUME NEW f \in mine PROVE [to |-> "here", fabric |-> f, via |-> Host!Gateway] \in Host!GuestWays
    BY <1>2 DEF Host!GuestWays, Host!TypeOK
  <1>3. ASSUME NEW w \in Host!GuestRoutes PROVE w \in Host!GuestWays
    <2> DEFINE there == UNION {{Host!Way(p, f) : f \in peer[p].claims} : p \in {q \in HostPeers : peer[q].via # Host!Far}}
               here == {[to |-> "here", fabric |-> f, via |-> Host!Gateway] : f \in mine}
    <2>1. there \subseteq Host!GuestWays
      <3> SUFFICES ASSUME NEW x \in there PROVE x \in Host!GuestWays
        OBVIOUS
      <3>1. PICK p \in {q \in HostPeers : peer[q].via # Host!Far} : x \in {Host!Way(p, f) : f \in peer[p].claims}
        OBVIOUS
      <3>2. QED
        BY <1>1, <3>1
    <2>2. here \subseteq Host!GuestWays
      BY <1>2
    <2>3. Host!GuestRoutes = there \cup here
      BY DEF Host!GuestRoutes
    <2> HIDE DEF there, here
    <2>4. QED
      BY <2>1, <2>2, <2>3
  <1>4. QED
    BY <1>3

LEMMA HostProgrammedIs ==
    ASSUME NEW want \in SUBSET Host!PeerWays PROVE Host!Programmed(want) \subseteq Host!HostWays
  <1>1. ASSUME NEW w \in want PROVE Host!From(w) \in Host!HostWays
    <2>1. w \in Host!PeerWays
      OBVIOUS
    <2>2. w.to \in HostPeers /\ w.fabric \in HostFabrics /\ w.via \in Host!Addresses \cup {Host!Far}
      BY <2>1 DEF Host!PeerWays
    <2>3. Host!Source(w.fabric) \in {Host!Gateway, "none"}
      BY DEF Host!Source
    <2>4. QED
      BY <2>2, <2>3 DEF Host!From, Host!HostWays
  <1>2. QED
    BY <1>1 DEF Host!Programmed

LEMMA HostFirewallIs ==
    ASSUME NEW S \in SUBSET HostFabrics PROVE Host!Firewall(S) \subseteq Host!Walls
  BY DEF Host!Firewall, Host!Walls

LEMMA HostShownIs == Host!Shown \subseteq Host!OnLan /\ Host!OnLan \subseteq HostGuests
  BY DEF Host!Shown, Host!OnLan

LEMMA HostFields ==
    ASSUME Host!TypeOK
    PROVE  /\ s5.bridges \subseteq HostFabrics /\ s5.routes \subseteq Host!HostWays
           /\ s5.wall \subseteq Host!Walls /\ s5.shims \subseteq HostGuests
           /\ s7.left \subseteq HostGuests /\ s7.asked \in BOOLEAN
           /\ s8.of \in HostGuests \cup {"none"} /\ s8.want \subseteq HostGuests
           /\ \A g \in HostGuests : /\ s6[g].runs \in BOOLEAN /\ s6[g].lease \in {"none", "taken", "shown"}
                                /\ s6[g].fabric \in BOOLEAN /\ s6[g].routes \subseteq Host!GuestWays
  <1> DEFINE host == s5  guest == s6  pass == s7  launch == s8
  <1>1. host \in Host!Hosts /\ guest \in [HostGuests -> Host!Instances] /\ Host!PassOK /\ launch \in Host!Launches
    BY DEF Host!TypeOK, Host!LaunchOK
  <1>2. host.bridges \subseteq HostFabrics /\ host.routes \subseteq Host!HostWays
        /\ host.wall \subseteq Host!Walls /\ host.shims \subseteq HostGuests
    BY <1>1 DEF Host!Hosts
  <1>3. pass.left \subseteq HostGuests /\ pass.asked \in BOOLEAN
    BY <1>1 DEF Host!PassOK
  <1>4. launch.of \in HostGuests \cup {"none"} /\ launch.want \subseteq HostGuests
    BY <1>1 DEF Host!Launches
  <1>5. ASSUME NEW g \in HostGuests
        PROVE  /\ guest[g].runs \in BOOLEAN /\ guest[g].lease \in {"none", "taken", "shown"}
               /\ guest[g].fabric \in BOOLEAN /\ guest[g].routes \subseteq Host!GuestWays
    <2>1. guest[g] \in Host!Instances
      BY <1>1
    <2>2. QED
      BY <2>1 DEF Host!Instances
  <1>6. QED
    BY <1>2, <1>3, <1>4, <1>5

\* A guest's record with some of its fields set, and the others' as they are.
LEMMA HostGuestSet ==
    ASSUME Host!TypeOK, NEW g \in HostGuests, NEW runs \in BOOLEAN, NEW lease \in {"none", "taken", "shown"},
           NEW fabric \in BOOLEAN, NEW routes \in SUBSET Host!GuestWays
    PROVE  [s6 EXCEPT ![g] = [runs |-> runs, lease |-> lease, fabric |-> fabric, routes |-> routes]]
               \in [HostGuests -> Host!Instances]
  <1>1. [runs |-> runs, lease |-> lease, fabric |-> fabric, routes |-> routes] \in Host!Instances
    BY DEF Host!Instances
  <1>2. QED
    BY <1>1 DEF Host!TypeOK

LEMMA HostGuestIs ==
    ASSUME Host!TypeOK, NEW g \in HostGuests
    PROVE  s6[g] = [runs |-> s6[g].runs, lease |-> s6[g].lease, fabric |-> s6[g].fabric,
                       routes |-> s6[g].routes]
  <1> DEFINE guest == s6
  <1>1. guest[g] \in Host!Instances
    BY DEF Host!TypeOK
  <1>2. QED
    BY <1>1 DEF Host!Instances

LEMMA HostPassIs ==
    ASSUME Host!TypeOK
    PROVE  s7 = [at |-> s7.at, want |-> s7.want, left |-> s7.left, asked |-> s7.asked]
  BY DEF Host!TypeOK, Host!PassOK

-----------------------------------------------------------------------------

LEMMA HostBeginTypes == Host!TypeOK /\ (\E asked \in BOOLEAN : Host!Begin(asked)) => Host!TypeOK'
  <1> DEFINE mine == s1  peer == s2  held == s3  foreign == s4  host == s5  guest == s6
             pass == s7  launch == s8  alone == s9
  <1> SUFFICES ASSUME Host!TypeOK, NEW asked \in BOOLEAN, Host!Begin(asked) PROVE Host!TypeOK'
    OBVIOUS
  <1> DEFINE where == IF asked \/ (~held /\ (mine # {} \/ host.routes # {})) THEN "bridges" ELSE "instances"
  <1>1. pass' = [at |-> where, want |-> {}, left |-> {}, asked |-> asked]
    BY DEF Host!Begin, Host!Rest
  <1>2. where \in {"bridges", "instances"}
    OBVIOUS
  <1> HIDE DEF where
  <1>3. Host!PassOK'
    BY <1>1, <1>2 DEF Host!PassOK
  <1>4. Host!LaunchOK'
    <2>1. CASE launch' = launch
      BY <2>1 DEF Host!TypeOK, Host!LaunchOK
    <2>2. CASE launch' = Host!NoOne
      BY <2>2 DEF Host!LaunchOK, Host!Launches, Host!NoOne
    <2>3. QED
      BY <2>1, <2>2 DEF Host!Begin
  <1>5. alone' \in BOOLEAN /\ UNCHANGED <<mine, peer, held, foreign, host, guest>>
    BY DEF Host!Begin
  <1>6. QED
    BY <1>3, <1>4, <1>5 DEF Host!TypeOK

LEMMA HostBridgesTypes == Host!TypeOK /\ Host!EnsureBridges => Host!TypeOK'
  <1> DEFINE host == s5
  <1> SUFFICES ASSUME Host!TypeOK, Host!EnsureBridges PROVE Host!TypeOK'
    OBVIOUS
  <1>1. host' \in Host!Hosts
    BY DEF Host!EnsureBridges, Host!TypeOK, Host!Hosts
  <1>2. Host!PassOK'
    BY DEF Host!EnsureBridges, Host!TypeOK, Host!PassOK
  <1>3. QED
    BY <1>1, <1>2 DEF Host!EnsureBridges, Host!TypeOK, Host!LaunchOK

LEMMA HostReadsTypes == Host!TypeOK /\ (Host!Reads \/ Host!RefreshLan \/ Host!ReadsAddresses) => Host!TypeOK'
  <1> SUFFICES ASSUME Host!TypeOK, Host!Reads \/ Host!RefreshLan \/ Host!ReadsAddresses PROVE Host!TypeOK'
    OBVIOUS
  <1>1. Host!PassOK'
    BY HostDesiredIs, HostShownIs DEF Host!Reads, Host!RefreshLan, Host!ReadsAddresses, Host!TypeOK, Host!PassOK
  <1>2. QED
    BY <1>1 DEF Host!Reads, Host!RefreshLan, Host!ReadsAddresses, Host!TypeOK, Host!LaunchOK

LEMMA HostHelperTypes == Host!TypeOK /\ Host!Helper => Host!TypeOK'
  <1> DEFINE mine == s1  peer == s2  held == s3  foreign == s4  host == s5  guest == s6
             pass == s7  launch == s8  alone == s9
  <1> SUFFICES ASSUME Host!TypeOK, Host!Helper PROVE Host!TypeOK'
    OBVIOUS
  <1>1. /\ pass.at = "helper" /\ pass.want \subseteq Host!PeerWays
        /\ Host!Programmed(pass.want) \subseteq Host!HostWays /\ Host!Firewall(mine) \subseteq Host!Walls
    BY HostProgrammedIs, HostFirewallIs DEF Host!Helper, Host!TypeOK, Host!PassOK
  <1>2. host' \in Host!Hosts
    <2>1. CASE host' = [host EXCEPT !.routes = Host!Programmed(pass.want), !.wall = Host!Firewall(mine)]
      BY <1>1, <2>1 DEF Host!TypeOK, Host!Hosts
    <2>2. CASE host' \in Host!Stopped(pass.want)
      <3>1. PICK done \in SUBSET Host!Programmed(pass.want) :
               host' = [host EXCEPT !.routes =
                           {r \in @ : \A d \in done : d.to # r.to \/ d.fabric # r.fabric} \cup done]
        BY <2>2 DEF Host!Stopped
      <3>2. {r \in host.routes : \A d \in done : d.to # r.to \/ d.fabric # r.fabric} \cup done
               \subseteq Host!HostWays
        BY <1>1, HostFields
      <3>3. QED
        BY <3>1, <3>2 DEF Host!TypeOK, Host!Hosts
    <2>3. CASE host' = host
      BY <2>3 DEF Host!TypeOK
    <2>4. QED
      BY <2>1, <2>2, <2>3 DEF Host!Helper
  <1>3. Host!PassOK'
    BY DEF Host!Helper, Host!TypeOK, Host!PassOK
  <1>4. alone' \in BOOLEAN /\ UNCHANGED <<mine, peer, held, foreign, guest, launch>>
    BY DEF Host!Helper, Host!TypeOK
  <1>5. QED
    BY <1>2, <1>3, <1>4 DEF Host!TypeOK, Host!LaunchOK

LEMMA HostConfiguredIs ==
    ASSUME Host!TypeOK, NEW g \in HostGuests
    PROVE  /\ Host!Configured(g) \in [HostGuests -> Host!Instances]
           /\ s6[g].lease # "none" => Host!Configured(g)[g].routes = Host!GuestRoutes
           /\ Host!Configured(g)[g].runs = s6[g].runs /\ Host!Configured(g)[g].lease = s6[g].lease
           /\ Host!Configured(g)[g].fabric = s6[g].fabric
           /\ \A h \in HostGuests \ {g} : Host!Configured(g)[h] = s6[h]
  <1> DEFINE guest == s6
  <1>1. Host!GuestRoutes \in SUBSET Host!GuestWays
    BY HostGuestRoutesAre
  <1>2. guest \in [HostGuests -> Host!Instances]
    BY DEF Host!TypeOK
  <1>3. CASE guest[g].lease = "none"
    BY <1>2, <1>3 DEF Host!Configured
  <1>4. CASE guest[g].lease # "none"
    <2> DEFINE set == [runs |-> guest[g].runs, lease |-> guest[g].lease, fabric |-> guest[g].fabric,
                       routes |-> Host!GuestRoutes]
    <2>1. [guest EXCEPT ![g] = set] \in [HostGuests -> Host!Instances]
      BY <1>1, HostGuestSet, HostFields
    <2>2. Host!Configured(g) = [guest EXCEPT ![g] = set]
      <3>1. [guest[g] EXCEPT !.routes = Host!GuestRoutes] = set
        <4>1. guest[g] \in Host!Instances
          BY <1>2
        <4>2. QED
          BY <4>1 DEF Host!Instances
      <3>2. QED
        BY <1>4, <3>1 DEF Host!Configured
    <2>3. Host!Configured(g)[g] = set /\ \A h \in HostGuests \ {g} : Host!Configured(g)[h] = guest[h]
      BY <1>2, <2>2
    <2>4. QED
      BY <2>1, <2>2, <2>3
  <1>5. QED
    BY <1>3, <1>4

LEMMA HostConfigureTypes == Host!TypeOK /\ (\E g \in HostGuests : Host!ConfigureGuest(g)) => Host!TypeOK'
  <1> DEFINE mine == s1  peer == s2  held == s3  foreign == s4  host == s5  guest == s6
             launch == s8  alone == s9
  <1> SUFFICES ASSUME Host!TypeOK, NEW g \in HostGuests, Host!ConfigureGuest(g) PROVE Host!TypeOK'
    OBVIOUS
  <1>1. guest' \in [HostGuests -> Host!Instances]
    BY HostConfiguredIs DEF Host!ConfigureGuest
  <1>2. Host!PassOK'
    BY DEF Host!ConfigureGuest, Host!TypeOK, Host!PassOK
  <1>3. alone' \in BOOLEAN /\ UNCHANGED <<mine, peer, held, foreign, host, launch>>
    BY DEF Host!ConfigureGuest, Host!TypeOK
  <1>4. QED
    BY <1>1, <1>2, <1>3 DEF Host!TypeOK, Host!LaunchOK

LEMMA HostShimsTypes == Host!TypeOK /\ (Host!RefreshShims \/ Host!LaunchShims) => Host!TypeOK'
  <1> DEFINE mine == s1  peer == s2  held == s3  foreign == s4  host == s5  guest == s6
             alone == s9
  <1> SUFFICES ASSUME Host!TypeOK, Host!RefreshShims \/ Host!LaunchShims PROVE Host!TypeOK'
    OBVIOUS
  <1>1. host' \in Host!Hosts
    BY HostFields DEF Host!RefreshShims, Host!LaunchShims, Host!TypeOK, Host!PassOK, Host!Hosts
  <1>2. Host!PassOK'
    BY DEF Host!RefreshShims, Host!LaunchShims, Host!TypeOK, Host!PassOK
  <1>3. Host!LaunchOK'
    BY DEF Host!RefreshShims, Host!LaunchShims, Host!TypeOK, Host!LaunchOK, Host!Launches
  <1>4. UNCHANGED <<mine, peer, held, foreign, guest, alone>>
    BY DEF Host!RefreshShims, Host!LaunchShims
  <1>5. QED
    BY <1>1, <1>2, <1>3, <1>4 DEF Host!TypeOK

LEMMA HostLaunchTypes == Host!TypeOK /\ (\E g \in HostGuests : Host!Launch(g)) => Host!TypeOK'
  <1> DEFINE mine == s1  peer == s2  held == s3  foreign == s4  host == s5  guest == s6
             pass == s7  launch == s8  alone == s9
  <1> SUFFICES ASSUME Host!TypeOK, NEW g \in HostGuests, Host!Launch(g) PROVE Host!TypeOK'
    OBVIOUS
  <1>1. pass' = [at |-> "rest", want |-> {}, left |-> {}, asked |-> FALSE]
        /\ launch' = [of |-> g, at |-> "routes", want |-> {}]
    BY DEF Host!Launch, Host!Rest, Host!NoOne
  <1>2. Host!PassOK'
    BY <1>1 DEF Host!PassOK
  <1>3. Host!LaunchOK'
    BY <1>1 DEF Host!LaunchOK, Host!Launches
  <1>4. guest' \in [HostGuests -> Host!Instances]
    <2>1. guest \in [HostGuests -> Host!Instances] /\ guest[g] \in Host!Instances
      BY DEF Host!TypeOK
    <2> DEFINE begun == [[[[guest[g] EXCEPT !.runs = TRUE] EXCEPT !.lease = "none"] EXCEPT !.fabric = FALSE]
                         EXCEPT !.routes = {}]
    <2>2. begun \in Host!Instances
      BY <2>1 DEF Host!Instances
    <2>3. guest' = [guest EXCEPT ![g] = begun]
      BY <2>1 DEF Host!Launch
    <2> HIDE DEF begun
    <2>4. QED
      BY <2>1, <2>2, <2>3
  <1>5. alone' = TRUE /\ UNCHANGED <<mine, peer, held, foreign, host>>
    BY DEF Host!Launch
  <1>6. QED
    BY <1>2, <1>3, <1>4, <1>5 DEF Host!TypeOK

LEMMA HostLeaseTypes == Host!TypeOK /\ (\E g \in HostGuests : Host!Lease(g)) => Host!TypeOK'
  <1> DEFINE mine == s1  peer == s2  held == s3  foreign == s4  host == s5  guest == s6
             pass == s7  launch == s8  alone == s9
  <1> SUFFICES ASSUME Host!TypeOK, NEW g \in HostGuests, Host!Lease(g) PROVE Host!TypeOK'
    OBVIOUS
  <1>1. guest' \in [HostGuests -> Host!Instances]
    BY DEF Host!Lease, Host!TypeOK, Host!Instances
  <1>2. UNCHANGED <<mine, peer, held, foreign, host, pass, launch, alone>>
    BY DEF Host!Lease
  <1>3. QED
    BY <1>1, <1>2 DEF Host!TypeOK, Host!PassOK, Host!LaunchOK

LEMMA HostLaunchRoutesTypes == Host!TypeOK /\ Host!LaunchRoutes => Host!TypeOK'
  <1> DEFINE mine == s1  peer == s2  held == s3  foreign == s4  host == s5  guest == s6
             pass == s7  alone == s9
  <1> SUFFICES ASSUME Host!TypeOK, Host!LaunchRoutes PROVE Host!TypeOK'
    OBVIOUS
  <1>1. guest' \in [HostGuests -> Host!Instances]
    BY HostConfiguredIs, HostShownIs DEF Host!LaunchRoutes, Host!TypeOK
  <1>2. Host!LaunchOK'
    BY DEF Host!LaunchRoutes, Host!TypeOK, Host!LaunchOK, Host!Launches, Host!NoOne
  <1>3. alone' \in BOOLEAN /\ UNCHANGED <<mine, peer, held, foreign, host, pass>>
    BY DEF Host!LaunchRoutes, Host!TypeOK
  <1>4. QED
    BY <1>1, <1>2, <1>3 DEF Host!TypeOK, Host!PassOK

LEMMA HostLaunchReadsTypes == Host!TypeOK /\ Host!LaunchReads => Host!TypeOK'
  <1> DEFINE mine == s1  peer == s2  held == s3  foreign == s4  host == s5  guest == s6
             pass == s7  alone == s9
  <1> SUFFICES ASSUME Host!TypeOK, Host!LaunchReads PROVE Host!TypeOK'
    OBVIOUS
  <1>1. Host!LaunchOK'
    BY HostShownIs DEF Host!LaunchReads, Host!Waits, Host!TypeOK, Host!LaunchOK, Host!Launches
  <1>2. alone' \in BOOLEAN /\ UNCHANGED <<mine, peer, held, foreign, host, guest, pass>>
    BY DEF Host!LaunchReads, Host!Waits
  <1>3. QED
    BY <1>1, <1>2 DEF Host!TypeOK, Host!PassOK

LEMMA HostPeerTypes == Host!TypeOK /\ (\E p \in HostPeers : Host!PeerChanges(p)) => Host!TypeOK'
  <1> DEFINE mine == s1  peer == s2  held == s3  foreign == s4  host == s5  guest == s6
             pass == s7  launch == s8  alone == s9
  <1> SUFFICES ASSUME Host!TypeOK, NEW p \in HostPeers, Host!PeerChanges(p) PROVE Host!TypeOK'
    OBVIOUS
  <1>1. peer' \in [HostPeers -> [claims : SUBSET HostFabrics, via : Host!Addresses \cup {Host!Far}]]
    <2>1. CASE \E f \in HostFabrics : peer' = [peer EXCEPT ![p].claims = (@ \ {f}) \cup ({f} \ @)]
      BY <2>1 DEF Host!TypeOK
    <2>2. CASE \E a \in (Host!Addresses \cup {Host!Far}) \ {peer[p].via} : peer' = [peer EXCEPT ![p].via = a]
      BY <2>2 DEF Host!TypeOK
    <2>3. QED
      BY <2>1, <2>2 DEF Host!PeerChanges
  <1>2. alone' \in BOOLEAN /\ UNCHANGED <<mine, held, foreign, host, guest, pass, launch>>
    BY DEF Host!PeerChanges, Host!Changed
  <1>3. QED
    BY <1>1, <1>2 DEF Host!TypeOK, Host!PassOK, Host!LaunchOK

LEMMA HostClaimTypes == Host!TypeOK /\ (\E f \in HostFabrics : Host!ClaimTaken(f) \/ Host!Freed(f)) => Host!TypeOK'
  BY DEF Host!ClaimTaken, Host!Freed, Host!Changed, Host!TypeOK, Host!PassOK, Host!LaunchOK

LEMMA HostLeaveTypes == Host!TypeOK /\ (\E f \in HostFabrics : Host!Leave(f)) => Host!TypeOK'
  <1> DEFINE mine == s1  peer == s2  held == s3  foreign == s4  host == s5  guest == s6
             pass == s7  launch == s8  alone == s9
  <1> SUFFICES ASSUME Host!TypeOK, NEW f \in HostFabrics, Host!Leave(f) PROVE Host!TypeOK'
    OBVIOUS
  <1> DEFINE want == {w \in Host!Desired : w.fabric # f}
  <1>1. Host!Programmed(want) \subseteq Host!HostWays /\ Host!Firewall(mine') \subseteq Host!Walls
    <2>1. want \in SUBSET Host!PeerWays /\ mine' \in SUBSET HostFabrics
      BY HostDesiredIs DEF Host!Leave, Host!TypeOK
    <2>2. QED
      BY <2>1, HostProgrammedIs, HostFirewallIs
  <1>2. \/ host' = [host EXCEPT !.bridges = @ \ {f}]
        \/ host' = [host EXCEPT !.bridges = @ \ {f}, !.routes = Host!Programmed(want), !.wall = Host!Firewall(mine')]
    BY DEF Host!Leave
  <1> HIDE DEF want
  <1>3. host' \in Host!Hosts
    BY <1>1, <1>2 DEF Host!TypeOK, Host!Hosts
  <1>4. mine' \subseteq HostFabrics /\ alone' \in BOOLEAN /\ UNCHANGED <<peer, held, foreign, guest, pass, launch>>
    BY DEF Host!Leave, Host!Changed, Host!TypeOK
  <1>5. QED
    BY <1>3, <1>4 DEF Host!TypeOK, Host!PassOK, Host!LaunchOK

LEMMA HostMaintenanceTypes == Host!TypeOK /\ Host!Maintenance => Host!TypeOK'
  BY DEF Host!Maintenance, Host!Changed, Host!TypeOK, Host!PassOK, Host!LaunchOK

LEMMA HostRebootTypes == Host!TypeOK /\ Host!Reboot => Host!TypeOK'
  <1> DEFINE mine == s1  peer == s2  held == s3  foreign == s4  host == s5  guest == s6
             pass == s7  launch == s8  alone == s9
  <1> SUFFICES ASSUME Host!TypeOK, Host!Reboot PROVE Host!TypeOK'
    OBVIOUS
  <1>1. host' \in Host!Hosts
    BY DEF Host!Reboot, Host!TypeOK, Host!Hosts
  <1>2. guest' \in [HostGuests -> Host!Instances]
    <2>1. ASSUME NEW g \in HostGuests PROVE [guest[g] EXCEPT !.lease = "none", !.routes = {}] \in Host!Instances
      <3>1. guest[g] \in Host!Instances
        BY DEF Host!TypeOK
      <3>2. QED
        BY <3>1 DEF Host!Instances
    <2>2. QED
      BY <2>1 DEF Host!Reboot
  <1>3. Host!PassOK' /\ Host!LaunchOK'
    <2>1. pass' = [at |-> "rest", want |-> {}, left |-> {}, asked |-> FALSE]
          /\ launch' = [of |-> "none", at |-> "rest", want |-> {}]
      BY DEF Host!Reboot, Host!Rest, Host!NoOne
    <2>2. QED
      BY <2>1 DEF Host!PassOK, Host!LaunchOK, Host!Launches
  <1>4. alone' = FALSE /\ UNCHANGED <<mine, peer, held, foreign>>
    BY DEF Host!Reboot, Host!Changed
  <1>5. QED
    BY <1>1, <1>2, <1>3, <1>4 DEF Host!TypeOK

LEMMA HostGuestTypes == Host!TypeOK /\ (\E g \in HostGuests : Host!Stops(g) \/ Host!Attach(g) \/ Host!Detach(g)) => Host!TypeOK'
  <1> DEFINE mine == s1  peer == s2  held == s3  foreign == s4  host == s5  guest == s6
             pass == s7  launch == s8  alone == s9
  <1> SUFFICES ASSUME Host!TypeOK, NEW g \in HostGuests, Host!Stops(g) \/ Host!Attach(g) \/ Host!Detach(g) PROVE Host!TypeOK'
    OBVIOUS
  <1>1. guest \in [HostGuests -> Host!Instances]
    BY DEF Host!TypeOK
  <1>2. guest' \in [HostGuests -> Host!Instances]
    <2>1. CASE Host!Stops(g)
      <3>1. [[[guest[g] EXCEPT !.runs = FALSE] EXCEPT !.lease = "none"] EXCEPT !.routes = {}] \in Host!Instances
        BY <1>1 DEF Host!Instances
      <3>2. guest' = [guest EXCEPT ![g] =
                         [[[guest[g] EXCEPT !.runs = FALSE] EXCEPT !.lease = "none"] EXCEPT !.routes = {}]]
        BY <1>1, <2>1 DEF Host!Stops
      <3>3. QED
        BY <1>1, <3>1, <3>2
    <2>2. CASE Host!Attach(g)
      BY <1>1, <2>2 DEF Host!Attach, Host!Instances
    <2>3. CASE Host!Detach(g)
      BY <1>1, <2>3 DEF Host!Detach, Host!Instances
    <2>4. QED
      BY <2>1, <2>2, <2>3
  <1>3. alone' = FALSE /\ UNCHANGED <<mine, peer, held, foreign, host, pass, launch>>
    BY DEF Host!Stops, Host!Attach, Host!Detach, Host!Changed
  <1>4. QED
    BY <1>2, <1>3 DEF Host!TypeOK, Host!PassOK, Host!LaunchOK

LEMMA HostTypeStep == Host!TypeOK /\ [Host!Next]_(Host!hostVars) => Host!TypeOK'
  <1>1. Host!TypeOK /\ UNCHANGED Host!hostVars => Host!TypeOK'
    BY DEF Host!hostVars, Host!TypeOK, Host!PassOK, Host!LaunchOK
  <1>2. QED
    BY <1>1, HostBeginTypes, HostBridgesTypes, HostReadsTypes, HostHelperTypes, HostConfigureTypes, HostShimsTypes, HostLaunchTypes,
       HostLeaseTypes, HostLaunchRoutesTypes, HostLaunchReadsTypes, HostPeerTypes, HostClaimTypes, HostLeaveTypes, HostMaintenanceTypes,
       HostRebootTypes, HostGuestTypes DEF Host!Next
-----------------------------------------------------------------------------

\* Without a fabric there is no firewall of ours.
LEMMA HostWallStep ==
    Host!TypeOK /\ (s1 = {} => s5.wall = {}) /\ [Host!Next]_(Host!hostVars) => (s1' = {} => s5'.wall = {})
  <1> DEFINE mine == s1  host == s5  pass == s7
  <1> SUFFICES ASSUME Host!TypeOK, mine = {} => host.wall = {}, [Host!Next]_(Host!hostVars) PROVE mine' = {} => host'.wall = {}
    OBVIOUS
  <1>0. host \in Host!Hosts /\ Host!Firewall({}) = {}
    BY DEF Host!TypeOK, Host!Firewall
  <1>1. CASE host' = host /\ mine' = mine
    BY <1>1
  <1>2. CASE Host!EnsureBridges
    BY <1>0, <1>2 DEF Host!EnsureBridges, Host!Hosts
  <1>3. CASE Host!Helper
    <2>1. CASE host' = [host EXCEPT !.routes = Host!Programmed(pass.want), !.wall = Host!Firewall(mine)]
      BY <1>0, <1>3, <2>1 DEF Host!Helper, Host!Hosts
    <2>2. CASE host' \in Host!Stopped(pass.want)
      BY <1>0, <1>3, <2>2 DEF Host!Helper, Host!Stopped, Host!Hosts
    <2>3. QED
      BY <1>1, <1>3, <2>1, <2>2 DEF Host!Helper
  <1>4. CASE Host!RefreshShims \/ Host!LaunchShims
    BY <1>0, <1>4 DEF Host!RefreshShims, Host!LaunchShims, Host!Hosts
  <1>5. CASE \E f \in HostFabrics : Host!ClaimTaken(f)
    BY <1>5 DEF Host!ClaimTaken
  <1>6. CASE \E f \in HostFabrics : Host!Leave(f)
    <2> SUFFICES ASSUME NEW f \in HostFabrics, Host!Leave(f), mine' = {} PROVE host'.wall = {}
      BY <1>6
    <2>1. {w \in Host!Desired : w.fabric # f} = {}
      BY HostDesiredIs DEF Host!Leave
    <2>2. host' = [host EXCEPT !.bridges = @ \ {f}, !.routes = Host!Programmed({}), !.wall = Host!Firewall({})]
      BY <2>1 DEF Host!Leave
    <2>3. QED
      BY <1>0, <2>2 DEF Host!Hosts
  <1>7. CASE Host!Reboot
    BY <1>0, <1>7 DEF Host!Reboot, Host!Hosts
  <1>8. QED
    BY <1>1, <1>2, <1>3, <1>4, <1>5, <1>6, <1>7
       DEF Host!Next, Host!hostVars, Host!Begin, Host!Reads, Host!RefreshLan, Host!ReadsAddresses, Host!ConfigureGuest, Host!Launch, Host!Lease, Host!Stops,
           Host!Attach, Host!Detach, Host!LaunchRoutes, Host!LaunchReads, Host!PeerChanges, Host!Freed, Host!Maintenance

-----------------------------------------------------------------------------

\* What nothing crossed is as it was done so far.
LEMMA HostCrossedStep ==
    ASSUME \/ \E p \in HostPeers : Host!PeerChanges(p)
           \/ \E f \in HostFabrics : Host!ClaimTaken(f) \/ Host!Leave(f) \/ Host!Freed(f)
           \/ \E g \in HostGuests : Host!Stops(g) \/ Host!Attach(g) \/ Host!Detach(g)
           \/ Host!Maintenance \/ Host!Reboot
    PROVE  s9' = FALSE
  BY DEF Host!PeerChanges, Host!ClaimTaken, Host!Leave, Host!Freed, Host!Stops, Host!Attach, Host!Detach, Host!Maintenance, Host!Reboot, Host!Changed

\* What a pass has carried out stays so while bridges, routes, firewall and wishes do.
LEMMA HostCarriedStays ==
    ASSUME Host!Carried, UNCHANGED <<s1, s2>>, s5'.bridges = s5.bridges, s5'.routes = s5.routes,
           s5'.wall = s5.wall
    PROVE  Host!Carried'
  BY DEF Host!Carried, Host!Programmed, Host!From, Host!Source, Host!Desired, Host!Way, Host!Firewall

LEMMA HostBeginQuiet == Host!HostInv /\ (\E asked \in BOOLEAN : Host!Begin(asked)) => Host!Quiet'
  <1> DEFINE mine == s1  peer == s2  held == s3  host == s5  pass == s7  launch == s8
             alone == s9
  <1> SUFFICES ASSUME Host!HostInv, NEW asked \in BOOLEAN, Host!Begin(asked), alone' PROVE Host!Quiet'
    BY DEF Host!Quiet
  <1>1. launch'.at = "rest" /\ ~held
    BY DEF Host!Begin, Host!NoOne
  <1>2. pass'.at = IF asked \/ mine # {} \/ host.routes # {} THEN "bridges" ELSE "instances"
    BY <1>1 DEF Host!Begin, Host!Rest
  <1>3. CASE pass'.at = "bridges"
    BY <1>1, <1>3 DEF Host!Quiet, Host!PassFits
  <1>4. CASE pass'.at = "instances"
    <2>1. mine = {} /\ host.routes = {} /\ host.wall = {} /\ UNCHANGED <<mine, peer, host>>
      BY <1>2, <1>4 DEF Host!Begin, Host!HostInv, Host!Quiet
    <2>2. Host!Desired = {} /\ Host!Programmed({}) = {} /\ Host!Firewall({}) = {}
      BY <2>1 DEF Host!Desired, Host!Programmed, Host!Firewall
    <2>3. Host!Carried
      BY <2>1, <2>2 DEF Host!Carried
    <2>4. Host!Carried'
      BY <2>1, <2>3, HostCarriedStays
    <2>5. QED
      BY <1>1, <1>4, <2>4 DEF Host!Quiet, Host!PassFits
  <1>5. QED
    BY <1>2, <1>3, <1>4

LEMMA HostBridgesQuiet == Host!HostInv /\ Host!EnsureBridges => Host!Quiet'
  <1> DEFINE mine == s1  host == s5  pass == s7  launch == s8  alone == s9
  <1> SUFFICES ASSUME Host!HostInv, Host!EnsureBridges, alone' PROVE Host!Quiet'
    BY DEF Host!Quiet
  <1>1. launch'.at = "rest" /\ mine' = mine
    BY DEF Host!EnsureBridges, Host!HostInv, Host!Quiet
  <1>2. pass'.at = "routes"
    BY DEF Host!EnsureBridges, Host!HostInv, Host!Quiet, Host!TypeOK, Host!PassOK
  <1>3. mine' \subseteq host'.bridges
    BY DEF Host!EnsureBridges, Host!HostInv, Host!Quiet, Host!TypeOK, Host!Hosts
  <1>4. QED
    BY <1>1, <1>2, <1>3 DEF Host!Quiet, Host!PassFits

LEMMA HostReadsQuiet == Host!HostInv /\ Host!Reads => Host!Quiet'
  <1> DEFINE mine == s1  peer == s2  host == s5  pass == s7  launch == s8  alone == s9
  <1> SUFFICES ASSUME Host!HostInv, Host!Reads, alone' PROVE Host!Quiet'
    BY DEF Host!Quiet
  <1>1. launch'.at = "rest" /\ UNCHANGED <<mine, peer, host>> /\ mine \subseteq host.bridges
    BY DEF Host!Reads, Host!HostInv, Host!Quiet, Host!PassFits
  <1>2. pass'.at = "helper" /\ pass'.want = Host!Desired
    BY DEF Host!Reads, Host!HostInv, Host!Quiet, Host!TypeOK, Host!PassOK
  <1>3. Host!Desired' = Host!Desired
    BY <1>1 DEF Host!Desired, Host!Way
  <1>4. QED
    BY <1>1, <1>2, <1>3 DEF Host!Quiet, Host!PassFits

LEMMA HostHelperQuiet == Host!HostInv /\ Host!Helper => Host!Quiet'
  <1> DEFINE mine == s1  peer == s2  host == s5  pass == s7  launch == s8  alone == s9
  <1> SUFFICES ASSUME Host!HostInv, Host!Helper, alone' PROVE Host!Quiet'
    BY DEF Host!Quiet
  <1>1. /\ ~Host!Refused(pass.want) /\ alone
        /\ host' = [host EXCEPT !.routes = Host!Programmed(pass.want), !.wall = Host!Firewall(mine)]
        /\ UNCHANGED <<mine, peer, launch>>
    BY DEF Host!Helper
  <1>2. pass.at = "helper" /\ launch.at = "rest" /\ mine \subseteq host.bridges /\ pass.want = Host!Desired
    BY <1>1 DEF Host!Helper, Host!HostInv, Host!Quiet, Host!PassFits
  <1>3. /\ pass'.at = IF pass.asked THEN "over" ELSE "instances"
        /\ pass'.asked = pass.asked
    BY DEF Host!Helper, Host!HostInv, Host!Quiet, Host!TypeOK, Host!PassOK
  <1>4. host'.bridges = host.bridges /\ host'.routes = Host!Programmed(Host!Desired) /\ host'.wall = Host!Firewall(mine)
    BY <1>1, <1>2 DEF Host!HostInv, Host!Quiet, Host!TypeOK, Host!Hosts
  <1>5. Host!Desired' = Host!Desired /\ \A w \in Host!Desired : w.via # Host!Far
    BY <1>1, <1>2 DEF Host!Desired, Host!Way, Host!Refused
  <1>6. Host!Programmed(Host!Desired)' = Host!Programmed(Host!Desired)
    BY <1>4, <1>5 DEF Host!Programmed, Host!From, Host!Source
  <1>7. Host!Carried'
    BY <1>1, <1>2, <1>4, <1>5, <1>6 DEF Host!Carried, Host!Firewall
  <1>8. QED
    BY <1>1, <1>2, <1>3, <1>7 DEF Host!Quiet, Host!PassFits

LEMMA HostRefreshQuiet == Host!HostInv /\ Host!RefreshLan => Host!Quiet'
  <1> DEFINE mine == s1  peer == s2  host == s5  guest == s6  pass == s7  launch == s8
             alone == s9
  <1> SUFFICES ASSUME Host!HostInv, Host!RefreshLan, alone' PROVE Host!Quiet'
    BY DEF Host!Quiet
  <1>1. launch'.at = "rest" /\ UNCHANGED <<mine, peer, host, guest>> /\ Host!Carried
    BY DEF Host!RefreshLan, Host!HostInv, Host!Quiet, Host!PassFits
  <1>2. pass'.at = "guests" /\ pass'.left = Host!OnLan
    BY DEF Host!RefreshLan, Host!HostInv, Host!Quiet, Host!TypeOK, Host!PassOK
  <1>3. Host!OnLan' = Host!OnLan
    BY <1>1 DEF Host!OnLan
  <1>4. Host!Carried'
    BY <1>1, HostCarriedStays
  <1>5. QED
    BY <1>1, <1>2, <1>3, <1>4 DEF Host!Quiet, Host!PassFits

LEMMA HostConfigureQuiet == Host!HostInv /\ (\E g \in HostGuests : Host!ConfigureGuest(g)) => Host!Quiet'
  <1> DEFINE mine == s1  peer == s2  host == s5  guest == s6  pass == s7  launch == s8
             alone == s9
  <1> SUFFICES ASSUME Host!HostInv, NEW g \in HostGuests, Host!ConfigureGuest(g), alone' PROVE Host!Quiet'
    BY DEF Host!Quiet
  <1>1. /\ launch'.at = "rest" /\ UNCHANGED <<mine, peer, host>> /\ Host!Carried
        /\ guest[g].lease = "shown" /\ \A h \in Host!OnLan \ pass.left : Host!Knows(h)
    BY DEF Host!ConfigureGuest, Host!HostInv, Host!Quiet, Host!PassFits
  <1>2. pass'.at = "guests" /\ pass'.left = pass.left \ {g}
    BY DEF Host!ConfigureGuest, Host!HostInv, Host!Quiet, Host!TypeOK, Host!PassOK
  <1>3. /\ guest'[g].routes = Host!GuestRoutes /\ guest'[g].lease = "shown"
        /\ guest'[g].runs = guest[g].runs /\ guest'[g].fabric = guest[g].fabric
        /\ \A h \in HostGuests \ {g} : guest'[h] = guest[h]
    BY <1>1, HostConfiguredIs DEF Host!ConfigureGuest, Host!HostInv, Host!Quiet
  <1>4. Host!OnLan' = Host!OnLan /\ Host!GuestRoutes' = Host!GuestRoutes
    BY <1>1, <1>3 DEF Host!OnLan, Host!GuestRoutes, Host!Way
  <1>5. \A h \in Host!OnLan' \ pass'.left : Host!Knows(h)'
    BY <1>1, <1>2, <1>3, <1>4, HostShownIs DEF Host!Knows
  <1>6. Host!Carried'
    BY <1>1, HostCarriedStays
  <1>7. QED
    BY <1>1, <1>2, <1>5, <1>6 DEF Host!Quiet, Host!PassFits

LEMMA HostAddressesQuiet == Host!HostInv /\ Host!ReadsAddresses => Host!Quiet'
  <1> DEFINE mine == s1  peer == s2  host == s5  guest == s6  pass == s7  launch == s8
             alone == s9
  <1> SUFFICES ASSUME Host!HostInv, Host!ReadsAddresses, alone' PROVE Host!Quiet'
    BY DEF Host!Quiet
  <1>1. /\ launch'.at = "rest" /\ UNCHANGED <<mine, peer, host, guest>> /\ Host!Carried
        /\ \A h \in Host!OnLan : Host!Knows(h)
    BY DEF Host!ReadsAddresses, Host!HostInv, Host!Quiet, Host!PassFits
  <1>2. pass'.at = "shims" /\ pass'.want = Host!Shown
    BY DEF Host!ReadsAddresses, Host!HostInv, Host!Quiet, Host!TypeOK, Host!PassOK
  <1>3. Host!Shown = Host!OnLan /\ Host!OnLan' = Host!OnLan /\ Host!GuestRoutes' = Host!GuestRoutes
    BY <1>1 DEF Host!Shown, Host!OnLan, Host!Knows, Host!GuestRoutes, Host!Way
  <1>4. \A h \in Host!OnLan' : Host!Knows(h)'
    BY <1>1, <1>3 DEF Host!Knows
  <1>5. Host!Carried'
    BY <1>1, HostCarriedStays
  <1>6. QED
    BY <1>1, <1>2, <1>3, <1>4, <1>5 DEF Host!Quiet, Host!PassFits

LEMMA HostShimsQuiet == Host!HostInv /\ Host!RefreshShims => Host!Quiet'
  <1> DEFINE mine == s1  peer == s2  host == s5  guest == s6  pass == s7  launch == s8
             alone == s9
  <1> SUFFICES ASSUME Host!HostInv, Host!RefreshShims, alone' PROVE Host!Quiet'
    BY DEF Host!Quiet
  <1>1. /\ launch'.at = "rest" /\ UNCHANGED <<mine, peer, guest>> /\ Host!Carried
        /\ pass.want = Host!OnLan /\ \A h \in Host!OnLan : Host!Knows(h)
    BY DEF Host!RefreshShims, Host!HostInv, Host!Quiet, Host!PassFits
  <1>2. pass'.at = "over" /\ pass'.asked = pass.asked
    BY DEF Host!RefreshShims, Host!HostInv, Host!Quiet, Host!TypeOK, Host!PassOK
  <1>3. Host!OnLan' = Host!OnLan /\ Host!GuestRoutes' = Host!GuestRoutes
    BY <1>1 DEF Host!OnLan, Host!GuestRoutes, Host!Way
  <1>4. \A h \in Host!OnLan' : Host!Knows(h)'
    BY <1>1, <1>3 DEF Host!Knows
  <1>5. /\ host'.shims = Host!OnLan /\ host'.bridges = host.bridges /\ host'.routes = host.routes
        /\ host'.wall = host.wall
    BY <1>1 DEF Host!RefreshShims, Host!HostInv, Host!Quiet, Host!TypeOK, Host!Hosts
  <1>6. Host!Carried'
    BY <1>1, <1>5, HostCarriedStays
  <1>7. QED
    BY <1>1, <1>2, <1>3, <1>4, <1>5, <1>6 DEF Host!Quiet, Host!PassFits

LEMMA HostLaunchQuiet == Host!HostInv /\ (\E g \in HostGuests : Host!Launch(g)) => Host!Quiet'
  BY DEF Host!Launch, Host!Rest, Host!NoOne, Host!Quiet, Host!LaunchFits

LEMMA HostLeaseQuiet == Host!HostInv /\ (\E g \in HostGuests : Host!Lease(g)) => Host!Quiet'
  <1> DEFINE mine == s1  peer == s2  host == s5  guest == s6  pass == s7  launch == s8
             alone == s9
  <1> SUFFICES ASSUME Host!HostInv, NEW g \in HostGuests, Host!Lease(g), alone' PROVE Host!Quiet'
    BY DEF Host!Quiet
  <1>1. /\ UNCHANGED <<mine, peer, host, pass, launch>> /\ alone /\ guest[g].lease # "shown"
        /\ Host!TypeOK
    BY DEF Host!Lease, Host!HostInv, Host!Quiet
  <1>2. /\ guest \in [HostGuests -> Host!Instances]
        /\ guest'[g].runs = guest[g].runs /\ guest'[g].fabric = guest[g].fabric
        /\ guest'[g].routes = guest[g].routes /\ \A h \in HostGuests \ {g} : guest'[h] = guest[h]
    BY DEF Host!Lease, Host!HostInv, Host!Quiet, Host!TypeOK, Host!Instances
  <1>3. Host!OnLan' = Host!OnLan /\ Host!GuestRoutes' = Host!GuestRoutes
    BY <1>1, <1>2 DEF Host!OnLan, Host!GuestRoutes, Host!Way
  <1>4. CASE pass.at # "rest"
    <2>1. launch.at = "rest" /\ Host!PassFits
      BY <1>1, <1>4 DEF Host!HostInv, Host!Quiet
    <2>2. ASSUME NEW h \in Host!OnLan, Host!Knows(h) PROVE Host!Knows(h)'
      <3>1. h # g /\ h \in HostGuests
        BY <1>1, <2>2, HostShownIs DEF Host!Knows
      <3>2. guest'[h] = guest[h]
        BY <1>2, <3>1
      <3>3. QED
        BY <1>3, <2>2, <3>2 DEF Host!Knows
    <2>3. Host!Carried => Host!Carried'
      BY <1>1, HostCarriedStays
    <2>4. Host!Desired' = Host!Desired
      BY <1>1 DEF Host!Desired, Host!Way
    <2>5. Host!PassFits'
      BY <1>1, <1>3, <2>1, <2>2, <2>3, <2>4 DEF Host!PassFits
    <2>6. QED
      BY <1>1, <1>4, <2>1, <2>5 DEF Host!Quiet
  <1>5. CASE pass.at = "rest"
    <2>1. Host!LaunchFits /\ Host!LaunchOK
      BY <1>1, <1>5 DEF Host!HostInv, Host!Quiet, Host!TypeOK
    <2>2. launch.at # "rest" => guest'[launch.of].routes = guest[launch.of].routes
      BY <1>2, <2>1 DEF Host!LaunchOK
    <2>3. Host!LaunchFits'
      BY <1>1, <1>3, <2>1, <2>2 DEF Host!LaunchFits
    <2>4. QED
      BY <1>1, <1>5, <2>3 DEF Host!Quiet
  <1>6. QED
    BY <1>4, <1>5

LEMMA HostLaunchRoutesQuiet == Host!HostInv /\ Host!LaunchRoutes => Host!Quiet'
  <1> DEFINE mine == s1  peer == s2  host == s5  guest == s6  pass == s7  launch == s8
             alone == s9
  <1> SUFFICES ASSUME Host!HostInv, Host!LaunchRoutes, alone' PROVE Host!Quiet'
    BY DEF Host!Quiet
  <1>1. pass.at = "rest" /\ pass' = pass /\ UNCHANGED <<mine, peer, host>>
    BY DEF Host!LaunchRoutes, Host!HostInv, Host!Quiet
  <1>2. CASE launch' = Host!NoOne
    BY <1>1, <1>2 DEF Host!Quiet, Host!LaunchFits, Host!NoOne
  <1>3. CASE launch.of \in Host!OnLan /\ launch' # Host!NoOne
    <2>1. launch.of \in HostGuests /\ guest[launch.of].lease # "none" /\ guest' = Host!Configured(launch.of)
      BY <1>3, HostShownIs DEF Host!LaunchRoutes
    <2>2. launch'.at = "waits" /\ launch'.of = launch.of
      BY <1>3 DEF Host!LaunchRoutes, Host!HostInv, Host!Quiet, Host!TypeOK, Host!LaunchOK, Host!Launches
    <2>3. guest'[launch.of].routes = Host!GuestRoutes
      BY <2>1, HostConfiguredIs DEF Host!HostInv, Host!Quiet
    <2>4. Host!GuestRoutes' = Host!GuestRoutes
      BY <1>1 DEF Host!GuestRoutes, Host!Way
    <2>5. QED
      BY <1>1, <2>2, <2>3, <2>4 DEF Host!Quiet, Host!LaunchFits
  <1>4. QED
    BY <1>2, <1>3 DEF Host!LaunchRoutes

LEMMA HostLaunchReadsQuiet == Host!HostInv /\ Host!LaunchReads => Host!Quiet'
  <1> DEFINE mine == s1  peer == s2  host == s5  guest == s6  pass == s7  launch == s8
             alone == s9
  <1> SUFFICES ASSUME Host!HostInv, Host!LaunchReads, alone' PROVE Host!Quiet'
    BY DEF Host!Quiet
  <1>1. /\ pass.at = "rest" /\ alone /\ launch.of \in Host!Shown /\ UNCHANGED <<pass, mine, peer, host, guest>>
        /\ guest[launch.of].routes = Host!GuestRoutes
    BY DEF Host!LaunchReads, Host!Waits, Host!HostInv, Host!Quiet, Host!LaunchFits
  <1>2. launch'.at = "shims" /\ launch'.want = Host!Shown /\ launch'.of = launch.of
    BY DEF Host!LaunchReads, Host!Waits, Host!HostInv, Host!Quiet, Host!TypeOK, Host!LaunchOK, Host!Launches
  <1>3. Host!GuestRoutes' = Host!GuestRoutes
    BY <1>1 DEF Host!GuestRoutes, Host!Way
  <1>4. QED
    BY <1>1, <1>2, <1>3 DEF Host!Quiet, Host!LaunchFits

LEMMA HostLaunchShimsQuiet == Host!HostInv /\ Host!LaunchShims => Host!Quiet'
  <1> DEFINE mine == s1  peer == s2  host == s5  guest == s6  pass == s7  launch == s8
             alone == s9
  <1> SUFFICES ASSUME Host!HostInv, Host!LaunchShims, alone' PROVE Host!Quiet'
    BY DEF Host!Quiet
  <1>1. /\ pass.at = "rest" /\ alone /\ launch.of \in launch.want /\ UNCHANGED <<pass, mine, peer, guest>>
        /\ guest[launch.of].routes = Host!GuestRoutes
    BY DEF Host!LaunchShims, Host!HostInv, Host!Quiet, Host!LaunchFits
  <1>2. launch'.at = "over" /\ launch'.of = launch.of /\ host'.shims = launch.want
    BY DEF Host!LaunchShims, Host!HostInv, Host!Quiet, Host!TypeOK, Host!LaunchOK, Host!Launches, Host!Hosts
  <1>3. Host!GuestRoutes' = Host!GuestRoutes
    BY <1>1 DEF Host!GuestRoutes, Host!Way
  <1>4. QED
    BY <1>1, <1>2, <1>3 DEF Host!Quiet, Host!LaunchFits

LEMMA HostInit == Host!Init => Host!HostInv
  <1> DEFINE mine == s1  peer == s2  held == s3  foreign == s4  host == s5  guest == s6
             alone == s9
  <1> SUFFICES ASSUME Host!Init PROVE Host!HostInv
    OBVIOUS
  <1>1. Host!PassOK /\ Host!LaunchOK
    BY DEF Host!Init, Host!Rest, Host!NoOne, Host!PassOK, Host!LaunchOK, Host!Launches
  <1>2. host \in Host!Hosts /\ host.wall = {}
    BY DEF Host!Init, Host!Hosts
  <1>3. guest \in [HostGuests -> Host!Instances]
    BY DEF Host!Init, Host!Instances
  <1>4. alone = FALSE /\ held \in BOOLEAN /\ mine \subseteq HostFabrics /\ foreign \subseteq HostFabrics
        /\ peer \in [HostPeers -> [claims : SUBSET HostFabrics, via : Host!Addresses \cup {Host!Far}]]
    BY DEF Host!Init, Host!Addresses
  <1>5. QED
    BY <1>1, <1>2, <1>3, <1>4 DEF Host!HostInv, Host!Quiet, Host!TypeOK

LEMMA HostStep == Host!HostInv /\ [Host!Next]_(Host!hostVars) => Host!HostInv'
  <1> DEFINE mine == s1  host == s5  alone == s9
  <1> SUFFICES ASSUME Host!HostInv, [Host!Next]_(Host!hostVars) PROVE Host!HostInv'
    OBVIOUS
  <1>1. Host!TypeOK' /\ (mine' = {} => host'.wall = {})
    BY HostTypeStep, HostWallStep DEF Host!HostInv, Host!Quiet
  <1>2. Host!Quiet'
    <2>1. CASE UNCHANGED Host!hostVars
      <3>1. Host!Quiet
        BY DEF Host!HostInv, Host!Quiet
      <3>2. QED
        BY <2>1, <3>1 DEF Host!hostVars, Host!Quiet, Host!PassFits, Host!LaunchFits, Host!Carried, Host!Knows, Host!OnLan, Host!Desired, Host!GuestRoutes, Host!Way,
           Host!Programmed, Host!From, Host!Source, Host!Firewall
    <2>2. CASE alone' = FALSE
      BY <2>2 DEF Host!Quiet
    <2>3. QED
      BY <2>1, <2>2, HostCrossedStep, HostBeginQuiet, HostBridgesQuiet, HostReadsQuiet, HostHelperQuiet, HostRefreshQuiet, HostConfigureQuiet,
         HostAddressesQuiet, HostShimsQuiet, HostLaunchQuiet, HostLeaseQuiet, HostLaunchRoutesQuiet, HostLaunchReadsQuiet,
         HostLaunchShimsQuiet DEF Host!Next
  <1>3. QED
    BY <1>1, <1>2 DEF Host!HostInv, Host!Quiet

-----------------------------------------------------------------------------

\* A fabric whose routes are as wanted shows them as ok.
LEMMA HostGives == Host!HostInv => Host!OnePassIsEnough
  <1> DEFINE mine == s1  peer == s2  host == s5  pass == s7  launch == s8  alone == s9
  <1> SUFFICES ASSUME Host!HostInv PROVE Host!OnePassIsEnough
    OBVIOUS
  <1>1. ASSUME pass.at = "over", alone
        PROVE  /\ ~Host!Pending /\ \A r \in host.routes : r.source = Host!Gateway
               /\ host.wall = Host!Firewall(mine)
               /\ \A f \in mine : Host!MemberState(f) = "ok"
               /\ ~pass.asked => host.shims = Host!OnLan /\ \A g \in Host!OnLan : Host!Reached(g)
    <2>1. Host!Carried /\ (~pass.asked => host.shims = Host!OnLan /\ \A g \in Host!OnLan : Host!Knows(g))
      BY <1>1 DEF Host!HostInv, Host!Quiet, Host!PassFits
    <2>2. \A r \in host.routes : r.source = Host!Gateway
      BY <2>1, HostDesiredIs DEF Host!HostInv, Host!Quiet, Host!Carried, Host!Programmed, Host!From, Host!Source
    <2>3. ASSUME NEW f \in mine PROVE Host!MemberState(f) = "ok"
      <3>1. f \in host.bridges
        BY <2>1 DEF Host!Carried
      <3>2. ASSUME NEW p \in HostPeers, Host!Way(p, f) \in Host!Desired PROVE Host!RouteState(p, f) = "ok"
        <4>1. Host!From(Host!Way(p, f)) \in host.routes
          BY <2>1, <3>2 DEF Host!Carried, Host!Programmed
        <4>2. Host!Way(p, f) \in Host!Ways(host.routes)
          BY <4>1 DEF Host!Ways, Host!From, Host!Way
        <4>3. peer[p].via # Host!Far
          BY <2>1, <3>2 DEF Host!Carried, Host!Way
        <4>4. QED
          BY <4>2, <4>3 DEF Host!RouteState
      <3>3. QED
        BY <3>1, <3>2 DEF Host!MemberState
    <2>4. QED
      BY <2>1, <2>2, <2>3 DEF Host!Carried, Host!Pending, Host!Knows, Host!Reached
  <1>2. ASSUME launch.at = "over", alone, pass.at = "rest" PROVE Host!Reached(launch.of)
    BY <1>2 DEF Host!HostInv, Host!Quiet, Host!LaunchFits, Host!Reached
  <1>3. QED
    BY <1>1, <1>2 DEF Host!OnePassIsEnough

-----------------------------------------------------------------------------
(* Modules run inside an instance.                                           *)
-----------------------------------------------------------------------------
(* How often a module is in a list. *)

LEMMA BootSameSize == ASSUME NEW S PROVE Boot!Cardinality(S) = Cardinality(S)
  BY DEF Boot!Cardinality, Cardinality

LEMMA BootUptoIsNat == ASSUME NEW list, NEW i \in Nat, NEW m PROVE Boot!Upto(list, i, m) \in Nat /\ Boot!Upto(list, i, m) <= i
  <1>1. IsFiniteSet(1 .. i) /\ Cardinality(1 .. i) = i
    BY FS_Interval
  <1>2. {j \in 1 .. i : list[j] = m} \subseteq 1 .. i
    OBVIOUS
  <1>3. QED
    BY <1>1, <1>2, FS_Subset, FS_CardinalityType, BootSameSize DEF Boot!Upto

LEMMA BootCountOfOne == ASSUME NEW list, NEW i, NEW m, NEW a, {j \in 1 .. i : list[j] = m} = {a}
                 PROVE Boot!Upto(list, i, m) = 1
  BY FS_Singleton, BootSameSize DEF Boot!Upto

LEMMA BootTwoAreTwo == ASSUME NEW a, NEW b, a # b PROVE Cardinality({a, b}) = 2
  <1>1. IsFiniteSet({a}) /\ Cardinality({a}) = 1 /\ b \notin {a}
    BY FS_Singleton
  <1>2. {a} \cup {b} = {a, b}
    OBVIOUS
  <1>3. QED
    BY <1>1, <1>2, FS_AddElement

LEMMA BootOneAndAnother == Cardinality({1, 2}) = 2 /\ Cardinality({1, 3}) = 2
  <1>1. 1 # 2 /\ 1 # 3
    OBVIOUS
  <1>2. QED
    BY <1>1, BootTwoAreTwo, Zenon

LEMMA BootBetween == ASSUME NEW n \in 1 .. 3, NEW i \in 1 .. n, i > 1 PROVE i \in 2 .. 3
  OBVIOUS

LEMMA BootSomeAreCounted == ASSUME NEW list, NEW i \in Nat, NEW m, NEW j \in 1 .. i, list[j] = m
                     PROVE Boot!Upto(list, i, m) > 0
  <1> DEFINE S == {x \in 1 .. i : list[x] = m}
  <1>1. IsFiniteSet(S)
    <2>1. IsFiniteSet(1 .. i)
      BY FS_Interval
    <2>2. QED
      BY <2>1, FS_Subset
  <1>2. S # {}
    OBVIOUS
  <1>3. Cardinality(S) # 0 /\ Cardinality(S) \in Nat
    <2> HIDE DEF S
    <2>1. QED
      BY <1>1, <1>2, FS_EmptySet, FS_CardinalityType
  <1>4. QED
    BY <1>3, BootSameSize DEF Boot!Upto

LEMMA BootListsLength == ASSUME NEW list \in Boot!Lists PROVE Len(list) \in 1 .. 3
  BY DEF Boot!Lists

LEMMA BootSelectedIsSeq == ASSUME NEW list, Len(list) \in Nat PROVE Boot!Selected(list) \in Seq(Boot!Counted(list))
  <1> DEFINE first == [n \in 1 .. Boot!Times(list, "mount") |-> <<"mount", n>>]
             second == [n \in 1 .. Boot!Times(list, "tool") |-> <<"tool", n>>]
  <1>1. \A m : Boot!Times(list, m) \in Nat /\ Boot!Times(list, m) <= Len(list)
    BY BootUptoIsNat DEF Boot!Times
  <1>2. first \in Seq(Boot!Counted(list)) /\ second \in Seq(Boot!Counted(list))
    <2>1. \A n \in 1 .. Boot!Times(list, "mount") : <<"mount", n>> \in Boot!Counted(list)
      BY <1>1 DEF Boot!Counted, Boot!Modules
    <2>2. \A n \in 1 .. Boot!Times(list, "tool") : <<"tool", n>> \in Boot!Counted(list)
      BY <1>1 DEF Boot!Counted, Boot!Modules
    <2>3. first \in [1 .. Boot!Times(list, "mount") -> Boot!Counted(list)]
      BY <2>1
    <2>4. second \in [1 .. Boot!Times(list, "tool") -> Boot!Counted(list)]
      BY <2>2
    <2> HIDE DEF first, second
    <2>5. QED
      BY <1>1, <2>3, <2>4
  <1>3. Boot!Selected(list) = first \o second
    BY DEF Boot!Selected
  <1> HIDE DEF first, second
  <1>4. QED
    BY <1>2, <1>3

LEMMA BootSelectedCounted ==
  ASSUME NEW list, Len(list) \in Nat, NEW i \in 1 .. Len(Boot!Selected(list))
  PROVE Boot!Selected(list)[i] \in Boot!Counted(list)
  BY BootSelectedIsSeq

-----------------------------------------------------------------------------
(* The last entry that declares a parameter. *)

LEMMA BootLastIs ==
  ASSUME NEW list, Len(list) \in 1 .. 3, NEW k,
         \E i \in 1 .. Len(list) : k[1] \in Boot!Params(list[i]) /\ Boot!Upto(list, i, list[i]) = k[2]
  PROVE LET i == Boot!LastWith(list, k)
        IN i \in 1 .. Len(list) /\ k[1] \in Boot!Params(list[i]) /\ Boot!Upto(list, i, list[i]) = k[2]
  <1> DEFINE fits == {i \in 1 .. Len(list) : k[1] \in Boot!Params(list[i]) /\ Boot!Upto(list, i, list[i]) = k[2]}
  <1>1. fits # {} /\ fits \subseteq 1 .. 3
    OBVIOUS
  <1>2. \E i \in fits : \A j \in fits : j <= i
    <2> HIDE DEF fits
    <2>1. CASE 3 \in fits
      BY <1>1, <2>1
    <2>2. CASE 3 \notin fits /\ 2 \in fits
      BY <1>1, <2>2
    <2>3. CASE 3 \notin fits /\ 2 \notin fits
      <3>1. \A j \in fits : j = 1
        BY <1>1, <2>3
      <3>2. 1 \in fits
        BY <1>1, <3>1
      <3>3. QED
        BY <3>1, <3>2
    <2>4. QED
      BY <2>1, <2>2, <2>3
  <1>3. Boot!LastWith(list, k) = CHOOSE i \in fits : \A j \in fits : j <= i
    BY <1>1 DEF Boot!LastWith
  <1>4. Boot!LastWith(list, k) \in fits
    <2> HIDE DEF fits
    <2>1. QED
      BY <1>2, <1>3
  <1>5. QED
    BY <1>4

\* The first copy of a module is of the list's first module at the earliest.
LEMMA BootFirstIsThere ==
  ASSUME NEW list, Len(list) \in 1 .. 3
  PROVE LET i == Boot!LastWith(list, <<"P", 1>>) IN i \in 1 .. Len(list) /\ Boot!Times(list, list[i]) > 0
  <1> DEFINE k == <<"P", 1>>  l == Boot!LastWith(list, k)
  <1>1. {j \in 1 .. 1 : list[j] = list[1]} = {1}
    OBVIOUS
  <1>2. Boot!Upto(list, 1, list[1]) = 1
    BY <1>1, BootCountOfOne
  <1>3. \E i \in 1 .. Len(list) : k[1] \in Boot!Params(list[i]) /\ Boot!Upto(list, i, list[i]) = k[2]
    BY <1>2 DEF Boot!Params
  <1>4. l \in 1 .. Len(list)
    <2> HIDE DEF k
    <2>1. QED
      BY <1>3, BootLastIs
  <1> HIDE DEF l
  <1>6. Boot!Times(list, list[l]) > 0
    BY <1>4, BootSomeAreCounted DEF Boot!Times
  <1>7. QED
    BY <1>4, <1>6 DEF l

\* A second copy is of the module that may be repeated, and so is its P.
LEMMA BootSecondIsMount ==
  ASSUME NEW list \in Boot!Lists, Boot!Once(list), NEW e \in Boot!Counted(list), e[2] > 1
  PROVE /\ e = <<"mount", 2>>
        /\ Boot!LastWith(list, <<"P", 2>>) \in 1 .. Len(list) /\ list[Boot!LastWith(list, <<"P", 2>>)] = "mount"
  <1>1. Len(list) \in 1 .. 3
    BY BootListsLength
  <1>2. \A m : Boot!Times(list, m) \in Nat /\ Boot!Times(list, m) <= Len(list)
    BY <1>1, BootUptoIsNat DEF Boot!Times
  <1>3. e[1] \in {"mount", "tool"} /\ e[2] \in 2 .. 3 /\ e[2] <= Boot!Times(list, e[1]) /\ e = <<e[1], e[2]>>
    <2>1. e \in Boot!Modules \X (1 .. Len(list)) /\ e[2] <= Boot!Times(list, e[1])
      BY DEF Boot!Counted
    <2>2. e[1] \in Boot!Modules /\ e[2] \in 1 .. Len(list) /\ e = <<e[1], e[2]>>
      BY <2>1
    <2>3. e[2] \in 2 .. 3
      BY <1>1, <2>2, BootBetween
    <2>4. e[1] \in {"mount", "tool"}
      BY <2>2 DEF Boot!Modules
    <2>5. QED
      BY <2>1, <2>2, <2>3, <2>4
  <1>4. Boot!Times(list, "tool") < 2
    <2>1. Boot!Times(list, "tool") >= 2 => <<"tool", 2>> \in Boot!Counted(list)
      BY <1>1, <1>2 DEF Boot!Counted, Boot!Modules
    <2>2. QED
      BY <1>2, <2>1 DEF Boot!Once
  <1>5. e[1] = "mount" /\ Boot!Times(list, "mount") >= 2
    BY <1>2, <1>3, <1>4
  <1>6. ASSUME NEW a, {j \in 1 .. Len(list) : list[j] = "mount"} \subseteq {a} PROVE FALSE
    <2>1. {j \in 1 .. Len(list) : list[j] = "mount"} = {} \/ {j \in 1 .. Len(list) : list[j] = "mount"} = {a}
      BY <1>6
    <2>2. Boot!Times(list, "mount") \in {0, 1}
      BY <2>1, FS_EmptySet, FS_Singleton, BootSameSize DEF Boot!Times, Boot!Upto
    <2>3. QED
      BY <1>5, <2>2
  <1>7. list = <<"mount", "mount">> \/ list = <<"mount", "tool", "mount">>
    <2>1. list # <<"mount">>
      <3>1. list = <<"mount">> => {j \in 1 .. Len(list) : list[j] = "mount"} \subseteq {1}
        OBVIOUS
      <3>2. QED
        BY <1>6, <3>1
    <2>2. list # <<"tool">>
      <3>1. list = <<"tool">> => {j \in 1 .. Len(list) : list[j] = "mount"} \subseteq {1}
        OBVIOUS
      <3>2. QED
        BY <1>6, <3>1
    <2>3. list # <<"mount", "tool">>
      <3>1. list = <<"mount", "tool">> => {j \in 1 .. Len(list) : list[j] = "mount"} \subseteq {1}
        OBVIOUS
      <3>2. QED
        BY <1>6, <3>1
    <2>4. list # <<"tool", "mount">>
      <3>1. list = <<"tool", "mount">> => {j \in 1 .. Len(list) : list[j] = "mount"} \subseteq {2}
        OBVIOUS
      <3>2. QED
        BY <1>6, <3>1
    <2>5. list # <<"tool", "tool">>
      <3>1. list = <<"tool", "tool">> => {j \in 1 .. Len(list) : list[j] = "mount"} \subseteq {1}
        OBVIOUS
      <3>2. QED
        BY <1>6, <3>1
    <2>6. QED
      BY <2>1, <2>2, <2>3, <2>4, <2>5 DEF Boot!Lists
  <1>8. \E i \in 1 .. Len(list) : Boot!Upto(list, i, list[i]) = 2
    <2>1. CASE list = <<"mount", "mount">>
      <3>1. {j \in 1 .. 2 : list[j] = list[2]} = {1, 2}
        BY <2>1
      <3>2. Boot!Upto(list, 2, list[2]) = Cardinality({1, 2})
        BY <3>1, BootSameSize DEF Boot!Upto
      <3>3. Boot!Upto(list, 2, list[2]) = 2
        BY <3>2, BootOneAndAnother
      <3>4. QED
        BY <2>1, <3>3
    <2>2. CASE list = <<"mount", "tool", "mount">>
      <3>1. {j \in 1 .. 3 : list[j] = list[3]} = {1, 3}
        BY <2>2
      <3>2. Boot!Upto(list, 3, list[3]) = Cardinality({1, 3})
        BY <3>1, BootSameSize DEF Boot!Upto
      <3>3. Boot!Upto(list, 3, list[3]) = 2
        BY <3>2, BootOneAndAnother
      <3>4. QED
        BY <2>2, <3>3
    <2>3. QED
      BY <1>7, <2>1, <2>2
  <1> DEFINE k == <<"P", 2>>  l == Boot!LastWith(list, k)
  <1>9. l \in 1 .. Len(list) /\ Boot!Upto(list, l, list[l]) = 2
    <2>1. k[1] = "P" /\ k[2] = 2 /\ \A m : "P" \in Boot!Params(m)
      BY DEF Boot!Params
    <2> HIDE DEF k
    <2>2. QED
      BY <1>1, <1>8, <2>1, BootLastIs
  <1>10. list[l] \in {"mount", "tool"}
    BY <1>7, <1>9
  <1>11. list[l] # "tool"
    <2> HIDE DEF l
    <2>1. SUFFICES ASSUME list[l] = "tool" PROVE FALSE
      OBVIOUS
    <2>2. IsFiniteSet({j \in 1 .. Len(list) : list[j] = "tool"})
      <3>1. IsFiniteSet(1 .. Len(list))
        BY <1>1, FS_Interval
      <3>2. QED
        BY <3>1, FS_Subset
    <2>3. {j \in 1 .. l : list[j] = "tool"} \subseteq {j \in 1 .. Len(list) : list[j] = "tool"}
      BY <1>9
    <2>4. Boot!Upto(list, l, "tool") <= Boot!Times(list, "tool")
      BY <2>2, <2>3, FS_Subset, BootSameSize DEF Boot!Times, Boot!Upto
    <2>5. QED
      BY <1>2, <1>4, <1>9, <2>1, <2>4
  <1>12. Boot!Times(list, "mount") <= 2
    <2>1. CASE list = <<"mount", "mount">>
      BY <1>2, <2>1
    <2>2. CASE list = <<"mount", "tool", "mount">>
      <3>1. {j \in 1 .. Len(list) : list[j] = "mount"} = {1, 3}
        BY <2>2
      <3>2. Boot!Times(list, "mount") = Cardinality({1, 3})
        BY <3>1, BootSameSize DEF Boot!Times, Boot!Upto
      <3>3. QED
        BY <3>2, BootOneAndAnother
    <2>3. QED
      BY <1>7, <2>1, <2>2
  <1>13. e[2] = 2
    BY <1>2, <1>3, <1>5, <1>12
  <1>14. QED
    BY <1>3, <1>5, <1>9, <1>10, <1>11, <1>13

-----------------------------------------------------------------------------
(* What a run's values are worked out of. *)

LEMMA BootEntriesAreModules == ASSUME NEW list \in Boot!Lists, NEW i \in 1 .. Len(list) PROVE list[i] \in Boot!Modules
  BY DEF Boot!Lists, Boot!Modules

LEMMA BootEffectiveIsSet == ASSUME NEW settled, NEW m \in Boot!Modules
                     PROVE Boot!Effective(settled, m, "P") # Boot!Unset /\ Boot!Effective(settled, m, "S") = ""
  BY DEF Boot!Effective, Boot!Modules, Boot!Default, Boot!Unset

LEMMA BootFirstValue ==
  ASSUME NEW list \in Boot!Lists, NEW settled, NEW given
  PROVE LET v == Boot!Merged(settled, list, given)[<<"P", 1>>]
            i == Boot!LastWith(list, <<"P", 1>>)
        IN /\ i \in 1 .. Len(list) /\ Boot!Times(list, list[i]) > 0 /\ list[i] \in Boot!Modules /\ v # Boot!Unset
           /\ v = IF given[<<"P", 1>>] # Boot!Unset THEN given[<<"P", 1>>] ELSE Boot!Effective(settled, list[i], "P")
  <1> DEFINE k == <<"P", 1>>
             i == Boot!LastWith(list, k)
  <1>1. i \in 1 .. Len(list) /\ Boot!Times(list, list[i]) > 0
    BY BootListsLength, BootFirstIsThere
  <1> HIDE DEF i
  <1>2. i # 0 /\ list[i] \in Boot!Modules
    BY <1>1, BootEntriesAreModules, BootListsLength
  <1>3. k \in Boot!Keys /\ k[1] = "P"
    BY DEF Boot!Keys
  <1>4. Boot!Merged(settled, list, given)[k] = IF given[k] # Boot!Unset THEN given[k] ELSE Boot!Effective(settled, list[i], "P")
    <2> HIDE DEF k
    <2>1. QED
      BY <1>2, <1>3 DEF Boot!Merged, i
  <1>5. QED
    BY <1>1, <1>2, <1>4, BootEffectiveIsSet DEF i

\* The environment of a first copy has what the run says of P.
LEMMA BootFirstGets ==
  ASSUME NEW values, NEW m, values[<<"P", 1>>] # Boot!Unset
  PROVE Boot!Environment(values, m, 1).P = values[<<"P", 1>>]
  <1>1. "P" \in Boot!Params(m)
    BY DEF Boot!Params
  <1>2. Boot!OccurrenceValue(values, "P", 1) = values[<<"P", 1>>]
    BY DEF Boot!OccurrenceValue
  <1>3. QED
    BY <1>1, <1>2 DEF Boot!Environment

LEMMA BootSecondGets ==
  ASSUME NEW values, NEW m, values[<<"P", 2>>] # Boot!Unset
  PROVE Boot!Environment(values, m, 2).P = values[<<"P", 2>>]
  <1>1. "P" \in Boot!Params(m)
    BY DEF Boot!Params
  <1>2. Boot!OccurrenceValue(values, "P", 2) = values[<<"P", 2>>]
    BY DEF Boot!OccurrenceValue
  <1>3. QED
    BY <1>1, <1>2 DEF Boot!Environment

LEMMA BootSecondValue ==
  ASSUME NEW list \in Boot!Lists, Boot!Once(list), NEW e \in Boot!Counted(list), e[2] > 1, NEW settled, NEW given
  PROVE Boot!Merged(settled, list, given)[<<"P", 2>>] =
          IF given[<<"P", 2>>] # Boot!Unset THEN given[<<"P", 2>>] ELSE Boot!Effective(settled, "mount", "P")
  <1> DEFINE k == <<"P", 2>>
             i == Boot!LastWith(list, k)
  <1>1. i \in 1 .. Len(list) /\ list[i] = "mount"
    BY BootSecondIsMount
  <1> HIDE DEF i
  <1>2. i # 0
    BY <1>1, BootListsLength
  <1>3. k \in Boot!Keys /\ k[1] = "P"
    BY DEF Boot!Keys
  <1>4. QED
    <2> HIDE DEF k
    <2>1. Boot!Merged(settled, list, given)[k] = IF given[k] # Boot!Unset THEN given[k] ELSE Boot!Effective(settled, "mount", "P")
      BY <1>1, <1>2, <1>3 DEF Boot!Merged, i
    <2>2. QED
      BY <2>1 DEF k

\* A secret is the caller's.
LEMMA BootSecretValue ==
  ASSUME NEW list \in Boot!Lists, NEW settled, NEW given, NEW n \in {1, 2}
  PROVE LET v == Boot!Merged(settled, list, given)[<<"S", n>>]
        IN v = given[<<"S", n>>] \/ (given[<<"S", n>>] = Boot!Unset /\ v \in {"", Boot!Unset})
  <1> DEFINE k == <<"S", n>>
             i == Boot!LastWith(list, k)
  <1>1. k \in Boot!Keys /\ k[1] = "S"
    BY DEF Boot!Keys
  <1> HIDE DEF k
  <1>2. \A m : Boot!Effective(settled, m, "S") = ""
    BY DEF Boot!Effective
  <1>3. Boot!Merged(settled, list, given)[k] = IF given[k] # Boot!Unset THEN given[k] ELSE IF i = 0 THEN Boot!Unset ELSE ""
    BY <1>1, <1>2 DEF Boot!Merged
  <1>4. QED
    BY <1>3 DEF k

LEMMA BootGivenSecrets == ASSUME NEW given \in Boot!Given, NEW n \in {1, 2} PROVE given[<<"S", n>>] # ""
  <1>1. PICK a \in {Boot!Unset, "d", "x"}, b \in {Boot!Unset, "x"}, c \in {Boot!Unset, "s"}, d \in {Boot!Unset, "t"} :
          given = [Boot!Idle.given EXCEPT ![<<"P", 1>>] = a, ![<<"P", 2>>] = b, ![<<"S", 1>>] = c, ![<<"S", 2>>] = d]
    BY DEF Boot!Given
  <1>2. Boot!Idle.given = [k \in Boot!Keys |-> Boot!Unset]
    BY DEF Boot!Idle
  <1>3. given[<<"S", 1>>] = c /\ given[<<"S", 2>>] = d
    BY <1>1, <1>2 DEF Boot!Keys
  <1>4. QED
    BY <1>3 DEF Boot!Unset

LEMMA BootCountedPlaces ==
  ASSUME NEW list \in Boot!Lists, Boot!Once(list), NEW e \in Boot!Counted(list)
  PROVE e[1] \in Boot!Modules /\ (e[2] = 1 \/ (e[2] = 2 /\ e[1] = "mount"))
  <1>1. e[1] \in Boot!Modules /\ e[2] \in 1 .. Len(list)
    BY DEF Boot!Counted
  <1>2. e[2] = 1 \/ e[2] > 1
    BY <1>1, BootListsLength
  <1>3. QED
    BY <1>1, <1>2, BootSecondIsMount

-----------------------------------------------------------------------------
(* A repeat is its own, and what worked is what is remembered. *)

LEMMA BootRunRepeats ==
  ASSUME NEW r \in BootUses, Boot!RunFits(r), NEW i \in 1 .. Len(s2[r].got)
  PROVE LET m == s2[r].got[i].of[1]  n == s2[r].got[i].of[2]  with == s2[r].got[i].with
            given == s2[r].given
        IN /\ n > 1 => with.P = IF given[<<"P", n>>] # Boot!Unset THEN given[<<"P", n>>]
                                ELSE Boot!Effective(s2[r].start, m, "P")
           /\ \A s \in Boot!Secrets(m) :
                 /\ with[s] \notin {"", Boot!Unset}
                 /\ with[s] = IF given[<<s, n>>] # Boot!Unset THEN given[<<s, n>>] ELSE given[<<s, 1>>]
  <1> DEFINE run == s2
  <1> DEFINE list == run[r].list  given == run[r].given  values == run[r].values  got == run[r].got
  <1>1. got \in Seq(Boot!Outcomes(r)) /\ (~Boot!Started(r) => got = <<>>)
    BY DEF Boot!RunFits, Boot!Started
  <1>2. got[i] \in Boot!Outcomes(r) /\ Boot!Started(r)
    BY <1>1
  <1>3. /\ list \in Boot!Lists /\ given \in Boot!Given /\ Boot!Once(list) /\ values = Boot!Merged(run[r].start, list, given)
        /\ Boot!Missing(values, list) = {}
    BY <1>2 DEF Boot!RunFits
  <1>4. PICK e \in Boot!Counted(list) : got[i] = [of |-> e, with |-> Boot!Environment(values, e[1], e[2])]
    BY <1>2 DEF Boot!Outcomes
  <1>5. e[1] \in Boot!Modules /\ (e[2] = 1 \/ (e[2] = 2 /\ e[1] = "mount"))
    BY <1>3, <1>4, BootCountedPlaces
  <1>6. got[i].of = e /\ got[i].with = Boot!Environment(values, e[1], e[2])
    BY <1>4
  <1> HIDE DEF list, given, values, got
  <1>7. e[2] > 1 => Boot!Environment(values, e[1], e[2]).P =
                      IF given[<<"P", 2>>] # Boot!Unset THEN given[<<"P", 2>>] ELSE Boot!Effective(run[r].start, e[1], "P")
    <2>1. SUFFICES ASSUME e[2] > 1
                   PROVE Boot!Environment(values, e[1], 2).P =
                           IF given[<<"P", 2>>] # Boot!Unset THEN given[<<"P", 2>>]
                           ELSE Boot!Effective(run[r].start, e[1], "P")
      BY <1>5
    <2>2. e[1] = "mount"
      BY <1>5, <2>1
    <2>3. values[<<"P", 2>>] = IF given[<<"P", 2>>] # Boot!Unset THEN given[<<"P", 2>>]
                               ELSE Boot!Effective(run[r].start, "mount", "P")
      BY <1>3, <1>4, <2>1, BootSecondValue
    <2>4. values[<<"P", 2>>] # Boot!Unset
      BY <1>5, <2>2, <2>3, BootEffectiveIsSet
    <2>5. QED
      BY <2>2, <2>3, <2>4, BootSecondGets
  <1>8. ASSUME NEW s \in Boot!Secrets(e[1])
        PROVE /\ Boot!Environment(values, e[1], e[2])[s] \notin {"", Boot!Unset}
              /\ Boot!Environment(values, e[1], e[2])[s] =
                   IF given[<<s, e[2]>>] # Boot!Unset THEN given[<<s, e[2]>>] ELSE given[<<s, 1>>]
    <2>1. s = "S" /\ "S" \in Boot!Params(e[1])
      BY DEF Boot!Secrets, Boot!Params
    <2> DEFINE own == Boot!OccurrenceValue(values, "S", e[2])
    <2>2. own \notin {"", Boot!Unset}
      <3>1. ~\E p \in Boot!Secrets(e[1]) : Boot!OccurrenceValue(values, p, e[2]) \in {"", Boot!Unset}
        BY <1>3, <1>4 DEF Boot!Missing
      <3>2. QED
        BY <2>1, <3>1
    <2>3. own = IF given[<<"S", e[2]>>] # Boot!Unset THEN given[<<"S", e[2]>>] ELSE given[<<"S", 1>>]
      <3>1. \/ values[<<"S", 1>>] = given[<<"S", 1>>]
            \/ given[<<"S", 1>>] = Boot!Unset /\ values[<<"S", 1>>] \in {"", Boot!Unset}
        BY <1>3, BootSecretValue
      <3>2. \/ values[<<"S", 2>>] = given[<<"S", 2>>]
            \/ given[<<"S", 2>>] = Boot!Unset /\ values[<<"S", 2>>] \in {"", Boot!Unset}
        BY <1>3, BootSecretValue
      <3>3. given[<<"S", 1>>] # "" /\ given[<<"S", 2>>] # ""
        BY <1>3, BootGivenSecrets
      <3>4. CASE e[2] = 1
        BY <2>2, <3>1, <3>4 DEF Boot!OccurrenceValue
      <3>5. CASE e[2] = 2
        BY <2>2, <3>1, <3>2, <3>3, <3>5 DEF Boot!OccurrenceValue
      <3>6. QED
        BY <1>5, <3>4, <3>5
    <2>4. Boot!Environment(values, e[1], e[2])["S"] = own
      BY <2>1, <2>2 DEF Boot!Environment
    <2>5. QED
      BY <2>1, <2>2, <2>3, <2>4
  <1>9. e[2] > 1 => Boot!Environment(values, e[1], e[2]).P =
          IF given[<<"P", e[2]>>] # Boot!Unset THEN given[<<"P", e[2]>>] ELSE Boot!Effective(run[r].start, e[1], "P")
    <2>1. e[2] > 1 => e[2] = 2
      BY <1>5
    <2>2. QED
      BY <1>7, <2>1
  <1>10. run[r].got[i].of = e /\ run[r].got[i].with = Boot!Environment(values, e[1], e[2])
    BY <1>6 DEF got
  <1> DEFINE env == Boot!Environment(values, e[1], e[2])
  <1> HIDE DEF env
  <1>11. QED
    BY <1>8, <1>9, <1>10 DEF given, env

LEMMA BootLatestWorked ==
  ASSUME NEW r \in BootUses, Boot!RunFits(r), Boot!LatestFits, s3 = r, NEW i \in 1 .. Len(s2[r].got),
         s2[r].got[i].of[2] = 1
  PROVE LET m == s2[r].got[i].of[1]
            again == Boot!Merged(s1, s2[r].list, [k \in Boot!Keys |-> Boot!Unset])
        IN Boot!Environment(again, m, 1).P = s2[r].got[i].with.P
  <1> DEFINE saved == s1  run == s2
  <1> DEFINE list == run[r].list  given == run[r].given  values == run[r].values  got == run[r].got
             l == Boot!LastWith(list, <<"P", 1>>)
             again == Boot!Merged(saved, list, [k \in Boot!Keys |-> Boot!Unset])
             v == values[<<"P", 1>>]
  <1>1. got \in Seq(Boot!Outcomes(r)) /\ (~Boot!Started(r) => got = <<>>)
    BY DEF Boot!RunFits, Boot!Started
  <1>2. got[i] \in Boot!Outcomes(r) /\ Boot!Started(r)
    BY <1>1
  <1>3. list \in Boot!Lists /\ values = Boot!Merged(run[r].start, list, given)
    BY <1>2 DEF Boot!RunFits
  <1>4. PICK e \in Boot!Counted(list) : got[i] = [of |-> e, with |-> Boot!Environment(values, e[1], e[2])]
    BY <1>2 DEF Boot!Outcomes
  <1>5. \A m \in Boot!Modules : Boot!Times(list, m) > 0 => saved[m] = Boot!Remembered(m, v, saved[m])
    BY DEF Boot!LatestFits
  <1> HIDE DEF list, given, values, got
  <1>6. l \in 1 .. Len(list) /\ Boot!Times(list, list[l]) > 0 /\ list[l] \in Boot!Modules /\ v # Boot!Unset
    BY <1>3, BootFirstValue
  <1>7. again[<<"P", 1>>] = Boot!Effective(saved, list[l], "P")
    <2>1. <<"P", 1>> \in Boot!Keys
      BY DEF Boot!Keys
    <2>2. [k \in Boot!Keys |-> Boot!Unset][<<"P", 1>>] = Boot!Unset
      BY <2>1
    <2>3. again[<<"P", 1>>] =
            IF [k \in Boot!Keys |-> Boot!Unset][<<"P", 1>>] # Boot!Unset THEN [k \in Boot!Keys |-> Boot!Unset][<<"P", 1>>]
            ELSE Boot!Effective(saved, list[l], "P")
      BY <1>3, BootFirstValue
    <2>4. QED
      BY <2>2, <2>3
  <1>8. saved[list[l]] = IF v = Boot!Default[list[l]] THEN Boot!Unset ELSE v
    BY <1>5, <1>6 DEF Boot!Remembered
  <1>9. Boot!Effective(saved, list[l], "P") = v
    BY <1>6, <1>8 DEF Boot!Effective
  <1>10. Boot!Environment(again, e[1], 1).P = v
    BY <1>6, <1>7, <1>9, BootFirstGets
  <1>11. Boot!Environment(values, e[1], 1).P = v
    BY <1>6, BootFirstGets
  <1>12. e[2] = 1
    BY <1>4 DEF got
  <1>13. QED
    BY <1>4, <1>10, <1>11, <1>12 DEF got, list

LEMMA BootGives == ASSUME Boot!BootInv PROVE Boot!RunsAreRepeated
  <1>1. Boot!RepeatsAreTheirOwn
    BY BootRunRepeats DEF Boot!BootInv, Boot!RepeatsAreTheirOwn
  <1>2. Boot!StartsFromWhatWorked
    BY BootLatestWorked DEF Boot!BootInv, Boot!StartsFromWhatWorked
  <1>3. QED
    BY <1>1, <1>2 DEF Boot!RunsAreRepeated

-----------------------------------------------------------------------------
(* The steps. *)

LEMMA BootInit == ASSUME Boot!UsesAssumption, Boot!Init PROVE Boot!BootInv
  <1> DEFINE saved == s1  run == s2  latest == s3
  <1>1. run = [r \in BootUses |-> Boot!Idle] /\ saved = [m \in Boot!Modules |-> Boot!Unset] /\ latest = "nobody"
    BY DEF Boot!Init
  <1>2. run = [r \in BootUses |-> run[r]] /\ saved = [m \in Boot!Modules |-> saved[m]]
    BY <1>1
  <1>3. ASSUME NEW r \in BootUses PROVE Boot!RunFits(r)
    <2>1. run[r] = Boot!Idle
      BY <1>1
    <2>2. Boot!Idle.got = <<>> /\ Boot!Idle.got \in Seq(Boot!Outcomes(r)) /\ Boot!Idle.at = "none" /\ Boot!Idle.script = "none"
      BY DEF Boot!Idle
    <2>3. Boot!Idle \in [at : {"none", "waits", "runs", "over", "refused"}, list : Boot!Lists \cup {<<>>},
                    given : {Boot!Idle.given}, start : {Boot!Idle.start}, values : {Boot!Idle.values},
                    got : Seq(Boot!Outcomes(r)), ok : BOOLEAN, script : {"none", "there"}, remember : BOOLEAN]
      BY <2>2 DEF Boot!Idle
    <2>4. QED
      BY <2>1, <2>2, <2>3 DEF Boot!RunFits, Boot!Started
  <1>4. Boot!LatestFits
    BY <1>1 DEF Boot!LatestFits, Boot!UsesAssumption
  <1>5. QED
    BY <1>2, <1>3, <1>4 DEF Boot!BootInv

LEMMA BootSameRun == ASSUME NEW q \in BootUses, s2'[q] = s2[q], Boot!RunFits(q) PROVE Boot!RunFits(q)'
  BY DEF Boot!RunFits, Boot!Started, Boot!Outcomes

\* A run that goes on is not the one whose values were saved last.
LEMMA BootOneGoesOn ==
  ASSUME Boot!BootInv, NEW r \in BootUses, NEW to, s2' = [s2 EXCEPT ![r] = to], s2[r].at # "over",
         UNCHANGED <<s1, s3>>, Boot!RunFits(r)'
  PROVE Boot!BootInv'
  <1> DEFINE run == s2  latest == s3
  <1>1. run' = [q \in BootUses |-> run'[q]] /\ \A q \in BootUses \ {r} : run'[q] = run[q]
    BY DEF Boot!BootInv
  <1>2. \A q \in BootUses : Boot!RunFits(q)'
    BY <1>1, BootSameRun DEF Boot!BootInv
  <1>3. Boot!LatestFits'
    <2>1. latest \in BootUses => latest # r
      BY DEF Boot!BootInv, Boot!LatestFits
    <2>2. QED
      BY <1>1, <2>1 DEF Boot!BootInv, Boot!LatestFits
  <1>4. QED
    BY <1>1, <1>2, <1>3 DEF Boot!BootInv

LEMMA BootBeginKeeps == ASSUME Boot!BootInv, NEW r \in BootUses, Boot!Begin(r) PROVE Boot!BootInv'
  <1> DEFINE saved == s1  run == s2  latest == s3
  <1>1. PICK list \in Boot!Lists, given \in Boot!Given, remember \in BOOLEAN :
          LET values == Boot!Merged(saved, list, given) IN
          run' = [run EXCEPT ![r] =
             [Boot!Idle EXCEPT !.list = list, !.given = given, !.start = saved, !.values = values,
                !.remember = remember,
                !.at = IF Boot!Once(list) /\ Boot!Missing(values, list) = {} THEN "waits" ELSE "refused"]]
    BY DEF Boot!Begin
  <1> DEFINE values == Boot!Merged(saved, list, given)
             to == [Boot!Idle EXCEPT !.list = list, !.given = given, !.start = saved, !.values = values,
                      !.remember = remember,
                      !.at = IF Boot!Once(list) /\ Boot!Missing(values, list) = {} THEN "waits" ELSE "refused"]
  <1>2. run[r].at = "none" /\ UNCHANGED <<saved, latest>> /\ run' = [run EXCEPT ![r] = to]
    BY <1>1 DEF Boot!Begin
  <1>3. run'[r] = to
    BY <1>2 DEF Boot!BootInv
  <1>4. /\ to.list = list /\ to.given = given /\ to.start = saved /\ to.values = values /\ to.got = <<>>
        /\ to.script = "none" /\ to.at = IF Boot!Once(list) /\ Boot!Missing(values, list) = {} THEN "waits" ELSE "refused"
        /\ to \in [at : {"none", "waits", "runs", "over", "refused"}, list : Boot!Lists \cup {<<>>},
                   given : {to.given}, start : {to.start}, values : {to.values},
                   got : {<<>>}, ok : BOOLEAN, script : {"none", "there"}, remember : BOOLEAN]
    <2> HIDE DEF values
    <2>1. QED
      BY DEF Boot!Idle
  <1> HIDE DEF to
  <1>5. Boot!RunFits(r)'
    <2>1. <<>> \in Seq(Boot!Outcomes(r)')
      OBVIOUS
    <2>2. run'[r] \in [at : {"none", "waits", "runs", "over", "refused"}, list : Boot!Lists \cup {<<>>},
                       given : {run'[r].given}, start : {run'[r].start}, values : {run'[r].values},
                       got : Seq(Boot!Outcomes(r)'), ok : BOOLEAN, script : {"none", "there"}, remember : BOOLEAN]
      BY <1>3, <1>4, <2>1
    <2> HIDE DEF values
    <2>3. /\ Boot!Started(r)' => Boot!Once(list) /\ Boot!Missing(values, list) = {}
          /\ run'[r].got = <<>> /\ run'[r].script = "none" /\ run'[r].values = values
      BY <1>3, <1>4 DEF Boot!Started
    <2>4. QED
      BY <1>3, <1>4, <2>2, <2>3 DEF Boot!RunFits, values
  <1>6. QED
    BY <1>2, <1>5, BootOneGoesOn

\* What a run was begun with stays, and what its modules got is added to.
LEMMA BootGoesFurther ==
  ASSUME Boot!BootInv, NEW r \in BootUses, NEW to, Boot!Started(r), to.at \in {"waits", "runs", "over", "refused"},
         to \in [at : {to.at}, list : {s2[r].list}, given : {s2[r].given}, start : {s2[r].start},
                 values : {s2[r].values}, got : Seq(Boot!Outcomes(r)), ok : BOOLEAN,
                 script : {"none", "there"}, remember : BOOLEAN],
         to.at \notin {"runs", "over"} => to.got = <<>>,
         to.script = "there" => to.at = "runs" /\ Len(to.got) < Len(Boot!Selected(to.list)),
         s2'[r] = to
  PROVE Boot!RunFits(r)'
  <1> DEFINE run == s2
  <1>1. /\ to.list = run[r].list /\ to.given = run[r].given /\ to.start = run[r].start
        /\ to.values = run[r].values
    OBVIOUS
  <1>2. Boot!Outcomes(r)' = Boot!Outcomes(r)
    BY <1>1 DEF Boot!Outcomes
  <1>3. /\ run[r].list \in Boot!Lists /\ run[r].given \in Boot!Given /\ Boot!Once(run[r].list)
        /\ run[r].values = Boot!Merged(run[r].start, run[r].list, run[r].given)
        /\ Boot!Missing(run[r].values, run[r].list) = {}
    BY DEF Boot!BootInv, Boot!RunFits
  <1>4. run'[r] \in [at : {"none", "waits", "runs", "over", "refused"}, list : Boot!Lists \cup {<<>>},
                     given : {run'[r].given}, start : {run'[r].start}, values : {run'[r].values},
                     got : Seq(Boot!Outcomes(r)), ok : BOOLEAN, script : {"none", "there"}, remember : BOOLEAN]
    BY <1>1, <1>3
  <1>5. QED
    BY <1>1, <1>2, <1>3, <1>4 DEF Boot!RunFits, Boot!Started

LEMMA BootStepKeeps ==
  ASSUME Boot!BootInv, NEW r \in BootUses, Boot!Reachable(r) \/ Boot!Unreachable(r) \/ Boot!Push(r)
  PROVE Boot!BootInv'
  <1> DEFINE saved == s1  run == s2  latest == s3
  <1>1. Boot!RunFits(r) /\ UNCHANGED <<saved, latest>>
    BY DEF Boot!BootInv, Boot!Reachable, Boot!Unreachable, Boot!Push
  <1>2. CASE Boot!Reachable(r)
    <2> DEFINE to == [run[r] EXCEPT !.at = "runs"]
    <2>1. run' = [run EXCEPT ![r] = to] /\ run[r].at = "waits"
      BY <1>2 DEF Boot!Reachable, Boot!BootInv
    <2>2. run'[r] = to
      BY <2>1 DEF Boot!BootInv
    <2>3. /\ to \in [at : {to.at}, list : {run[r].list}, given : {run[r].given}, start : {run[r].start},
                     values : {run[r].values}, got : Seq(Boot!Outcomes(r)), ok : BOOLEAN,
                     script : {"none", "there"}, remember : BOOLEAN]
          /\ to.at = "runs" /\ to.script = "none"
      BY <1>1, <2>1 DEF Boot!RunFits
    <2> HIDE DEF to
    <2>4. Boot!RunFits(r)'
      BY <2>1, <2>2, <2>3, BootGoesFurther DEF Boot!Started
    <2>5. QED
      BY <1>1, <2>1, <2>4, BootOneGoesOn
  <1>3. CASE Boot!Unreachable(r)
    <2> DEFINE to == [run[r] EXCEPT !.at = "refused"]
    <2>1. run' = [run EXCEPT ![r] = to] /\ run[r].at = "waits"
      BY <1>3 DEF Boot!Unreachable, Boot!BootInv
    <2>2. run'[r] = to
      BY <2>1 DEF Boot!BootInv
    <2>3. /\ to \in [at : {to.at}, list : {run[r].list}, given : {run[r].given}, start : {run[r].start},
                     values : {run[r].values}, got : Seq(Boot!Outcomes(r)), ok : BOOLEAN,
                     script : {"none", "there"}, remember : BOOLEAN]
          /\ to.at = "refused" /\ to.script = "none" /\ to.got = run[r].got
      BY <1>1, <2>1 DEF Boot!RunFits
    <2> HIDE DEF to
    <2>4. run[r].got = <<>>
      BY <1>1, <2>1 DEF Boot!RunFits
    <2>5. Boot!RunFits(r)'
      BY <2>1, <2>2, <2>3, <2>4, BootGoesFurther DEF Boot!Started
    <2>6. QED
      BY <1>1, <2>1, <2>5, BootOneGoesOn
  <1>4. CASE Boot!Push(r)
    <2> DEFINE to == [run[r] EXCEPT !.script = "there"]
    <2>1. run' = [run EXCEPT ![r] = to] /\ run[r].at = "runs" /\ Len(run[r].got) < Len(Boot!Selected(run[r].list))
      BY <1>4 DEF Boot!Push, Boot!BootInv
    <2>2. run'[r] = to
      BY <2>1 DEF Boot!BootInv
    <2>3. /\ to \in [at : {to.at}, list : {run[r].list}, given : {run[r].given}, start : {run[r].start},
                     values : {run[r].values}, got : Seq(Boot!Outcomes(r)), ok : BOOLEAN,
                     script : {"none", "there"}, remember : BOOLEAN]
          /\ to.at = "runs" /\ to.got = run[r].got /\ to.list = run[r].list
      BY <1>1, <2>1 DEF Boot!RunFits
    <2> HIDE DEF to
    <2>4. Boot!RunFits(r)'
      BY <2>1, <2>2, <2>3, BootGoesFurther DEF Boot!Started
    <2>5. QED
      BY <1>1, <2>1, <2>4, BootOneGoesOn
  <1>5. QED
    BY <1>2, <1>3, <1>4

LEMMA BootExecKeeps == ASSUME Boot!BootInv, NEW r \in BootUses, Boot!Exec(r) PROVE Boot!BootInv'
  <1> DEFINE saved == s1  run == s2  latest == s3
  <1> DEFINE next == Boot!Selected(run[r].list)[Len(run[r].got) + 1]
             entry == [of |-> next, with |-> Boot!Environment(run[r].values, next[1], next[2])]
  <1>1. PICK ok \in BOOLEAN :
          run' = [run EXCEPT ![r].script = "none", ![r].got = Append(@, entry),
                    ![r].ok = ok, ![r].at = IF ok THEN @ ELSE "over"]
    BY DEF Boot!Exec
  <1>2. /\ Boot!RunFits(r) /\ UNCHANGED <<saved, latest>> /\ run[r].script = "there" /\ run[r].at = "runs"
        /\ Len(run[r].got) < Len(Boot!Selected(run[r].list)) /\ run[r].list \in Boot!Lists
    BY DEF Boot!BootInv, Boot!Exec, Boot!RunFits, Boot!Started
  <1> DEFINE to == [run[r] EXCEPT !.script = "none", !.got = Append(run[r].got, entry), !.ok = ok,
                                  !.at = IF ok THEN "runs" ELSE "over"]
  <1>3. run' = [run EXCEPT ![r] = to]
    <2>1. run' = [run EXCEPT ![r] = [run[r] EXCEPT !.script = "none", !.got = Append(@, entry), !.ok = ok,
                                        !.at = IF ok THEN @ ELSE "over"]]
      <3> HIDE DEF entry
      <3>1. QED
        BY <1>1 DEF Boot!BootInv
    <2>2. [run[r] EXCEPT !.script = "none", !.got = Append(@, entry), !.ok = ok,
                         !.at = IF ok THEN @ ELSE "over"] = to
      <3> HIDE DEF entry
      <3>1. QED
        BY <1>2 DEF Boot!RunFits
    <2>3. QED
      BY <2>1, <2>2
  <1>4. run'[r] = to
    BY <1>3 DEF Boot!BootInv
  <1>5. entry \in Boot!Outcomes(r)
    <2>1. Len(run[r].list) \in Nat
      BY <1>2, BootListsLength
    <2>2. Len(run[r].got) \in Nat /\ Len(Boot!Selected(run[r].list)) \in Nat
      <3>1. run[r].got \in Seq(Boot!Outcomes(r))
        BY <1>2 DEF Boot!RunFits
      <3>2. Boot!Selected(run[r].list) \in Seq(Boot!Counted(run[r].list))
        BY <2>1, BootSelectedIsSeq
      <3>3. QED
        BY <3>1, <3>2
    <2>3. Len(run[r].got) + 1 \in 1 .. Len(Boot!Selected(run[r].list))
      BY <1>2, <2>2
    <2>4. next \in Boot!Counted(run[r].list)
      BY <2>1, <2>3, BootSelectedCounted
    <2>5. QED
      BY <2>4 DEF Boot!Outcomes
  <1> HIDE DEF entry
  <1>6. Append(run[r].got, entry) \in Seq(Boot!Outcomes(r))
    BY <1>2, <1>5 DEF Boot!RunFits
  <1>7. /\ to \in [at : {to.at}, list : {run[r].list}, given : {run[r].given}, start : {run[r].start},
                   values : {run[r].values}, got : Seq(Boot!Outcomes(r)), ok : BOOLEAN,
                   script : {"none", "there"}, remember : BOOLEAN]
        /\ to.at \in {"runs", "over"} /\ to.script = "none"
    BY <1>2, <1>6 DEF Boot!RunFits
  <1> HIDE DEF to
  <1>8. Boot!RunFits(r)'
    BY <1>2, <1>4, <1>7, BootGoesFurther DEF Boot!Started
  <1>9. QED
    BY <1>2, <1>3, <1>8, BootOneGoesOn

LEMMA BootEndsKeeps ==
  ASSUME Boot!BootInv, Boot!UsesAssumption, NEW r \in BootUses, Boot!Ends(r) PROVE Boot!BootInv'
  <1> DEFINE saved == s1  run == s2  latest == s3
  <1> DEFINE to == [run[r] EXCEPT !.at = "over"]
  <1>1. /\ Boot!RunFits(r) /\ run[r].at = "runs" /\ run[r].script = "none" /\ run' = [run EXCEPT ![r] = to]
    BY DEF Boot!BootInv, Boot!Ends
  <1>2. run'[r] = to /\ run' = [q \in BootUses |-> run'[q]] /\ \A q \in BootUses \ {r} : run'[q] = run[q]
    BY <1>1 DEF Boot!BootInv
  <1>3. /\ to \in [at : {to.at}, list : {run[r].list}, given : {run[r].given}, start : {run[r].start},
                   values : {run[r].values}, got : Seq(Boot!Outcomes(r)), ok : BOOLEAN,
                   script : {"none", "there"}, remember : BOOLEAN]
        /\ to.at = "over" /\ to.script = "none" /\ to.list = run[r].list /\ to.values = run[r].values
    BY <1>1 DEF Boot!RunFits
  <1> HIDE DEF to
  <1>4. Boot!RunFits(r)'
    BY <1>1, <1>2, <1>3, BootGoesFurther DEF Boot!Started
  <1>5. \A q \in BootUses : Boot!RunFits(q)'
    BY <1>2, <1>4, BootSameRun DEF Boot!BootInv
  <1>6. CASE run[r].remember
    <2>1. /\ latest' = r
          /\ saved' = [m \in Boot!Modules |-> IF Boot!Times(run[r].list, m) > 0
                          THEN Boot!Remembered(m, run[r].values[<<"P", 1>>], saved[m]) ELSE saved[m]]
      BY <1>6 DEF Boot!Ends
    <2>2. saved' = [m \in Boot!Modules |-> saved'[m]]
      BY <2>1
    <2>3. ASSUME NEW m \in Boot!Modules, Boot!Times(run[r].list, m) > 0
          PROVE saved'[m] = Boot!Remembered(m, run[r].values[<<"P", 1>>], saved'[m])
      BY <2>1, <2>3 DEF Boot!Remembered
    <2>4. Boot!LatestFits'
      BY <1>2, <1>3, <2>1, <2>3 DEF Boot!LatestFits
    <2>5. QED
      BY <1>2, <1>5, <2>2, <2>4 DEF Boot!BootInv
  <1>7. CASE ~run[r].remember
    <2>1. UNCHANGED <<saved, latest>>
      BY <1>7 DEF Boot!Ends
    <2>2. latest \in BootUses => latest # r
      BY <1>1 DEF Boot!BootInv, Boot!LatestFits
    <2>3. Boot!LatestFits'
      BY <1>2, <2>1, <2>2 DEF Boot!BootInv, Boot!LatestFits
    <2>4. QED
      BY <1>2, <1>5, <2>1, <2>3 DEF Boot!BootInv
  <1>8. QED
    BY <1>6, <1>7

LEMMA BootStep == ASSUME Boot!UsesAssumption, Boot!BootInv, [Boot!Next]_(Boot!bootstrapVars) PROVE Boot!BootInv'
  <1> DEFINE saved == s1  run == s2  latest == s3
  <1>1. CASE UNCHANGED Boot!bootstrapVars
    <2>1. run' = run /\ saved' = saved /\ latest' = latest
      BY <1>1 DEF Boot!bootstrapVars
    <2>2. \A q \in BootUses : Boot!RunFits(q)'
      BY <2>1, BootSameRun DEF Boot!BootInv
    <2>3. QED
      BY <2>1, <2>2 DEF Boot!BootInv, Boot!LatestFits
  <1>2. ASSUME NEW m \in Boot!Modules, Boot!ModuleSet(m) PROVE Boot!BootInv'
    <2>1. PICK value : saved' = [saved EXCEPT ![m] = value]
      BY <1>2 DEF Boot!ModuleSet
    <2>2. run' = run /\ latest' = "somebody" /\ "somebody" \notin BootUses
      BY <1>2 DEF Boot!ModuleSet, Boot!UsesAssumption
    <2>3. saved' = [k \in Boot!Modules |-> saved'[k]]
      BY <2>1 DEF Boot!BootInv
    <2>4. \A q \in BootUses : Boot!RunFits(q)'
      BY <2>2, BootSameRun DEF Boot!BootInv
    <2>5. QED
      BY <2>2, <2>3, <2>4 DEF Boot!BootInv, Boot!LatestFits
  <1>3. ASSUME NEW r \in BootUses,
               Boot!Begin(r) \/ Boot!Reachable(r) \/ Boot!Unreachable(r) \/ Boot!Push(r) \/ Boot!Exec(r) \/ Boot!Ends(r)
        PROVE Boot!BootInv'
    BY <1>3, BootBeginKeeps, BootStepKeeps, BootExecKeeps, BootEndsKeeps
  <1>4. QED
    BY <1>1, <1>2, <1>3 DEF Boot!Next

-----------------------------------------------------------------------------
(* What the steps of a stack hand on.                                        *)
-----------------------------------------------------------------------------
(* What a preview works out, stage by stage, rests on the steps before only. *)

LEMMA FlowStageDomain == ASSUME NEW known, NEW k
  PROVE DOMAIN Flow!AndStage(known, k) = {t \in FlowSteps : s1[t].stage <= k}
  BY DEF Flow!AndStage

LEMMA FlowStaticStages ==
  ASSUME Flow!TypeOK, NEW s \in FlowSteps
  PROVE /\ DOMAIN Flow!Static = FlowSteps
        /\ \E known : /\ Flow!Static[s] = Flow!StaticOf(known, s) /\ DOMAIN known = Flow!Earlier(s)
                      /\ \A t \in Flow!Earlier(s) : known[t] = Flow!Static[t]
  <1> DEFINE flow == s1
  <1>1. \A t \in FlowSteps : flow[t].stage \in 1 .. 3 /\ flow[t].stage <= 3 /\ flow[t].stage >= 1
    BY DEF Flow!TypeOK, Flow!Flows
  <1> DEFINE none == <<>>
             one == Flow!AndStage(none, 1)
             two == Flow!AndStage(one, 2)
  <1>2. DOMAIN none = {}
    OBVIOUS
  <1>3. \A t \in FlowSteps : flow[t].stage <= 1 => one[t] = Flow!StaticOf(none, t)
    BY <1>1 DEF Flow!AndStage
  <1>4. \A t \in FlowSteps : flow[t].stage <= 2 =>
          two[t] = IF flow[t].stage < 2 THEN one[t] ELSE Flow!StaticOf(one, t)
    BY DEF Flow!AndStage
  <1>0. Flow!Static = Flow!AndStage(two, 3)
    BY DEF Flow!Static
  <1>5. \A t \in FlowSteps : Flow!Static[t] = IF flow[t].stage < 3 THEN two[t] ELSE Flow!StaticOf(two, t)
    <2>1. DOMAIN Flow!AndStage(two, 3) = FlowSteps
      BY <1>1, FlowStageDomain
    <2> HIDE DEF two
    <2>2. QED
      BY <1>0, <2>1 DEF Flow!AndStage
  <1>6. DOMAIN one = {t \in FlowSteps : flow[t].stage <= 1} /\ DOMAIN two = {t \in FlowSteps : flow[t].stage <= 2}
    BY FlowStageDomain
  <1>7. DOMAIN Flow!Static = FlowSteps
    <2> HIDE DEF two
    <2>1. {t \in FlowSteps : flow[t].stage <= 3} = FlowSteps
      BY <1>1
    <2>2. QED
      BY <1>0, <2>1, FlowStageDomain
  <1> HIDE DEF none, one, two
  <1>8. CASE flow[s].stage = 1
    <2>1. Flow!Static[s] = Flow!StaticOf(none, s) /\ Flow!Earlier(s) = {}
      BY <1>1, <1>3, <1>4, <1>5, <1>8 DEF Flow!Earlier
    <2>2. QED
      BY <1>2, <1>7, <2>1
  <1>9. CASE flow[s].stage = 2
    <2>1. Flow!Static[s] = Flow!StaticOf(one, s) /\ Flow!Earlier(s) = DOMAIN one
      BY <1>1, <1>4, <1>5, <1>6, <1>9 DEF Flow!Earlier
    <2>2. ASSUME NEW t \in Flow!Earlier(s) PROVE one[t] = Flow!Static[t]
      <3>1. t \in FlowSteps /\ flow[t].stage < 2 /\ flow[t].stage < 3 /\ flow[t].stage <= 2
        BY <1>1, <1>9 DEF Flow!Earlier
      <3>2. QED
        BY <1>4, <1>5, <3>1
    <2>3. QED
      BY <1>7, <2>1, <2>2
  <1>10. CASE flow[s].stage = 3
    <2>1. Flow!Static[s] = Flow!StaticOf(two, s) /\ Flow!Earlier(s) = DOMAIN two
      BY <1>1, <1>5, <1>6, <1>10 DEF Flow!Earlier
    <2>2. \A t \in Flow!Earlier(s) : two[t] = Flow!Static[t]
      BY <1>1, <1>5, <1>10 DEF Flow!Earlier
    <2>3. QED
      BY <1>7, <2>1, <2>2
  <1>11. flow[s].stage \in {1, 2, 3}
    BY <1>1
  <1>12. QED
    BY <1>8, <1>9, <1>10, <1>11

LEMMA FlowPlainForms ==
  ASSUME NEW e \in Flow!Plain
  PROVE \/ e = Flow!NotSet \/ e = <<"vars">> \/ e = <<"secrets">> \/ e = <<"params", "P">>
        \/ \E t \in FlowSteps : e = <<"ips", t>>
        \/ \E t \in FlowSteps, n \in {"P", "S"} : e = <<"param", t, n>>
  BY DEF Flow!Plain

LEMMA FlowStaticValue ==
  ASSUME NEW known, NEW s \in FlowSteps, s1[s].P \in Flow!Plain,
         \A t \in DOMAIN known : known[t][1] \in Flow!Open
  PROVE Flow!StaticOf(known, s)[1] \in Flow!Open
  <1> DEFINE flow == s1
  <1>1. CASE flow[s].P = Flow!NotSet
    BY <1>1 DEF Flow!StaticOf, Flow!HandedOn, Flow!Saved, Flow!Open, Flow!Unknown
  <1>2. CASE flow[s].P # Flow!NotSet /\ ~Flow!Settled(flow[s].P, known)
    BY <1>2 DEF Flow!StaticOf, Flow!Open, Flow!Unknown
  <1>3. CASE flow[s].P # Flow!NotSet /\ Flow!Settled(flow[s].P, known)
    <2>1. Flow!StaticOf(known, s) = Flow!Rendered(flow[s].P, known, {})
      BY <1>3 DEF Flow!StaticOf, Flow!HandedOn
    <2>2. CASE flow[s].P[1] = "vars"
      BY <2>1, <2>2 DEF Flow!Rendered, Flow!Open
    <2>3. CASE flow[s].P[1] = "param" /\ flow[s].P[2] \in DOMAIN known
      BY <2>1, <2>3 DEF Flow!Rendered
    <2>4. QED
      BY <1>3, <2>2, <2>3 DEF Flow!Settled
  <1>4. QED
    BY <1>1, <1>2, <1>3

LEMMA FlowStageOpen ==
  ASSUME NEW known, NEW k, \A t \in FlowSteps : s1[t].P \in Flow!Plain,
         \A t \in FlowSteps : s1[t].stage < k => t \in DOMAIN known,
         \A t \in DOMAIN known : known[t][1] \in Flow!Open
  PROVE \A t \in DOMAIN Flow!AndStage(known, k) : Flow!AndStage(known, k)[t][1] \in Flow!Open
  <1> DEFINE flow == s1
  <1> SUFFICES ASSUME NEW t \in FlowSteps, flow[t].stage <= k PROVE Flow!AndStage(known, k)[t][1] \in Flow!Open
    BY FlowStageDomain
  <1>1. Flow!AndStage(known, k)[t] = IF flow[t].stage < k THEN known[t] ELSE Flow!StaticOf(known, t)
    BY DEF Flow!AndStage
  <1>2. Flow!StaticOf(known, t)[1] \in Flow!Open
    BY FlowStaticValue
  <1>3. QED
    BY <1>1, <1>2

LEMMA FlowStaticOpen == ASSUME Flow!TypeOK PROVE \A s \in FlowSteps : Flow!Static[s][1] \in Flow!Open
  <1> DEFINE flow == s1
  <1>1. \A t \in FlowSteps : flow[t].stage \in 1 .. 3 /\ flow[t].P \in Flow!Plain
    BY DEF Flow!TypeOK, Flow!Flows
  <1>7. \A t \in FlowSteps : (flow[t].stage < 2 => flow[t].stage <= 1) /\ (flow[t].stage < 3 => flow[t].stage <= 2)
    BY DEF Flow!TypeOK, Flow!Flows
  <1> DEFINE none == <<>>
             one == Flow!AndStage(none, 1)
             two == Flow!AndStage(one, 2)
  <1>2. DOMAIN none = {} /\ \A t \in FlowSteps : flow[t].stage >= 1
    BY <1>1
  <1>3. \A t \in DOMAIN one : one[t][1] \in Flow!Open
    <2> HIDE DEF none
    <2>1. \A t \in DOMAIN none : none[t][1] \in Flow!Open
      BY <1>2
    <2>2. \A t \in FlowSteps : flow[t].stage < 1 => t \in DOMAIN none
      BY <1>1, <1>2
    <2>3. QED
      BY <1>1, <2>1, <2>2, FlowStageOpen
  <1>4. \A t \in DOMAIN two : two[t][1] \in Flow!Open
    <2>1. \A t \in FlowSteps : flow[t].stage < 2 => t \in DOMAIN one
      BY <1>7, FlowStageDomain
    <2> HIDE DEF one
    <2>2. QED
      BY <1>1, <1>3, <2>1, FlowStageOpen
  <1>5. \A t \in DOMAIN Flow!Static : Flow!Static[t][1] \in Flow!Open
    <2>1. \A t \in FlowSteps : flow[t].stage < 3 => t \in DOMAIN two
      BY <1>7, FlowStageDomain
    <2>2. Flow!Static = Flow!AndStage(two, 3)
      BY DEF Flow!Static
    <2> HIDE DEF two
    <2>3. QED
      BY <1>1, <1>4, <2>1, <2>2, FlowStageOpen
  <1>6. QED
    BY <1>5, FlowStaticStages

-----------------------------------------------------------------------------
(* A launch that was accepted and is ready gives every module something.            *)

LEMMA FlowInit == ASSUME Flow!FlowAssumption, Flow!Init PROVE Flow!FlowInv
  <1> DEFINE flow == s1  shown == s8  handed == s9  given == s10
  <1>1. PICK layout \in FlowLayouts, sets \in [FlowSteps -> Flow!Choices] :
          flow = [s \in FlowSteps |-> [stage |-> layout[s], P |-> sets[s].P, S |-> sets[s].S]]
    BY DEF Flow!Init
  <1>2. layout \in [FlowSteps -> 1 .. 3]
    BY DEF Flow!FlowAssumption
  <1>3. \A e \in Flow!Choices : e.P \in Flow!Plain /\ e.S \in {Flow!NotSet, <<"params", "S">>, <<"literal">>}
    BY DEF Flow!Choices, Flow!Plain
  <1>4. ASSUME NEW s \in FlowSteps
        PROVE [stage |-> layout[s], P |-> sets[s].P, S |-> sets[s].S] \in Flow!Flows
    <2>1. sets[s] \in Flow!Choices /\ layout[s] \in 1 .. 3
      BY <1>2
    <2>2. sets[s].P \in Flow!Plain /\ sets[s].S \in {Flow!NotSet, <<"params", "S">>, <<"literal">>}
      BY <1>3, <2>1
    <2>3. QED
      BY <2>1, <2>2 DEF Flow!Flows
  <1>5. flow \in [FlowSteps -> Flow!Flows]
    BY <1>1, <1>4
  <1>6. DOMAIN given = {} /\ DOMAIN handed = {}
    BY DEF Flow!Init
  <1>7. Flow!TypeOK
    BY <1>5, <1>6 DEF Flow!Init, Flow!TypeOK
  <1>8. \A s \in FlowSteps : flow[s].stage \in 1 .. 3
    BY <1>5 DEF Flow!Flows
  <1>9. Flow!StepsFit
    BY <1>6, <1>8 DEF Flow!Init, Flow!StepsFit
  <1>10. Flow!Passed /\ Flow!HandedFits
    BY <1>6 DEF Flow!Init, Flow!Passed, Flow!HandedFits
  <1>11. Flow!ShownFits /\ \A s \in FlowSteps : shown[s] = Flow!Unknown
    BY DEF Flow!Init, Flow!ShownFits
  <1>12. Flow!LaunchAsPromised
    BY <1>6, <1>11 DEF Flow!LaunchAsPromised, Flow!NothingIsBlank, Flow!PreviewIsTrue, Flow!Unknown
  <1>13. QED
    BY <1>7, <1>9, <1>10, <1>11, <1>12 DEF Flow!FlowInv

LEMMA FlowSavedSet ==
  ASSUME NEW s \in FlowSteps, s1[s].P = Flow!NotSet, NEW known
  PROVE Flow!StaticOf(known, s) = Flow!Saved(s) /\ Flow!HandedOn(s, Flow!ValueOfP(s)) = Flow!Saved(s)
  BY DEF Flow!StaticOf, Flow!HandedOn

\* What a step that starts is given for P, and what was said of it.
LEMMA FlowValueFits ==
  ASSUME Flow!FlowInv, NEW s \in FlowSteps, s4 = "runs", s1[s].stage = s5
  PROVE /\ Flow!ValueOfP(s) # Flow!Blank
        /\ \/ s8[s] \in {Flow!Unknown, Flow!ValueOfP(s)}
           \/ s8[s] = Flow!Masked /\ Flow!ValueOfP(s)[1] \in {"entered", "secret"}
        /\ Flow!HandedOn(s, Flow!ValueOfP(s)) # Flow!Blank
        /\ Flow!Static[s] \in {Flow!Unknown, Flow!HandedOn(s, Flow!ValueOfP(s))}
  <1> DEFINE flow == s1  entered == s3  stage == s5  step == s6  shown == s8  handed == s9
  <1>1. flow[s].P \in Flow!Plain /\ Flow!Checked(s) /\ Flow!Inputs \subseteq entered /\ shown[s] = Flow!Explained(s)
    BY DEF Flow!FlowInv, Flow!TypeOK, Flow!Flows, Flow!Passed, Flow!Accepted, Flow!Ready, Flow!ShownFits
  <1>2. PICK known : /\ Flow!Static[s] = Flow!StaticOf(known, s) /\ DOMAIN known = Flow!Earlier(s)
                     /\ \A t \in Flow!Earlier(s) : known[t] = Flow!Static[t]
    BY FlowStaticStages DEF Flow!FlowInv
  <1>3. \A t \in Flow!Earlier(s) : t \in Flow!Done /\ t \in DOMAIN handed
    <2> TAKE t \in Flow!Earlier(s)
    <2>1. t \in FlowSteps /\ flow[t].stage < stage
      BY DEF Flow!Earlier
    <2>2. step[t] = "done"
      BY <2>1 DEF Flow!FlowInv, Flow!StepsFit
    <2>3. QED
      BY <2>1, <2>2 DEF Flow!FlowInv, Flow!StepsFit, Flow!TypeOK, Flow!Done
  <1>4. \A t \in Flow!Earlier(s) : handed[t] # Flow!Blank /\ Flow!Static[t] \in {Flow!Unknown, handed[t]}
    BY <1>3 DEF Flow!FlowInv, Flow!HandedFits
  <1>5. CASE flow[s].P = Flow!NotSet
    <2>1. Flow!Static[s] = Flow!Saved(s) /\ Flow!HandedOn(s, Flow!ValueOfP(s)) = Flow!Saved(s)
      BY <1>2, <1>5, FlowSavedSet
    <2>2. Flow!ValueOfP(s) \in {<<"entered", "P">>, Flow!Saved(s)}
      BY <1>5 DEF Flow!ValueOfP
    <2>3. Flow!Explained(s) = Flow!Unknown
      BY <1>5 DEF Flow!Explained, Flow!NotSet
    <2>4. QED
      BY <1>1, <2>1, <2>2, <2>3 DEF Flow!Saved, Flow!Blank
  <1>6. CASE flow[s].P = <<"vars">>
    <2>1. Flow!ValueOfP(s) = <<"variable">> /\ Flow!HandedOn(s, Flow!ValueOfP(s)) = <<"variable">>
      BY <1>6 DEF Flow!ValueOfP, Flow!HandedOn, Flow!Rendered, Flow!NotSet
    <2>2. Flow!Explained(s) = <<"variable">>
      BY <1>6 DEF Flow!Explained
    <2>3. Flow!Static[s] = <<"variable">>
      BY <1>2, <1>6 DEF Flow!StaticOf, Flow!Settled, Flow!HandedOn, Flow!Rendered, Flow!NotSet
    <2>4. QED
      BY <1>1, <2>1, <2>2, <2>3 DEF Flow!Blank
  <1>7. CASE flow[s].P = <<"secrets">>
    <2>1. Flow!ValueOfP(s) = <<"secret">> /\ Flow!HandedOn(s, Flow!ValueOfP(s)) = <<"secret">>
      BY <1>7 DEF Flow!ValueOfP, Flow!HandedOn, Flow!Rendered, Flow!NotSet
    <2>2. Flow!Explained(s) = Flow!Masked
      BY <1>7 DEF Flow!Explained
    <2>3. Flow!Static[s] = Flow!Unknown
      BY <1>2, <1>7 DEF Flow!StaticOf, Flow!Settled, Flow!NotSet
    <2>4. QED
      BY <1>1, <2>1, <2>2, <2>3 DEF Flow!Blank
  <1>8. CASE flow[s].P = <<"params", "P">>
    <2>1. "P" \in entered
      BY <1>1, <1>8 DEF Flow!Inputs
    <2>2. Flow!ValueOfP(s) = <<"entered", "P">> /\ Flow!HandedOn(s, Flow!ValueOfP(s)) = <<"entered", "P">>
      BY <1>8, <2>1 DEF Flow!ValueOfP, Flow!HandedOn, Flow!Rendered, Flow!NotSet
    <2>3. Flow!Explained(s) = Flow!Masked
      BY <1>8, <2>1 DEF Flow!Explained
    <2>4. Flow!Static[s] = Flow!Unknown
      BY <1>2, <1>8 DEF Flow!StaticOf, Flow!Settled, Flow!NotSet
    <2>5. QED
      BY <1>1, <2>2, <2>3, <2>4 DEF Flow!Blank
  <1>9. ASSUME NEW t \in FlowSteps, flow[s].P = <<"ips", t>>
        PROVE /\ Flow!ValueOfP(s) = <<"addresses", t>> /\ Flow!HandedOn(s, Flow!ValueOfP(s)) = <<"addresses", t>>
              /\ Flow!Explained(s) = Flow!Unknown /\ Flow!Static[s] = Flow!Unknown
    <2>1. t \in Flow!Done
      BY <1>1, <1>3, <1>9 DEF Flow!Checked
    <2>2. Flow!ValueOfP(s) = <<"addresses", t>> /\ Flow!HandedOn(s, Flow!ValueOfP(s)) = <<"addresses", t>>
      BY <1>9, <2>1 DEF Flow!ValueOfP, Flow!HandedOn, Flow!Rendered, Flow!NotSet
    <2>3. Flow!Explained(s) = Flow!Unknown
      BY <1>9 DEF Flow!Explained
    <2>4. Flow!Static[s] = Flow!Unknown
      BY <1>2, <1>9 DEF Flow!StaticOf, Flow!Settled, Flow!NotSet
    <2>5. QED
      BY <2>2, <2>3, <2>4
  <1>10. ASSUME NEW t \in FlowSteps, NEW n \in {"P", "S"}, flow[s].P = <<"param", t, n>>
         PROVE /\ Flow!ValueOfP(s) = handed[t] /\ Flow!HandedOn(s, Flow!ValueOfP(s)) = handed[t] /\ handed[t] # Flow!Blank
               /\ Flow!Explained(s) \in {Flow!Unknown, handed[t]} /\ Flow!Static[s] \in {Flow!Unknown, handed[t]}
    <2>1. t \in Flow!Earlier(s)
      BY <1>1, <1>10 DEF Flow!Checked
    <2>2. Flow!ValueOfP(s) = handed[t] /\ Flow!HandedOn(s, Flow!ValueOfP(s)) = handed[t]
      BY <1>3, <1>10, <2>1 DEF Flow!ValueOfP, Flow!HandedOn, Flow!Rendered, Flow!NotSet
    <2>3. Flow!Explained(s) = Flow!Static[t]
      BY <1>10 DEF Flow!Explained
    <2>4. CASE Flow!Static[t] = Flow!Unknown
      <3>1. ~Flow!Settled(flow[s].P, known)
        BY <1>2, <1>10, <2>1, <2>4 DEF Flow!Settled
      <3>2. Flow!Static[s] = Flow!Unknown
        BY <1>2, <1>10, <3>1 DEF Flow!StaticOf, Flow!NotSet
      <3>3. QED
        BY <1>4, <2>1, <2>2, <2>3, <2>4, <3>2
    <2>5. CASE Flow!Static[t] # Flow!Unknown
      <3>1. Flow!Settled(flow[s].P, known)
        BY <1>2, <1>10, <2>1, <2>5 DEF Flow!Settled
      <3>2. Flow!Static[s] = known[t]
        BY <1>2, <1>10, <2>1, <3>1 DEF Flow!StaticOf, Flow!HandedOn, Flow!Rendered, Flow!NotSet
      <3>3. QED
        BY <1>2, <1>4, <2>1, <2>2, <2>3, <2>5, <3>2
    <2>6. QED
      BY <2>4, <2>5
  <1>11. ASSUME NEW t \in FlowSteps PROVE <<"addresses", t>> # Flow!Blank
    BY DEF Flow!Blank
  <1>12. QED
    <2>1. CASE \E t \in FlowSteps : flow[s].P = <<"ips", t>>
      BY <1>1, <1>9, <1>11, <2>1
    <2>2. CASE \E t \in FlowSteps, n \in {"P", "S"} : flow[s].P = <<"param", t, n>>
      BY <1>1, <1>10, <2>2
    <2>3. QED
      BY <1>1, <1>5, <1>6, <1>7, <1>8, <2>1, <2>2, FlowPlainForms

LEMMA FlowSecretFits ==
  ASSUME Flow!FlowInv, NEW s \in FlowSteps, s4 = "runs"
  PROVE Flow!ValueOfS(s) # Flow!Blank
  <1> DEFINE flow == s1  declared == s2  entered == s3
  <1>1. flow[s].S \in {Flow!NotSet, <<"params", "S">>, <<"literal">>} /\ Flow!Accepted /\ Flow!Ready
    BY DEF Flow!FlowInv, Flow!TypeOK, Flow!Flows, Flow!Passed
  <1>2. flow[s].S # <<"literal">>
    BY <1>1 DEF Flow!Accepted
  <1>3. flow[s].S = <<"params", "S">> => "S" \in entered
    BY <1>1 DEF Flow!Ready, Flow!Inputs
  <1>4. flow[s].S = Flow!NotSet => declared \/ "S" \in entered
    BY <1>1 DEF Flow!Ready
  <1>5. QED
    BY <1>1, <1>2, <1>3, <1>4 DEF Flow!ValueOfS, Flow!Blank

\* What was worked out beforehand depends on the stack and on what was entered.
LEMMA FlowUnmoved ==
  ASSUME UNCHANGED <<s1, s2, s3>>
  PROVE /\ Flow!Static' = Flow!Static /\ Flow!Accepted' = Flow!Accepted /\ Flow!Ready' = Flow!Ready
        /\ \A s \in FlowSteps : Flow!Explained(s)' = Flow!Explained(s)
  <1>1. Flow!Static' = Flow!Static
    BY DEF Flow!Static, Flow!AndStage, Flow!StaticOf, Flow!Settled, Flow!HandedOn, Flow!Rendered
  <1>2. Flow!Accepted' = Flow!Accepted
    BY DEF Flow!Accepted, Flow!Checked, Flow!Earlier
  <1>3. Flow!Ready' = Flow!Ready
    BY DEF Flow!Ready, Flow!Inputs
  <1>4. ASSUME NEW s \in FlowSteps PROVE Flow!Explained(s)' = Flow!Explained(s)
    BY <1>1 DEF Flow!Explained
  <1>5. QED
    BY <1>1, <1>2, <1>3, <1>4

LEMMA FlowSameAccepted == ASSUME UNCHANGED <<s1, s2>> PROVE Flow!Accepted' = Flow!Accepted
  BY DEF Flow!Accepted, Flow!Checked, Flow!Earlier

\* Before it runs, nothing was given.
LEMMA FlowPrepares ==
  ASSUME Flow!FlowInv, s4 \notin {"runs", "over"}, UNCHANGED <<s1, s2, s5, s6, s9, s10>>,
         s3' \subseteq {"P", "S"}, s4' \in {"refused", "saved", "previewed", "shown", "lacking", "runs"},
         s4' # "refused" => Flow!Accepted, s4' = "runs" => Flow!Ready', Flow!ShownFits',
         \A s \in FlowSteps : s8'[s][1] \notin {"entered", "secret"}
  PROVE Flow!FlowInv'
  <1> DEFINE handed == s9  given == s10
  <1>1. DOMAIN given = {} /\ DOMAIN handed = {}
    BY DEF Flow!FlowInv, Flow!StepsFit, Flow!TypeOK
  <1>2. Flow!TypeOK' /\ Flow!StepsFit'
    BY <1>1 DEF Flow!FlowInv, Flow!TypeOK, Flow!StepsFit
  <1>3. Flow!Passed'
    BY FlowSameAccepted DEF Flow!Passed
  <1>4. Flow!HandedFits' /\ Flow!LaunchAsPromised'
    BY <1>1 DEF Flow!HandedFits, Flow!LaunchAsPromised, Flow!NothingIsBlank, Flow!PreviewIsTrue
  <1>5. QED
    BY <1>2, <1>3, <1>4 DEF Flow!FlowInv

LEMMA FlowSaveKeeps == ASSUME Flow!FlowInv, Flow!Save PROVE Flow!FlowInv'
  <1> DEFINE shown == s8
  <1>1. \A s \in FlowSteps : shown[s] = Flow!Unknown
    BY DEF Flow!Save, Flow!FlowInv, Flow!ShownFits
  <1>2. Flow!ShownFits' /\ \A s \in FlowSteps : shown'[s][1] \notin {"entered", "secret"}
    BY <1>1 DEF Flow!Save, Flow!ShownFits, Flow!Unknown
  <1>3. QED
    BY <1>2, FlowPrepares DEF Flow!Save, Flow!FlowInv, Flow!TypeOK

LEMMA FlowPreviewKeeps == ASSUME Flow!FlowInv, NEW names \in SUBSET {"P", "S"}, Flow!Preview(names) PROVE Flow!FlowInv'
  <1> DEFINE shown == s8
  <1>1. \A s \in FlowSteps : shown[s] = Flow!Unknown
    BY DEF Flow!Preview, Flow!FlowInv, Flow!ShownFits
  <1>2. Flow!ShownFits' /\ \A s \in FlowSteps : shown'[s][1] \notin {"entered", "secret"}
    BY <1>1 DEF Flow!Preview, Flow!ShownFits, Flow!Unknown
  <1>3. Flow!Accepted
    BY DEF Flow!Preview, Flow!FlowInv, Flow!Passed
  <1>4. QED
    BY <1>2, <1>3, FlowPrepares DEF Flow!Preview

LEMMA FlowShowsKeeps == ASSUME Flow!FlowInv, Flow!Shows PROVE Flow!FlowInv'
  <1> DEFINE flow == s1  shown == s8
  <1>1. Flow!ShownFits'
    BY FlowUnmoved DEF Flow!Shows, Flow!ShownFits
  <1>2. ASSUME NEW s \in FlowSteps PROVE shown'[s][1] \notin {"entered", "secret"}
    <2>1. shown'[s] = Flow!Explained(s) /\ flow[s].P \in Flow!Plain
      BY DEF Flow!Shows, Flow!FlowInv, Flow!TypeOK, Flow!Flows
    <2>2. \A t \in FlowSteps : Flow!Static[t][1] \in Flow!Open
      BY FlowStaticOpen DEF Flow!FlowInv
    <2>3. flow[s].P[1] = "param" => flow[s].P[2] \in FlowSteps
      BY <2>1, FlowPlainForms DEF Flow!NotSet
    <2>4. QED
      BY <2>1, <2>2, <2>3 DEF Flow!Explained, Flow!Open, Flow!Unknown, Flow!Masked
  <1>3. Flow!Accepted
    BY DEF Flow!Shows, Flow!FlowInv, Flow!Passed
  <1>4. QED
    BY <1>1, <1>2, <1>3, FlowPrepares DEF Flow!Shows, Flow!FlowInv, Flow!TypeOK

LEMMA FlowLaunchKeeps == ASSUME Flow!FlowInv, Flow!Launch PROVE Flow!FlowInv'
  <1> DEFINE shown == s8
  <1>1. Flow!ShownFits'
    BY FlowUnmoved DEF Flow!Launch, Flow!FlowInv, Flow!ShownFits
  <1>2. \A s \in FlowSteps : shown'[s][1] \notin {"entered", "secret"}
    BY DEF Flow!Launch, Flow!FlowInv, Flow!LaunchAsPromised, Flow!PreviewIsTrue
  <1>3. Flow!Accepted
    BY DEF Flow!Launch, Flow!FlowInv, Flow!Passed
  <1>4. QED
    BY <1>1, <1>2, <1>3, FlowUnmoved, FlowPrepares DEF Flow!Launch, Flow!FlowInv, Flow!TypeOK

LEMMA FlowStepStartsKeeps == ASSUME Flow!FlowInv, NEW s \in FlowSteps, Flow!StepStarts(s) PROVE Flow!FlowInv'
  <1> DEFINE flow == s1  declared == s2  entered == s3  at == s4  stage == s5  step == s6
             warned == s7  shown == s8  handed == s9  given == s10
  <1>1. /\ at = "runs" /\ flow[s].stage = stage /\ step[s] = "waits" /\ s \notin DOMAIN given
        /\ UNCHANGED <<flow, declared, entered, at, stage, warned, shown>>
        /\ step' = [step EXCEPT ![s] = "runs"]
        /\ DOMAIN handed = DOMAIN given /\ DOMAIN given \subseteq FlowSteps
    BY DEF Flow!StepStarts, Flow!FlowInv, Flow!StepsFit, Flow!TypeOK
  <1>2. DOMAIN given' = DOMAIN given \cup {s} /\ DOMAIN handed' = DOMAIN given \cup {s}
    BY <1>1 DEF Flow!StepStarts, Flow!With
  <1>3. \A t \in DOMAIN given : given'[t] = given[t] /\ handed'[t] = handed[t]
    BY <1>1 DEF Flow!StepStarts, Flow!With
  <1>4. /\ given'[s] = [P |-> Flow!ValueOfP(s), S |-> Flow!ValueOfS(s)]
        /\ handed'[s] = Flow!HandedOn(s, Flow!ValueOfP(s))
    BY DEF Flow!StepStarts, Flow!With
  <1>5. Flow!TypeOK'
    BY <1>1, <1>2 DEF Flow!FlowInv, Flow!TypeOK
  <1>6. Flow!StepsFit'
    BY <1>1, <1>2 DEF Flow!FlowInv, Flow!TypeOK, Flow!StepsFit
  <1>7. Flow!Passed' /\ Flow!ShownFits'
    BY <1>1, FlowUnmoved DEF Flow!FlowInv, Flow!Passed, Flow!ShownFits
  <1>8. Flow!HandedFits'
    <2>1. \A t \in DOMAIN given : handed[t] # Flow!Blank /\ Flow!Static[t] \in {Flow!Unknown, handed[t]}
      BY <1>1 DEF Flow!FlowInv, Flow!HandedFits
    <2>2. Flow!Static' = Flow!Static
      BY <1>1, FlowUnmoved
    <2>3. QED
      BY <1>1, <1>2, <1>3, <1>4, <2>1, <2>2, FlowValueFits DEF Flow!HandedFits
  <1>9. Flow!NothingIsBlank'
    <2>1. \A t \in DOMAIN given : given[t].P # Flow!Blank /\ given[t].S # Flow!Blank
      BY DEF Flow!FlowInv, Flow!LaunchAsPromised, Flow!NothingIsBlank
    <2>2. QED
      BY <1>1, <1>2, <1>3, <1>4, <2>1, FlowValueFits, FlowSecretFits DEF Flow!NothingIsBlank
  <1>10. Flow!PreviewIsTrue'
    <2>1. \A t \in DOMAIN given :
            \/ shown[t] \in {Flow!Unknown, given[t].P}
            \/ shown[t] = Flow!Masked /\ given[t].P[1] \in {"entered", "secret"}
      BY DEF Flow!FlowInv, Flow!LaunchAsPromised, Flow!PreviewIsTrue
    <2>2. \A t \in FlowSteps : shown[t][1] \notin {"entered", "secret"}
      BY DEF Flow!FlowInv, Flow!LaunchAsPromised, Flow!PreviewIsTrue
    <2>3. QED
      BY <1>1, <1>2, <1>3, <1>4, <2>1, <2>2, FlowValueFits DEF Flow!PreviewIsTrue
  <1>11. QED
    BY <1>5, <1>6, <1>7, <1>8, <1>9, <1>10 DEF Flow!FlowInv, Flow!LaunchAsPromised

LEMMA FlowGoesOn ==
  ASSUME Flow!FlowInv, s4 \in {"runs", "over"} => s4' \in {"runs", "over"}, s4' \in {s4, "over"},
         s4' # s4 => s4 = "runs",
         UNCHANGED <<s1, s2, s3, s8, s9, s10>>, Flow!TypeOK', Flow!StepsFit'
  PROVE Flow!FlowInv'
  <1>1. Flow!Passed' /\ Flow!ShownFits'
    BY FlowUnmoved DEF Flow!FlowInv, Flow!Passed, Flow!ShownFits
  <1>2. Flow!HandedFits'
    BY FlowUnmoved DEF Flow!FlowInv, Flow!HandedFits
  <1>3. Flow!LaunchAsPromised'
    BY DEF Flow!FlowInv, Flow!LaunchAsPromised, Flow!NothingIsBlank, Flow!PreviewIsTrue
  <1>4. QED
    BY <1>1, <1>2, <1>3 DEF Flow!FlowInv

LEMMA FlowStepEndsKeeps == ASSUME Flow!FlowInv, NEW s \in FlowSteps, Flow!StepEnds(s) PROVE Flow!FlowInv'
  <1> DEFINE step == s6
  <1>1. PICK r \in {"done", "failed"} : step' = [step EXCEPT ![s] = r]
    BY DEF Flow!StepEnds
  <1>2. Flow!TypeOK'
    BY <1>1 DEF Flow!StepEnds, Flow!FlowInv, Flow!TypeOK
  <1>3. Flow!StepsFit'
    BY <1>1 DEF Flow!StepEnds, Flow!FlowInv, Flow!TypeOK, Flow!StepsFit
  <1>4. QED
    BY <1>2, <1>3, FlowGoesOn DEF Flow!StepEnds

LEMMA FlowStageEndsKeeps == ASSUME Flow!FlowInv, Flow!StageEnds PROVE Flow!FlowInv'
  <1> DEFINE flow == s1  declared == s2  entered == s3  at == s4  stage == s5  step == s6
             warned == s7  shown == s8  handed == s9  given == s10
  <1> DEFINE failed == \E s \in FlowSteps : step[s] = "failed"
             more == \E s \in FlowSteps : flow[s].stage > stage
  <1>1. /\ at = "runs" /\ UNCHANGED <<flow, declared, entered, step, warned, shown, handed, given>>
        /\ at' = IF failed \/ ~more THEN "over" ELSE "runs"
        /\ stage' = IF failed \/ ~more THEN stage ELSE stage + 1
        /\ \A s \in FlowSteps : flow[s].stage = stage => step[s] \in {"done", "failed"}
    BY DEF Flow!StageEnds
  <1>2. Flow!TypeOK'
    BY <1>1 DEF Flow!FlowInv, Flow!TypeOK
  <1>3. \A s \in FlowSteps : flow[s].stage \in Nat
    BY DEF Flow!FlowInv, Flow!TypeOK, Flow!Flows
  <1>4. ASSUME NEW s \in FlowSteps
        PROVE (/\ flow[s].stage > stage => step[s] = "waits"
               /\ flow[s].stage < stage => step[s] = "done")'
    <2>1. CASE stage' = stage
      BY <1>1, <2>1 DEF Flow!FlowInv, Flow!StepsFit
    <2>2. CASE ~failed /\ stage' = stage + 1
      <3>1. flow[s].stage < stage + 1 => step[s] = "done"
        BY <1>1, <1>3, <2>2 DEF Flow!FlowInv, Flow!StepsFit, Flow!TypeOK
      <3>2. flow[s].stage > stage + 1 => step[s] = "waits"
        BY <1>3 DEF Flow!FlowInv, Flow!StepsFit, Flow!TypeOK
      <3>3. QED
        BY <1>1, <2>2, <3>1, <3>2
    <2>3. QED
      BY <1>1, <2>1, <2>2
  <1>5. Flow!StepsFit'
    BY <1>1, <1>4 DEF Flow!FlowInv, Flow!StepsFit
  <1>6. QED
    BY <1>1, <1>2, <1>5, FlowGoesOn

LEMMA FlowStep == ASSUME Flow!FlowInv, [Flow!Next]_(Flow!flowVars) PROVE Flow!FlowInv'
  <1> DEFINE flow == s1  declared == s2  entered == s3  at == s4  stage == s5  step == s6
             shown == s8  handed == s9  given == s10
  <1>1. CASE UNCHANGED Flow!flowVars
    <2>1. UNCHANGED <<flow, declared, entered, at, stage, step, shown, handed, given>>
      BY <1>1 DEF Flow!flowVars
    <2>2. Flow!TypeOK' /\ Flow!StepsFit'
      BY <2>1 DEF Flow!FlowInv, Flow!TypeOK, Flow!StepsFit
    <2>3. QED
      BY <2>1, <2>2, FlowGoesOn
  <1>2. CASE Flow!Next
    BY <1>2, FlowSaveKeeps, FlowShowsKeeps, FlowLaunchKeeps, FlowStageEndsKeeps, FlowPreviewKeeps, FlowStepStartsKeeps,
       FlowStepEndsKeeps DEF Flow!Next
  <1>3. QED
    BY <1>1, <1>2
=============================================================================
