-------------------------- MODULE DefinitionsProof --------------------------
(***************************************************************************)
(* Proofs about Definitions, for every set of members and every bound: the *)
(* invariant that a reconciliation nobody disturbs keeps, and with it that *)
(* such a pass levels the members it reached and overwrites no copy; and   *)
(* that a definition which is gone is not brought back by the members.     *)
(***************************************************************************)
EXTENDS Definitions, TLAPS

USE DEF None

(* Stamps and copies keep their types when a record is written. *)
LEMMA StampedType ==
    ASSUME TypeOK, NEW n \in Node, NEW d \in BOOLEAN, Stamped(n, d)
    PROVE  /\ now' \in 1..MaxTime /\ now' >= now
           /\ changes' \in [Node -> Entry]
           /\ changes'[n] = [at |-> now', deleted |-> d]
           /\ \A m \in Node \ {n} : changes'[m] = changes[m]
<1>1. PICK t \in {now, now + 1} \cap 1..MaxTime :
          /\ now' = t
          /\ changes' = [changes EXCEPT ![n] = [at |-> t, deleted |-> d]]
  BY DEF Stamped
<1>2. t \in 1..MaxTime /\ t >= now /\ now \in 1..MaxTime
  BY <1>1, BoundsAssumption DEF TypeOK
<1>3. [at |-> t, deleted |-> d] \in Entry
  BY <1>2, BoundsAssumption DEF Entry
<1> QED
  BY <1>1, <1>2, <1>3 DEF TypeOK

LEMMA SavedType ==
    ASSUME TypeOK, NEW n \in Node, NEW body \in Copy, Saved(n, body)
    PROVE  /\ now' \in 1..MaxTime /\ changes' \in [Node -> Entry]
           /\ copy' \in [Node -> Copy]
BY StampedType DEF Saved, TypeOK

LEMMA RemovedType ==
    ASSUME TypeOK, NEW n \in Node, Removed(n)
    PROVE  /\ now' \in 1..MaxTime /\ changes' \in [Node -> Entry]
           /\ copy' \in [Node -> Copy]
<1>1. copy' \in [Node -> Copy]
  BY BoundsAssumption DEF Removed, TypeOK, Copy
<1>2. CASE copy[n] = None
  BY <1>1, <1>2 DEF Removed, TypeOK
<1>3. CASE copy[n] # None
  BY <1>1, <1>3, StampedType DEF Removed
<1> QED BY <1>2, <1>3

LEMMA TypeInit == Init => TypeOK
<1> SUFFICES ASSUME Init PROVE TypeOK
  OBVIOUS
<1>1. NoEntry \in Entry /\ [at |-> 1, deleted |-> FALSE] \in Entry
  BY BoundsAssumption DEF NoEntry, Entry
<1>2. 1 \in Copy /\ None \in Copy
  BY BoundsAssumption DEF Copy
<1>3. copy \in [Node -> Copy] /\ changes \in [Node -> Entry]
  BY <1>1, <1>2 DEF Init
<1>4. Idle \in PassRecord
  BY <1>1, <1>2 DEF Idle, PassRecord, Unread, Manifest
<1>5. pass \in [Node -> PassRecord]
  BY <1>4 DEF Init
<1> QED
  BY <1>3, <1>5, BoundsAssumption DEF Init, TypeOK

LEMMA IdleType == Idle \in PassRecord
<1>1. NoEntry \in Entry /\ None \in Copy
  BY BoundsAssumption DEF NoEntry, Entry, Copy
<1> QED
  BY <1>1 DEF Idle, PassRecord, Unread, Manifest

(* Each kind of step keeps the types. *)
LEMMA TypePeople ==
    ASSUME TypeOK, NEW n \in Node, People(n)
    PROVE  TypeOK'
<1>1. CASE Save(n)
  <2>1. edits + 1 \in Copy /\ edits + 1 <= MaxEdits /\ edits + 1 \in Nat
    BY <1>1, BoundsAssumption DEF Save, TypeOK, Copy
  <2>2. now' \in 1..MaxTime /\ changes' \in [Node -> Entry] /\ copy' \in [Node -> Copy]
    BY <1>1, <2>1, SavedType DEF Save
  <2> QED BY <1>1, <2>1, <2>2 DEF Save, Disturbs, TypeOK
<1>2. CASE Propagate(n)
  <2>1. Saves(n, Node \ {n}, copy[n]) \subseteq Call
    BY DEF Saves, Call, TypeOK
  <2>2. calls' \subseteq Call
    BY <1>2, <2>1 DEF Propagate, TypeOK
  <2> QED BY <1>2, <2>2 DEF Propagate, Counted, TypeOK
<1>3. CASE Delete(n)
  <2>1. Drops(n, Node \ {n}) \subseteq Call
    BY BoundsAssumption DEF Drops, Call, Copy
  <2>2. calls' \subseteq Call
    BY <1>3, <2>1 DEF Delete, TypeOK
  <2>3. now' \in 1..MaxTime /\ changes' \in [Node -> Entry] /\ copy' \in [Node -> Copy]
    BY <1>3, RemovedType DEF Delete
  <2> QED BY <1>3, <2>2, <2>3, BoundsAssumption DEF Delete, Disturbs, TypeOK
<1>4. CASE DeleteHere(n)
  <2>1. now' \in 1..MaxTime /\ changes' \in [Node -> Entry] /\ copy' \in [Node -> Copy]
    BY <1>4, RemovedType DEF DeleteHere
  <2> QED BY <1>4, <2>1, BoundsAssumption DEF DeleteHere, Disturbs, TypeOK
<1> QED BY <1>1, <1>2, <1>3, <1>4 DEF People

LEMMA TypeProcess ==
    ASSUME TypeOK, NEW n \in Node, Process(n)
    PROVE  TypeOK'
<1>1. ASSUME GoesDown(n)
      PROVE  /\ up' \subseteq Node /\ untold' \subseteq up' /\ pass' \in [Node -> PassRecord]
             /\ faults' \in Nat /\ faults' <= MaxFaults
  BY <1>1, IdleType, BoundsAssumption DEF GoesDown, TypeOK
<1>2. CASE Off(n)
  BY <1>1, <1>2 DEF Off, Spoils, TypeOK
<1>3. CASE TornSave(n)
  <2>1. edits + 1 \in Copy /\ edits + 1 <= MaxEdits /\ edits + 1 \in Nat
    BY <1>3, BoundsAssumption DEF TornSave, TypeOK, Copy
  <2> QED BY <1>1, <1>3, <2>1 DEF TornSave, Disturbs, TypeOK
<1>4. CASE TornDelete(n)
  <2>1. copy' \in [Node -> Copy]
    BY <1>4, BoundsAssumption DEF TornDelete, TypeOK, Copy
  <2> QED BY <1>1, <1>4, <2>1, BoundsAssumption DEF TornDelete, Disturbs, TypeOK
<1>5. CASE On(n)
  BY <1>5 DEF On, Counted, TypeOK
<1> QED BY <1>2, <1>3, <1>4, <1>5 DEF Process

LEMMA TypeCalls ==
    ASSUME TypeOK, NEW c \in calls, Receive(c) \/ Lose(c)
    PROVE  TypeOK'
<1>1. c.to \in Node /\ c.body \in Copy
  BY DEF TypeOK, Call
<1>2. CASE Receive(c)
  <2>1. now' \in 1..MaxTime /\ changes' \in [Node -> Entry] /\ copy' \in [Node -> Copy]
    BY <1>1, <1>2, SavedType, RemovedType DEF Receive
  <2> QED BY <1>2, <2>1 DEF Receive, Disturbs, Counted, TypeOK
<1>3. CASE Lose(c)
  BY <1>3, BoundsAssumption DEF Lose, Fails, TypeOK
<1> QED BY <1>2, <1>3

LEMMA ManifestType ==
    ASSUME TypeOK, NEW m \in Node
    PROVE  ManifestOf(m) \in Manifest
BY DEF TypeOK, ManifestOf, Manifest

(* What each step of a pass makes of the pass's own record. *)
LEMMA PassRecordType ==
    ASSUME TypeOK, NEW n \in Node, Pass(n)
    PROVE  pass' \in [Node -> PassRecord]
<1>1. pass[n] \in PassRecord
  BY DEF TypeOK
<1>2. CASE StartPass(n)
  <2>1. [Idle EXCEPT !.at = "asking", !.left = Node \ {n}] \in PassRecord
    BY IdleType DEF PassRecord
  <2> QED BY <1>2, <2>1 DEF TypeOK, StartPass
<1>3. CASE Inward(n)
  <2>1. NewestCopy(pass[n]) \subseteq Node
    BY <1>1 DEF NewestCopy, Holders, PassRecord
  <2>2. /\ [pass[n] EXCEPT !.at = "pulling", !.from = NewestCopy(pass[n])] \in PassRecord
        /\ [pass[n] EXCEPT !.at = "removing"] \in PassRecord
        /\ [pass[n] EXCEPT !.at = "settling"] \in PassRecord
    BY <1>1, <2>1 DEF PassRecord
  <2> QED BY <1>3, <2>2 DEF TypeOK, Inward
<1>4. ASSUME Applied(n) PROVE pass' \in [Node -> PassRecord]
  <2>1. pass' = [pass EXCEPT ![n] = [pass[n] EXCEPT !.at = "settling", !.from = {}]]
    BY <1>4, <1>1 DEF Applied, TypeOK, PassRecord
  <2>2. [pass[n] EXCEPT !.at = "settling", !.from = {}] \in PassRecord
    BY <1>1 DEF PassRecord
  <2> QED BY <2>1, <2>2 DEF TypeOK
<1>5. CASE Remove(n)
  BY <1>4, <1>5 DEF Remove
<1>6. CASE Settle(n)
  <2> DEFINE mine == ManifestOf(n)
  <2>1. Behind(mine, pass[n]) \subseteq Node /\ Outlived(mine, pass[n]) \subseteq Node
    BY <1>1 DEF Behind, Outlived, PassRecord
  <2> DEFINE q == [pass[n] EXCEPT !.at = "telling", !.push = Behind(mine, pass[n]),
                                  !.drop = Outlived(mine, pass[n])]
  <2>2. q \in PassRecord
    BY <1>1, <2>1 DEF PassRecord
  <2>3. pass' = [pass EXCEPT ![n] = q]
    BY <1>6, <1>1 DEF Settle, TypeOK, PassRecord
  <2> QED BY <2>2, <2>3 DEF TypeOK
<1>7. CASE EndPass(n)
  <2>1. Over(pass[n].reached) \in PassRecord
    BY <1>1, IdleType DEF Over, PassRecord
  <2> QED BY <1>7, <2>1 DEF TypeOK, EndPass
<1>8. ASSUME NEW m \in Node, Told(n, m) PROVE pass' \in [Node -> PassRecord]
  <2> DEFINE q == [pass[n] EXCEPT !.push = @ \ {m}, !.drop = @ \ {m}]
  <2>1. q \in PassRecord
    BY <1>1 DEF PassRecord
  <2>2. pass' = [pass EXCEPT ![n] = q]
    BY <1>8, <1>1 DEF Told, TypeOK, PassRecord
  <2> QED BY <2>1, <2>2 DEF TypeOK
<1>9. ASSUME NEW m \in Node, Ask(n, m) PROVE pass' \in [Node -> PassRecord]
  <2> DEFINE q == [pass[n] EXCEPT !.left = @ \ {m}, !.reached = @ \cup {m},
                                  !.seen = [@ EXCEPT ![m] = ManifestOf(m)]]
  <2>1. q \in PassRecord
    BY <1>1, ManifestType DEF PassRecord
  <2>2. pass' = [pass EXCEPT ![n] = q]
    BY <1>9, <1>1 DEF Ask, TypeOK, PassRecord
  <2> QED BY <2>1, <2>2 DEF TypeOK
<1>10. ASSUME NEW m \in Node, AskFails(n, m) PROVE pass' \in [Node -> PassRecord]
  <2> DEFINE q == [pass[n] EXCEPT !.left = @ \ {m}]
  <2>1. q \in PassRecord
    BY <1>1 DEF PassRecord
  <2>2. pass' = [pass EXCEPT ![n] = q]
    BY <1>10, <1>1 DEF AskFails, TypeOK, PassRecord
  <2> QED BY <2>1, <2>2 DEF TypeOK
<1>11. ASSUME NEW m \in Node, Pull(n, m) \/ PullFails(n, m)
       PROVE  pass' \in [Node -> PassRecord]
  BY <1>4, <1>11 DEF Pull, PullFails
<1>12. ASSUME NEW m \in Node, NothingToPush(n, m) \/ Tell(n, m) \/ TellFails(n, m)
       PROVE  pass' \in [Node -> PassRecord]
  BY <1>8, <1>12 DEF NothingToPush, Tell, TellFails
<1> QED
  BY <1>2, <1>3, <1>5, <1>6, <1>7, <1>9, <1>10, <1>11, <1>12 DEF Pass

LEMMA TypePass ==
    ASSUME TypeOK, NEW n \in Node, Pass(n)
    PROVE  TypeOK'
<1>1. pass' \in [Node -> PassRecord]
  BY PassRecordType
<1>2. CASE StartPass(n)
  BY <1>1, <1>2, BoundsAssumption DEF StartPass, TypeOK
<1>3. CASE Inward(n) \/ Settle(n) \/ EndPass(n)
  BY <1>1, <1>3 DEF Inward, Settle, EndPass, Counted, TypeOK
<1>4. CASE Remove(n)
  BY <1>1, <1>4, RemovedType DEF Remove, DisturbsOthers, Counted, TypeOK
<1>5. ASSUME NEW m \in Node, Ask(n, m) \/ NothingToPush(n, m)
      PROVE  TypeOK'
  BY <1>1, <1>5 DEF Ask, NothingToPush, Counted, TypeOK
<1>6. ASSUME NEW m \in Node, AskFails(n, m)
      PROVE  TypeOK'
  BY <1>1, <1>6, BoundsAssumption DEF AskFails, Fails, TypeOK
<1>7. ASSUME NEW m \in Node, Pull(n, m)
      PROVE  TypeOK'
  <2>1. now' \in 1..MaxTime /\ changes' \in [Node -> Entry] /\ copy' \in [Node -> Copy]
    BY <1>7, SavedType DEF Pull, TypeOK
  <2> QED BY <1>1, <1>7, <2>1 DEF Pull, DisturbsOthers, Counted, TypeOK
<1>8. ASSUME NEW m \in Node, PullFails(n, m)
      PROVE  TypeOK'
  BY <1>1, <1>8, BoundsAssumption DEF PullFails, Fails, Spoils, TypeOK
<1>9. ASSUME NEW m \in Node, Tell(n, m)
      PROVE  TypeOK'
  <2>1. PushBody(n) \subseteq Copy
    BY DEF PushBody, TypeOK
  <2>2. now' \in 1..MaxTime /\ changes' \in [Node -> Entry] /\ copy' \in [Node -> Copy]
    BY <1>9, <2>1, SavedType, RemovedType DEF Tell
  <2> QED BY <1>1, <1>9, <2>2 DEF Tell, DisturbsOthers, Counted, TypeOK
<1>10. ASSUME NEW m \in Node, TellFails(n, m)
       PROVE  TypeOK'
  <2>1. /\ Drops(n, {m}) \subseteq Call
        /\ UNION {Saves(n, {m}, b) : b \in PushBody(n)} \subseteq Call
    BY BoundsAssumption DEF Drops, Saves, Call, Copy, PushBody, TypeOK
  <2>2. calls' \subseteq Call
    BY <1>10, <2>1 DEF TellFails, TypeOK
  <2> QED
    BY <1>1, <1>10, <2>2, BoundsAssumption DEF TellFails, Fails, Spoils, TypeOK
<1> QED
  BY <1>2, <1>3, <1>4, <1>5, <1>6, <1>7, <1>8, <1>9, <1>10 DEF Pass

LEMMA TypeStep == TypeOK /\ [Next]_vars => TypeOK'
<1> SUFFICES ASSUME TypeOK, [Next]_vars PROVE TypeOK'
  OBVIOUS
<1>1. CASE UNCHANGED vars
  BY <1>1 DEF vars, TypeOK
<1>2. ASSUME NEW n \in Node, People(n) \/ Process(n) \/ Pass(n) PROVE TypeOK'
  BY <1>2, TypePeople, TypeProcess, TypePass
<1>3. ASSUME NEW c \in calls, Receive(c) \/ Lose(c) PROVE TypeOK'
  BY <1>3, TypeCalls
<1> QED BY <1>1, <1>2, <1>3 DEF Next

(* Every variable of every reachable state has its type (the records, ledgers,
   calls and passes of cluster.py's reconcile and propagation). *)
THEOREM TypeCorrect == Spec => []TypeOK
BY TypeInit, TypeStep, PTL DEF Spec

-----------------------------------------------------------------------------
(* The invariant of an undisturbed pass.                                   *)

StampsArePast == \A n \in Node : changes[n].at <= now

Good(k) ==
    /\ Tethered(k)
    /\ calm[k] => StillSo(k) /\ Ready(k) /\ Telling(k)
    /\ pass[k].at = "over" /\ calm[k] => \A m \in pass[k].reached : Level(k, m)

LEMMA SettleParts == SettleInv <=> TypeOK /\ StampsArePast /\ \A k \in Node : Good(k)
BY DEF SettleInv, StampsArePast, Good, PassLevels

(* A pass that a step neither advances nor disturbs keeps what it has. *)
LEMMA Frame ==
    ASSUME TypeOK, NEW k \in Node, Good(k), UNCHANGED <<copy, changes>>,
           pass'[k] = pass[k], calm'[k] => calm[k]
    PROVE  Good(k)'
BY DEF Good, Tethered, StillSo, Ready, Telling, Level, ManifestOf

(* Of a pass that was disturbed only the bookkeeping matters. *)
LEMMA FrameDisturbed ==
    ASSUME TypeOK, NEW k \in Node, Good(k), pass'[k] = pass[k], ~calm'[k]
    PROVE  Good(k)'
BY DEF Good, Tethered

LEMMA StampsStep ==
    ASSUME TypeOK, TypeOK', StampsArePast, [Next]_vars
    PROVE  StampsArePast'
<1>1. \/ UNCHANGED <<now, changes>>
      \/ \E n \in Node, d \in BOOLEAN : Stamped(n, d)
  <2>1. ASSUME NEW n \in Node, NEW body, Saved(n, body)
        PROVE  \E m \in Node, d \in BOOLEAN : Stamped(m, d)
    BY <2>1 DEF Saved
  <2>2. ASSUME NEW n \in Node, Removed(n)
        PROVE  \/ UNCHANGED <<now, changes>>
               \/ \E m \in Node, d \in BOOLEAN : Stamped(m, d)
    BY <2>2 DEF Removed
  <2>3. ASSUME NEW n \in Node, People(n)
        PROVE  \/ UNCHANGED <<now, changes>>
               \/ \E m \in Node, d \in BOOLEAN : Stamped(m, d)
    BY <2>1, <2>2, <2>3 DEF People, Save, Propagate, Delete, DeleteHere
  <2>4. ASSUME NEW n \in Node, Process(n) PROVE UNCHANGED <<now, changes>>
    BY <2>4 DEF Process, Off, TornSave, TornDelete, On
  <2>5. ASSUME NEW n \in Node, Pass(n)
        PROVE  \/ UNCHANGED <<now, changes>>
               \/ \E m \in Node, d \in BOOLEAN : Stamped(m, d)
    <3>1. ASSUME NEW m \in Node, Tell(n, m)
          PROVE  \/ UNCHANGED <<now, changes>>
                 \/ \E k \in Node, d \in BOOLEAN : Stamped(k, d)
      BY <2>1, <2>2, <3>1 DEF Tell
    <3>2. ASSUME NEW m \in Node, Pull(n, m)
          PROVE  \E k \in Node, d \in BOOLEAN : Stamped(k, d)
      BY <2>1, <3>2 DEF Pull
    <3>3. CASE Remove(n)
      BY <2>2, <3>3 DEF Remove
    <3> QED
      BY <2>5, <3>1, <3>2, <3>3
         DEF Pass, StartPass, Inward, Settle, EndPass, Ask, AskFails, PullFails,
             NothingToPush, TellFails
  <2>6. ASSUME NEW c \in calls, Receive(c) \/ Lose(c)
        PROVE  \/ UNCHANGED <<now, changes>>
               \/ \E m \in Node, d \in BOOLEAN : Stamped(m, d)
    <3>1. c.to \in Node
      BY DEF TypeOK, Call
    <3> QED BY <2>1, <2>2, <2>6, <3>1 DEF Receive, Lose
  <2> QED BY <2>3, <2>4, <2>5, <2>6 DEF Next, vars
<1>2. CASE UNCHANGED <<now, changes>>
  BY <1>2 DEF StampsArePast
<1>3. ASSUME NEW n \in Node, NEW d \in BOOLEAN, Stamped(n, d)
      PROVE  StampsArePast'
  <2>1. /\ now' \in 1..MaxTime /\ now' >= now
        /\ changes'[n] = [at |-> now', deleted |-> d]
        /\ \A m \in Node \ {n} : changes'[m] = changes[m]
    BY <1>3, StampedType
  <2>2. now \in Int /\ MaxTime \in Int /\ \A m \in Node : changes[m].at \in Int
    BY BoundsAssumption DEF TypeOK, Entry
  <2> QED BY <2>1, <2>2 DEF StampsArePast
<1> QED BY <1>1, <1>2, <1>3

(* What people, processes and calls do either leaves a pass alone or is not
   calm for it. *)
LEMMA GoodElsewhere ==
    ASSUME TypeOK, \A k \in Node : Good(k),
           \/ \E n \in Node : People(n) \/ Process(n)
           \/ \E c \in calls : Receive(c) \/ Lose(c)
    PROVE  \A k \in Node : Good(k)'
<1> SUFFICES ASSUME NEW k \in Node PROVE Good(k)'
  OBVIOUS
<1>1. ASSUME Disturbs, pass' = pass PROVE Good(k)'
  BY <1>1, FrameDisturbed DEF Disturbs
<1>2. ASSUME UNCHANGED <<copy, changes, pass, calm>> PROVE Good(k)'
  BY <1>2, Frame
<1>3. ASSUME NEW n \in Node, People(n) PROVE Good(k)'
  BY <1>1, <1>2, <1>3 DEF People, Save, Propagate, Delete, DeleteHere
<1>4. ASSUME NEW n \in Node, GoesDown(n), ~calm'[n] PROVE Good(n)'
  <2>1. pass'[n] = Idle
    BY <1>4 DEF GoesDown, TypeOK
  <2> QED BY <1>4, <2>1 DEF Good, Tethered, Idle
<1>5. ASSUME NEW n \in Node, GoesDown(n), Disturbs PROVE Good(k)'
  <2>1. CASE k = n
    BY <1>4, <1>5, <2>1 DEF Disturbs
  <2>2. CASE k # n
    BY <1>5, <2>2, FrameDisturbed DEF Disturbs, GoesDown, TypeOK
  <2> QED BY <2>1, <2>2
<1>6. ASSUME NEW n \in Node, Off(n) PROVE Good(k)'
  <2>1. CASE k = n
    BY <1>4, <1>6, <2>1 DEF Off, Spoils, TypeOK
  <2>2. CASE k # n
    BY <1>6, <2>2, Frame DEF Off, Spoils, GoesDown, TypeOK
  <2> QED BY <2>1, <2>2
<1>7. ASSUME NEW n \in Node, Process(n) PROVE Good(k)'
  BY <1>2, <1>5, <1>6, <1>7 DEF Process, TornSave, TornDelete, On
<1>8. ASSUME NEW c \in calls, Receive(c) \/ Lose(c) PROVE Good(k)'
  BY <1>1, <1>2, <1>8 DEF Receive, Lose
<1> QED BY <1>3, <1>7, <1>8

LEMMA GoodOtherPass ==
    ASSUME TypeOK, NEW n \in Node, Pass(n), NEW k \in Node \ {n}, Good(k)
    PROVE  Good(k)'
<1>1. pass'[k] = pass[k]
  <2>1. ASSUME NEW m \in Node, \/ Ask(n, m) \/ AskFails(n, m) \/ Pull(n, m) \/ PullFails(n, m)
                               \/ NothingToPush(n, m) \/ Tell(n, m) \/ TellFails(n, m)
        PROVE  pass'[k] = pass[k]
    BY <2>1 DEF Ask, AskFails, Pull, PullFails, NothingToPush, Tell, TellFails, Told,
                Applied, TypeOK
  <2>2. ASSUME \/ StartPass(n) \/ Inward(n) \/ Remove(n) \/ Settle(n) \/ EndPass(n)
        PROVE  pass'[k] = pass[k]
    BY <2>2 DEF StartPass, Inward, Remove, Settle, EndPass, Applied, TypeOK
  <2> QED BY <2>1, <2>2 DEF Pass
<1>2. \/ ~calm'[k]
      \/ UNCHANGED <<copy, changes>> /\ calm'[k] = calm[k]
  <2>1. ASSUME NEW m \in Node, \/ Ask(n, m) \/ AskFails(n, m) \/ Pull(n, m) \/ PullFails(n, m)
                               \/ NothingToPush(n, m) \/ Tell(n, m) \/ TellFails(n, m)
        PROVE  \/ ~calm'[k]
               \/ UNCHANGED <<copy, changes>> /\ calm'[k] = calm[k]
    BY <2>1 DEF Ask, AskFails, Pull, PullFails, NothingToPush, Tell, TellFails,
                DisturbsOthers, Spoils, TypeOK
  <2>2. ASSUME \/ StartPass(n) \/ Inward(n) \/ Remove(n) \/ Settle(n) \/ EndPass(n)
        PROVE  \/ ~calm'[k]
               \/ UNCHANGED <<copy, changes>> /\ calm'[k] = calm[k]
    BY <2>2 DEF StartPass, Inward, Remove, Settle, EndPass, DisturbsOthers, TypeOK
  <2> QED BY <2>1, <2>2 DEF Pass
<1>3. CASE ~calm'[k]
  BY <1>1, <1>3, FrameDisturbed
<1>4. CASE UNCHANGED <<copy, changes>> /\ calm'[k] = calm[k]
  BY <1>1, <1>4, Frame
<1> QED BY <1>2, <1>3, <1>4

(* The steps of the pass itself, in the order it takes them. *)
LEMMA GoodAsking ==
    ASSUME TypeOK, NEW n \in Node, Good(n),
           \/ StartPass(n)
           \/ \E m \in Node : Ask(n, m) \/ AskFails(n, m)
    PROVE  Good(n)'
<1>1. CASE StartPass(n)
  <2>1. pass'[n] = [Idle EXCEPT !.at = "asking", !.left = Node \ {n}]
    BY <1>1 DEF StartPass, TypeOK
  <2>2. /\ pass'[n].at = "asking" /\ pass'[n].left = Node \ {n} /\ pass'[n].reached = {}
        /\ pass'[n].from = {} /\ pass'[n].push = {} /\ pass'[n].drop = {}
    BY <2>1 DEF Idle
  <2> QED BY <2>2 DEF Good, Tethered, StillSo, Ready, Telling
<1>2. ASSUME NEW m \in Node, Ask(n, m) PROVE Good(n)'
  <2>1. /\ pass'[n].at = "asking" /\ pass'[n].left = pass[n].left \ {m}
        /\ pass'[n].reached = pass[n].reached \cup {m}
        /\ pass'[n].seen = [pass[n].seen EXCEPT ![m] = ManifestOf(m)]
        /\ pass'[n].from = pass[n].from /\ pass'[n].push = pass[n].push
        /\ pass'[n].drop = pass[n].drop
    <3> DEFINE q == [pass[n] EXCEPT !.left = @ \ {m}, !.reached = @ \cup {m},
                                    !.seen = [@ EXCEPT ![m] = ManifestOf(m)]]
    <3>1. pass' = [pass EXCEPT ![n] = q] /\ pass[n].at = "asking"
      BY <1>2 DEF Ask, TypeOK, PassRecord
    <3>2. pass'[n] = q /\ pass[n] \in PassRecord
      BY <3>1 DEF TypeOK
    <3>3. /\ q.at = pass[n].at /\ q.left = pass[n].left \ {m}
          /\ q.reached = pass[n].reached \cup {m}
          /\ q.from = pass[n].from /\ q.push = pass[n].push /\ q.drop = pass[n].drop
      BY <3>2 DEF PassRecord
    <3>4. q.seen = [pass[n].seen EXCEPT ![m] = ManifestOf(m)]
      BY <3>2 DEF PassRecord
    <3> QED BY <3>1, <3>2, <3>3, <3>4
  <2>2. pass[n].seen \in [Node -> Manifest] /\ pass[n].reached \subseteq Node
    BY DEF TypeOK, PassRecord
  <2>3. m \in pass[n].left /\ UNCHANGED <<copy, changes, calm>> /\ pass[n].at = "asking"
    BY <1>2 DEF Ask
  <2>4. Tethered(n)'
    BY <2>1, <2>3 DEF Good, Tethered
  <2>5. ASSUME calm[n], NEW k \in pass'[n].reached
        PROVE  pass'[n].seen[k] = ManifestOf(k)'
    <3>1. CASE k = m
      BY <2>1, <2>2, <2>3, <3>1 DEF ManifestOf
    <3>2. CASE k # m
      <4>1. k \in pass[n].reached /\ pass[n].seen[k] = ManifestOf(k)
        BY <2>1, <2>3, <2>5, <3>2 DEF Good, StillSo
      <4> QED BY <2>1, <2>2, <2>3, <3>2, <4>1 DEF ManifestOf
    <3> QED BY <3>1, <3>2
  <2> QED BY <2>1, <2>3, <2>4, <2>5 DEF Good, StillSo, Ready, Telling
<1>3. ASSUME NEW m \in Node, AskFails(n, m) PROVE Good(n)'
  <2>1. /\ pass'[n].at = "asking" /\ pass'[n].left = pass[n].left \ {m}
        /\ pass'[n].reached = pass[n].reached /\ pass'[n].seen = pass[n].seen
        /\ pass'[n].from = pass[n].from /\ pass'[n].push = pass[n].push
        /\ pass'[n].drop = pass[n].drop
    BY <1>3 DEF AskFails, TypeOK, PassRecord
  <2>2. UNCHANGED <<copy, changes, calm>> /\ pass[n].at = "asking"
    BY <1>3 DEF AskFails
  <2> QED BY <2>1, <2>2 DEF Good, Tethered, StillSo, Ready, Telling, ManifestOf
<1> QED BY <1>1, <1>2, <1>3

(* Whatever _inward() finds to do, or not to do, follows from what it read. *)
LEMMA GoodInward ==
    ASSUME TypeOK, NEW n \in Node, Good(n), Inward(n)
    PROVE  Good(n)'
<1> DEFINE p == pass[n]
           mine == ManifestOf(n)
<1>1. UNCHANGED <<copy, changes, calm>> /\ p.at = "asking" /\ p \in PassRecord
  BY DEF Inward, TypeOK
<1>2. \A m \in p.reached : m \in Node /\ changes[m].at \in Int /\ changes[n].at \in Int
  BY <1>1, BoundsAssumption DEF TypeOK, Entry, PassRecord
<1>3. CASE mine.copy = None /\ Holders(p) # {} /\ ~DeletionIsNewer(mine, p)
  <2>1. pass'[n] = [p EXCEPT !.at = "pulling", !.from = NewestCopy(p)]
    BY <1>3 DEF Inward, TypeOK
  <2>2. /\ pass'[n].at = "pulling" /\ pass'[n].from \subseteq p.reached
        /\ pass'[n].left = p.left /\ pass'[n].reached = p.reached /\ pass'[n].seen = p.seen
        /\ pass'[n].push = p.push /\ pass'[n].drop = p.drop
    BY <1>1, <2>1 DEF PassRecord, NewestCopy, Holders
  <2> QED
    BY <1>1, <1>3, <2>2 DEF Good, Tethered, StillSo, Ready, Telling, ManifestOf
<1>4. CASE /\ ~(mine.copy = None /\ Holders(p) # {} /\ ~DeletionIsNewer(mine, p))
           /\ mine.copy # None /\ BuriedSince(mine, p)
  <2>1. pass'[n] = [p EXCEPT !.at = "removing"]
    BY <1>4 DEF Inward, TypeOK
  <2>2. /\ pass'[n].at = "removing" /\ pass'[n].from = p.from
        /\ pass'[n].left = p.left /\ pass'[n].reached = p.reached /\ pass'[n].seen = p.seen
        /\ pass'[n].push = p.push /\ pass'[n].drop = p.drop
    BY <1>1, <2>1 DEF PassRecord
  <2> QED
    BY <1>1, <1>4, <2>2 DEF Good, Tethered, StillSo, Ready, Telling, ManifestOf
<1>5. CASE /\ ~(mine.copy = None /\ Holders(p) # {} /\ ~DeletionIsNewer(mine, p))
           /\ ~(mine.copy # None /\ BuriedSince(mine, p))
  <2>1. pass'[n] = [p EXCEPT !.at = "settling"]
    BY <1>5 DEF Inward, TypeOK
  <2>2. /\ pass'[n].at = "settling" /\ pass'[n].from = p.from
        /\ pass'[n].left = p.left /\ pass'[n].reached = p.reached /\ pass'[n].seen = p.seen
        /\ pass'[n].push = p.push /\ pass'[n].drop = p.drop
    BY <1>1, <2>1 DEF PassRecord
  <2>3. ASSUME calm[n], NEW m \in p.reached
        PROVE  /\ copy[n] # None /\ copy[m] = None /\ changes[m].deleted
                     => changes[m].at <= changes[n].at
               /\ copy[n] = None /\ copy[m] # None
                     => changes[n].deleted /\ changes[m].at <= changes[n].at
    <3>1. p.seen[m] = ManifestOf(m)
      BY <1>1, <2>3 DEF Good, StillSo
    <3>2. CASE copy[n] # None /\ copy[m] = None /\ changes[m].deleted
      <4>1. m \in Buriers(p)
        BY <3>1, <3>2 DEF Buriers, ManifestOf
      <4>2. ~(p.seen[m].entry.at > mine.entry.at)
        BY <1>5, <3>2, <4>1 DEF BuriedSince, ManifestOf
      <4> QED BY <1>2, <3>1, <3>2, <4>2 DEF ManifestOf
    <3>3. CASE copy[n] = None /\ copy[m] # None
      <4>1. m \in Holders(p)
        BY <3>1, <3>3 DEF Holders, ManifestOf
      <4>2. DeletionIsNewer(mine, p)
        BY <1>5, <3>3, <4>1 DEF ManifestOf
      <4>3. mine.entry.deleted /\ mine.entry.at >= p.seen[m].entry.at
        BY <4>1, <4>2 DEF DeletionIsNewer
      <4> QED BY <1>2, <3>1, <3>3, <4>3 DEF ManifestOf
    <3> QED BY <3>2, <3>3
  <2> QED
    BY <1>1, <2>2, <2>3 DEF Good, Tethered, StillSo, Ready, Telling, ManifestOf
<1> QED BY <1>3, <1>4, <1>5

(* What this node has just adopted or dropped is stamped no earlier than
   anything it read, so _outward() will act on it everywhere. *)
LEMMA GoodApplied ==
    ASSUME TypeOK, StampsArePast, NEW n \in Node, Good(n),
           \/ \E m \in Node : Pull(n, m) \/ PullFails(n, m)
           \/ Remove(n)
    PROVE  Good(n)'
<1>1. pass[n] \in PassRecord /\ pass[n].at \in {"pulling", "removing"}
  BY DEF TypeOK, Pull, PullFails, Remove
<1>2. /\ pass'[n].at = "settling" /\ pass'[n].from = {}
      /\ pass'[n].left = pass[n].left /\ pass'[n].reached = pass[n].reached
      /\ pass'[n].seen = pass[n].seen
      /\ pass'[n].push = pass[n].push /\ pass'[n].drop = pass[n].drop
  <2>1. Applied(n)
    BY DEF Pull, PullFails, Remove
  <2> QED BY <1>1, <2>1 DEF Applied, TypeOK, PassRecord
<1>3. Tethered(n)'
  BY <1>2 DEF Good, Tethered
<1>4. CASE ~calm'[n]
  BY <1>2, <1>3, <1>4 DEF Good
<1>5. CASE calm'[n]
  <2>1. ASSUME NEW m \in Node, PullFails(n, m) PROVE FALSE
    BY <1>5, <2>1 DEF PullFails, Spoils, TypeOK
  <2>2. calm[n]
    BY <1>5, <2>1 DEF Pull, Remove, DisturbsOthers, TypeOK
  <2>3. \A m \in pass[n].reached : m \in Node \ {n} /\ pass[n].seen[m] = ManifestOf(m)
    BY <1>1, <2>2 DEF Good, Tethered, StillSo, PassRecord
  <2>4. \/ Saved(n, copy'[n]) /\ copy'[n] # None
        \/ Removed(n) /\ copy[n] # None
    <3>1. CASE Remove(n)
      BY <2>2, <3>1 DEF Remove, Good, Ready
    <3>2. ASSUME NEW m \in Node, Pull(n, m)
          PROVE  Saved(n, copy'[n]) /\ copy'[n] # None
      <4>1. copy'[n] = copy[m] /\ copy[m] # None /\ Saved(n, copy[m])
        BY <3>2 DEF Pull, Saved, TypeOK
      <4> QED BY <4>1
    <3> QED BY <2>1, <3>1, <3>2
  <2>5. \A m \in pass[n].reached : copy'[m] = copy[m]
    BY <2>3, <2>4 DEF Saved, Removed, TypeOK
  <2>6. \E d \in BOOLEAN : Stamped(n, d) /\ (copy'[n] = None <=> d)
    <3>1. CASE Saved(n, copy'[n]) /\ copy'[n] # None
      BY <3>1 DEF Saved
    <3>2. CASE Removed(n) /\ copy[n] # None
      BY <3>2 DEF Removed, TypeOK
    <3> QED BY <2>4, <3>1, <3>2
  <2>7. PICK d \in BOOLEAN : Stamped(n, d) /\ (copy'[n] = None <=> d)
    BY <2>6
  <2>8. /\ now' >= now /\ now' \in 1..MaxTime
        /\ changes'[n] = [at |-> now', deleted |-> d]
        /\ \A m \in Node \ {n} : changes'[m] = changes[m]
    BY <2>7, StampedType
  <2>9. ASSUME NEW m \in pass[n].reached
        PROVE  changes'[m] = changes[m] /\ changes'[m].at <= changes'[n].at
    <3>1. changes'[m] = changes[m] /\ changes[m].at <= now /\ changes'[n].at = now'
      BY <2>3, <2>8 DEF StampsArePast
    <3>2. changes[m].at \in Int /\ now \in Int /\ now' \in Int
      BY <2>3, <2>8, BoundsAssumption DEF TypeOK, Entry
    <3> QED BY <2>8, <3>1, <3>2
  <2>10. StillSo(n)'
    BY <1>2, <2>3, <2>5, <2>9 DEF StillSo, ManifestOf
  <2>11. Ready(n)'
    BY <1>2, <2>7, <2>8, <2>9 DEF Ready
  <2> QED BY <1>2, <1>3, <2>10, <2>11 DEF Good, Telling
<1> QED BY <1>4, <1>5

(* What _outward() plans, and then does, is what there is to do. *)
LEMMA GoodSettle ==
    ASSUME TypeOK, NEW n \in Node, Good(n), Settle(n)
    PROVE  Good(n)'
<1> DEFINE p == pass[n]
           mine == ManifestOf(n)
<1>1. p \in PassRecord /\ UNCHANGED <<copy, changes, calm>> /\ p.at = "settling"
  BY DEF TypeOK, Settle
<1>2. /\ pass'[n].at = "telling" /\ pass'[n].from = p.from
      /\ pass'[n].left = p.left /\ pass'[n].reached = p.reached
      /\ pass'[n].push = Behind(mine, p) /\ pass'[n].drop = Outlived(mine, p)
  BY <1>1 DEF Settle, TypeOK, PassRecord
<1>3. Behind(mine, p) \subseteq p.reached /\ Outlived(mine, p) \subseteq p.reached
  BY DEF Behind, Outlived
<1>4. Tethered(n)'
  BY <1>2, <1>3 DEF Good, Tethered
<1>5. ASSUME calm[n], NEW m \in p.reached
      PROVE  /\ m \in Behind(mine, p) <=> copy[n] # None /\ copy[m] = None
             /\ m \in Outlived(mine, p) <=> copy[n] = None /\ copy[m] # None
  <2>1. p.seen[m].copy = copy[m] /\ p.seen[m].entry = changes[m] /\ m \in Node
    <3>1. p.seen[m] = ManifestOf(m)
      BY <1>1, <1>5 DEF Good, StillSo
    <3> QED BY <1>1, <3>1 DEF ManifestOf, PassRecord
  <2>2. mine.copy = copy[n] /\ mine.entry = changes[n]
    BY DEF ManifestOf
  <2>3. changes[m].at \in Int /\ changes[n].at \in Int
    BY <2>1, BoundsAssumption DEF TypeOK, Entry
  <2>4. /\ copy[n] # None /\ copy[m] = None /\ changes[m].deleted
              => changes[m].at <= changes[n].at
        /\ copy[n] = None /\ copy[m] # None
              => changes[n].deleted /\ changes[m].at <= changes[n].at
    BY <1>1, <1>5 DEF Good, Ready
  <2>5. m \in Behind(mine, p) <=> copy[n] # None /\ copy[m] = None
    BY <2>1, <2>2, <2>3, <2>4 DEF Behind
  <2>6. m \in Outlived(mine, p) <=> copy[n] = None /\ copy[m] # None
    BY <2>1, <2>2, <2>3, <2>4 DEF Outlived
  <2> QED BY <2>5, <2>6
<1>6. calm[n] => Telling(n)'
  BY <1>1, <1>2, <1>5 DEF Telling, Level
<1> QED BY <1>1, <1>2, <1>4, <1>6 DEF Good, StillSo, Ready

LEMMA ToldFields ==
    ASSUME TypeOK, NEW n \in Node, NEW m \in Node, Told(n, m)
    PROVE  /\ pass'[n].at = pass[n].at /\ pass'[n].left = pass[n].left
           /\ pass'[n].reached = pass[n].reached /\ pass'[n].from = pass[n].from
           /\ pass'[n].push = pass[n].push \ {m} /\ pass'[n].drop = pass[n].drop \ {m}
BY DEF Told, TypeOK, PassRecord

LEMMA GoodTelling ==
    ASSUME TypeOK, NEW n \in Node, Good(n),
           NEW m \in Node, NothingToPush(n, m) \/ Tell(n, m) \/ TellFails(n, m)
    PROVE  Good(n)'
<1>1. Told(n, m) /\ pass[n].at = "telling" /\ m \in pass[n].push \cup pass[n].drop
  BY DEF NothingToPush, Tell, TellFails
<1>2. /\ pass'[n].at = "telling" /\ pass'[n].left = pass[n].left
      /\ pass'[n].reached = pass[n].reached /\ pass'[n].from = pass[n].from
      /\ pass'[n].push = pass[n].push \ {m} /\ pass'[n].drop = pass[n].drop \ {m}
  BY <1>1, ToldFields
<1>3. Tethered(n)'
  BY <1>2 DEF Good, Tethered
<1>4. CASE ~calm'[n]
  BY <1>2, <1>3, <1>4 DEF Good
<1>5. CASE calm'[n]
  <2>1. Tell(n, m) \/ NothingToPush(n, m)
    BY <1>5 DEF TellFails, Spoils, TypeOK
  <2>2. calm[n]
    BY <1>5, <2>1 DEF Tell, NothingToPush, DisturbsOthers, TypeOK
  <2>3. m \in pass[n].reached /\ m # n
    BY <1>1 DEF Good, Tethered
  <2>4. Tell(n, m)
    BY <1>1, <2>1, <2>2, <2>3 DEF NothingToPush, PushBody, Good, Telling
  <2>5. \/ m \in pass[n].push /\ Saved(m, copy[n]) /\ copy[n] # None
        \/ m \in pass[n].drop /\ Removed(m) /\ copy[n] = None
    BY <1>1, <2>2, <2>3, <2>4 DEF Tell, PushBody, Good, Telling
  <2>6. /\ copy'[m] = None <=> copy[n] = None
        /\ \A k \in Node \ {m} : copy'[k] = copy[k]
    BY <2>5 DEF Saved, Removed, TypeOK
  <2>7. ASSUME NEW k \in pass[n].reached
        PROVE  /\ k \in pass'[n].push => copy'[k] = None /\ copy'[n] # None
               /\ k \in pass'[n].drop => copy'[k] # None /\ copy'[n] = None
               /\ k \notin pass'[n].push \cup pass'[n].drop => Level(n, k)'
    <3>1. k \in Node /\ copy'[n] = copy[n]
      BY <2>3, <2>6 DEF TypeOK, PassRecord
    <3>2. CASE k = m
      BY <1>2, <2>6, <3>1, <3>2 DEF Level
    <3>3. CASE k # m
      BY <1>1, <1>2, <2>2, <2>6, <3>1, <3>3 DEF Good, Telling, Level
    <3> QED BY <3>2, <3>3
  <2>8. Telling(n)'
    BY <1>2, <2>7 DEF Telling
  <2> QED BY <1>2, <1>3, <2>8 DEF Good, StillSo, Ready
<1> QED BY <1>4, <1>5

LEMMA GoodEnd ==
    ASSUME TypeOK, NEW n \in Node, Good(n), EndPass(n)
    PROVE  Good(n)'
<1>1. /\ pass[n].at = "telling" /\ pass[n].push = {} /\ pass[n].drop = {}
      /\ pass'[n] = Over(pass[n].reached) /\ UNCHANGED <<copy, changes, calm>>
  BY DEF EndPass, TypeOK
<1>2. /\ pass'[n].at = "over" /\ pass'[n].left = {} /\ pass'[n].reached = pass[n].reached
      /\ pass'[n].from = {} /\ pass'[n].push = {} /\ pass'[n].drop = {}
  BY <1>1 DEF Over, Idle
<1>3. calm[n] => \A m \in pass[n].reached : Level(n, m)
  BY <1>1 DEF Good, Telling
<1>4. Tethered(n)'
  BY <1>2 DEF Good, Tethered
<1> QED BY <1>1, <1>2, <1>3, <1>4 DEF Good, StillSo, Ready, Telling, Level

LEMMA GoodPass ==
    ASSUME TypeOK, StampsArePast, \A k \in Node : Good(k), NEW n \in Node, Pass(n)
    PROVE  \A k \in Node : Good(k)'
<1>1. Good(n)'
  BY GoodAsking, GoodInward, GoodApplied, GoodSettle, GoodTelling, GoodEnd DEF Pass
<1>2. \A k \in Node \ {n} : Good(k)'
  BY GoodOtherPass
<1> QED BY <1>1, <1>2

LEMMA SettleInit == Init => SettleInv
<1> SUFFICES ASSUME Init PROVE SettleInv
  OBVIOUS
<1>1. TypeOK
  BY TypeInit
<1>2. StampsArePast
  <2>1. PICK reached \in SUBSET Node :
            changes = [n \in Node |-> IF n \in reached THEN [at |-> 1, deleted |-> FALSE]
                                     ELSE NoEntry]
    BY DEF Init
  <2>2. \A n \in Node : changes[n].at \in {0, 1}
    BY <2>1 DEF NoEntry
  <2>3. now = 1
    BY DEF Init
  <2>4. ASSUME NEW n \in Node PROVE changes[n].at <= now
    <3>1. changes[n].at = 0 \/ changes[n].at = 1
      BY <2>2
    <3> QED BY <2>3, <3>1
  <2> QED BY <2>4 DEF StampsArePast
<1>3. \A k \in Node : Good(k)
  BY DEF Init, Good, Tethered, Idle
<1> QED BY <1>1, <1>2, <1>3, SettleParts

LEMMA SettleStep == SettleInv /\ [Next]_vars => SettleInv'
<1> SUFFICES ASSUME SettleInv, [Next]_vars PROVE SettleInv'
  OBVIOUS
<1>1. TypeOK /\ StampsArePast /\ \A k \in Node : Good(k)
  BY SettleParts
<1>2. TypeOK' /\ StampsArePast'
  BY <1>1, TypeStep, StampsStep
<1>3. \A k \in Node : Good(k)'
  <2>1. CASE UNCHANGED vars
    BY <1>1, <2>1, Frame DEF vars
  <2>2. CASE Next
    BY <1>1, <2>2, GoodPass, GoodElsewhere DEF Next
  <2> QED BY <2>1, <2>2
<1>4. SettleInv' <=> TypeOK' /\ StampsArePast' /\ \A k \in Node : Good(k)'
  BY DEF SettleInv, StampsArePast, Good, PassLevels
<1> QED BY <1>2, <1>3, <1>4

(* The invariant of every reconciliation pass (cluster.py, _reconcile_pass). *)
THEOREM Settles == Spec => []SettleInv
BY SettleInit, SettleStep, PTL DEF Spec

(* A pass that nobody disturbed leaves the members it reached level: all hold
   the definition or none does. *)
THEOREM PassesLevel == Spec => []PassLevels
<1>1. SettleInv => PassLevels
  BY DEF SettleInv
<1> QED BY <1>1, Settles, PTL

-----------------------------------------------------------------------------
(* What a step may never do.                                               *)

OverwritesNothing ==
    \A n \in Node : calm[n] /\ calm'[n] =>
        \A m \in Node : copy[m] # None /\ copy'[m] # None => copy'[m] = copy[m]

LEMMA OverwriteStep == SettleInv /\ [Next]_vars => OverwritesNothing
<1> SUFFICES ASSUME SettleInv, [Next]_vars,
                    NEW n \in Node, calm[n], calm'[n],
                    NEW m \in Node, copy[m] # None, copy'[m] # None
             PROVE  copy'[m] = copy[m]
  BY DEF OverwritesNothing
<1>1. TypeOK /\ Good(n)
  BY SettleParts
<1>2. ASSUME NEW k \in Node, People(k) \/ Process(k) PROVE copy' = copy
  BY <1>2 DEF People, Process, Save, Propagate, Delete, DeleteHere, Off, TornSave,
              TornDelete, On, Disturbs
<1>3. ASSUME NEW c \in calls, Receive(c) \/ Lose(c) PROVE copy' = copy
  BY <1>3 DEF Receive, Lose, Disturbs
<1>4. ASSUME NEW k \in Node, NEW l \in Node, Tell(k, l) PROVE copy'[m] = copy[m]
  <2>1. k = n /\ pass[n].at = "telling"
    BY <1>4 DEF Tell, DisturbsOthers
  <2>2. \/ l \in pass[n].push /\ copy[l] = None /\ \E b : copy' = [copy EXCEPT ![l] = b]
        \/ copy' = [copy EXCEPT ![l] = None]
    BY <1>1, <1>4, <2>1 DEF Tell, Saved, Removed, Good, Tethered, Telling
  <2> QED BY <1>1, <2>2 DEF TypeOK
<1>5. ASSUME NEW k \in Node, NEW l \in Node, Pull(k, l) PROVE copy'[m] = copy[m]
  <2>1. k = n /\ pass[n].at = "pulling" /\ copy' = [copy EXCEPT ![n] = copy[l]]
    BY <1>5 DEF Pull, DisturbsOthers, Saved
  <2>2. copy[n] = None
    BY <1>1, <2>1 DEF Good, Ready
  <2> QED BY <1>1, <2>1, <2>2 DEF TypeOK
<1>6. ASSUME NEW k \in Node, Remove(k) PROVE copy'[m] = copy[m]
  BY <1>1, <1>6 DEF Remove, Removed, TypeOK
<1>7. ASSUME NEW k \in Node, Pass(k) PROVE copy'[m] = copy[m]
  BY <1>4, <1>5, <1>6, <1>7
     DEF Pass, StartPass, Inward, Settle, EndPass, Ask, AskFails, PullFails,
         NothingToPush, TellFails
<1>8. CASE UNCHANGED vars
  BY <1>8 DEF vars
<1> QED BY <1>2, <1>3, <1>7, <1>8 DEF Next

(* A difference between two members that both hold the definition is left to a
   person by every undisturbed pass (cluster.py, _conflicts). *)
THEOREM ConflictsLeft == Spec => ConflictsAreLeft
<1>1. SettleInv /\ [Next]_vars => [OverwritesNothing]_vars
  BY OverwriteStep
<1> QED BY <1>1, Settles, PTL DEF Spec, ConflictsAreLeft, OverwritesNothing

StaysGone ==
    /\ \A n \in Node : copy[n] = None
    /\ \A c \in calls : c.act = "drop"
    /\ edits' = edits
    => \A n \in Node : copy'[n] = None

LEMMA GoneStep == TypeOK /\ [Next]_vars => StaysGone
<1> SUFFICES ASSUME TypeOK, [Next]_vars,
                    \A n \in Node : copy[n] = None, \A c \in calls : c.act = "drop",
                    edits' = edits,
                    NEW n \in Node
             PROVE  copy'[n] = None
  BY DEF StaysGone
<1>1. ASSUME NEW k \in Node, Removed(k) PROVE copy'[n] = None
  BY <1>1 DEF Removed, TypeOK
<1>2. ASSUME NEW k \in Node, People(k) PROVE copy'[n] = None
  <2>1. ~Save(k)
    BY BoundsAssumption DEF Save, TypeOK
  <2> QED BY <1>2, <2>1 DEF People, Propagate, Delete, DeleteHere
<1>3. ASSUME NEW k \in Node, Process(k) PROVE copy'[n] = None
  <2>1. ~TornSave(k)
    BY BoundsAssumption DEF TornSave, TypeOK
  <2> QED BY <1>3, <2>1 DEF Process, Off, TornDelete, On
<1>4. ASSUME NEW k \in Node, Pass(k) PROVE copy'[n] = None
  <2>1. ASSUME NEW m \in Node, Tell(k, m) PROVE copy'[n] = None
    BY <1>1, <2>1 DEF Tell, PushBody
  <2>2. ASSUME NEW m \in Node, Pull(k, m) PROVE FALSE
    BY <2>2 DEF Pull
  <2> QED
    BY <1>1, <1>4, <2>1, <2>2
       DEF Pass, StartPass, Inward, Remove, Settle, EndPass, Ask, AskFails, PullFails,
           NothingToPush, TellFails
<1>5. ASSUME NEW c \in calls, Receive(c) \/ Lose(c) PROVE copy'[n] = None
  <2>1. c.to \in Node /\ c.act = "drop"
    BY DEF TypeOK, Call
  <2> QED BY <1>1, <1>5, <2>1 DEF Receive, Lose
<1>6. CASE UNCHANGED vars
  BY <1>6 DEF vars
<1> QED BY <1>2, <1>3, <1>4, <1>5, <1>6 DEF Next

(* No pass and no deletion under way brings back a definition that no member
   holds: only a person does (cluster.py, _fetch_artifact and _push read what
   is there when they act). *)
THEOREM GoneStaysGone == Spec => GoneIsGone
<1>1. TypeOK /\ [Next]_vars => [StaysGone]_vars
  BY GoneStep
<1> QED BY <1>1, TypeCorrect, PTL DEF Spec, GoneIsGone, StaysGone
=============================================================================
