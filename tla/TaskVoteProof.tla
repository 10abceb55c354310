--------------------------- MODULE TaskVoteProof ---------------------------
(***************************************************************************)
(* Proofs about TaskVote: an occurrence is started at most once, for every *)
(* set of members, as long as no clock is set back across the slot and at  *)
(* most one node joins the cluster meanwhile.                              *)
(***************************************************************************)
EXTENDS TaskVote, FiniteSetTheorems, TLAPS

USE DEF early, due, late, expired

(***************************************************************************)
(* Two strict majorities meet, also when one was counted before and one    *)
(* after a single node joined (tasks.py, _negotiate: "two majorities       *)
(* always share a member").                                                *)
(***************************************************************************)
LEMMA QuorumsMeet ==
    ASSUME Cardinality(Node \ Founders) <= 1,
           NEW V \in SUBSET Node, NEW W \in SUBSET Node,
           Founders \subseteq V, Founders \subseteq W,
           NEW P \in SUBSET V, NEW Q \in SUBSET W,
           Majority(P, V), Majority(Q, W)
    PROVE  P \cap Q # {}
<1> SUFFICES ASSUME P \cap Q = {} PROVE FALSE
  OBVIOUS
<1>1. IsFiniteSet(Node) /\ Founders \subseteq Node
  BY FoundersAssumption
<1>2. /\ IsFiniteSet(V) /\ IsFiniteSet(W) /\ IsFiniteSet(Founders)
      /\ IsFiniteSet(Node \ Founders)
  BY <1>1, FS_Subset
<1>3. IsFiniteSet(P) /\ IsFiniteSet(Q) /\ IsFiniteSet(P \cup Q)
  BY <1>2, FS_Subset, FS_Union
<1>4. /\ Cardinality(V) \in Nat /\ Cardinality(W) \in Nat /\ Cardinality(Founders) \in Nat
      /\ Cardinality(P) \in Nat /\ Cardinality(Q) \in Nat /\ Cardinality(P \cup Q) \in Nat
      /\ Cardinality(Node) \in Nat
  BY <1>1, <1>2, <1>3, FS_CardinalityType
<1>5. Cardinality(P \cup Q) = Cardinality(P) + Cardinality(Q)
  <2>1. Cardinality(P \cup Q) = Cardinality(P) + Cardinality(Q) - Cardinality(P \cap Q)
    BY <1>3, FS_Union
  <2>2. Cardinality(P \cap Q) = 0
    BY FS_EmptySet
  <2> QED BY <2>1, <2>2, <1>4
<1>6. Cardinality(P) > Cardinality(V) \div 2 /\ Cardinality(Q) > Cardinality(W) \div 2
  BY DEF Majority
<1>7. CASE V = W
  <2>1. Cardinality(P \cup Q) <= Cardinality(V)
    BY <1>2, <1>7, FS_Subset
  <2> QED BY <1>4, <1>5, <1>6, <1>7, <2>1
<1>8. CASE V # W
  <2>1. PICK x \in Node : x \notin Founders
    BY <1>8
  <2>2. Node \ Founders = {x}
    <3>1. Cardinality({x}) = 1 /\ IsFiniteSet({x})
      BY FS_Singleton
    <3>2. Cardinality({x}) <= Cardinality(Node \ Founders)
      BY <1>2, <2>1, FS_Subset
    <3>3. Cardinality(Node \ Founders) \in Nat
      BY <1>2, FS_CardinalityType
    <3>4. Cardinality({x}) = Cardinality(Node \ Founders)
      BY <3>1, <3>2, <3>3
    <3> QED BY <3>4, <1>2, <2>1, FS_Subset
  <2>3. (V = Founders /\ W = Founders \cup {x}) \/ (W = Founders /\ V = Founders \cup {x})
    BY <1>8, <2>2
  <2>4. Cardinality(Founders \cup {x}) = Cardinality(Founders) + 1
    BY <1>2, <2>1, FS_AddElement
  <2>5. IsFiniteSet(Founders \cup {x}) /\ P \cup Q \subseteq Founders \cup {x}
    BY <1>2, <2>3, FS_AddElement
  <2>6. Cardinality(P \cup Q) <= Cardinality(Founders) + 1
    BY <2>4, <2>5, FS_Subset
  <2>7. Cardinality(P) + Cardinality(Q)
            > (Cardinality(Founders) \div 2) + ((Cardinality(Founders) + 1) \div 2) + 1
    <3>1. CASE V = Founders
      <4>1. Cardinality(W) = Cardinality(Founders) + 1
        BY <1>8, <2>3, <2>4, <3>1
      <4> QED BY <1>4, <1>6, <3>1, <4>1
    <3>2. CASE W = Founders
      <4>1. Cardinality(V) = Cardinality(Founders) + 1
        BY <1>8, <2>3, <2>4, <3>2
      <4> QED BY <1>4, <1>6, <3>2, <4>1
    <3> QED BY <2>3, <3>1, <3>2
  <2>8. Cardinality(P) + Cardinality(Q) <= Cardinality(Founders) + 1
    BY <1>5, <2>6
  <2>9. \A f \in Nat : (f \div 2) + ((f + 1) \div 2) = f
    OBVIOUS
  <2> QED BY <1>4, <2>7, <2>8, <2>9
<1> QED BY <1>7, <1>8
-----------------------------------------------------------------------------
(* Type correctness. *)

\* A node that stands has counted the try, so its calls carry a proper number.
TriesCounted == \A n \in Node : stage[n] \in {"waiting", "asking"} => tries[n] > 0

\* One step keeps every variable's type.
LEMMA TypeStep == TypeOK /\ TriesCounted /\ [Next]_vars => TypeOK'
<1> SUFFICES ASSUME TypeOK, TriesCounted, [Next]_vars PROVE TypeOK'
  OBVIOUS
<1> USE BoundsAssumption
<1>1. ASSUME NEW n \in Node, ClockPasses(n) PROVE TypeOK'
  BY <1>1 DEF TypeOK, ClockPasses, Clock
<1>2. ASSUME NEW n \in Node, ClockStepsBack(n) PROVE TypeOK'
  BY <1>2 DEF TypeOK, ClockStepsBack, Clock
<1>3. ASSUME NEW n \in Node, Restart(n) PROVE TypeOK'
  BY <1>3 DEF TypeOK, Restart, ProcessStarts, Upcoming, FreshEntry, Stage, Unasked, Answer
<1>4. ASSUME NEW n \in Node, ScheduleEdited(n) PROVE TypeOK'
  BY <1>4 DEF TypeOK, ScheduleEdited, Upcoming, FreshEntry
<1>5. ASSUME NEW c \in Node, NEW j \in Node, Enroll(c, j) PROVE TypeOK'
  BY <1>5 DEF TypeOK, Enroll, Upcoming, FreshEntry
<1>6. ASSUME NEW n \in Node, NEW m \in Node, Announce(n, m) PROVE TypeOK'
  BY <1>6 DEF TypeOK, Announce
<1>7. ASSUME NEW n \in Node, SlotComes(n) PROVE TypeOK'
  <2>1. upcoming' \in [Node -> Upcoming]
    BY <1>7 DEF TypeOK, SlotComes, Upcoming
  <2>2. stage' \in [Node -> Stage]
    BY <1>7 DEF TypeOK, SlotComes, Stage
  <2>4. order' \in [Node -> SUBSET Node]
    <3>1. Eligible \cap members[n] \in SUBSET Node
      BY DEF TypeOK
    <3> QED BY <1>7, <3>1 DEF TypeOK, SlotComes
  <2>3. tries' \in [Node -> 0..MaxTries]
    BY <1>7 DEF TypeOK, SlotComes
  <2> QED BY <1>7, <2>1, <2>2, <2>3, <2>4 DEF TypeOK, SlotComes
<1>8. ASSUME NEW n \in Node, Decline(n) PROVE TypeOK'
  BY <1>8 DEF TypeOK, Decline, Ends, Unasked, Answer, Stage, Verdict
<1>9. ASSUME NEW n \in Node, Stand(n) PROVE TypeOK'
  <2>1. tries[n] \in 1..MaxTries /\ members[n] \subseteq Node
    BY <1>9 DEF TypeOK, Stand, TriesCounted
  <2>2. Calls("ask", n, members[n]) \subseteq Message
    BY <2>1 DEF Calls, Message
  <2>3. answer' \in [Node -> [Node -> Answer]]
    BY <1>9 DEF TypeOK, Stand, Answer
  <2>4. stage' \in [Node -> Stage] /\ voters' \in [Node -> SUBSET Node] /\ net' \subseteq Message
    BY <1>9, <2>1, <2>2 DEF TypeOK, Stand, Stage
  <2> QED BY <1>9, <2>3, <2>4 DEF TypeOK, Stand
<1>10. ASSUME NEW v \in Node, NEW m \in net, HandleAsk(v, m) PROVE TypeOK'
  <2>1. m.from \in Node /\ m.to = v
    BY <1>10 DEF TypeOK, HandleAsk, Message
  <2>2. ASSUME NEW a \in Answer, Reply(m, a) PROVE answer' \in [Node -> [Node -> Answer]]
    <3>1. [answer EXCEPT ![m.from][m.to] = a] \in [Node -> [Node -> Answer]]
      BY <2>1 DEF TypeOK
    <3>2. [answer EXCEPT ![m.from][m.to] = "failed"] \in [Node -> [Node -> Answer]]
      BY <2>1 DEF TypeOK, Answer
    <3>3. \/ answer' = [answer EXCEPT ![m.from][m.to] = a]
          \/ answer' = [answer EXCEPT ![m.from][m.to] = "failed"]
          \/ answer' = answer
      BY <2>2 DEF Reply
    <3> QED BY <3>1, <3>2, <3>3 DEF TypeOK
  <2>3. answer' \in [Node -> [Node -> Answer]]
    BY <1>10, <2>2 DEF HandleAsk, Answer
  <2>4. grants' \in [Node -> Node \cup {None}] /\ net' \subseteq Message
    BY <1>10, <2>1 DEF TypeOK, HandleAsk, Claim
  <2> QED BY <1>10, <2>3, <2>4 DEF TypeOK, HandleAsk
<1>11. ASSUME NEW v \in Node, DropExpired(v) PROVE TypeOK'
  BY <1>11 DEF TypeOK, DropExpired
<1>12. ASSUME NEW n \in Node, NEW v \in Node, CallFails(n, v) PROVE TypeOK'
  <2>1. net' \subseteq Message
    BY <1>12 DEF TypeOK, CallFails
  <2>2. answer' \in [Node -> [Node -> Answer]]
    BY <1>12 DEF TypeOK, CallFails, Answer
  <2> QED BY <1>12, <2>1, <2>2 DEF TypeOK, CallFails
<1>13. ASSUME NEW n \in Node, Win(n) PROVE TypeOK'
  <2>1. tries[n] \in 1..MaxTries
    BY <1>13 DEF TypeOK, Win, Ends, Answered, TriesCounted
  <2>2. voters[n] \in SUBSET Node /\ With(n, "granted") \in SUBSET Node
    BY DEF TypeOK, With
  <2>3. ran' \subseteq Run
    BY <1>13, <2>1, <2>2 DEF TypeOK, Win, Ends, Run
  <2>4. stage' \in [Node -> Stage] /\ verdict' \in [Node -> Verdict]
    BY <1>13 DEF TypeOK, Win, Ends, Stage, Verdict
  <2> QED BY <1>13, <2>3, <2>4 DEF TypeOK, Win, Ends, Unasked, Answer
<1>14. ASSUME NEW n \in Node, Lose(n) PROVE TypeOK'
  <2>1. tries[n] \in 1..MaxTries
    BY <1>14 DEF TypeOK, Lose, Ends, Answered, TriesCounted
  <2>2. With(n, "granted") \cup With(n, "failed") \subseteq Node
    BY DEF TypeOK, With
  <2>3. net' \subseteq Message
    BY <1>14, <2>1, <2>2 DEF TypeOK, Lose, Ends, Calls, Message
  <2>4. stage' \in [Node -> Stage] /\ verdict' \in [Node -> Verdict]
    BY <1>14 DEF TypeOK, Lose, Ends, Stage, Verdict
  <2> QED BY <1>14, <2>3, <2>4 DEF TypeOK, Lose, Ends, Unasked, Answer
<1>15. ASSUME NEW v \in Node, NEW m \in net, HandleRelease(v, m) PROVE TypeOK'
  BY <1>15 DEF TypeOK, HandleRelease, Released
<1>16. CASE UNCHANGED vars
  BY <1>16 DEF TypeOK, vars
<1> QED
  BY <1>1, <1>2, <1>3, <1>4, <1>5, <1>6, <1>7, <1>8, <1>9, <1>10, <1>11, <1>12,
     <1>13, <1>14, <1>15, <1>16 DEF Next

\* Every variable keeps its type, whatever the clocks and the joiners do.
THEOREM TypeCorrect == Spec => []TypeOK
<1> DEFINE Inv == TypeOK /\ TriesCounted
<1>1. Init => Inv
  BY FoundersAssumption, BoundsAssumption
  DEF Init, TypeOK, Clock, Upcoming, Stage, Answer, Verdict, Unasked, TriesCounted
<1>2. Inv /\ [Next]_vars => TypeOK'
  BY TypeStep
<1>3. Inv /\ [Next]_vars => TriesCounted'
  <2> SUFFICES ASSUME Inv, [Next]_vars, NEW n \in Node, stage'[n] \in {"waiting", "asking"}
               PROVE  tries'[n] > 0
    BY DEF TriesCounted
  <2>1. CASE \E k \in Node : SlotComes(k)
    BY <2>1, BoundsAssumption DEF TypeOK, TriesCounted, SlotComes
  <2>2. CASE \E k \in Node : Stand(k)
    BY <2>2 DEF TypeOK, TriesCounted, Stand
  <2>3. CASE \E k \in Node : Restart(k) \/ Decline(k) \/ Win(k) \/ Lose(k)
    BY <2>3 DEF TypeOK, TriesCounted, Restart, ProcessStarts, Decline, Win, Lose, Ends
  <2>4. CASE UNCHANGED <<stage, tries>>
    BY <2>4 DEF TriesCounted
  <2> QED
    BY <2>1, <2>2, <2>3, <2>4
    DEF Next, ClockPasses, ClockStepsBack, ScheduleEdited, Enroll, Announce, HandleAsk,
        DropExpired, CallFails, HandleRelease, vars
<1> QED
  BY <1>1, <1>2, <1>3, PTL DEF Spec
-----------------------------------------------------------------------------
(* The inductive invariant, conjunct by conjunct. *)

\* Without a clock set back, no step lets a node stand a second time.
LEMMA StandsOnceStep ==
    ASSUME Jumpy = {}, TypeOK, StandsOnce, [Next]_vars
    PROVE  StandsOnce'
<1> SUFFICES ASSUME NEW n \in Node
             PROVE  /\ tries'[n] > 0 => clock'[n] # early /\ upcoming'[n] # "armed"
                    /\ tries'[n] <= 1
                    /\ tries'[n] = 0 => stage'[n] = "idle" /\ \A m \in net' : m.from # n
  BY DEF StandsOnce
<1> USE DEF TypeOK, StandsOnce
<1>1. CASE \E k \in Node : ClockPasses(k)
  BY <1>1 DEF ClockPasses, Clock
<1>2. CASE \E k \in Node : Restart(k)
  BY <1>2 DEF Restart, ProcessStarts, FreshEntry
<1>3. CASE \E k \in Node : ScheduleEdited(k)
  BY <1>3 DEF ScheduleEdited, FreshEntry
<1>4. CASE \E c, j \in Node : Enroll(c, j)
  BY <1>4 DEF Enroll, FreshEntry
<1>5. CASE \E k \in Node : SlotComes(k)
  BY <1>5 DEF SlotComes
<1>6. CASE \E k \in Node : Decline(k)
  BY <1>6 DEF Decline, Ends
<1>7. CASE \E k \in Node : Stand(k)
  <2>1. PICK k \in Node : Stand(k)
    BY <1>7
  <2>2. \A m \in net' : m \in net \/ m.from = k
    BY <2>1 DEF Stand, Calls
  <2> QED BY <2>1, <2>2 DEF Stand
<1>8. CASE \E k \in Node : Win(k)
  BY <1>8 DEF Win, Ends, Answered
<1>9. CASE \E k \in Node : Lose(k)
  <2>1. PICK k \in Node : Lose(k)
    BY <1>9
  <2>2. \A m \in net' : m \in net \/ m.from = k
    BY <2>1 DEF Lose, Ends, Calls
  <2> QED BY <2>1, <2>2 DEF Lose, Ends, Answered
<1>10. CASE UNCHANGED <<clock, upcoming, stage, tries>> /\ net' \subseteq net
  BY <1>10
<1> QED
  BY <1>1, <1>2, <1>3, <1>4, <1>5, <1>6, <1>7, <1>8, <1>9, <1>10
  DEF Next, ClockStepsBack, Announce, HandleAsk, DropExpired, CallFails, HandleRelease, vars

\* A run is the last thing its node does for the occurrence, and a release is
\* the last thing a loser does.
LEMMA RunsAreFinalStep ==
    ASSUME TypeOK, StandsOnce, RunsAreFinal, [Next]_vars
    PROVE  RunsAreFinal'
<1> USE DEF TypeOK, StandsOnce, RunsAreFinal
<1>1. CASE \E k \in Node : Restart(k)
  BY <1>1 DEF Restart, ProcessStarts, Message, Run
<1>2. CASE \E k \in Node : SlotComes(k)
  BY <1>2 DEF SlotComes, Message, Run
<1>3. CASE \E k \in Node : Decline(k)
  BY <1>3 DEF Decline, Ends, Message, Run
<1>4. CASE \E k \in Node : Stand(k)
  <2>1. PICK k \in Node : Stand(k)
    BY <1>4
  <2>2. \A m \in net' : m \in net \/ m.type = "ask"
    BY <2>1 DEF Stand, Calls
  <2> QED BY <2>1, <2>2 DEF Stand, Message, Run
<1>5. CASE \E k \in Node : Win(k)
  <2>1. PICK k \in Node : Win(k)
    BY <1>5
  <2>2. tries[k] = 1 /\ stage[k] = "asking"
    <3>1. stage[k] = "asking"
      BY <2>1 DEF Win, Answered
    <3>2. k \in Node
      OBVIOUS
    <3>3. tries[k] \in 0..MaxTries
      BY <3>2 DEF TypeOK
    <3>4. tries[k] <= 1 /\ (tries[k] = 0 => stage[k] = "idle")
      BY <3>2 DEF StandsOnce
    <3> HIDE DEF TypeOK, StandsOnce, RunsAreFinal
    <3> QED BY <3>1, <3>3, <3>4, BoundsAssumption
  <2>3. \A r \in ran' : r \in ran \/ (r.node = k /\ r.try = 1)
    BY <2>1, <2>2 DEF Win, Ends
  <2> QED BY <2>1, <2>2, <2>3 DEF Win, Ends, Message, Run
<1>6. CASE \E k \in Node : Lose(k)
  <2>1. PICK k \in Node : Lose(k)
    BY <1>6
  <2>2. \A m \in net' : m \in net \/ m.from = k
    BY <2>1 DEF Lose, Ends, Calls
  <2>3. \A r \in ran : r.node # k
    BY <2>1 DEF Lose, Ends, Answered
  <2> QED BY <2>1, <2>2, <2>3 DEF Lose, Ends, Message, Run
<1>7. CASE UNCHANGED <<stage, tries, ran>> /\ net' \subseteq net
  BY <1>7
<1> QED
  BY <1>1, <1>2, <1>3, <1>4, <1>5, <1>6, <1>7
  DEF Next, ClockPasses, ClockStepsBack, ScheduleEdited, Enroll, Announce, HandleAsk,
      DropExpired, CallFails, HandleRelease, vars

\* A joiner learns of every founder from whoever lets it in.
LEMMA VotersCoverFoundersStep ==
    ASSUME TypeOK, VotersCoverFounders, [Next]_vars
    PROVE  VotersCoverFounders'
<1> USE FoundersAssumption DEF TypeOK, VotersCoverFounders, Joined
<1>1. CASE \E c, j \in Node : Enroll(c, j)
  <2>1. PICK c \in Node, j \in Node : Enroll(c, j)
    BY <1>1
  <2>2. /\ c # j /\ j \notin Founders /\ Founders \subseteq members[c]
        /\ members' = [members EXCEPT ![c] = members[c] \cup {j}, ![j] = members[c] \cup {j}]
    BY <2>1 DEF Enroll
  <2>3. \A n \in Node : Joined(n) => Joined(n)'
    BY <2>2
  <2>4. Joined(j)' /\ Joined(c)
    BY <2>1, <2>2 DEF Enroll
  <2>5. ASSUME NEW n \in Node
        PROVE  /\ n \in members'[n]
               /\ Joined(n)' => Founders \subseteq members'[n]
               /\ \A m \in members'[n] : m # n => Joined(m)'
    <3>1. CASE n = j
      <4>1. members'[n] = members[c] \cup {j}
        BY <2>2, <3>1
      <4>2. \A m \in members[c] : Joined(m)
        BY <2>4
      <4> QED BY <2>2, <2>3, <2>4, <3>1, <4>1, <4>2
    <3>2. CASE n = c
      <4>1. members'[n] = members[c] \cup {j} /\ c \in members[c]
        BY <2>2, <3>2
      <4>2. \A m \in members[c] : Joined(m)
        BY <2>4
      <4>3. \A m \in members[c] : m \in Node
        OBVIOUS
      <4> HIDE DEF Joined
      <4> QED BY <2>2, <2>3, <2>4, <3>2, <4>1, <4>2, <4>3
    <3>3. CASE n # j /\ n # c
      BY <2>2, <2>3, <3>3
    <3> QED BY <3>1, <3>2, <3>3
  <2>6. \A n \in Node : upcoming'[n] = "armed" \/ stage'[n] = "waiting" => Joined(n)'
    BY <2>1, <2>3, <2>4 DEF Enroll
  <2> QED BY <2>1, <2>5, <2>6 DEF Enroll
<1>2. CASE \E n, m \in Node : Announce(n, m)
  <2>1. PICK k \in Node, l \in Node : Announce(k, l)
    BY <1>2
  <2>2. /\ k # l /\ Joined(k) /\ Joined(l)
        /\ members' = [members EXCEPT ![l] = members[l] \cup {k},
                                      ![k] = members[k] \cup members[l] \cup {k}]
    BY <2>1 DEF Announce
  <2>3. \A n \in Node : members[n] \subseteq members'[n]
    BY <2>2
  <2>4. \A n \in Node : Joined(n) <=> Joined(n)'
    BY <2>2, <2>3
  <2>5. ASSUME NEW n \in Node
        PROVE  /\ n \in members'[n]
               /\ Joined(n)' => Founders \subseteq members'[n]
               /\ \A m \in members'[n] : m # n => Joined(m)'
    <3>1. \A m \in members'[n] : m \in members[n] \/ m = k \/ (n = k /\ m \in members[l])
      BY <2>2
    <3>2. Joined(n)' => Founders \subseteq members'[n]
      BY <2>3, <2>4
    <3>3. \A m \in members'[n] : m # n => Joined(m)'
      <4>1. \A m \in members[n] : m # n => Joined(m)
        OBVIOUS
      <4>2. \A m \in members[l] : Joined(m)
        BY <2>2
      <4>3. \A m \in members'[n] : m \in Node
        BY <2>2
      <4> HIDE DEF Joined
      <4> QED BY <2>2, <2>4, <3>1, <4>1, <4>2, <4>3
    <3> QED BY <2>3, <3>2, <3>3
  <2> QED BY <2>1, <2>4, <2>5 DEF Announce
<1>3. CASE \E k \in Node : Restart(k)
  BY <1>3 DEF Restart, ProcessStarts
<1>4. CASE \E k \in Node : ScheduleEdited(k)
  BY <1>4 DEF ScheduleEdited
<1>5. CASE \E k \in Node : SlotComes(k)
  BY <1>5 DEF SlotComes
<1>6. CASE \E k \in Node : Stand(k)
  BY <1>6 DEF Stand
<1>7. CASE \E k \in Node : Decline(k) \/ Lose(k)
  <2>1. UNCHANGED <<members, upcoming, ran>>
    BY <1>7 DEF Decline, Lose
  <2>2. \A n \in Node :
            /\ stage'[n] = "waiting" => stage[n] = "waiting"
            /\ stage'[n] = "asking" => stage[n] = "asking" /\ voters'[n] = voters[n]
    BY <1>7 DEF Decline, Lose, Ends
  <2> QED BY <2>1, <2>2
<1>8. CASE \E k \in Node : Win(k)
  <2>1. PICK k \in Node : Win(k)
    BY <1>8
  <2>2. \A r \in ran' : \/ r \in ran
                        \/ /\ Founders \subseteq r.of /\ r.by \subseteq r.of
                           /\ Majority(r.by, r.of)
    <3>1. Founders \subseteq voters[k] /\ With(k, "granted") \subseteq voters[k]
      BY <2>1 DEF Win, Ends, Answered, With
    <3>2. \A r \in ran' : \/ r \in ran
                          \/ /\ r.of = voters[k] /\ r.by = With(k, "granted")
                             /\ Majority(r.by, r.of)
      BY <2>1 DEF Win, Ends
    <3> QED BY <3>1, <3>2
  <2> QED BY <2>1, <2>2 DEF Win, Ends
<1>9. CASE UNCHANGED <<members, upcoming, stage, voters, ran>>
  BY <1>9
<1> QED
  BY <1>1, <1>2, <1>3, <1>4, <1>5, <1>6, <1>7, <1>8, <1>9
  DEF Next, ClockPasses, ClockStepsBack, HandleAsk, DropExpired, CallFails, HandleRelease, vars

\* Only an answered call can add to what a node counts on.
LEMMA BackingShrinks ==
    ASSUME TypeOK, [Next]_vars, ~\E v \in Node, m \in net : HandleAsk(v, m),
           NEW n \in Node
    PROVE  Backing(n)' \subseteq Backing(n)
<1> USE DEF TypeOK
<1>1. CASE UNCHANGED <<stage, voters, answer, ran>>
  BY <1>1 DEF Backing
<1>2. CASE \E k \in Node : Restart(k) \/ SlotComes(k) \/ Decline(k) \/ Lose(k)
  BY <1>2 DEF Backing, Restart, ProcessStarts, SlotComes, Decline, Lose, Ends
<1>3. CASE \E k \in Node : Stand(k)
  BY <1>3 DEF Backing, Stand
<1>4. CASE \E k, v \in Node : CallFails(k, v)
  BY <1>4 DEF Backing, CallFails
<1>5. CASE \E k \in Node : Win(k)
  <2>1. PICK k \in Node : Win(k)
    BY <1>5
  <2>2. \A r \in ran' : r \in ran \/ (r.node = k /\ r.by = With(k, "granted"))
    BY <2>1 DEF Win, Ends
  <2>3. With(k, "granted") \subseteq Backing(k)
    BY <2>1 DEF Win, Ends, Answered, With, Backing
  <2>4. ASSUME NEW v \in Backing(n)' PROVE v \in Backing(n)
    <3>1. CASE v \in voters'[n] /\ stage'[n] = "asking" /\ answer'[n][v] = "granted"
      BY <2>1, <3>1 DEF Win, Ends, Backing
    <3>2. CASE \E r \in ran' : r.node = n /\ v \in r.by
      BY <2>2, <2>3, <3>2 DEF Backing
    <3> QED BY <2>4, <3>1, <3>2 DEF Backing
  <2> QED BY <2>4
<1> QED
  BY <1>1, <1>2, <1>3, <1>4, <1>5
  DEF Next, ClockPasses, ClockStepsBack, ScheduleEdited, Enroll, Announce,
      DropExpired, HandleRelease, vars

\* What a member's answer adds: the member itself, to the caller it granted.
LEMMA BackingOfAnAnswer ==
    ASSUME TypeOK, NEW v \in Node, NEW m \in net, HandleAsk(v, m), NEW n \in Node,
           NEW w \in Backing(n)'
    PROVE  \/ w \in Backing(n)
           \/ /\ w = v /\ n = m.from /\ grants'[v] = n
              /\ clock[v] \notin {late, expired}
<1> USE DEF TypeOK
<1>1. m.from \in Node /\ m.to = v
  BY DEF HandleAsk, Message
<1>2. UNCHANGED <<stage, voters, ran, clock>>
  BY DEF HandleAsk
<1>3. CASE answer'[n][w] = "granted" => answer[n][w] = "granted"
  BY <1>2, <1>3 DEF Backing
<1>4. CASE answer'[n][w] = "granted" /\ answer[n][w] # "granted"
  <2>1. PICK a \in {"vetoed", "granted", "held"} :
            /\ Reply(m, a)
            /\ a = "granted" => grants'[v] = m.from /\ clock[v] \notin {late, expired}
    BY DEF HandleAsk, Claim, TooLate
  <2>2. \/ answer' = [answer EXCEPT ![m.from][v] = a]
        \/ answer' = [answer EXCEPT ![m.from][v] = "failed"]
        \/ answer' = answer
    BY <1>1, <2>1 DEF Reply
  <2>3. w \in Node
    BY <1>2 DEF Backing, Run
  <2>4. n = m.from /\ w = v /\ a = "granted"
    BY <1>1, <1>4, <2>2, <2>3
  <2> QED BY <2>1, <2>4
<1> QED BY <1>3, <1>4

\* A member that backs a node keeps the grant for it: it is not given to
\* another, and the node does not give it back.
LEMMA BackingIsHeldStep ==
    ASSUME Jumpy = {}, TypeOK, RunsAreFinal, BackingIsHeld, [Next]_vars
    PROVE  BackingIsHeld'
<1> SUFFICES ASSUME NEW n \in Node, NEW w \in Backing(n)'
             PROVE  grants'[w] = n \/ (clock'[w] = expired /\ grants'[w] = None)
  BY DEF BackingIsHeld
<1> USE NoneAssumption DEF TypeOK
<1>1. w \in Node
  <2>1. Backing(n) \subseteq Node
    BY DEF Backing, Run
  <2> QED BY <2>1, BackingShrinks, BackingOfAnAnswer
<1>2. CASE \E v \in Node, m \in net : HandleAsk(v, m)
  <2>1. PICK v \in Node, m \in net : HandleAsk(v, m)
    BY <1>2
  <2>2. CASE w \in Backing(n)
    <3>1. grants[w] = n \/ (clock[w] = expired /\ grants[w] = None)
      BY <2>2 DEF BackingIsHeld
    <3>2. grants'[w] = grants[w] \/ (grants[w] = None /\ clock[w] \notin {late, expired})
      BY <2>1, <1>1 DEF HandleAsk, Claim, TooLate
    <3> QED BY <2>1, <3>1, <3>2 DEF HandleAsk
  <2> QED BY <2>1, <2>2, BackingOfAnAnswer
<1>3. CASE ~\E v \in Node, m \in net : HandleAsk(v, m)
  <2>1. w \in Backing(n)
    BY <1>3, BackingShrinks
  <2>2. grants[w] = n \/ (clock[w] = expired /\ grants[w] = None)
    BY <2>1 DEF BackingIsHeld
  <2>3. CASE \E k \in Node : ClockPasses(k)
    BY <1>1, <2>2, <2>3 DEF ClockPasses, Clock
  <2>4. CASE \E v \in Node : DropExpired(v)
    BY <1>1, <2>2, <2>4 DEF DropExpired, GrantOver
  <2>5. CASE \E v \in Node, m \in net : HandleRelease(v, m)
    <3>1. PICK v \in Node, m \in net : HandleRelease(v, m)
      BY <2>5
    <3>2. m.from # n
      BY <2>1, <3>1 DEF RunsAreFinal, HandleRelease, Backing
    <3> QED BY <1>1, <2>2, <3>1, <3>2 DEF HandleRelease, Message, Released
  <2>6. CASE UNCHANGED <<clock, grants>>
    BY <2>2, <2>6
  <2> QED
    BY <1>3, <2>3, <2>4, <2>5, <2>6
    DEF Next, ClockStepsBack, Restart, ProcessStarts, ScheduleEdited, Enroll, Announce, SlotComes,
        Decline, Stand, CallFails, Win, Lose, Ends, vars
<1> QED BY <1>2, <1>3

\* No member comes to back a second node: the grant it holds for the first, or
\* its veto once that grant has expired, stands in the way.
LEMMA BackingIsExclusiveStep ==
    ASSUME TypeOK, BackingIsHeld, BackingIsExclusive, [Next]_vars
    PROVE  BackingIsExclusive'
<1> SUFFICES ASSUME NEW n \in Node, NEW k \in Node, n # k,
                    NEW w \in Backing(n)', w \in Backing(k)'
             PROVE  FALSE
  BY DEF BackingIsExclusive
<1>1. CASE ~\E v \in Node, m \in net : HandleAsk(v, m)
  BY <1>1, BackingShrinks DEF BackingIsExclusive
<1>2. CASE \E v \in Node, m \in net : HandleAsk(v, m)
  <2>1. PICK v \in Node, m \in net : HandleAsk(v, m)
    BY <1>2
  <2>2. \A i \in Node : w \in Backing(i)' =>
            \/ w \in Backing(i)
            \/ w = v /\ i = m.from /\ grants'[v] = i /\ clock[v] \notin {late, expired}
    BY <2>1, BackingOfAnAnswer
  <2>3. ASSUME NEW i \in Node, NEW j \in Node, i # j, w \in Backing(i),
               w = v, grants'[v] = j, clock[v] \notin {late, expired}
        PROVE  FALSE
    <3>1. grants[v] = i
      BY <2>3 DEF BackingIsHeld
    <3>2. grants'[v] = grants[v]
      BY <2>1, <3>1, NoneAssumption DEF HandleAsk, TypeOK, Claim
    <3> QED BY <2>3, <3>1, <3>2
  <2> QED BY <2>2, <2>3 DEF BackingIsExclusive
<1> QED BY <1>1, <1>2

\* A second winner would need a majority disjoint from the first's.
LEMMA AtMostOnceStep ==
    ASSUME Cardinality(Node \ Founders) <= 1,
           TypeOK, RunsAreFinal, BackingIsExclusive, VotersCoverFounders, AtMostOnce,
           [Next]_vars
    PROVE  AtMostOnce'
<1>1. CASE UNCHANGED ran
  BY <1>1 DEF AtMostOnce
<1>2. CASE \E n \in Node : Win(n)
  <2>1. PICK n \in Node : Win(n)
    BY <1>2
  <2>2. ASSUME NEW r \in ran PROVE FALSE
    <3>1. r.node \in Node /\ r.of \in SUBSET Node /\ voters[n] \in SUBSET Node
      BY DEF TypeOK, Run
    <3>2. r.node # n
      BY <2>1 DEF Win, Ends, Answered, RunsAreFinal
    <3>3. With(n, "granted") \subseteq Backing(n) /\ With(n, "granted") \subseteq voters[n]
      BY <2>1 DEF Win, Ends, Answered, With, Backing
    <3>4. r.by \subseteq Backing(r.node)
      BY DEF Backing
    <3>5. r.by \cap With(n, "granted") = {}
      BY <3>1, <3>2, <3>3, <3>4 DEF BackingIsExclusive
    <3>6. /\ Founders \subseteq r.of /\ r.by \subseteq r.of /\ Majority(r.by, r.of)
          /\ Founders \subseteq voters[n] /\ Majority(With(n, "granted"), voters[n])
      BY <2>1 DEF VotersCoverFounders, Win, Ends, Answered
    <3> QED BY <3>1, <3>3, <3>5, <3>6, QuorumsMeet
  <2>3. ran = {}
    BY <2>2
  <2> QED BY <2>1, <2>3 DEF Win, Ends, AtMostOnce
<1> QED
  BY <1>1, <1>2
  DEF Next, ClockPasses, ClockStepsBack, Restart, ProcessStarts, ScheduleEdited, Enroll, Announce,
      SlotComes, Decline, Stand, HandleAsk, DropExpired, CallFails, Lose, Ends, HandleRelease, vars
-----------------------------------------------------------------------------
(* What becomes of the grants of a candidate that lost, where no call outlives    *)
(* its timeout and nobody restarts: with either, a grant may stay until it expires. *)

Lost == {"held", "vetoed", "missed", "next"}

\* A request on its way is one that its sender still waits for, unless it is to a
\* member that is slow.
AsksAwaited ==
    \A m \in net : m.type = "ask" /\ m.to \notin Slow =>
        /\ stage[m.from] = "asking" /\ m.try = tries[m.from]
        /\ m.to \in voters[m.from] /\ answer[m.from][m.to] = "pending"

\* Whoever is still at it has nothing on record.
VerdictIsLast == \A n \in Node : stage[n] # "done" => verdict[n] = "nothing"

\* The grant that v holds for n: n counts on it, or will give it back, has asked
\* for it to be dropped, or did not lose.
Accounted(n, v) ==
    \/ stage[n] = "asking" /\ v \in voters[n] /\ answer[n][v] \in {"granted", "failed"}
    \/ \E m \in net : m.type = "release" /\ m.from = n /\ m.to = v
    \/ stage[n] = "done" /\ verdict[n] \in {"nothing", "failed"}

GrantsAreAccounted ==
    \A n \in Node, v \in Node \ Slow : grants[v] = n => Accounted(n, v)

LoserInv ==
    TypeOK /\ StandsOnce /\ RunsAreFinal /\ AsksAwaited /\ VerdictIsLast /\ GrantsAreAccounted

\* A node that has not stood, or waits for its turn, holds no grant.
LEMMA NoGrantYet ==
    ASSUME LoserInv, NEW n \in Node, NEW v \in Node \ Slow,
           stage[n] = "waiting" \/ tries[n] = 0
    PROVE  grants[v] # n
<1> SUFFICES ASSUME grants[v] = n PROVE FALSE
  OBVIOUS
<1>1. Accounted(n, v)
  BY DEF LoserInv, GrantsAreAccounted
<1>2. ~\E m \in net : m.type = "release" /\ m.from = n /\ m.to = v
  BY DEF LoserInv, RunsAreFinal, StandsOnce
<1>3. stage[n] \notin {"asking", "done"}
  BY DEF LoserInv, StandsOnce
<1> QED BY <1>1, <1>2, <1>3 DEF Accounted

\* A step that leaves the candidates alone, and takes no release from the network,
\* leaves each grant it does not take back accounted for.
LEMMA StillAccounted ==
    ASSUME LoserInv, NEW n \in Node, NEW v \in Node \ Slow, grants[v] = n,
           stage'[n] = stage[n], voters'[n] = voters[n], verdict'[n] = verdict[n],
           answer[n][v] \in {"granted", "failed"} => answer'[n][v] \in {"granted", "failed"},
           \A m \in net : m.type = "release" /\ m.from = n /\ m.to = v => m \in net'
    PROVE  Accounted(n, v)'
  BY DEF LoserInv, GrantsAreAccounted, Accounted

\* No call is on its way that nobody waits for, and none is given up that way.
LEMMA AsksAwaitedStep ==
    ASSUME MaxRestarts = 0, Jumpy = {}, LoserInv, [Next]_vars
    PROVE  AsksAwaited'
<1> USE DEF LoserInv, TypeOK, AsksAwaited
<1>1. CASE \E k \in Node : SlotComes(k)
  BY <1>1 DEF SlotComes, Message, RunsAreFinal
<1>2. CASE \E k \in Node : Decline(k)
  BY <1>2 DEF Decline, Ends, Message
<1>3. CASE \E k \in Node : Stand(k)
  <2>1. PICK k \in Node : Stand(k)
    BY <1>3
  <2>2. ASSUME NEW m \in net', m.type = "ask", m.to \notin Slow
        PROVE  \/ m \in net /\ m.from # k
               \/ m.from = k /\ m.to \in members[k] /\ m.try = tries[k]
    BY <2>1, <2>2 DEF Stand, Calls
  <2>3. ASSUME NEW m \in net', m.type = "ask", m.to \notin Slow
        PROVE  /\ stage'[m.from] = "asking" /\ m.try = tries'[m.from]
               /\ m.to \in voters'[m.from] /\ answer'[m.from][m.to] = "pending"
    BY <2>1, <2>2, <2>3 DEF Stand, Message
  <2> QED BY <2>3
<1>4. CASE \E v \in Node, m \in net : HandleAsk(v, m)
  <2>1. PICK v \in Node, m \in net : HandleAsk(v, m)
    BY <1>4
  <2>2. m.from \in Node /\ m.to = v /\ net' = net \ {m} /\ m.type = "ask"
    BY <2>1 DEF HandleAsk, Message
  <2>3. UNCHANGED <<stage, tries, voters>>
    BY <2>1 DEF HandleAsk
  <2>4. PICK a \in Answer : \/ answer' = [answer EXCEPT ![m.from][v] = a]
                            \/ answer' = answer
    BY <2>1, <2>2 DEF HandleAsk, Reply, Answer
  <2>5. ASSUME NEW l \in net', l.type = "ask", l.to \notin Slow
        PROVE  answer'[l.from][l.to] = "pending"
    <3>1. l \in net /\ l # m /\ l.from \in Node /\ l.to \in Node
      BY <2>2, <2>5 DEF Message
    <3>2. answer[l.from][l.to] = "pending" /\ l.try = tries[l.from]
      BY <2>5, <3>1
    <3>3. v \notin Slow => m.try = tries[m.from]
      BY <2>2
    <3>4. l.from # m.from \/ l.to # v
      BY <2>2, <2>5, <3>1, <3>2, <3>3 DEF Message
    <3> QED BY <2>2, <2>4, <3>1, <3>2, <3>4
  <2> QED BY <2>2, <2>3, <2>5
<1>5. CASE \E k, v \in Node : CallFails(k, v)
  <2>1. PICK k \in Node, v \in Node : CallFails(k, v)
    BY <1>5
  <2>2. \/ v \in Slow /\ net' = net
        \/ net' = net \ Calls("ask", k, {v})
    <3> HIDE DEF LoserInv, TypeOK, AsksAwaited
    <3> QED BY <2>1 DEF CallFails
  <2>4. net' \subseteq net /\ (v \notin Slow => net' = net \ Calls("ask", k, {v}))
    BY <2>2
  <2>5. UNCHANGED <<stage, tries, voters>> /\ answer' = [answer EXCEPT ![k][v] = "failed"]
    BY <2>1 DEF CallFails
  <2>6. ASSUME NEW l \in net', l.type = "ask", l.to \notin Slow
        PROVE  answer'[l.from][l.to] = "pending"
    <3>1. l \in net /\ l.from \in Node /\ l.to \in Node /\ l \in Message
      BY <2>4 DEF Message
    <3>2. answer[l.from][l.to] = "pending" /\ l.try = tries[l.from]
      BY <2>6, <3>1
    <3>3. l.from # k \/ l.to # v
      <4>1. SUFFICES ASSUME l.from = k, l.to = v PROVE FALSE
        OBVIOUS
      <4>2. l = [type |-> "ask", from |-> k, to |-> v, try |-> tries[k]]
        BY <2>6, <3>1, <3>2, <4>1 DEF Message
      <4>3. l \in Calls("ask", k, {v})
        BY <4>2 DEF Calls
      <4> QED BY <2>4, <2>6, <4>1, <4>3
    <3> QED BY <2>5, <3>1, <3>2, <3>3
  <2> QED BY <2>4, <2>5, <2>6
<1>6. CASE \E k \in Node : Win(k) \/ Lose(k)
  <2>1. PICK k \in Node : Win(k) \/ Lose(k)
    BY <1>6
  <2>2. ASSUME NEW m \in net', m.type = "ask", m.to \notin Slow PROVE m \in net /\ m.from # k
    <3>1. m \in net
      BY <2>1, <2>2 DEF Win, Lose, Ends, Calls
    <3>2. With(k, "pending") = {}
      BY <2>1 DEF Win, Lose, Ends, Answered
    <3> QED BY <2>2, <3>1, <3>2 DEF With
  <2> QED BY <2>1, <2>2 DEF Win, Lose, Ends, Message
<1>7. CASE UNCHANGED <<stage, tries, voters, answer>> /\ net' \subseteq net
  BY <1>7
<1>8. ASSUME NEW k \in Node, Restart(k) PROVE FALSE
  BY <1>8 DEF Restart, ProcessStarts
<1> QED
  BY <1>1, <1>2, <1>3, <1>4, <1>5, <1>6, <1>7, <1>8
  DEF Next, ClockPasses, ClockStepsBack, ScheduleEdited, Enroll, Announce,
      DropExpired, HandleRelease, vars

LEMMA VerdictIsLastStep ==
    ASSUME MaxRestarts = 0, LoserInv, [Next]_vars
    PROVE  VerdictIsLast'
<1> USE DEF LoserInv, TypeOK, VerdictIsLast
<1>1. CASE \E k \in Node : SlotComes(k)
  BY <1>1 DEF SlotComes, StandsOnce
<1>2. CASE \E k \in Node : Decline(k) \/ Win(k) \/ Lose(k)
  BY <1>2 DEF Decline, Win, Lose, Ends
<1>3. CASE \E k \in Node : Stand(k)
  BY <1>3 DEF Stand
<1>4. CASE UNCHANGED <<stage, verdict>>
  BY <1>4
<1>5. ASSUME NEW k \in Node, Restart(k) PROVE FALSE
  BY <1>5 DEF Restart, ProcessStarts
<1> QED
  BY <1>1, <1>2, <1>3, <1>4, <1>5
  DEF Next, ClockPasses, ClockStepsBack, ScheduleEdited, Enroll, Announce, HandleAsk, CallFails,
      DropExpired, HandleRelease, vars

\* A member is taken to hold a grant for a candidate that lost only while the
\* release is on its way.
LEMMA GrantsAreAccountedStep ==
    ASSUME MaxRestarts = 0, LoserInv, [Next]_vars
    PROVE  GrantsAreAccounted'
<1> SUFFICES ASSUME NEW n \in Node, NEW v \in Node \ Slow, grants'[v] = n
             PROVE  Accounted(n, v)'
  BY DEF GrantsAreAccounted
<1>0. n # None
  BY NoneAssumption
<1>1. ASSUME NEW k \in Node, SlotComes(k) PROVE Accounted(n, v)'
  <2>1. grants[v] = n
    BY <1>1 DEF SlotComes
  <2>2. CASE n # k \/ UNCHANGED <<stage, tries, order>>
    BY <1>1, <2>1, <2>2, StillAccounted DEF SlotComes, LoserInv, TypeOK
  <2>3. CASE n = k /\ ~UNCHANGED <<stage, tries, order>>
    <3>1. upcoming[k] = "armed" /\ tries[k] \in 0 .. MaxTries
      BY <1>1 DEF SlotComes, LoserInv, TypeOK
    <3>2. ~(tries[k] > 0)
      BY <3>1 DEF LoserInv, StandsOnce
    <3>3. tries[k] = 0
      BY <3>1, <3>2, BoundsAssumption
    <3> QED BY <2>1, <2>3, <3>3, NoGrantYet
  <2> QED BY <2>2, <2>3
<1>2. ASSUME NEW k \in Node, Decline(k) PROVE Accounted(n, v)'
  <2>1. grants[v] = n /\ n # k
    BY <1>2, NoGrantYet DEF Decline
  <2> QED BY <1>2, <2>1, StillAccounted DEF Decline, Ends, LoserInv, TypeOK
<1>3. ASSUME NEW k \in Node, Stand(k) PROVE Accounted(n, v)'
  <2>1. grants[v] = n /\ n # k
    BY <1>3, NoGrantYet DEF Stand
  <2> QED BY <1>3, <2>1, StillAccounted DEF Stand, LoserInv, TypeOK
<1>4. ASSUME NEW w \in Node, NEW m \in net, HandleAsk(w, m) PROVE Accounted(n, v)'
  <2>1. m.from \in Node /\ m.to = w /\ net' = net \ {m} /\ m.type = "ask"
    BY <1>4 DEF HandleAsk, LoserInv, TypeOK, Message
  <2>2. UNCHANGED <<stage, voters, verdict>>
    BY <1>4 DEF HandleAsk
  <2>3. ASSUME w \in Slow PROVE Accounted(n, v)'
    <3>1. PICK a \in Answer : answer' = answer \/ answer' = [answer EXCEPT ![m.from][w] = a]
      <4>1. PICK b \in {"vetoed", "granted", "held"} : Reply(m, b)
        BY <1>4 DEF HandleAsk
      <4> QED BY <2>1, <4>1 DEF Reply, Answer
    <3>2. grants' = grants \/ grants' = [grants EXCEPT ![w] = Claim(w, m.from)]
      BY <1>4 DEF HandleAsk
    <3>3. v # w /\ answer'[n][v] = answer[n][v]
      BY <2>1, <2>3, <3>1 DEF LoserInv, TypeOK
    <3>4. grants[v] = n
      BY <3>2, <3>3 DEF LoserInv, TypeOK
    <3> QED BY <2>1, <2>2, <3>3, <3>4, StillAccounted
  <2> SUFFICES ASSUME w \notin Slow PROVE Accounted(n, v)'
    BY <2>3
  <2>4. /\ stage[m.from] = "asking" /\ m.try = tries[m.from] /\ w \in voters[m.from]
        /\ answer[m.from][w] = "pending"
    BY <2>1 DEF LoserInv, AsksAwaited
  <2>5. PICK a \in Answer :
            /\ answer' = [answer EXCEPT ![m.from][w] = a]
            /\ \/ grants' = grants
               \/ /\ grants' = [grants EXCEPT ![w] = Claim(w, m.from)]
                  /\ Claim(w, m.from) = m.from => a \in {"granted", "failed"}
    BY <1>4, <2>1, <2>4 DEF HandleAsk, Reply, Answer
  <2>6. CASE grants[v] = n /\ (n # m.from \/ v # w)
    <3>1. answer'[n][v] = answer[n][v]
      BY <2>5, <2>6 DEF LoserInv, TypeOK
    <3> QED BY <2>1, <2>2, <2>6, <3>1, StillAccounted
  <2>7. CASE n = m.from /\ v = w
    <3>1. CASE grants' = grants
      <4>1. Accounted(n, v)
        BY <3>1 DEF LoserInv, GrantsAreAccounted
      <4>2. ~\E l \in net : l.type = "release" /\ l.from = n
        BY <2>4, <2>7 DEF LoserInv, RunsAreFinal
      <4> QED BY <2>4, <2>7, <4>1, <4>2 DEF Accounted
    <3>2. CASE grants' # grants
      <4>1. grants' = [grants EXCEPT ![w] = Claim(w, m.from)] /\ grants'[v] = Claim(w, m.from)
        BY <2>5, <2>7, <3>2 DEF LoserInv, TypeOK
      <4>2. a \in {"granted", "failed"}
        BY <2>5, <2>7, <3>2, <4>1
      <4>3. answer'[n][v] = a
        BY <2>5, <2>7 DEF LoserInv, TypeOK
      <4> QED BY <2>2, <2>4, <2>7, <4>2, <4>3 DEF Accounted
    <3> QED BY <3>1, <3>2
  <2>8. grants[v] = n \/ (n = m.from /\ v = w)
    BY <1>0, <2>1, <2>5 DEF Claim, LoserInv, TypeOK
  <2> QED BY <2>6, <2>7, <2>8
<1>5. ASSUME NEW w \in Node, DropExpired(w) PROVE Accounted(n, v)'
  <2>1. grants[v] = n
    BY <1>0, <1>5 DEF DropExpired, LoserInv, TypeOK
  <2> QED BY <1>5, <2>1, StillAccounted DEF DropExpired
<1>6. ASSUME NEW k \in Node, NEW w \in Node, CallFails(k, w) PROVE Accounted(n, v)'
  <2>1. grants[v] = n /\ UNCHANGED <<stage, voters, verdict>>
    BY <1>6 DEF CallFails
  <2>2. answer[n][v] \in {"granted", "failed"} => answer'[n][v] \in {"granted", "failed"}
    BY <1>6 DEF CallFails, LoserInv, TypeOK
  <2>3. \A m \in net : m.type = "release" => m \in net'
    BY <1>6 DEF CallFails, Calls
  <2> QED BY <2>1, <2>2, <2>3, StillAccounted
<1>7. ASSUME NEW k \in Node, Win(k) PROVE Accounted(n, v)'
  <2>1. grants[v] = n
    BY <1>7 DEF Win
  <2>2. CASE n # k
    BY <1>7, <2>1, <2>2, StillAccounted DEF Win, Ends, LoserInv, TypeOK
  <2>3. CASE n = k
    <3>1. verdict[k] = "nothing"
      BY <1>7 DEF Win, Answered, LoserInv, VerdictIsLast
    <3>2. stage'[k] = "done" /\ verdict'[k] \in {"nothing", "failed"}
      BY <1>7, <3>1 DEF Win, Ends, LoserInv, TypeOK
    <3> QED BY <2>3, <3>2 DEF Accounted
  <2> QED BY <2>2, <2>3
<1>8. ASSUME NEW k \in Node, Lose(k) PROVE Accounted(n, v)'
  <2>1. grants[v] = n /\ net \subseteq net'
    BY <1>8 DEF Lose
  <2>2. CASE n # k
    BY <1>8, <2>1, <2>2, StillAccounted DEF Lose, Ends, LoserInv, TypeOK
  <2>3. CASE n = k
    <3>1. Accounted(n, v) /\ stage[n] = "asking"
      BY <1>8, <2>1, <2>3 DEF Lose, Answered, LoserInv, GrantsAreAccounted
    <3>2. CASE v \in voters[n] /\ answer[n][v] \in {"granted", "failed"}
      <4> DEFINE m == [type |-> "release", from |-> n, to |-> v, try |-> tries[n]]
      <4>1. v \in With(n, "granted") \cup With(n, "failed")
        BY <3>2 DEF With
      <4>2. m \in Calls("release", n, With(n, "granted") \cup With(n, "failed"))
        BY <4>1 DEF Calls
      <4>3. m \in net' /\ m.type = "release" /\ m.from = n /\ m.to = v
        BY <1>8, <2>3, <4>2 DEF Lose
      <4> QED BY <4>3 DEF Accounted
    <3>3. CASE \E m \in net : m.type = "release" /\ m.from = n /\ m.to = v
      BY <2>1, <3>3 DEF Accounted
    <3> QED BY <3>1, <3>2, <3>3 DEF Accounted
  <2> QED BY <2>2, <2>3
<1>9. ASSUME NEW w \in Node, NEW m \in net, HandleRelease(w, m) PROVE Accounted(n, v)'
  <2>1. m.from \in Node /\ m.to = w /\ net' = net \ {m}
    BY <1>9 DEF HandleRelease, LoserInv, TypeOK, Message
  <2>2. grants[v] = n /\ ~(v = w /\ m.from = n)
    BY <1>0, <1>9, <2>1 DEF HandleRelease, Released, LoserInv, TypeOK
  <2>3. \A l \in net : l.type = "release" /\ l.from = n /\ l.to = v => l \in net'
    BY <2>1, <2>2
  <2> QED BY <1>9, <2>2, <2>3, StillAccounted DEF HandleRelease
<1>10. CASE UNCHANGED <<stage, voters, answer, verdict, grants, net>>
  BY <1>10, StillAccounted
<1>11. ASSUME NEW k \in Node, Restart(k) PROVE FALSE
  BY <1>11 DEF Restart, ProcessStarts, LoserInv, TypeOK
<1> QED
  BY <1>1, <1>2, <1>3, <1>4, <1>5, <1>6, <1>7, <1>8, <1>9, <1>10, <1>11
  DEF Next, ClockPasses, ClockStepsBack, ScheduleEdited, Enroll, Announce, vars
-----------------------------------------------------------------------------
(* The theorems. *)

\* The invariant behind the guarantee holds in every cluster in which no clock
\* is set back across the slot and at most one node joins meanwhile.
THEOREM VoteInvariant ==
    ASSUME Jumpy = {}, Cardinality(Node \ Founders) <= 1
    PROVE  Spec => []VoteInv
<1>1. Init => VoteInv
  <2> SUFFICES ASSUME Init PROVE VoteInv
    OBVIOUS
  <2> USE FoundersAssumption, BoundsAssumption
  <2>1. TypeOK
    BY DEF Init, TypeOK, Clock, Upcoming, Stage, Answer, Verdict, Unasked
  <2>2. StandsOnce /\ RunsAreFinal /\ AtMostOnce
    BY DEF Init, StandsOnce, RunsAreFinal, AtMostOnce
  <2>3. \A n \in Node : Backing(n) = {}
    BY DEF Init, Backing
  <2>4. BackingIsHeld /\ BackingIsExclusive
    BY <2>3 DEF BackingIsHeld, BackingIsExclusive
  <2>5. VotersCoverFounders
    BY DEF Init, VotersCoverFounders, Joined
  <2> QED BY <2>1, <2>2, <2>4, <2>5 DEF VoteInv
<1>2. VoteInv /\ [Next]_vars => VoteInv'
  <2> SUFFICES ASSUME VoteInv, [Next]_vars PROVE VoteInv'
    OBVIOUS
  <2>1. /\ TypeOK /\ StandsOnce /\ BackingIsHeld /\ BackingIsExclusive
        /\ RunsAreFinal /\ VotersCoverFounders /\ AtMostOnce
    BY DEF VoteInv
  <2>2. TriesCounted
    BY <2>1, BoundsAssumption DEF TriesCounted, StandsOnce, TypeOK
  <2>3. TypeOK'
    BY <2>1, <2>2, TypeStep
  <2>4. StandsOnce' /\ RunsAreFinal' /\ VotersCoverFounders'
    BY <2>1, StandsOnceStep, RunsAreFinalStep, VotersCoverFoundersStep
  <2>5. BackingIsHeld' /\ BackingIsExclusive' /\ AtMostOnce'
    BY <2>1, BackingIsHeldStep, BackingIsExclusiveStep, AtMostOnceStep
  <2> QED BY <2>3, <2>4, <2>5 DEF VoteInv
<1> QED
  BY <1>1, <1>2, PTL DEF Spec

\* An occurrence is started at most once (tasks.py, "the guarantee is at most
\* once").
THEOREM OccurrenceRunsAtMostOnce ==
    ASSUME Jumpy = {}, Cardinality(Node \ Founders) <= 1
    PROVE  Spec => []AtMostOnce
<1>1. VoteInv => AtMostOnce
  BY DEF VoteInv
<1> QED
  BY <1>1, VoteInvariant, PTL

\* The members that granted the occurrence to the node that ran it hold it for
\* that node until the grant expires.
THEOREM WinnerIsBacked ==
    ASSUME Jumpy = {}, Cardinality(Node \ Founders) <= 1
    PROVE  Spec => []WinnerKeepsItsGrants
<1>1. VoteInv => WinnerKeepsItsGrants
  <2> SUFFICES ASSUME VoteInv, NEW r \in ran, NEW v \in r.by
               PROVE  grants[v] = r.node \/ (clock[v] = expired /\ grants[v] = None)
    BY DEF WinnerKeepsItsGrants
  <2>1. r.node \in Node /\ v \in Backing(r.node)
    BY DEF VoteInv, TypeOK, Run, Backing
  <2> QED BY <2>1 DEF VoteInv, BackingIsHeld
<1> QED
  BY <1>1, VoteInvariant, PTL

\* The vote implements the promise: a step of the cluster starts the occurrence
\* when nobody has, or leaves what was started alone.
THEOREM VoteImplementsPromise ==
    ASSUME Jumpy = {}, Cardinality(Node \ Founders) <= 1
    PROVE  Spec => AtMostOneCandidacyRuns
<1> DEFINE Started == {<<r.node, r.try>> : r \in ran}
<1>1. Init => Promise!Init
  BY DEF Init, Promise!Init
<1>2. VoteInv /\ VoteInv' /\ [Next]_vars => [Promise!Next]_Started
  <2> SUFFICES ASSUME VoteInv, VoteInv', [Next]_vars PROVE Promise!Next \/ Started' = Started
    OBVIOUS
  <2>1. CASE UNCHANGED ran
    BY <2>1
  <2>2. CASE \E n \in Node : Win(n)
    <3>1. PICK n \in Node : Win(n)
      BY <2>2
    <3>2. CASE UNCHANGED ran
      BY <3>2
    <3>3. CASE ~UNCHANGED ran
      <4> DEFINE run == [node |-> n, try |-> tries[n], by |-> With(n, "granted"), of |-> voters[n]]
      <4>1. ran' = ran \cup {run} /\ run \notin ran
        BY <3>1, <3>3 DEF Win, Ends
      <4>2. AtMostOnce' /\ run \in ran'
        BY <4>1 DEF VoteInv
      <4>3. ran = {} /\ ran' = {run}
        BY <4>1, <4>2 DEF AtMostOnce
      <4>4. n \in Node /\ tries[n] \in 1..MaxTries
        <5>1. run \in Run
          BY <4>2 DEF VoteInv, TypeOK
        <5> QED BY <5>1 DEF Run
      <4>5. Started = {} /\ Started' = {<<n, tries[n]>>}
        BY <4>3
      <4>6. <<n, tries[n]>> \in Node \X (1..MaxTries)
        BY <4>4
      <4>7. \E c \in Node \X (1..MaxTries) : Started = {} /\ Started' = {c}
        BY <4>5, <4>6
      <4> QED BY <4>7 DEF Promise!Next, Promise!Start
    <3> QED BY <3>2, <3>3
  <2> QED
    BY <2>1, <2>2
    DEF Next, ClockPasses, ClockStepsBack, Restart, ProcessStarts, ScheduleEdited, Enroll, Announce,
        SlotComes, Decline, Stand, HandleAsk, DropExpired, CallFails, Lose, Ends, HandleRelease, vars
<1> QED
  BY <1>1, <1>2, VoteInvariant, PTL DEF Spec, AtMostOneCandidacyRuns, Promise!Spec

\* A candidate that lost leaves no grant behind: once its releases have arrived, no
\* member holds one for it, so the next node can still gather a majority (tasks.py,
\* _negotiate; docs/tasks.md).  Where a call can reach a member after its timeout, a
\* member restarts or a clock is set back, one may stay until it expires.
THEOREM LosersGiveBack ==
    ASSUME Jumpy = {}, MaxRestarts = 0
    PROVE  Spec => []LosersHoldNothing
<1>1. Init => LoserInv
  <2> SUFFICES ASSUME Init PROVE LoserInv
    OBVIOUS
  <2>1. TypeOK
    BY FoundersAssumption, BoundsAssumption
    DEF Init, TypeOK, Clock, Upcoming, Stage, Answer, Verdict, Unasked
  <2>2. StandsOnce /\ RunsAreFinal /\ AsksAwaited /\ VerdictIsLast
    BY DEF Init, StandsOnce, RunsAreFinal, AsksAwaited, VerdictIsLast
  <2>3. GrantsAreAccounted
    BY NoneAssumption DEF Init, GrantsAreAccounted
  <2> QED BY <2>1, <2>2, <2>3 DEF LoserInv
<1>2. LoserInv /\ [Next]_vars => LoserInv'
  <2> SUFFICES ASSUME LoserInv, [Next]_vars PROVE LoserInv'
    OBVIOUS
  <2>1. TypeOK /\ StandsOnce /\ RunsAreFinal
    BY DEF LoserInv
  <2>2. TriesCounted
    BY <2>1, BoundsAssumption DEF TriesCounted, StandsOnce, TypeOK
  <2>3. TypeOK' /\ StandsOnce' /\ RunsAreFinal'
    BY <2>1, <2>2, TypeStep, StandsOnceStep, RunsAreFinalStep
  <2>4. AsksAwaited' /\ VerdictIsLast' /\ GrantsAreAccounted'
    BY AsksAwaitedStep, VerdictIsLastStep, GrantsAreAccountedStep
  <2> QED BY <2>3, <2>4 DEF LoserInv
<1>3. LoserInv => LosersHoldNothing
  <2> SUFFICES ASSUME LoserInv, net = {}, NEW n \in Node, NEW v \in Node \ Slow,
                      verdict[n] \in Lost, grants[v] = n
               PROVE  FALSE
    BY DEF LosersHoldNothing, Lost
  <2>1. Accounted(n, v) /\ stage[n] = "done"
    BY DEF LoserInv, GrantsAreAccounted, VerdictIsLast, Lost
  <2> QED BY <2>1 DEF Accounted, Lost
<1> QED
  BY <1>1, <1>2, <1>3, PTL DEF Spec
=============================================================================
