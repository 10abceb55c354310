--------------------------- MODULE TaskTriggersProof ---------------------------
(* Proofs about TaskTriggers: for any set of members and of deliveries, any     *)
(* number of requests and whatever gets lost, a member's process starts at most  *)
(* one run of a delivery while it remembers it.                                   *)
EXTENDS TaskTriggers, SequenceTheorems, WellFoundedInduction, TLAPS

Ats == {"received", "verified", "403", "ignored", "placing", "taken", "202", "503", "504", "cut off"}
Asked == [id : Deliveries \cup {ByHand}, by : Members, process : Nat, at : Ats,
          tried : SUBSET Members, asking : Members \cup {Nobody}]
Started == [request : Nat, id : Deliveries \cup {ByHand}, by : Members, process : Nat, on : Members]

\* The requests, what is remembered, and what was started keep their types.
TypeOK ==
    /\ known \in [Members -> Seq(Deliveries)]
    /\ process \in [Members -> Nat]
    /\ request \in Seq(Asked)
    /\ started \in SUBSET Started

Active == {"placing", "taken", "202", "504"}
Open == {"received", "verified", "placing", "taken"}

\* A request is of the process that still has it in hand.
OfItsProcess == \A k \in Requests :
    /\ request[k].process <= process[request[k].by]
    /\ request[k].at \in Open => request[k].process = process[request[k].by]
    /\ request[k].at = "cut off" => request[k].process < process[request[k].by]
    /\ request[k].at \in {"received", "verified"} => request[k].id \in Deliveries \ {ByHand}

\* A run is of its request, which has got that far, and of no other run's.
RunIsRequests ==
    /\ \A s \in started :
          /\ s.request \in Requests
          /\ s.id = request[s.request].id /\ s.by = request[s.request].by
          /\ s.process = request[s.request].process
          /\ request[s.request].at \in {"taken", "202", "504", "cut off"}
    /\ \A s, t \in started : s.request = t.request => s = t

Knows(m, id) == id \in ToSet(known[m])

\* What a process has let through, it remembers, or was made to forget.
PassedIsKnown == \A k \in Requests :
    LET r == request[k] IN
    r.at \in Active /\ r.id # ByHand /\ r.process = process[r.by] =>
        Knows(r.by, r.id) \/ <<r.by, r.id>> \in lapsed

\* Request k was let through: it may be placed, or has been.
Passed(k) == request[k].at \in Active \/ \E s \in started : s.request = k

Alike(k, l) ==
    /\ request[k].id = request[l].id /\ request[k].id # ByHand
    /\ request[k].by = request[l].by /\ request[k].process = request[l].process

\* Two are let through of one id only when the first was forgotten for others.
OnePasses == \A k, l \in Requests :
    Passed(k) /\ Passed(l) /\ Alike(k, l) /\ k # l => <<request[k].by, request[k].id>> \in lapsed

\* What is remembered has a request, and is remembered once.
KnownIsAsked == \A m \in Members : \A id \in ToSet(known[m]) : id # ByHand /\ \E k \in Requests :
    /\ request[k].id = id /\ request[k].by = m /\ request[k].process = process[m]
    /\ request[k].at \in Active
KnownOnce == \A m \in Members : \A i, j \in DOMAIN known[m] : known[m][i] = known[m][j] => i = j

DeliveryInv ==
    /\ TypeOK /\ OfItsProcess /\ RunIsRequests /\ PassedIsKnown /\ OnePasses
    /\ KnownIsAsked /\ KnownOnce

-----------------------------------------------------------------------------
(* Sequences without repetition. *)

Distinct(s) == \A i, j \in DOMAIN s : s[i] = s[j] => i = j

\* A set of numbers has a least one.
LEMMA LeastNumber ==
    ASSUME NEW S \in SUBSET Nat, S # {}
    PROVE  \E m \in S : \A k \in S : m <= k
  <1> DEFINE R == OpToRel(<, Nat)
  <1>1. IsWellFoundedOn(R, Nat)
    BY NatLessThanWellFounded
  <1>2. PICK m \in S : \A k \in S : ~ (<<k, m>> \in R)
    <2> HIDE DEF R
    <2> QED
      BY <1>1, WFMin
  <1>3. \A k \in S : ~ (k < m)
    BY <1>2 DEF OpToRel
  <1>4. QED
    BY <1>3

\* One more at the end.
LEMMA AppendOne ==
    ASSUME NEW D, NEW s \in Seq(D), Distinct(s), NEW e \in D, e \notin ToSet(s)
    PROVE  /\ Append(s, e) \in Seq(D) /\ Distinct(Append(s, e)) /\ Append(s, e) # <<>>
           /\ ToSet(Append(s, e)) = ToSet(s) \cup {e}
  <1> DEFINE a == Append(s, e)
  <1>1. /\ a \in Seq(D) /\ a # <<>> /\ Len(a) = Len(s) + 1
        /\ \A i \in 1 .. Len(s) : a[i] = s[i]
        /\ a[Len(s) + 1] = e
    BY AppendProperties
  <1>2. Len(s) \in Nat /\ DOMAIN s = 1 .. Len(s) /\ DOMAIN a = 1 .. (Len(s) + 1)
    BY <1>1, LenProperties
  <1>3. \A i \in DOMAIN s : s[i] # e
    BY DEF ToSet
  <1> HIDE DEF a
  <1>4. Distinct(a)
    BY <1>1, <1>2, <1>3 DEF Distinct
  <1>5. \A x : x \in ToSet(a) <=> x \in ToSet(s) \cup {e}
    BY <1>1, <1>2 DEF ToSet
  <1>6. QED
    BY <1>1, <1>4, <1>5 DEF a

\* All but the first.
LEMMA TailOf ==
    ASSUME NEW D, NEW s \in Seq(D), Distinct(s), s # <<>>
    PROVE  Tail(s) \in Seq(D) /\ Distinct(Tail(s)) /\ ToSet(Tail(s)) \subseteq ToSet(s)
  <1> DEFINE t == Tail(s)
  <1>1. t \in Seq(D) /\ Len(t) = Len(s) - 1 /\ \A i \in 1 .. Len(t) : t[i] = s[i + 1]
    BY HeadTailProperties
  <1>2. Len(s) \in Nat /\ DOMAIN s = 1 .. Len(s) /\ DOMAIN t = 1 .. (Len(s) - 1)
    BY <1>1, LenProperties
  <1> HIDE DEF t
  <1>3. \A i \in DOMAIN t : i + 1 \in DOMAIN s /\ t[i] = s[i + 1]
    BY <1>1, <1>2
  <1>4. Distinct(t)
    <2>1. SUFFICES ASSUME NEW i \in DOMAIN t, NEW j \in DOMAIN t, t[i] = t[j] PROVE i = j
      BY DEF Distinct
    <2>2. i + 1 = j + 1
      BY <1>3, <2>1 DEF Distinct
    <2>3. QED
      BY <2>2, <1>2
  <1>5. ToSet(t) \subseteq ToSet(s)
    BY <1>3 DEF ToSet
  <1>6. QED
    BY <1>1, <1>4, <1>5 DEF t

\* Without e, and with everything else.
LEMMA RemoveOne ==
    ASSUME NEW D, NEW s \in Seq(D), Distinct(s), NEW e
    PROVE  /\ RemoveFirst(s, e) \in Seq(D) /\ Distinct(RemoveFirst(s, e))
           /\ ToSet(RemoveFirst(s, e)) = ToSet(s) \ {e}
  <1> DEFINE t == RemoveFirst(s, e)
  <1>1. Len(s) \in Nat /\ DOMAIN s = 1 .. Len(s) /\ \A i \in 1 .. Len(s) : s[i] \in D
    BY LenProperties, ElementOfSeq
  <1>2. CASE ~ \E i \in 1 .. Len(s) : s[i] = e
    <2>1. t = s /\ e \notin ToSet(s)
      BY <1>1, <1>2 DEF RemoveFirst, ToSet
    <2>2. QED
      BY <2>1
  <1>3. CASE \E i \in 1 .. Len(s) : s[i] = e
    <2> DEFINE I == {i \in 1 .. Len(s) : s[i] = e}
    <2>1. \E m \in I : \A k \in I : m <= k
      <3>1. I \in SUBSET Nat /\ I # {}
        BY <1>3, <1>1
      <3>2. QED
        BY <3>1, LeastNumber
    <2>2. PICK p \in I : p = SelectInSeq(s, LAMBDA v : v = e)
      BY <2>1, <1>3 DEF SelectInSeq, Min
    <2>3. t = SubSeq(s, 1, p - 1) \o SubSeq(s, p + 1, Len(s))
      BY <2>2, <1>3 DEF RemoveFirst, RemoveAt
    <2> DEFINE u == SubSeq(s, 1, p - 1)
               v == SubSeq(s, p + 1, Len(s))
    <2>4. u \in Seq(D) /\ Len(u) = p - 1 /\ \A i \in 1 .. p - 1 : u[i] = s[i]
      <3>1. 1 \in Int /\ p - 1 \in Int /\ \A i \in 1 .. p - 1 : s[i] \in D
        BY <1>1
      <3>2. QED
        BY <3>1, <1>1, SubSeqProperties
    <2>5. v \in Seq(D) /\ Len(v) = Len(s) - p /\ \A i \in 1 .. Len(s) - p : v[i] = s[p + i]
      <3>1. p + 1 \in Int /\ Len(s) \in Int /\ \A i \in p + 1 .. Len(s) : s[i] \in D
        BY <1>1
      <3>2. Len(s) \in Nat /\ p \in Nat /\ p <= Len(s)
        BY <1>1
      <3>3. Len(s) - (p + 1) + 1 = Len(s) - p /\ (p + 1 <= Len(s) \/ Len(s) - p = 0)
        <4> HIDE DEF I
        <4>1. QED
          BY ONLY <3>2
      <3>4. \A i \in 1 .. Len(s) - p : p + 1 + i - 1 = p + i
        BY <1>1
      <3>5. /\ v \in Seq(D) /\ Len(v) = IF p + 1 <= Len(s) THEN Len(s) - (p + 1) + 1 ELSE 0
            /\ \A i \in 1 .. Len(s) - (p + 1) + 1 : v[i] = s[p + 1 + i - 1]
        BY <3>1, SubSeqProperties
      <3>6. QED
        BY <3>3, <3>4, <3>5
    <2> HIDE DEF u, v, t, I
    <2>6. t \in Seq(D) /\ Len(t) = Len(s) - 1
          /\ \A i \in 1 .. Len(s) - 1 : t[i] = IF i < p THEN s[i] ELSE s[i + 1]
      <3>1. /\ u \o v \in Seq(D) /\ Len(u \o v) = Len(u) + Len(v)
            /\ \A i \in 1 .. Len(u) + Len(v) : (u \o v)[i] = IF i <= Len(u) THEN u[i] ELSE v[i - Len(u)]
        BY <2>4, <2>5, ConcatProperties
      <3>2. p \in 1 .. Len(s) /\ t = u \o v
        BY <2>3 DEF u, v, I
      <3>3. Len(u) + Len(v) = Len(s) - 1
        BY <3>2, <2>4, <2>5, <1>1
      <3>4. ASSUME NEW i \in 1 .. Len(s) - 1 PROVE t[i] = IF i < p THEN s[i] ELSE s[i + 1]
        <4>1. CASE i < p
          BY <4>1, <3>1, <3>2, <3>3, <2>4, <1>1
        <4>2. CASE ~(i < p)
          <5>1. i - Len(u) \in 1 .. Len(s) - p /\ p + (i - Len(u)) = i + 1
            BY <4>2, <3>2, <2>4, <1>1
          <5>2. t[i] = v[i - Len(u)]
            BY <4>2, <3>1, <3>2, <3>3, <2>4, <1>1
          <5>3. QED
            BY <5>1, <5>2, <4>2, <2>5
        <4>3. QED
          BY <4>1, <4>2
      <3>5. QED
        BY <3>1, <3>2, <3>3, <3>4
    <2>7. s[p] = e /\ p \in 1 .. Len(s) /\ DOMAIN t = 1 .. (Len(s) - 1)
      BY <2>6, LenProperties DEF I
    <2>8. Distinct(t)
      <3>1. SUFFICES ASSUME NEW i \in DOMAIN t, NEW j \in DOMAIN t, t[i] = t[j] PROVE i = j
        BY DEF Distinct
      <3>2. PICK a \in DOMAIN s : t[i] = s[a] /\ a = IF i < p THEN i ELSE i + 1
        BY <2>6, <2>7, <1>1
      <3>3. PICK b \in DOMAIN s : t[j] = s[b] /\ b = IF j < p THEN j ELSE j + 1
        BY <2>6, <2>7, <1>1
      <3>4. a = b
        BY <3>1, <3>2, <3>3 DEF Distinct
      <3>5. QED
        BY <3>2, <3>3, <3>4, <2>7, <1>1
    <2>9. ASSUME NEW x PROVE x \in ToSet(t) <=> x \in ToSet(s) \ {e}
      <3>1. ASSUME x \in ToSet(t) PROVE x \in ToSet(s) \ {e}
        <4>1. PICK i \in DOMAIN t : x = t[i]
          BY <3>1 DEF ToSet
        <4>2. PICK a \in DOMAIN s : x = s[a] /\ a # p
          BY <4>1, <2>6, <2>7, <1>1
        <4>3. QED
          BY <4>2, <2>7, <1>1 DEF Distinct, ToSet
      <3>2. ASSUME x \in ToSet(s), x # e PROVE x \in ToSet(t)
        <4>1. PICK a \in DOMAIN s : x = s[a]
          BY <3>2 DEF ToSet
        <4>2. a # p
          BY <4>1, <3>2, <2>7
        <4>3. PICK i \in DOMAIN t : a = IF i < p THEN i ELSE i + 1
          <5>1. CASE a < p
            BY <5>1, <2>7, <1>1
          <5>2. CASE a > p
            <6>1. a - 1 \in DOMAIN t /\ ~(a - 1 < p) /\ a = (a - 1) + 1
              BY <5>2, <2>7, <1>1
            <6>2. QED
              BY <6>1
          <5>3. QED
            BY <5>1, <5>2, <4>2, <2>7, <1>1
        <4>4. t[i] = x
          BY <4>1, <4>3, <2>6, <2>7
        <4>5. QED
          BY <4>4 DEF ToSet
      <3>3. QED
        BY <3>1, <3>2
    <2>10. QED
      BY <2>6, <2>8, <2>9 DEF t
  <1>4. QED
    BY <1>2, <1>3

-----------------------------------------------------------------------------
(* How a step moves a request. *)

\* Request k alone gets somewhere else, if any does.
Moved(k) ==
    /\ request' \in Seq(Asked) /\ Requests' = Requests
    /\ \A l \in Requests :
          /\ request'[l].id = request[l].id /\ request'[l].by = request[l].by
          /\ request'[l].process = request[l].process
          /\ l # k => request'[l].at = request[l].at

LEMMA RequestTypes ==
    ASSUME TypeOK
    PROVE  Requests \in SUBSET Nat /\ \A k \in Requests : request[k] \in Asked
  <1>1. request \in Seq(Asked)
    BY DEF TypeOK
  <1>2. Requests = 1 .. Len(request) /\ Len(request) \in Nat
    BY <1>1, LenProperties DEF Requests
  <1>3. QED
    BY <1>1, <1>2, ElementOfSeq

LEMMA Replaced ==
    ASSUME TypeOK, NEW k \in Requests, NEW r \in Asked,
           r.id = request[k].id, r.by = request[k].by, r.process = request[k].process,
           request' = [request EXCEPT ![k] = r]
    PROVE  Moved(k) /\ request'[k].at = r.at
  <1>1. request \in Seq(Asked)
    BY DEF TypeOK
  <1>2. Requests = 1 .. Len(request)
    BY <1>1, LenProperties DEF Requests
  <1>3. /\ request' \in Seq(Asked) /\ Len(request') = Len(request)
        /\ \A j \in 1 .. Len(request) : request'[j] = IF j = k THEN r ELSE request[j]
    BY <1>1, <1>2, ExceptSeq
  <1>4. Requests' = Requests
    BY <1>2, <1>3, LenProperties DEF Requests
  <1>5. QED
    BY <1>2, <1>3, <1>4 DEF Moved

LEMMA BecomesMoves ==
    ASSUME TypeOK, NEW k \in Requests, NEW at \in Ats, Becomes(k, at)
    PROVE  Moved(k) /\ request'[k].at = at
  <1> DEFINE r == [request[k] EXCEPT !.at = at, !.asking = Nobody,
                     !.tried = IF at \in {"verified", "placing"} THEN @ ELSE {}]
  <1>1. request[k] \in Asked
    BY RequestTypes
  <1>2. /\ r \in Asked /\ r.at = at
        /\ r.id = request[k].id /\ r.by = request[k].by /\ r.process = request[k].process
    BY <1>1 DEF Asked
  <1>3. request' = [request EXCEPT ![k] = r]
    BY DEF Becomes
  <1> HIDE DEF r
  <1>4. QED
    BY <1>2, <1>3, Replaced

-----------------------------------------------------------------------------
\* A run of request k.
RunOf(k, m) == [request |-> k, id |-> request[k].id, by |-> request[k].by,
                process |-> request[k].process, on |-> m]

\* From where a request was to where it is without more or fewer being let through.
Onwards(from, to) ==
    /\ to \in Open => from \in Open
    /\ to = "cut off" => from = "cut off"
    /\ to \in {"received", "verified"} => from \in {"received", "verified"}
    /\ to \in Active <=> from \in Active
    /\ from \in {"taken", "202", "504", "cut off"} => to \in {"taken", "202", "504", "cut off"}

\* A run is started for a request that was being placed, and for no other.
StartsAtMost(k) ==
    \/ started' = started
    \/ /\ request[k].at = "placing" /\ request'[k].at \in {"taken", "202", "504"}
       /\ \E m \in Members : started' = started \cup {RunOf(k, m)}

LEMMA GoesOn ==
    ASSUME DeliveryInv, NEW k \in Requests, Moved(k), Onwards(request[k].at, request'[k].at),
           StartsAtMost(k), UNCHANGED <<known, process, lapsed>>
    PROVE  DeliveryInv'
  <1> USE DEF DeliveryInv
  <1>1. \A l \in Requests : request[l] \in Asked
    BY RequestTypes
  <1>2. TypeOK'
    <2>1. started' \in SUBSET Started
      <3>1. CASE started' = started
        BY <3>1 DEF TypeOK
      <3>2. ASSUME NEW m \in Members PROVE RunOf(k, m) \in Started
        BY <1>1, RequestTypes DEF RunOf, Started, Asked
      <3>3. QED
        BY <3>1, <3>2 DEF StartsAtMost, TypeOK
    <2>2. QED
      BY <2>1 DEF TypeOK, Moved
  <1>3. OfItsProcess'
    BY DEF OfItsProcess, Moved, Onwards
  <1>4. RunIsRequests'
    <2>1. \A s \in started : s.request = k => request[k].at # "placing"
      BY DEF RunIsRequests
    <2>2. CASE started' = started
      BY <2>2 DEF RunIsRequests, Moved, Onwards
    <2>3. CASE started' # started
      <3>1. PICK m \in Members : started' = started \cup {RunOf(k, m)}
        BY <2>3 DEF StartsAtMost
      <3>2. request[k].at = "placing" /\ request'[k].at \in {"taken", "202", "504"}
        BY <2>3 DEF StartsAtMost
      <3>3. \A s \in started : s.request \in Requests \ {k}
        BY <2>1, <3>2 DEF RunIsRequests
      <3>4. \A s \in started : request'[s.request].at = request[s.request].at
        BY <3>3 DEF Moved
      <3>5. ASSUME NEW s \in started'
            PROVE  /\ s.request \in Requests
                   /\ s.id = request'[s.request].id /\ s.by = request'[s.request].by
                   /\ s.process = request'[s.request].process
                   /\ request'[s.request].at \in {"taken", "202", "504", "cut off"}
        <4>1. CASE s \in started
          BY <4>1, <3>4 DEF RunIsRequests, Moved
        <4>2. CASE s = RunOf(k, m)
          BY <4>2, <3>2 DEF RunOf, Moved
        <4>3. QED
          BY <4>1, <4>2, <3>1
      <3>6. ASSUME NEW s \in started', NEW t \in started', s.request = t.request PROVE s = t
        <4>1. RunOf(k, m).request = k
          BY DEF RunOf
        <4>2. QED
          BY <4>1, <3>1, <3>3, <3>6 DEF RunIsRequests
      <3>7. QED
        BY <3>5, <3>6 DEF RunIsRequests, Moved
    <2>4. QED
      BY <2>2, <2>3
  <1>5. PassedIsKnown'
    BY DEF PassedIsKnown, Knows, Moved, Onwards
  <1>6. \A l \in Requests : (Passed(l))' => Passed(l)
    <2>1. ASSUME NEW l \in Requests, NEW s \in started', s.request = l, s \notin started
          PROVE  l = k /\ request[k].at = "placing"
      BY <2>1 DEF StartsAtMost, RunOf
    <2>2. QED
      BY <2>1 DEF Passed, Moved, Onwards, Active
  <1>7. OnePasses'
    BY <1>6 DEF OnePasses, Alike, Moved
  <1>8. KnownIsAsked'
    <2>1. SUFFICES ASSUME NEW m \in Members, NEW i \in ToSet(known[m])
                   PROVE  i # ByHand /\ \E l \in Requests :
                             /\ request'[l].id = i /\ request'[l].by = m
                             /\ request'[l].process = process[m] /\ request'[l].at \in Active
      BY DEF KnownIsAsked, Moved
    <2>2. PICK l \in Requests : /\ i # ByHand /\ request[l].id = i /\ request[l].by = m
                               /\ request[l].process = process[m] /\ request[l].at \in Active
      BY DEF KnownIsAsked
    <2>3. request'[l].at \in Active
      BY <2>2 DEF Moved, Onwards
    <2>4. QED
      BY <2>2, <2>3 DEF Moved
  <1>9. KnownOnce'
    BY DEF KnownOnce
  <1>10. QED
    BY <1>2, <1>3, <1>4, <1>5, <1>7, <1>8, <1>9

\* What could not be placed is forgotten.
LEMMA GivesUp ==
    ASSUME DeliveryInv, NEW k \in Requests, request[k].at = "placing", Fails(k, "503"),
           UNCHANGED <<process, started, lapsed>>
    PROVE  DeliveryInv'
  <1> USE DEF DeliveryInv
  <1> DEFINE m == request[k].by
             id == request[k].id
  <1>1. \A l \in Requests : request[l] \in Asked
    BY RequestTypes
  <1>2. Moved(k) /\ request'[k].at = "503"
    BY BecomesMoves DEF Fails, Ats
  <1>3. m \in Members /\ known[m] \in Seq(Deliveries) /\ Distinct(known[m])
    BY <1>1 DEF Asked, TypeOK, KnownOnce, Distinct
  <1>4. known' = [known EXCEPT ![m] = IF id = ByHand THEN known[m] ELSE RemoveFirst(known[m], id)]
    BY <1>1 DEF Fails, Forgets
  <1>5. \A x \in ToSet(known[m]) : x # ByHand
    BY <1>3 DEF KnownIsAsked
  <1>6. /\ known'[m] \in Seq(Deliveries) /\ Distinct(known'[m])
        /\ ToSet(known'[m]) = ToSet(known[m]) \ {id}
    <2>1. ToSet(known[m]) \subseteq Deliveries
      BY <1>3, LenProperties, ElementOfSeq DEF ToSet
    <2>2. CASE id = ByHand
      <3>1. known'[m] = known[m]
        BY <2>2, <1>4, <1>3 DEF TypeOK
      <3>2. QED
        BY <3>1, <2>1, <2>2, <1>3, <1>5
    <2>3. CASE id # ByHand
      <3>1. known'[m] = RemoveFirst(known[m], id)
        BY <2>3, <1>4, <1>3 DEF TypeOK
      <3>2. QED
        BY <3>1, <1>3, RemoveOne
    <2>4. QED
      BY <2>2, <2>3
  <1>7. \A n \in Members : n # m => known'[n] = known[n]
    BY <1>4 DEF TypeOK
  <1>8. TypeOK'
    <2>1. known' \in [Members -> Seq(Deliveries)]
      <3>1. known' = [n \in Members |-> known'[n]]
        BY <1>4 DEF TypeOK
      <3>2. \A n \in Members : known'[n] \in Seq(Deliveries)
        BY <1>6, <1>7 DEF TypeOK
      <3>3. QED
        BY <3>1, <3>2
    <2>2. QED
      BY <2>1, <1>2 DEF TypeOK, Moved
  <1>9. OfItsProcess'
    BY <1>2 DEF OfItsProcess, Moved, Open
  <1>10. RunIsRequests'
    <2>1. \A s \in started : s.request # k
      BY DEF RunIsRequests
    <2>2. QED
      BY <2>1, <1>2 DEF RunIsRequests, Moved
  <1>11. \A l \in Requests : (Passed(l))' => Passed(l) /\ l # k
    <2>1. \A s \in started : s.request # k
      BY DEF RunIsRequests
    <2>2. QED
      BY <2>1, <1>2 DEF Passed, Moved, Active
  <1>12. PassedIsKnown'
    <2>1. SUFFICES ASSUME NEW l \in Requests, request'[l].at \in Active, request'[l].id # ByHand,
                          request'[l].process = process[request'[l].by]
                   PROVE  \/ request'[l].id \in ToSet(known'[request'[l].by])
                          \/ <<request'[l].by, request'[l].id>> \in lapsed
      BY <1>2 DEF PassedIsKnown, Knows, Moved
    <2>2. l # k
      BY <1>2, <2>1 DEF Active
    <2>3. /\ request'[l].id = request[l].id /\ request'[l].by = request[l].by
          /\ request'[l].process = request[l].process /\ request'[l].at = request[l].at
      BY <1>2, <2>2 DEF Moved
    <2>4. request[l].id \in ToSet(known[request[l].by]) \/ <<request[l].by, request[l].id>> \in lapsed
      BY <2>1, <2>3 DEF PassedIsKnown, Knows
    <2>5. CASE request[l].by = m /\ request[l].id = id
      <3>1. Alike(k, l)
        BY <2>1, <2>3, <2>5 DEF Alike, OfItsProcess, Open
      <3>2. Passed(k) /\ Passed(l)
        BY <2>1, <2>3 DEF Passed, Active
      <3>3. QED
        BY <3>1, <3>2, <2>2, <2>3, <2>5 DEF OnePasses
    <2>6. CASE ~(request[l].by = m /\ request[l].id = id)
      <3>1. request[l].by \in Members
        BY <1>1 DEF Asked
      <3>2. QED
        BY <2>3, <2>4, <2>6, <3>1, <1>6, <1>7
    <2>7. QED
      BY <2>5, <2>6
  <1>13. OnePasses'
    BY <1>11, <1>2 DEF OnePasses, Alike, Moved
  <1>14. KnownIsAsked'
    <2>1. SUFFICES ASSUME NEW n \in Members, NEW i \in ToSet(known'[n])
                   PROVE  i # ByHand /\ \E l \in Requests :
                             /\ request'[l].id = i /\ request'[l].by = n
                             /\ request'[l].process = process[n] /\ request'[l].at \in Active
      <3>1. Requests' = Requests /\ process' = process
        BY <1>2 DEF Moved
      <3>2. QED
        BY <3>1 DEF KnownIsAsked
    <2>2. i \in ToSet(known[n]) /\ (n = m => i # id)
      BY <1>6, <1>7
    <2>3. PICK l \in Requests : /\ i # ByHand /\ request[l].id = i /\ request[l].by = n
                               /\ request[l].process = process[n] /\ request[l].at \in Active
      BY <2>2 DEF KnownIsAsked
    <2>4. l # k
      BY <2>2, <2>3
    <2>5. QED
      BY <2>3, <2>4, <1>2 DEF Moved
  <1>15. KnownOnce'
    BY <1>6, <1>7 DEF KnownOnce, Distinct
  <1>16. QED
    BY <1>8, <1>9, <1>10, <1>12, <1>13, <1>14, <1>15

\* The first of its id is remembered, and may push another out.
LEMMA LetThrough ==
    ASSUME DeliveryInv, NEW k \in Requests, FirstDelivery(k), request'[k].at # "ignored"
    PROVE  DeliveryInv'
  <1> USE DEF DeliveryInv
  <1> DEFINE m == request[k].by
             id == request[k].id
             all == Append(known[m], id)
             keep == IF Len(all) > Remembered THEN Tail(all) ELSE all
  <1>1. \A l \in Requests : request[l] \in Asked
    BY RequestTypes
  <1>2. request[k].at = "verified" /\ id \in Deliveries \ {ByHand} /\ process[m] = request[k].process
    BY DEF FirstDelivery, OfItsProcess, Open
  <1>3. m \in Members /\ known[m] \in Seq(Deliveries) /\ Distinct(known[m])
    BY <1>1 DEF Asked, TypeOK, KnownOnce, Distinct
  <1>4. /\ id \notin ToSet(known[m]) /\ known' = [known EXCEPT ![m] = keep]
        /\ lapsed' = lapsed \cup {<<m, i>> : i \in ToSet(all) \ ToSet(keep)}
        /\ Moved(k) /\ request'[k].at = "placing"
    <2>1. CASE GitHubIgnored(id) \/ Contains(known[m], id)
      <3>1. Becomes(k, "ignored") /\ "ignored" \in Ats
        BY <2>1 DEF FirstDelivery, Ats
      <3>2. QED
        BY <3>1, BecomesMoves
    <2>2. CASE ~(GitHubIgnored(id) \/ Contains(known[m], id))
      <3>1. Becomes(k, "placing") /\ "placing" \in Ats
        BY <2>2 DEF FirstDelivery, Ats
      <3>2. Moved(k) /\ request'[k].at = "placing"
        BY <3>1, BecomesMoves
      <3>3. id \notin ToSet(known[m])
        BY <2>2, <1>3, LenProperties DEF Contains, ToSet
      <3>4. known' = [known EXCEPT ![m] = keep]
            /\ lapsed' = lapsed \cup {<<m, i>> : i \in ToSet(all) \ ToSet(keep)}
        BY <2>2 DEF FirstDelivery
      <3>5. QED
        BY <3>2, <3>3, <3>4
    <2>3. QED
      BY <2>1, <2>2
  <1>5. UNCHANGED <<process, started>>
    BY DEF FirstDelivery
  <1>6. /\ all \in Seq(Deliveries) /\ Distinct(all) /\ all # <<>>
        /\ ToSet(all) = ToSet(known[m]) \cup {id}
    BY <1>2, <1>3, <1>4, AppendOne
  <1>7. keep \in Seq(Deliveries) /\ Distinct(keep) /\ ToSet(keep) \subseteq ToSet(all)
    BY <1>6, TailOf
  <1> HIDE DEF all, keep
  <1>8. known'[m] = keep /\ \A n \in Members : n # m => known'[n] = known[n]
    BY <1>3, <1>4 DEF TypeOK
  <1>9. TypeOK'
    <2>1. known' = [n \in Members |-> known'[n]]
      BY <1>4 DEF TypeOK
    <2>2. \A n \in Members : known'[n] \in Seq(Deliveries)
      BY <1>7, <1>8 DEF TypeOK
    <2>3. known' \in [Members -> Seq(Deliveries)]
      BY <2>1, <2>2
    <2>4. QED
      BY <2>3, <1>4, <1>5 DEF TypeOK, Moved
  <1>10. OfItsProcess'
    BY <1>2, <1>4, <1>5 DEF OfItsProcess, Moved, Open
  <1>11. \A s \in started : s.request # k
    BY <1>2 DEF RunIsRequests
  <1>12. RunIsRequests'
    BY <1>4, <1>5, <1>11 DEF RunIsRequests, Moved
  <1>13. ASSUME NEW i, i \in ToSet(all)
         PROVE  i \in ToSet(known'[m]) \/ <<m, i>> \in lapsed'
    BY <1>4, <1>8, <1>13
  <1>14. PassedIsKnown'
    <2>1. SUFFICES ASSUME NEW l \in Requests, request'[l].at \in Active, request'[l].id # ByHand,
                          request'[l].process = process[request'[l].by]
                   PROVE  \/ request'[l].id \in ToSet(known'[request'[l].by])
                          \/ <<request'[l].by, request'[l].id>> \in lapsed'
      BY <1>4, <1>5 DEF PassedIsKnown, Knows, Moved
    <2>2. request'[l].id = request[l].id /\ request'[l].by = request[l].by
      BY <1>4 DEF Moved
    <2>3. CASE l = k
      BY <2>2, <2>3, <1>6, <1>13
    <2>4. CASE l # k
      <3>1. request[l].id \in ToSet(known[request[l].by]) \/ <<request[l].by, request[l].id>> \in lapsed
        BY <2>1, <2>4, <1>4 DEF PassedIsKnown, Knows, Moved
      <3>2. request[l].by \in Members
        BY <1>1 DEF Asked
      <3>3. QED
        BY <3>1, <3>2, <2>2, <1>4, <1>6, <1>8, <1>13
    <2>5. QED
      BY <2>3, <2>4
  <1>15. ASSUME NEW l \in Requests, l # k, Passed(l), Alike(k, l)
         PROVE  <<m, id>> \in lapsed
    <2>1. request[l].process = process[request[l].by]
      BY <1>2, <1>15 DEF Alike
    <2>2. request[l].at # "cut off"
      <3>1. process[request[l].by] \in Nat
        BY <1>1 DEF TypeOK, Asked
      <3>2. request[l].at = "cut off" => request[l].process < process[request[l].by]
        BY DEF OfItsProcess
      <3>3. \A x \in Nat : ~(x < x)
        OBVIOUS
      <3>4. QED
        BY <3>1, <3>2, <3>3, <2>1
    <2>3. request[l].at \in Active
      BY <2>2, <1>15 DEF Passed, RunIsRequests, Active
    <2>4. QED
      BY <2>1, <2>3, <1>4, <1>15 DEF PassedIsKnown, Knows, Alike
  <1>16. OnePasses'
    <2>1. SUFFICES ASSUME NEW a \in Requests, NEW b \in Requests, (Passed(a))', (Passed(b))',
                          (Alike(a, b))', a # b
                   PROVE  <<request'[a].by, request'[a].id>> \in lapsed'
      BY <1>4 DEF OnePasses, Moved
    <2>2. Alike(a, b) /\ request'[a].by = request[a].by /\ request'[a].id = request[a].id
      BY <2>1, <1>4 DEF Alike, Moved
    <2>3. \A c \in Requests \ {k} : (Passed(c))' => Passed(c)
      BY <1>4, <1>5 DEF Passed, Moved
    <2>4. CASE a # k /\ b # k
      BY <2>1, <2>2, <2>3, <2>4, <1>4 DEF OnePasses
    <2>5. CASE a = k
      BY <2>1, <2>2, <2>3, <2>5, <1>15, <1>4
    <2>6. CASE b = k
      <3>1. Alike(k, a)
        BY <2>2, <2>6 DEF Alike
      <3>2. QED
        BY <3>1, <2>1, <2>2, <2>3, <2>6, <1>15, <1>4 DEF Alike
    <2>7. QED
      BY <2>4, <2>5, <2>6
  <1>17. KnownIsAsked'
    <2>1. SUFFICES ASSUME NEW n \in Members, NEW i \in ToSet(known'[n])
                   PROVE  i # ByHand /\ \E l \in Requests :
                             /\ request'[l].id = i /\ request'[l].by = n
                             /\ request'[l].process = process[n] /\ request'[l].at \in Active
      BY <1>4, <1>5 DEF KnownIsAsked, Moved
    <2>2. CASE n = m /\ i = id
      BY <2>2, <1>2, <1>4 DEF Moved, Active
    <2>3. CASE ~(n = m /\ i = id)
      <3>1. i \in ToSet(known[n])
        BY <2>1, <2>3, <1>6, <1>7, <1>8
      <3>2. PICK l \in Requests : /\ i # ByHand /\ request[l].id = i /\ request[l].by = n
                                 /\ request[l].process = process[n] /\ request[l].at \in Active
        BY <3>1 DEF KnownIsAsked
      <3>3. l # k
        BY <3>2, <1>2 DEF Active
      <3>4. QED
        BY <3>2, <3>3, <1>4 DEF Moved
    <2>4. QED
      BY <2>2, <2>3
  <1>18. KnownOnce'
    BY <1>7, <1>8 DEF KnownOnce, Distinct
  <1>19. QED
    BY <1>9, <1>10, <1>12, <1>14, <1>16, <1>17, <1>18

LEMMA ArrivesKeeps ==
    ASSUME DeliveryInv, NEW m \in Members, NEW id \in Deliveries \cup {ByHand}, Arrives(m, id)
    PROVE  DeliveryInv'
  <1> USE DEF DeliveryInv
  <1> DEFINE new == [id |-> id, by |-> m, process |-> process[m],
                     at |-> IF id = ByHand THEN "placing" ELSE "received",
                     tried |-> {}, asking |-> Nobody]
  <1>1. request \in Seq(Asked) /\ new \in Asked
    BY DEF TypeOK, Asked, Ats
  <1>2. known' = known /\ process' = process /\ started' = started /\ lapsed' = lapsed
    BY DEF Arrives
  <1>3. request' = Append(request, new)
    BY DEF Arrives
  <1>4. /\ new.id = id /\ new.by = m /\ new.process = process[m] /\ process[m] \in Nat
        /\ new.at = "placing" \/ (new.at = "received" /\ new.id # ByHand)
        /\ new.at = "placing" => new.id = ByHand
    BY DEF TypeOK
  <1> HIDE DEF new
  <1>5. /\ request' \in Seq(Asked) /\ Len(request') = Len(request) + 1
        /\ \A i \in 1 .. Len(request) : request'[i] = request[i]
        /\ request'[Len(request) + 1] = new
    BY <1>1, <1>3, AppendProperties
  <1>6. Requests = 1 .. Len(request) /\ Requests' = 1 .. Len(request') /\ Len(request) \in Nat
    BY <1>1, <1>5, LenProperties DEF Requests
  <1>7. PICK n : n = Len(request) + 1
    OBVIOUS
  <1>8. /\ Requests' = Requests \cup {n} /\ n \notin Requests /\ request'[n] = new
        /\ \A k \in Requests : request'[k] = request[k]
    BY <1>5, <1>6, <1>7
  <1>9. TypeOK'
    BY <1>2, <1>5 DEF TypeOK
  <1>10. OfItsProcess'
    <2>1. new.id \in Deliveries \cup {ByHand} /\ (new.at = "received" => new.id \in Deliveries \ {ByHand})
      BY <1>4
    <2>2. /\ new.process <= process[new.by] /\ new.process = process[new.by]
          /\ new.at # "cut off" /\ new.at # "verified"
      <3>1. process[m] <= process[m]
        BY <1>4
      <3>2. new.process <= process[new.by] /\ new.process = process[new.by]
        BY <1>4, <3>1, Zenon
      <3>3. QED
        BY <1>4, <3>2
    <2>3. SUFFICES ASSUME NEW k \in Requests \cup {n}
                   PROVE  /\ request'[k].process <= process[request'[k].by]
                          /\ request'[k].at \in Open => request'[k].process = process[request'[k].by]
                          /\ request'[k].at = "cut off" => request'[k].process < process[request'[k].by]
                          /\ request'[k].at \in {"received", "verified"} => request'[k].id \in Deliveries \ {ByHand}
      BY <1>2, <1>8 DEF OfItsProcess
    <2>4. CASE k = n
      BY <2>1, <2>2, <2>4, <1>8
    <2>5. CASE k \in Requests
      BY <2>5, <1>8 DEF OfItsProcess
    <2>6. QED
      BY <2>4, <2>5
  <1>11. RunIsRequests'
    BY <1>2, <1>8 DEF RunIsRequests
  <1>12. PassedIsKnown'
    BY <1>2, <1>4, <1>8 DEF PassedIsKnown, Knows, Active
  <1>13. OnePasses'
    <2>1. \A s \in started : s.request # n
      BY <1>8 DEF RunIsRequests
    <2>2. (Passed(n))' => new.id = ByHand
      BY <2>1, <1>2, <1>4, <1>8 DEF Passed, Active
    <2>3. \A k \in Requests : (Passed(k))' <=> Passed(k)
      BY <1>2, <1>8 DEF Passed
    <2>4. \A k, l \in Requests : (Alike(k, l))' <=> Alike(k, l)
      BY <1>8 DEF Alike
    <2>5. \A k \in Requests' : (Passed(n))' => ~(Alike(k, n))' /\ ~(Alike(n, k))'
      BY <2>2, <1>8 DEF Alike
    <2>6. QED
      BY <2>3, <2>4, <2>5, <1>2, <1>8 DEF OnePasses
  <1>14. KnownIsAsked'
    BY <1>2, <1>8 DEF KnownIsAsked
  <1>15. KnownOnce'
    BY <1>2 DEF KnownOnce
  <1>16. QED
    BY <1>9, <1>10, <1>11, <1>12, <1>13, <1>14, <1>15

\* A process that ends takes its open requests and what it remembers with it.
LEMMA RestartKeeps ==
    ASSUME DeliveryInv, NEW m \in Members, Restart(m)
    PROVE  DeliveryInv'
  <1> USE DEF DeliveryInv
  <1>1. \A l \in Requests : request[l] \in Asked
    BY RequestTypes
  <1> DEFINE Cut(k) == request[k].by = m /\ request[k].at \in Open
  <1>2. /\ started' = started /\ lapsed' = lapsed
        /\ known' = [known EXCEPT ![m] = <<>>] /\ process' = [process EXCEPT ![m] = @ + 1]
    BY DEF Restart
  <1>3. /\ known'[m] = <<>> /\ process[m] \in Nat /\ process'[m] = process[m] + 1
        /\ \A n \in Members : n # m => known'[n] = known[n] /\ process'[n] = process[n]
    BY <1>2 DEF TypeOK
  <1>4. request' = [k \in Requests |->
           IF Cut(k) THEN [request[k] EXCEPT !.at = "cut off", !.asking = Nobody, !.tried = {}]
           ELSE request[k]]
    BY DEF Restart, Open
  <1>5. \A k \in Requests :
          /\ request'[k] \in Asked /\ request'[k].id = request[k].id
          /\ request'[k].by = request[k].by /\ request'[k].process = request[k].process
          /\ request'[k].at = IF Cut(k) THEN "cut off" ELSE request[k].at
    <2>1. SUFFICES ASSUME NEW k \in Requests
                   PROVE  /\ request'[k] \in Asked /\ request'[k].id = request[k].id
                          /\ request'[k].by = request[k].by
                          /\ request'[k].process = request[k].process
                          /\ request'[k].at = IF Cut(k) THEN "cut off" ELSE request[k].at
      OBVIOUS
    <2> DEFINE r == [request[k] EXCEPT !.at = "cut off", !.asking = Nobody, !.tried = {}]
    <2>2. /\ r \in Asked /\ r.id = request[k].id /\ r.by = request[k].by
          /\ r.process = request[k].process /\ r.at = "cut off"
      BY <1>1 DEF Asked, Ats
    <2>3. request'[k] = IF Cut(k) THEN r ELSE request[k]
      BY <1>4
    <2> HIDE DEF r, Cut
    <2>4. QED
      BY <2>2, <2>3, <1>1
  <1>6. Requests' = Requests /\ request' \in Seq(Asked)
    <2>1. request \in Seq(Asked) /\ Requests = 1 .. Len(request) /\ Len(request) \in Nat
      BY LenProperties DEF TypeOK, Requests
    <2>2. Requests' = Requests
      BY <1>4 DEF Requests
    <2>3. request' \in [1 .. Len(request) -> Asked]
      BY <1>4, <1>5, <2>1
    <2>4. QED
      BY <2>1, <2>2, <2>3, SeqDef
  <1> HIDE DEF Cut
  <1>7. TypeOK'
    <2>1. <<>> \in Seq(Deliveries)
      BY EmptySeq
    <2>2. QED
      BY <2>1, <1>2, <1>3, <1>6 DEF TypeOK
  <1>8. OfItsProcess'
    <2>1. SUFFICES ASSUME NEW k \in Requests
                   PROVE  /\ request'[k].process <= process'[request'[k].by]
                          /\ request'[k].at \in Open => request'[k].process = process'[request'[k].by]
                          /\ request'[k].at = "cut off" => request'[k].process < process'[request'[k].by]
                          /\ request'[k].at \in {"received", "verified"} => request'[k].id \in Deliveries \ {ByHand}
      BY <1>6 DEF OfItsProcess
    <2>2. request[k].by \in Members /\ request[k].process \in Nat
      BY <1>1 DEF Asked
    <2>3. CASE request[k].by = m
      <3>1. /\ process[m] \in Nat /\ request[k].process <= process[m]
            /\ process'[request'[k].by] = process[m] + 1
        BY <2>3, <1>3, <1>5 DEF OfItsProcess
      <3>2. request[k].process <= process[m] + 1 /\ request[k].process < process[m] + 1
        BY <3>1, <2>2
      <3>3. request'[k].process = request[k].process
        BY <1>5
      <3>4. /\ request'[k].process <= process'[request'[k].by]
            /\ request'[k].process < process'[request'[k].by]
        BY <3>1, <3>2, <3>3, Zenon
      <3>5. request'[k].at \notin Open
        BY <2>3, <1>5 DEF Cut, Open
      <3>6. request'[k].at \notin {"received", "verified"}
        BY <3>5 DEF Open
      <3>7. QED
        BY <3>4, <3>5, <3>6, Zenon
    <2>4. CASE request[k].by # m
      BY <2>2, <2>4, <1>3, <1>5 DEF OfItsProcess, Cut
    <2>5. QED
      BY <2>3, <2>4
  <1>9. RunIsRequests'
    BY <1>2, <1>5, <1>6 DEF RunIsRequests
  <1>10. \A k \in Requests : request'[k].process = process'[request'[k].by] => request[k].by # m
    <2>1. SUFFICES ASSUME NEW k \in Requests, request'[k].process = process'[request'[k].by],
                          request[k].by = m
                   PROVE  FALSE
      OBVIOUS
    <2>2. request[k].process = process[m] + 1
      BY <2>1, <1>3, <1>5
    <2>3. request[k].process <= process[m]
      BY <2>1 DEF OfItsProcess
    <2>4. QED
      BY <2>2, <2>3, <1>3
  <1>11. PassedIsKnown'
    <2>1. SUFFICES ASSUME NEW k \in Requests, request'[k].at \in Active, request'[k].id # ByHand,
                          request'[k].process = process'[request'[k].by]
                   PROVE  \/ request'[k].id \in ToSet(known'[request'[k].by])
                          \/ <<request'[k].by, request'[k].id>> \in lapsed
      BY <1>2, <1>6 DEF PassedIsKnown, Knows
    <2>2. request[k].by \in Members /\ request[k].by # m
      BY <2>1, <1>1, <1>10 DEF Asked
    <2>3. request'[k].at = request[k].at /\ request'[k].by = request[k].by /\ request'[k].id = request[k].id
          /\ request[k].process = process[request[k].by]
      BY <2>1, <2>2, <1>3, <1>5 DEF Cut
    <2>4. QED
      BY <2>1, <2>2, <2>3, <1>3 DEF PassedIsKnown, Knows
  <1>12. \A k \in Requests : (Passed(k))' => Passed(k)
    BY <1>2, <1>5 DEF Passed, Active
  <1>13. OnePasses'
    <2>1. \A k, l \in Requests : (Alike(k, l))' => Alike(k, l)
      BY <1>5 DEF Alike
    <2>2. SUFFICES ASSUME NEW k \in Requests, NEW l \in Requests, (Passed(k))', (Passed(l))',
                          (Alike(k, l))', k # l
                   PROVE  <<request'[k].by, request'[k].id>> \in lapsed
      BY <1>2, <1>6 DEF OnePasses
    <2>3. QED
      BY <2>1, <2>2, <1>5, <1>12 DEF OnePasses
  <1>14. KnownIsAsked'
    <2>1. SUFFICES ASSUME NEW n \in Members, NEW i \in ToSet(known'[n])
                   PROVE  i # ByHand /\ \E l \in Requests :
                             /\ request'[l].id = i /\ request'[l].by = n
                             /\ request'[l].process = process'[n] /\ request'[l].at \in Active
      <3>1. Requests' = Requests
        BY <1>6
      <3>2. QED
        BY <3>1 DEF KnownIsAsked
    <2>2. n # m
      BY <2>1, <1>3 DEF ToSet
    <2>3. PICK l \in Requests : /\ i # ByHand /\ request[l].id = i /\ request[l].by = n
                               /\ request[l].process = process[n] /\ request[l].at \in Active
      BY <2>1, <2>2, <1>3 DEF KnownIsAsked
    <2>4. QED
      BY <2>2, <2>3, <1>3, <1>5 DEF Cut
  <1>15. KnownOnce'
    BY <1>3 DEF KnownOnce
  <1>16. QED
    BY <1>7, <1>8, <1>9, <1>11, <1>13, <1>14, <1>15

-----------------------------------------------------------------------------
LEMMA DeliveryInit == ASSUME Init PROVE DeliveryInv
  <1>1. request = <<>> /\ request \in Seq(Asked) /\ Requests = {}
    BY EmptySeq DEF Init, Requests
  <1>2. \A m \in Members : known[m] = <<>> /\ ToSet(known[m]) = {}
    BY DEF Init, ToSet
  <1>3. <<>> \in Seq(Deliveries)
    BY EmptySeq
  <1>4. TypeOK
    BY <1>1, <1>3 DEF Init, TypeOK
  <1>5. KnownIsAsked /\ KnownOnce
    <2>1. KnownIsAsked
      BY <1>2 DEF KnownIsAsked
    <2>2. ASSUME NEW m \in Members, NEW i \in DOMAIN known[m] PROVE FALSE
      BY <1>2, <2>2 DEF ToSet
    <2>3. KnownOnce
      BY <2>2 DEF KnownOnce
    <2>4. QED
      BY <2>1, <2>3
  <1>6. OfItsProcess /\ RunIsRequests /\ PassedIsKnown /\ OnePasses
    BY <1>1 DEF Init, OfItsProcess, RunIsRequests, PassedIsKnown, OnePasses
  <1>7. QED
    BY <1>4, <1>5, <1>6 DEF DeliveryInv

\* A run that a member takes on for request k, which goes on to at.
LEMMA RunStarts ==
    ASSUME DeliveryInv, NEW k \in Requests, request[k].at = "placing", NEW m \in Members, Runs(m, k),
           Moved(k), request'[k].at \in {"taken", "202", "504"},
           UNCHANGED <<known, process, lapsed>>
    PROVE  DeliveryInv'
  <1>1. Onwards(request[k].at, request'[k].at)
    BY DEF Onwards, Open, Active
  <1>2. StartsAtMost(k)
    BY DEF StartsAtMost, Runs, RunOf
  <1>3. QED
    BY <1>1, <1>2, GoesOn

\* A step that only has request k asked elsewhere.
LEMMA AsksOn ==
    ASSUME DeliveryInv, NEW k \in Requests, NEW asking \in Members \cup {Nobody},
           NEW tried \in SUBSET Members,
           request' = [request EXCEPT ![k] = [request[k] EXCEPT !.asking = asking, !.tried = tried]],
           UNCHANGED <<known, process, started, lapsed>>
    PROVE  DeliveryInv'
  <1> DEFINE r == [request[k] EXCEPT !.asking = asking, !.tried = tried]
  <1>1. TypeOK /\ request[k] \in Asked
    BY RequestTypes DEF DeliveryInv
  <1>2. /\ r \in Asked /\ r.at = request[k].at
        /\ r.id = request[k].id /\ r.by = request[k].by /\ r.process = request[k].process
    BY <1>1 DEF Asked
  <1>3. request' = [request EXCEPT ![k] = r]
    OBVIOUS
  <1> HIDE DEF r
  <1>4. Moved(k) /\ request'[k].at = request[k].at
    BY <1>1, <1>2, <1>3, Replaced
  <1>5. Onwards(request[k].at, request'[k].at) /\ StartsAtMost(k)
    BY <1>4 DEF Onwards, StartsAtMost
  <1>6. QED
    BY <1>4, <1>5, GoesOn

\* Request k goes to at, and nothing is started.
LEMMA BecomesOnwards ==
    ASSUME DeliveryInv, NEW k \in Requests, NEW at \in Ats, Becomes(k, at),
           Onwards(request[k].at, at), UNCHANGED <<known, process, started, lapsed>>
    PROVE  DeliveryInv'
  <1>1. Moved(k) /\ request'[k].at = at
    BY BecomesMoves DEF DeliveryInv
  <1>2. QED
    BY <1>1, GoesOn DEF StartsAtMost

\* What may have been taken stays remembered.
LEMMA KeepsKnowing ==
    ASSUME DeliveryInv, NEW k \in Requests, Fails(k, "504")
    PROVE  known' = known /\ Moved(k) /\ request'[k].at = "504"
  <1>1. Becomes(k, "504") /\ "504" \in Ats /\ TypeOK
    BY DEF Fails, Ats, DeliveryInv
  <1>2. Moved(k) /\ request'[k].at = "504"
    BY <1>1, BecomesMoves
  <1>3. known' = [known EXCEPT ![request[k].by] =
                    IF request[k].id = ByHand THEN @ ELSE known[request[k].by]]
    BY DEF Fails, Forgets
  <1>4. known' = known
    BY <1>1, <1>3 DEF TypeOK
  <1>5. QED
    BY <1>2, <1>4

LEMMA NothingMoves ==
    ASSUME DeliveryInv, UNCHANGED <<known, process, request, started, lapsed>>
    PROVE  DeliveryInv'
  <1> USE DEF DeliveryInv
  <1>1. TypeOK' /\ OfItsProcess'
    BY DEF TypeOK, OfItsProcess, Requests
  <1>2. RunIsRequests' /\ PassedIsKnown'
    BY DEF RunIsRequests, PassedIsKnown, Requests, Knows
  <1>3. OnePasses'
    BY DEF OnePasses, Passed, Alike, Requests
  <1>4. KnownIsAsked' /\ KnownOnce'
    BY DEF KnownIsAsked, KnownOnce, Requests
  <1>5. QED
    BY <1>1, <1>2, <1>3, <1>4

LEMMA DeliveryNext == ASSUME DeliveryInv, Next PROVE DeliveryInv'
  <1> USE DEF DeliveryInv
  <1>1. \A k \in Requests : request[k] \in Asked
    BY RequestTypes
  <1>2. ASSUME NEW m \in Members, NEW id \in Deliveries \cup {ByHand}, Arrives(m, id)
        PROVE  DeliveryInv'
    BY <1>2, ArrivesKeeps
  <1>3. ASSUME NEW m \in Members, Restart(m) PROVE DeliveryInv'
    BY <1>3, RestartKeeps
  <1>4. ASSUME NEW k \in Requests, NEW m \in Members, Forwards(k, m) PROVE DeliveryInv'
    <2> DEFINE tried == request[k].tried \cup {m}
    <2>1. tried \in SUBSET Members /\ m \in Members \cup {Nobody}
      BY <1>1 DEF Asked
    <2>2. request' = [request EXCEPT ![k] = [request[k] EXCEPT !.asking = m, !.tried = tried]]
      BY <1>4 DEF Forwards
    <2>3. UNCHANGED <<known, process, started, lapsed>>
      BY <1>4 DEF Forwards
    <2> HIDE DEF tried
    <2>4. QED
      BY <2>1, <2>2, <2>3, AsksOn
  <1>5. ASSUME NEW k \in Requests, PassedOver(k) PROVE DeliveryInv'
    <2> DEFINE tried == request[k].tried
    <2>1. tried \in SUBSET Members /\ Nobody \in Members \cup {Nobody}
      BY <1>1 DEF Asked
    <2>2. request' = [request EXCEPT ![k] = [request[k] EXCEPT !.asking = Nobody, !.tried = tried]]
      <3>1. request' = [request EXCEPT ![k] = [request[k] EXCEPT !.asking = Nobody]]
        BY <1>5 DEF PassedOver
      <3>2. [request[k] EXCEPT !.asking = Nobody, !.tried = tried] = [request[k] EXCEPT !.asking = Nobody]
        BY <1>1 DEF Asked
      <3>3. QED
        BY <3>1, <3>2
    <2>3. UNCHANGED <<known, process, started, lapsed>>
      BY <1>5 DEF PassedOver
    <2> HIDE DEF tried
    <2>4. QED
      BY <2>1, <2>2, <2>3, AsksOn
  <1>6. ASSUME NEW k \in Requests, RefusesHere(k) PROVE DeliveryInv'
    <2> DEFINE tried == request[k].tried \cup {request[k].by}
               asking == request[k].asking
    <2>1. UNCHANGED <<process, started, lapsed>> /\ request[k].at = "placing"
      BY <1>6 DEF RefusesHere
    <2>2. CASE Fails(k, "503")
      BY <2>1, <2>2, GivesUp
    <2>3. CASE ~Fails(k, "503")
      <3>1. tried \in SUBSET Members /\ asking \in Members \cup {Nobody}
        BY <1>1 DEF Asked
      <3>2. request' = [request EXCEPT ![k] = [request[k] EXCEPT !.asking = asking, !.tried = tried]]
        <4>1. request' = [request EXCEPT ![k] = [request[k] EXCEPT !.tried = tried]]
          BY <1>6, <2>3 DEF RefusesHere
        <4>2. [request[k] EXCEPT !.asking = asking, !.tried = tried] = [request[k] EXCEPT !.tried = tried]
          BY <1>1 DEF Asked
        <4>3. QED
          BY <4>1, <4>2
      <3>3. known' = known
        BY <1>6, <2>3 DEF RefusesHere
      <3> HIDE DEF tried, asking
      <3>4. QED
        BY <2>1, <3>1, <3>2, <3>3, AsksOn
    <2>4. QED
      BY <2>2, <2>3
  <1>7. ASSUME NEW k \in Requests, Overlaps(k) PROVE DeliveryInv'
    BY <1>7, GivesUp DEF Overlaps
  <1>8. ASSUME NEW k \in Requests, Unplaced(k) PROVE DeliveryInv'
    BY <1>8, GivesUp DEF Unplaced
  <1>9. ASSUME NEW k \in Requests, Verified(k) PROVE DeliveryInv'
    <2>1. PICK at \in {"verified", "403"} : Becomes(k, at)
      BY <1>9 DEF Verified
    <2>2. at \in Ats /\ Onwards(request[k].at, at)
      BY <1>9 DEF Verified, Ats, Onwards, Open, Active
    <2>3. UNCHANGED <<known, process, started, lapsed>>
      BY <1>9 DEF Verified
    <2>4. QED
      BY <2>1, <2>2, <2>3, BecomesOnwards
  <1>10. ASSUME NEW k \in Requests, FirstDelivery(k) PROVE DeliveryInv'
    <2>1. CASE request'[k].at # "ignored"
      BY <1>10, <2>1, LetThrough
    <2>2. CASE request'[k].at = "ignored"
      <3>1. ~Becomes(k, "placing")
        BY <2>2, BecomesMoves DEF Ats
      <3>2. Becomes(k, "ignored") /\ UNCHANGED <<known, lapsed, process, started>>
        BY <1>10, <3>1 DEF FirstDelivery
      <3>3. "ignored" \in Ats /\ Onwards(request[k].at, "ignored")
        BY <1>10 DEF FirstDelivery, Ats, Onwards, Open, Active
      <3>4. QED
        BY <3>2, <3>3, BecomesOnwards
    <2>3. QED
      BY <2>1, <2>2
  <1>11. ASSUME NEW k \in Requests, RunsHere(k) PROVE DeliveryInv'
    <2>1. Moved(k) /\ request'[k].at = "202"
      BY <1>11, BecomesMoves DEF RunsHere, Ats
    <2>2. request[k].by \in Members
      BY <1>1 DEF Asked
    <2>3. QED
      BY <1>11, <2>1, <2>2, RunStarts DEF RunsHere
  <1>12. ASSUME NEW k \in Requests, Takes(k) PROVE DeliveryInv'
    <2> DEFINE r == [request[k] EXCEPT !.at = "taken"]
    <2>1. /\ r \in Asked /\ r.at = "taken"
          /\ r.id = request[k].id /\ r.by = request[k].by /\ r.process = request[k].process
      BY <1>1 DEF Asked, Ats
    <2>2. request' = [request EXCEPT ![k] = r]
      BY <1>12 DEF Takes
    <2> HIDE DEF r
    <2>3. Moved(k) /\ request'[k].at = "taken"
      BY <2>1, <2>2, Replaced
    <2>4. request[k].asking \in Members
      BY <1>1, <1>12 DEF Asked, Takes
    <2>5. QED
      BY <1>12, <2>3, <2>4, RunStarts DEF Takes
  <1>13. ASSUME NEW k \in Requests, TookIt(k) PROVE DeliveryInv'
    <2>1. "202" \in Ats /\ Onwards(request[k].at, "202")
      BY <1>13 DEF TookIt, Ats, Onwards, Open, Active
    <2>2. QED
      BY <1>13, <2>1, BecomesOnwards DEF TookIt
  <1>14. ASSUME NEW k \in Requests, Unanswered(k) PROVE DeliveryInv'
    <2>1. known' = known /\ Moved(k) /\ request'[k].at = "504"
      BY <1>14, KeepsKnowing DEF Unanswered
    <2>2. UNCHANGED <<process, lapsed>> /\ request[k].at \in {"placing", "taken"}
      BY <1>14 DEF Unanswered
    <2>3. CASE started' = started
      <3>1. Onwards(request[k].at, request'[k].at)
        BY <2>1, <2>2 DEF Onwards, Open, Active
      <3>2. QED
        BY <2>1, <2>2, <2>3, <3>1, GoesOn DEF StartsAtMost
    <2>4. CASE started' # started
      <3>1. request[k].at = "placing" /\ Runs(request[k].asking, k) /\ request[k].asking # Nobody
        BY <1>14, <2>4 DEF Unanswered
      <3>2. request[k].asking \in Members
        BY <1>1, <3>1 DEF Asked
      <3>3. QED
        BY <2>1, <2>2, <3>1, <3>2, RunStarts
    <2>5. QED
      BY <2>3, <2>4
  <1>15. ASSUME NEW m \in Members, NEW k \in Requests, RunEnds(m, k) PROVE DeliveryInv'
    BY <1>15, NothingMoves DEF RunEnds
  <1>16. ASSUME NEW new \in Webhooks, EditWebhook(new) PROVE DeliveryInv'
    BY <1>16, NothingMoves DEF EditWebhook
  <1>17. QED
    BY <1>2, <1>3, <1>4, <1>5, <1>6, <1>7, <1>8, <1>9, <1>10, <1>11, <1>12, <1>13, <1>14, <1>15, <1>16
       DEF Next

LEMMA DeliveryStep == ASSUME DeliveryInv, [Next]_triggerVars PROVE DeliveryInv'
  <1>1. CASE Next
    BY <1>1, DeliveryNext
  <1>2. CASE UNCHANGED triggerVars
    BY <1>2, NothingMoves DEF triggerVars
  <1>3. QED
    BY <1>1, <1>2

\* The invariant gives what the forge may count on.
LEMMA DeliveryGives == ASSUME DeliveryInv PROVE DeliveredOnce
  <1> USE DEF DeliveryInv
  <1>1. ASSUME NEW s \in started, NEW t \in started, s.id = t.id, s.id # ByHand, s.by = t.by,
               s.process = t.process, <<s.by, s.id>> \notin lapsed
        PROVE  s = t
    <2>1. s.request \in Requests /\ t.request \in Requests /\ Alike(s.request, t.request)
      BY <1>1 DEF RunIsRequests, Alike
    <2>2. Passed(s.request) /\ Passed(t.request)
      BY DEF Passed
    <2>3. s.request = t.request
      BY <1>1, <2>1, <2>2 DEF OnePasses, RunIsRequests
    <2>4. QED
      BY <2>3 DEF RunIsRequests
  <1>2. \A s \in started : request[s.request].at # "503"
    BY DEF RunIsRequests
  <1>3. QED
    BY <1>1, <1>2 DEF DeliveredOnce, KnownIsAsked, Active

(* Whatever a forge sends, however often, and whatever calls are lost, members    *)
(* decline or processes end: a member's process starts one run of a delivery that   *)
(* it remembers at most, none of one it said it could not place, and remembers       *)
(* only what has a run, may have one or is being placed (receive_webhook() and       *)
(* invoke(), src/waterpump/tasks.py).                                                *)
THEOREM DeliveriesRunOnce == Spec => []DeliveredOnce
  <1>1. DeliveryInv /\ [Next]_triggerVars => DeliveryInv'
    BY DeliveryStep
  <1>2. Spec => []DeliveryInv
    BY DeliveryInit, <1>1, PTL DEF Spec
  <1>3. QED
    BY <1>2, DeliveryGives, PTL
=============================================================================
