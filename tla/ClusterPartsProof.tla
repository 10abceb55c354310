------------------------- MODULE ClusterPartsProof --------------------------
(* Proofs about the components that members share: for each, that its invariant     *)
(* holds at first and that a step keeps it.  What follows is in MCPartsProof.         *)
EXTENDS ClusterParts, Integers, Sequences, FiniteSets, FiniteSetTheorems,
        WellFoundedInduction, TLAPS

-----------------------------------------------------------------------------
(* Records that name other records.                                          *)
Replicas == [Records!Things -> Records!Copies]

LEMMA RecordsAcceptsAll ==
    ASSUME NEW n \in Pair, NEW x \in Records!Things
    PROVE  Records!Accepts(n, x) <=> Records!HasAll(s2[n], x)
  BY DEF Records!Accepts, Records!There, Records!HasAll

LEMMA RecordsNeedsAre == \A x \in Records!Things : Records!Needs[x] \subseteq Records!Things
  BY DEF Records!Needs, Records!Things

LEMMA RecordsPrunedIs ==
    ASSUME NEW r \in Replicas
    PROVE  /\ Records!Pruned(r) \in Replicas
           /\ Records!Pruned(r)["module"] = r["module"] /\ Records!Pruned(r)["task"] = r["task"]
           /\ s1 => Records!Pruned(r) = r
           /\ ~s1 => Records!Pruned(r)["profile"] = "absent"
           /\ ~s1 => Records!Pruned(r)["template"] = IF r["template"] = "whole" THEN "bare" ELSE r["template"]
  BY DEF Records!Pruned, Replicas, Records!Things, Records!Copies

LEMMA RecordsOutcomeType ==
    ASSUME NEW r \in Replicas, NEW w \in Records!Op
    PROVE  /\ Records!Outcome(r, w) \in Replicas /\ Records!Without(r, w) \in Replicas /\ Records!AtItsOwn(r, w) \in Replicas
           /\ w.does = "delete" => Records!Outcome(r, w)[w.of] = "absent"
           /\ Records!Without(r, w)[w.of] = "absent"
  <1>1. Records!Without(r, w) \in Replicas /\ Records!Without(r, w)[w.of] = "absent"
    BY DEF Records!Without, Replicas, Records!Copies, Records!Op
  <1>2. CASE w.does = "save"
    <2>1. Records!Outcome(r, w) \in Replicas
      BY <1>2 DEF Records!Outcome, Replicas, Records!Copies, Records!Op
    <2>2. QED
      BY <1>1, <1>2, <2>1 DEF Records!AtItsOwn
  <1>3. CASE w.does # "save" /\ w.of = "module"
    <2>1. Records!Outcome(r, w) = Records!Pruned(Records!Without(r, w))
      BY <1>3 DEF Records!Outcome
    <2>2. QED
      BY <1>1, <1>3, <2>1, RecordsPrunedIs DEF Records!AtItsOwn
  <1>4. CASE w.does # "save" /\ w.of # "module"
    BY <1>1, <1>4 DEF Records!Outcome, Records!AtItsOwn
  <1>5. QED
    BY <1>2, <1>3, <1>4

\* What is allowed to a person leaves records that fit.
LEMMA RecordsOutcomeFits ==
    ASSUME NEW r \in Replicas, NEW w \in Records!Op, Records!Coherent(r),
           w.does = "save" => Records!HasAll(r, w.of),
           w.does = "delete" => \/ \A y \in Records!Things : w.of \in Records!Needs[y] => r[y] # "whole"
                                \/ w.of = "module" /\ s1
    PROVE  Records!Coherent(Records!Outcome(r, w))
  <1> DEFINE shipped == s1
  <1>1. CASE w.does = "save"
    <2>1. /\ Records!Outcome(r, w)[w.of] = "whole"
          /\ \A x \in Records!Things \ {w.of} : Records!Outcome(r, w)[x] = r[x]
      BY <1>1 DEF Records!Outcome, Replicas, Records!Op
    <2>2. QED
      BY <1>1, <2>1, RecordsNeedsAre DEF Records!Coherent, Records!HasAll
  <1>2. CASE w.does # "save"
    <2>1. w.does = "delete" /\ w.of \in Records!Things
      BY <1>2 DEF Records!Op
    <2>2. /\ Records!Without(r, w)[w.of] = "absent" /\ Records!Without(r, w) \in Replicas
          /\ \A x \in Records!Things \ {w.of} : Records!Without(r, w)[x] = r[x]
      BY <2>1 DEF Records!Without, Replicas, Records!Copies
    <2>3. CASE w.of # "module" \/ shipped
      <3>1. Records!Outcome(r, w) = Records!Without(r, w)
        BY <1>2, <2>2, <2>3, RecordsPrunedIs DEF Records!Outcome
      <3>2. QED
        BY <2>1, <2>2, <3>1, RecordsNeedsAre DEF Records!Coherent, Records!HasAll
    <2>4. CASE w.of = "module" /\ ~shipped
      <3>1. Records!Outcome(r, w) = Records!Pruned(Records!Without(r, w))
        BY <1>2, <2>4 DEF Records!Outcome
      <3>2. r["template"] # "whole" /\ r["profile"] # "whole" /\ r["task"] # "whole"
        BY <2>1, <2>4 DEF Records!Needs, Records!Things
      <3>3. \A x \in Records!Things : Records!Outcome(r, w)[x] # "whole"
        BY <2>2, <2>4, <3>1, <3>2, RecordsPrunedIs DEF Records!Things
      <3>4. QED
        BY <3>3 DEF Records!Coherent
    <2>5. QED
      BY <2>3, <2>4
  <1>3. QED
    BY <1>1, <1>2

\* What a member makes of what it is told.
LEMMA RecordsAppliedType ==
    ASSUME Records!TypeOK, NEW n \in Pair, NEW o \in Twins PROVE Records!Applied(n, o) \in Replicas
  <1> DEFINE held == s2  op == s3
  <1>1. op[o] \in Records!Op /\ held[n] \in Replicas /\ op[o].at \in Pair /\ op[o].of \in Records!Things
    BY DEF Records!TypeOK, Replicas, Records!Op
  <1>2. held[op[o].at][op[o].of] \in Records!Copies
    BY <1>1 DEF Records!TypeOK
  <1>3. CASE op[o].does = "save"
    BY <1>1, <1>2, <1>3 DEF Records!Applied, Records!Saved, Replicas
  <1>4. CASE op[o].does # "save"
    <2>1. [held[n] EXCEPT ![op[o].of] = "absent"] \in Replicas
      BY <1>1 DEF Replicas, Records!Copies
    <2>2. QED
      BY <1>1, <1>4, <2>1, RecordsPrunedIs DEF Records!Applied, Records!Deleted
  <1>5. QED
    BY <1>3, <1>4

LEMMA RecordsGoesType == ASSUME Records!TypeOK, NEW o \in Twins, NEW stage \in {"removed", "telling", "over"}, Records!Goes(o, stage)
    PROVE  /\ s3' \in [Twins -> Records!Op] /\ s3' = [s3 EXCEPT ![o] = s3'[o]]
           /\ s3'[o].at = s3[o].at /\ s3'[o].does = s3[o].does /\ s3'[o].of = s3[o].of
           /\ s3'[o].told = s3[o].told /\ s3'[o].to = stage
  <1> DEFINE op == s3
  <1> DEFINE w == [op[o] EXCEPT !.to = stage]
  <1>1. w \in Records!Op /\ w.at = op[o].at /\ w.does = op[o].does /\ w.of = op[o].of /\ w.told = op[o].told /\ w.to = stage
    BY DEF Records!TypeOK, Records!Op
  <1>2. op' = [op EXCEPT ![o] = w]
    BY DEF Records!Goes
  <1> HIDE DEF w
  <1>3. QED
    BY <1>1, <1>2 DEF Records!TypeOK

LEMMA RecordsReferencesType == ASSUME Records!TypeOK, [Records!Next]_(Records!vars) PROVE Records!TypeOK'
  <1> DEFINE shipped == s1  held == s2  op == s3  crossed == s4  lost == s5
  <1> DEFINE Helds == [Pair -> Replicas]
  <1>0. held \in Helds
    BY DEF Records!TypeOK, Replicas
  <1>1. ASSUME NEW o \in Twins, NEW n \in Pair, NEW does \in {"save", "delete"}, NEW x \in Records!Things,
               Records!Begin(o, n, does, x)
        PROVE  Records!TypeOK'
    <2> DEFINE w == [at |-> n, does |-> does, of |-> x, told |-> {n}, to |-> "checked"]
    <2>1. w \in Records!Op
      BY DEF Records!Op
    <2>2. op' = [op EXCEPT ![o] = w] /\ crossed' \in BOOLEAN /\ UNCHANGED <<shipped, held, lost>>
      BY <1>1 DEF Records!Begin, Records!TypeOK
    <2> HIDE DEF w
    <2>3. QED
      BY <2>1, <2>2 DEF Records!TypeOK
  <1>2. ASSUME NEW o \in Twins, NEW n \in Pair, Records!Tell(o, n) PROVE Records!TypeOK'
    <2> DEFINE w == [op[o] EXCEPT !.told = @ \cup {n}]
    <2>1. w \in Records!Op
      BY DEF Records!TypeOK, Records!Op
    <2>2. op' = [op EXCEPT ![o] = w] /\ shipped' = shipped /\ crossed' = crossed
      BY <1>2 DEF Records!Tell
    <2> HIDE DEF w
    <2>3. held' \in Helds
      BY <1>0, <1>2, RecordsAppliedType DEF Records!Tell
    <2>4. lost' \in Nat
      BY <1>2 DEF Records!Tell, Records!TypeOK
    <2>5. QED
      BY <2>1, <2>2, <2>3, <2>4 DEF Records!TypeOK, Replicas
  <1>3. ASSUME NEW o \in Twins, Records!Save(o) \/ Records!Remove(o) \/ Records!Prune(o) \/ Records!End(o) PROVE Records!TypeOK'
    <2>1. op' \in [Twins -> Records!Op] /\ UNCHANGED <<shipped, crossed, lost>>
      BY <1>3, RecordsGoesType DEF Records!Save, Records!Remove, Records!Prune, Records!End
    <2>2. op[o].at \in Pair /\ op[o].of \in Records!Things
      BY DEF Records!TypeOK, Records!Op
    <2>3. held' \in Helds
      <3>1. CASE Records!Save(o) \/ Records!Remove(o)
        BY <1>0, <2>2, <3>1 DEF Records!Save, Records!Remove, Replicas, Records!Copies
      <3>2. CASE Records!Prune(o)
        BY <1>0, <2>2, <3>2, RecordsPrunedIs DEF Records!Prune
      <3>3. CASE Records!End(o)
        BY <1>0, <3>3 DEF Records!End
      <3>4. QED
        BY <1>3, <3>1, <3>2, <3>3
    <2>4. QED
      BY <2>1, <2>3 DEF Records!TypeOK, Replicas
  <1>4. CASE UNCHANGED Records!vars
    BY <1>4 DEF Records!vars, Records!TypeOK
  <1>5. QED
    BY <1>1, <1>2, <1>3, <1>4 DEF Records!Next
LEMMA RecordsStagesStep == ASSUME Records!TypeOK, Records!Stages, [Records!Next]_(Records!vars) PROVE Records!Stages'
  <1> DEFINE op == s3
  <1>1. ASSUME NEW o \in Twins, NEW n \in Pair, NEW does \in {"save", "delete"}, NEW x \in Records!Things,
               Records!Begin(o, n, does, x)
        PROVE  Records!Stages'
    BY <1>1 DEF Records!TypeOK, Records!Stages, Records!Begin
  <1>2. ASSUME NEW o \in Twins, NEW n \in Pair, Records!Tell(o, n) PROVE Records!Stages'
    <2> DEFINE w == [op[o] EXCEPT !.told = @ \cup {n}]
    <2>1. /\ w.to = op[o].to /\ w.at = op[o].at /\ w.told = op[o].told \cup {n} /\ w.does = op[o].does
          /\ op[o].to = "telling"
      BY <1>2 DEF Records!TypeOK, Records!Op, Records!Tell
    <2>2. op' = [op EXCEPT ![o] = w]
      BY <1>2 DEF Records!Tell
    <2> HIDE DEF w
    <2>3. op'[o] = w /\ \A p \in Twins \ {o} : op'[p] = op[p]
      BY <2>2 DEF Records!TypeOK
    <2>4. QED
      BY <2>1, <2>3 DEF Records!Stages
  <1>3. ASSUME NEW o \in Twins, Records!Save(o) \/ Records!Remove(o) \/ Records!Prune(o) \/ Records!End(o) PROVE Records!Stages'
    <2>1. /\ Records!Save(o) => Records!Goes(o, "telling")
          /\ Records!Remove(o) => Records!Goes(o, IF op[o].of = "module" THEN "removed" ELSE "telling")
          /\ Records!Prune(o) => Records!Goes(o, "telling")
          /\ Records!End(o) => Records!Goes(o, "over")
      BY DEF Records!Save, Records!Remove, Records!Prune, Records!End
    <2>2. PICK stage \in {"removed", "telling", "over"} : Records!Goes(o, stage)
      BY <1>3, <2>1
    <2>3. /\ op'[o].at = op[o].at /\ op'[o].told = op[o].told /\ op'[o].to = stage
          /\ op'[o].does = op[o].does /\ \A p \in Twins \ {o} : op'[p] = op[p]
      BY <2>2, RecordsGoesType DEF Records!TypeOK
    <2>4. op[o].at \in op[o].told
      BY <1>3 DEF Records!Save, Records!Remove, Records!Prune, Records!End, Records!Stages
    <2>5. /\ stage = "over" => op[o].told = Pair
          /\ stage = "removed" => op[o].told = {op[o].at} /\ op[o].does = "delete"
      <3>1. op'[o].to = "over" => Records!End(o)
        BY <1>3, <2>1, RecordsGoesType
      <3>2. op'[o].to = "removed" => Records!Remove(o)
        BY <1>3, <2>1, RecordsGoesType
      <3>3. QED
        BY <2>3, <3>1, <3>2 DEF Records!End, Records!Remove, Records!Stages
    <2>6. QED
      BY <2>3, <2>4, <2>5 DEF Records!Stages
  <1>4. CASE UNCHANGED Records!vars
    BY <1>4 DEF Records!vars, Records!Stages
  <1>5. QED
    BY <1>1, <1>2, <1>3, <1>4 DEF Records!Next

-----------------------------------------------------------------------------
\* One operation after another.

LEMMA RecordsHalfwayNext ==
    ASSUME NEW o \in Twins, NEW r \in Replicas, NEW w \in Records!Op, w = s3'[o], w.to \notin {"none", "over"},
           \A p \in Twins \ {o} : s3'[p].to \in {"none", "over"}, Records!Halfway(r, w)'
    PROVE  Records!OneByOne'
  BY DEF Records!OneByOne, Records!Going, Replicas

\* The only operation that is going, and what there was before it.
LEMMA RecordsTheOne ==
    ASSUME Records!TypeOK, Records!OneByOne, ~s4, s5 = 0, NEW o \in Twins, Records!Going(o)
    PROVE  /\ \A p \in Twins \ {o} : s3[p].to \in {"none", "over"}
           /\ \E r \in Replicas : \A w \in Records!Op : w = s3[o] => Records!Halfway(r, w)
  BY DEF Records!OneByOne, Records!Going, Replicas

LEMMA RecordsUnshipped ==
    ASSUME s1' = s1, NEW r, NEW w
    PROVE  /\ Records!Coherent(r)' <=> Records!Coherent(r)
           /\ Records!HasAll(r, w)' <=> Records!HasAll(r, w)
           /\ Records!Outcome(r, w)' = Records!Outcome(r, w)
           /\ Records!AtItsOwn(r, w)' = Records!AtItsOwn(r, w)
           /\ Records!Without(r, w)' = Records!Without(r, w)
  <1>1. Records!HasAll(r, w)' <=> Records!HasAll(r, w)
    BY DEF Records!HasAll
  <1>2. Records!Coherent(r)' <=> Records!Coherent(r)
    BY DEF Records!Coherent, Records!HasAll
  <1>3. Records!Without(r, w)' = Records!Without(r, w)
    BY DEF Records!Without
  <1>4. Records!Outcome(r, w)' = Records!Outcome(r, w)
    BY DEF Records!Outcome, Records!Pruned, Records!Without
  <1>5. Records!AtItsOwn(r, w)' = Records!AtItsOwn(r, w)
    BY DEF Records!AtItsOwn, Records!Outcome, Records!Pruned, Records!Without
  <1>6. QED
    BY <1>1, <1>2, <1>3, <1>4, <1>5

LEMMA RecordsBeginOne ==
    ASSUME Records!TypeOK, Records!OneByOne, NEW o \in Twins, NEW n \in Pair, NEW does \in {"save", "delete"},
           NEW x \in Records!Things, Records!Begin(o, n, does, x)
    PROVE  Records!OneByOne'
  <1> DEFINE shipped == s1  held == s2  op == s3  crossed == s4  lost == s5
  <1> SUFFICES ASSUME ~crossed', lost' = 0 PROVE Records!OneByOne'
    BY DEF Records!OneByOne
  <1>1. ~crossed /\ lost = 0 /\ (\A p \in Twins : ~Records!Going(p)) /\ held' = held /\ shipped' = shipped
    BY DEF Records!Begin, Records!TypeOK
  <1>2. PICK r \in Replicas : Records!Coherent(r) /\ \A m \in Pair : held[m] = r
    BY <1>1 DEF Records!OneByOne, Replicas
  <1> DEFINE w == [at |-> n, does |-> does, of |-> x, told |-> {n}, to |-> "checked"]
  <1>3. /\ w \in Records!Op /\ w.at = n /\ w.does = does /\ w.of = x /\ w.told = {n} /\ w.to = "checked"
        /\ op' = [op EXCEPT ![o] = w]
    BY DEF Records!Op, Records!Begin
  <1> HIDE DEF w
  <1>4. op'[o] = w /\ \A p \in Twins \ {o} : op'[p] = op[p]
    BY <1>3 DEF Records!TypeOK
  <1>5. does = "save" => Records!HasAll(r, x)
    BY <1>2, RecordsAcceptsAll DEF Records!Begin
  <1>6. does = "delete" => r[x] # "absent" /\ Records!Free(n, x)
    BY <1>2 DEF Records!Begin
  <1>7. Records!Dependents(n, x) = {} => \A y \in Records!Things : x \in Records!Needs[y] => r[y] # "whole"
    BY <1>2 DEF Records!Dependents
  <1>8. Records!Coherent(Records!Outcome(r, w))
    BY <1>2, <1>3, <1>5, <1>6, <1>7, RecordsOutcomeFits DEF Records!Free
  <1>9. Records!AtItsOwn(r, w) = r
    BY <1>3 DEF Records!AtItsOwn
  <1>10. Records!Halfway(r, w)
    BY <1>2, <1>3, <1>5, <1>6, <1>8, <1>9 DEF Records!Halfway
  <1>11. Records!Halfway(r, w)'
    BY <1>1, <1>10, RecordsUnshipped DEF Records!Halfway
  <1>12. QED
    BY <1>1, <1>3, <1>4, <1>11, RecordsHalfwayNext DEF Records!Going

LEMMA RecordsSaveOne ==
    ASSUME Records!TypeOK, Records!Stages, Records!OneByOne, NEW o \in Twins, Records!Save(o) PROVE Records!OneByOne'
  <1> DEFINE shipped == s1  held == s2  op == s3  crossed == s4  lost == s5
  <1> SUFFICES ASSUME ~crossed', lost' = 0 PROVE Records!OneByOne'
    BY DEF Records!OneByOne
  <1>1. /\ ~crossed /\ lost = 0 /\ Records!Going(o) /\ op[o].to = "checked" /\ op[o].does = "save"
        /\ shipped' = shipped /\ Records!Goes(o, "telling")
    BY DEF Records!Save, Records!Going
  <1>2. PICK w \in Records!Op : w = op[o]
    BY DEF Records!TypeOK
  <1>3. PICK r \in Replicas : Records!Halfway(r, w)
    BY <1>1, <1>2, RecordsTheOne
  <1>4. \A p \in Twins \ {o} : op[p].to \in {"none", "over"}
    BY <1>1, RecordsTheOne
  <1>5. PICK v \in Records!Op : v = op'[o]
    BY <1>1, RecordsGoesType
  <1>6. /\ v.at = w.at /\ v.does = w.does /\ v.of = w.of /\ v.told = w.told /\ v.to = "telling"
        /\ \A p \in Twins \ {o} : op'[p] = op[p]
    BY <1>1, <1>2, <1>5, RecordsGoesType DEF Records!TypeOK
  <1>7. Records!Outcome(r, v) = Records!Outcome(r, w) /\ Records!AtItsOwn(r, v) = Records!Outcome(r, w)
    BY <1>6 DEF Records!AtItsOwn, Records!Outcome, Records!Without
  <1>8. w.told = {w.at} /\ w.at \in Pair /\ w.of \in Records!Things /\ held[w.at] = r
    BY <1>1, <1>2, <1>3 DEF Records!Stages, Records!Halfway, Records!AtItsOwn, Records!Op
  <1>9. held' = [held EXCEPT ![w.at] = [r EXCEPT ![w.of] = "whole"]]
    BY <1>2, <1>8 DEF Records!Save
  <1>10. held'[w.at] = Records!Outcome(r, w) /\ \A n \in Pair \ {w.at} : held'[n] = r
    BY <1>1, <1>2, <1>3, <1>8, <1>9 DEF Records!Outcome, Records!Halfway, Records!TypeOK
  <1>11. Records!Halfway(r, v)'
    BY <1>1, <1>3, <1>6, <1>7, <1>8, <1>10, RecordsUnshipped DEF Records!Halfway
  <1>12. QED
    BY <1>4, <1>5, <1>6, <1>11, RecordsHalfwayNext

LEMMA RecordsRemoveOne ==
    ASSUME Records!TypeOK, Records!Stages, Records!OneByOne, NEW o \in Twins, Records!Remove(o) PROVE Records!OneByOne'
  <1> DEFINE shipped == s1  held == s2  op == s3  crossed == s4  lost == s5
  <1> SUFFICES ASSUME ~crossed', lost' = 0 PROVE Records!OneByOne'
    BY DEF Records!OneByOne
  <1>1. /\ ~crossed /\ lost = 0 /\ Records!Going(o) /\ op[o].to = "checked" /\ op[o].does = "delete"
        /\ shipped' = shipped
    BY DEF Records!Remove, Records!Going
  <1>2. PICK w \in Records!Op : w = op[o]
    BY DEF Records!TypeOK
  <1>3. PICK r \in Replicas : Records!Halfway(r, w)
    BY <1>1, <1>2, RecordsTheOne
  <1>4. \A p \in Twins \ {o} : op[p].to \in {"none", "over"}
    BY <1>1, RecordsTheOne
  <1>5. PICK stage \in {"removed", "telling"} :
            Records!Goes(o, stage) /\ stage = IF w.of = "module" THEN "removed" ELSE "telling"
    BY <1>2 DEF Records!Remove
  <1>6. PICK v \in Records!Op : v = op'[o]
    BY <1>5, RecordsGoesType
  <1>7. /\ v.at = w.at /\ v.does = w.does /\ v.of = w.of /\ v.told = w.told /\ v.to = stage
        /\ \A p \in Twins \ {o} : op'[p] = op[p]
    BY <1>2, <1>5, <1>6, RecordsGoesType DEF Records!TypeOK
  <1>8. Records!Outcome(r, v) = Records!Outcome(r, w) /\ Records!AtItsOwn(r, v) = Records!Without(r, w)
    <2>1. Records!Outcome(r, v) = Records!Outcome(r, w) /\ Records!Without(r, v) = Records!Without(r, w)
      BY <1>7 DEF Records!Outcome, Records!Without
    <2>2. w.of # "module" => Records!Outcome(r, w) = Records!Without(r, w)
      BY <1>1, <1>2 DEF Records!Outcome
    <2>3. QED
      BY <1>5, <1>7, <2>1, <2>2 DEF Records!AtItsOwn
  <1>9. w.told = {w.at} /\ w.at \in Pair /\ w.of \in Records!Things /\ held[w.at] = r
    BY <1>1, <1>2, <1>3 DEF Records!Stages, Records!Halfway, Records!AtItsOwn, Records!Op
  <1>10. held' = [held EXCEPT ![w.at] = Records!Without(r, w)]
    BY <1>2, <1>9 DEF Records!Remove, Records!Without
  <1>11. held'[w.at] = Records!Without(r, w) /\ \A n \in Pair \ {w.at} : held'[n] = r
    BY <1>3, <1>9, <1>10 DEF Records!Halfway, Records!TypeOK
  <1>12. Records!Halfway(r, v)'
    BY <1>1, <1>2, <1>3, <1>5, <1>7, <1>8, <1>9, <1>11, RecordsUnshipped DEF Records!Halfway
  <1>13. QED
    BY <1>4, <1>6, <1>7, <1>12, RecordsHalfwayNext

LEMMA RecordsPruneOne ==
    ASSUME Records!TypeOK, Records!Stages, Records!OneByOne, NEW o \in Twins, Records!Prune(o) PROVE Records!OneByOne'
  <1> DEFINE shipped == s1  held == s2  op == s3  crossed == s4  lost == s5
  <1> SUFFICES ASSUME ~crossed', lost' = 0 PROVE Records!OneByOne'
    BY DEF Records!OneByOne
  <1>1. /\ ~crossed /\ lost = 0 /\ Records!Going(o) /\ op[o].to = "removed" /\ shipped' = shipped
        /\ Records!Goes(o, "telling")
    BY DEF Records!Prune, Records!Going
  <1>2. PICK w \in Records!Op : w = op[o]
    BY DEF Records!TypeOK
  <1>3. PICK r \in Replicas : Records!Halfway(r, w)
    BY <1>1, <1>2, RecordsTheOne
  <1>4. \A p \in Twins \ {o} : op[p].to \in {"none", "over"}
    BY <1>1, RecordsTheOne
  <1>5. PICK v \in Records!Op : v = op'[o]
    BY <1>1, RecordsGoesType
  <1>6. /\ v.at = w.at /\ v.does = w.does /\ v.of = w.of /\ v.told = w.told /\ v.to = "telling"
        /\ \A p \in Twins \ {o} : op'[p] = op[p]
    BY <1>1, <1>2, <1>5, RecordsGoesType DEF Records!TypeOK
  <1>7. Records!Outcome(r, v) = Records!Outcome(r, w) /\ Records!AtItsOwn(r, v) = Records!Outcome(r, w)
    BY <1>6 DEF Records!AtItsOwn, Records!Outcome, Records!Without
  <1>8. w.told = {w.at} /\ w.at \in Pair /\ held[w.at] = Records!Without(r, w)
    BY <1>1, <1>2, <1>3 DEF Records!Stages, Records!Halfway, Records!AtItsOwn, Records!Op
  <1>9. Records!Outcome(r, w) = Records!Pruned(Records!Without(r, w))
    BY <1>1, <1>2, <1>3 DEF Records!Outcome, Records!Halfway
  <1>10. held' = [held EXCEPT ![w.at] = Records!Outcome(r, w)]
    BY <1>2, <1>8, <1>9 DEF Records!Prune
  <1>11. held'[w.at] = Records!Outcome(r, w) /\ \A n \in Pair \ {w.at} : held'[n] = r
    BY <1>3, <1>8, <1>10 DEF Records!Halfway, Records!TypeOK
  <1>12. Records!Halfway(r, v)'
    BY <1>1, <1>3, <1>6, <1>7, <1>8, <1>11, RecordsUnshipped DEF Records!Halfway
  <1>13. QED
    BY <1>4, <1>5, <1>6, <1>12, RecordsHalfwayNext

\* A member that is told comes to hold what the operation makes of its records.
LEMMA RecordsAppliedIs ==
    ASSUME Records!TypeOK, NEW o \in Twins, s3[o].to = "telling", NEW w \in Records!Op, w = s3[o], NEW r \in Replicas,
           Records!Halfway(r, w), NEW n \in Pair, s2[n] = r
    PROVE  Records!Applied(n, o) = Records!Outcome(r, w)
  <1> DEFINE held == s2
  <1>1. held[w.at] = Records!Outcome(r, w) /\ w.of \in Records!Things
    BY DEF Records!Halfway, Records!AtItsOwn, Records!Op
  <1>2. CASE w.does = "save"
    <2>1. Records!Outcome(r, w) = [r EXCEPT ![w.of] = "whole"] /\ Records!Outcome(r, w)[w.of] = "whole"
      BY <1>1, <1>2 DEF Records!Outcome, Replicas
    <2>2. Records!Accepts(n, w.of)
      BY <1>1, <1>2, RecordsAcceptsAll DEF Records!Halfway
    <2>3. QED
      BY <1>1, <1>2, <2>1, <2>2 DEF Records!Applied, Records!Saved
  <1>3. CASE w.does = "delete"
    BY <1>1, <1>3 DEF Records!Applied, Records!Deleted, Records!Outcome, Records!Without, Records!Halfway
  <1>4. QED
    BY <1>2, <1>3 DEF Records!Op

LEMMA RecordsTellOne ==
    ASSUME Records!TypeOK, Records!Stages, Records!OneByOne, NEW o \in Twins, NEW n \in Pair, Records!Tell(o, n) PROVE Records!OneByOne'
  <1> DEFINE shipped == s1  held == s2  op == s3  crossed == s4  lost == s5
  <1> SUFFICES ASSUME ~crossed', lost' = 0 PROVE Records!OneByOne'
    BY DEF Records!OneByOne
  <1>1. /\ ~crossed /\ Records!Going(o) /\ op[o].to = "telling" /\ shipped' = shipped /\ n \notin op[o].told
    BY DEF Records!Tell, Records!Going
  <1>2. lost = 0 /\ held' = [held EXCEPT ![n] = Records!Applied(n, o)]
    BY DEF Records!Tell, Records!TypeOK
  <1>3. PICK w \in Records!Op : w = op[o]
    BY DEF Records!TypeOK
  <1>4. PICK r \in Replicas : Records!Halfway(r, w)
    BY <1>1, <1>2, <1>3, RecordsTheOne
  <1>5. \A p \in Twins \ {o} : op[p].to \in {"none", "over"}
    BY <1>1, <1>2, RecordsTheOne
  <1> DEFINE v == [w EXCEPT !.told = @ \cup {n}]
  <1>6. /\ v \in Records!Op /\ v.at = w.at /\ v.does = w.does /\ v.of = w.of /\ v.told = w.told \cup {n}
        /\ v.to = "telling" /\ w.to = "telling"
    BY <1>1, <1>3 DEF Records!Op
  <1>7. op' = [op EXCEPT ![o] = v]
    BY <1>3 DEF Records!Tell
  <1> HIDE DEF v
  <1>8. op'[o] = v /\ \A p \in Twins \ {o} : op'[p] = op[p]
    BY <1>7 DEF Records!TypeOK
  <1>9. Records!Outcome(r, v) = Records!Outcome(r, w) /\ Records!AtItsOwn(r, v) = Records!Outcome(r, w) /\ Records!AtItsOwn(r, w) = Records!Outcome(r, w)
    BY <1>6 DEF Records!AtItsOwn, Records!Outcome, Records!Without
  <1>10. w.at \in w.told /\ n # w.at
    BY <1>1, <1>3 DEF Records!Stages
  <1>11. held[n] = r
    BY <1>1, <1>3, <1>4, <1>10 DEF Records!Halfway
  <1>12. held'[n] = Records!Outcome(r, w) /\ \A m \in Pair \ {n} : held'[m] = held[m]
    BY <1>1, <1>2, <1>3, <1>4, <1>11, RecordsAppliedIs DEF Records!TypeOK
  <1>13. w.at \in Pair
    BY DEF Records!Op
  <1>14. held'[w.at] = Records!Outcome(r, w)
    BY <1>4, <1>9, <1>10, <1>12, <1>13 DEF Records!Halfway
  <1>15. \A m \in Pair \ {w.at} : held'[m] = IF m \in v.told THEN Records!Outcome(r, w) ELSE r
    BY <1>4, <1>6, <1>12 DEF Records!Halfway
  <1>16. Records!Halfway(r, v)'
    BY <1>1, <1>4, <1>6, <1>9, <1>14, <1>15, RecordsUnshipped DEF Records!Halfway
  <1>17. QED
    BY <1>5, <1>6, <1>8, <1>16, RecordsHalfwayNext

LEMMA RecordsEndOne ==
    ASSUME Records!TypeOK, Records!Stages, Records!OneByOne, NEW o \in Twins, Records!End(o) PROVE Records!OneByOne'
  <1> DEFINE shipped == s1  held == s2  op == s3  crossed == s4  lost == s5
  <1> SUFFICES ASSUME ~crossed', lost' = 0 PROVE Records!OneByOne'
    BY DEF Records!OneByOne
  <1>1. /\ ~crossed /\ lost = 0 /\ Records!Going(o) /\ op[o].to = "telling" /\ shipped' = shipped
        /\ op[o].told = Pair /\ held' = held /\ Records!Goes(o, "over")
    BY DEF Records!End, Records!Going
  <1>2. PICK w \in Records!Op : w = op[o]
    BY DEF Records!TypeOK
  <1>3. PICK r \in Replicas : Records!Halfway(r, w)
    BY <1>1, <1>2, RecordsTheOne
  <1>4. \A p \in Twins : op'[p].to \in {"none", "over"}
    BY <1>1, RecordsTheOne, RecordsGoesType DEF Records!TypeOK
  <1>5. \A n \in Pair : held'[n] = Records!Outcome(r, w)
    BY <1>1, <1>2, <1>3 DEF Records!Halfway, Records!AtItsOwn
  <1>6. PICK q \in Replicas : q = Records!Outcome(r, w)
    BY RecordsOutcomeType
  <1>7. Records!Coherent(q)'
    BY <1>1, <1>3, <1>6, RecordsUnshipped DEF Records!Halfway
  <1>8. QED
    BY <1>4, <1>5, <1>6, <1>7 DEF Records!OneByOne, Records!Going, Replicas

LEMMA RecordsOneStep == ASSUME Records!TypeOK, Records!Stages, Records!OneByOne, [Records!Next]_(Records!vars) PROVE Records!OneByOne'
  <1> DEFINE shipped == s1  held == s2  op == s3  crossed == s4  lost == s5
  <1>1. CASE UNCHANGED Records!vars
    <2> SUFFICES ASSUME ~crossed', lost' = 0 PROVE Records!OneByOne'
      BY DEF Records!OneByOne
    <2>1. /\ ~crossed /\ lost = 0 /\ shipped' = shipped /\ held' = held /\ op' = op
      BY <1>1 DEF Records!vars
    <2>2. ASSUME NEW o \in Twins, Records!Going(o) PROVE Records!OneByOne'
      <3>1. PICK w \in Records!Op : w = op[o]
        BY DEF Records!TypeOK
      <3>2. PICK r \in Replicas : Records!Halfway(r, w)
        BY <2>1, <2>2, <3>1, RecordsTheOne
      <3>3. Records!Halfway(r, w)'
        BY <2>1, <3>2, RecordsUnshipped DEF Records!Halfway
      <3>4. QED
        BY <2>1, <2>2, <3>1, <3>3, RecordsTheOne, RecordsHalfwayNext DEF Records!Going
    <2>3. CASE \A o \in Twins : ~Records!Going(o)
      <3>1. PICK r \in Replicas : Records!Coherent(r) /\ \A n \in Pair : held[n] = r
        BY <2>1, <2>3 DEF Records!OneByOne, Replicas
      <3>2. Records!Coherent(r)' /\ \A n \in Pair : held'[n] = r
        BY <2>1, <3>1, RecordsUnshipped
      <3>3. QED
        BY <2>1, <2>3, <3>2 DEF Records!OneByOne, Records!Going, Replicas
    <2>4. QED
      BY <2>2, <2>3
  <1>2. CASE Records!Next
    BY <1>2, RecordsBeginOne, RecordsSaveOne, RecordsRemoveOne, RecordsPruneOne, RecordsTellOne, RecordsEndOne DEF Records!Next
  <1>3. QED
    BY <1>1, <1>2

-----------------------------------------------------------------------------
\* What is deleted stays deleted while nobody saves it.

LEMMA RecordsUnsavedBefore ==
    ASSUME Records!TypeOK, [Records!Next]_(Records!vars), NEW x \in Records!Things, Records!Unsaved(x)' PROVE Records!Unsaved(x)
  <1> DEFINE op == s3
  <1>1. ASSUME NEW p \in Twins, op[p].to # "none"
        PROVE  op'[p].to # "none" /\ op'[p].does = op[p].does /\ op'[p].of = op[p].of
    <2>1. ASSUME NEW o \in Twins, NEW n \in Pair, NEW does \in {"save", "delete"}, NEW y \in Records!Things,
                 Records!Begin(o, n, does, y)
          PROVE  op'[p] = op[p]
      BY <1>1, <2>1 DEF Records!Begin, Records!TypeOK
    <2>2. ASSUME NEW o \in Twins, NEW n \in Pair, Records!Tell(o, n)
          PROVE  op'[p].to = op[p].to /\ op'[p].does = op[p].does /\ op'[p].of = op[p].of
      <3> DEFINE v == [op[o] EXCEPT !.told = @ \cup {n}]
      <3>1. v.to = op[o].to /\ v.does = op[o].does /\ v.of = op[o].of
        BY DEF Records!TypeOK, Records!Op
      <3>2. op' = [op EXCEPT ![o] = v]
        BY <2>2 DEF Records!Tell
      <3> HIDE DEF v
      <3>3. QED
        BY <3>1, <3>2 DEF Records!TypeOK
    <2>3. ASSUME NEW o \in Twins, NEW stage \in {"removed", "telling", "over"}, Records!Goes(o, stage)
          PROVE  /\ op'[p].does = op[p].does /\ op'[p].of = op[p].of
                 /\ op'[p].to \in {op[p].to, "removed", "telling", "over"}
      <3>1. p # o => op'[p] = op[p]
        BY <2>3, RecordsGoesType DEF Records!TypeOK
      <3>2. QED
        BY <2>3, <3>1, RecordsGoesType
    <2>4. ASSUME NEW o \in Twins, Records!Save(o) \/ Records!Remove(o) \/ Records!Prune(o) \/ Records!End(o)
          PROVE  \E stage \in {"removed", "telling", "over"} : Records!Goes(o, stage)
      BY <2>4 DEF Records!Save, Records!Remove, Records!Prune, Records!End
    <2>5. CASE UNCHANGED Records!vars
      BY <1>1, <2>5 DEF Records!vars
    <2>6. QED
      BY <1>1, <2>1, <2>2, <2>3, <2>4, <2>5 DEF Records!Next
  <1>2. QED
    BY <1>1 DEF Records!Unsaved

LEMMA RecordsAbsentStays ==
    ASSUME Records!TypeOK, [Records!Next]_(Records!vars), s5' = 0, NEW m \in Pair, NEW x \in Records!Things, Records!Unsaved(x),
           s2[m][x] = "absent"
    PROVE  s2'[m][x] = "absent"
  <1> DEFINE held == s2  op == s3
  <1>0. held[m] \in Replicas /\ op \in [Twins -> Records!Op]
    BY DEF Records!TypeOK, Replicas
  <1>1. ASSUME NEW o \in Twins, Records!Save(o) PROVE held'[m][x] = "absent"
    <2>1. x # op[o].of
      BY <1>1 DEF Records!Save, Records!Unsaved
    <2>2. op[o].at \in Pair /\ op[o].of \in Records!Things
      BY <1>0 DEF Records!Op
    <2>3. QED
      BY <1>0, <1>1, <2>1, <2>2 DEF Records!Save, Records!TypeOK, Replicas
  <1>2. ASSUME NEW o \in Twins, Records!Remove(o) PROVE held'[m][x] = "absent"
    <2>1. op[o].at \in Pair /\ op[o].of \in Records!Things
      BY <1>0 DEF Records!Op
    <2>2. QED
      BY <1>0, <1>2, <2>1 DEF Records!Remove, Records!TypeOK, Replicas
  <1>3. \A r \in Replicas : r[x] = "absent" => Records!Pruned(r)[x] = "absent"
    <2>1. \A r \in Replicas : x \in {"module", "task", "profile", "template"}
      BY DEF Records!Things
    <2>2. QED
      BY <2>1, RecordsPrunedIs
  <1>4. ASSUME NEW o \in Twins, Records!Prune(o) PROVE held'[m][x] = "absent"
    <2>1. op[o].at \in Pair /\ held' = [held EXCEPT ![op[o].at] = Records!Pruned(held[op[o].at])]
      BY <1>0, <1>4 DEF Records!Op, Records!Prune
    <2>2. held'[m] = held[m] \/ held'[m] = Records!Pruned(held[m])
      BY <2>1 DEF Records!TypeOK
    <2>3. QED
      BY <1>0, <1>3, <2>2
  <1>5. ASSUME NEW o \in Twins, NEW n \in Pair, Records!Tell(o, n) PROVE held'[m][x] = "absent"
    <2>1. op[o] \in Records!Op /\ op[o].of \in Records!Things /\ held' = [held EXCEPT ![n] = Records!Applied(n, o)]
      BY <1>0, <1>5 DEF Records!Op, Records!Tell, Records!TypeOK
    <2>2. held'[m] = held[m] \/ (m = n /\ held'[m] = Records!Applied(m, o))
      BY <2>1 DEF Records!TypeOK
    <2>3. Records!Applied(m, o)[x] = "absent"
      <3>1. CASE op[o].does = "save"
        <4>1. x # op[o].of
          BY <1>5, <3>1 DEF Records!Tell, Records!Unsaved
        <4>2. QED
          BY <1>0, <2>1, <3>1, <4>1 DEF Records!Applied, Records!Saved, Replicas
      <3>2. CASE op[o].does # "save"
        <4> DEFINE without == [held[m] EXCEPT ![op[o].of] = "absent"]
        <4>1. without \in Replicas /\ without[x] = "absent"
          BY <1>0, <2>1 DEF Replicas, Records!Copies
        <4>2. Records!Applied(m, o) = without \/ Records!Applied(m, o) = Records!Pruned(without)
          BY <3>2 DEF Records!Applied, Records!Deleted
        <4> HIDE DEF without
        <4>3. QED
          BY <1>3, <4>1, <4>2
      <3>3. QED
        BY <3>1, <3>2
    <2>4. QED
      BY <2>2, <2>3
  <1>6. ASSUME NEW o \in Twins, NEW n \in Pair, NEW does \in {"save", "delete"}, NEW y \in Records!Things,
               Records!End(o) \/ Records!Begin(o, n, does, y)
        PROVE  held'[m][x] = "absent"
    BY <1>6 DEF Records!End, Records!Begin
  <1>7. CASE UNCHANGED Records!vars
    BY <1>7 DEF Records!vars
  <1>8. QED
    BY <1>1, <1>2, <1>4, <1>5, <1>6, <1>7 DEF Records!Next

\* A member newly told of a deletion no longer holds what it is of.
LEMMA RecordsNewlyTold ==
    ASSUME Records!TypeOK, Records!Stages, [Records!Next]_(Records!vars), NEW o \in Twins, s5' = 0, s3'[o].does = "delete",
           s3'[o].to \in {"removed", "telling", "over"}, NEW m \in s3'[o].told
    PROVE  /\ s3'[o].of = s3[o].of /\ s3[o].of \in Records!Things /\ m \in Pair
           /\ \/ s2'[m][s3[o].of] = "absent"
              \/ /\ s3[o].does = "delete" /\ s3[o].to \in {"removed", "telling", "over"}
                 /\ m \in s3[o].told
  <1> DEFINE held == s2  op == s3
  <1>0. op[o] \in Records!Op /\ op[o].of \in Records!Things /\ op[o].told \subseteq Pair /\ op[o].at \in Pair
    BY DEF Records!TypeOK, Records!Op
  <1>1. ASSUME NEW p \in Twins, NEW n \in Pair, Records!Tell(p, n)
        PROVE  /\ op'[o].of = op[o].of /\ op'[o].does = op[o].does /\ op'[o].to = op[o].to
               /\ op'[o].told \subseteq op[o].told \cup {n}
               /\ op'[o].told = op[o].told \/ o = p
    <2> DEFINE v == [op[p] EXCEPT !.told = @ \cup {n}]
    <2>1. v.to = op[p].to /\ v.does = op[p].does /\ v.of = op[p].of /\ v.told = op[p].told \cup {n}
      BY DEF Records!TypeOK, Records!Op
    <2>2. op' = [op EXCEPT ![p] = v]
      BY <1>1 DEF Records!Tell
    <2> HIDE DEF v
    <2>3. QED
      BY <2>1, <2>2 DEF Records!TypeOK
  <1>2. ASSUME NEW p \in Twins, NEW n \in Pair, Records!Tell(p, n), m \notin op[o].told
        PROVE  held'[m][op[o].of] = "absent"
    <2>1. p = o /\ m = n /\ op[o].does = "delete"
      BY <1>1, <1>2
    <2>2. held' = [held EXCEPT ![m] = Records!Applied(m, o)]
      BY <1>2, <2>1 DEF Records!Tell, Records!TypeOK
    <2> DEFINE without == [held[m] EXCEPT ![op[o].of] = "absent"]
    <2>3. without \in Replicas /\ without[op[o].of] = "absent"
      BY <1>0, <2>1 DEF Replicas, Records!Copies, Records!TypeOK
    <2>4. \/ Records!Applied(m, o) = without
          \/ op[o].of = "module" /\ Records!Applied(m, o) = Records!Pruned(without)
      BY <2>1 DEF Records!Applied, Records!Deleted
    <2> HIDE DEF without
    <2>5. Records!Applied(m, o)[op[o].of] = "absent"
      BY <2>3, <2>4, RecordsPrunedIs
    <2>6. QED
      BY <2>1, <2>2, <2>5 DEF Records!TypeOK
  <1>3. ASSUME NEW p \in Twins, p # o,
               \/ Records!Save(p) \/ Records!Remove(p) \/ Records!Prune(p) \/ Records!End(p)
               \/ \E n \in Pair, does \in {"save", "delete"}, x \in Records!Things : Records!Begin(p, n, does, x)
        PROVE  op'[o] = op[o]
    <2>1. op' = [op EXCEPT ![p] = op'[p]] \/ \E v \in Records!Op : op' = [op EXCEPT ![p] = v]
      <3>1. CASE Records!Save(p) \/ Records!Remove(p) \/ Records!Prune(p) \/ Records!End(p)
        <4>1. \E stage \in {"removed", "telling", "over"} : Records!Goes(p, stage)
          BY <3>1 DEF Records!Save, Records!Remove, Records!Prune, Records!End
        <4>2. QED
          BY <4>1, RecordsGoesType
      <3>2. ASSUME NEW n \in Pair, NEW does \in {"save", "delete"}, NEW x \in Records!Things,
                   Records!Begin(p, n, does, x)
            PROVE  \E v \in Records!Op : op' = [op EXCEPT ![p] = v]
        <4> DEFINE w == [at |-> n, does |-> does, of |-> x, told |-> {n}, to |-> "checked"]
        <4>1. w \in Records!Op /\ op' = [op EXCEPT ![p] = w]
          BY <3>2 DEF Records!Op, Records!Begin
        <4>2. QED
          BY <4>1
      <3>3. QED
        BY <1>3, <3>1, <3>2
    <2>2. QED
      BY <1>3, <2>1 DEF Records!TypeOK
  <1>4. ASSUME Records!Save(o) \/ Records!Remove(o) \/ Records!Prune(o) \/ Records!End(o)
        PROVE  /\ op'[o].of = op[o].of /\ op'[o].does = op[o].does /\ op'[o].told = op[o].told
               /\ op[o].to \in {"checked", "removed", "telling"}
               /\ op[o].to = "checked" => Records!Save(o) \/ Records!Remove(o)
    <2>1. \E stage \in {"removed", "telling", "over"} : Records!Goes(o, stage)
      BY <1>4 DEF Records!Save, Records!Remove, Records!Prune, Records!End
    <2>2. QED
      BY <1>4, <2>1, RecordsGoesType DEF Records!Save, Records!Remove, Records!Prune, Records!End
  <1>5. ASSUME Records!Save(o) \/ Records!Remove(o) \/ Records!Prune(o) \/ Records!End(o), op[o].to = "checked"
        PROVE  held'[m][op[o].of] = "absent"
    <2>1. Records!Remove(o)
      BY <1>4, <1>5 DEF Records!Save
    <2>2. m = op[o].at
      BY <1>4, <1>5 DEF Records!Stages
    <2>3. QED
      BY <1>0, <2>1, <2>2 DEF Records!Remove, Records!TypeOK
  <1>6. ASSUME NEW n \in Pair, NEW does \in {"save", "delete"}, NEW x \in Records!Things,
               Records!Begin(o, n, does, x)
        PROVE  FALSE
    BY <1>6 DEF Records!Begin, Records!TypeOK
  <1>7. CASE UNCHANGED Records!vars
    BY <1>0, <1>7 DEF Records!vars
  <1>8. QED
    BY <1>0, <1>1, <1>2, <1>3, <1>4, <1>5, <1>6, <1>7 DEF Records!Next

LEMMA RecordsDeletedStep ==
    ASSUME Records!TypeOK, Records!Stages, Records!DeletedSoFar, [Records!Next]_(Records!vars) PROVE Records!DeletedSoFar'
  <1> DEFINE held == s2  op == s3  lost == s5
  <1> SUFFICES ASSUME NEW o \in Twins, op'[o].does = "delete", lost' = 0,
                      op'[o].to \in {"removed", "telling", "over"}, Records!Unsaved(op[o].of)',
                      NEW m \in op'[o].told
               PROVE  held'[m][op'[o].of] = "absent"
    BY DEF Records!DeletedSoFar, Records!Unsaved
  <1>1. PICK x \in Records!Things : x = op[o].of /\ x = op'[o].of /\ m \in Pair
    BY RecordsNewlyTold
  <1>2. Records!Unsaved(x)
    <2>1. Records!Unsaved(x)'
      BY <1>1 DEF Records!Unsaved
    <2>2. QED
      BY <2>1, RecordsUnsavedBefore
  <1>3. lost = 0
    <2>1. lost' = lost \/ lost' = lost + 1
      BY DEF Records!Next, Records!Begin, Records!Tell, Records!Save, Records!Remove, Records!Prune, Records!End, Records!vars
    <2>2. QED
      BY <2>1 DEF Records!TypeOK
  <1>4. CASE held'[m][op[o].of] = "absent"
    BY <1>1, <1>4
  <1>5. CASE /\ op[o].does = "delete" /\ op[o].to \in {"removed", "telling", "over"}
             /\ m \in op[o].told
    <2>1. held[m][x] = "absent"
      BY <1>1, <1>2, <1>3, <1>5 DEF Records!DeletedSoFar
    <2>2. QED
      BY <1>1, <1>2, <2>1, RecordsAbsentStays
  <1>6. QED
    BY <1>4, <1>5, RecordsNewlyTold

-----------------------------------------------------------------------------
LEMMA RecordsReferencesInit == Records!Init => Records!ReferencesInv
  <1> DEFINE shipped == s1  held == s2  op == s3  crossed == s4  lost == s5
  <1> SUFFICES ASSUME Records!Init PROVE Records!ReferencesInv
    OBVIOUS
  <1>1. PICK full \in SUBSET Records!Things, m \in Pair :
            /\ shipped \in BOOLEAN
            /\ \A x \in full : Records!Needs[x] \subseteq full \cup (IF shipped THEN {"module"} ELSE {})
            /\ held = [n \in Pair |-> [x \in Records!Things |-> IF x \in full THEN "whole" ELSE "absent"]]
            /\ op = [o \in Twins |-> [at |-> m, does |-> "save", of |-> "module", told |-> {},
                                    to |-> "none"]]
            /\ crossed = FALSE /\ lost = 0
    BY DEF Records!Init
  <1> DEFINE r == [x \in Records!Things |-> IF x \in full THEN "whole" ELSE "absent"]
             w == [at |-> m, does |-> "save", of |-> "module", told |-> {}, to |-> "none"]
  <1>2. r \in [Records!Things -> Records!Copies] /\ \A x \in Records!Things : r[x] = IF x \in full THEN "whole" ELSE "absent"
    BY DEF Records!Copies
  <1>3. w \in Records!Op /\ w.to = "none"
    BY DEF Records!Op, Records!Things
  <1>4. held = [n \in Pair |-> r] /\ op = [o \in Twins |-> w]
    BY <1>1
  <1> HIDE DEF r, w
  <1>5. Records!TypeOK
    BY <1>1, <1>2, <1>3, <1>4 DEF Records!TypeOK
  <1>6. Records!Coherent(r)
    <2>1. ASSUME NEW x \in Records!Things, r[x] = "whole", NEW y \in Records!Needs[x], y # "module" \/ ~shipped
          PROVE  r[y] # "absent"
      <3>1. x \in full /\ y \in Records!Things
        BY <1>2, <2>1, RecordsNeedsAre
      <3>2. y \in full
        BY <1>1, <2>1, <3>1
      <3>3. QED
        BY <1>2, <3>1, <3>2
    <2>2. QED
      BY <2>1 DEF Records!Coherent, Records!HasAll
  <1>7. Records!Stages /\ Records!OneByOne /\ Records!DeletedSoFar
    BY <1>2, <1>3, <1>4, <1>6 DEF Records!Stages, Records!OneByOne, Records!DeletedSoFar, Records!Going
  <1>8. QED
    BY <1>5, <1>7 DEF Records!ReferencesInv

LEMMA RecordsReferencesStep == ASSUME Records!ReferencesInv, [Records!Next]_(Records!vars) PROVE Records!ReferencesInv'
  BY RecordsReferencesType, RecordsStagesStep, RecordsOneStep, RecordsDeletedStep DEF Records!ReferencesInv

LEMMA RecordsReferencesGive == Records!ReferencesInv => Records!ReferencesHold
  <1> DEFINE held == s2  crossed == s4  lost == s5
  <1> SUFFICES ASSUME Records!ReferencesInv PROVE Records!ReferencesHold
    OBVIOUS
  <1>0. Records!TypeOK /\ Records!Stages /\ Records!OneByOne /\ Records!DeletedSoFar
    BY DEF Records!ReferencesInv
  <1>1. Records!NothingDangles
    <2> SUFFICES ASSUME ~crossed, lost = 0, NEW n \in Pair, NEW x \in Records!Things, held[n][x] = "whole",
                        \A o \in Twins : ~Records!Going(o)
                 PROVE  Records!Accepts(n, x)
      BY DEF Records!NothingDangles
    <2>1. Records!Coherent(held[n])
      BY <1>0 DEF Records!OneByOne
    <2>2. QED
      BY <2>1, RecordsAcceptsAll DEF Records!Coherent
  <1>2. Records!DeletedWhereTold
    BY <1>0 DEF Records!DeletedWhereTold, Records!DeletedSoFar, Records!Stages, Records!Unsaved
  <1>3. QED
    BY <1>1, <1>2 DEF Records!ReferencesHold

-----------------------------------------------------------------------------
(* Definitions pushed to another member.                                     *)
\* The five kinds are what they are, and in this order.
LEMMA PushKindsAre ==
    /\ Push!Kinds = {"modules", "templates", "stacks", "secrets", "tasks"}
    /\ Push!Place.modules = 1 /\ Push!Place.templates = 2 /\ Push!Place.stacks = 3
    /\ Push!Place.secrets = 4 /\ Push!Place.tasks = 5
    /\ \A k \in Push!Kinds : Push!Place[k] \in Nat
    /\ Push!May["modules"] = {"P"} /\ Push!May["templates"] = {"modules", "P"}
    /\ Push!May["stacks"] = {"templates", "x"} /\ Push!May["secrets"] = {"x"}
    /\ Push!May["tasks"] = {"templates", "modules", "P"}
  BY DEF Push!Kinds, Push!Place, Push!May

LEMMA PushSyncFields ==
    ASSUME Push!TypeOK
    PROVE  /\ s2.at \in {"none", "stacks", "templates", "modules", "push", "over"}
           /\ s2.from \in Pair \cup {Push!Nobody} /\ s2.to \in Pair \cup {Push!Nobody}
           /\ s2.asked \subseteq Push!Kinds
           /\ s2.needs \subseteq {"modules", "templates", "x", "P"}
           /\ DOMAIN s2.items \subseteq Push!Kinds
           /\ \A k \in DOMAIN s2.items : s2.items[k] \in Push!Records
           /\ s2.left \subseteq Push!Kinds /\ s2.failed \subseteq Push!Kinds /\ s2.done \subseteq Push!Kinds
  <1> DEFINE sync == s2
  <1>1. PICK D \in SUBSET Push!Kinds : sync \in Push!Sync(D)
    BY DEF Push!TypeOK
  <1>2. sync.items \in [D -> Push!Records]
    BY <1>1 DEF Push!Sync
  <1>3. QED
    BY <1>1, <1>2 DEF Push!Sync

LEMMA PushSyncInit == Push!NodesAssumption /\ Push!Init => Push!SyncInv
  <1> DEFINE held == s1  sync == s2  crossed == s3  faults == s4  trouble == s5
  <1> SUFFICES ASSUME Push!NodesAssumption, Push!Init PROVE Push!SyncInv
    OBVIOUS
  <1>1. /\ held \in [Pair -> [Push!Kinds -> Push!Records]]
        /\ \A n \in Pair, k \in Push!Kinds : held[n][k].with \subseteq Push!May[k]
        /\ \A n \in Pair, k \in Push!Kinds : Push!Makes(k, held[n][k])
    <2>1. PICK a \in Pair : \E full \in Push!Whole(a) : \E other \in [Pair \ {a} -> BOOLEAN] :
             held = [n \in Pair |-> IF n = a THEN full ELSE IF other[n] THEN Push!Full(n) ELSE Push!Empty]
      BY DEF Push!Init
    <2>0. PICK full \in Push!Whole(a), other \in [Pair \ {a} -> BOOLEAN] :
             held = [n \in Pair |-> IF n = a THEN full ELSE IF other[n] THEN Push!Full(n) ELSE Push!Empty]
      BY <2>1
    <2>2. /\ full \in [Push!Kinds -> Push!Records]
          /\ \A k \in Push!Kinds : full[k].with \subseteq Push!May[k] /\ Push!Makes(k, full[k])
      <3>1. full \in [Push!Kinds -> Push!Records] /\ \A k \in Push!Kinds : full[k].with \subseteq Push!May[k]
        BY PushKindsAre DEF Push!Whole, Push!Records, Push!Absent
      <3>2. \A k \in Push!Kinds : full[k] # Push!Absent => Push!Sound(k, full[k].with) /\ full[k].by = a
        BY PushKindsAre DEF Push!Whole, Push!Absent
      <3>3. QED
        BY <3>1, <3>2 DEF Push!Sound, Push!Makes, Push!Absent, Push!NodesAssumption, Push!Nobody
    <2>3. \A n \in Pair :
             /\ Push!Full(n) \in [Push!Kinds -> Push!Records]
             /\ \A k \in Push!Kinds : Push!Full(n)[k].with \subseteq Push!May[k] /\ Push!Makes(k, Push!Full(n)[k])
      BY PushKindsAre DEF Push!Full, Push!Records, Push!Makes, Push!NodesAssumption, Push!Nobody
    <2>4. /\ Push!Empty \in [Push!Kinds -> Push!Records]
          /\ \A k \in Push!Kinds : Push!Empty[k].with \subseteq Push!May[k] /\ Push!Makes(k, Push!Empty[k])
      BY DEF Push!Empty, Push!Records, Push!Absent, Push!Makes
    <2>5. QED
      BY <2>0, <2>2, <2>3, <2>4
  <1>2. Push!NoSync \in Push!Sync({}) /\ DOMAIN Push!NoSync.items = {}
    <2>1. [k \in {} |-> Push!Absent] \in [{} -> Push!Records]
      OBVIOUS
    <2>2. QED
      BY <2>1 DEF Push!NoSync, Push!Sync
  <1>3. sync = Push!NoSync /\ crossed = {} /\ faults = 0 /\ trouble = 0
    BY DEF Push!Init
  <1>4. QED
    BY <1>1, <1>2, <1>3 DEF Push!SyncInv, Push!TypeOK, Push!MakesSense, Push!ReadIsThere, Push!NamedGoesAlong, Push!InOrder, Push!ArrivesWhole, Push!NoSync

\* What fits more fits less of it as well.
LEMMA PushAcceptsLess ==
    ASSUME NEW records, NEW kind \in Push!Kinds, NEW with, NEW less \in SUBSET with, Push!Accepts(records, kind, with)
    PROVE  Push!Accepts(records, kind, less)
  BY DEF Push!Accepts

\* Completing a selection adds what its modules declare, which is P if anything.
LEMMA PushCompletedIs ==
    ASSUME NEW r \in [Push!Kinds -> Push!Records], r["modules"].with \subseteq {"P"}, NEW kind \in Push!Kinds,
           NEW record \in Push!Records, record.with \subseteq Push!May[kind], Push!Makes(kind, record)
    PROVE  /\ Push!Completed(r, kind, record) \in Push!Records /\ Push!Completed(r, kind, record).with \subseteq Push!May[kind]
           /\ Push!Makes(kind, Push!Completed(r, kind, record))
           /\ record.with \subseteq Push!Completed(r, kind, record).with
           /\ Push!Completed(r, kind, record).by = record.by
           /\ kind \notin {"templates", "tasks"} => Push!Completed(r, kind, record) = record
           /\ Push!Accepts(r, kind, record.with) => Push!Accepts(r, kind, Push!Completed(r, kind, record).with)
  <1>1. CASE kind \in {"templates", "tasks"} /\ "modules" \in record.with
    <2> DEFINE full == record.with \cup r["modules"].with
    <2>1. Push!Completed(r, kind, record) = [by |-> record.by, with |-> full]
      BY <1>1 DEF Push!Completed, Push!Records
    <2>2. full \subseteq Push!May[kind] /\ full \subseteq record.with \cup {"P"} /\ "P" \notin Push!Kinds
      BY <1>1, PushKindsAre
    <2>3. full \in SUBSET {"modules", "templates", "x", "P"}
      BY <2>2 DEF Push!Records
    <2>4. record.by # Push!Nobody
      BY <1>1 DEF Push!Makes
    <2>5. Push!Accepts(r, kind, record.with) => Push!Accepts(r, kind, full)
      BY <2>2 DEF Push!Accepts
    <2> HIDE DEF full
    <2>6. record.with \subseteq full
      BY DEF full
    <2>7. Push!Completed(r, kind, record) \in Push!Records /\ Push!Makes(kind, Push!Completed(r, kind, record))
      BY <1>1, <2>1, <2>3, <2>4, <2>6 DEF Push!Records, Push!Makes
    <2>8. QED
      BY <1>1, <2>1, <2>2, <2>5, <2>6, <2>7
  <1>2. CASE ~(kind \in {"templates", "tasks"} /\ "modules" \in record.with)
    BY <1>2 DEF Push!Completed
  <1>3. QED
    BY <1>1, <1>2

\* What people and pushes do to a node's records keeps them records of their kinds.
LEMMA PushSavedIs ==
    ASSUME NEW r \in [Push!Kinds -> Push!Records], \A k \in Push!Kinds : r[k].with \subseteq Push!May[k] /\ Push!Makes(k, r[k]),
           NEW kind \in Push!Kinds, NEW record \in Push!Records, record.with \subseteq Push!May[kind], Push!Makes(kind, record)
    PROVE  /\ Push!Saved(r, kind, record) \in [Push!Kinds -> Push!Records]
           /\ \A k \in Push!Kinds : /\ Push!Saved(r, kind, record)[k].with \subseteq Push!May[k]
                               /\ Push!Makes(k, Push!Saved(r, kind, record)[k])
           /\ Push!Saved(r, kind, record)[kind] = Push!Completed(r, kind, record)
           /\ \A k \in Push!Kinds \ {kind} :
                 k # "secrets" \/ kind # "stacks" => Push!Saved(r, kind, record)[k] = r[k]
  <1>1. Push!Absent \in Push!Records /\ Push!Absent.with = {}
    BY DEF Push!Absent, Push!Records
  <1> HIDE DEF Push!Absent
  <1> DEFINE whole == Push!Completed(r, kind, record)
             r1 == [r EXCEPT ![kind] = whole]
             secrets == IF kind = "stacks" /\ "x" \notin record.with THEN Push!Absent
                        ELSE IF kind = "secrets" THEN record ELSE r1["secrets"]
  <1>2. Push!Saved(r, kind, record) = [r1 EXCEPT !["secrets"] = secrets]
    BY DEF Push!Saved
  <1>0. whole \in Push!Records /\ whole.with \subseteq Push!May[kind] /\ Push!Makes(kind, whole)
        /\ (kind = "secrets" => whole = record)
    <2>1. "modules" \in Push!Kinds /\ r["modules"].with \subseteq {"P"}
      BY PushKindsAre
    <2>2. QED
      BY <2>1, PushCompletedIs
  <1> HIDE DEF whole
  <1>3. /\ r1 \in [Push!Kinds -> Push!Records] /\ r1[kind] = whole
        /\ \A k \in Push!Kinds \ {kind} : r1[k] = r[k]
        /\ \A k \in Push!Kinds : r1[k].with \subseteq Push!May[k]
    BY <1>0
  <1>7. \A k \in Push!Kinds : Push!Makes(k, r1[k])
    BY <1>0, <1>3
  <1> HIDE DEF r1
  <1>4. "secrets" \in Push!Kinds
    BY PushKindsAre
  <1>5. /\ secrets \in Push!Records /\ secrets.with \subseteq Push!May["secrets"]
        /\ kind # "stacks" => secrets = r1["secrets"]
    BY <1>0, <1>1, <1>3, <1>4
  <1>8. Push!Makes("secrets", secrets)
    BY <1>0, <1>1, <1>3, <1>4, <1>7 DEF Push!Makes
  <1> HIDE DEF secrets
  <1>6. QED
    BY <1>2, <1>3, <1>4, <1>5, <1>7, <1>8 DEF whole

\* The sync reads more of its own records.
LEMMA PushTakenIs ==
    ASSUME Push!SyncInv, s2.at # "none", NEW kinds \in SUBSET Push!Kinds
    PROVE  /\ DOMAIN Push!Taken(kinds) = DOMAIN s2.items \cup kinds
           /\ Push!Taken(kinds) \in [DOMAIN s2.items \cup kinds -> Push!Records]
           /\ \A k \in DOMAIN Push!Taken(kinds) : /\ Push!Taken(kinds)[k].with \subseteq Push!May[k]
                                            /\ Push!Makes(k, Push!Taken(kinds)[k])
           /\ \A k \in DOMAIN s2.items \ kinds : Push!Taken(kinds)[k] = s2.items[k]
           /\ \A k \in kinds : Push!Taken(kinds)[k] = s1[s2.from][k]
           /\ s3 = {} => \A k \in DOMAIN Push!Taken(kinds) : Push!Taken(kinds)[k] = s1[s2.from][k]
  <1> DEFINE held == s1  sync == s2
  <1>1. sync.from \in Pair /\ held[sync.from] \in [Push!Kinds -> Push!Records]
    BY DEF Push!SyncInv, Push!TypeOK
  <1>2. DOMAIN sync.items \subseteq Push!Kinds /\ \A k \in DOMAIN sync.items : sync.items[k] \in Push!Records
    BY PushSyncFields DEF Push!SyncInv
  <1>3. QED
    BY <1>1, <1>2 DEF Push!SyncInv, Push!TypeOK, Push!MakesSense, Push!ReadIsThere, Push!Taken, Push!Here

LEMMA PushSyncReadStacks == ASSUME Push!SyncInv, Push!ReadStacks PROVE Push!SyncInv'
  <1> DEFINE held == s1  sync == s2  crossed == s3  faults == s4  trouble == s5
  <1> DEFINE kinds == {k \in sync.asked \cap {"stacks", "tasks"} : Push!There(sync.from, k)}
             items == Push!Taken(kinds)
             E == DOMAIN sync.items \cup kinds
  <1>0. /\ sync.at = "stacks" /\ DOMAIN sync.items \subseteq Push!ReadBy["stacks"] /\ sync.left = {}
        /\ sync.done = {} /\ sync.failed = {} /\ sync.from \in Pair
        /\ \A k \in DOMAIN sync.items : sync.items[k].with \subseteq sync.needs
    BY DEF Push!ReadStacks, Push!SyncInv, Push!TypeOK, Push!NamedGoesAlong, Push!InOrder
  <1>1. /\ kinds \in SUBSET Push!Kinds /\ DOMAIN sync.items \subseteq Push!Kinds
        /\ held[sync.from] \in [Push!Kinds -> Push!Records]
    BY <1>0, PushKindsAre, PushSyncFields DEF Push!SyncInv, Push!TypeOK
  <1>2. Push!Named(kinds) \in SUBSET {"modules", "templates", "x", "P"}
    BY <1>1, PushSyncFields DEF Push!Named, Push!Here, Push!Records, Push!SyncInv
  <1> HIDE DEF kinds
  <1>3. items \in [E -> Push!Records] /\ E \in SUBSET Push!Kinds
    BY <1>0, <1>1, PushTakenIs
  <1>4. PICK D \in SUBSET Push!Kinds : sync \in Push!Sync(D)
    BY DEF Push!SyncInv, Push!TypeOK
  <1>5. /\ sync'.at = "templates" /\ sync'.items = items /\ sync'.needs = Push!Named(kinds)
        /\ sync'.left = sync.left
        /\ sync'.from = sync.from /\ sync'.to = sync.to /\ sync'.asked = sync.asked
        /\ sync'.done = sync.done /\ sync'.failed = sync.failed /\ sync' \in Push!Sync(E)
    <2> HIDE DEF items, E
    <2>1. sync' = [sync EXCEPT !.at = "templates", !.items = items, !.needs = Push!Named(kinds)]
      BY DEF Push!ReadStacks, items, E, kinds
    <2>2. QED
      BY <1>0, <1>2, <1>3, <1>4, <2>1 DEF Push!Sync
  <1>6. held' = held /\ crossed' = crossed /\ faults' = faults /\ trouble' = trouble
    BY DEF Push!ReadStacks
  <1>7. /\ DOMAIN items = E
        /\ \A k \in E \ kinds : items[k] = sync.items[k]
        /\ \A k \in kinds : items[k] = held[sync.from][k]
        /\ \A k \in E : items[k].with \subseteq Push!May[k] /\ Push!Makes(k, items[k])
        /\ crossed = {} => \A k \in E : items[k] = held[sync.from][k]
    BY <1>0, <1>1, PushTakenIs
  <1> HIDE DEF items
  <1>8. Push!TypeOK'
    <2>1. \E F \in SUBSET Push!Kinds : sync' \in Push!Sync(F)
      BY <1>3, <1>5
    <2>2. \A k \in DOMAIN sync'.items : sync'.items[k].with \subseteq Push!May[k]
      BY <1>5, <1>7
    <2>3. QED
      BY <1>0, <1>5, <1>6, <2>1, <2>2 DEF Push!SyncInv, Push!TypeOK, Push!Sync
  <1>9. Push!ReadIsThere'
    BY <1>5, <1>6, <1>7 DEF Push!ReadIsThere
  <1>10. Push!InOrder'
    BY <1>0, <1>5, <1>7 DEF Push!InOrder
  <1>11. Push!NamedGoesAlong'
    <2>1. \A k \in kinds : items[k].with \subseteq Push!Named(kinds)
      BY <1>7 DEF Push!Named, Push!Here
    <2>2. E \subseteq Push!ReadBy["templates"]
      BY <1>0, PushKindsAre DEF Push!ReadBy, kinds
    <2>3. \A k \in E : items[k].with \subseteq Push!Named(kinds)
      BY <1>0, <1>7, <2>1 DEF Push!ReadBy
    <2>4. ASSUME crossed = {}, NEW k \in E, NEW needed \in items[k].with \cap Push!ReadBy["templates"],
                 Push!There(sync.from, needed)
          PROVE  needed \in E
      BY <1>1, <1>7, <2>4, PushKindsAre DEF Push!ReadBy, kinds
    <2>5. QED
      BY <1>5, <1>6, <1>7, <2>2, <2>3, <2>4 DEF Push!NamedGoesAlong, Push!There
  <1>12. Push!ArrivesWhole'
    BY <1>0, <1>5 DEF Push!ArrivesWhole
  <1>13. Push!MakesSense'
    BY <1>5, <1>6, <1>7 DEF Push!SyncInv, Push!MakesSense, Push!Makes
  <1>14. QED
    BY <1>8, <1>9, <1>10, <1>11, <1>12, <1>13 DEF Push!SyncInv

LEMMA PushSyncReadTemplates == ASSUME Push!SyncInv, Push!ReadTemplates PROVE Push!SyncInv'
  <1> DEFINE held == s1  sync == s2  crossed == s3  faults == s4  trouble == s5
  <1> DEFINE kinds == {k \in {"templates"} : Push!Wanted(k) /\ Push!There(sync.from, k)}
             items == Push!Taken(kinds)
             E == DOMAIN sync.items \cup kinds
  <1>0. /\ sync.at = "templates" /\ DOMAIN sync.items \subseteq Push!ReadBy["templates"] /\ sync.left = {}
        /\ sync.done = {} /\ sync.failed = {} /\ sync.from \in Pair
        /\ \A k \in DOMAIN sync.items : sync.items[k].with \subseteq sync.needs
    BY DEF Push!ReadTemplates, Push!SyncInv, Push!TypeOK, Push!NamedGoesAlong, Push!InOrder
  <1>1. /\ kinds \in SUBSET Push!Kinds /\ DOMAIN sync.items \subseteq Push!Kinds
        /\ held[sync.from] \in [Push!Kinds -> Push!Records]
    BY <1>0, PushKindsAre, PushSyncFields DEF Push!SyncInv, Push!TypeOK
  <1>2. (sync.needs \cup Push!Named(kinds)) \in SUBSET {"modules", "templates", "x", "P"}
    BY <1>1, PushSyncFields DEF Push!Named, Push!Here, Push!Records, Push!SyncInv
  <1> HIDE DEF kinds
  <1>3. items \in [E -> Push!Records] /\ E \in SUBSET Push!Kinds
    BY <1>0, <1>1, PushTakenIs
  <1>4. PICK D \in SUBSET Push!Kinds : sync \in Push!Sync(D)
    BY DEF Push!SyncInv, Push!TypeOK
  <1>5. /\ sync'.at = "modules" /\ sync'.items = items /\ sync'.needs = (sync.needs \cup Push!Named(kinds))
        /\ sync'.left = sync.left
        /\ sync'.from = sync.from /\ sync'.to = sync.to /\ sync'.asked = sync.asked
        /\ sync'.done = sync.done /\ sync'.failed = sync.failed /\ sync' \in Push!Sync(E)
    <2> HIDE DEF items, E
    <2>1. sync' = [sync EXCEPT !.at = "modules", !.items = items, !.needs = sync.needs \cup Push!Named(kinds)]
      BY DEF Push!ReadTemplates, items, E, kinds
    <2>2. QED
      BY <1>0, <1>2, <1>3, <1>4, <2>1 DEF Push!Sync
  <1>6. held' = held /\ crossed' = crossed /\ faults' = faults /\ trouble' = trouble
    BY DEF Push!ReadTemplates
  <1>7. /\ DOMAIN items = E
        /\ \A k \in E \ kinds : items[k] = sync.items[k]
        /\ \A k \in kinds : items[k] = held[sync.from][k]
        /\ \A k \in E : items[k].with \subseteq Push!May[k] /\ Push!Makes(k, items[k])
        /\ crossed = {} => \A k \in E : items[k] = held[sync.from][k]
    BY <1>0, <1>1, PushTakenIs
  <1> HIDE DEF items
  <1>8. Push!TypeOK'
    <2>1. \E F \in SUBSET Push!Kinds : sync' \in Push!Sync(F)
      BY <1>3, <1>5
    <2>2. \A k \in DOMAIN sync'.items : sync'.items[k].with \subseteq Push!May[k]
      BY <1>5, <1>7
    <2>3. QED
      BY <1>0, <1>5, <1>6, <2>1, <2>2 DEF Push!SyncInv, Push!TypeOK, Push!Sync
  <1>9. Push!ReadIsThere'
    BY <1>5, <1>6, <1>7 DEF Push!ReadIsThere
  <1>10. Push!InOrder'
    BY <1>0, <1>5, <1>7 DEF Push!InOrder
  <1>11. Push!NamedGoesAlong'
    <2>1. \A k \in kinds : items[k].with \subseteq Push!Named(kinds)
      BY <1>7 DEF Push!Named, Push!Here
    <2>2. E \subseteq Push!ReadBy["modules"]
      BY <1>0, PushKindsAre DEF Push!ReadBy, kinds
    <2>3. \A k \in E : items[k].with \subseteq sync.needs \cup Push!Named(kinds)
      BY <1>0, <1>7, <2>1 DEF Push!ReadBy
    <2>4. ASSUME crossed = {}, NEW k \in E, NEW needed \in items[k].with \cap Push!ReadBy["modules"],
                 Push!There(sync.from, needed)
          PROVE  needed \in E
      <3>1. needed = "templates" /\ k # "templates"
        BY <1>1, <1>7, <2>4, PushKindsAre DEF Push!ReadBy, kinds
      <3>2. k \in DOMAIN sync.items /\ needed \in sync.needs
        BY <1>0, <1>7, <2>4, <3>1 DEF kinds
      <3>3. QED
        BY <2>4, <3>1, <3>2 DEF Push!Wanted, kinds
    <2>5. QED
      BY <1>5, <1>6, <1>7, <2>2, <2>3, <2>4 DEF Push!NamedGoesAlong, Push!There
  <1>12. Push!ArrivesWhole'
    BY <1>0, <1>5 DEF Push!ArrivesWhole
  <1>13. Push!MakesSense'
    BY <1>5, <1>6, <1>7 DEF Push!SyncInv, Push!MakesSense, Push!Makes
  <1>14. QED
    BY <1>8, <1>9, <1>10, <1>11, <1>12, <1>13 DEF Push!SyncInv

LEMMA PushSyncReadRest == ASSUME Push!SyncInv, Push!ReadRest PROVE Push!SyncInv'
  <1> DEFINE held == s1  sync == s2  crossed == s3  faults == s4  trouble == s5
  <1> DEFINE kinds == {k \in {"modules"} : Push!Wanted(k) /\ Push!There(sync.from, k)}
                      \cup {k \in {"secrets"} \cap sync.asked :
                               Push!There(sync.from, k) \/ "x" \in Push!Here["stacks"].with}
             items == Push!Taken(kinds)
             E == DOMAIN sync.items \cup kinds
  <1>0. /\ sync.at = "modules" /\ DOMAIN sync.items \subseteq Push!ReadBy["modules"] /\ sync.left = {}
        /\ sync.done = {} /\ sync.failed = {} /\ sync.from \in Pair
        /\ \A k \in DOMAIN sync.items : sync.items[k].with \subseteq sync.needs
    BY DEF Push!ReadRest, Push!SyncInv, Push!TypeOK, Push!NamedGoesAlong, Push!InOrder
  <1>1. /\ kinds \in SUBSET Push!Kinds /\ DOMAIN sync.items \subseteq Push!Kinds
        /\ held[sync.from] \in [Push!Kinds -> Push!Records]
    BY <1>0, PushKindsAre, PushSyncFields DEF Push!SyncInv, Push!TypeOK
  <1>2. sync.needs \in SUBSET {"modules", "templates", "x", "P"}
    BY <1>1, PushSyncFields DEF Push!Named, Push!Here, Push!Records, Push!SyncInv
  <1> HIDE DEF kinds
  <1>3. items \in [E -> Push!Records] /\ E \in SUBSET Push!Kinds
    BY <1>0, <1>1, PushTakenIs
  <1>4. PICK D \in SUBSET Push!Kinds : sync \in Push!Sync(D)
    BY DEF Push!SyncInv, Push!TypeOK
  <1>5. /\ sync'.at = "push" /\ sync'.items = items /\ sync'.needs = sync.needs
        /\ sync'.left = E
        /\ sync'.from = sync.from /\ sync'.to = sync.to /\ sync'.asked = sync.asked
        /\ sync'.done = sync.done /\ sync'.failed = sync.failed /\ sync' \in Push!Sync(E)
    <2> HIDE DEF items, E
    <2>1. sync' = [sync EXCEPT !.at = "push", !.items = items, !.left = E]
      BY DEF Push!ReadRest, items, E, kinds
    <2>2. QED
      BY <1>0, <1>2, <1>3, <1>4, <2>1 DEF Push!Sync
  <1>6. held' = held /\ crossed' = crossed /\ faults' = faults /\ trouble' = trouble
    BY DEF Push!ReadRest
  <1>7. /\ DOMAIN items = E
        /\ \A k \in E \ kinds : items[k] = sync.items[k]
        /\ \A k \in kinds : items[k] = held[sync.from][k]
        /\ \A k \in E : items[k].with \subseteq Push!May[k] /\ Push!Makes(k, items[k])
        /\ crossed = {} => \A k \in E : items[k] = held[sync.from][k]
    BY <1>0, <1>1, PushTakenIs
  <1> HIDE DEF items
  <1>8. Push!TypeOK'
    <2>1. \E F \in SUBSET Push!Kinds : sync' \in Push!Sync(F)
      BY <1>3, <1>5
    <2>2. \A k \in DOMAIN sync'.items : sync'.items[k].with \subseteq Push!May[k]
      BY <1>5, <1>7
    <2>3. QED
      BY <1>0, <1>5, <1>6, <2>1, <2>2 DEF Push!SyncInv, Push!TypeOK, Push!Sync
  <1>9. Push!ReadIsThere'
    BY <1>5, <1>6, <1>7 DEF Push!ReadIsThere
  <1>10. Push!InOrder'
    BY <1>0, <1>5, <1>7 DEF Push!InOrder
  <1>11. Push!NamedGoesAlong'
    <2>1. ASSUME crossed = {}, NEW k \in E, NEW needed \in items[k].with \cap Push!Kinds,
                 Push!There(sync.from, needed)
          PROVE  needed \in E
      <3>1. needed \in {"templates", "modules"} /\ k \in DOMAIN sync.items
        BY <1>1, <1>7, <2>1, PushKindsAre DEF kinds
      <3>2. needed \in sync.needs /\ sync.items[k] = items[k]
        BY <1>0, <1>1, <1>7, <2>1, <3>1, PushKindsAre DEF Push!ReadBy, kinds
      <3>3. CASE needed = "modules"
        BY <2>1, <3>2, <3>3 DEF Push!Wanted, kinds
      <3>4. CASE needed = "templates"
        BY <1>0, <2>1, <3>1, <3>2, <3>4 DEF Push!SyncInv, Push!NamedGoesAlong, Push!ReadBy
      <3>5. QED
        BY <3>1, <3>3, <3>4
    <2>2. QED
      BY <1>5, <1>6, <1>7, <2>1 DEF Push!NamedGoesAlong, Push!ReadBy, Push!There
  <1>12. Push!ArrivesWhole'
    BY <1>0, <1>5 DEF Push!ArrivesWhole
  <1>13. Push!MakesSense'
    BY <1>5, <1>6, <1>7 DEF Push!SyncInv, Push!MakesSense, Push!Makes
  <1>14. QED
    BY <1>8, <1>9, <1>10, <1>11, <1>12, <1>13 DEF Push!SyncInv

\* What people do is nothing to the rest: from then on nothing is promised.
LEMMA PushSyncPeople ==
    ASSUME Push!NodesAssumption, Push!SyncInv, NEW n \in Pair, NEW kind \in Push!Kinds,
           Push!Delete(n, kind) \/ \E with \in SUBSET Push!May[kind] : Push!Save(n, kind, with)
    PROVE  Push!SyncInv'
  <1> DEFINE held == s1  sync == s2  crossed == s3  faults == s4  trouble == s5
  <1>1. /\ sync' = sync /\ faults' = faults /\ crossed' # {} /\ trouble' = trouble + 1
    BY DEF Push!Delete, Push!Save, Push!Changed, Push!Trouble
  <1>2. /\ held' \in [Pair -> [Push!Kinds -> Push!Records]]
        /\ \A m \in Pair, k \in Push!Kinds : held'[m][k].with \subseteq Push!May[k] /\ Push!Makes(k, held'[m][k])
    <2>0. /\ held[n] \in [Push!Kinds -> Push!Records]
          /\ \A k \in Push!Kinds : held[n][k].with \subseteq Push!May[k] /\ Push!Makes(k, held[n][k])
      BY DEF Push!SyncInv, Push!TypeOK, Push!MakesSense
    <2>1. ASSUME NEW r \in [Push!Kinds -> Push!Records], held' = [held EXCEPT ![n] = r],
                 \A k \in Push!Kinds : r[k].with \subseteq Push!May[k] /\ Push!Makes(k, r[k])
          PROVE  /\ held' \in [Pair -> [Push!Kinds -> Push!Records]]
                 /\ \A m \in Pair, k \in Push!Kinds : held'[m][k].with \subseteq Push!May[k] /\ Push!Makes(k, held'[m][k])
      BY <2>1 DEF Push!SyncInv, Push!TypeOK, Push!MakesSense
    <2>2. ASSUME NEW with \in SUBSET Push!May[kind], Push!Save(n, kind, with)
          PROVE  /\ held' \in [Pair -> [Push!Kinds -> Push!Records]]
                 /\ \A m \in Pair, k \in Push!Kinds : held'[m][k].with \subseteq Push!May[k] /\ Push!Makes(k, held'[m][k])
      <3> DEFINE record == [by |-> n, with |-> with]
                 r == Push!Saved(held[n], kind, record)
      <3>1. record \in Push!Records /\ record.with \subseteq Push!May[kind] /\ Push!Makes(kind, record)
        <4>1. Push!May[kind] \subseteq {"modules", "templates", "x", "P"} /\ Push!Sound(kind, with)
          BY <2>2, PushKindsAre DEF Push!Save
        <4>2. QED
          BY <4>1 DEF Push!Records, Push!Makes, Push!Sound, Push!NodesAssumption, Push!Nobody
      <3>2. held' = [held EXCEPT ![n] = r]
        BY <2>2 DEF Push!Save
      <3> HIDE DEF record
      <3>3. r \in [Push!Kinds -> Push!Records] /\ \A k \in Push!Kinds : r[k].with \subseteq Push!May[k] /\ Push!Makes(k, r[k])
        BY <2>0, <3>1, PushSavedIs
      <3> HIDE DEF r
      <3>4. QED
        BY <2>1, <3>2, <3>3
    <2>3. ASSUME Push!Delete(n, kind)
          PROVE  /\ held' \in [Pair -> [Push!Kinds -> Push!Records]]
                 /\ \A m \in Pair, k \in Push!Kinds : held'[m][k].with \subseteq Push!May[k] /\ Push!Makes(k, held'[m][k])
      <3> DEFINE r == [k \in Push!Kinds |-> IF k = kind \/ (k = "secrets" /\ kind = "stacks")
                                       THEN Push!Absent ELSE held[n][k]]
      <3>1. Push!Absent \in Push!Records /\ \A k \in Push!Kinds : Push!Absent.with \subseteq Push!May[k] /\ Push!Makes(k, Push!Absent)
        BY DEF Push!Absent, Push!Records, Push!Makes
      <3>2. r \in [Push!Kinds -> Push!Records] /\ \A k \in Push!Kinds : r[k].with \subseteq Push!May[k] /\ Push!Makes(k, r[k])
        BY <2>0, <3>1
      <3>3. held' = [held EXCEPT ![n] = r]
        BY <2>3 DEF Push!Delete
      <3> HIDE DEF r
      <3>4. QED
        BY <2>1, <3>2, <3>3
    <2>4. QED
      BY <2>2, <2>3
  <1>3. Push!TypeOK'
    BY <1>1, <1>2 DEF Push!SyncInv, Push!TypeOK
  <1>4. (Push!MakesSense /\ Push!ReadIsThere /\ Push!NamedGoesAlong /\ Push!InOrder /\ Push!ArrivesWhole)'
    BY <1>1, <1>2 DEF Push!SyncInv, Push!MakesSense, Push!ReadIsThere, Push!NamedGoesAlong, Push!InOrder, Push!ArrivesWhole
  <1>5. QED
    BY <1>3, <1>4 DEF Push!SyncInv

\* One item of the push is done with: the rest still goes in order.
LEMMA PushedOn ==
    ASSUME Push!SyncInv, NEW kind \in Push!Kinds, Push!Due(kind),
           s2'.at = "push", s2'.items = s2.items, s2'.left = s2.left \ {kind},
           s2'.done \cup s2'.failed = s2.done \cup s2.failed \cup {kind}
    PROVE  Push!InOrder'
  <1> DEFINE sync == s2
  <1>1. sync.at = "push" /\ sync.left \subseteq Push!Kinds
    BY PushSyncFields DEF Push!SyncInv, Push!Due
  <1>2. kind \in sync.left /\ \A other \in sync.left \ {kind} : Push!Place[kind] < Push!Place[other]
    <2>1. kind \in sync.left /\ \A other \in sync.left : Push!Place[kind] <= Push!Place[other]
      BY DEF Push!Due
    <2>2. \A k, o \in Push!Kinds : k # o => Push!Place[k] # Push!Place[o]
      BY PushKindsAre
    <2>3. QED
      BY <1>1, <2>1, <2>2, PushKindsAre
  <1>3. /\ DOMAIN sync'.items = sync'.left \cup sync'.done \cup sync'.failed
        /\ \A k \in sync'.left, d \in sync'.done \cup sync'.failed : Push!Place[d] < Push!Place[k]
    BY <1>1, <1>2 DEF Push!SyncInv, Push!InOrder
  <1>4. QED
    BY <1>3 DEF Push!InOrder

\* What a kind may name comes before it.
LEMMA PushNamedBefore ==
    ASSUME NEW k \in Push!Kinds, NEW needed \in Push!May[k] \cap Push!Kinds
    PROVE  Push!Place[needed] < Push!Place[k] /\ needed # "secrets" /\ needed # k
  BY PushKindsAre

LEMMA PushSyncPush ==
    ASSUME Push!SyncInv, NEW kind \in Push!Kinds, Push!Push(kind)
    PROVE  Push!SyncInv'
  <1> DEFINE held == s1  sync == s2  crossed == s3  faults == s4  trouble == s5
  <1>0. /\ Push!Due(kind) /\ sync.at = "push" /\ kind \in sync.left /\ kind \in DOMAIN sync.items
        /\ \A d \in sync.done \cup sync.failed : Push!Place[d] < Push!Place[kind]
        /\ DOMAIN sync.items = sync.left \cup sync.done \cup sync.failed
        /\ \A other \in sync.left : Push!Place[kind] <= Push!Place[other]
    BY DEF Push!Push, Push!Due, Push!SyncInv, Push!InOrder
  <1>1. /\ sync.done \subseteq Push!Kinds /\ sync.failed \subseteq Push!Kinds /\ sync.items[kind] \in Push!Records
        /\ DOMAIN sync.items \subseteq Push!Kinds
        /\ sync.items[kind].with \subseteq Push!May[kind] /\ Push!Makes(kind, sync.items[kind])
        /\ sync.to \in Pair /\ sync.from \in Pair /\ sync.from # sync.to
        /\ held[sync.to] \in [Push!Kinds -> Push!Records]
        /\ \A k \in Push!Kinds : held[sync.to][k].with \subseteq Push!May[k] /\ Push!Makes(k, held[sync.to][k])
    BY <1>0, PushSyncFields DEF Push!SyncInv, Push!TypeOK, Push!MakesSense
  <1>2. crossed' = crossed /\ faults' = faults /\ trouble' = trouble
    BY DEF Push!Push
  <1> DEFINE record == sync.items[kind]
             after == Push!Saved(held[sync.to], kind, record)
  <1>3. CASE Push!Accepts(held[sync.to], kind, record.with)
    <2>1. held' = [held EXCEPT ![sync.to] = after]
      BY <1>3 DEF Push!Push
    <2>3. /\ sync'.at = "push" /\ sync'.from = sync.from /\ sync'.to = sync.to
          /\ sync'.items = sync.items /\ sync'.done = sync.done \cup {kind} /\ sync'.failed = sync.failed
          /\ (\E D \in SUBSET Push!Kinds : sync' \in Push!Sync(D)) /\ Push!InOrder'
    <3>1. sync' = [sync EXCEPT !.left = @ \ {kind}, !.done = @ \cup {kind}]
      BY <1>3 DEF Push!Push
    <3>2. PICK D \in SUBSET Push!Kinds : sync \in Push!Sync(D)
      BY DEF Push!SyncInv, Push!TypeOK
    <3>3. kind \in Push!Kinds
      OBVIOUS
    <3>4. /\ sync'.at = sync.at /\ sync'.from = sync.from /\ sync'.to = sync.to
          /\ sync'.items = sync.items /\ sync'.left = sync.left \ {kind}
          /\ sync'.done = sync.done \cup {kind} /\ sync'.failed = sync.failed
          /\ sync' \in Push!Sync(D)
      BY <3>1, <3>2, <3>3 DEF Push!Sync
      <3>5. Push!InOrder'
        BY <1>0, <3>4, PushedOn
      <3>6. QED
        BY <1>0, <3>4, <3>5
    <2> HIDE DEF record
    <2>4. /\ after \in [Push!Kinds -> Push!Records]
          /\ \A k \in Push!Kinds : after[k].with \subseteq Push!May[k] /\ Push!Makes(k, after[k])
          /\ after[kind] = Push!Completed(held[sync.to], kind, record)
          /\ \A k \in Push!Kinds \ {kind} : k # "secrets" \/ kind # "stacks" => after[k] = held[sync.to][k]
      <3> DEFINE r == held[sync.to]
      <3>1. /\ r \in [Push!Kinds -> Push!Records] /\ record \in Push!Records
            /\ record.with \subseteq Push!May[kind] /\ Push!Makes(kind, record)
            /\ \A k \in Push!Kinds : r[k].with \subseteq Push!May[k] /\ Push!Makes(k, r[k])
        BY <1>1 DEF record
      <3> HIDE DEF r
      <3>2. /\ Push!Saved(r, kind, record) \in [Push!Kinds -> Push!Records]
            /\ \A k \in Push!Kinds : /\ Push!Saved(r, kind, record)[k].with \subseteq Push!May[k]
                                /\ Push!Makes(k, Push!Saved(r, kind, record)[k])
            /\ Push!Saved(r, kind, record)[kind] = Push!Completed(r, kind, record)
            /\ \A k \in Push!Kinds \ {kind} :
                  k # "secrets" \/ kind # "stacks" => Push!Saved(r, kind, record)[k] = r[k]
        BY <3>1, PushSavedIs
      <3>3. QED
        BY <3>2 DEF r
    <2> HIDE DEF after
    <2>5. /\ held'[sync.to] = after /\ held' \in [Pair -> [Push!Kinds -> Push!Records]]
          /\ \A n \in Pair \ {sync.to} : held'[n] = held[n]
      BY <1>1, <2>1, <2>4 DEF Push!SyncInv, Push!TypeOK
    <2>6. Push!TypeOK'
      BY <1>1, <1>2, <2>3, <2>4, <2>5 DEF Push!SyncInv, Push!TypeOK
    <2>7. Push!MakesSense' /\ Push!ReadIsThere' /\ Push!NamedGoesAlong'
      <3>1. Push!MakesSense'
        BY <2>3, <2>4, <2>5 DEF Push!SyncInv, Push!MakesSense
      <3>2. held'[sync.from] = held[sync.from]
        BY <1>1, <2>5
      <3>3. Push!ReadIsThere'
        BY <1>0, <1>2, <2>3, <3>2 DEF Push!SyncInv, Push!ReadIsThere
      <3>4. Push!NamedGoesAlong'
        BY <1>0, <1>2, <2>3, <3>2 DEF Push!SyncInv, Push!NamedGoesAlong, Push!There, Push!ReadBy
      <3>5. QED
        BY <3>1, <3>3, <3>4
    <2>8. Push!ArrivesWhole'
      <3> SUFFICES ASSUME crossed = {}
                   PROVE  /\ \A k \in sync.done \cup {kind} :
                                /\ after[k] = Push!Completed(after, k, sync.items[k])
                                /\ Push!Accepts(after, k, after[k].with)
                          /\ Push!Fits(sync.from)' /\ faults = 0 => sync.failed = {}
        BY <1>2, <2>3, <2>5 DEF Push!ArrivesWhole
      <3>1. ASSUME NEW k \in sync.done
            PROVE  /\ held[sync.to][k] = Push!Completed(held[sync.to], k, sync.items[k])
                   /\ after[k] = held[sync.to][k] /\ Push!Accepts(held[sync.to], k, after[k].with)
                   /\ k \in Push!Kinds /\ Push!Place[k] < Push!Place[kind]
        <4>1. /\ held[sync.to][k] = Push!Completed(held[sync.to], k, sync.items[k])
              /\ Push!Accepts(held[sync.to], k, held[sync.to][k].with)
          BY <1>0 DEF Push!SyncInv, Push!ArrivesWhole
        <4>2. k \in Push!Kinds /\ Push!Place[k] < Push!Place[kind] /\ k # kind
          BY <1>0, <1>1, PushKindsAre
        <4>3. k # "secrets" \/ kind # "stacks"
          BY <4>2, PushKindsAre
        <4>4. after[k] = held[sync.to][k]
          BY <2>4, <4>2, <4>3
        <4>5. QED
          BY <4>1, <4>2, <4>4
      <3>2. ASSUME NEW k \in Push!Kinds, NEW with \in SUBSET Push!May[k], Push!Place[k] < Push!Place[kind] \/ k = kind
            PROVE  /\ Push!Accepts(held[sync.to], k, with) => Push!Accepts(after, k, with)
                   /\ Push!Completed(after, k, sync.items[k]) = Push!Completed(held[sync.to], k, sync.items[k])
        <4>1. ASSUME NEW needed \in Push!Kinds \cap Push!May[k]
              PROVE  after[needed] = held[sync.to][needed]
          BY <2>4, <3>2, PushNamedBefore, PushKindsAre
        <4>2. ASSUME k \in {"templates", "tasks"} PROVE after["modules"] = held[sync.to]["modules"]
          BY <4>1, <4>2, PushKindsAre
        <4>3. QED
          BY <3>2, <4>1, <4>2 DEF Push!Accepts, Push!Completed
      <3>3. Push!Fits(sync.from)' => Push!Fits(sync.from)
        <4>1. \A k \in Push!Kinds : held'[sync.from][k] = held[sync.from][k]
          BY <1>1, <2>5
        <4>2. QED
          BY <1>1, <2>3, <2>5, <4>1 DEF Push!Fits, Push!There
      <3>4. Push!Fits(sync.from) /\ faults = 0 => sync.failed = {}
        BY <1>0 DEF Push!SyncInv, Push!ArrivesWhole
      <3>5. after[kind] = Push!Completed(after, kind, sync.items[kind]) /\ Push!Accepts(after, kind, after[kind].with)
        <4>1. "modules" \in Push!Kinds /\ held[sync.to]["modules"].with \subseteq {"P"}
          BY <1>1, PushKindsAre
        <4>2. record \in Push!Records /\ record.with \subseteq Push!May[kind] /\ Push!Makes(kind, record)
          BY <1>1 DEF record
        <4>3. Push!Accepts(held[sync.to], kind, after[kind].with)
          BY <1>1, <1>3, <2>4, <4>1, <4>2, PushCompletedIs
        <4>4. after[kind].with \in SUBSET Push!May[kind]
          BY <2>4
        <4>5. QED
          BY <2>4, <3>2, <4>3, <4>4 DEF record
      <3>6. \A k \in sync.done : Push!Accepts(after, k, after[k].with)
        BY <2>4, <3>1, <3>2
      <3>7. \A k \in sync.done : after[k] = Push!Completed(after, k, sync.items[k])
        <4> SUFFICES ASSUME NEW k \in sync.done PROVE after[k] = Push!Completed(after, k, sync.items[k])
          OBVIOUS
        <4>1. k \in Push!Kinds /\ {} \in SUBSET Push!May[k]
          BY <3>1
        <4>2. QED
          BY <3>1, <3>2, <4>1
      <3>8. QED
        BY <3>3, <3>4, <3>5, <3>6, <3>7
    <2>9. QED
      BY <2>3, <2>6, <2>7, <2>8 DEF Push!SyncInv
  <1>4. CASE ~Push!Accepts(held[sync.to], kind, record.with)
    <2>1. held' = held
      BY <1>4 DEF Push!Push
    <2>3. /\ sync'.at = "push" /\ sync'.from = sync.from /\ sync'.to = sync.to
          /\ sync'.items = sync.items /\ sync'.done = sync.done /\ sync'.failed = sync.failed \cup {kind}
          /\ (\E D \in SUBSET Push!Kinds : sync' \in Push!Sync(D)) /\ Push!InOrder'
    <3>1. sync' = [sync EXCEPT !.left = @ \ {kind}, !.failed = @ \cup {kind}]
      BY <1>4 DEF Push!Push
    <3>2. PICK D \in SUBSET Push!Kinds : sync \in Push!Sync(D)
      BY DEF Push!SyncInv, Push!TypeOK
    <3>3. kind \in Push!Kinds
      OBVIOUS
    <3>4. /\ sync'.at = sync.at /\ sync'.from = sync.from /\ sync'.to = sync.to
          /\ sync'.items = sync.items /\ sync'.left = sync.left \ {kind}
          /\ sync'.done = sync.done /\ sync'.failed = sync.failed \cup {kind}
          /\ sync' \in Push!Sync(D)
      BY <3>1, <3>2, <3>3 DEF Push!Sync
      <3>5. Push!InOrder'
        BY <1>0, <3>4, PushedOn
      <3>6. QED
        BY <1>0, <3>4, <3>5
    <2>4. (Push!TypeOK /\ Push!MakesSense /\ Push!ReadIsThere /\ Push!NamedGoesAlong)'
      BY <1>0, <1>2, <2>1, <2>3 DEF Push!SyncInv, Push!TypeOK, Push!MakesSense, Push!ReadIsThere, Push!NamedGoesAlong, Push!There, Push!ReadBy
    <2>5. ASSUME crossed = {}, Push!Fits(sync.from), faults = 0 PROVE FALSE
      <3>1. sync.failed = {} /\ record = held[sync.from][kind]
        BY <1>0, <2>5 DEF Push!SyncInv, Push!ArrivesWhole, Push!ReadIsThere
      <3>2. ASSUME NEW needed \in record.with \cap Push!Kinds, Push!There(sync.from, needed)
            PROVE  /\ held[sync.to][needed].by = held[sync.from][needed].by
                   /\ needed = "modules" => held[sync.to][needed] = held[sync.from][needed]
        <4>1. needed \in DOMAIN sync.items
          BY <1>0, <2>5, <3>2 DEF Push!SyncInv, Push!NamedGoesAlong, Push!ReadBy
        <4>2. Push!Place[needed] < Push!Place[kind]
          BY <1>1, <3>2, PushNamedBefore
        <4>3. needed \notin sync.left
          BY <1>0, <4>2, PushKindsAre
        <4>4. needed \in sync.done
          BY <1>0, <3>1, <4>1, <4>3
        <4>5. held[sync.to][needed] = Push!Completed(held[sync.to], needed, held[sync.from][needed])
          BY <1>0, <2>5, <4>1, <4>4 DEF Push!SyncInv, Push!ArrivesWhole, Push!ReadIsThere
        <4>6. held[sync.from][needed] \in Push!Records
          BY <1>1 DEF Push!SyncInv, Push!TypeOK
        <4>7. QED
          BY <4>5, <4>6 DEF Push!Completed, Push!Records
      <3>3. CASE ~Push!There(sync.from, kind)
        <4>1. record.with = {}
          BY <1>1, <3>1, <3>3 DEF Push!There, Push!Makes
        <4>2. QED
          BY <1>4, <4>1 DEF Push!Accepts
      <3>4. CASE Push!There(sync.from, kind)
        <4>1. Push!Accepts(held[sync.from], kind, record.with)
          BY <2>5, <3>1, <3>4 DEF Push!Fits
        <4>2. \A needed \in record.with \cap Push!Kinds :
                 /\ Push!There(sync.from, needed)
                 /\ held[sync.to][needed].by = held[sync.from][needed].by
                 /\ needed = "modules" => held[sync.to][needed] = held[sync.from][needed]
          BY <3>2, <4>1 DEF Push!Accepts, Push!There
        <4>3. \A needed \in record.with \cap Push!Kinds : held[sync.to][needed].by # Push!Nobody
          BY <4>2 DEF Push!There
        <4>4. kind \in {"templates", "tasks"} /\ "P" \in record.with
                 => "P" \in held[sync.to]["modules"].with
          BY <1>1, <4>1, <4>2, PushKindsAre DEF Push!Accepts, Push!Makes
        <4>5. QED
          BY <1>4, <4>3, <4>4 DEF Push!Accepts
      <3>5. QED
        BY <3>3, <3>4
    <2>6. Push!ArrivesWhole'
      <3>1. ASSUME crossed = {}
            PROVE  /\ \A k \in sync.done : held[sync.to][k] = Push!Completed(held[sync.to], k, sync.items[k])
                   /\ \A k \in sync.done : Push!Accepts(held[sync.to], k, held[sync.to][k].with)
        BY <1>0, <3>1 DEF Push!SyncInv, Push!ArrivesWhole
      <3>2. Push!Fits(sync.from)' => Push!Fits(sync.from)
        BY <2>1, <2>3 DEF Push!Fits, Push!There
      <3>3. QED
        BY <1>2, <2>1, <2>3, <2>5, <3>1, <3>2 DEF Push!ArrivesWhole
    <2>7. QED
      BY <2>3, <2>4, <2>6 DEF Push!SyncInv
  <1>5. QED
    BY <1>3, <1>4

LEMMA PushSyncPushFails ==
    ASSUME Push!SyncInv, NEW kind \in Push!Kinds, Push!PushFails(kind)
    PROVE  Push!SyncInv'
  <1> DEFINE held == s1  sync == s2  crossed == s3  faults == s4  trouble == s5
  <1>1. Push!Due(kind) /\ sync.at = "push"
    BY DEF Push!PushFails, Push!Due
  <1>3. held' = held /\ crossed' = crossed /\ faults' = faults + 1 /\ trouble' = trouble + 1
    BY DEF Push!PushFails, Push!Trouble
  <1>4. /\ sync'.at = "push" /\ sync'.from = sync.from /\ sync'.to = sync.to
        /\ sync'.items = sync.items /\ sync'.done = sync.done /\ sync'.failed = sync.failed \cup {kind}
        /\ (\E D \in SUBSET Push!Kinds : sync' \in Push!Sync(D)) /\ Push!InOrder'
  <2>1. sync' = [sync EXCEPT !.left = @ \ {kind}, !.failed = @ \cup {kind}]
    BY DEF Push!PushFails
  <2>2. PICK D \in SUBSET Push!Kinds : sync \in Push!Sync(D)
    BY DEF Push!SyncInv, Push!TypeOK
  <2>3. kind \in Push!Kinds
    OBVIOUS
  <2>4. /\ sync'.at = sync.at /\ sync'.from = sync.from /\ sync'.to = sync.to
        /\ sync'.items = sync.items /\ sync'.left = sync.left \ {kind}
        /\ sync'.done = sync.done /\ sync'.failed = sync.failed \cup {kind}
        /\ sync' \in Push!Sync(D)
    BY <2>1, <2>2, <2>3 DEF Push!Sync
    <2>5. Push!InOrder'
      BY <1>1, <2>4, PushedOn
    <2>6. QED
      BY <1>1, <2>4, <2>5
  <1>5. (Push!TypeOK /\ Push!MakesSense /\ Push!ReadIsThere /\ Push!NamedGoesAlong)'
    BY <1>1, <1>3, <1>4 DEF Push!SyncInv, Push!TypeOK, Push!MakesSense, Push!ReadIsThere, Push!NamedGoesAlong, Push!There, Push!ReadBy
  <1>6. faults' # 0
    BY <1>3 DEF Push!SyncInv, Push!TypeOK
  <1>7. Push!ArrivesWhole'
    BY <1>1, <1>3, <1>4, <1>6 DEF Push!SyncInv, Push!ArrivesWhole
  <1>8. QED
    BY <1>4, <1>5, <1>7 DEF Push!SyncInv

LEMMA PushSyncBegins ==
    ASSUME Push!SyncInv, NEW a \in Pair, NEW b \in Pair, NEW asked \in SUBSET Push!Kinds, Push!Begin(a, b, asked)
    PROVE  Push!SyncInv'
  <1> DEFINE held == s1  sync == s2  faults == s4  trouble == s5
  <1>1. /\ sync'.at = "stacks" /\ sync'.from = a /\ sync'.to = b /\ a # b /\ DOMAIN sync'.items = {}
        /\ sync'.left = {} /\ sync'.done = {} /\ sync'.failed = {} /\ sync' \in Push!Sync({})
    <2>1. [k \in {} |-> Push!Absent] \in [{} -> Push!Records]
      OBVIOUS
    <2>2. QED
      BY <2>1 DEF Push!Begin, Push!NoSync, Push!Sync
  <1>2. held' = held /\ faults' = faults /\ trouble' = trouble
    BY DEF Push!Begin
  <1>3. Push!TypeOK'
    BY <1>1, <1>2 DEF Push!SyncInv, Push!TypeOK
  <1>4. QED
    BY <1>1, <1>2, <1>3 DEF Push!SyncInv, Push!MakesSense, Push!ReadIsThere, Push!NamedGoesAlong, Push!InOrder, Push!ArrivesWhole

LEMMA PushSyncEnds == ASSUME Push!SyncInv, Push!Ends PROVE Push!SyncInv'
  <1> DEFINE held == s1  sync == s2  crossed == s3  faults == s4  trouble == s5
  <1>1. PICK D \in SUBSET Push!Kinds : sync \in Push!Sync(D)
    BY DEF Push!SyncInv, Push!TypeOK
  <1>2. sync.at = "push" /\ sync' = [sync EXCEPT !.at = "over"]
    BY DEF Push!Ends
  <1>3. /\ sync'.at = "over" /\ sync'.from = sync.from /\ sync'.to = sync.to
        /\ sync'.items = sync.items /\ sync'.left = sync.left /\ sync'.done = sync.done
        /\ sync'.failed = sync.failed /\ sync' \in Push!Sync(D)
    BY <1>1, <1>2 DEF Push!Sync
  <1>4. held' = held /\ crossed' = crossed /\ faults' = faults /\ trouble' = trouble
    BY DEF Push!Ends
  <1>5. Push!TypeOK'
    BY <1>2, <1>3, <1>4 DEF Push!SyncInv, Push!TypeOK
  <1>6. (Push!MakesSense /\ Push!ReadIsThere /\ Push!NamedGoesAlong /\ Push!InOrder)'
    BY <1>2, <1>3, <1>4 DEF Push!SyncInv, Push!MakesSense, Push!ReadIsThere, Push!NamedGoesAlong, Push!InOrder, Push!There, Push!ReadBy
  <1>7. Push!ArrivesWhole'
    BY <1>2, <1>3, <1>4 DEF Push!SyncInv, Push!ArrivesWhole, Push!Fits, Push!There
  <1>8. QED
    BY <1>5, <1>6, <1>7 DEF Push!SyncInv

LEMMA PushSyncStep == Push!NodesAssumption /\ Push!SyncInv /\ [Push!Next]_(Push!syncVars) => Push!SyncInv'
  <1> DEFINE held == s1  sync == s2  crossed == s3  faults == s4  trouble == s5
  <1> SUFFICES ASSUME Push!NodesAssumption, Push!SyncInv, [Push!Next]_(Push!syncVars) PROVE Push!SyncInv'
    OBVIOUS
  <1>1. ASSUME NEW a \in Pair, NEW b \in Pair, NEW asked \in {{k} : k \in Push!Kinds} \cup {Push!Kinds},
               Push!Begin(a, b, asked)
        PROVE  Push!SyncInv'
    BY <1>1, PushSyncBegins
  <1>2. CASE UNCHANGED Push!syncVars
    <2>1. held' = held /\ sync' = sync /\ crossed' = crossed /\ faults' = faults /\ trouble' = trouble
      BY <1>2 DEF Push!syncVars
    <2>2. (Push!TypeOK /\ Push!MakesSense /\ Push!ReadIsThere /\ Push!NamedGoesAlong)'
      BY <2>1 DEF Push!SyncInv, Push!TypeOK, Push!MakesSense, Push!ReadIsThere, Push!NamedGoesAlong, Push!There
    <2>3. (Push!InOrder /\ Push!ArrivesWhole)'
      BY <2>1 DEF Push!SyncInv, Push!InOrder, Push!ArrivesWhole, Push!Fits, Push!There
    <2>4. QED
      BY <2>2, <2>3 DEF Push!SyncInv
  <1>3. QED
    BY <1>1, <1>2, PushSyncReadStacks, PushSyncReadTemplates, PushSyncReadRest, PushSyncEnds, PushSyncPush,
       PushSyncPushFails, PushSyncPeople DEF Push!Next

-----------------------------------------------------------------------------
(* The event log.                                                            *)
\* A set of numbers has a least one.
LEMMA EventsLeastNumber ==
    ASSUME NEW S \in SUBSET Nat, S # {}
    PROVE  \E m \in S : \A k \in S : m <= k
  <1> DEFINE R == OpToRel(<, Nat)
  <1>1. IsWellFoundedOn(R, Nat)
    BY NatLessThanWellFounded
  <1>2. PICK m \in S : \A k \in S : ~ (<<k, m>> \in R)
    <2> HIDE DEF R
    <2> QED
      BY <1>1, WFMin
  <1>3. \A k \in S : ~ (k < m)
    BY <1>2 DEF OpToRel
  <1>4. QED
    BY <1>3

\* Min() is it.
LEMMA EventsMinIsLeast ==
    ASSUME NEW S \in SUBSET Nat, S # {}
    PROVE  Events!Min(S) \in S /\ \A k \in S : Events!Min(S) <= k
  BY EventsLeastNumber DEF Events!Min

\* Max() of a set that is bounded.
LEMMA EventsMaxIsGreatest ==
    ASSUME NEW S \in SUBSET Nat, S # {}, NEW b \in Nat, \A k \in S : k <= b
    PROVE  Events!Max(S) \in S /\ \A k \in S : k <= Events!Max(S)
  <1> DEFINE U == {u \in Nat : \A k \in S : k <= u}
  <1>1. PICK m \in U : \A u \in U : m <= u
    <2>1. b \in U
      OBVIOUS
    <2>2. U \in SUBSET Nat /\ U # {}
      BY <2>1
    <2> HIDE DEF U
    <2>3. QED
      BY <2>2, EventsLeastNumber
  <1>2. m \in S
    <2> SUFFICES ASSUME m \notin S PROVE FALSE
      OBVIOUS
    <2>1. \A k \in S : k < m
      OBVIOUS
    <2>2. m \in Nat /\ m - 1 \in Nat
      <3>1. PICK k \in S : TRUE
        OBVIOUS
      <3>2. k \in Nat /\ m \in Nat /\ k < m
        BY <2>1, <3>1
      <3>3. QED
        BY <3>2
    <2>3. m - 1 \in U
      BY <2>1, <2>2
    <2>4. QED
      BY <1>1, <2>3
  <1>3. QED
    BY <1>2 DEF Events!Max

LEMMA EventsBoundedIsFinite ==
    ASSUME NEW S, Events!Bounded(S)
    PROVE  IsFiniteSet(S) /\ Cardinality(S) \in Nat
  <1>1. PICK b \in Nat : \A k \in S : k <= b
    BY DEF Events!Bounded
  <1>2. IsFiniteSet(S)
    BY <1>1, FS_BoundedSetOfNaturals DEF Events!Bounded
  <1>3. QED
    BY <1>2, FS_CardinalityType

LEMMA EventsBoundedPart ==
    ASSUME NEW S, Events!Bounded(S), NEW T \in SUBSET S
    PROVE  Events!Bounded(T)
  BY DEF Events!Bounded

\* The sizes of sets are the ones that are known of.
LEMMA EventsSameSize == ASSUME NEW S PROVE Events!Cardinality(S) = Cardinality(S)
  BY DEF Events!Cardinality, Cardinality

\* A page that is not full is all there is.
LEMMA EventsShortPageIsAll ==
    ASSUME Events!RingAssumption, NEW S, Events!Bounded(S), Cardinality(Events!Firsts(S)) < Page
    PROVE  Events!Firsts(S) = S
  <1> DEFINE Rest == {k \in S : k \notin Events!Firsts(S)}
  <1>1. Events!Firsts(S) \in SUBSET S
    BY DEF Events!Firsts
  <1> SUFFICES ASSUME Rest # {} PROVE FALSE
    BY <1>1
  <1>2. PICK k \in Rest : \A l \in Rest : k <= l
    <2>1. Rest \in SUBSET Nat
      BY DEF Events!Bounded
    <2> HIDE DEF Rest
    <2>2. QED
      BY <2>1, EventsLeastNumber
  <1>3. k \in S /\ k \in Nat
    BY <1>2 DEF Events!Bounded
  <1> DEFINE Below == {l \in S : l <= k}
  <1>4. Below \in SUBSET (Events!Firsts(S) \cup {k})
    <2> SUFFICES ASSUME NEW l \in S, l <= k, l # k PROVE l \in Events!Firsts(S)
      OBVIOUS
    <2>1. l \in Nat
      BY DEF Events!Bounded
    <2>2. QED
      BY <1>2, <1>3, <2>1
  <1>5. IsFiniteSet(Events!Firsts(S)) /\ Cardinality(Events!Firsts(S)) \in Nat
    BY <1>1, EventsBoundedPart, EventsBoundedIsFinite
  <1>6. IsFiniteSet(Events!Firsts(S) \cup {k}) /\ Cardinality(Events!Firsts(S) \cup {k}) <= Cardinality(Events!Firsts(S)) + 1
    <2> DEFINE F == Events!Firsts(S)
    <2>1. IsFiniteSet(F) /\ Cardinality(F) \in Nat
      BY <1>5
    <2> HIDE DEF F
    <2>2. /\ IsFiniteSet(F \cup {k})
          /\ Cardinality(F \cup {k}) = IF k \in F THEN Cardinality(F) ELSE Cardinality(F) + 1
      BY <2>1, FS_AddElement
    <2>3. Cardinality(F \cup {k}) <= Cardinality(F) + 1
      BY <2>1, <2>2
    <2>4. QED
      BY <2>2, <2>3 DEF F
  <1>7. Cardinality(Below) <= Cardinality(Events!Firsts(S)) + 1
    <2>1. Cardinality(Below) <= Cardinality(Events!Firsts(S) \cup {k})
      BY <1>4, <1>6, FS_Subset
    <2>2. Cardinality(Below) \in Nat /\ Cardinality(Events!Firsts(S) \cup {k}) \in Nat
      BY <1>4, <1>6, FS_Subset, FS_CardinalityType
    <2>3. QED
      BY <1>5, <1>6, <2>1, <2>2
  <1>8. Cardinality(Below) \in Nat
    BY <1>4, <1>6, FS_Subset, FS_CardinalityType
  <1>9. Cardinality(Below) <= Page
    BY <1>5, <1>7, <1>8 DEF Events!RingAssumption
  <1>10. QED
    BY <1>2, <1>3, <1>9, EventsSameSize DEF Events!Firsts

\* What is before an event of the page is on it.
LEMMA EventsPageIsFirst ==
    ASSUME Events!RingAssumption, NEW S, Events!Bounded(S), NEW k \in S, NEW m \in Events!Firsts(S), k <= m
    PROVE  k \in Events!Firsts(S)
  <1>1. S \in SUBSET Nat /\ m \in S /\ Cardinality({l \in S : l <= m}) <= Page
    BY EventsSameSize DEF Events!Firsts, Events!Bounded
  <1>2. {l \in S : l <= k} \in SUBSET {l \in S : l <= m}
    <2>1. k \in Nat /\ m \in Nat /\ k <= m
      BY <1>1
    <2>2. \A l \in S : l \in Nat /\ (l <= k => l <= m)
      BY <1>1, <2>1
    <2>3. QED
      BY <2>2
  <1>3. /\ IsFiniteSet({l \in S : l <= m}) /\ Cardinality({l \in S : l <= m}) \in Nat
        /\ Cardinality({l \in S : l <= k}) \in Nat
    BY EventsBoundedPart, EventsBoundedIsFinite
  <1>4. Cardinality({l \in S : l <= k}) <= Cardinality({l \in S : l <= m})
    BY <1>2, <1>3, FS_Subset
  <1>5. QED
    BY <1>1, <1>3, <1>4, EventsSameSize DEF Events!Firsts, Events!RingAssumption

(* How far an answer gets: every event that it could have had is on it or after *)
(* what it says it got through.                                                 *)
LEMMA EventsPageGetsThrough ==
    ASSUME Events!RingAssumption, NEW n \in Reporters, s2[n] \in Nat,
           NEW S \in SUBSET (1 .. s2[n]), S # {}
    PROVE  /\ Events!Firsts(S) # {} /\ Events!Firsts(S) \in SUBSET S
           /\ Events!Through(n, Events!Firsts(S)) \in Nat /\ Events!Through(n, Events!Firsts(S)) <= s2[n]
           /\ \A k \in Events!Firsts(S) : k <= Events!Through(n, Events!Firsts(S))
           /\ \A k \in S : k \in Events!Firsts(S) <=> k <= Events!Through(n, Events!Firsts(S))
  <1> DEFINE count == s2
  <1>a. S \in SUBSET Nat /\ \A k \in S : k <= count[n]
    OBVIOUS
  <1>1. Events!Bounded(S)
    BY <1>a DEF Events!Bounded
  <1>2. Events!Firsts(S) \in SUBSET S /\ Events!Bounded(Events!Firsts(S))
    BY <1>1, EventsBoundedPart DEF Events!Firsts
  <1>3. Cardinality(Events!Firsts(S)) \in Nat
    BY <1>2, EventsBoundedIsFinite
  <1>4. Events!Firsts(S) # {}
    <2> SUFFICES ASSUME Events!Firsts(S) = {} PROVE FALSE
      OBVIOUS
    <2>1. Cardinality(Events!Firsts(S)) < Page
      BY FS_EmptySet DEF Events!RingAssumption
    <2>2. QED
      BY <1>1, <2>1, EventsShortPageIsAll
  <1>5. CASE Cardinality(Events!Firsts(S)) >= Page
    <2> DEFINE m == Events!Max(Events!Firsts(S))
    <2>1. Events!Through(n, Events!Firsts(S)) = m
      BY <1>5, EventsSameSize DEF Events!Through
    <2>2. m \in Events!Firsts(S) /\ \A k \in Events!Firsts(S) : k <= m
      <3>1. Events!Firsts(S) \in SUBSET Nat /\ \A k \in Events!Firsts(S) : k <= count[n]
        BY <1>a, <1>2
      <3>2. QED
        BY <1>4, <3>1, EventsMaxIsGreatest
    <2> HIDE DEF m
    <2>3. m \in Nat /\ m <= count[n]
      BY <1>a, <1>2, <2>2
    <2>4. \A k \in S : k <= m => k \in Events!Firsts(S)
      BY <1>1, <2>2, EventsPageIsFirst
    <2>5. QED
      BY <1>2, <1>4, <2>1, <2>2, <2>3, <2>4
  <1>6. CASE Cardinality(Events!Firsts(S)) < Page
    <2>1. Events!Through(n, Events!Firsts(S)) = count[n]
      BY <1>3, <1>6, EventsSameSize DEF Events!Through, Events!RingAssumption
    <2>2. Events!Firsts(S) = S
      BY <1>1, <1>6, EventsShortPageIsAll
    <2>3. \A k \in S : k \in Events!Firsts(S) /\ k <= Events!Through(n, Events!Firsts(S))
      BY <1>a, <2>1, <2>2
    <2>4. Events!Through(n, Events!Firsts(S)) \in Nat /\ Events!Through(n, Events!Firsts(S)) <= count[n]
      BY <2>1
    <2>5. QED
      BY <1>2, <1>4, <2>2, <2>3, <2>4
  <1>7. QED
    BY <1>3, <1>5, <1>6 DEF Events!RingAssumption

LEMMA EventsRingInit == ASSUME Events!RingAssumption, Events!Init PROVE Events!RingInv
  <1>1. Events!TypeOK
    BY DEF Events!Init, Events!TypeOK, Events!Cursors, Events!NoCursor, Events!Idle
  <1>2. ASSUME NEW n \in Reporters PROVE Events!Follows(n)
    BY DEF Events!Init, Events!NoCursor, Events!Idle, Events!Follows, Events!NothingEarly, Events!WaitsForMore, Events!AnswersInFull, Events!HasAll, Events!From
  <1>3. QED
    BY <1>1, <1>2 DEF Events!RingInv

LEMMA EventsStillFollows ==
    ASSUME NEW n \in Reporters, Events!Follows(n), Events!Still(n)
    PROVE  Events!Follows(n)'
  BY DEF Events!Follows, Events!Still, Events!NothingEarly, Events!WaitsForMore, Events!AnswersInFull, Events!HasAll, Events!From

\* A step at n is a step of n's part only.
LEMMA EventsOneNode ==
    ASSUME Events!RingInv, Events!TypeOK', NEW n \in Reporters, Events!Follows(n)', \A m \in Reporters \ {n} : Events!Still(m)
    PROVE  Events!RingInv'
  BY EventsStillFollows DEF Events!RingInv

LEMMA EventsAddStep ==
    ASSUME Events!RingAssumption, Events!RingInv, NEW n \in Reporters, NEW hit \in BOOLEAN, Events!Add(n, hit)
    PROVE  Events!RingInv'
  <1> DEFINE boot == s1  count == s2  hits == s3  cursor == s4  read == s5  got == s6
             since == s7
  <1>1. Events!TypeOK'
    BY DEF Events!RingInv, Events!TypeOK, Events!Add
  <1>2. \A m \in Reporters \ {n} : Events!Still(m)
    BY DEF Events!RingInv, Events!TypeOK, Events!Add, Events!Still
  <1>3. /\ count'[n] = count[n] + 1 /\ hits'[n] \in {hits[n], hits[n] \cup {count[n] + 1}}
        /\ boot'[n] = boot[n] /\ cursor'[n] = cursor[n] /\ read'[n] = read[n] /\ got'[n] = got[n]
        /\ since'[n] = since[n] /\ Events!From(n)' = Events!From(n)
        /\ read[n].at = "waiting" => count[n] - read[n].seq < Ring
    BY DEF Events!RingInv, Events!TypeOK, Events!Add, Events!From
  <1>4. Events!Follows(n)
    BY DEF Events!RingInv
  <1>5. /\ count[n] \in Nat /\ boot[n] \in Nat /\ since[n] \in Nat /\ Events!From(n) \in Nat
        /\ cursor[n] \in Events!Cursors /\ hits[n] \in SUBSET Nat /\ got[n] \in SUBSET Nat
        /\ read[n].seq \in Nat /\ read[n].told \in Nat /\ read[n].cursor \in Events!Cursors
        /\ read[n].events \in SUBSET Nat
    BY DEF Events!RingInv, Events!TypeOK, Events!From, Events!Cursors
  <1>6. Events!NothingEarly(n)'
    BY <1>3, <1>4, <1>5 DEF Events!Follows, Events!NothingEarly, Events!Cursors
  <1>7. Events!WaitsForMore(n)'
    BY <1>3, <1>4, <1>5 DEF Events!Follows, Events!WaitsForMore, Events!RingAssumption
  <1>8. Events!AnswersInFull(n)'
    BY <1>3, <1>4, <1>5 DEF Events!Follows, Events!AnswersInFull, Events!Cursors
  <1>9. Events!HasAll(n)'
    BY <1>3, <1>4, <1>5 DEF Events!Follows, Events!HasAll, Events!NothingEarly, Events!From, Events!Cursors
  <1>10. QED
    BY <1>1, <1>2, <1>6, <1>7, <1>8, <1>9, EventsOneNode DEF Events!Follows

LEMMA EventsRestartStep ==
    ASSUME Events!RingAssumption, Events!RingInv, NEW n \in Reporters, Events!Restart(n)
    PROVE  Events!RingInv'
  <1> DEFINE boot == s1  count == s2  hits == s3  cursor == s4  read == s5  got == s6
             since == s7
  <1>1. Events!TypeOK'
    <2>1. [Events!Idle EXCEPT !.at = "failed"] \in Events!Requests
      BY DEF Events!Idle, Events!NoCursor, Events!Cursors, Events!Requests
    <2>2. read' \in [Reporters -> Events!Requests]
      <3>1. read \in [Reporters -> Events!Requests]
        BY DEF Events!RingInv, Events!TypeOK, Events!Requests
      <3>2. QED
        BY <2>1, <3>1 DEF Events!Restart
    <2>3. QED
      BY <2>2 DEF Events!RingInv, Events!TypeOK, Events!Restart, Events!Requests
  <1>2. \A m \in Reporters \ {n} : Events!Still(m)
    BY DEF Events!RingInv, Events!TypeOK, Events!Restart, Events!Still
  <1>3. /\ boot'[n] = boot[n] + 1 /\ count'[n] = 0 /\ hits'[n] = {} /\ got'[n] = {} /\ since'[n] = 0
        /\ cursor'[n] = cursor[n]
        /\ read'[n] = read[n] \/ read'[n].at = "failed"
        /\ read[n].at = "waiting" => read'[n].at = "failed"
    BY DEF Events!RingInv, Events!TypeOK, Events!Restart, Events!Idle, Events!NoCursor
  <1>4. /\ boot[n] \in Nat /\ cursor[n].boot \in Nat /\ cursor[n].boot <= boot[n]
        /\ read[n].cursor.boot \in Nat
        /\ read[n].at = "answered" => read[n].cursor.boot <= boot[n]
    BY DEF Events!RingInv, Events!TypeOK, Events!Cursors, Events!Follows, Events!NothingEarly, Events!AnswersInFull
  <1>5. Events!From(n)' = 0 /\ cursor[n].boot # boot'[n]
    BY <1>3, <1>4 DEF Events!From
  <1>6. Events!Follows(n)'
    BY <1>3, <1>4, <1>5 DEF Events!Follows, Events!NothingEarly, Events!WaitsForMore, Events!AnswersInFull, Events!HasAll, Events!Cursors
  <1>7. QED
    BY <1>1, <1>2, <1>6, EventsOneNode

\* The ring has lost only what is before all it still has.
LEMMA EventsLostIsBefore ==
    ASSUME Events!RingAssumption, NEW n \in Reporters, s2[n] \in Nat, NEW k \in 1 .. s2[n], k \notin Events!Kept(n)
    PROVE  Events!Kept(n) # {} /\ Events!Min(Events!Kept(n)) \in Nat /\ k < Events!Min(Events!Kept(n))
  <1> DEFINE count == s2
  <1>1. count[n] \in Events!Kept(n)
    BY DEF Events!Kept, Events!RingAssumption
  <1>2. Events!Kept(n) \in SUBSET Nat
    BY DEF Events!Kept
  <1>3. Events!Min(Events!Kept(n)) \in Events!Kept(n)
    BY <1>1, <1>2, EventsMinIsLeast
  <1>4. \A x \in Events!Kept(n) : k < x
    BY DEF Events!Kept, Events!RingAssumption
  <1>5. QED
    BY <1>1, <1>2, <1>3, <1>4

\* The types of what a request at n goes by.
LEMMA EventsTypesAt ==
    ASSUME Events!RingInv, NEW n \in Reporters
    PROVE  /\ s1[n] \in Nat \ {0} /\ s2[n] \in Nat /\ s7[n] \in Nat /\ Events!From(n) \in Nat
           /\ s4[n].boot \in Nat /\ s4[n].seq \in Nat /\ s4[n] \in Events!Cursors
           /\ s3[n] \in SUBSET Nat /\ s6[n] \in SUBSET Nat
           /\ s5[n].seq \in Nat /\ s5[n].told \in Nat /\ s5[n].events \in SUBSET Nat
           /\ s5[n].cursor.boot \in Nat /\ s5[n].cursor.seq \in Nat
  BY DEF Events!RingInv, Events!TypeOK, Events!From, Events!Cursors

LEMMA EventsReadMoves ==
    ASSUME Events!RingInv, NEW n \in Reporters, NEW r \in Events!Requests, Events!OnlyRead(n, r),
           Events!WaitsForMore(n)', Events!AnswersInFull(n)'
    PROVE  Events!RingInv'
  <1>1. Events!TypeOK'
    BY DEF Events!RingInv, Events!TypeOK, Events!OnlyRead, Events!Requests
  <1>2. \A m \in Reporters \ {n} : Events!Still(m)
    BY DEF Events!RingInv, Events!TypeOK, Events!OnlyRead, Events!Still
  <1>3. Events!NothingEarly(n)' /\ Events!HasAll(n)'
    BY DEF Events!RingInv, Events!Follows, Events!OnlyRead, Events!NothingEarly, Events!HasAll, Events!From
  <1>4. QED
    BY <1>1, <1>2, <1>3, EventsOneNode DEF Events!Follows

\* An answer is in full when it has what matched after `seq`, of all that was not told.
LEMMA EventsInFull ==
    ASSUME Events!RingAssumption, Events!RingInv, NEW n \in Reporters, NEW seq \in Nat, NEW told \in Nat,
           Events!From(n) <= seq, seq <= s2[n],
           \A k \in s3[n] : k <= Events!From(n) \/ k <= told \/ (seq < k /\ k \in Events!Kept(n)),
           NEW S, S = {k \in Events!Kept(n) \cap s3[n] : k > seq}, S # {},
           Events!OnlyRead(n, Events!Answer(n, Events!Firsts(S), Events!Through(n, Events!Firsts(S)), told))
    PROVE  Events!RingInv'
  <1> DEFINE boot == s1  count == s2  hits == s3  cursor == s4  read == s5
  <1> DEFINE events == Events!Firsts(S)
             to == Events!Through(n, Events!Firsts(S))
             r == Events!Answer(n, events, to, told)
  <1>1. S \in SUBSET (1 .. count[n])
    BY EventsTypesAt DEF Events!Kept
  <1>2. /\ events \in SUBSET S /\ to \in Nat /\ to <= count[n] /\ events # {}
        /\ \A k \in events : k <= to
        /\ \A k \in S : k \in events <=> k <= to
    <2>1. count[n] \in Nat
      BY EventsTypesAt
    <2>2. \A T \in SUBSET (1 .. count[n]) : T # {} =>
             /\ Events!Firsts(T) # {} /\ Events!Firsts(T) \in SUBSET T
             /\ Events!Through(n, Events!Firsts(T)) \in Nat /\ Events!Through(n, Events!Firsts(T)) <= count[n]
             /\ \A k \in Events!Firsts(T) : k <= Events!Through(n, Events!Firsts(T))
             /\ \A k \in T : k \in Events!Firsts(T) <=> k <= Events!Through(n, Events!Firsts(T))
      BY <2>1, EventsPageGetsThrough
    <2>3. QED
      BY <1>1, <2>2, Zenon
  <1> HIDE DEF events, to
  <1>3. r \in Events!Requests /\ read'[n] = r /\ r.at = "answered" /\ r.told = told /\ r.events = events
    <2>1. boot[n] \in Nat /\ events \in SUBSET Nat
      BY <1>1, <1>2, EventsTypesAt
    <2>2. r \in Events!Requests
      BY <1>2, <2>1 DEF Events!Answer, Events!Requests, Events!Cursors
    <2>3. QED
      BY <2>2 DEF Events!OnlyRead, Events!RingInv, Events!TypeOK, Events!Answer, events, to
  <1>4. r.cursor.boot = boot[n] /\ r.cursor.seq = to
    BY DEF Events!Answer
  <1>5. /\ boot'[n] = boot[n] /\ count'[n] = count[n] /\ hits'[n] = hits[n] /\ cursor'[n] = cursor[n]
        /\ Events!From(n)' = Events!From(n)
    BY DEF Events!OnlyRead, Events!From
  <1>6. Events!From(n) <= to
    <2>1. PICK k \in events : TRUE
      BY <1>2
    <2>2. k \in Nat /\ k > seq /\ k <= to
      BY <1>1, <1>2, <2>1
    <2>3. QED
      BY <1>2, <2>2, EventsTypesAt
  <1>7. \A k \in hits[n] : Events!From(n) < k /\ told < k => k \in S
    BY EventsTypesAt
  <1>8. events \in SUBSET (1 .. to)
    BY <1>1, <1>2
  <1>9. Events!AnswersInFull(n)'
    BY <1>2, <1>3, <1>4, <1>5, <1>6, <1>7, <1>8, EventsTypesAt DEF Events!AnswersInFull
  <1>10. Events!WaitsForMore(n)'
    BY <1>3 DEF Events!WaitsForMore
  <1>11. QED
    BY <1>3, <1>9, <1>10, EventsReadMoves DEF events, to

\* A request that begins: what the ring has lost is told, the rest is looked at.
LEMMA EventsReadBeginsStep ==
    ASSUME Events!RingAssumption, Events!RingInv, NEW n \in Reporters, Events!ReadBegins(n)
    PROVE  Events!RingInv'
  <1> DEFINE boot == s1  count == s2  hits == s3  cursor == s4  read == s5
  <1> DEFINE seq == IF cursor[n].boot = boot[n] THEN cursor[n].seq ELSE 0
             S == {k \in Events!Kept(n) \cap hits[n] : k > seq}
             told == IF Events!Kept(n) = {} THEN 0
                     ELSE IF seq + 1 < Events!Min(Events!Kept(n)) THEN Events!Min(Events!Kept(n)) - 1 ELSE 0
  <1>1. seq = Events!From(n) /\ seq \in Nat /\ seq <= count[n]
    BY EventsTypesAt DEF Events!From, Events!RingInv, Events!Follows, Events!NothingEarly
  <1>2. Events!Kept(n) \in SUBSET Nat
    BY DEF Events!Kept
  <1>3. told \in Nat
    <2>1. CASE Events!Kept(n) = {}
      BY <2>1
    <2>2. CASE Events!Kept(n) # {}
      <3>1. Events!Min(Events!Kept(n)) \in Nat
        BY <1>2, <2>2, EventsMinIsLeast
      <3>2. QED
        BY <1>1, <3>1
    <2>3. QED
      BY <2>1, <2>2
  <1>4. \A k \in hits[n] : k <= seq \/ k <= told \/ (seq < k /\ k \in Events!Kept(n))
    <2> SUFFICES ASSUME NEW k \in hits[n], seq < k, k \notin Events!Kept(n) PROVE k <= told
      BY <1>1, EventsTypesAt
    <2>1. k \in 1 .. count[n]
      BY DEF Events!RingInv, Events!Follows, Events!NothingEarly
    <2>2. Events!Kept(n) # {} /\ Events!Min(Events!Kept(n)) \in Nat /\ k < Events!Min(Events!Kept(n))
      BY <2>1, EventsTypesAt, EventsLostIsBefore
    <2>3. QED
      BY <1>1, <2>1, <2>2
  <1>5. CASE cursor[n] = Events!NoCursor
    <2> DEFINE all == Events!Kept(n) \cap hits[n]
               r == Events!Answer(n, Events!Lasts(all), count[n], count[n])
    <2>1. Events!From(n) = 0
      BY <1>5, EventsTypesAt DEF Events!From, Events!NoCursor
    <2>2. Events!Lasts(all) \in SUBSET (1 .. count[n])
      BY DEF Events!Lasts, Events!Kept
    <2>3. Events!OnlyRead(n, r)
      BY <1>5 DEF Events!ReadBegins, Events!OnlyRead
    <2> HIDE DEF all
    <2>4. r \in Events!Requests /\ r.at = "answered" /\ r.told = count[n] /\ r.events = Events!Lasts(all)
          /\ r.cursor.boot = boot[n] /\ r.cursor.seq = count[n]
      <3>1. count[n] \in Nat /\ boot[n] \in Nat /\ Events!Lasts(all) \in SUBSET Nat
        BY <2>2, EventsTypesAt
      <3>2. QED
        BY <3>1 DEF Events!Answer, Events!Requests, Events!Cursors
    <2> HIDE DEF r
    <2>5. /\ read'[n] = r /\ boot'[n] = boot[n] /\ count'[n] = count[n] /\ hits'[n] = hits[n]
          /\ cursor'[n] = cursor[n] /\ Events!From(n)' = Events!From(n)
      BY <2>3 DEF Events!OnlyRead, Events!RingInv, Events!TypeOK, Events!From
    <2>6. hits[n] \in SUBSET (1 .. count[n])
      BY DEF Events!RingInv, Events!Follows, Events!NothingEarly
    <2>7. Events!AnswersInFull(n)'
      BY <2>1, <2>2, <2>4, <2>5, <2>6, EventsTypesAt DEF Events!AnswersInFull
    <2>8. Events!WaitsForMore(n)'
      BY <2>4, <2>5 DEF Events!WaitsForMore
    <2>9. QED
      BY <2>3, <2>4, <2>7, <2>8, EventsReadMoves
  <1>6. CASE cursor[n] # Events!NoCursor /\ S # {}
    <2>1. S \in SUBSET (1 .. count[n]) /\ count[n] \in Nat
      BY EventsTypesAt DEF Events!Kept
    <2>2. Events!Firsts(S) # {}
      <3> HIDE DEF S
      <3>1. QED
        BY <1>6, <2>1, EventsPageGetsThrough
    <2>3. Events!OnlyRead(n, Events!Answer(n, Events!Firsts(S), Events!Through(n, Events!Firsts(S)), told))
      BY <1>6, <2>2 DEF Events!ReadBegins, Events!OnlyRead
    <2>4. S = {k \in Events!Kept(n) \cap hits[n] : k > seq}
      OBVIOUS
    <2> HIDE DEF S, seq, told
    <2>5. QED
      BY <1>1, <1>3, <1>4, <1>6, <2>3, <2>4, EventsInFull
  <1>7. CASE cursor[n] # Events!NoCursor /\ S = {}
    <2> DEFINE r == [Events!Idle EXCEPT !.at = "waiting", !.seq = count[n], !.told = told]
    <2>1. Events!Firsts(S) = {}
      BY <1>7 DEF Events!Firsts
    <2>2. Events!OnlyRead(n, r)
      BY <1>7, <2>1 DEF Events!ReadBegins, Events!OnlyRead
    <2>3. \A k \in hits[n] : k <= seq \/ k <= told
      BY <1>4, <1>7
    <2> HIDE DEF seq, told, S
    <2>4. r \in Events!Requests /\ r.at = "waiting" /\ r.seq = count[n] /\ r.told = told
      BY <1>3, EventsTypesAt DEF Events!Idle, Events!NoCursor, Events!Requests, Events!Cursors
    <2> HIDE DEF r
    <2>5. /\ read'[n] = r /\ boot'[n] = boot[n] /\ count'[n] = count[n] /\ hits'[n] = hits[n]
          /\ cursor'[n] = cursor[n] /\ Events!From(n)' = Events!From(n)
      BY <2>2 DEF Events!OnlyRead, Events!RingInv, Events!TypeOK, Events!From
    <2>6. Events!WaitsForMore(n)'
      BY <1>1, <2>3, <2>4, <2>5, EventsTypesAt DEF Events!WaitsForMore, Events!RingAssumption
    <2>7. Events!AnswersInFull(n)'
      BY <2>4, <2>5 DEF Events!AnswersInFull
    <2>8. QED
      BY <2>2, <2>4, <2>6, <2>7, EventsReadMoves
  <1>8. QED
    BY <1>5, <1>6, <1>7

\* What a request that waits has not looked at is still in the ring.
LEMMA EventsWaitingMisses ==
    ASSUME Events!RingAssumption, Events!RingInv, NEW n \in Reporters, s5[n].at = "waiting"
    PROVE  \A k \in s3[n] :
              k <= Events!From(n) \/ k <= s5[n].told \/ (s5[n].seq < k /\ k \in Events!Kept(n))
  <1> DEFINE count == s2  hits == s3  read == s5
  <1> SUFFICES ASSUME NEW k \in hits[n], Events!From(n) < k, read[n].told < k
               PROVE  read[n].seq < k /\ k \in Events!Kept(n)
    BY EventsTypesAt
  <1>1. read[n].seq < k /\ count[n] <= read[n].seq + Ring /\ k \in 1 .. count[n]
    BY EventsTypesAt DEF Events!RingInv, Events!Follows, Events!WaitsForMore, Events!NothingEarly
  <1>2. QED
    BY <1>1, EventsTypesAt DEF Events!Kept, Events!RingAssumption

LEMMA EventsReadEndsStep ==
    ASSUME Events!RingAssumption, Events!RingInv, NEW n \in Reporters, Events!ReadEnds(n)
    PROVE  Events!RingInv'
  <1> DEFINE boot == s1  count == s2  hits == s3  cursor == s4  read == s5
  <1> DEFINE seq == read[n].seq
             told == read[n].told
             S == {k \in Events!Kept(n) \cap hits[n] : k > seq}
  <1>1. read[n].at = "waiting"
    BY DEF Events!ReadEnds
  <1>2. seq \in Nat /\ told \in Nat /\ Events!From(n) <= seq /\ seq <= count[n]
    BY <1>1, EventsTypesAt DEF Events!RingInv, Events!Follows, Events!WaitsForMore
  <1>3. \A k \in hits[n] : k <= Events!From(n) \/ k <= told \/ (seq < k /\ k \in Events!Kept(n))
    BY <1>1, EventsWaitingMisses
  <1>4. CASE S # {}
    <2>1. S \in SUBSET (1 .. count[n]) /\ count[n] \in Nat
      BY EventsTypesAt DEF Events!Kept
    <2>2. Events!Firsts(S) # {}
      <3> HIDE DEF S
      <3>1. QED
        BY <1>4, <2>1, EventsPageGetsThrough
    <2>3. Events!OnlyRead(n, Events!Answer(n, Events!Firsts(S), Events!Through(n, Events!Firsts(S)), told))
      BY <2>2 DEF Events!ReadEnds, Events!OnlyRead, Events!RingInv, Events!TypeOK
    <2>4. S = {k \in Events!Kept(n) \cap hits[n] : k > seq}
      OBVIOUS
    <2> HIDE DEF S, seq, told
    <2>5. QED
      BY <1>2, <1>3, <1>4, <2>3, <2>4, EventsInFull
  <1>5. CASE S = {}
    <2> DEFINE r == Events!Answer(n, {}, count[n], told)
    <2>1. Events!Firsts(S) = {}
      BY <1>5 DEF Events!Firsts
    <2>2. Events!OnlyRead(n, r)
      BY <2>1 DEF Events!ReadEnds, Events!OnlyRead, Events!RingInv, Events!TypeOK
    <2>3. \A k \in hits[n] : k <= Events!From(n) \/ k <= told
      BY <1>3, <1>5
    <2> HIDE DEF seq, told, S
    <2>4. r \in Events!Requests /\ r.at = "answered" /\ r.told = told /\ r.events = {}
          /\ r.cursor.boot = boot[n] /\ r.cursor.seq = count[n]
      BY <1>2, EventsTypesAt DEF Events!Answer, Events!Requests, Events!Cursors
    <2> HIDE DEF r
    <2>5. /\ read'[n] = r /\ boot'[n] = boot[n] /\ count'[n] = count[n] /\ hits'[n] = hits[n]
          /\ cursor'[n] = cursor[n] /\ Events!From(n)' = Events!From(n)
      BY <2>2 DEF Events!OnlyRead, Events!RingInv, Events!TypeOK, Events!From
    <2>6. Events!AnswersInFull(n)'
      BY <1>2, <2>3, <2>4, <2>5, EventsTypesAt DEF Events!AnswersInFull
    <2>7. Events!WaitsForMore(n)'
      BY <2>4, <2>5 DEF Events!WaitsForMore
    <2>8. QED
      BY <2>2, <2>4, <2>6, <2>7, EventsReadMoves
  <1>6. QED
    BY <1>4, <1>5

LEMMA EventsReadGoesOnStep ==
    ASSUME Events!RingAssumption, Events!RingInv, NEW n \in Reporters, Events!ReadGoesOn(n)
    PROVE  Events!RingInv'
  <1> DEFINE boot == s1  count == s2  hits == s3  cursor == s4  read == s5
  <1> DEFINE r == [read[n] EXCEPT !.seq = count[n]]
  <1>1. Events!OnlyRead(n, r) /\ read[n].at = "waiting"
    BY DEF Events!ReadGoesOn, Events!OnlyRead
  <1>2. \A k \in hits[n] : k <= Events!From(n) \/ k <= read[n].told
    BY <1>1, EventsWaitingMisses, EventsTypesAt DEF Events!ReadGoesOn
  <1>3. r \in Events!Requests /\ r.at = "waiting" /\ r.seq = count[n] /\ r.told = read[n].told
    BY <1>1, EventsTypesAt DEF Events!RingInv, Events!TypeOK, Events!Requests
  <1> HIDE DEF r
  <1>4. /\ read'[n] = r /\ boot'[n] = boot[n] /\ count'[n] = count[n] /\ hits'[n] = hits[n]
        /\ cursor'[n] = cursor[n] /\ Events!From(n)' = Events!From(n) /\ Events!From(n) <= count[n]
    BY <1>1 DEF Events!OnlyRead, Events!RingInv, Events!TypeOK, Events!From, Events!Follows, Events!NothingEarly
  <1>5. Events!WaitsForMore(n)'
    BY <1>2, <1>3, <1>4, EventsTypesAt DEF Events!WaitsForMore, Events!RingAssumption
  <1>6. Events!AnswersInFull(n)'
    BY <1>3, <1>4 DEF Events!AnswersInFull
  <1>7. QED
    BY <1>1, <1>3, <1>5, <1>6, EventsReadMoves

LEMMA EventsReadFailsStep ==
    ASSUME Events!RingInv, NEW n \in Reporters, Events!ReadFails(n)
    PROVE  Events!RingInv'
  <1> DEFINE read == s5
  <1> DEFINE r == [Events!Idle EXCEPT !.at = "failed"]
  <1>1. Events!OnlyRead(n, r)
    BY DEF Events!ReadFails, Events!OnlyRead
  <1>2. r \in Events!Requests /\ r.at = "failed"
    BY DEF Events!Idle, Events!NoCursor, Events!Requests, Events!Cursors
  <1> HIDE DEF r
  <1>3. read'[n] = r
    BY <1>1 DEF Events!OnlyRead, Events!RingInv, Events!TypeOK
  <1>4. Events!WaitsForMore(n)' /\ Events!AnswersInFull(n)'
    BY <1>2, <1>3 DEF Events!WaitsForMore, Events!AnswersInFull
  <1>5. QED
    BY <1>1, <1>2, <1>4, EventsReadMoves

(* Steps of the poll, at every node at once. *)

\* Nothing is asked any more, or nothing yet.
LEMMA EventsAllReadsMove ==
    ASSUME Events!RingInv, NEW r \in Events!Requests, r.at \notin {"waiting", "answered"},
           s5' = [n \in Reporters |-> r], UNCHANGED <<s1, s2, s3, s4, s6, s7>>
    PROVE  Events!RingInv'
  <1>1. Events!TypeOK'
    BY DEF Events!RingInv, Events!TypeOK, Events!Requests
  <1>2. ASSUME NEW n \in Reporters PROVE Events!Follows(n)'
    BY DEF Events!RingInv, Events!Follows, Events!NothingEarly, Events!HasAll, Events!WaitsForMore, Events!AnswersInFull, Events!From
  <1>3. QED
    BY <1>1, <1>2 DEF Events!RingInv

\* The reader goes to where the answers got, and has what they had.
LEMMA EventsReturnsStep ==
    ASSUME Events!RingInv, Events!Returns
    PROVE  Events!RingInv'
  <1> DEFINE boot == s1  count == s2  hits == s3  cursor == s4  read == s5  got == s6
             since == s7
  <1> DEFINE current(n) == read[n].at = "answered" /\ read[n].cursor.boot = boot[n]
  <1>1. ASSUME NEW n \in Reporters
        PROVE  /\ cursor'[n] = Events!NextCursor(n) /\ read'[n] = Events!Idle
               /\ got'[n] = IF current(n) THEN got[n] \cup read[n].events ELSE got[n]
               /\ since'[n] = IF current(n) /\ read[n].told > since[n] THEN read[n].told ELSE since[n]
               /\ boot'[n] = boot[n] /\ count'[n] = count[n] /\ hits'[n] = hits[n]
    BY DEF Events!Returns
  <1>2. Events!TypeOK'
    <2>1. Events!Idle \in Events!Requests
      BY DEF Events!Idle, Events!NoCursor, Events!Requests, Events!Cursors
    <2>2. cursor' \in [Reporters -> Events!Cursors]
      BY DEF Events!Returns, Events!NextCursor, Events!RingInv, Events!TypeOK
    <2>3. got' \in [Reporters -> SUBSET Nat] /\ since' \in [Reporters -> Nat]
      <3>1. got' = [n \in Reporters |-> got'[n]] /\ since' = [n \in Reporters |-> since'[n]]
        BY DEF Events!Returns
      <3>2. \A n \in Reporters : got'[n] \in SUBSET Nat /\ since'[n] \in Nat
        BY <1>1, EventsTypesAt
      <3>3. QED
        BY <3>1, <3>2
    <2>4. QED
      BY <2>1, <2>2, <2>3 DEF Events!Returns, Events!RingInv, Events!TypeOK, Events!Requests
  <1>3. ASSUME NEW n \in Reporters PROVE Events!Follows(n)'
    <2>1. read'[n].at = "idle"
      <3>1. read'[n] = Events!Idle
        BY <1>1
      <3>2. QED
        BY <3>1 DEF Events!Idle, Events!NoCursor
    <2>2. Events!WaitsForMore(n)' /\ Events!AnswersInFull(n)'
      BY <2>1 DEF Events!WaitsForMore, Events!AnswersInFull
    <2>3. Events!Follows(n)
      BY DEF Events!RingInv
    <2>4. CASE current(n)
      <3>1. /\ cursor'[n] = read[n].cursor /\ got'[n] = got[n] \cup read[n].events
            /\ since'[n] >= since[n] /\ since'[n] >= read[n].told
            /\ since'[n] \in Nat /\ Events!From(n)' = read[n].cursor.seq
        <4>1. /\ cursor'[n] = read[n].cursor /\ got'[n] = got[n] \cup read[n].events
              /\ boot'[n] = boot[n]
              /\ since'[n] = IF read[n].told > since[n] THEN read[n].told ELSE since[n]
          BY <1>1, <2>4 DEF Events!NextCursor
        <4>2. since'[n] >= since[n] /\ since'[n] >= read[n].told /\ since'[n] \in Nat
          BY <4>1, EventsTypesAt
        <4>3. Events!From(n)' = read[n].cursor.seq
          BY <2>4, <4>1 DEF Events!From
        <4>4. QED
          BY <4>1, <4>2, <4>3
      <3>2. /\ Events!From(n) <= read[n].cursor.seq /\ read[n].cursor.seq <= count[n]
            /\ read[n].events \in SUBSET (1 .. read[n].cursor.seq)
            /\ \A k \in hits[n] : Events!From(n) < k /\ read[n].told < k =>
                  (k \in read[n].events <=> k <= read[n].cursor.seq)
        BY <2>3, <2>4 DEF Events!Follows, Events!AnswersInFull
      <3>3. /\ hits[n] \in SUBSET (1 .. count[n]) /\ got[n] \in SUBSET (1 .. count[n])
            /\ cursor[n].boot # boot[n] => got[n] = {}
        BY <2>3 DEF Events!Follows, Events!NothingEarly
      <3>4. Events!NothingEarly(n)'
        <4>1. read[n].events \in SUBSET (1 .. count[n])
          BY <3>2, EventsTypesAt
        <4>2. boot'[n] = boot[n] /\ count'[n] = count[n] /\ hits'[n] = hits[n] /\ cursor'[n].boot = boot[n]
          BY <1>1, <2>4, <3>1
        <4>3. hits'[n] \in SUBSET (1 .. count'[n]) /\ got'[n] \in SUBSET (1 .. count'[n])
          BY <3>1, <3>3, <4>1, <4>2
        <4>4. Events!From(n)' <= count'[n]
          BY <2>4, <3>1, <3>2, <4>2, EventsTypesAt
        <4>5. cursor'[n].boot # boot'[n] => got'[n] = {}
          BY <2>4, <3>1, <3>2, <3>3, <4>2
        <4>6. QED
          BY <4>2, <4>3, <4>4, <4>5, EventsTypesAt DEF Events!NothingEarly
      <3>5. ASSUME NEW k \in hits[n], since'[n] < k
            PROVE  k \in got'[n] <=> k <= read[n].cursor.seq
        <4>1. k \in Nat /\ 0 < k /\ since[n] < k /\ read[n].told < k
          BY <3>1, <3>3, <3>5, EventsTypesAt
        <4>2. CASE k <= Events!From(n)
          <5>1. cursor[n].boot = boot[n] /\ Events!From(n) = cursor[n].seq
            BY <4>1, <4>2 DEF Events!From
          <5>2. k \in got[n]
            BY <2>3, <4>1, <4>2, <5>1 DEF Events!Follows, Events!HasAll
          <5>3. k <= read[n].cursor.seq
            BY <3>2, <4>1, <4>2, EventsTypesAt
          <5>4. QED
            BY <3>1, <5>2, <5>3
        <4>3. CASE Events!From(n) < k
          <5>1. k \notin got[n]
            <6>1. CASE cursor[n].boot = boot[n]
              <7>1. Events!From(n) = cursor[n].seq
                BY <6>1 DEF Events!From
              <7>2. ~ (k <= cursor[n].seq)
                BY <4>1, <4>3, <7>1, EventsTypesAt
              <7>3. QED
                BY <2>3, <4>1, <6>1, <7>2 DEF Events!Follows, Events!HasAll
            <6>2. CASE cursor[n].boot # boot[n]
              BY <3>3, <6>2
            <6>3. QED
              BY <6>1, <6>2
          <5>2. k \in read[n].events <=> k <= read[n].cursor.seq
            BY <3>2, <4>1, <4>3
          <5>3. QED
            BY <3>1, <5>1, <5>2
        <4>4. QED
          BY <4>1, <4>2, <4>3, EventsTypesAt
      <3>6. Events!HasAll(n)'
        BY <1>1, <3>1, <3>5 DEF Events!HasAll
      <3>7. QED
        BY <2>2, <3>4, <3>6 DEF Events!Follows
    <2>5. CASE read[n].at = "answered" /\ read[n].cursor.boot # boot[n]
      <3>1. /\ cursor'[n] = read[n].cursor /\ got'[n] = got[n] /\ read[n].cursor.boot <= boot[n]
            /\ Events!From(n)' = 0 /\ cursor[n].boot # boot[n]
        BY <1>1, <2>3, <2>5 DEF Events!NextCursor, Events!From, Events!Follows, Events!AnswersInFull
      <3>2. Events!NothingEarly(n)'
        <4>1. boot'[n] = boot[n] /\ count'[n] = count[n] /\ hits'[n] = hits[n]
          BY <1>1
        <4>2. hits[n] \in SUBSET (1 .. count[n]) /\ got[n] \in SUBSET (1 .. count[n]) /\ got[n] = {}
          BY <2>3, <3>1 DEF Events!Follows, Events!NothingEarly
        <4>3. count[n] \in Nat
          BY EventsTypesAt
        <4>4. QED
          BY <3>1, <4>1, <4>2, <4>3 DEF Events!NothingEarly
      <3>3. Events!HasAll(n)'
        BY <1>1, <2>5, <3>1 DEF Events!HasAll
      <3>4. QED
        BY <2>2, <3>2, <3>3 DEF Events!Follows
    <2>6. CASE read[n].at # "answered"
      <3>1. cursor'[n] = cursor[n] /\ got'[n] = got[n] /\ since'[n] = since[n] /\ Events!From(n)' = Events!From(n)
        BY <1>1, <2>6 DEF Events!NextCursor, Events!From
      <3>2. Events!NothingEarly(n)' /\ Events!HasAll(n)'
        BY <1>1, <2>3, <3>1 DEF Events!Follows, Events!NothingEarly, Events!HasAll
      <3>3. QED
        BY <2>2, <3>2 DEF Events!Follows
    <2>7. QED
      BY <2>4, <2>5, <2>6
  <1>4. QED
    BY <1>2, <1>3 DEF Events!RingInv

LEMMA EventsRingStep ==
    ASSUME Events!RingAssumption, Events!RingInv, [Events!Next]_(Events!ringVars)
    PROVE  Events!RingInv'
  <1>1. Events!Idle \in Events!Requests /\ [Events!Idle EXCEPT !.at = "asked"] \in Events!Requests
    BY DEF Events!Idle, Events!NoCursor, Events!Requests, Events!Cursors
  <1>2. CASE Events!Poll
    BY <1>1, <1>2, EventsAllReadsMove DEF Events!Poll, Events!Idle
  <1>3. CASE Events!AnswerLost
    BY <1>1, <1>3, EventsAllReadsMove DEF Events!AnswerLost, Events!Idle
  <1>4. CASE Events!Returns
    BY <1>4, EventsReturnsStep
  <1>5. ASSUME NEW n \in Reporters,
               \/ \E hit \in BOOLEAN : Events!Add(n, hit)
               \/ Events!Restart(n) \/ Events!ReadBegins(n) \/ Events!ReadEnds(n) \/ Events!ReadGoesOn(n) \/ Events!ReadFails(n)
        PROVE  Events!RingInv'
    BY <1>5, EventsAddStep, EventsRestartStep, EventsReadBeginsStep, EventsReadEndsStep, EventsReadGoesOnStep, EventsReadFailsStep
  <1>6. CASE UNCHANGED Events!ringVars
    BY <1>6, EventsStillFollows DEF Events!ringVars, Events!RingInv, Events!TypeOK, Events!Still
  <1>7. QED
    BY <1>2, <1>3, <1>4, <1>5, <1>6 DEF Events!Next

-----------------------------------------------------------------------------
(* What is asked of one stack.                                               *)
LEMMA StacksKindsFit == ASSUME NEW a, s4[a].kind \in Stacks!Launching PROVE s4[a].kind \notin Stacks!Deleting
  BY DEF Stacks!Launching, Stacks!Deleting

\* A request goes on to another stage, and to nothing else.
LEMMA StacksGoesIs ==
    ASSUME Stacks!TypeOK, NEW a \in Twins, NEW stage \in Stacks!Stage, Stacks!Goes(a, stage)
    PROVE  s4' \in [Twins -> Stacks!Ask]
  BY DEF Stacks!TypeOK, Stacks!Goes, Stacks!Ask

LEMMA StacksMishapFits == ASSUME Stacks!StackAssumption, Stacks!TypeOK, Stacks!Mishap \/ UNCHANGED s8
                    PROVE  s8' \in 0 .. MaxLost
  BY DEF Stacks!StackAssumption, Stacks!TypeOK, Stacks!Mishap

LEMMA StacksLabelFits == ASSUME NEW i \in Stacks!Instance PROVE Stacks!Label(i) \in Stacks!Labels
  BY DEF Stacks!Instance, Stacks!Label, Stacks!Labels

LEMMA StacksLabelsFit == ASSUME NEW some \in SUBSET Stacks!Instance PROVE Stacks!LabelsOf(some) \in SUBSET Stacks!Labels
  BY StacksLabelFits DEF Stacks!LabelsOf

LEMMA StacksTypeStep == ASSUME Stacks!StackAssumption, Stacks!TypeOK, [Stacks!Next]_(Stacks!vars) PROVE Stacks!TypeOK'
  <1> DEFINE defined == s1  secret == s2  run == s3  ask == s4  instances == s5  crossed == s6
             raced == s7  trouble == s8
  <1>1. CASE UNCHANGED Stacks!vars
    BY <1>1 DEF Stacks!TypeOK, Stacks!vars
  <1>2. ASSUME NEW a \in Twins, NEW m \in Pair, NEW kind \in Stacks!Kinds, Stacks!Begin(a, m, kind) PROVE Stacks!TypeOK'
    <2>1. (IF kind \in Stacks!Confirming THEN Stacks!Listed(kind) ELSE {}) \in SUBSET Stacks!Instance
      BY DEF Stacks!TypeOK, Stacks!Listed
    <2>2. (IF kind \in Stacks!Launching THEN secret[m] ELSE None) \in Stacks!Values
      BY DEF Stacks!TypeOK, Stacks!Values
    <2>3. ask' \in [Twins -> Stacks!Ask]
      <3> DEFINE shown == IF kind \in Stacks!Confirming THEN Stacks!Listed(kind) ELSE {}
                 value == IF kind \in Stacks!Launching THEN secret[m] ELSE None
      <3>1. ask' = [ask EXCEPT ![a] = [ask[a] EXCEPT !.at = m, !.kind = kind, !.to = "begun",
                                        !.shown = shown, !.value = value]]
        BY <1>2 DEF Stacks!Begin, Stacks!TypeOK
      <3>2. shown \in SUBSET Stacks!Instance /\ value \in Stacks!Values
        BY <2>1, <2>2
      <3> HIDE DEF shown, value
      <3>3. [ask[a] EXCEPT !.at = m, !.kind = kind, !.to = "begun", !.shown = shown, !.value = value] \in Stacks!Ask
        BY <3>2 DEF Stacks!TypeOK, Stacks!Ask, Stacks!Stage
      <3>4. QED
        BY <3>1, <3>3 DEF Stacks!TypeOK
    <2>4. raced' \subseteq Twins
      BY <1>2 DEF Stacks!Begin, Stacks!TypeOK
    <2>5. QED
      BY <1>2, <2>3, <2>4 DEF Stacks!Begin, Stacks!TypeOK
  <1>3. ASSUME NEW a \in Twins, Stacks!DeletesOnlyTheName(a) \/ Stacks!LookHere(a) PROVE Stacks!TypeOK'
    BY <1>3, StacksGoesIs DEF Stacks!DeletesOnlyTheName, Stacks!LookHere, Stacks!TypeOK, Stacks!Stage
  <1>4. ASSUME NEW a \in Twins, NEW p \in Pair, Stacks!AskPeer(a, p) PROVE Stacks!TypeOK'
    <2>1. /\ [ask EXCEPT ![a].free = @ \cup {p}] \in [Twins -> Stacks!Ask]
          /\ [ask EXCEPT ![a].silent = @ \cup {p}] \in [Twins -> Stacks!Ask]
      BY DEF Stacks!TypeOK, Stacks!Ask
    <2>2. ask' \in [Twins -> Stacks!Ask] /\ trouble' \in 0 .. MaxLost
      <3>1. CASE Stacks!Goes(a, "refused") /\ UNCHANGED trouble
        BY <3>1, StacksGoesIs, StacksMishapFits DEF Stacks!Stage
      <3>2. CASE ~(Stacks!Goes(a, "refused") /\ UNCHANGED trouble)
        BY <1>4, <2>1, <3>2, StacksMishapFits DEF Stacks!AskPeer
      <3>3. QED
        BY <3>1, <3>2
    <2>3. QED
      BY <1>4, <2>2 DEF Stacks!AskPeer, Stacks!TypeOK
  <1>5. ASSUME NEW a \in Twins, Stacks!Check(a) PROVE Stacks!TypeOK'
    <2>1. ask' \in [Twins -> Stacks!Ask]
      <3>1. CASE Stacks!Stands(a)
        <4>1. Stacks!LabelsOf(ask[a].shown) \in SUBSET Stacks!Labels
          BY StacksLabelsFit DEF Stacks!TypeOK, Stacks!Ask
        <4>2. ask[a] \in Stacks!Ask
          BY DEF Stacks!TypeOK
        <4>3. [ask[a] EXCEPT !.to = "checked", !.doomed = Stacks!LabelsOf(ask[a].shown)] \in Stacks!Ask
          BY <4>1, <4>2 DEF Stacks!Ask, Stacks!Stage
        <4>4. ask' = [ask EXCEPT ![a] = [ask[a] EXCEPT !.to = "checked", !.doomed = Stacks!LabelsOf(ask[a].shown)]]
          BY <1>5, <3>1 DEF Stacks!Check
        <4>5. QED
          BY <4>3, <4>4 DEF Stacks!TypeOK
      <3>2. CASE ~Stacks!Stands(a)
        BY <1>5, <3>2, StacksGoesIs DEF Stacks!Check, Stacks!Stage
      <3>3. QED
        BY <3>1, <3>2
    <2>2. QED
      BY <1>5, <2>1 DEF Stacks!Check, Stacks!TypeOK
  <1>6. ASSUME NEW a \in Twins, Stacks!Settle(a) PROVE Stacks!TypeOK'
    <2>1. ask' \in [Twins -> Stacks!Ask] /\ secret' \in [Pair -> Stacks!Values]
      <3>1. CASE ask[a].kind \in Stacks!Launching /\ ask[a].value = None
        BY <1>6, <3>1 DEF Stacks!Settle, Stacks!TypeOK, Stacks!Ask, Stacks!Stage, Stacks!Values
      <3>2. CASE ~(ask[a].kind \in Stacks!Launching /\ ask[a].value = None)
        BY <1>6, <3>2, StacksGoesIs DEF Stacks!Settle, Stacks!Stage, Stacks!TypeOK
      <3>3. QED
        BY <3>1, <3>2
    <2>2. QED
      BY <1>6, <2>1 DEF Stacks!Settle, Stacks!TypeOK
  <1>7. ASSUME NEW a \in Twins, Stacks!Tell(a) PROVE Stacks!TypeOK'
    <2>1. ask[a].at \in Pair
      BY DEF Stacks!TypeOK, Stacks!Ask
    <2>2. ask' \in [Twins -> Stacks!Ask]
      BY <1>7, StacksGoesIs DEF Stacks!Tell, Stacks!Stage
    <2>3. QED
      BY <1>7, <2>1, <2>2, StacksMishapFits DEF Stacks!Tell, Stacks!TypeOK
  <1>8. ASSUME NEW a \in Twins, Stacks!Start(a) PROVE Stacks!TypeOK'
    <2>1. ask' \in [Twins -> Stacks!Ask]
      BY <1>8, StacksGoesIs DEF Stacks!Start, Stacks!Stage
    <2>2. run' \in [Pair -> Twins \cup {None}] /\ crossed' \subseteq Twins \X Twins
      BY <1>8 DEF Stacks!Start, Stacks!TypeOK
    <2>3. QED
      BY <1>8, <2>1, <2>2 DEF Stacks!Start, Stacks!TypeOK
  <1>9. ASSUME NEW a \in Twins, NEW l \in ask[a].doomed, Stacks!DestroyOne(a, l) PROVE Stacks!TypeOK'
    <2>1. ask[a].doomed \subseteq Stacks!Labels /\ ask[a].kept \subseteq Stacks!Labels
      BY DEF Stacks!TypeOK, Stacks!Ask
    <2>2. /\ [ask EXCEPT ![a].doomed = @ \ {l}] \in [Twins -> Stacks!Ask]
          /\ [ask EXCEPT ![a].doomed = @ \ {l}, ![a].kept = @ \cup {l}] \in [Twins -> Stacks!Ask]
      BY <2>1 DEF Stacks!TypeOK, Stacks!Ask
    <2>3. ask' \in [Twins -> Stacks!Ask]
      BY <1>9, <2>2 DEF Stacks!DestroyOne
    <2>4. QED
      BY <1>9, <2>3, StacksMishapFits DEF Stacks!DestroyOne, Stacks!TypeOK
  <1>10. ASSUME NEW a \in Twins, Stacks!Launch(a) PROVE Stacks!TypeOK'
    <2>1. ask' \in [Twins -> Stacks!Ask]
      BY <1>10, StacksGoesIs DEF Stacks!Launch, Stacks!Stage
    <2>2. ask[a].value \in Stacks!Values
      BY DEF Stacks!TypeOK, Stacks!Ask
    <2>4. \A where \in SUBSET Pair, name \in [Pair -> StackNames] : Stacks!Made(a, where, name) \subseteq Stacks!Instance
      <3>1. ASSUME NEW where \in SUBSET Pair, NEW name \in [Pair -> StackNames], NEW m \in where
            PROVE  [by |-> a, at |-> m, name |-> name[m], with |-> ask[a].value,
                    swarm |-> ask[a].kind = "swarm"] \in Stacks!Instance
        <4>1. name[m] \in StackNames /\ m \in Pair /\ (ask[a].kind = "swarm") \in BOOLEAN
          OBVIOUS
        <4> HIDE DEF Stacks!Made
        <4>2. QED
          BY <2>2, <4>1 DEF Stacks!Instance
      <3>2. QED
        BY <3>1 DEF Stacks!Made
    <2>3. instances' \subseteq Stacks!Instance
      BY <1>10, <2>4 DEF Stacks!Launch, Stacks!TypeOK
    <2>5. QED
      BY <1>10, <2>1, <2>3 DEF Stacks!Launch, Stacks!TypeOK
  <1>11. ASSUME NEW a \in Twins, Stacks!TearDown(a) PROVE Stacks!TypeOK'
    <2>1. Stacks!OwnOf(a) \subseteq Stacks!Instance /\ Stacks!LabelsOf(Stacks!OwnOf(a)) \in SUBSET Stacks!Labels
      <3>1. Stacks!OwnOf(a) \subseteq Stacks!Instance
        BY DEF Stacks!TypeOK, Stacks!OwnOf
      <3>2. QED
        BY <3>1, StacksLabelsFit
    <2>2. ask' \in [Twins -> Stacks!Ask]
      <3> DEFINE own == Stacks!OwnOf(a)
                 names == Stacks!LabelsOf(own)
      <3>1. ask' = [ask EXCEPT ![a].shown = @ \cup own, ![a].doomed = names]
        BY <1>11 DEF Stacks!TearDown
      <3>2. own \subseteq Stacks!Instance /\ names \subseteq Stacks!Labels
        BY <2>1
      <3> HIDE DEF own, names
      <3>3. [ask[a] EXCEPT !.shown = @ \cup own, !.doomed = names] \in Stacks!Ask
        BY <3>2 DEF Stacks!TypeOK, Stacks!Ask
      <3>4. QED
        BY <3>1, <3>3 DEF Stacks!TypeOK
    <2>3. QED
      BY <1>11, <2>2 DEF Stacks!TearDown, Stacks!TypeOK
  <1>12. ASSUME NEW a \in Twins, Stacks!Finish(a) PROVE Stacks!TypeOK'
    <2>1. Stacks!AfterRun(a) \in Stacks!Stage
      BY DEF Stacks!AfterRun, Stacks!Stage
    <2>2. ask' \in [Twins -> Stacks!Ask]
      BY <1>12, <2>1, StacksGoesIs DEF Stacks!Finish
    <2>3. QED
      BY <1>12, <2>2 DEF Stacks!Finish, Stacks!TypeOK
  <1>13. ASSUME NEW a \in Twins, Stacks!Drop(a) \/ Stacks!Forget(a) PROVE Stacks!TypeOK'
    BY <1>13, StacksGoesIs DEF Stacks!Drop, Stacks!Forget, Stacks!TypeOK, Stacks!Stage, Stacks!Values
  <1>14. ASSUME NEW a \in Twins, Stacks!Spread(a) PROVE Stacks!TypeOK'
    <2>1. ask' \in [Twins -> Stacks!Ask]
      BY <1>14, StacksGoesIs DEF Stacks!Spread, Stacks!Stage
    <2>2. QED
      <3>1. PICK heard \in SUBSET Stacks!Peers(a) :
               LET gone == {p \in heard : run[p] = None /\ p \in defined}
               IN  /\ IF heard = Stacks!Peers(a) THEN UNCHANGED trouble ELSE Stacks!Mishap
                   /\ defined' = defined \ gone
                   /\ secret' = [m \in Pair |-> IF m \in gone THEN None ELSE secret[m]]
        BY <1>14 DEF Stacks!Spread
      <3>2. trouble' \in 0 .. MaxLost /\ secret' \in [Pair -> Stacks!Values]
        BY <3>1, StacksMishapFits DEF Stacks!TypeOK, Stacks!Values
      <3>3. QED
        BY <1>14, <2>1, <3>1, <3>2 DEF Stacks!Spread, Stacks!TypeOK
  <1>15. QED
    BY <1>1, <1>2, <1>3, <1>4, <1>5, <1>6, <1>7, <1>8, <1>9, <1>10, <1>11, <1>12, <1>13, <1>14
    DEF Stacks!Next

\* What a request's going on to another stage leaves as it was.
LEMMA StacksGoesOn ==
    ASSUME Stacks!TypeOK, NEW a \in Twins, NEW stage, Stacks!Goes(a, stage)
    PROVE  /\ \A b \in Twins \ {a} : s4'[b] = s4[b]
           /\ s4'[a].to = stage
           /\ s4'[a].at = s4[a].at /\ s4'[a].kind = s4[a].kind
           /\ s4'[a].shown = s4[a].shown /\ s4'[a].value = s4[a].value
           /\ s4'[a].free = s4[a].free /\ s4'[a].silent = s4[a].silent
           /\ s4'[a].doomed = s4[a].doomed /\ s4'[a].kept = s4[a].kept
  BY DEF Stacks!TypeOK, Stacks!Goes, Stacks!Ask


\* What a teardown changes: the names on its list, and what it has of its own.
LEMMA StacksTearDownIs ==
    ASSUME Stacks!TypeOK, NEW a \in Twins, Stacks!TearDown(a)
    PROVE  /\ \A b \in Twins \ {a} : s4'[b] = s4[b]
           /\ s4[a].to = "ending" /\ s4[a].kind = "swarm" /\ UNCHANGED <<s3, s5>>
           /\ s4'[a].to = s4[a].to /\ s4'[a].at = s4[a].at /\ s4'[a].kind = s4[a].kind
           /\ s4'[a].value = s4[a].value /\ s4'[a].free = s4[a].free
           /\ s4'[a].silent = s4[a].silent /\ s4'[a].kept = s4[a].kept
           /\ \A i \in s4'[a].shown : i \in s4[a].shown \/ (i \in s5 /\ i.by = a)
           /\ \A l \in s4'[a].doomed : \E i \in s4'[a].shown : i \in s5 /\ Stacks!Label(i) = l
  <1> DEFINE run == s3  ask == s4  instances == s5
  <1> DEFINE own == Stacks!OwnOf(a)
             names == Stacks!LabelsOf(own)
  <1>1. ask' = [ask EXCEPT ![a].shown = @ \cup own, ![a].doomed = names]
    BY DEF Stacks!TearDown
  <1>2. /\ \A i \in own : i \in instances /\ i.by = a
        /\ \A l \in names : \E i \in own : Stacks!Label(i) = l
    BY DEF Stacks!OwnOf, Stacks!LabelsOf
  <1> HIDE DEF own, names
  <1>3. /\ \A b \in Twins \ {a} : ask'[b] = ask[b]
        /\ ask'[a] = [ask[a] EXCEPT !.shown = @ \cup own, !.doomed = names]
    BY <1>1 DEF Stacks!TypeOK
  <1>5. /\ ask'[a].shown = ask[a].shown \cup own /\ ask'[a].doomed = names
        /\ ask'[a].to = ask[a].to /\ ask'[a].at = ask[a].at /\ ask'[a].kind = ask[a].kind
        /\ ask'[a].value = ask[a].value /\ ask'[a].free = ask[a].free /\ ask'[a].silent = ask[a].silent
        /\ ask'[a].kept = ask[a].kept
    BY <1>3 DEF Stacks!TypeOK, Stacks!Ask
  <1>6. ask[a].to = "ending" /\ ask[a].kind = "swarm" /\ UNCHANGED <<run, instances>>
    BY DEF Stacks!TearDown
  <1>7. QED
    BY <1>2, <1>3, <1>5, <1>6

LEMMA StacksAsksStep ==
    ASSUME Stacks!StackAssumption, Stacks!TypeOK, Stacks!AsksFit, [Stacks!Next]_(Stacks!vars)
    PROVE  Stacks!AsksFit'
  <1> DEFINE run == s3  ask == s4
  <1>1. CASE UNCHANGED Stacks!vars
    BY <1>1 DEF Stacks!Label, Stacks!AsksFit, Stacks!Peers, Stacks!vars
  <1>2. ASSUME NEW a \in Twins, NEW m \in Pair, NEW kind \in Stacks!Kinds, Stacks!Begin(a, m, kind) PROVE Stacks!AsksFit'
    BY <1>2 DEF Stacks!Label, Stacks!AsksFit, Stacks!TypeOK, Stacks!Ask, Stacks!Begin, Stacks!Peers
  <1>3. ASSUME NEW a \in Twins, Stacks!DeletesOnlyTheName(a) PROVE Stacks!AsksFit'
    BY <1>3, StacksGoesOn DEF Stacks!Label, Stacks!DeletesOnlyTheName, Stacks!TypeOK, Stacks!AsksFit, Stacks!Peers, Stacks!Deleting
  <1>16. ASSUME NEW a \in Twins, Stacks!LookHere(a) PROVE Stacks!AsksFit'
    BY <1>16, StacksGoesOn DEF Stacks!Label, Stacks!LookHere, Stacks!TypeOK, Stacks!AsksFit, Stacks!Peers
  <1>4. ASSUME NEW a \in Twins, NEW p \in Pair, Stacks!AskPeer(a, p) PROVE Stacks!AsksFit'
    <2>1. /\ \A b \in Twins \ {a} : ask'[b] = ask[b]
          /\ ask[a].to = "asking" /\ ask'[a].to \in {"asking", "refused"} /\ run' = run
          /\ ask'[a].at = ask[a].at /\ ask'[a].shown = ask[a].shown /\ ask'[a].doomed = ask[a].doomed
      BY <1>4 DEF Stacks!Label, Stacks!AskPeer, Stacks!TypeOK, Stacks!Ask, Stacks!Goes
    <2>2. ask'[a].kind = ask[a].kind
      BY <1>4 DEF Stacks!AskPeer, Stacks!TypeOK, Stacks!Ask, Stacks!Goes
    <2>3. QED
      BY <2>1, <2>2 DEF Stacks!Label, Stacks!AsksFit, Stacks!Peers, Stacks!TypeOK
  <1>5. ASSUME NEW a \in Twins, Stacks!Check(a) PROVE Stacks!AsksFit'
    BY <1>5 DEF Stacks!Label, Stacks!LabelsOf, Stacks!Check, Stacks!TypeOK, Stacks!AsksFit, Stacks!Ask, Stacks!Peers, Stacks!Goes
  <1>6. ASSUME NEW a \in Twins, Stacks!Settle(a) PROVE Stacks!AsksFit'
    BY <1>6 DEF Stacks!Label, Stacks!Settle, Stacks!TypeOK, Stacks!AsksFit, Stacks!Ask, Stacks!Peers, Stacks!Goes
  <1>7. ASSUME NEW a \in Twins, Stacks!Tell(a) PROVE Stacks!AsksFit'
    BY <1>7, StacksGoesOn DEF Stacks!Label, Stacks!Tell, Stacks!TypeOK, Stacks!AsksFit, Stacks!Peers
  <1>8. ASSUME NEW a \in Twins, Stacks!Start(a) PROVE Stacks!AsksFit'
    BY <1>8, StacksGoesOn DEF Stacks!Label, Stacks!Start, Stacks!TypeOK, Stacks!AsksFit, Stacks!Peers
  <1>9. ASSUME NEW a \in Twins, NEW l \in ask[a].doomed, Stacks!DestroyOne(a, l) PROVE Stacks!AsksFit'
    <2>1. /\ \A b \in Twins \ {a} : ask'[b] = ask[b]
          /\ ask'[a].to = ask[a].to /\ ask'[a].at = ask[a].at /\ ask'[a].kind = ask[a].kind
          /\ ask'[a].value = ask[a].value /\ ask'[a].shown = ask[a].shown /\ run' = run
          /\ ask'[a].free = ask[a].free /\ ask'[a].silent = ask[a].silent
          /\ ask'[a].doomed \subseteq ask[a].doomed /\ ask[a].to \in {"going", "ending"}
      BY <1>9 DEF Stacks!Label, Stacks!DestroyOne, Stacks!TypeOK, Stacks!Ask
    <2>2. QED
      BY <2>1 DEF Stacks!Label, Stacks!AsksFit, Stacks!Peers, Stacks!TypeOK
  <1>10. ASSUME NEW a \in Twins, Stacks!Launch(a) PROVE Stacks!AsksFit'
    BY <1>10, StacksGoesOn DEF Stacks!Label, Stacks!Launch, Stacks!TypeOK, Stacks!AsksFit, Stacks!Peers
  <1>11. ASSUME NEW a \in Twins, Stacks!TearDown(a) PROVE Stacks!AsksFit'
    BY <1>11, StacksTearDownIs DEF Stacks!AsksFit, Stacks!Label, Stacks!Peers, Stacks!TypeOK
  <1>12. ASSUME NEW a \in Twins, Stacks!Finish(a) PROVE Stacks!AsksFit'
    BY <1>12, StacksGoesOn DEF Stacks!Label, Stacks!Finish, Stacks!TypeOK, Stacks!AsksFit, Stacks!Peers, Stacks!AfterRun, Stacks!Deleting
  <1>13. ASSUME NEW a \in Twins, Stacks!Drop(a) \/ Stacks!Forget(a) \/ Stacks!Spread(a) PROVE Stacks!AsksFit'
    BY <1>13, StacksGoesOn DEF Stacks!Label, Stacks!Drop, Stacks!Forget, Stacks!Spread, Stacks!TypeOK, Stacks!AsksFit, Stacks!Peers
  <1>15. QED
    BY <1>1, <1>2, <1>3, <1>4, <1>5, <1>6, <1>7, <1>8, <1>9, <1>10, <1>11, <1>12, <1>13, <1>16
    DEF Stacks!Next

\* What a launch makes has names of its own.
LEMMA StacksLaunchMakes ==
    ASSUME Stacks!TypeOK, NEW a \in Twins, Stacks!Launch(a), NEW i \in s5' \ s5
    PROVE  /\ i.by = a /\ i.with = s4[a].value
           /\ \A j \in s5' : Stacks!Label(i) = Stacks!Label(j) => i = j
  <1> DEFINE ask == s4  instances == s5
  <1>1. PICK where \in SUBSET Pair, name \in [Pair -> StackNames] :
           /\ Stacks!LabelsOf(Stacks!Made(a, where, name)) \cap Stacks!LabelsOf(instances) = {}
           /\ instances' = instances \cup Stacks!Made(a, where, name)
    BY DEF Stacks!Launch
  <1>2. i \in Stacks!Made(a, where, name)
    BY <1>1
  <1>3. \A j \in Stacks!Made(a, where, name) :
            /\ j.by = a /\ j.with = ask[a].value
            /\ Stacks!Label(i) = Stacks!Label(j) => i = j
    BY <1>2 DEF Stacks!Made, Stacks!Label
  <1>4. \A j \in instances : Stacks!Label(i) # Stacks!Label(j)
    BY <1>1, <1>2 DEF Stacks!LabelsOf
  <1>5. QED
    BY <1>1, <1>2, <1>3, <1>4

LEMMA StacksMadeStep ==
    ASSUME Stacks!StackAssumption, Stacks!TypeOK, Stacks!AsksFit, Stacks!MadeByLaunch, [Stacks!Next]_(Stacks!vars)
    PROVE  Stacks!MadeByLaunch'
  <1> DEFINE ask == s4  instances == s5
  <1> DEFINE There(i) == i \in instances \/ \E b \in Twins : i \in ask[b].shown
             Past(i) == i.by \in Twins =>
                 ask[i.by].kind \in Stacks!Launching /\ ask[i.by].to \in {"ending", "over"}
  <1>0. Stacks!MadeByLaunch <=> \A i : There(i) => Past(i)
    BY DEF Stacks!MadeByLaunch
  <1>00. Stacks!MadeByLaunch' <=> \A i : There(i)' => Past(i)'
    BY DEF Stacks!MadeByLaunch
  <1>a. SUFFICES ASSUME NEW i, There(i)' PROVE Past(i)'
    BY <1>00
  <1>b. There(i) => Past(i)
    BY <1>0
  <1>1. CASE UNCHANGED Stacks!vars
    <2>1. ask' = ask /\ instances' = instances
      BY <1>1 DEF Stacks!vars
    <2>2. QED
      BY <1>a, <1>b, <2>1
  <1>2. ASSUME NEW a \in Twins, NEW m \in Pair, NEW kind \in Stacks!Kinds, Stacks!Begin(a, m, kind) PROVE Past(i)'
    <2>1. /\ \A b \in Twins \ {a} : ask'[b] = ask[b]
          /\ \A x \in ask'[a].shown : x \in instances
          /\ ask[a].to = "none" /\ instances' = instances
      BY <1>2 DEF Stacks!TypeOK, Stacks!Ask, Stacks!Begin, Stacks!Listed
    <2>2. There(i) /\ i.by # a
      BY <1>a, <1>b, <2>1
    <2>3. QED
      BY <1>b, <2>1, <2>2
  <1>3. ASSUME NEW a \in Twins, Stacks!DeletesOnlyTheName(a) PROVE Past(i)'
    BY <1>3, <1>a, <1>b, StacksGoesOn DEF Stacks!DeletesOnlyTheName
  <1>16. ASSUME NEW a \in Twins, Stacks!LookHere(a) PROVE Past(i)'
    BY <1>16, <1>a, <1>b, StacksGoesOn DEF Stacks!LookHere
  <1>4. ASSUME NEW a \in Twins, NEW p \in Pair, Stacks!AskPeer(a, p) PROVE Past(i)'
    <2>1. /\ \A b \in Twins \ {a} : ask'[b] = ask[b]
          /\ ask'[a].shown = ask[a].shown /\ ask'[a].kind = ask[a].kind
          /\ ask[a].to = "asking" /\ instances' = instances
      BY <1>4 DEF Stacks!AskPeer, Stacks!TypeOK, Stacks!Ask, Stacks!Goes
    <2>2. QED
      BY <1>a, <1>b, <2>1
  <1>5. ASSUME NEW a \in Twins, Stacks!Check(a) PROVE Past(i)'
    BY <1>5, <1>a, <1>b DEF Stacks!Check, Stacks!TypeOK, Stacks!Ask, Stacks!Goes
  <1>6. ASSUME NEW a \in Twins, Stacks!Settle(a) PROVE Past(i)'
    BY <1>6, <1>a, <1>b DEF Stacks!Settle, Stacks!TypeOK, Stacks!Ask, Stacks!Goes
  <1>7. ASSUME NEW a \in Twins, Stacks!Tell(a) PROVE Past(i)'
    BY <1>7, <1>a, <1>b, StacksGoesOn DEF Stacks!Tell
  <1>8. ASSUME NEW a \in Twins, Stacks!Start(a) PROVE Past(i)'
    BY <1>8, <1>a, <1>b, StacksGoesOn DEF Stacks!Start
  <1>9. ASSUME NEW a \in Twins, NEW l \in ask[a].doomed, Stacks!DestroyOne(a, l) PROVE Past(i)'
    BY <1>9, <1>a, <1>b DEF Stacks!DestroyOne, Stacks!TypeOK, Stacks!Ask
  <1>10. ASSUME NEW a \in Twins, Stacks!Launch(a) PROVE Past(i)'
    <2>1. Stacks!Goes(a, "ending") /\ ask[a].to = "going" /\ ask[a].kind \in Stacks!Launching
      BY <1>10 DEF Stacks!Launch
    <2>2. i \in instances' /\ i \notin instances => i.by = a
      BY <1>10, StacksLaunchMakes
    <2>3. QED
      BY <1>a, <1>b, <2>1, <2>2, StacksGoesOn
  <1>11. ASSUME NEW a \in Twins, Stacks!TearDown(a) PROVE Past(i)'
    BY <1>11, <1>a, <1>b, StacksTearDownIs
  <1>12. ASSUME NEW a \in Twins, Stacks!Finish(a) PROVE Past(i)'
    <2>1. Stacks!Goes(a, Stacks!AfterRun(a)) /\ ask[a].to \in {"going", "ending"} /\ instances' = instances
      BY <1>12 DEF Stacks!Finish
    <2>2. ask[a].kind \in Stacks!Launching => Stacks!AfterRun(a) = "over"
      <3>1. ask[a].kind \in Stacks!Launching => ask[a].kind # "delete"
        BY DEF Stacks!Launching
      <3>2. QED
        BY <3>1 DEF Stacks!AfterRun
    <2>3. QED
      BY <1>a, <1>b, <2>1, <2>2, StacksGoesOn
  <1>13. ASSUME NEW a \in Twins, Stacks!Drop(a) \/ Stacks!Forget(a) \/ Stacks!Spread(a) PROVE Past(i)'
    BY <1>13, <1>a, <1>b, StacksGoesOn DEF Stacks!Drop, Stacks!Forget, Stacks!Spread
  <1>15. QED
    BY <1>1, <1>2, <1>3, <1>4, <1>5, <1>6, <1>7, <1>8, <1>9, <1>10, <1>11, <1>12, <1>13, <1>16
    DEF Stacks!Next

\* Only launches make instances.
LEMMA StacksOnlyLaunches ==
    ASSUME [Stacks!Next]_(Stacks!vars) PROVE s5' \subseteq s5 \/ \E a \in Twins : Stacks!Launch(a)
  <1> DEFINE ask == s4  instances == s5
  <1>1. ASSUME NEW a \in Twins,
               \/ \E m \in Pair, kind \in Stacks!Kinds : Stacks!Begin(a, m, kind)
               \/ \E p \in Pair : Stacks!AskPeer(a, p)
               \/ \E l \in ask[a].doomed : Stacks!DestroyOne(a, l)
               \/ Stacks!DeletesOnlyTheName(a) \/ Stacks!LookHere(a) \/ Stacks!Check(a) \/ Stacks!Settle(a) \/ Stacks!Tell(a)
               \/ Stacks!Start(a) \/ Stacks!TearDown(a) \/ Stacks!Finish(a) \/ Stacks!Drop(a) \/ Stacks!Forget(a) \/ Stacks!Spread(a)
        PROVE  instances' \subseteq instances
    BY <1>1 DEF Stacks!Begin, Stacks!AskPeer, Stacks!DestroyOne, Stacks!DeletesOnlyTheName, Stacks!LookHere, Stacks!Check, Stacks!Settle, Stacks!Tell, Stacks!Start,
                Stacks!TearDown, Stacks!Finish, Stacks!Drop, Stacks!Forget, Stacks!Spread
  <1>2. QED
    BY <1>1 DEF Stacks!Next, Stacks!vars

LEMMA StacksNamesStep == ASSUME Stacks!TypeOK, Stacks!NamesApart, [Stacks!Next]_(Stacks!vars) PROVE Stacks!NamesApart'
  <1> DEFINE instances == s5
  <1>1. CASE instances' \subseteq instances
    BY <1>1 DEF Stacks!NamesApart, Stacks!Label
  <1>2. ASSUME NEW a \in Twins, Stacks!Launch(a) PROVE Stacks!NamesApart'
    <2>1. SUFFICES ASSUME NEW i \in instances', NEW j \in instances', Stacks!Label(i) = Stacks!Label(j) PROVE i = j
      BY DEF Stacks!NamesApart, Stacks!Label
    <2>2. QED
      BY <1>2, <2>1, StacksLaunchMakes DEF Stacks!NamesApart
  <1>3. QED
    BY <1>1, <1>2, StacksOnlyLaunches

LEMMA StacksKnownStep ==
    ASSUME Stacks!StackAssumption, Stacks!TypeOK, Stacks!AsksFit, Stacks!MadeByLaunch, Stacks!NamesApart, Stacks!OwnAreKnown, [Stacks!Next]_(Stacks!vars)
    PROVE  Stacks!OwnAreKnown'
  <1> DEFINE ask == s4  instances == s5
  <1> SUFFICES ASSUME NEW b \in Twins, ask'[b].kind = "swarm", NEW i \in instances', i.by = b,
                      Stacks!Label(i) \in ask'[b].doomed
               PROVE  i \in ask'[b].shown
    BY DEF Stacks!OwnAreKnown, Stacks!Label
  <1> DEFINE Same == /\ ask'[b].doomed \subseteq ask[b].doomed /\ ask'[b].shown = ask[b].shown
                     /\ ask'[b].kind = ask[b].kind /\ instances' \subseteq instances
  <1>0. ASSUME Same PROVE i \in ask'[b].shown
    BY <1>0 DEF Stacks!OwnAreKnown
  <1>1. CASE UNCHANGED Stacks!vars
    BY <1>0, <1>1 DEF Stacks!vars
  <1>2. ASSUME NEW a \in Twins, NEW m \in Pair, NEW kind \in Stacks!Kinds, Stacks!Begin(a, m, kind)
        PROVE  i \in ask'[b].shown
    <2>1. CASE a = b
      <3>1. ask[b].to = "none" /\ ask'[b].doomed = ask[b].doomed
        BY <1>2, <2>1 DEF Stacks!Begin, Stacks!TypeOK, Stacks!Ask
      <3>2. QED
        BY <3>1 DEF Stacks!AsksFit
    <2>2. CASE a # b
      BY <1>0, <1>2, <2>2 DEF Stacks!Begin, Stacks!TypeOK, Stacks!Ask
    <2>3. QED
      BY <2>1, <2>2
  <1>3. ASSUME NEW a \in Twins, Stacks!DeletesOnlyTheName(a) \/ Stacks!LookHere(a) \/ Stacks!Tell(a) \/ Stacks!Start(a)
                  \/ Stacks!Finish(a) \/ Stacks!Drop(a) \/ Stacks!Forget(a) \/ Stacks!Spread(a)
        PROVE  i \in ask'[b].shown
    <2>1. (\E stage : Stacks!Goes(a, stage)) /\ instances' = instances
      BY <1>3 DEF Stacks!DeletesOnlyTheName, Stacks!LookHere, Stacks!Tell, Stacks!Start, Stacks!Finish, Stacks!Drop, Stacks!Forget, Stacks!Spread
    <2>2. Same
      BY <2>1, StacksGoesOn
    <2>3. QED
      BY <1>0, <2>2
  <1>4. ASSUME NEW a \in Twins, NEW p \in Pair, Stacks!AskPeer(a, p) PROVE i \in ask'[b].shown
    BY <1>0, <1>4 DEF Stacks!AskPeer, Stacks!TypeOK, Stacks!Ask, Stacks!Goes
  <1>5. ASSUME NEW a \in Twins, Stacks!Check(a) PROVE i \in ask'[b].shown
    <2>1. CASE a = b /\ Stacks!Stands(a)
      <3>1. ask[b].kind = "swarm" /\ ask[b].to = "asking" /\ instances' = instances
        BY <1>5, <2>1 DEF Stacks!Check, Stacks!TypeOK, Stacks!Ask
      <3>2. QED
        BY <3>1 DEF Stacks!MadeByLaunch
    <2>2. CASE ~(a = b /\ Stacks!Stands(a))
      <3>1. Same
        BY <1>5, <2>2 DEF Stacks!Check, Stacks!TypeOK, Stacks!Ask, Stacks!Goes
      <3>2. QED
        BY <1>0, <3>1
    <2>3. QED
      BY <2>1, <2>2
  <1>6. ASSUME NEW a \in Twins, Stacks!Settle(a) PROVE i \in ask'[b].shown
    BY <1>0, <1>6 DEF Stacks!Settle, Stacks!TypeOK, Stacks!Ask, Stacks!Goes
  <1>7. ASSUME NEW a \in Twins, NEW l \in ask[a].doomed, Stacks!DestroyOne(a, l) PROVE i \in ask'[b].shown
    <2>1. Same
      BY <1>7 DEF Stacks!DestroyOne, Stacks!TypeOK, Stacks!Ask
    <2>2. QED
      BY <1>0, <2>1
  <1>8. ASSUME NEW a \in Twins, Stacks!Launch(a) PROVE i \in ask'[b].shown
    <2>1. /\ \A c \in Twins \ {a} : ask'[c] = ask[c]
          /\ ask'[a].doomed = ask[a].doomed /\ ask[a].doomed = {}
      BY <1>8, StacksGoesOn DEF Stacks!Launch
    <2>2. b # a /\ i \in instances
      BY <1>8, <2>1, StacksLaunchMakes
    <2>3. QED
      BY <2>1, <2>2 DEF Stacks!OwnAreKnown
  <1>9. ASSUME NEW a \in Twins, Stacks!TearDown(a) PROVE i \in ask'[b].shown
    <2>1. CASE a = b
      <3>1. i \in instances /\ \E j \in ask'[b].shown : j \in instances /\ Stacks!Label(j) = Stacks!Label(i)
        BY <1>9, <2>1, StacksTearDownIs
      <3>2. QED
        BY <3>1 DEF Stacks!NamesApart
    <2>2. CASE a # b
      <3>1. Same
        BY <1>9, <2>2 DEF Stacks!TearDown, Stacks!TypeOK, Stacks!Ask
      <3>2. QED
        BY <1>0, <3>1
    <2>3. QED
      BY <2>1, <2>2
  <1>10. QED
    BY <1>1, <1>2, <1>3, <1>4, <1>5, <1>6, <1>7, <1>8, <1>9 DEF Stacks!Next

LEMMA StacksDeletionsStep ==
    ASSUME Stacks!StackAssumption, Stacks!TypeOK, Stacks!AsksFit, Stacks!MadeByLaunch, Stacks!DeletionsFit, [Stacks!Next]_(Stacks!vars)
    PROVE  Stacks!DeletionsFit'
  <1> DEFINE ask == s4  instances == s5
  <1>1. CASE UNCHANGED Stacks!vars
    BY <1>1 DEF Stacks!Label, Stacks!DeletionsFit, Stacks!vars
  <1>2. ASSUME NEW a \in Twins, NEW m \in Pair, NEW kind \in Stacks!Kinds, Stacks!Begin(a, m, kind) PROVE Stacks!DeletionsFit'
    BY <1>2 DEF Stacks!Label, Stacks!DeletionsFit, Stacks!TypeOK, Stacks!Ask, Stacks!Begin
  <1>3. ASSUME NEW a \in Twins, Stacks!DeletesOnlyTheName(a) PROVE Stacks!DeletionsFit'
    BY <1>3, StacksGoesOn DEF Stacks!Label, Stacks!DeletesOnlyTheName, Stacks!DeletionsFit
  <1>16. ASSUME NEW a \in Twins, Stacks!LookHere(a) PROVE Stacks!DeletionsFit'
    BY <1>16, StacksGoesOn DEF Stacks!Label, Stacks!LookHere, Stacks!DeletionsFit
  <1>4. ASSUME NEW a \in Twins, NEW p \in Pair, Stacks!AskPeer(a, p) PROVE Stacks!DeletionsFit'
    BY <1>4 DEF Stacks!Label, Stacks!AskPeer, Stacks!TypeOK, Stacks!DeletionsFit, Stacks!Ask, Stacks!Goes
  <1>5. ASSUME NEW a \in Twins, Stacks!Check(a) PROVE Stacks!DeletionsFit'
    BY <1>5 DEF Stacks!Label, Stacks!LabelsOf, Stacks!Check, Stacks!TypeOK, Stacks!DeletionsFit, Stacks!Ask, Stacks!Goes
  <1>6. ASSUME NEW a \in Twins, Stacks!Settle(a) PROVE Stacks!DeletionsFit'
    BY <1>6 DEF Stacks!Label, Stacks!Settle, Stacks!TypeOK, Stacks!DeletionsFit, Stacks!Ask, Stacks!Goes, Stacks!Launching
  <1>7. ASSUME NEW a \in Twins, Stacks!Tell(a) PROVE Stacks!DeletionsFit'
    BY <1>7, StacksGoesOn DEF Stacks!Label, Stacks!Tell, Stacks!DeletionsFit, Stacks!AsksFit, Stacks!Launching
  <1>8. ASSUME NEW a \in Twins, Stacks!Start(a) PROVE Stacks!DeletionsFit'
    BY <1>8, StacksGoesOn DEF Stacks!Label, Stacks!Start, Stacks!DeletionsFit
  <1>9. ASSUME NEW a \in Twins, NEW l \in ask[a].doomed, Stacks!DestroyOne(a, l) PROVE Stacks!DeletionsFit'
    BY <1>9 DEF Stacks!Label, Stacks!Bearer, Stacks!DestroyOne, Stacks!TypeOK, Stacks!DeletionsFit, Stacks!Ask
  <1>10. ASSUME NEW a \in Twins, Stacks!Launch(a) PROVE Stacks!DeletionsFit'
    <2>1. \A b \in Twins : ask[b].shown \cap (instances' \ instances) = {}
      <3>1. \A i \in instances' \ instances : i.by = a
        BY <1>10, StacksLaunchMakes
      <3>2. \A b \in Twins : \A i \in ask[b].shown : i.by # a
        BY <1>10 DEF Stacks!Label, Stacks!Launch, Stacks!MadeByLaunch
      <3>3. QED
        BY <3>1, <3>2
    <2>2. ask[a].kind # "delete"
      BY <1>10 DEF Stacks!Label, Stacks!Launch, Stacks!Launching
    <2>3. Stacks!Goes(a, "ending")
      BY <1>10 DEF Stacks!Label, Stacks!Launch
    <2>4. QED
      BY <2>1, <2>2, <2>3, StacksGoesOn DEF Stacks!Label, Stacks!DeletionsFit
  <1>11. ASSUME NEW a \in Twins, Stacks!TearDown(a) PROVE Stacks!DeletionsFit'
    BY <1>11 DEF Stacks!Label, Stacks!TearDown, Stacks!TypeOK, Stacks!DeletionsFit, Stacks!Ask
  <1>12. ASSUME NEW a \in Twins, Stacks!Finish(a) PROVE Stacks!DeletionsFit'
    <2>1. Stacks!Goes(a, Stacks!AfterRun(a)) /\ instances' = instances /\ ask[a].to \in {"going", "ending"}
          /\ ask[a].doomed = {}
      BY <1>12 DEF Stacks!Finish
    <2>2. ask[a].kind = "delete" /\ Stacks!AfterRun(a) # "refused" => ask[a].shown \cap instances = {}
      BY <2>1 DEF Stacks!AfterRun, Stacks!DeletionsFit
    <2>3. ask[a].kind = "delete" => Stacks!AfterRun(a) \in {"dropping", "refused"}
      BY DEF Stacks!AfterRun
    <2>4. QED
      BY <2>1, <2>2, <2>3, StacksGoesOn DEF Stacks!DeletionsFit, Stacks!Label
  <1>13. ASSUME NEW a \in Twins, Stacks!Drop(a) \/ Stacks!Forget(a) \/ Stacks!Spread(a) PROVE Stacks!DeletionsFit'
    BY <1>13, StacksGoesOn DEF Stacks!Label, Stacks!Drop, Stacks!Forget, Stacks!Spread, Stacks!DeletionsFit
  <1>15. QED
    BY <1>1, <1>2, <1>3, <1>4, <1>5, <1>6, <1>7, <1>8, <1>9, <1>10, <1>11, <1>12, <1>13, <1>16
    DEF Stacks!Next

LEMMA StacksOverlapStep ==
    ASSUME Stacks!StackAssumption, Stacks!TypeOK, Stacks!AsksFit, Stacks!OverlapOnlyByCrossing, [Stacks!Next]_(Stacks!vars)
    PROVE  Stacks!OverlapOnlyByCrossing'
  <1> DEFINE run == s3  ask == s4  crossed == s6
  <1>0. Stacks!AsksFit' /\ Stacks!TypeOK'
    BY StacksAsksStep, StacksTypeStep
  <1>1. CASE UNCHANGED Stacks!vars
    BY <1>1 DEF Stacks!OverlapOnlyByCrossing, Stacks!vars
  <1>2. ASSUME NEW a \in Twins, Stacks!Start(a) PROVE Stacks!OverlapOnlyByCrossing'
    <2>1. CASE run[ask[a].at] = None
      <3>1. /\ Stacks!Goes(a, "going") /\ run' = [run EXCEPT ![ask[a].at] = a]
            /\ crossed' = crossed \cup {<<b, a>> : b \in {b \in Twins \ {a} :
                              Stacks!InFlight(b) /\ ask[a].at \in ask[b].free}}
        BY <1>2, <2>1 DEF Stacks!Start
      <3>2. /\ \A b \in Twins : ask'[b].silent = ask[b].silent
            /\ ask[a].at \in Pair /\ crossed \subseteq crossed'
        BY <3>1, StacksGoesOn DEF Stacks!TypeOK, Stacks!Ask
      <3>3. ASSUME NEW n \in Pair, n # ask[a].at, run[n] # None
            PROVE  <<run[n], a>> \in crossed' \/ ask[a].at \in ask'[run[n]].silent
        <4>1. run[n] \in Twins /\ ask[run[n]].at = n /\ ask[run[n]].to \in {"going", "ending"}
          BY <3>3 DEF Stacks!AsksFit, Stacks!TypeOK
        <4>2. ask[a].at \in ask[run[n]].free \cup ask[run[n]].silent
          BY <3>2, <3>3, <4>1 DEF Stacks!AsksFit, Stacks!Peers
        <4>3. run[n] # a /\ Stacks!InFlight(run[n])
          BY <1>2, <4>1 DEF Stacks!Start, Stacks!InFlight
        <4>4. QED
          BY <3>1, <3>2, <4>1, <4>2, <4>3
      <3>4. \A n \in Pair : run'[n] = IF n = ask[a].at THEN a ELSE run[n]
        BY <3>1 DEF Stacks!TypeOK
      <3>5. ASSUME NEW m \in Pair, NEW n \in Pair, m # n, run'[m] # None, run'[n] # None
            PROVE  \/ <<run'[m], run'[n]>> \in crossed' \/ <<run'[n], run'[m]>> \in crossed'
                   \/ n \in ask'[run'[m]].silent \/ m \in ask'[run'[n]].silent
        <4>1. CASE m = ask[a].at
          BY <3>3, <3>4, <3>5, <4>1
        <4>2. CASE n = ask[a].at
          BY <3>3, <3>4, <3>5, <4>2
        <4>3. CASE m # ask[a].at /\ n # ask[a].at
          <5>1. run'[m] = run[m] /\ run'[n] = run[n] /\ run[m] \in Twins /\ run[n] \in Twins
            BY <3>4, <3>5, <4>3 DEF Stacks!TypeOK
          <5>2. QED
            BY <3>2, <3>5, <5>1 DEF Stacks!OverlapOnlyByCrossing
        <4>4. QED
          BY <4>1, <4>2, <4>3
      <3>6. QED
        BY <3>5 DEF Stacks!OverlapOnlyByCrossing
    <2>2. CASE run[ask[a].at] # None
      BY <1>2, <2>2, StacksGoesOn DEF Stacks!Start, Stacks!OverlapOnlyByCrossing, Stacks!TypeOK
    <2>3. QED
      BY <2>1, <2>2
  <1>3. ASSUME \A m \in Pair : run'[m] \in {run[m], None}, crossed' = crossed,
               \A b \in Twins : ask[b].silent \subseteq ask'[b].silent
        PROVE  Stacks!OverlapOnlyByCrossing'
    BY <1>3 DEF Stacks!OverlapOnlyByCrossing, Stacks!TypeOK
  <1>4. ASSUME NEW a \in Twins, NEW m \in Pair, NEW kind \in Stacks!Kinds, Stacks!Begin(a, m, kind)
        PROVE  Stacks!OverlapOnlyByCrossing'
    BY <1>3, <1>4 DEF Stacks!Begin, Stacks!TypeOK, Stacks!Ask
  <1>5. ASSUME NEW a \in Twins, NEW p \in Pair, Stacks!AskPeer(a, p) PROVE Stacks!OverlapOnlyByCrossing'
    BY <1>3, <1>5 DEF Stacks!AskPeer, Stacks!TypeOK, Stacks!Ask, Stacks!Goes
  <1>6. ASSUME NEW a \in Twins,
               Stacks!DeletesOnlyTheName(a) \/ Stacks!LookHere(a) \/ Stacks!Tell(a) \/ Stacks!Launch(a) \/ Stacks!Finish(a)
                   \/ Stacks!Drop(a) \/ Stacks!Forget(a) \/ Stacks!Spread(a)
        PROVE  Stacks!OverlapOnlyByCrossing'
    <2>1. \E stage : Stacks!Goes(a, stage)
      BY <1>6 DEF Stacks!DeletesOnlyTheName, Stacks!LookHere, Stacks!Tell, Stacks!Launch, Stacks!Finish, Stacks!Drop, Stacks!Forget, Stacks!Spread
    <2>2. /\ crossed' = crossed
          /\ UNCHANGED run \/ run' = [run EXCEPT ![ask[a].at] = None]
      BY <1>6 DEF Stacks!DeletesOnlyTheName, Stacks!LookHere, Stacks!Tell, Stacks!Launch, Stacks!Finish, Stacks!Drop, Stacks!Forget, Stacks!Spread
    <2>3. QED
      BY <1>3, <2>1, <2>2, StacksGoesOn DEF Stacks!TypeOK
  <1>7. ASSUME NEW a \in Twins, Stacks!Check(a) \/ Stacks!Settle(a) \/ Stacks!TearDown(a) PROVE Stacks!OverlapOnlyByCrossing'
    BY <1>3, <1>7 DEF Stacks!Check, Stacks!Settle, Stacks!TearDown, Stacks!TypeOK, Stacks!Ask, Stacks!Goes
  <1>8. ASSUME NEW a \in Twins, NEW l \in ask[a].doomed, Stacks!DestroyOne(a, l) PROVE Stacks!OverlapOnlyByCrossing'
    BY <1>3, <1>8 DEF Stacks!DestroyOne, Stacks!TypeOK, Stacks!Ask
  <1>9. QED
    BY <1>1, <1>2, <1>4, <1>5, <1>6, <1>7, <1>8 DEF Stacks!Next

-----------------------------------------------------------------------------
(* One value of the secret, while nothing goes wrong.                          *)

\* Nothing that went wrong is taken back, and no deletion either.
LEMMA StacksCalmBefore ==
    ASSUME Stacks!StackAssumption, Stacks!TypeOK, [Stacks!Next]_(Stacks!vars), Stacks!Calm'
    PROVE  /\ Stacks!Calm
           /\ UNCHANGED s8 /\ UNCHANGED s7
           /\ \A a \in Twins : s4'[a].to # "none" => s4'[a].kind \notin Stacks!Deleting
  <1> DEFINE ask == s4  raced == s7  trouble == s8
  <1> DEFINE On == /\ trouble' = trouble \/ trouble' = trouble + 1
                   /\ raced \subseteq raced'
                   /\ \A b \in Twins : ask[b].to # "none" =>
                          ask'[b].to # "none" /\ ask'[b].kind = ask[b].kind
  <1>1. ASSUME UNCHANGED Stacks!vars PROVE On
    BY <1>1 DEF Stacks!vars
  <1>2. ASSUME NEW a \in Twins, NEW m \in Pair, NEW kind \in Stacks!Kinds, Stacks!Begin(a, m, kind) PROVE On
    BY <1>2 DEF Stacks!Begin, Stacks!TypeOK, Stacks!Ask
  <1>3. ASSUME NEW a \in Twins, NEW p \in Pair, Stacks!AskPeer(a, p) PROVE On
    BY <1>3 DEF Stacks!AskPeer, Stacks!TypeOK, Stacks!Ask, Stacks!Goes, Stacks!Mishap
  <1>4. ASSUME NEW a \in Twins, NEW l \in ask[a].doomed, Stacks!DestroyOne(a, l) PROVE On
    BY <1>4 DEF Stacks!DestroyOne, Stacks!TypeOK, Stacks!Ask, Stacks!Mishap
  <1>5. ASSUME NEW a \in Twins,
               Stacks!DeletesOnlyTheName(a) \/ Stacks!LookHere(a) \/ Stacks!Tell(a) \/ Stacks!Start(a) \/ Stacks!Launch(a) \/ Stacks!Finish(a)
                   \/ Stacks!Drop(a) \/ Stacks!Forget(a) \/ Stacks!Spread(a)
        PROVE  On
    <2>1. \E stage \in Stacks!Stage \ {"none"} : Stacks!Goes(a, stage)
      BY <1>5 DEF Stacks!DeletesOnlyTheName, Stacks!LookHere, Stacks!Tell, Stacks!Start, Stacks!Launch, Stacks!Finish, Stacks!Drop, Stacks!Forget, Stacks!Spread,
                  Stacks!AfterRun, Stacks!Stage
    <2>2. raced' = raced /\ (UNCHANGED trouble \/ Stacks!Mishap)
      BY <1>5 DEF Stacks!DeletesOnlyTheName, Stacks!LookHere, Stacks!Tell, Stacks!Start, Stacks!Launch, Stacks!Finish, Stacks!Drop, Stacks!Forget, Stacks!Spread
    <2>3. QED
      BY <2>1, <2>2, StacksGoesOn DEF Stacks!Mishap
  <1>6. ASSUME NEW a \in Twins, Stacks!Check(a) \/ Stacks!Settle(a) \/ Stacks!TearDown(a) PROVE On
    BY <1>6 DEF Stacks!Check, Stacks!Settle, Stacks!TearDown, Stacks!TypeOK, Stacks!Ask, Stacks!Goes
  <1>7. On
    BY <1>1, <1>2, <1>3, <1>4, <1>5, <1>6 DEF Stacks!Next
  <1>8. trouble = 0 /\ trouble' = 0
    BY <1>7 DEF Stacks!Calm, Stacks!TypeOK
  <1>9. QED
    BY <1>7, <1>8 DEF Stacks!Calm

-----------------------------------------------------------------------------
\* A step that keeps the secrets, makes no instance and only moves requests on.
LEMMA StacksValueKept ==
    ASSUME Stacks!StackAssumption, Stacks!TypeOK, Stacks!AsksFit, NEW w \in Stacks!Values, Stacks!OneValue(w), NEW a \in Twins,
           NEW stage \in {"dropping", "asking", "refused", "checked", "going", "ending", "over"},
           UNCHANGED s2, s5' \subseteq s5,
           \A b \in Twins \ {a} : s4'[b] = s4[b],
           s4'[a].to \in {s4[a].to, stage},
           s4'[a].at = s4[a].at, s4'[a].kind = s4[a].kind, s4'[a].value = s4[a].value,
           s4[a].to = "telling" => s4'[a].to = "telling",
           s4'[a].to \in {"asking", "checked"} => s4[a].to \in {"begun", "asking", "checked"},
           s4'[a].to = "going" => s4[a].to \in {"starting", "going"}
    PROVE  Stacks!OneValue(w)'
  BY DEF Stacks!OneValue, Stacks!Unsaid

LEMMA StacksValueStep ==
    ASSUME Stacks!StackAssumption, Stacks!TypeOK, Stacks!AsksFit, [Stacks!Next]_(Stacks!vars), Stacks!Calm', NEW w \in Stacks!Values, Stacks!OneValue(w)
    PROVE  \E v \in Stacks!Values : Stacks!OneValue(v)'
  <1> DEFINE secret == s2  ask == s4  instances == s5  raced == s7  trouble == s8
  <1>0. /\ Stacks!Calm /\ UNCHANGED trouble /\ UNCHANGED raced /\ Stacks!TypeOK'
        /\ \A a \in Twins : ask'[a].to # "none" => ask'[a].kind \notin Stacks!Deleting
    BY StacksCalmBefore, StacksTypeStep
  <1>1. CASE UNCHANGED Stacks!vars
    BY <1>1 DEF Stacks!OneValue, Stacks!Unsaid, Stacks!vars
  <1>2. ASSUME NEW a \in Twins, NEW m \in Pair, NEW kind \in Stacks!Kinds, Stacks!Begin(a, m, kind)
        PROVE  Stacks!OneValue(w)'
    <2>1. /\ \A b \in Twins \ {a} : ask'[b] = ask[b]
          /\ ask'[a].at = m /\ ask'[a].kind = kind /\ ask'[a].to = "begun"
          /\ kind \in Stacks!Launching => ask'[a].value = secret[m]
          /\ ask[a].to = "none" /\ secret' = secret /\ instances' = instances
      BY <1>2 DEF Stacks!Begin, Stacks!TypeOK, Stacks!Ask
    <2>2. CASE kind \in Stacks!Launching /\ secret[m] = None
      <3>1. \A b \in Twins \ {a} : ~Stacks!Unsaid(b)
        BY <1>0, <1>2, <2>2 DEF Stacks!Begin, Stacks!Calm
      <3>2. ask[a].to # "telling" /\ \A b \in Twins : ask[b].to = "telling" => Stacks!Unsaid(b)
        BY <2>1 DEF Stacks!AsksFit, Stacks!Unsaid
      <3>3. secret[m] = w
        BY <2>2, <3>1, <3>2 DEF Stacks!OneValue
      <3>4. QED
        BY <2>1, <2>2, <3>1, <3>3 DEF Stacks!OneValue, Stacks!Unsaid
    <2>3. CASE kind \in Stacks!Launching /\ secret[m] # None
      <3>1. secret[m] = w /\ w # a
        BY <2>1, <2>3 DEF Stacks!OneValue
      <3>2. QED
        BY <2>1, <2>3, <3>1 DEF Stacks!OneValue, Stacks!Unsaid
    <2>4. CASE kind \notin Stacks!Launching
      BY <2>1, <2>4 DEF Stacks!OneValue, Stacks!Unsaid
    <2>5. QED
      BY <2>2, <2>3, <2>4
  <1>3. ASSUME NEW a \in Twins, Stacks!DeletesOnlyTheName(a) \/ Stacks!LookHere(a) PROVE Stacks!OneValue(w)'
    <2>1. \E stage \in {"dropping", "asking", "refused"} : Stacks!Goes(a, stage)
      BY <1>3 DEF Stacks!DeletesOnlyTheName, Stacks!LookHere
    <2>2. secret' = secret /\ instances' = instances /\ ask[a].to = "begun"
      BY <1>3 DEF Stacks!DeletesOnlyTheName, Stacks!LookHere
    <2>3. QED
      BY <2>1, <2>2, StacksGoesOn, StacksValueKept
  <1>4. ASSUME NEW a \in Twins, NEW p \in Pair, Stacks!AskPeer(a, p) PROVE Stacks!OneValue(w)'
    <2>1. /\ secret' = secret /\ instances' = instances /\ ask[a].to = "asking"
          /\ \A b \in Twins \ {a} : ask'[b] = ask[b]
          /\ ask'[a].to \in {"asking", "refused"} /\ ask'[a].at = ask[a].at
          /\ ask'[a].kind = ask[a].kind /\ ask'[a].value = ask[a].value
      BY <1>4 DEF Stacks!AskPeer, Stacks!TypeOK, Stacks!Ask, Stacks!Goes
    <2>2. QED
      BY <2>1, StacksValueKept
  <1>5. ASSUME NEW a \in Twins, Stacks!Check(a) PROVE Stacks!OneValue(w)'
    <2>1. /\ secret' = secret /\ instances' = instances /\ ask[a].to = "asking"
          /\ \A b \in Twins \ {a} : ask'[b] = ask[b]
          /\ ask'[a].to \in {"checked", "refused"} /\ ask'[a].at = ask[a].at
          /\ ask'[a].kind = ask[a].kind /\ ask'[a].value = ask[a].value
      BY <1>5 DEF Stacks!Check, Stacks!TypeOK, Stacks!Ask, Stacks!Goes
    <2>2. QED
      BY <2>1, StacksValueKept
  <1>6. ASSUME NEW a \in Twins, Stacks!Settle(a) PROVE \E v \in Stacks!Values : Stacks!OneValue(v)'
    <2>1. CASE ask[a].kind \in Stacks!Launching /\ ask[a].value = None
      <3>1. /\ secret' = [secret EXCEPT ![ask[a].at] = a] /\ instances' = instances
            /\ \A b \in Twins \ {a} : ask'[b] = ask[b]
            /\ ask[a].to = "checked" /\ ask'[a].to = "telling" /\ ask'[a].at = ask[a].at
            /\ ask'[a].kind = ask[a].kind /\ ask'[a].value = a
        BY <1>6, <2>1 DEF Stacks!Settle, Stacks!TypeOK, Stacks!Ask
      <3>2. w = None /\ Stacks!Unsaid(a)
        BY <2>1, <3>1 DEF Stacks!OneValue, Stacks!Unsaid
      <3>3. \A b \in Twins \ {a} :
               /\ ~Stacks!Unsaid(b)
               /\ ask[b].to # "telling"
               /\ ask[b].kind \in Stacks!Launching =>
                      ask[b].to \notin {"begun", "asking", "checked", "starting", "going"}
        BY <3>2 DEF Stacks!OneValue, Stacks!Unsaid, Stacks!AsksFit
      <3>4. instances = {} /\ (\A m \in Pair : secret[m] = None)
        BY <3>2, <3>3 DEF Stacks!OneValue
      <3>5. Stacks!OneValue(a)'
        <4>1. ask[a].at \in Pair /\ a \in Stacks!Values /\ a # None
          BY DEF Stacks!TypeOK, Stacks!Ask, Stacks!Values, Stacks!StackAssumption
        <4>2. \A m \in Pair : secret'[m] = IF m = ask[a].at THEN a ELSE None
          BY <3>1, <3>4 DEF Stacks!TypeOK
        <4>3. \A b, c \in Twins : (Stacks!Unsaid(b) /\ Stacks!Unsaid(c) => b = c)'
          BY <3>1, <3>3 DEF Stacks!Unsaid
        <4>4. \A b \in Twins \ {a} :
                  /\ ask'[b].to # "telling"
                  /\ ask'[b].kind \in Stacks!Launching =>
                        ask'[b].to \notin {"begun", "asking", "checked", "starting", "going"}
          BY <3>1, <3>3
        <4>5. instances' = {} /\ secret'[ask'[a].at] = a
          BY <3>1, <3>4, <4>1, <4>2
        <4>6. QED
          BY <3>1, <4>1, <4>2, <4>3, <4>4, <4>5 DEF Stacks!OneValue
      <3>6. QED
        BY <3>5 DEF Stacks!Values
    <2>2. CASE ~(ask[a].kind \in Stacks!Launching /\ ask[a].value = None)
      <3>1. /\ Stacks!Goes(a, "starting") /\ secret' = secret /\ instances' = instances
            /\ ask[a].to = "checked"
        BY <1>6, <2>2 DEF Stacks!Settle
      <3>2. Stacks!OneValue(w)'
        BY <2>2, <3>1, StacksGoesOn DEF Stacks!OneValue, Stacks!Unsaid
      <3>3. QED
        BY <3>2
    <2>3. QED
      BY <2>1, <2>2
  <1>7. ASSUME NEW a \in Twins, Stacks!Tell(a) PROVE Stacks!OneValue(w)'
    <2>1. /\ Stacks!Goes(a, "starting") /\ ask[a].to = "telling" /\ instances' = instances
          /\ ask[a].kind \in Stacks!Launching /\ ask[a].value = a /\ ask[a].at \in Pair
      BY <1>7 DEF Stacks!Tell, Stacks!AsksFit, Stacks!TypeOK, Stacks!Ask
    <2>2. w = a /\ secret[ask[a].at] = a /\ w # None
      BY <2>1 DEF Stacks!OneValue, Stacks!StackAssumption
    <2>3. \A m \in Pair : secret'[m] = w
      <3>1. PICK heard \in SUBSET Stacks!Peers(a) :
               /\ IF heard = Stacks!Peers(a) THEN UNCHANGED trouble ELSE Stacks!Mishap
               /\ secret' = [m \in Pair |-> IF m \in heard THEN secret[ask[a].at] ELSE secret[m]]
        BY <1>7 DEF Stacks!Tell
      <3>2. heard = Stacks!Peers(a)
        BY <1>0, <3>1 DEF Stacks!Mishap, Stacks!TypeOK
      <3>3. QED
        BY <2>2, <3>1, <3>2 DEF Stacks!Peers
    <2>4. QED
      BY <2>1, <2>2, <2>3, StacksGoesOn DEF Stacks!OneValue, Stacks!Unsaid
  <1>8. ASSUME NEW a \in Twins, Stacks!Start(a) PROVE Stacks!OneValue(w)'
    <2>1. \E stage \in {"going", "refused"} : Stacks!Goes(a, stage)
      BY <1>8 DEF Stacks!Start
    <2>2. secret' = secret /\ instances' = instances /\ ask[a].to = "starting"
      BY <1>8 DEF Stacks!Start
    <2>3. QED
      BY <2>1, <2>2, StacksGoesOn, StacksValueKept
  <1>9. ASSUME NEW a \in Twins, NEW l \in ask[a].doomed, Stacks!DestroyOne(a, l) PROVE Stacks!OneValue(w)'
    <2>1. /\ secret' = secret /\ instances' \subseteq instances /\ ask[a].to \in {"going", "ending"}
          /\ \A b \in Twins \ {a} : ask'[b] = ask[b]
          /\ ask'[a].to = ask[a].to /\ ask'[a].at = ask[a].at
          /\ ask'[a].kind = ask[a].kind /\ ask'[a].value = ask[a].value
      BY <1>9 DEF Stacks!DestroyOne, Stacks!TypeOK, Stacks!Ask
    <2>2. QED
      BY <2>1, StacksValueKept
  <1>10. ASSUME NEW a \in Twins, Stacks!Launch(a) PROVE Stacks!OneValue(w)'
    <2>1. /\ Stacks!Goes(a, "ending") /\ ask[a].to = "going" /\ secret' = secret
          /\ ask[a].kind \in Stacks!Launching /\ \A i \in instances' : i \in instances \/ i.with = ask[a].value
      BY <1>10, StacksLaunchMakes DEF Stacks!Launch
    <2>2. ask[a].value = w /\ w # None
      BY <2>1 DEF Stacks!OneValue
    <2>3. QED
      BY <2>1, <2>2, StacksGoesOn DEF Stacks!OneValue, Stacks!Unsaid
  <1>11. ASSUME NEW a \in Twins, Stacks!TearDown(a) PROVE Stacks!OneValue(w)'
    <2>1. /\ secret' = secret /\ instances' = instances /\ ask[a].to = "ending"
          /\ \A b \in Twins \ {a} : ask'[b] = ask[b]
          /\ ask'[a].to = "ending" /\ ask'[a].at = ask[a].at
          /\ ask'[a].kind = ask[a].kind /\ ask'[a].value = ask[a].value
      BY <1>11 DEF Stacks!TearDown, Stacks!TypeOK, Stacks!Ask
    <2>2. QED
      BY <2>1, StacksValueKept
  <1>12. ASSUME NEW a \in Twins, Stacks!Finish(a) PROVE Stacks!OneValue(w)'
    <2>1. \E stage \in {"over", "dropping", "refused"} : Stacks!Goes(a, stage)
      BY <1>12 DEF Stacks!Finish, Stacks!AfterRun
    <2>2. secret' = secret /\ instances' = instances /\ ask[a].to \in {"going", "ending"}
      BY <1>12 DEF Stacks!Finish
    <2>3. QED
      BY <2>1, <2>2, StacksGoesOn, StacksValueKept
  <1>13. ASSUME NEW a \in Twins, Stacks!Drop(a) \/ Stacks!Forget(a) \/ Stacks!Spread(a) PROVE Stacks!OneValue(w)'
    <2>1. ask[a].to \in {"dropping", "forgetting", "spreading"} /\ ask[a].kind \in Stacks!Deleting
      BY <1>13 DEF Stacks!Drop, Stacks!Forget, Stacks!Spread, Stacks!AsksFit
    <2>2. QED
      BY <1>0, <2>1 DEF Stacks!Calm
  <1>14. QED
    BY <1>1, <1>2, <1>3, <1>4, <1>5, <1>6, <1>7, <1>8, <1>9, <1>10, <1>11, <1>12, <1>13 DEF Stacks!Next

LEMMA StacksInvInit == ASSUME Stacks!StackAssumption, Stacks!Init PROVE Stacks!StackInv
  <1> DEFINE defined == s1  secret == s2  run == s3  ask == s4  instances == s5  crossed == s6
             raced == s7  trouble == s8
  <1>1. PICK m \in Pair, name \in StackNames :
           /\ defined = Pair
           /\ run = [n \in Pair |-> None]
           /\ ask = [a \in Twins |->
                  [at |-> m, kind |-> "launch", to |-> "none", shown |-> {}, value |-> None,
                   free |-> {}, silent |-> {}, doomed |-> {}, kept |-> {}]]
           /\ \/ secret = [n \in Pair |-> None] /\ instances = {}
              \/ /\ secret = [n \in Pair |-> Before]
                 /\ instances = {[by |-> Before, at |-> m, name |-> name, with |-> Before, swarm |-> FALSE]}
           /\ crossed = {} /\ raced = {} /\ trouble = 0
    BY DEF Stacks!Init
  <1>2. Stacks!TypeOK
    <2>1. ask \in [Twins -> Stacks!Ask]
      BY <1>1 DEF Stacks!Ask, Stacks!Kinds, Stacks!Stage, Stacks!Values
    <2>2. [by |-> Before, at |-> m, name |-> name, with |-> Before, swarm |-> FALSE] \in Stacks!Instance
      BY DEF Stacks!Instance, Stacks!Values
    <2>3. instances \subseteq Stacks!Instance /\ secret \in [Pair -> Stacks!Values]
      BY <1>1, <2>2 DEF Stacks!Values
    <2>4. run \in [Pair -> Twins \cup {None}] /\ trouble \in 0 .. MaxLost
      BY <1>1 DEF Stacks!StackAssumption
    <2>5. defined \subseteq Pair /\ crossed \subseteq Twins \X Twins /\ raced \subseteq Twins
      BY <1>1
    <2>6. QED
      BY <2>1, <2>3, <2>4, <2>5 DEF Stacks!TypeOK
  <1>3. Stacks!AsksFit /\ Stacks!DeletionsFit /\ Stacks!OverlapOnlyByCrossing /\ Stacks!NamesApart /\ Stacks!OwnAreKnown
    BY <1>1 DEF Stacks!AsksFit, Stacks!DeletionsFit, Stacks!OverlapOnlyByCrossing, Stacks!NamesApart, Stacks!OwnAreKnown
  <1>4. Stacks!MadeByLaunch
    BY <1>1 DEF Stacks!MadeByLaunch, Stacks!StackAssumption
  <1>5. \E w \in Stacks!Values : Stacks!OneValue(w)
    <2>1. CASE secret = [n \in Pair |-> None] /\ instances = {}
      <3>1. Stacks!OneValue(None)
        BY <1>1, <2>1 DEF Stacks!OneValue, Stacks!Unsaid, Stacks!StackAssumption
      <3>2. QED
        BY <3>1 DEF Stacks!Values
    <2>2. CASE /\ secret = [n \in Pair |-> Before]
               /\ instances = {[by |-> Before, at |-> m, name |-> name, with |-> Before, swarm |-> FALSE]}
      <3>1. Stacks!OneValue(Before)
        BY <1>1, <2>2 DEF Stacks!OneValue, Stacks!Unsaid, Stacks!StackAssumption
      <3>2. QED
        BY <3>1 DEF Stacks!Values
    <2>3. QED
      BY <1>1, <2>1, <2>2
  <1>6. QED
    BY <1>2, <1>3, <1>4, <1>5 DEF Stacks!StackInv

LEMMA StacksInvStep == ASSUME Stacks!StackAssumption, Stacks!StackInv, [Stacks!Next]_(Stacks!vars) PROVE Stacks!StackInv'
  <1>1. /\ Stacks!TypeOK' /\ Stacks!AsksFit' /\ Stacks!MadeByLaunch' /\ Stacks!DeletionsFit' /\ Stacks!OverlapOnlyByCrossing'
        /\ Stacks!NamesApart' /\ Stacks!OwnAreKnown'
    BY StacksTypeStep, StacksAsksStep, StacksMadeStep, StacksDeletionsStep, StacksOverlapStep, StacksNamesStep, StacksKnownStep DEF Stacks!StackInv
  <1>2. ASSUME Stacks!Calm' PROVE \E w \in Stacks!Values : Stacks!OneValue(w)'
    <2>1. Stacks!Calm
      BY <1>2, StacksCalmBefore DEF Stacks!StackInv
    <2>2. PICK w \in Stacks!Values : Stacks!OneValue(w)
      BY <2>1 DEF Stacks!StackInv
    <2>3. QED
      BY <1>2, <2>2, StacksValueStep DEF Stacks!StackInv
  <1>3. (Stacks!Calm => \E w \in Stacks!Values : Stacks!OneValue(w))'
    BY <1>2 DEF Stacks!Values
  <1>4. QED
    BY <1>1, <1>3 DEF Stacks!StackInv

LEMMA StacksInvGives == Stacks!StackInv => Stacks!StackHolds
  BY DEF Stacks!StackInv, Stacks!StackHolds, Stacks!OneValue, Stacks!OnePassword, Stacks!DeletionsFit, Stacks!DeletedIsDestroyed

\* Only a destruction takes an instance away, and it has it on its list.
LEMMA StacksInvTakes == ASSUME Stacks!StackAssumption, Stacks!StackInv, [Stacks!Next]_(Stacks!vars) PROVE Stacks!ShownOrOwn
  <1> DEFINE ask == s4  instances == s5
  <1> DEFINE Takes(i, a) ==
            /\ Stacks!Label(i) \in ask[a].doomed /\ Stacks!Label(i) \notin ask'[a].doomed
            /\ i \in ask[a].shown \/ (i.by # a /\ Stacks!Replaces(i, a))
            /\ ask[a].kind = "swarm" => \A j \in ask[a].shown : j.by = a
  <1>0. Stacks!ShownOrOwn <=> \A i \in instances \ instances' : \E a \in Twins : Takes(i, a)
    BY DEF Stacks!ShownOrOwn
  <1>1. SUFFICES ASSUME NEW i \in instances \ instances' PROVE \E a \in Twins : Takes(i, a)
    BY <1>0
  <1>2. PICK a \in Twins : \E l \in ask[a].doomed : Stacks!DestroyOne(a, l)
    <2>1. \A a \in Twins : ~(Stacks!Launch(a) \/ Stacks!TearDown(a) \/ Stacks!Finish(a) \/ Stacks!Drop(a) \/ Stacks!Forget(a) \/ Stacks!Spread(a))
      BY <1>1 DEF Stacks!Launch, Stacks!TearDown, Stacks!Finish, Stacks!Drop, Stacks!Forget, Stacks!Spread
    <2>2. \A a \in Twins : ~(Stacks!DeletesOnlyTheName(a) \/ Stacks!LookHere(a) \/ Stacks!Check(a) \/ Stacks!Settle(a) \/ Stacks!Tell(a) \/ Stacks!Start(a))
      BY <1>1 DEF Stacks!DeletesOnlyTheName, Stacks!LookHere, Stacks!Check, Stacks!Settle, Stacks!Tell, Stacks!Start
    <2>5. \A a \in Twins, m \in Pair : ~Stacks!AskPeer(a, m)
      BY <1>1 DEF Stacks!AskPeer
    <2>6. \A a \in Twins, m \in Pair, kind \in Stacks!Kinds : ~Stacks!Begin(a, m, kind)
      BY <1>1 DEF Stacks!Begin
    <2>3. ~UNCHANGED Stacks!vars
      BY <1>1 DEF Stacks!vars
    <2>4. QED
      BY <2>1, <2>2, <2>3, <2>5, <2>6 DEF Stacks!Next
  <1>3. /\ Stacks!Label(i) \in ask[a].doomed /\ Stacks!Label(i) \notin ask'[a].doomed
        /\ ask[a].to \in {"going", "ending"}
    BY <1>1, <1>2 DEF Stacks!DestroyOne, Stacks!Bearer, Stacks!StackInv, Stacks!TypeOK, Stacks!Ask
  <1>4. PICK j \in ask[a].shown : Stacks!Label(j) = Stacks!Label(i)
    BY <1>3 DEF Stacks!StackInv, Stacks!AsksFit, Stacks!LabelsOf
  <1>5. i \in ask[a].shown \/ Stacks!Replaces(i, a)
    BY <1>1, <1>4 DEF Stacks!Replaces, Stacks!StackInv, Stacks!NamesApart
  <1>6. i.by = a => i \in ask[a].shown
    <2>1. SUFFICES ASSUME i.by = a PROVE i \in ask[a].shown
      OBVIOUS
    <2>2. ask[a].to = "ending"
      BY <1>1, <1>3, <2>1 DEF Stacks!StackInv, Stacks!MadeByLaunch
    <2>3. ask[a].kind = "swarm"
      BY <1>3, <2>2 DEF Stacks!StackInv, Stacks!AsksFit
    <2>4. QED
      BY <1>1, <1>3, <2>1, <2>3 DEF Stacks!StackInv, Stacks!OwnAreKnown
  <1>7. QED
    BY <1>2, <1>3, <1>5, <1>6 DEF Stacks!StackInv, Stacks!AsksFit

-----------------------------------------------------------------------------
(* Runs over a template's instances.                                         *)
LEMMA TemplateRunsNamesAreNumbers ==
    ASSUME TemplateRuns!NamesAssumption, TemplateRuns!TypeOK
    PROVE  /\ \A n \in Pair : TemplateRuns!NamesOn(n) \subseteq Nat
           /\ \A free \in SUBSET ShareNames : \A k : TemplateRuns!Lowest(free, k) \subseteq Nat
  <1> DEFINE instances == s1
  <1>1. \A n \in Pair : \A i \in instances[n] : i.name \in Nat
    BY DEF TemplateRuns!TypeOK, TemplateRuns!Instance
  <1>2. \A free \in SUBSET ShareNames : \A k : TemplateRuns!Lowest(free, k) \subseteq free
    BY DEF TemplateRuns!Lowest
  <1>3. QED
    BY <1>1, <1>2 DEF TemplateRuns!NamesAssumption, TemplateRuns!NamesOn

LEMMA TemplateRunsOpIs ==
    ASSUME TemplateRuns!TypeOK, NEW c \in Pair, s3[c] # TemplateRuns!Resting
    PROVE  /\ s3[c] \in TemplateRuns!Asked
           /\ s3[c].at \in {"shown", "checked", "run"}
  BY DEF TemplateRuns!TypeOK, TemplateRuns!Asked

LEMMA TemplateRunsRestIs == TemplateRuns!Resting.at = "rest"
  BY DEF TemplateRuns!Resting

\* A share goes on: what it is of, and the other shares, stay.
LEMMA TemplateRunsBecomesIs ==
    ASSUME TemplateRuns!TypeOK, NEW s \in s4, NEW t \in TemplateRuns!Shares, TemplateRuns!Becomes(s, t)
    PROVE  s4' \subseteq TemplateRuns!Shares /\ t \in s4' /\ \A r \in s4' : r = t \/ r \in s4 \ {s}
  BY DEF TemplateRuns!TypeOK, TemplateRuns!Becomes

LEMMA TemplateRunsTypeStep == ASSUME TemplateRuns!NamesAssumption, TemplateRuns!TypeOK, [TemplateRuns!Next]_(TemplateRuns!runVars) PROVE TemplateRuns!TypeOK'
  <1> DEFINE instances == s1  run == s2  op == s3  shares == s4  ops == s5  trouble == s6
  <1>1. CASE UNCHANGED TemplateRuns!runVars
    BY <1>1 DEF TemplateRuns!TypeOK, TemplateRuns!runVars
  <1>2. ASSUME NEW c \in Pair, NEW action \in {"destroy", "recreate"}, TemplateRuns!Destructive(c, action)
        PROVE TemplateRuns!TypeOK'
    <2>1. [at |-> "shown", id |-> ops', action |-> action, want |-> [n \in Pair |-> TemplateRuns!NamesOn(n)]] \in TemplateRuns!Asked
      BY <1>2, TemplateRunsNamesAreNumbers DEF TemplateRuns!Asked, TemplateRuns!Actions, TemplateRuns!Destructive, TemplateRuns!TypeOK
    <2>2. QED
      BY <1>2, <2>1 DEF TemplateRuns!Destructive, TemplateRuns!TypeOK
  <1>3. ASSUME NEW c \in Pair, NEW targets \in SUBSET Pair, TemplateRuns!Launch(c, targets) PROVE TemplateRuns!TypeOK'
    <2>1. PICK name \in TemplateRuns!SharedNames(targets) :
             op' = [op EXCEPT ![c] = [at |-> "checked", id |-> ops', action |-> "launch",
                       want |-> [n \in Pair |-> IF n \in targets THEN {name[n]} ELSE {}]]]
      BY <1>3 DEF TemplateRuns!Launch
    <2>2. \A n \in targets : name[n] \in Nat
      BY TemplateRunsNamesAreNumbers DEF TemplateRuns!SharedNames
    <2>3. [at |-> "checked", id |-> ops', action |-> "launch",
           want |-> [n \in Pair |-> IF n \in targets THEN {name[n]} ELSE {}]] \in TemplateRuns!Asked
      BY <1>3, <2>2 DEF TemplateRuns!Asked, TemplateRuns!Actions, TemplateRuns!Launch, TemplateRuns!TypeOK
    <2>4. QED
      <3>1. ops' = ops + 1 /\ UNCHANGED <<instances, run, shares, trouble>>
        BY <1>3 DEF TemplateRuns!Launch
      <3>2. op' \in [Pair -> {TemplateRuns!Resting} \cup TemplateRuns!Asked]
        BY <2>1, <2>3 DEF TemplateRuns!TypeOK
      <3>3. QED
        BY <3>1, <3>2 DEF TemplateRuns!TypeOK
  <1>4. ASSUME NEW c \in Pair, TemplateRuns!Check(c) PROVE TemplateRuns!TypeOK'
    <2>1. op[c] \in TemplateRuns!Asked
      BY <1>4, TemplateRunsOpIs, TemplateRunsRestIs DEF TemplateRuns!Check
    <2>2. [op[c] EXCEPT !.at = "checked"] \in TemplateRuns!Asked
      BY <2>1 DEF TemplateRuns!Asked
    <2>3. QED
      BY <1>4, <2>2 DEF TemplateRuns!Check, TemplateRuns!TypeOK
  <1>5. ASSUME NEW c \in Pair, TemplateRuns!Track(c) PROVE TemplateRuns!TypeOK'
    <2>1. op[c] \in TemplateRuns!Asked
      BY <1>5, TemplateRunsOpIs, TemplateRunsRestIs DEF TemplateRuns!Track
    <2>2. [op[c] EXCEPT !.at = "run"] \in TemplateRuns!Asked /\ op[c].id \in Nat
      BY <2>1 DEF TemplateRuns!Asked
    <2>3. \A n \in Pair : TemplateRuns!Share(c, n) \in TemplateRuns!Shares
      BY <2>1 DEF TemplateRuns!Share, TemplateRuns!Shares, TemplateRuns!Asked
    <2>4. CASE run[c].live
      BY <1>5, <2>4 DEF TemplateRuns!Track, TemplateRuns!TypeOK
    <2>5. CASE ~run[c].live
      <3>1. [of |-> op[c].id, live |-> TRUE] \in [of : Nat, live : BOOLEAN]
        BY <2>2
      <3>2. run' \in [Pair -> [of : Nat, live : BOOLEAN]] /\ shares' \subseteq TemplateRuns!Shares
        <4>1. /\ run' = [run EXCEPT ![c] = [of |-> op[c].id, live |-> TRUE]]
              /\ shares' = shares \cup {TemplateRuns!Share(c, n) : n \in {m \in Pair : op[c].want[m] # {}}}
          BY <1>5, <2>5 DEF TemplateRuns!Track
        <4>2. run' \in [Pair -> [of : Nat, live : BOOLEAN]]
          BY <3>1, <4>1 DEF TemplateRuns!TypeOK
        <4>3. shares' \subseteq TemplateRuns!Shares
          BY <2>3, <4>1 DEF TemplateRuns!TypeOK
        <4>4. QED
          BY <4>2, <4>3
      <3>3. QED
        BY <1>5, <2>2, <2>5, <3>2 DEF TemplateRuns!Track, TemplateRuns!TypeOK
    <2>6. QED
      BY <2>4, <2>5
  <1>6. ASSUME NEW c \in Pair, TemplateRuns!OpEnds(c) PROVE TemplateRuns!TypeOK'
    BY <1>6 DEF TemplateRuns!OpEnds, TemplateRuns!TypeOK
  <1>7. ASSUME NEW s \in shares, TemplateRuns!ShareArrives(s) PROVE TemplateRuns!TypeOK'
    <2>1. [s EXCEPT !.at = IF TemplateRuns!Confirmed(s) THEN "track" ELSE "over"] \in TemplateRuns!Shares
      BY DEF TemplateRuns!TypeOK, TemplateRuns!Shares
    <2>2. QED
      BY <1>7, <2>1, TemplateRunsBecomesIs DEF TemplateRuns!ShareArrives, TemplateRuns!TypeOK
  <1>8. ASSUME NEW s \in shares, TemplateRuns!ShareTracked(s) PROVE TemplateRuns!TypeOK'
    <2>1. /\ [s EXCEPT !.at = "confirm"] \in TemplateRuns!Shares /\ [s EXCEPT !.at = "over"] \in TemplateRuns!Shares
          /\ s.id \in Nat
      BY DEF TemplateRuns!TypeOK, TemplateRuns!Shares
    <2>2. shares' \subseteq TemplateRuns!Shares
      BY <1>8, <2>1, TemplateRunsBecomesIs DEF TemplateRuns!ShareTracked
    <2>3. QED
      <3>1. [of |-> s.id, live |-> TRUE] \in [of : Nat, live : BOOLEAN]
        BY <2>1
      <3>2. run' \in [Pair -> [of : Nat, live : BOOLEAN]]
        BY <1>8, <3>1 DEF TemplateRuns!ShareTracked, TemplateRuns!TypeOK
      <3>3. QED
        BY <1>8, <2>2, <3>2 DEF TemplateRuns!ShareTracked, TemplateRuns!TypeOK
  <1>9. ASSUME NEW s \in shares, TemplateRuns!ShareBegins(s) PROVE TemplateRuns!TypeOK'
    <2>1. TemplateRuns!Picked(s) \subseteq Nat
      BY TemplateRunsNamesAreNumbers DEF TemplateRuns!Picked, TemplateRuns!TypeOK, TemplateRuns!Shares
    <2>2. /\ [s EXCEPT !.at = "work", !.names = TemplateRuns!Picked(s), !.left = TemplateRuns!Picked(s)] \in TemplateRuns!Shares
          /\ [s EXCEPT !.at = "work", !.left = {}] \in TemplateRuns!Shares
      BY <2>1 DEF TemplateRuns!TypeOK, TemplateRuns!Shares
    <2>3. shares' \subseteq TemplateRuns!Shares
      BY <1>9, <2>2, TemplateRunsBecomesIs DEF TemplateRuns!ShareBegins
    <2>4. QED
      BY <1>9, <2>3 DEF TemplateRuns!ShareBegins, TemplateRuns!TypeOK
  <1>10. ASSUME NEW s \in shares, TemplateRuns!ShareEnds(s) PROVE TemplateRuns!TypeOK'
    <2>1. [s EXCEPT !.at = "over"] \in TemplateRuns!Shares
      BY DEF TemplateRuns!TypeOK, TemplateRuns!Shares
    <2>2. shares' \subseteq TemplateRuns!Shares
      BY <1>10, <2>1, TemplateRunsBecomesIs DEF TemplateRuns!ShareEnds
    <2>3. QED
      BY <1>10, <2>2 DEF TemplateRuns!ShareEnds, TemplateRuns!TypeOK
  <1>11. ASSUME NEW s \in shares, TemplateRuns!ShareHeard(s) PROVE TemplateRuns!TypeOK'
    BY <1>11 DEF TemplateRuns!ShareHeard, TemplateRuns!TypeOK
  <1>12. ASSUME NEW s \in shares, TemplateRuns!PollFails(s) PROVE TemplateRuns!TypeOK'
    <2>1. [s EXCEPT !.awaited = FALSE] \in TemplateRuns!Shares
      BY DEF TemplateRuns!TypeOK, TemplateRuns!Shares
    <2>2. QED
      BY <1>12, <2>1, TemplateRunsBecomesIs DEF TemplateRuns!PollFails, TemplateRuns!TypeOK
  <1>13. ASSUME NEW s \in shares, NEW name \in s.left \cup s.gone,
                TemplateRuns!Remove(s, name) \/ TemplateRuns!RemoveFails(s, name) \/ TemplateRuns!Make(s, name) \/ TemplateRuns!MakeFails(s, name)
         PROVE  TemplateRuns!TypeOK'
    <2>0. name \in Nat /\ s \in TemplateRuns!Shares /\ s.id \in Nat /\ s.node \in Pair
      BY DEF TemplateRuns!TypeOK, TemplateRuns!Shares
    <2>1. /\ [s EXCEPT !.left = @ \ {name}, !.ok = @ \cup {name}] \in TemplateRuns!Shares
          /\ [s EXCEPT !.left = @ \ {name}, !.gone = @ \cup {name}] \in TemplateRuns!Shares
          /\ [s EXCEPT !.left = @ \ {name}] \in TemplateRuns!Shares
          /\ [s EXCEPT !.left = @ \ {name}, !.gone = @ \ {name}] \in TemplateRuns!Shares
          /\ \A x \in BOOLEAN : [s EXCEPT !.left = @ \ {name}, !.gone = @ \ {name},
                                 !.ok = IF x THEN @ \cup {name} ELSE @] \in TemplateRuns!Shares
      BY <2>0 DEF TemplateRuns!Shares
    <2>2. CASE TemplateRuns!Remove(s, name)
      <3>1. shares' \subseteq TemplateRuns!Shares
        BY <2>1, <2>2, TemplateRunsBecomesIs DEF TemplateRuns!Remove
      <3>2. QED
        BY <2>2, <3>1 DEF TemplateRuns!Remove, TemplateRuns!TypeOK
    <2>3. CASE TemplateRuns!RemoveFails(s, name)
      <3>1. shares' \subseteq TemplateRuns!Shares
        BY <2>1, <2>3, TemplateRunsBecomesIs DEF TemplateRuns!RemoveFails
      <3>2. QED
        BY <2>3, <3>1 DEF TemplateRuns!RemoveFails, TemplateRuns!TypeOK
    <2>4. CASE TemplateRuns!Make(s, name)
      <3>1. shares' \subseteq TemplateRuns!Shares
        BY <2>1, <2>4, TemplateRunsBecomesIs DEF TemplateRuns!Make
      <3>2. [name |-> name, by |-> s.id] \in TemplateRuns!Instance
        BY <2>0 DEF TemplateRuns!Instance
      <3>3. instances' \in [Pair -> SUBSET TemplateRuns!Instance]
        BY <2>0, <2>4, <3>2 DEF TemplateRuns!Make, TemplateRuns!TypeOK
      <3>4. QED
        BY <2>4, <3>1, <3>3 DEF TemplateRuns!Make, TemplateRuns!TypeOK
    <2>5. CASE TemplateRuns!MakeFails(s, name)
      <3>1. shares' \subseteq TemplateRuns!Shares
        BY <2>1, <2>5, TemplateRunsBecomesIs DEF TemplateRuns!MakeFails
      <3>2. QED
        BY <2>5, <3>1 DEF TemplateRuns!MakeFails, TemplateRuns!TypeOK
    <2>6. QED
      BY <1>13, <2>2, <2>3, <2>4, <2>5
  <1>14. ASSUME NEW n \in Pair, NEW name \in ShareNames, TemplateRuns!Appears(n, name) PROVE TemplateRuns!TypeOK'
    <2>1. [name |-> name, by |-> 0] \in TemplateRuns!Instance
      BY DEF TemplateRuns!Instance, TemplateRuns!NamesAssumption
    <2>2. \A s \in TemplateRuns!Shares : [s EXCEPT !.alone = FALSE] \in TemplateRuns!Shares
      BY DEF TemplateRuns!Shares
    <2>3. shares' \subseteq TemplateRuns!Shares
      BY <1>14, <2>2 DEF TemplateRuns!Appears, TemplateRuns!Disturbed, TemplateRuns!TypeOK
    <2>4. QED
      BY <1>14, <2>1, <2>3 DEF TemplateRuns!Appears, TemplateRuns!TypeOK
  <1>15. ASSUME NEW n \in Pair, NEW i \in instances[n], TemplateRuns!Vanishes(n, i) PROVE TemplateRuns!TypeOK'
    <2>2. \A s \in TemplateRuns!Shares : [s EXCEPT !.alone = FALSE] \in TemplateRuns!Shares
      BY DEF TemplateRuns!Shares
    <2>3. shares' \subseteq TemplateRuns!Shares
      BY <1>15, <2>2 DEF TemplateRuns!Vanishes, TemplateRuns!Disturbed, TemplateRuns!TypeOK
    <2>4. QED
      BY <1>15, <2>3 DEF TemplateRuns!Vanishes, TemplateRuns!TypeOK
  <1>16. QED
    BY <1>1, <1>2, <1>3, <1>4, <1>5, <1>6, <1>7, <1>8, <1>9, <1>10, <1>11, <1>12, <1>13, <1>14, <1>15
    DEF TemplateRuns!Next, TemplateRuns!Targets

-----------------------------------------------------------------------------
\* A share that goes on keeps its number, its node and whose it is.
LEMMA TemplateRunsKeepsNumbers ==
    ASSUME TemplateRuns!TypeOK, TemplateRuns!NumbersFit, UNCHANGED <<s3, s5>>, NEW s \in s4, NEW t \in TemplateRuns!Shares, TemplateRuns!Becomes(s, t),
           t.id = s.id, t.of = s.of, t.node = s.node
    PROVE  TemplateRuns!NumbersFit'
  <1> DEFINE shares == s4
  <1>1. \A r \in shares' : \E q \in shares : q.id = r.id /\ q.of = r.of /\ q.node = r.node
    BY DEF TemplateRuns!Becomes
  <1>2. \A r, q \in shares' : r.id = q.id /\ r.node = q.node => r = q
    BY DEF TemplateRuns!NumbersFit, TemplateRuns!Becomes
  <1>3. QED
    BY <1>1, <1>2 DEF TemplateRuns!NumbersFit

LEMMA TemplateRunsKeepsRuns ==
    ASSUME TemplateRuns!TypeOK, TemplateRuns!NumbersFit, TemplateRuns!RunsFit, UNCHANGED <<s3, s2>>, NEW s \in s4, NEW t \in TemplateRuns!Shares, TemplateRuns!Becomes(s, t),
           t.id = s.id, t.of = s.of, t.node = s.node,
           t.awaited = s.awaited \/ t.node # t.of, TemplateRuns!Active(t) => TemplateRuns!Active(s)
    PROVE  TemplateRuns!RunsFit'
  BY DEF TemplateRuns!RunsFit, TemplateRuns!Becomes, TemplateRuns!Active

LEMMA TemplateRunsDisturbedIs ==
    ASSUME TemplateRuns!TypeOK, TemplateRuns!NumbersFit, TemplateRuns!RunsFit, NEW n \in Pair, TemplateRuns!Disturbed(n), UNCHANGED <<s2, s3, s5>>
    PROVE  /\ TemplateRuns!NumbersFit' /\ TemplateRuns!RunsFit'
           /\ \A r \in s4' : \E s \in s4 : r = IF s.node = n THEN [s EXCEPT !.alone = FALSE] ELSE s
  <1> DEFINE shares == s4
  <1>1. \A r \in shares' : \E s \in shares : r = IF s.node = n THEN [s EXCEPT !.alone = FALSE] ELSE s
    BY DEF TemplateRuns!Disturbed
  <1>2. \A s \in shares : LET r == [s EXCEPT !.alone = FALSE]
                         IN  /\ r.id = s.id /\ r.of = s.of /\ r.node = s.node /\ r.at = s.at
                             /\ r.awaited = s.awaited
    BY DEF TemplateRuns!TypeOK, TemplateRuns!Shares
  <1>3. \A r \in shares' : \E s \in shares : /\ r = IF s.node = n THEN [s EXCEPT !.alone = FALSE] ELSE s
                                             /\ r.id = s.id /\ r.of = s.of /\ r.node = s.node
                                             /\ r.at = s.at /\ r.awaited = s.awaited
    BY <1>1, <1>2
  <1>4. TemplateRuns!NumbersFit'
    <2>1. \A q, r \in shares' : q.id = r.id /\ q.node = r.node => q = r
      <3>1. SUFFICES ASSUME NEW q \in shares', NEW r \in shares', q.id = r.id, q.node = r.node
                     PROVE  q = r
        OBVIOUS
      <3>2. PICK s \in shares : /\ q = IF s.node = n THEN [s EXCEPT !.alone = FALSE] ELSE s
                               /\ q.id = s.id /\ q.node = s.node
        BY <1>3
      <3>3. PICK t \in shares : /\ r = IF t.node = n THEN [t EXCEPT !.alone = FALSE] ELSE t
                               /\ r.id = t.id /\ r.node = t.node
        BY <1>3
      <3>4. s = t
        BY <3>1, <3>2, <3>3 DEF TemplateRuns!NumbersFit
      <3>5. QED
        BY <3>2, <3>3, <3>4
    <2>2. QED
      BY <1>3, <2>1 DEF TemplateRuns!NumbersFit
  <1>5. TemplateRuns!RunsFit'
    BY <1>3 DEF TemplateRuns!RunsFit, TemplateRuns!Active
  <1>6. QED
    BY <1>1, <1>4, <1>5

\* The recorded run is live, and the one at work; so a node has one share at work.
LEMMA TemplateRunsRecordIs ==
    ASSUME TemplateRuns!NumbersFit, TemplateRuns!RunsFit
    PROVE  /\ \A c \in Pair : s3[c].at = "run" => s2[c].live /\ s2[c].of = s3[c].id
           /\ \A s \in s4 : TemplateRuns!Active(s) => s2[s.node].live /\ s2[s.node].of = s.id
           /\ \A s, t \in s4 : TemplateRuns!Active(s) /\ TemplateRuns!Active(t) /\ s.node = t.node => s = t
  <1> DEFINE run == s2  op == s3  shares == s4
  <1>1. \A x : [of |-> x, live |-> TRUE].live /\ [of |-> x, live |-> TRUE].of = x
    OBVIOUS
  <1>2. \A c \in Pair : op[c].at = "run" => run[c].live /\ run[c].of = op[c].id
    <2>1. SUFFICES ASSUME NEW c \in Pair, op[c].at = "run" PROVE run[c].live /\ run[c].of = op[c].id
      OBVIOUS
    <2>2. run[c] = [of |-> op[c].id, live |-> TRUE]
      BY <2>1 DEF TemplateRuns!RunsFit
    <2>3. QED
      BY <1>1, <2>2
  <1>3. \A s \in shares : TemplateRuns!Active(s) => run[s.node].live /\ run[s.node].of = s.id
    <2>1. SUFFICES ASSUME NEW s \in shares, TemplateRuns!Active(s) PROVE run[s.node].live /\ run[s.node].of = s.id
      OBVIOUS
    <2>2. run[s.node] = [of |-> s.id, live |-> TRUE]
      BY <2>1 DEF TemplateRuns!RunsFit
    <2>3. QED
      BY <1>1, <2>2
  <1>4. \A s, t \in shares : TemplateRuns!Active(s) /\ TemplateRuns!Active(t) /\ s.node = t.node => s = t
    <2>1. SUFFICES ASSUME NEW s \in shares, NEW t \in shares, TemplateRuns!Active(s), TemplateRuns!Active(t), s.node = t.node
                   PROVE  s = t
      OBVIOUS
    <2>2. s.id = t.id
      BY <1>3, <2>1
    <2>3. QED
      BY <2>1, <2>2 DEF TemplateRuns!NumbersFit
  <1>5. QED
    BY <1>2, <1>3, <1>4

\* What the four steps of a run's work make of a share.
LEMMA TemplateRunsDoneIs ==
    ASSUME TemplateRuns!TypeOK, NEW s \in s4, NEW name \in s.left \cup s.gone,
           TemplateRuns!Remove(s, name) \/ TemplateRuns!RemoveFails(s, name) \/ TemplateRuns!Make(s, name) \/ TemplateRuns!MakeFails(s, name)
    PROVE  \E left, gone, ok \in SUBSET Nat : TemplateRuns!Becomes(s, [s EXCEPT !.left = left, !.gone = gone, !.ok = ok])
  <1>1. /\ name \in Nat /\ s \in TemplateRuns!Shares /\ s.left \in SUBSET Nat /\ s.gone \in SUBSET Nat
        /\ s.ok \in SUBSET Nat
    BY DEF TemplateRuns!TypeOK, TemplateRuns!Shares
  <1>2. /\ s.left \ {name} \in SUBSET Nat /\ s.gone \ {name} \in SUBSET Nat
        /\ s.gone \cup {name} \in SUBSET Nat /\ s.ok \cup {name} \in SUBSET Nat
    BY <1>1
  <1>3. SUFFICES \E left, gone, ok \in SUBSET Nat : \E t : /\ TemplateRuns!Becomes(s, t)
                     /\ t = [s EXCEPT !.left = left, !.gone = gone, !.ok = ok]
    OBVIOUS
  <1>4. CASE TemplateRuns!Remove(s, name)
    <2>1. CASE TemplateRuns!Becomes(s, [s EXCEPT !.left = s.left \ {name}, !.ok = s.ok \cup {name}])
      <3>1. [s EXCEPT !.left = s.left \ {name}, !.ok = s.ok \cup {name}]
               = [s EXCEPT !.left = s.left \ {name}, !.gone = s.gone, !.ok = s.ok \cup {name}]
        BY <1>1 DEF TemplateRuns!Shares
      <3>2. QED
        BY <1>1, <1>2, <2>1, <3>1
    <2>2. CASE TemplateRuns!Becomes(s, [s EXCEPT !.left = s.left \ {name}, !.gone = s.gone \cup {name}])
      <3>1. [s EXCEPT !.left = s.left \ {name}, !.gone = s.gone \cup {name}]
               = [s EXCEPT !.left = s.left \ {name}, !.gone = s.gone \cup {name}, !.ok = s.ok]
        BY <1>1 DEF TemplateRuns!Shares
      <3>2. QED
        BY <1>1, <1>2, <2>2, <3>1
    <2>3. QED
      BY <1>4, <2>1, <2>2 DEF TemplateRuns!Remove
  <1>5. CASE TemplateRuns!RemoveFails(s, name)
    <2>1. [s EXCEPT !.left = s.left \ {name}]
             = [s EXCEPT !.left = s.left \ {name}, !.gone = s.gone, !.ok = s.ok]
      BY <1>1 DEF TemplateRuns!Shares
    <2>2. TemplateRuns!Becomes(s, [s EXCEPT !.left = s.left \ {name}])
      BY <1>5 DEF TemplateRuns!RemoveFails
    <2>3. QED
      BY <1>1, <1>2, <2>1, <2>2
  <1>6. CASE TemplateRuns!Make(s, name)
    <2>1. \/ TemplateRuns!Becomes(s, [s EXCEPT !.left = s.left \ {name}, !.gone = s.gone \ {name}, !.ok = s.ok])
          \/ TemplateRuns!Becomes(s, [s EXCEPT !.left = s.left \ {name}, !.gone = s.gone \ {name},
                                 !.ok = s.ok \cup {name}])
      BY <1>6 DEF TemplateRuns!Make
    <2>2. QED
      BY <1>1, <1>2, <2>1
  <1>7. CASE TemplateRuns!MakeFails(s, name)
    <2>1. [s EXCEPT !.left = s.left \ {name}, !.gone = s.gone \ {name}]
             = [s EXCEPT !.left = s.left \ {name}, !.gone = s.gone \ {name}, !.ok = s.ok]
      BY <1>1 DEF TemplateRuns!Shares
    <2>2. TemplateRuns!Becomes(s, [s EXCEPT !.left = s.left \ {name}, !.gone = s.gone \ {name}])
      BY <1>7 DEF TemplateRuns!MakeFails
    <2>3. QED
      BY <1>1, <1>2, <2>1, <2>2
  <1>8. QED
    BY <1>4, <1>5, <1>6, <1>7

LEMMA TemplateRunsRunsStep ==
    ASSUME TemplateRuns!NamesAssumption, TemplateRuns!TypeOK, TemplateRuns!NumbersFit, TemplateRuns!RunsFit, [TemplateRuns!Next]_(TemplateRuns!runVars)
    PROVE  TemplateRuns!NumbersFit' /\ TemplateRuns!RunsFit'
  <1> DEFINE instances == s1  run == s2  op == s3  shares == s4  ops == s5
  <1>1. CASE UNCHANGED TemplateRuns!runVars
    BY <1>1 DEF TemplateRuns!NumbersFit, TemplateRuns!RunsFit, TemplateRuns!Active, TemplateRuns!runVars
  <1>2. ASSUME NEW c \in Pair, op[c] = TemplateRuns!Resting, ops' = ops + 1, UNCHANGED <<run, shares>>,
               NEW o \in TemplateRuns!Asked, o.at \in {"shown", "checked"}, o.id = ops', op' = [op EXCEPT ![c] = o]
        PROVE  TemplateRuns!NumbersFit' /\ TemplateRuns!RunsFit'
    <2>1. \A d \in Pair : op'[d] = IF d = c THEN o ELSE op[d]
      BY <1>2 DEF TemplateRuns!TypeOK
    <2>2. o # TemplateRuns!Resting /\ \A d \in Pair : op[d] # TemplateRuns!Resting => op[d].id \in Nat
      BY <1>2, TemplateRunsOpIs DEF TemplateRuns!Resting, TemplateRuns!Asked
    <2>3. \A s \in shares : s.id \in Nat /\ s.id # o.id
      BY <1>2 DEF TemplateRuns!NumbersFit, TemplateRuns!TypeOK, TemplateRuns!Shares
    <2>4. TemplateRuns!NumbersFit'
      BY <1>2, <2>1, <2>2, <2>3 DEF TemplateRuns!NumbersFit, TemplateRuns!TypeOK
    <2>5. TemplateRuns!RunsFit'
      BY <1>2, <2>1, TemplateRunsRestIs DEF TemplateRuns!RunsFit, TemplateRuns!Active, TemplateRuns!TypeOK
    <2>6. QED
      BY <2>4, <2>5
  <1>3. ASSUME NEW c \in Pair, NEW action \in {"destroy", "recreate"}, TemplateRuns!Destructive(c, action)
        PROVE  TemplateRuns!NumbersFit' /\ TemplateRuns!RunsFit'
    <2>1. [at |-> "shown", id |-> ops', action |-> action, want |-> [n \in Pair |-> TemplateRuns!NamesOn(n)]] \in TemplateRuns!Asked
      BY <1>3, TemplateRunsNamesAreNumbers DEF TemplateRuns!Asked, TemplateRuns!Actions, TemplateRuns!Destructive, TemplateRuns!TypeOK
    <2>2. QED
      BY <1>2, <1>3, <2>1 DEF TemplateRuns!Destructive
  <1>4. ASSUME NEW c \in Pair, NEW targets \in SUBSET Pair, TemplateRuns!Launch(c, targets)
        PROVE  TemplateRuns!NumbersFit' /\ TemplateRuns!RunsFit'
    <2>1. PICK name \in TemplateRuns!SharedNames(targets) :
             op' = [op EXCEPT ![c] = [at |-> "checked", id |-> ops', action |-> "launch",
                       want |-> [n \in Pair |-> IF n \in targets THEN {name[n]} ELSE {}]]]
      BY <1>4 DEF TemplateRuns!Launch
    <2>2. \A n \in targets : name[n] \in Nat
      BY TemplateRunsNamesAreNumbers DEF TemplateRuns!SharedNames
    <2>3. [at |-> "checked", id |-> ops', action |-> "launch",
           want |-> [n \in Pair |-> IF n \in targets THEN {name[n]} ELSE {}]] \in TemplateRuns!Asked
      BY <1>4, <2>2 DEF TemplateRuns!Asked, TemplateRuns!Actions, TemplateRuns!Launch, TemplateRuns!TypeOK
    <2>4. op[c] = TemplateRuns!Resting /\ ops' = ops + 1 /\ UNCHANGED <<run, shares>>
      BY <1>4 DEF TemplateRuns!Launch
    <2>5. QED
      BY <1>2, <2>1, <2>3, <2>4
  <1>5. ASSUME NEW c \in Pair, op[c].at \in {"shown", "checked"}, UNCHANGED <<run, shares, ops>>,
               op'[c] = TemplateRuns!Resting \/ (op'[c].id = op[c].id /\ op'[c].at # "run"),
               \A d \in Pair \ {c} : op'[d] = op[d]
        PROVE  TemplateRuns!NumbersFit' /\ TemplateRuns!RunsFit'
    <2>1. op[c] # TemplateRuns!Resting /\ TemplateRuns!Resting.at # "run" /\ \A s \in shares : s.of \in Pair
      BY <1>5, TemplateRunsRestIs DEF TemplateRuns!TypeOK, TemplateRuns!Shares
    <2>2. \A s \in shares : s.id # op[c].id
      BY <1>5, <2>1 DEF TemplateRuns!NumbersFit
    <2>3. TemplateRuns!NumbersFit'
      BY <1>5, <2>1, <2>2 DEF TemplateRuns!NumbersFit
    <2>4. \A d \in Pair : op'[d].at = "run" => d # c
      BY <1>5, <2>1
    <2>5. \A s \in shares : s.node = s.of => s.of # c
      BY <1>5 DEF TemplateRuns!RunsFit
    <2>6. TemplateRuns!RunsFit'
      BY <1>5, <2>1, <2>4, <2>5 DEF TemplateRuns!RunsFit, TemplateRuns!Active
    <2>7. QED
      BY <2>3, <2>6
  <1>6. ASSUME NEW c \in Pair, TemplateRuns!Check(c) PROVE TemplateRuns!NumbersFit' /\ TemplateRuns!RunsFit'
    <2>1. op[c] \in TemplateRuns!Asked
      BY <1>6, TemplateRunsOpIs, TemplateRunsRestIs DEF TemplateRuns!Check
    <2>2. /\ op'[c] = TemplateRuns!Resting \/ op'[c] = [op[c] EXCEPT !.at = "checked"]
          /\ \A d \in Pair \ {c} : op'[d] = op[d]
          /\ op[c].at = "shown" /\ UNCHANGED <<run, shares, ops>>
      BY <1>6 DEF TemplateRuns!Check, TemplateRuns!TypeOK
    <2>3. [op[c] EXCEPT !.at = "checked"].id = op[c].id /\ [op[c] EXCEPT !.at = "checked"].at # "run"
      BY <2>1 DEF TemplateRuns!Asked
    <2>4. QED
      BY <1>5, <2>2, <2>3
  <1>7. ASSUME NEW c \in Pair, TemplateRuns!Track(c) PROVE TemplateRuns!NumbersFit' /\ TemplateRuns!RunsFit'
    <2>1. op[c] \in TemplateRuns!Asked /\ op[c] # TemplateRuns!Resting
      BY <1>7, TemplateRunsOpIs, TemplateRunsRestIs DEF TemplateRuns!Track
    <2>2. CASE run[c].live
      BY <1>5, <1>7, <2>2 DEF TemplateRuns!Track, TemplateRuns!TypeOK
    <2>3. CASE ~run[c].live
      <3>1. /\ op[c].at = "checked"
            /\ run' = [run EXCEPT ![c] = [of |-> op[c].id, live |-> TRUE]]
            /\ shares' = shares \cup {TemplateRuns!Share(c, n) : n \in {m \in Pair : op[c].want[m] # {}}}
            /\ op' = [op EXCEPT ![c].at = "run"] /\ ops' = ops
        BY <1>7, <2>3 DEF TemplateRuns!Track
      <3>2. /\ op'[c].at = "run" /\ op'[c].id = op[c].id /\ op'[c] # TemplateRuns!Resting
            /\ \A d \in Pair \ {c} : op'[d] = op[d]
        BY <2>1, <3>1, TemplateRunsRestIs DEF TemplateRuns!TypeOK, TemplateRuns!Asked
      <3>3. /\ run'[c] = [of |-> op[c].id, live |-> TRUE] /\ run[c] # [of |-> op[c].id, live |-> TRUE]
            /\ \A d \in Pair \ {c} : run'[d] = run[d]
        <4>1. run'[c] = [of |-> op[c].id, live |-> TRUE] /\ \A d \in Pair \ {c} : run'[d] = run[d]
          BY <3>1 DEF TemplateRuns!TypeOK
        <4>2. [of |-> op[c].id, live |-> TRUE].live
          OBVIOUS
        <4>3. QED
          BY <2>3, <4>1, <4>2
      <3>4. \A n \in Pair :
               /\ TemplateRuns!Share(c, n).id = op[c].id /\ TemplateRuns!Share(c, n).of = c
               /\ TemplateRuns!Share(c, n).node = n /\ TemplateRuns!Share(c, n).awaited
               /\ TemplateRuns!Active(TemplateRuns!Share(c, n)) => n = c
        BY DEF TemplateRuns!Share, TemplateRuns!Active
      <3>5. \A s \in shares : s.id # op[c].id /\ (TemplateRuns!Active(s) => s.node # c) /\ s.node \in Pair /\ s.of \in Pair
        <4>1. \A s \in shares : s.node \in Pair /\ s.of \in Pair
          BY DEF TemplateRuns!TypeOK, TemplateRuns!Shares
        <4>2. \A s \in shares : s.id # op[c].id
          BY <2>1, <3>1 DEF TemplateRuns!NumbersFit
        <4>3. \A s \in shares : TemplateRuns!Active(s) => s.node # c
          BY <2>3, TemplateRunsRecordIs
        <4>4. QED
          BY <4>1, <4>2, <4>3
      <3>6. \A s \in shares' : s \in shares \/ \E n \in Pair : s = TemplateRuns!Share(c, n)
        BY <3>1
      <3>7. \A s, t \in shares' : s.id = t.id /\ s.node = t.node => s = t
        <4>1. SUFFICES ASSUME NEW s \in shares', NEW t \in shares', s.id = t.id, s.node = t.node
                       PROVE  s = t
          OBVIOUS
        <4>2. CASE s \in shares /\ t \in shares
          BY <4>1, <4>2 DEF TemplateRuns!NumbersFit
        <4>3. ASSUME NEW q \in shares', NEW u \in shares', q.id = u.id, q.node = u.node, q \notin shares
              PROVE  q = u
          <5>1. PICK n \in Pair : q = TemplateRuns!Share(c, n)
            BY <3>6, <4>3
          <5>2. q.id = op[c].id /\ q.node = n
            BY <3>4, <5>1
          <5>3. u \notin shares
            BY <3>5, <4>3, <5>2
          <5>4. PICK m \in Pair : u = TemplateRuns!Share(c, m)
            BY <3>6, <4>3, <5>3
          <5>5. u.node = m
            BY <3>4, <5>4
          <5>6. QED
            BY <4>3, <5>1, <5>2, <5>4, <5>5
        <4>4. QED
          BY <4>1, <4>2, <4>3
      <3>8. TemplateRuns!NumbersFit'
        <4>1. \A d \in Pair : op'[d] # TemplateRuns!Resting => op[d] # TemplateRuns!Resting /\ op'[d].id = op[d].id
          BY <2>1, <3>2
        <4>2. \A d, e \in Pair : op'[d] # TemplateRuns!Resting =>
                 op'[d].id <= ops /\ (op'[e] # TemplateRuns!Resting /\ op'[d].id = op'[e].id => d = e)
          BY <4>1 DEF TemplateRuns!NumbersFit
        <4>3. \A s \in shares : s.id <= ops /\ \A d \in Pair :
                 op'[d] # TemplateRuns!Resting /\ op'[d].id = s.id => s.of = d /\ op'[d].at = "run"
          BY <3>2, <4>1 DEF TemplateRuns!NumbersFit
        <4>4. \A n \in Pair : TemplateRuns!Share(c, n).id <= ops /\ \A d \in Pair :
                 op'[d] # TemplateRuns!Resting /\ op'[d].id = TemplateRuns!Share(c, n).id => TemplateRuns!Share(c, n).of = d /\ op'[d].at = "run"
          <5>1. op[c].id <= ops /\ \A d \in Pair : op[d] # TemplateRuns!Resting /\ op[d].id = op[c].id => d = c
            BY <2>1 DEF TemplateRuns!NumbersFit
          <5>2. QED
            BY <3>2, <3>4, <4>1, <5>1
        <4>5. \A s \in shares' : s.id <= ops /\ \A d \in Pair :
                 op'[d] # TemplateRuns!Resting /\ op'[d].id = s.id => s.of = d /\ op'[d].at = "run"
          BY <3>6, <4>3, <4>4
        <4>6. QED
          BY <3>1, <3>7, <4>2, <4>5 DEF TemplateRuns!NumbersFit
      <3>9. \A s \in shares : s.node = s.of => s.of # c
        BY <3>1 DEF TemplateRuns!RunsFit
      <3>10. \A d \in Pair : op'[d].at = "run" => run'[d] = [of |-> op'[d].id, live |-> TRUE]
        BY <3>2, <3>3 DEF TemplateRuns!RunsFit
      <3>11. \A s \in shares :
                /\ TemplateRuns!Active(s) => run'[s.node] = [of |-> s.id, live |-> TRUE]
                /\ s.node = s.of => s.awaited /\ op'[s.of].at = "run" /\ op'[s.of].id = s.id
        <4>1. SUFFICES ASSUME NEW s \in shares
                       PROVE  /\ TemplateRuns!Active(s) => run'[s.node] = [of |-> s.id, live |-> TRUE]
                              /\ s.node = s.of => s.awaited /\ op'[s.of].at = "run" /\ op'[s.of].id = s.id
          OBVIOUS
        <4>2. TemplateRuns!Active(s) => run'[s.node] = [of |-> s.id, live |-> TRUE]
          BY <3>3, <3>5 DEF TemplateRuns!RunsFit
        <4>3. s.node = s.of => s.awaited /\ op'[s.of].at = "run" /\ op'[s.of].id = s.id
          <5>1. SUFFICES ASSUME s.node = s.of PROVE s.awaited /\ op'[s.of].at = "run" /\ op'[s.of].id = s.id
            OBVIOUS
          <5>2. s.of \in Pair \ {c}
            BY <3>5, <3>9, <5>1
          <5>3. op'[s.of] = op[s.of]
            BY <3>2, <5>2
          <5>4. QED
            BY <5>1, <5>3 DEF TemplateRuns!RunsFit
        <4>4. QED
          BY <4>2, <4>3
      <3>12. \A n \in Pair :
                /\ TemplateRuns!Active(TemplateRuns!Share(c, n)) => run'[n] = [of |-> TemplateRuns!Share(c, n).id, live |-> TRUE]
                /\ op'[TemplateRuns!Share(c, n).of].at = "run" /\ op'[TemplateRuns!Share(c, n).of].id = TemplateRuns!Share(c, n).id
        <4>1. SUFFICES ASSUME NEW n \in Pair
                       PROVE  /\ TemplateRuns!Active(TemplateRuns!Share(c, n)) => run'[n] = [of |-> TemplateRuns!Share(c, n).id, live |-> TRUE]
                              /\ op'[TemplateRuns!Share(c, n).of].at = "run" /\ op'[TemplateRuns!Share(c, n).of].id = TemplateRuns!Share(c, n).id
          OBVIOUS
        <4>2. TemplateRuns!Share(c, n).id = op[c].id /\ TemplateRuns!Share(c, n).of = c /\ (TemplateRuns!Active(TemplateRuns!Share(c, n)) => n = c)
          BY <3>4
        <4>3. QED
          BY <3>2, <3>3, <4>2
      <3>13. TemplateRuns!RunsFit'
        <4>1. ASSUME NEW s \in shares'
              PROVE  /\ TemplateRuns!Active(s) => run'[s.node] = [of |-> s.id, live |-> TRUE]
                     /\ s.node = s.of => s.awaited /\ op'[s.of].at = "run" /\ op'[s.of].id = s.id
          <5>1. CASE s \in shares
            BY <3>11, <5>1
          <5>2. ASSUME NEW n \in Pair, s = TemplateRuns!Share(c, n)
                PROVE  /\ TemplateRuns!Active(s) => run'[s.node] = [of |-> s.id, live |-> TRUE]
                       /\ s.node = s.of => s.awaited /\ op'[s.of].at = "run" /\ op'[s.of].id = s.id
            <6>1. s.node = n /\ s.awaited
              BY <3>4, <5>2
            <6>2. QED
              BY <3>12, <5>2, <6>1
          <5>3. QED
            BY <3>6, <5>1, <5>2
        <4>2. QED
          BY <3>10, <4>1 DEF TemplateRuns!RunsFit, TemplateRuns!Active
      <3>14. QED
        BY <3>8, <3>13
    <2>4. QED
      BY <2>2, <2>3
  <1>8. ASSUME NEW c \in Pair, TemplateRuns!OpEnds(c) PROVE TemplateRuns!NumbersFit' /\ TemplateRuns!RunsFit'
    <2>1. /\ op[c].at = "run" /\ shares' = shares /\ ops' = ops
          /\ \A s \in shares : ~(s.of = c /\ s.id = op[c].id /\ s.awaited)
          /\ op'[c] = TemplateRuns!Resting /\ \A d \in Pair \ {c} : op'[d] = op[d] /\ run'[d] = run[d]
      BY <1>8 DEF TemplateRuns!OpEnds, TemplateRuns!TypeOK
    <2>2. op[c] # TemplateRuns!Resting /\ TemplateRuns!Resting.at # "run" /\ \A s \in shares : s.of \in Pair /\ s.node \in Pair
      BY <2>1, TemplateRunsRestIs DEF TemplateRuns!TypeOK, TemplateRuns!Shares
    <2>3. \A s \in shares : s.node = s.of => s.of # c
      BY <2>1 DEF TemplateRuns!RunsFit
    <2>4. \A s \in shares : TemplateRuns!Active(s) => s.node # c
      <3>1. SUFFICES ASSUME NEW s \in shares, TemplateRuns!Active(s), s.node = c PROVE FALSE
        OBVIOUS
      <3>2. run[c].of = op[c].id /\ run[c].of = s.id
        <4>1. run[c] = [of |-> op[c].id, live |-> TRUE] /\ run[c] = [of |-> s.id, live |-> TRUE]
          BY <2>1, <3>1 DEF TemplateRuns!RunsFit
        <4>2. QED
          BY <4>1
      <3>3. s.of = c
        BY <2>2, <3>2 DEF TemplateRuns!NumbersFit
      <3>4. QED
        BY <2>3, <3>1, <3>3
    <2>5. TemplateRuns!NumbersFit'
      BY <2>1, <2>2 DEF TemplateRuns!NumbersFit
    <2>6. TemplateRuns!RunsFit'
      BY <2>1, <2>2, <2>3, <2>4 DEF TemplateRuns!RunsFit, TemplateRuns!Active
    <2>7. QED
      BY <2>5, <2>6
  <1>9. ASSUME NEW s \in shares, TemplateRuns!ShareArrives(s) PROVE TemplateRuns!NumbersFit' /\ TemplateRuns!RunsFit'
    <2>1. PICK t \in {[s EXCEPT !.at = "track"], [s EXCEPT !.at = "over"]} : TemplateRuns!Becomes(s, t)
      BY <1>9 DEF TemplateRuns!ShareArrives
    <2>2. /\ t \in TemplateRuns!Shares /\ t.id = s.id /\ t.of = s.of /\ t.node = s.node
          /\ t.awaited = s.awaited /\ ~TemplateRuns!Active(t)
      BY DEF TemplateRuns!TypeOK, TemplateRuns!Shares, TemplateRuns!Active
    <2>3. QED
      BY <1>9, <2>1, <2>2, TemplateRunsKeepsNumbers, TemplateRunsKeepsRuns DEF TemplateRuns!ShareArrives
  <1>10. ASSUME NEW s \in shares, TemplateRuns!ShareTracked(s) PROVE TemplateRuns!NumbersFit' /\ TemplateRuns!RunsFit'
    <2>0. s \in TemplateRuns!Shares /\ s.node \in Pair /\ s.of \in Pair
      BY DEF TemplateRuns!TypeOK, TemplateRuns!Shares
    <2>1. CASE TemplateRuns!FreeFor(s.node)
      <3> DEFINE t == [s EXCEPT !.at = "confirm"]
      <3>1. /\ t \in TemplateRuns!Shares /\ t.id = s.id /\ t.of = s.of /\ t.node = s.node
            /\ t.awaited = s.awaited
        BY <2>0 DEF TemplateRuns!Shares
      <3>2. /\ TemplateRuns!Becomes(s, t) /\ run' = [run EXCEPT ![s.node] = [of |-> s.id, live |-> TRUE]]
            /\ UNCHANGED <<op, ops>> /\ ~run[s.node].live
        BY <1>10, <2>1 DEF TemplateRuns!ShareTracked, TemplateRuns!FreeFor
      <3> HIDE DEF t
      <3>3. TemplateRuns!NumbersFit'
        BY <3>1, <3>2, TemplateRunsKeepsNumbers
      <3>4. \A r \in shares' : r = t \/ (r \in shares /\ (TemplateRuns!Active(r) => r.node # s.node))
        BY <3>2, TemplateRunsRecordIs DEF TemplateRuns!Becomes
      <3>5. \A c \in Pair : op[c].at = "run" => c # s.node
        BY <3>2, TemplateRunsRecordIs
      <3>6. TemplateRuns!RunsFit'
        <4>1. run'[s.node] = [of |-> s.id, live |-> TRUE] /\ \A n \in Pair \ {s.node} : run'[n] = run[n]
          BY <2>0, <3>2 DEF TemplateRuns!TypeOK
        <4>2. \A c \in Pair : op'[c].at = "run" => run'[c] = [of |-> op'[c].id, live |-> TRUE]
          BY <3>2, <3>5, <4>1 DEF TemplateRuns!RunsFit
        <4>3. \A r \in shares : r.node \in Pair
          BY DEF TemplateRuns!TypeOK, TemplateRuns!Shares
        <4>4. \A r \in shares' : TemplateRuns!Active(r) => run'[r.node] = [of |-> r.id, live |-> TRUE]
          BY <3>1, <3>4, <4>1, <4>3 DEF TemplateRuns!RunsFit
        <4>5. \A r \in shares' :
                 r.node = r.of => r.awaited /\ op'[r.of].at = "run" /\ op'[r.of].id = r.id
          <5>1. s.node = s.of => s.awaited /\ op'[s.of].at = "run" /\ op'[s.of].id = s.id
            BY <3>2 DEF TemplateRuns!RunsFit
          <5>2. \A r \in shares : r.node = r.of => r.awaited /\ op'[r.of].at = "run" /\ op'[r.of].id = r.id
            BY <3>2 DEF TemplateRuns!RunsFit
          <5>3. QED
            BY <3>1, <3>4, <5>1, <5>2
        <4>6. QED
          BY <4>2, <4>4, <4>5 DEF TemplateRuns!RunsFit, TemplateRuns!Active
      <3>7. QED
        BY <3>3, <3>6
    <2>2. CASE ~TemplateRuns!FreeFor(s.node)
      <3>1. LET t == [s EXCEPT !.at = "over"]
            IN  /\ t \in TemplateRuns!Shares /\ t.id = s.id /\ t.of = s.of /\ t.node = s.node
                /\ t.awaited = s.awaited /\ ~TemplateRuns!Active(t) /\ TemplateRuns!Becomes(s, t)
        BY <1>10, <2>0, <2>2 DEF TemplateRuns!Shares, TemplateRuns!ShareTracked, TemplateRuns!Active
      <3>2. UNCHANGED <<op, ops, run>>
        BY <1>10, <2>2 DEF TemplateRuns!ShareTracked
      <3>3. QED
        BY <3>1, <3>2, TemplateRunsKeepsNumbers, TemplateRunsKeepsRuns
    <2>3. QED
      BY <2>1, <2>2
  <1>11. ASSUME NEW s \in shares, TemplateRuns!ShareBegins(s) PROVE TemplateRuns!NumbersFit' /\ TemplateRuns!RunsFit'
    <2>1. TemplateRuns!Picked(s) \subseteq Nat
      BY TemplateRunsNamesAreNumbers DEF TemplateRuns!Picked, TemplateRuns!TypeOK, TemplateRuns!Shares
    <2>2. PICK t \in {[s EXCEPT !.at = "work", !.names = TemplateRuns!Picked(s), !.left = TemplateRuns!Picked(s)],
                    [s EXCEPT !.at = "work", !.left = {}]} : TemplateRuns!Becomes(s, t)
      BY <1>11 DEF TemplateRuns!ShareBegins
    <2>3. /\ t \in TemplateRuns!Shares /\ t.id = s.id /\ t.of = s.of /\ t.node = s.node
          /\ t.awaited = s.awaited /\ TemplateRuns!Active(s)
      BY <1>11, <2>1 DEF TemplateRuns!TypeOK, TemplateRuns!Shares, TemplateRuns!Active, TemplateRuns!ShareBegins
    <2>4. QED
      BY <1>11, <2>2, <2>3, TemplateRunsKeepsNumbers, TemplateRunsKeepsRuns DEF TemplateRuns!ShareBegins
  <1>12. ASSUME NEW s \in shares, TemplateRuns!ShareEnds(s) PROVE TemplateRuns!NumbersFit' /\ TemplateRuns!RunsFit'
    <2> DEFINE t == [s EXCEPT !.at = "over"]
    <2>0. s \in TemplateRuns!Shares /\ s.node \in Pair /\ s.of \in Pair /\ TemplateRuns!Active(s)
      BY <1>12 DEF TemplateRuns!TypeOK, TemplateRuns!Shares, TemplateRuns!ShareEnds, TemplateRuns!Through, TemplateRuns!Active
    <2>1. /\ t \in TemplateRuns!Shares /\ t.id = s.id /\ t.of = s.of /\ t.node = s.node
          /\ t.awaited = s.awaited /\ ~TemplateRuns!Active(t)
      BY <2>0 DEF TemplateRuns!Shares, TemplateRuns!Active
    <2>2. /\ TemplateRuns!Becomes(s, t) /\ UNCHANGED <<op, ops>>
          /\ run' = IF s.node = s.of THEN run ELSE [run EXCEPT ![s.node].live = FALSE]
      BY <1>12 DEF TemplateRuns!ShareEnds
    <2> HIDE DEF t
    <2>3. TemplateRuns!NumbersFit'
      BY <2>1, <2>2, TemplateRunsKeepsNumbers
    <2>4. CASE s.node = s.of
      BY <2>1, <2>2, <2>3, <2>4, TemplateRunsKeepsRuns
    <2>5. CASE s.node # s.of
      <3>1. \A r \in shares : TemplateRuns!Active(r) /\ r # s => r.node # s.node
        BY <2>0, TemplateRunsRecordIs
      <3>2. \A c \in Pair : op[c].at = "run" => c # s.node
        <4>1. SUFFICES ASSUME op[s.node].at = "run" PROVE FALSE
          OBVIOUS
        <4>2. run[s.node].of = s.id /\ run[s.node].of = op[s.node].id /\ op[s.node] # TemplateRuns!Resting
          <5>1. /\ run[s.node] = [of |-> s.id, live |-> TRUE]
                /\ run[s.node] = [of |-> op[s.node].id, live |-> TRUE]
            BY <2>0, <4>1 DEF TemplateRuns!RunsFit
          <5>2. op[s.node] # TemplateRuns!Resting
            BY <4>1, TemplateRunsRestIs
          <5>3. QED
            BY <5>1, <5>2
        <4>3. op[s.node].id = s.id => s.of = s.node
          BY <2>0, <4>2 DEF TemplateRuns!NumbersFit
        <4>4. QED
          BY <2>5, <4>2, <4>3
      <3>3. \A n \in Pair \ {s.node} : run'[n] = run[n]
        BY <2>2, <2>5 DEF TemplateRuns!TypeOK
      <3>4. \A r \in shares' : r = t \/ r \in shares \ {s}
        BY <2>2 DEF TemplateRuns!Becomes
      <3>5. \A r \in shares : r.node \in Pair
        BY DEF TemplateRuns!TypeOK, TemplateRuns!Shares
      <3>6. TemplateRuns!RunsFit'
        <4>1. \A c \in Pair : op'[c].at = "run" => run'[c] = [of |-> op'[c].id, live |-> TRUE]
          BY <2>2, <3>2, <3>3 DEF TemplateRuns!RunsFit
        <4>2. \A r \in shares' : TemplateRuns!Active(r) => run'[r.node] = [of |-> r.id, live |-> TRUE]
          BY <2>1, <3>1, <3>3, <3>4, <3>5 DEF TemplateRuns!RunsFit
        <4>3. \A r \in shares' :
                 r.node = r.of => r.awaited /\ op'[r.of].at = "run" /\ op'[r.of].id = r.id
          BY <2>1, <2>2, <2>5, <3>4 DEF TemplateRuns!RunsFit
        <4>4. QED
          BY <4>1, <4>2, <4>3 DEF TemplateRuns!RunsFit, TemplateRuns!Active
      <3>7. QED
        BY <2>3, <3>6
    <2>6. QED
      BY <2>4, <2>5
  <1>13. ASSUME NEW s \in shares, TemplateRuns!ShareHeard(s) PROVE TemplateRuns!NumbersFit' /\ TemplateRuns!RunsFit'
    <2>1. shares' = shares \ {s} /\ UNCHANGED <<run, op, ops>>
      BY <1>13 DEF TemplateRuns!ShareHeard
    <2>2. QED
      BY <2>1 DEF TemplateRuns!NumbersFit, TemplateRuns!RunsFit, TemplateRuns!Active
  <1>14. ASSUME NEW s \in shares, TemplateRuns!PollFails(s) PROVE TemplateRuns!NumbersFit' /\ TemplateRuns!RunsFit'
    <2>1. LET t == [s EXCEPT !.awaited = FALSE]
          IN  /\ t \in TemplateRuns!Shares /\ t.id = s.id /\ t.of = s.of /\ t.node = s.node
              /\ t.node # t.of /\ (TemplateRuns!Active(t) => TemplateRuns!Active(s)) /\ TemplateRuns!Becomes(s, t)
      BY <1>14 DEF TemplateRuns!TypeOK, TemplateRuns!Shares, TemplateRuns!Active, TemplateRuns!PollFails
    <2>2. UNCHANGED <<op, ops, run>>
      BY <1>14 DEF TemplateRuns!PollFails
    <2>3. QED
      BY <2>1, <2>2, TemplateRunsKeepsNumbers, TemplateRunsKeepsRuns
  <1>15. ASSUME NEW s \in shares, NEW name \in s.left \cup s.gone,
                TemplateRuns!Remove(s, name) \/ TemplateRuns!RemoveFails(s, name) \/ TemplateRuns!Make(s, name) \/ TemplateRuns!MakeFails(s, name)
         PROVE  TemplateRuns!NumbersFit' /\ TemplateRuns!RunsFit'
    <2>0. name \in Nat /\ s \in TemplateRuns!Shares /\ TemplateRuns!Active(s) /\ UNCHANGED <<run, op, ops>>
      BY <1>15 DEF TemplateRuns!TypeOK, TemplateRuns!Shares, TemplateRuns!Active, TemplateRuns!Remove, TemplateRuns!RemoveFails, TemplateRuns!Make, TemplateRuns!MakeFails
    <2>1. \E left, gone, ok \in SUBSET Nat : TemplateRuns!Becomes(s, [s EXCEPT !.left = left, !.gone = gone, !.ok = ok])
      BY <1>15, <2>0, TemplateRunsDoneIs
    <2>2. PICK t \in TemplateRuns!Shares : /\ TemplateRuns!Becomes(s, t) /\ t.id = s.id /\ t.of = s.of
                             /\ t.node = s.node /\ t.awaited = s.awaited
      <3>1. \A left, gone, ok \in SUBSET Nat :
               LET u == [s EXCEPT !.left = left, !.gone = gone, !.ok = ok]
               IN  /\ u \in TemplateRuns!Shares /\ u.id = s.id /\ u.of = s.of /\ u.node = s.node /\ u.awaited = s.awaited
        BY <2>0 DEF TemplateRuns!Shares
      <3>2. PICK left \in SUBSET Nat, gone \in SUBSET Nat, ok \in SUBSET Nat :
               TemplateRuns!Becomes(s, [s EXCEPT !.left = left, !.gone = gone, !.ok = ok])
        BY <2>1
      <3> DEFINE u == [s EXCEPT !.left = left, !.gone = gone, !.ok = ok]
      <3>3. u \in TemplateRuns!Shares /\ u.id = s.id /\ u.of = s.of /\ u.node = s.node /\ u.awaited = s.awaited
        BY <3>1
      <3>4. TemplateRuns!Becomes(s, u)
        BY <3>2
      <3> HIDE DEF u
      <3>5. QED
        BY <3>3, <3>4
    <2>3. TemplateRuns!NumbersFit'
      BY <2>0, <2>2, TemplateRunsKeepsNumbers
    <2>4. TemplateRuns!RunsFit'
      BY <2>0, <2>2, TemplateRunsKeepsRuns
    <2>5. QED
      BY <2>3, <2>4
  <1>16. ASSUME NEW n \in Pair, (\E name \in ShareNames : TemplateRuns!Appears(n, name)) \/ (\E i \in instances[n] : TemplateRuns!Vanishes(n, i))
         PROVE  TemplateRuns!NumbersFit' /\ TemplateRuns!RunsFit'
    BY <1>16, TemplateRunsDisturbedIs DEF TemplateRuns!Appears, TemplateRuns!Vanishes
  <1>17. QED
    BY <1>1, <1>3, <1>4, <1>6, <1>7, <1>8, <1>9, <1>10, <1>11, <1>12, <1>13, <1>14, <1>15, <1>16
    DEF TemplateRuns!Next, TemplateRuns!Targets

-----------------------------------------------------------------------------
\* A share on a node where the instances stay as they are fits as it did.
LEMMA TemplateRunsStaysFit ==
    ASSUME TemplateRuns!WorkFits, NEW s \in s4, s.at = "work" => s1'[s.node] = s1[s.node]
    PROVE  TemplateRuns!ShareFits(s)'
  BY DEF TemplateRuns!WorkFits, TemplateRuns!ShareFits, TemplateRuns!NamesOn, TemplateRuns!Made, TemplateRuns!Skipped

\* Only the share at work on its node sees the instances there change.
LEMMA TemplateRunsGoesOnFits ==
    ASSUME TemplateRuns!TypeOK, TemplateRuns!NumbersFit, TemplateRuns!RunsFit, TemplateRuns!WorkFits, NEW s \in s4, NEW t, TemplateRuns!Becomes(s, t), TemplateRuns!ShareFits(t)',
           \/ s1' = s1
           \/ TemplateRuns!Active(s) /\ \A n \in Pair \ {s.node} : s1'[n] = s1[n]
    PROVE  TemplateRuns!WorkFits'
  <1> DEFINE instances == s1  shares == s4
  <1>1. \A r \in shares \ {s} : r.at = "work" => instances'[r.node] = instances[r.node]
    <2>1. \A r \in shares : r.node \in Pair /\ (r.at = "work" => TemplateRuns!Active(r))
      BY DEF TemplateRuns!TypeOK, TemplateRuns!Shares, TemplateRuns!Active
    <2>2. \A r \in shares \ {s} : TemplateRuns!Active(s) /\ TemplateRuns!Active(r) => r.node # s.node
      BY TemplateRunsRecordIs
    <2>3. QED
      BY <2>1, <2>2
  <1>2. \A r \in shares \ {s} : TemplateRuns!ShareFits(r)'
    BY <1>1, TemplateRunsStaysFit
  <1>3. \A r \in shares' : r = t \/ r \in shares \ {s}
    BY DEF TemplateRuns!Becomes
  <1>4. QED
    BY <1>2, <1>3 DEF TemplateRuns!WorkFits

\* A share that does not work yet, or not any more, says nothing of the instances.
LEMMA TemplateRunsIdleFits ==
    ASSUME NEW s \in TemplateRuns!Shares, NEW t \in TemplateRuns!Shares, TemplateRuns!ShareFits(s), t.at # "work",
           t.action = s.action, t.names = s.names, t.gone = s.gone, t.ok = s.ok,
           s.at \in {"work", "over"} => t.at \in {"work", "over"}
    PROVE  TemplateRuns!ShareFits(t)'
  BY DEF TemplateRuns!ShareFits

\* A share's own work, one name at a time.
LEMMA TemplateRunsRemoveFits ==
    ASSUME TemplateRuns!TypeOK, TemplateRuns!WorkFits, NEW s \in s4, NEW name, TemplateRuns!Remove(s, name), NEW t, TemplateRuns!Becomes(s, t),
           t = IF s.action = "destroy"
               THEN [s EXCEPT !.left = @ \ {name}, !.ok = @ \cup {name}]
               ELSE [s EXCEPT !.left = @ \ {name}, !.gone = @ \cup {name}]
    PROVE  TemplateRuns!ShareFits(t)'
  <1> DEFINE instances == s1
  <1>1. s \in TemplateRuns!Shares /\ TemplateRuns!ShareFits(s)
    BY DEF TemplateRuns!TypeOK, TemplateRuns!WorkFits
  <1>2. /\ t.node = s.node /\ t.action = s.action /\ t.names = s.names /\ t.id = s.id
        /\ t.at = "work" /\ t.alone = s.alone /\ t.left = s.left \ {name} /\ name \in s.left
        /\ s.at = "work" /\ s.action # "launch"
    BY <1>1 DEF TemplateRuns!Shares, TemplateRuns!Remove
  <1>3. /\ s.action = "destroy" => t.ok = s.ok \cup {name} /\ t.gone = s.gone
        /\ s.action = "recreate" => t.ok = s.ok /\ t.gone = s.gone \cup {name}
        /\ s.action \in {"destroy", "recreate"}
    BY <1>1, <1>2 DEF TemplateRuns!Shares, TemplateRuns!Actions
  <1>4. instances'[t.node] = {i \in instances[s.node] : i.name # name}
    BY <1>1, <1>2 DEF TemplateRuns!Remove, TemplateRuns!TypeOK, TemplateRuns!Shares
  <1>5. TemplateRuns!NamesOn(t.node)' = TemplateRuns!NamesOn(s.node) \ {name}
    BY <1>4, <1>2 DEF TemplateRuns!NamesOn
  <1>6. ~TemplateRuns!Skipped(s)
    BY <1>2 DEF TemplateRuns!Skipped
  <1>7. CASE s.action = "destroy"
    BY <1>1, <1>2, <1>3, <1>5, <1>6, <1>7 DEF TemplateRuns!ShareFits
  <1>8. CASE s.action = "recreate"
    <2>1. /\ t.ok \cap (t.left \cup t.gone) = {} /\ t.left \cup t.gone \cup t.ok \subseteq t.names
          /\ name \notin s.ok
      BY <1>1, <1>2, <1>3, <1>8 DEF TemplateRuns!ShareFits
    <2>2. \A n : TemplateRuns!Made(s, n) = TemplateRuns!Made(t, n) /\ TemplateRuns!Made(s, n).name = n
      BY <1>2 DEF TemplateRuns!Made
    <2>3. CASE s.alone
      <3>1. /\ TemplateRuns!NamesOn(t.node)' \subseteq t.names \ t.gone
            /\ \A i \in instances'[t.node] : i.name \in t.ok => i = TemplateRuns!Made(t, i.name)
            /\ \A n \in t.ok : TemplateRuns!Made(t, n) \in instances'[t.node]
        BY <1>1, <1>2, <1>3, <1>4, <1>5, <1>6, <1>8, <2>1, <2>2, <2>3 DEF TemplateRuns!ShareFits
      <3>2. QED
        BY <1>1, <1>2, <1>8, <2>1, <3>1 DEF TemplateRuns!ShareFits, TemplateRuns!Made
    <2>4. CASE ~s.alone
      BY <1>1, <1>2, <1>8, <2>1, <2>4 DEF TemplateRuns!ShareFits
    <2>5. QED
      BY <1>1, <2>3, <2>4 DEF TemplateRuns!Shares
  <1>9. QED
    BY <1>3, <1>7, <1>8

LEMMA TemplateRunsMakeFits ==
    ASSUME TemplateRuns!TypeOK, TemplateRuns!WorkFits, NEW s \in s4, NEW name, TemplateRuns!Make(s, name), NEW t, TemplateRuns!Becomes(s, t),
           t = [s EXCEPT !.left = @ \ {name}, !.gone = @ \ {name},
                         !.ok = IF name \notin TemplateRuns!NamesOn(s.node) THEN @ \cup {name} ELSE @]
    PROVE  TemplateRuns!ShareFits(t)'
  <1> DEFINE instances == s1
  <1>1. s \in TemplateRuns!Shares /\ TemplateRuns!ShareFits(s)
    BY DEF TemplateRuns!TypeOK, TemplateRuns!WorkFits
  <1>2. /\ t.node = s.node /\ t.action = s.action /\ t.names = s.names /\ t.id = s.id
        /\ t.at = "work" /\ t.alone = s.alone /\ t.left = s.left \ {name} /\ t.gone = s.gone \ {name}
        /\ t.ok = IF name \notin TemplateRuns!NamesOn(s.node) THEN s.ok \cup {name} ELSE s.ok
        /\ name \in TemplateRuns!ToMake(s) /\ s.at = "work"
    BY <1>1 DEF TemplateRuns!Shares, TemplateRuns!Make
  <1>3. /\ s.action # "launch" => name \in s.gone
        /\ name \in s.left \cup s.gone /\ s.action # "destroy" /\ s.action \in TemplateRuns!Actions
    BY <1>1, <1>2 DEF TemplateRuns!ToMake, TemplateRuns!ShareFits, TemplateRuns!Shares
  <1>4. /\ t.ok \cap (t.left \cup t.gone) = {} /\ t.left \cup t.gone \cup t.ok \subseteq t.names
        /\ t.action # "launch" => t.names # {}
        /\ name \in s.names
    BY <1>1, <1>2, <1>3 DEF TemplateRuns!ShareFits
  <1>5. \A n : TemplateRuns!Made(s, n) = TemplateRuns!Made(t, n) /\ TemplateRuns!Made(s, n).name = n
    BY <1>2 DEF TemplateRuns!Made
  <1>6. s.node \in Pair /\ ~TemplateRuns!Skipped(s)
    BY <1>1, <1>3 DEF TemplateRuns!Shares, TemplateRuns!Skipped
  <1>7. CASE name \notin TemplateRuns!NamesOn(s.node)
    <2>1. instances'[s.node] = instances[s.node] \cup {TemplateRuns!Made(s, name)}
      BY <1>6, <1>7 DEF TemplateRuns!Make, TemplateRuns!TypeOK, TemplateRuns!Made
    <2>2. TemplateRuns!NamesOn(t.node)' = TemplateRuns!NamesOn(s.node) \cup {name}
      <3>1. TemplateRuns!NamesOn(t.node)' = {i.name : i \in instances[s.node] \cup {TemplateRuns!Made(s, name)}}
        BY <1>2, <2>1 DEF TemplateRuns!NamesOn
      <3>2. {i.name : i \in instances[s.node] \cup {TemplateRuns!Made(s, name)}}
               = {i.name : i \in instances[s.node]} \cup {TemplateRuns!Made(s, name).name}
        OBVIOUS
      <3>3. QED
        BY <1>5, <3>1, <3>2 DEF TemplateRuns!NamesOn
    <2>3. \A i \in instances[s.node] : i.name # name
      BY <1>7 DEF TemplateRuns!NamesOn
    <2>4. CASE s.alone
      <3>1. \A n \in t.ok : TemplateRuns!Made(t, n) \in instances'[t.node]
        BY <1>1, <1>2, <1>3, <1>5, <1>7, <2>1, <2>4 DEF TemplateRuns!ShareFits
      <3>2. t.action = "recreate" =>
               /\ TemplateRuns!NamesOn(t.node)' \subseteq t.names \ t.gone
               /\ \A i \in instances'[t.node] : i.name \in t.ok => i = TemplateRuns!Made(t, i.name)
        BY <1>1, <1>2, <1>3, <1>4, <1>5, <1>6, <1>7, <2>1, <2>2, <2>3, <2>4 DEF TemplateRuns!ShareFits
      <3>3. QED
        BY <1>2, <1>3, <1>4, <3>1, <3>2 DEF TemplateRuns!ShareFits, TemplateRuns!Made
    <2>5. CASE ~s.alone
      BY <1>2, <1>3, <1>4, <2>5 DEF TemplateRuns!ShareFits
    <2>6. QED
      BY <1>1, <2>4, <2>5 DEF TemplateRuns!Shares
  <1>8. CASE name \in TemplateRuns!NamesOn(s.node)
    <2>1. instances' = instances
      BY <1>8 DEF TemplateRuns!Make
    <2>2. CASE s.alone
      <3>1. s.action = "launch"
        BY <1>1, <1>2, <1>3, <1>6, <1>8, <2>2 DEF TemplateRuns!ShareFits, TemplateRuns!Actions
      <3>2. \A n \in t.ok : TemplateRuns!Made(t, n) \in instances'[t.node]
        BY <1>1, <1>2, <1>3, <1>5, <1>8, <2>1, <2>2 DEF TemplateRuns!ShareFits
      <3>3. QED
        BY <1>2, <1>3, <1>4, <3>1, <3>2 DEF TemplateRuns!ShareFits, TemplateRuns!Made
    <2>3. CASE ~s.alone
      BY <1>2, <1>3, <1>4, <2>3 DEF TemplateRuns!ShareFits
    <2>4. QED
      BY <1>1, <2>2, <2>3 DEF TemplateRuns!Shares
  <1>9. QED
    BY <1>7, <1>8

LEMMA TemplateRunsFailsFit ==
    ASSUME TemplateRuns!TypeOK, TemplateRuns!WorkFits, NEW s \in s4, NEW name,
           (TemplateRuns!RemoveFails(s, name) /\ s.action # "launch") \/ TemplateRuns!MakeFails(s, name), NEW t,
           t \in {[s EXCEPT !.left = @ \ {name}], [s EXCEPT !.left = @ \ {name}, !.gone = @ \ {name}]}
    PROVE  TemplateRuns!ShareFits(t)'
  <1> DEFINE instances == s1
  <1>1. s \in TemplateRuns!Shares /\ TemplateRuns!ShareFits(s)
    BY DEF TemplateRuns!TypeOK, TemplateRuns!WorkFits
  <1>2. /\ t.node = s.node /\ t.action = s.action /\ t.names = s.names /\ t.id = s.id
        /\ t.at = "work" /\ t.alone = s.alone /\ t.left \subseteq s.left /\ t.gone \subseteq s.gone
        /\ t.ok = s.ok /\ s.at = "work" /\ instances' = instances
    BY <1>1 DEF TemplateRuns!Shares, TemplateRuns!RemoveFails, TemplateRuns!MakeFails
  <1>3. ~TemplateRuns!Skipped(s)
    <2>1. name \in s.left \cup s.gone
      BY DEF TemplateRuns!RemoveFails, TemplateRuns!MakeFails, TemplateRuns!ToMake
    <2>2. QED
      BY <2>1 DEF TemplateRuns!Skipped
  <1>4. QED
    BY <1>1, <1>2, <1>3 DEF TemplateRuns!ShareFits, TemplateRuns!NamesOn, TemplateRuns!Made

LEMMA TemplateRunsWorkStep ==
    ASSUME TemplateRuns!NamesAssumption, TemplateRuns!TypeOK, TemplateRuns!NumbersFit, TemplateRuns!RunsFit, TemplateRuns!WorkFits, [TemplateRuns!Next]_(TemplateRuns!runVars)
    PROVE  TemplateRuns!WorkFits'
  <1> DEFINE instances == s1  run == s2  op == s3  shares == s4
  <1>0. \A s \in shares : s \in TemplateRuns!Shares /\ TemplateRuns!ShareFits(s)
    BY DEF TemplateRuns!TypeOK, TemplateRuns!WorkFits
  <1>1. ASSUME UNCHANGED <<instances, shares>> PROVE TemplateRuns!WorkFits'
    BY <1>1, TemplateRunsStaysFit DEF TemplateRuns!WorkFits
  <1>2. CASE UNCHANGED TemplateRuns!runVars
    BY <1>1, <1>2 DEF TemplateRuns!runVars
  <1>3. ASSUME NEW c \in Pair, \/ \E action \in {"destroy", "recreate"} : TemplateRuns!Destructive(c, action)
                               \/ \E targets \in SUBSET Pair \ {{}} : TemplateRuns!Launch(c, targets)
                               \/ TemplateRuns!Check(c) \/ TemplateRuns!OpEnds(c)
        PROVE  TemplateRuns!WorkFits'
    <2>1. UNCHANGED <<instances, shares>>
      BY <1>3 DEF TemplateRuns!Destructive, TemplateRuns!Launch, TemplateRuns!Check, TemplateRuns!OpEnds
    <2>2. QED
      BY <1>1, <2>1
  <1>4. ASSUME NEW c \in Pair, TemplateRuns!Track(c) PROVE TemplateRuns!WorkFits'
    <2>1. CASE run[c].live
      BY <1>1, <1>4, <2>1 DEF TemplateRuns!Track
    <2>2. CASE ~run[c].live
      <3>1. /\ shares' = shares \cup {TemplateRuns!Share(c, n) : n \in {m \in Pair : op[c].want[m] # {}}}
            /\ instances' = instances
        BY <1>4, <2>2 DEF TemplateRuns!Track
      <3>2. ASSUME NEW n \in Pair, op[c].want[n] # {}, NEW t, t = TemplateRuns!Share(c, n) PROVE TemplateRuns!ShareFits(t)'
        <4>1. t.names # {} /\ t.gone = {} /\ t.ok = {} /\ t.at \notin {"work", "over"}
          BY <3>2 DEF TemplateRuns!Share
        <4>2. QED
          BY <4>1 DEF TemplateRuns!ShareFits
      <3>3. \A s \in shares : TemplateRuns!ShareFits(s)'
        BY <3>1, TemplateRunsStaysFit
      <3>4. \A s \in shares' :
               s \in shares \/ \E n \in Pair : op[c].want[n] # {} /\ s = TemplateRuns!Share(c, n)
        BY <3>1
      <3>5. QED
        BY <3>2, <3>3, <3>4 DEF TemplateRuns!WorkFits
    <2>3. QED
      BY <2>1, <2>2
  <1>5. ASSUME NEW s \in shares, NEW t \in TemplateRuns!Shares, TemplateRuns!Becomes(s, t), t.at # "work", instances' = instances,
               t.action = s.action, t.names = s.names, t.gone = s.gone, t.ok = s.ok,
               s.at \in {"work", "over"} => t.at \in {"work", "over"}
        PROVE  TemplateRuns!WorkFits'
    BY <1>0, <1>5, TemplateRunsIdleFits, TemplateRunsGoesOnFits
  <1>6. ASSUME NEW s \in shares, TemplateRuns!ShareArrives(s) PROVE TemplateRuns!WorkFits'
    <2>1. PICK t \in {[s EXCEPT !.at = "track"], [s EXCEPT !.at = "over"]} : TemplateRuns!Becomes(s, t)
      BY <1>6 DEF TemplateRuns!ShareArrives
    <2>2. /\ t \in TemplateRuns!Shares /\ t.at # "work" /\ t.action = s.action /\ t.names = s.names /\ t.gone = s.gone
          /\ t.ok = s.ok /\ s.at = "called" /\ instances' = instances
      BY <1>0, <1>6 DEF TemplateRuns!Shares, TemplateRuns!ShareArrives
    <2>3. QED
      BY <1>5, <2>1, <2>2
  <1>7. ASSUME NEW s \in shares, TemplateRuns!ShareTracked(s) PROVE TemplateRuns!WorkFits'
    <2>1. PICK t \in {[s EXCEPT !.at = "confirm"], [s EXCEPT !.at = "over"]} : TemplateRuns!Becomes(s, t)
      BY <1>7 DEF TemplateRuns!ShareTracked
    <2>2. /\ t \in TemplateRuns!Shares /\ t.at # "work" /\ t.action = s.action /\ t.names = s.names /\ t.gone = s.gone
          /\ t.ok = s.ok /\ s.at = "track" /\ instances' = instances
      BY <1>0, <1>7 DEF TemplateRuns!Shares, TemplateRuns!ShareTracked
    <2>3. QED
      BY <1>5, <2>1, <2>2
  <1>8. ASSUME NEW s \in shares, TemplateRuns!ShareBegins(s) PROVE TemplateRuns!WorkFits'
    <2>1. s.at = "confirm" /\ instances' = instances /\ s.gone = {} /\ s.ok = {}
          /\ (s.action # "launch" => s.names # {})
      BY <1>0, <1>8 DEF TemplateRuns!ShareBegins, TemplateRuns!ShareFits
    <2>2. CASE TemplateRuns!StillConfirmed(s)
      <3>1. PICK names : names = TemplateRuns!Picked(s)
        OBVIOUS
      <3>2. s.action # "launch" => names = s.names /\ TemplateRuns!NamesOn(s.node) = names
        BY <2>2, <3>1 DEF TemplateRuns!Picked, TemplateRuns!StillConfirmed, TemplateRuns!Confirmed
      <3>3. PICK t : t = [s EXCEPT !.at = "work", !.names = names, !.left = names] /\ TemplateRuns!Becomes(s, t)
        BY <1>8, <2>2, <3>1 DEF TemplateRuns!ShareBegins
      <3>4. /\ t.names = names /\ t.left = names /\ t.gone = {} /\ t.ok = {} /\ t.at = "work"
            /\ t.action = s.action /\ t.node = s.node
        BY <1>0, <2>1, <3>3 DEF TemplateRuns!Shares
      <3>5. TemplateRuns!ShareFits(t)'
        BY <2>1, <3>2, <3>4 DEF TemplateRuns!ShareFits, TemplateRuns!NamesOn
      <3>6. QED
        BY <2>1, <3>3, <3>5, TemplateRunsGoesOnFits
    <2>3. CASE ~TemplateRuns!StillConfirmed(s)
      <3>1. PICK t : t = [s EXCEPT !.at = "work", !.left = {}] /\ TemplateRuns!Becomes(s, t)
        BY <1>8, <2>3 DEF TemplateRuns!ShareBegins
      <3>2. /\ t.names = s.names /\ t.left = {} /\ t.gone = {} /\ t.ok = {} /\ t.at = "work"
            /\ t.action = s.action
        BY <1>0, <2>1, <3>1 DEF TemplateRuns!Shares
      <3>3. TemplateRuns!ShareFits(t)'
        BY <2>1, <3>2 DEF TemplateRuns!ShareFits, TemplateRuns!Skipped
      <3>4. QED
        BY <2>1, <3>1, <3>3, TemplateRunsGoesOnFits
    <2>4. QED
      BY <2>2, <2>3
  <1>9. ASSUME NEW s \in shares, TemplateRuns!ShareEnds(s) PROVE TemplateRuns!WorkFits'
    <2>1. PICK t : t = [s EXCEPT !.at = "over"] /\ TemplateRuns!Becomes(s, t)
      BY <1>9 DEF TemplateRuns!ShareEnds
    <2>2. /\ t \in TemplateRuns!Shares /\ t.at = "over" /\ t.action = s.action /\ t.names = s.names /\ t.gone = s.gone
          /\ t.ok = s.ok /\ instances' = instances
      BY <1>0, <1>9, <2>1 DEF TemplateRuns!Shares, TemplateRuns!ShareEnds
    <2>3. QED
      BY <1>5, <2>1, <2>2
  <1>10. ASSUME NEW s \in shares, TemplateRuns!ShareHeard(s) PROVE TemplateRuns!WorkFits'
    <2>1. shares' = shares \ {s} /\ instances' = instances
      BY <1>10 DEF TemplateRuns!ShareHeard
    <2>2. QED
      BY <2>1, TemplateRunsStaysFit DEF TemplateRuns!WorkFits
  <1>11. ASSUME NEW s \in shares, TemplateRuns!PollFails(s) PROVE TemplateRuns!WorkFits'
    <2>1. PICK t : t = [s EXCEPT !.awaited = FALSE] /\ TemplateRuns!Becomes(s, t)
      BY <1>11 DEF TemplateRuns!PollFails
    <2>2. /\ t.at = s.at /\ t.action = s.action /\ t.names = s.names /\ t.gone = s.gone /\ t.left = s.left
          /\ t.ok = s.ok /\ t.alone = s.alone /\ t.node = s.node /\ t.id = s.id /\ instances' = instances
      BY <1>0, <1>11, <2>1 DEF TemplateRuns!Shares, TemplateRuns!PollFails
    <2>3. TemplateRuns!ShareFits(t)'
      BY <1>0, <2>2 DEF TemplateRuns!ShareFits, TemplateRuns!NamesOn, TemplateRuns!Made, TemplateRuns!Skipped
    <2>4. QED
      BY <2>1, <2>2, <2>3, TemplateRunsGoesOnFits
  <1>12. ASSUME NEW s \in shares, NEW name, TemplateRuns!Remove(s, name) PROVE TemplateRuns!WorkFits'
    <2>1. PICK t : /\ TemplateRuns!Becomes(s, t)
                   /\ t = IF s.action = "destroy"
                          THEN [s EXCEPT !.left = @ \ {name}, !.ok = @ \cup {name}]
                          ELSE [s EXCEPT !.left = @ \ {name}, !.gone = @ \cup {name}]
      BY <1>12 DEF TemplateRuns!Remove
    <2>2. TemplateRuns!Active(s) /\ \A n \in Pair \ {s.node} : instances'[n] = instances[n]
      BY <1>12 DEF TemplateRuns!Remove, TemplateRuns!Active, TemplateRuns!TypeOK
    <2>3. TemplateRuns!ShareFits(t)'
      BY <1>12, <2>1, TemplateRunsRemoveFits
    <2>4. QED
      BY <2>1, <2>2, <2>3, TemplateRunsGoesOnFits
  <1>13. ASSUME NEW s \in shares, NEW name, TemplateRuns!Make(s, name) PROVE TemplateRuns!WorkFits'
    <2>1. PICK t : /\ TemplateRuns!Becomes(s, t)
                   /\ t = [s EXCEPT !.left = @ \ {name}, !.gone = @ \ {name},
                                    !.ok = IF name \notin TemplateRuns!NamesOn(s.node) THEN @ \cup {name} ELSE @]
      BY <1>13 DEF TemplateRuns!Make
    <2>2. TemplateRuns!Active(s) /\ \A n \in Pair \ {s.node} : instances'[n] = instances[n]
      BY <1>13 DEF TemplateRuns!Make, TemplateRuns!Active, TemplateRuns!TypeOK
    <2>3. TemplateRuns!ShareFits(t)'
      BY <1>13, <2>1, TemplateRunsMakeFits
    <2>4. QED
      BY <2>1, <2>2, <2>3, TemplateRunsGoesOnFits
  <1>14. ASSUME NEW s \in shares, NEW name, TemplateRuns!RemoveFails(s, name) \/ TemplateRuns!MakeFails(s, name) PROVE TemplateRuns!WorkFits'
    <2>1. PICK t : /\ TemplateRuns!Becomes(s, t)
                   /\ t \in {[s EXCEPT !.left = @ \ {name}],
                             [s EXCEPT !.left = @ \ {name}, !.gone = @ \ {name}]}
      BY <1>14 DEF TemplateRuns!RemoveFails, TemplateRuns!MakeFails
    <2>2. instances' = instances /\ (TemplateRuns!RemoveFails(s, name) => s.action # "launch")
      BY <1>14 DEF TemplateRuns!RemoveFails, TemplateRuns!MakeFails
    <2>3. TemplateRuns!ShareFits(t)'
      BY <1>14, <2>1, <2>2, TemplateRunsFailsFit
    <2>4. QED
      BY <2>1, <2>2, <2>3, TemplateRunsGoesOnFits
  <1>15. ASSUME NEW n \in Pair, TemplateRuns!Disturbed(n), \A m \in Pair \ {n} : instances'[m] = instances[m]
         PROVE  TemplateRuns!WorkFits'
    <2>1. ASSUME NEW s \in shares, NEW t, t = [s EXCEPT !.alone = FALSE] PROVE TemplateRuns!ShareFits(t)'
      <3>1. /\ t.at = s.at /\ t.action = s.action /\ t.names = s.names /\ t.gone = s.gone
            /\ t.left = s.left /\ t.ok = s.ok /\ ~t.alone
        BY <1>0, <2>1 DEF TemplateRuns!Shares
      <3>2. QED
        BY <1>0, <3>1 DEF TemplateRuns!ShareFits
    <2>2. ASSUME NEW s \in shares, s.node # n PROVE TemplateRuns!ShareFits(s)'
      <3>1. s.node \in Pair
        BY <1>0 DEF TemplateRuns!Shares
      <3>2. QED
        BY <1>15, <2>2, <3>1, TemplateRunsStaysFit
    <2>3. \A t \in shares' : \E s \in shares : t = IF s.node = n THEN [s EXCEPT !.alone = FALSE] ELSE s
      BY <1>15 DEF TemplateRuns!Disturbed
    <2>4. ASSUME NEW t \in shares' PROVE TemplateRuns!ShareFits(t)'
      <3>1. PICK s \in shares : t = IF s.node = n THEN [s EXCEPT !.alone = FALSE] ELSE s
        BY <2>3
      <3>2. CASE s.node = n
        BY <2>1, <3>1, <3>2
      <3>3. CASE s.node # n
        BY <2>2, <3>1, <3>3
      <3>4. QED
        BY <3>2, <3>3
    <2>5. QED
      BY <2>4 DEF TemplateRuns!WorkFits
  <1>16. ASSUME NEW n \in Pair, \/ \E name \in ShareNames : TemplateRuns!Appears(n, name)
                                \/ \E i \in instances[n] : TemplateRuns!Vanishes(n, i)
         PROVE  TemplateRuns!WorkFits'
    <2>1. TemplateRuns!Disturbed(n) /\ \A m \in Pair \ {n} : instances'[m] = instances[m]
      BY <1>16 DEF TemplateRuns!Appears, TemplateRuns!Vanishes, TemplateRuns!TypeOK
    <2>2. QED
      BY <1>15, <2>1
  <1>17. QED
    BY <1>2, <1>3, <1>4, <1>6, <1>7, <1>8, <1>9, <1>10, <1>11, <1>12, <1>13, <1>14, <1>16 DEF TemplateRuns!Next, TemplateRuns!Targets

-----------------------------------------------------------------------------
LEMMA TemplateRunsInvInit == ASSUME TemplateRuns!Init PROVE TemplateRuns!SharesInv
  <1>1. \A x \in {{}, {[name |-> 1, by |-> 0]}, {[name |-> 2, by |-> 0]}} : x \in SUBSET TemplateRuns!Instance
    BY DEF TemplateRuns!Instance
  <1>2. TemplateRuns!NoRun \in [of : Nat, live : BOOLEAN]
    BY DEF TemplateRuns!NoRun
  <1>3. TemplateRuns!TypeOK
    BY <1>1, <1>2 DEF TemplateRuns!Init, TemplateRuns!TypeOK
  <1>4. TemplateRuns!NumbersFit /\ TemplateRuns!RunsFit /\ TemplateRuns!WorkFits
    BY TemplateRunsRestIs DEF TemplateRuns!Init, TemplateRuns!NumbersFit, TemplateRuns!RunsFit, TemplateRuns!WorkFits
  <1>5. QED
    BY <1>3, <1>4 DEF TemplateRuns!SharesInv

LEMMA TemplateRunsInvStep == ASSUME TemplateRuns!NamesAssumption, TemplateRuns!SharesInv, [TemplateRuns!Next]_(TemplateRuns!runVars) PROVE TemplateRuns!SharesInv'
  BY TemplateRunsTypeStep, TemplateRunsRunsStep, TemplateRunsWorkStep DEF TemplateRuns!SharesInv

LEMMA TemplateRunsInvGives == ASSUME TemplateRuns!SharesInv PROVE TemplateRuns!SharesAreDone
  <1> DEFINE instances == s1  shares == s4
  <1>1. TemplateRuns!OneShareAtATime
    BY TemplateRunsRecordIs DEF TemplateRuns!SharesInv, TemplateRuns!OneShareAtATime, TemplateRuns!Active
  <1>2. ASSUME NEW s \in shares, TemplateRuns!Through(s), s.alone, s.ok = s.names
        PROVE  /\ s.action = "destroy" => instances[s.node] = {}
               /\ s.action = "recreate" => instances[s.node] = [name : s.names, by : {s.id}]
               /\ s.action = "launch" => [name : s.names, by : {s.id}] \subseteq instances[s.node]
    <2>1. TemplateRuns!ShareFits(s) /\ s \in TemplateRuns!Shares /\ instances[s.node] \subseteq TemplateRuns!Instance /\ s.left = {} /\ s.gone = {}
          /\ s.at = "work"
      BY <1>2 DEF TemplateRuns!SharesInv, TemplateRuns!WorkFits, TemplateRuns!TypeOK, TemplateRuns!Shares, TemplateRuns!Through
    <2>2. s.action # "launch" => ~TemplateRuns!Skipped(s)
      BY <1>2, <2>1 DEF TemplateRuns!Skipped, TemplateRuns!ShareFits
    <2>3. \A x \in [name : s.names, by : {s.id}] : x = TemplateRuns!Made(s, x.name) /\ x.name \in s.ok
      BY <1>2 DEF TemplateRuns!Made
    <2>4. \A n \in s.ok : TemplateRuns!Made(s, n) \in [name : s.names, by : {s.id}] /\ TemplateRuns!Made(s, n).name = n
      BY <1>2 DEF TemplateRuns!Made
    <2>5. CASE s.action = "destroy"
      <3>1. TemplateRuns!NamesOn(s.node) = {}
        BY <1>2, <2>1, <2>2, <2>5 DEF TemplateRuns!ShareFits
      <3>2. QED
        BY <2>5, <3>1 DEF TemplateRuns!NamesOn
    <2>6. CASE s.action = "recreate"
      <3>1. /\ TemplateRuns!NamesOn(s.node) \subseteq s.ok
            /\ \A i \in instances[s.node] : i.name \in s.ok => i = TemplateRuns!Made(s, i.name)
            /\ \A n \in s.ok : TemplateRuns!Made(s, n) \in instances[s.node]
        BY <1>2, <2>1, <2>2, <2>6 DEF TemplateRuns!ShareFits
      <3>2. \A i \in instances[s.node] : i.name \in s.ok
        BY <3>1 DEF TemplateRuns!NamesOn
      <3>3. instances[s.node] = [name : s.names, by : {s.id}]
        <4>1. \A i \in instances[s.node] : i \in [name : s.names, by : {s.id}]
          BY <2>4, <3>1, <3>2
        <4>2. \A x \in [name : s.names, by : {s.id}] : x \in instances[s.node]
          BY <2>3, <3>1
        <4>3. QED
          BY <4>1, <4>2
      <3>4. QED
        BY <2>6, <3>3
    <2>7. CASE s.action = "launch"
      <3>1. \A n \in s.ok : TemplateRuns!Made(s, n) \in instances[s.node]
        BY <1>2, <2>1, <2>7 DEF TemplateRuns!ShareFits
      <3>2. [name : s.names, by : {s.id}] \subseteq instances[s.node]
        BY <2>3, <3>1
      <3>3. QED
        BY <2>7, <3>2
    <2>8. QED
      BY <2>1, <2>5, <2>6, <2>7 DEF TemplateRuns!Shares, TemplateRuns!Actions
  <1>3. TemplateRuns!ShareIsWhole
    BY <1>2 DEF TemplateRuns!ShareIsWhole
  <1>4. QED
    BY <1>1, <1>3 DEF TemplateRuns!SharesAreDone

-----------------------------------------------------------------------------
(* Fabrics over the members.                                                 *)
-----------------------------------------------------------------------------
(* Subnets are given out apart. *)

LEMMA FabricSameSize == ASSUME NEW S PROVE Fabric!Cardinality(S) = Cardinality(S)
  BY DEF Fabric!Cardinality, Cardinality

LEMMA FabricPlacesApart ==
  ASSUME NEW S, S \subseteq Nat, IsFiniteSet(S), NEW x \in S, NEW y \in S, x < y
  PROVE Fabric!Place(x, S) # Fabric!Place(y, S)
  <1> DEFINE less(v) == {z \in S : z < v}
  <1>0. x \in Nat /\ y \in Nat /\ (\A z \in S : z \in Nat)
    OBVIOUS
  <1>1. less(x) \in SUBSET less(y) /\ x \in less(y) /\ x \notin less(x)
    <2>1. \A z \in S : z < x => z < y
      BY <1>0
    <2>2. ~(x < x)
      BY <1>0
    <2>3. QED
      BY <2>1, <2>2
  <1>2. IsFiniteSet(less(y))
    BY FS_Subset
  <1> HIDE DEF less
  <1>3. Cardinality(less(x)) # Cardinality(less(y))
    BY <1>1, <1>2, FS_Subset
  <1>4. QED
    BY <1>3, FabricSameSize DEF Fabric!Place, less

LEMMA FabricPlacesDiffer ==
  ASSUME NEW S, S \subseteq Nat, IsFiniteSet(S), NEW x \in S, NEW y \in S, Fabric!Place(x, S) = Fabric!Place(y, S)
  PROVE x = y
  <1>1. x < y \/ y < x \/ x = y
    OBVIOUS
  <1>2. QED
    BY <1>1, FabricPlacesApart

LEMMA FabricNodesAreFinite ==
  ASSUME Fabric!FabricAssumption
  PROVE FabricNodes \subseteq Nat /\ IsFiniteSet(FabricNodes) /\ FabricNodes \subseteq FabricSubnets /\ FabricSubnets \subseteq Nat /\ IsFiniteSet(FabricSubnets)
  <1>1. PICK last \in FabricSubnets : FabricSubnets \subseteq 0 .. last
    BY DEF Fabric!FabricAssumption
  <1>2. FabricNodes \subseteq FabricSubnets /\ FabricSubnets \subseteq Nat
    BY DEF Fabric!FabricAssumption
  <1>3. IsFiniteSet(FabricSubnets)
    <2>1. last \in Int /\ 0 \in Int
      BY <1>2
    <2>2. IsFiniteSet(0 .. last)
      BY <2>1, FS_Interval
    <2>3. QED
      BY <1>1, <2>2, FS_Subset
  <1>4. QED
    BY <1>2, <1>3, FS_Subset

LEMMA FabricAllocationIs ==
  ASSUME Fabric!FabricAssumption, NEW seen, NEW f, NEW p, NEW among, among \subseteq FabricNodes,
         NEW a \in Fabric!Allocation(seen, f, p, among)
  PROVE /\ a \in [to : among, subnet : FabricSubnets]
        /\ \A n \in among : seen[n][f].prefix = p => seen[n][f].subnet # a.subnet
        /\ \A b \in Fabric!Allocation(seen, f, p, among) : a.to = b.to <=> a.subnet = b.subnet
  <1> DEFINE waiting == among \ Fabric!Keeps(seen, f, p, among)
             free == FabricSubnets \ Fabric!Taken(seen, f, p, among)
  <1>1. /\ waiting \subseteq Nat /\ IsFiniteSet(waiting) /\ waiting \subseteq among
        /\ free \subseteq Nat /\ IsFiniteSet(free) /\ free \subseteq FabricSubnets
    BY FabricNodesAreFinite, FS_Subset
  <1>2. \A b \in Fabric!Allocation(seen, f, p, among) :
           b \in [to : waiting, subnet : free] /\ Fabric!Place(b.to, waiting) = Fabric!Place(b.subnet, free)
    BY DEF Fabric!Allocation
  <1>3. \A n \in among : seen[n][f].prefix = p => seen[n][f].subnet \notin free
    BY DEF Fabric!Taken
  <1> HIDE DEF waiting, free
  <1>4. ASSUME NEW b \in Fabric!Allocation(seen, f, p, among) PROVE a.to = b.to <=> a.subnet = b.subnet
    <2>1. a.to \in waiting /\ b.to \in waiting /\ a.subnet \in free /\ b.subnet \in free
      BY <1>2
    <2>2. Fabric!Place(a.to, waiting) = Fabric!Place(a.subnet, free) /\ Fabric!Place(b.to, waiting) = Fabric!Place(b.subnet, free)
      BY <1>2
    <2>3. CASE a.to = b.to
      BY <1>1, <2>1, <2>2, <2>3, FabricPlacesDiffer
    <2>4. CASE a.subnet = b.subnet
      BY <1>1, <2>1, <2>2, <2>4, FabricPlacesDiffer
    <2>5. QED
      BY <2>3, <2>4
  <1>5. QED
    BY <1>1, <1>2, <1>3, <1>4

-----------------------------------------------------------------------------
(* What things are. *)

LEMMA FabricNothingIsClaims == Fabric!Nothing \in Fabric!Claims /\ (\A f \in Twins : ~Fabric!Held(Fabric!Nothing[f]))
  BY DEF Fabric!Nothing, Fabric!Claims, Fabric!Held

LEMMA FabricWithoutIsClaims == ASSUME NEW mine \in Fabric!Claims, NEW f PROVE [mine EXCEPT ![f] = Fabric!NoClaim] \in Fabric!Claims
  BY DEF Fabric!Claims

LEMMA FabricWithIsClaims == ASSUME NEW mine \in Fabric!Claims, NEW f, NEW b \in Fabric!Blocks PROVE [mine EXCEPT ![f] = b] \in Fabric!Claims
  BY DEF Fabric!Claims

LEMMA FabricMoreMembers ==
  ASSUME NEW W, NEW V, W \subseteq V
  PROVE /\ \A o : Fabric!OpFits(o, W) => Fabric!OpFits(o, V)
        /\ \A j : Fabric!JobFits(j, W) => Fabric!JobFits(j, V)
  <1>1. ASSUME NEW o, Fabric!OpFits(o, W) PROVE Fabric!OpFits(o, V)
    <2>1. o.want \subseteq [to : W, subnet : FabricSubnets] => o.want \subseteq [to : V, subnet : FabricSubnets]
      OBVIOUS
    <2>2. o.want \subseteq [to : W, subnet : {0}] => o.want \subseteq [to : V, subnet : {0}]
      OBVIOUS
    <2>3. QED
      BY <1>1, <2>1, <2>2 DEF Fabric!OpFits
  <1>2. ASSUME NEW j, Fabric!JobFits(j, W) PROVE Fabric!JobFits(j, V)
    BY <1>2 DEF Fabric!JobFits
  <1>3. QED
    BY <1>1, <1>2

LEMMA FabricRestFits == ASSUME NEW W PROVE Fabric!OpFits(Fabric!Resting, W) /\ Fabric!Resting.at = "rest" /\ ~Fabric!Resting.alone
  BY DEF Fabric!OpFits, Fabric!Resting, Fabric!NoFabric

LEMMA FabricBesideFits ==
  ASSUME NEW W, NEW o, Fabric!OpFits(o, W)
  PROVE Fabric!OpFits(Fabric!Beside(o), W) /\ ~Fabric!Beside(o).alone /\ (Fabric!Beside(o).at # "rest" => o.at # "rest")
        /\ (o.at \in {"rest", "done"} => Fabric!Beside(o).at = "rest")
  BY FabricRestFits DEF Fabric!OpFits, Fabric!Beside


LEMMA FabricBeginTypes ==
  ASSUME Fabric!TypeOK, NEW c \in FabricNodes, NEW o, Fabric!Begin(c, o), s1 \subseteq s1', c \in s1',
         Fabric!OpFits(o, s1')
  PROVE Fabric!OpsOK'
  <1> DEFINE members == s1  op == s8
  <1>1. op' = [m \in FabricNodes |-> IF m = c THEN o ELSE Fabric!Beside(op[m])]
    BY DEF Fabric!Begin
  <1>2. ASSUME NEW m \in FabricNodes PROVE Fabric!OpFits(op'[m], members') /\ (op'[m].at # "rest" => m \in members')
    <2>1. Fabric!OpFits(op[m], members') /\ (op[m].at # "rest" => m \in members')
      BY FabricMoreMembers DEF Fabric!TypeOK, Fabric!OpsOK
    <2>2. QED
      BY <1>1, <2>1, FabricBesideFits
  <1>3. QED
    BY <1>1, <1>2 DEF Fabric!OpsOK

LEMMA FabricOneOpTypes ==
  ASSUME Fabric!TypeOK, NEW c \in FabricNodes, NEW o, s8' = [s8 EXCEPT ![c] = o], s1' = s1,
         Fabric!OpFits(o, s1), o.at # "rest" => c \in s1
  PROVE Fabric!OpsOK'
  <1> DEFINE members == s1  op == s8
  <1>1. op' = [n \in FabricNodes |-> IF n = c THEN o ELSE op[n]]
    BY DEF Fabric!TypeOK, Fabric!OpsOK
  <1>2. \A n \in FabricNodes : op'[n] = IF n = c THEN o ELSE op[n]
    BY <1>1
  <1>3. \A n \in FabricNodes : Fabric!OpFits(op[n], members) /\ (op[n].at # "rest" => n \in members)
    BY DEF Fabric!TypeOK, Fabric!OpsOK
  <1>4. QED
    BY <1>1, <1>2, <1>3 DEF Fabric!OpsOK

LEMMA FabricOverOp ==
  ASSUME Fabric!TypeOK, NEW j \in s9, NEW ok \in BOOLEAN, Fabric!Over(j, ok)
  PROVE /\ s8' = [s8 EXCEPT ![j.by] = [s8[j.by] EXCEPT !.ok = s8[j.by].ok /\ ok,
                                           !.at = IF ok THEN s8[j.by].at ELSE Fabric!Stopped(s8[j.by], j)]]
        /\ j.by \in FabricNodes /\ j.by \in s1 /\ s9' = s9 \ {j}
        /\ Fabric!OpFits(s8[j.by], s1) /\ Fabric!OpFits(s8'[j.by], s1)
  <1> DEFINE members == s1  op == s8
  <1>1. j.by \in FabricNodes /\ j.by \in members /\ Fabric!OpFits(op[j.by], members) /\ op = [n \in FabricNodes |-> op[n]]
    BY DEF Fabric!TypeOK, Fabric!OpsOK, Fabric!ClaimsOK, Fabric!JobFits
  <1>2. op' = [op EXCEPT ![j.by] = [op[j.by] EXCEPT !.ok = op[j.by].ok /\ ok,
                                           !.at = IF ok THEN op[j.by].at ELSE Fabric!Stopped(op[j.by], j)]]
    BY <1>1 DEF Fabric!Over
  <1>3. op'[j.by] = [op[j.by] EXCEPT !.ok = op[j.by].ok /\ ok,
                                     !.at = IF ok THEN op[j.by].at ELSE Fabric!Stopped(op[j.by], j)]
    BY <1>1, <1>2
  <1>4. Fabric!Stopped(op[j.by], j) = op[j.by].at \/ (Fabric!Stopped(op[j.by], j) = "done" /\ op[j.by].at = "tell")
    BY DEF Fabric!Stopped
  <1>5. Fabric!OpFits(op'[j.by], members)
    BY <1>1, <1>3, <1>4 DEF Fabric!OpFits
  <1>6. QED
    BY <1>1, <1>2, <1>5 DEF Fabric!Over

LEMMA FabricOverTypes ==
  ASSUME Fabric!TypeOK, NEW j \in s9, NEW ok \in BOOLEAN, Fabric!Over(j, ok), s1' = s1
  PROVE Fabric!OpsOK' /\ \A k \in s9' : Fabric!JobFits(k, s1')
  <1> DEFINE members == s1  op == s8
  <1>1. Fabric!OpsOK'
    <2> DEFINE o == [op[j.by] EXCEPT !.ok = op[j.by].ok /\ ok,
                                     !.at = IF ok THEN op[j.by].at ELSE Fabric!Stopped(op[j.by], j)]
    <2>1. op' = [op EXCEPT ![j.by] = o] /\ j.by \in FabricNodes /\ j.by \in members /\ Fabric!OpFits(op'[j.by], members)
      BY FabricOverOp
    <2>2. op'[j.by] = o
      BY <2>1 DEF Fabric!TypeOK, Fabric!OpsOK
    <2> HIDE DEF o
    <2>3. QED
      BY <2>1, <2>2, FabricOneOpTypes
  <1>2. QED
    BY <1>1, FabricOverOp DEF Fabric!TypeOK

LEMMA FabricJobMade ==
  ASSUME Fabric!TypeOK, NEW c \in s1, NEW kind \in {"claim", "drop"}, NEW n \in s1, NEW s,
         NEW o, o.fabric \in Twins,
         (kind = "claim" /\ o.prefix \in FabricPrefixes /\ s \in FabricSubnets)
            \/ (kind = "drop" /\ o.prefix \in FabricPrefixes \cup {Fabric!NoPrefix} /\ s = 0)
  PROVE Fabric!JobFits(Fabric!Job(kind, n, c, o, s), s1)
  BY FabricNothingIsClaims DEF Fabric!JobFits, Fabric!Job, Fabric!Blocks

LEMMA FabricJobsAdded ==
  ASSUME Fabric!TypeOK, NEW K, s9' = s9 \cup K, s1' = s1, \A k \in K : Fabric!JobFits(k, s1)
  PROVE \A k \in s9' : Fabric!JobFits(k, s1')
  BY DEF Fabric!TypeOK

LEMMA FabricJobGoesOn ==
  ASSUME Fabric!TypeOK, NEW j \in s9, NEW k, Fabric!Becomes(j, k), s1' = s1, Fabric!JobFits(k, s1)
  PROVE \A i \in s9' : Fabric!JobFits(i, s1')
  BY DEF Fabric!TypeOK, Fabric!Becomes

LEMMA FabricOperationFits ==
  ASSUME NEW W, NEW c, NEW f \in Twins
  PROVE /\ Fabric!OpFits(Fabric!Operation(c, "extend", f), W) /\ Fabric!OpFits(Fabric!Operation(c, "delete", f), W)
        /\ \A p \in FabricPrefixes : Fabric!OpFits([Fabric!Operation(c, "create", f) EXCEPT !.prefix = p], W)
  <1>1. Fabric!Alone(c) \in BOOLEAN
    BY DEF Fabric!Alone
  <1>2. Fabric!OpFits(Fabric!Operation(c, "extend", f), W)
    BY <1>1 DEF Fabric!OpFits, Fabric!Operation
  <1>3. Fabric!OpFits(Fabric!Operation(c, "delete", f), W)
    BY <1>1 DEF Fabric!OpFits, Fabric!Operation
  <1>4. ASSUME NEW p \in FabricPrefixes PROVE Fabric!OpFits([Fabric!Operation(c, "create", f) EXCEPT !.prefix = p], W)
    BY <1>1 DEF Fabric!OpFits, Fabric!Operation
  <1>5. QED
    BY <1>2, <1>3, <1>4

LEMMA FabricJoinFits ==
  ASSUME NEW W, NEW c, NEW want, want \subseteq [fabric : Twins, prefix : FabricPrefixes, subnet : FabricSubnets]
  PROVE Fabric!OpFits([Fabric!Operation(c, "join", Fabric!NoFabric) EXCEPT !.at = "offers", !.want = want], W)
  <1>1. Fabric!Alone(c) \in BOOLEAN
    BY DEF Fabric!Alone
  <1>2. QED
    BY <1>1 DEF Fabric!OpFits, Fabric!Operation

LEMMA FabricTypesInit == ASSUME Fabric!FabricAssumption, Fabric!Init PROVE Fabric!TypeOK
  <1> DEFINE members == s1  claim == s2  said == s3  op == s8  jobs == s9
  <1>1. PICK m \in FabricFounders, on \in [Twins -> FabricPrefixes \cup {Fabric!NoPrefix}] :
          /\ members = m /\ claim = [n \in FabricNodes |-> Fabric!Standing(m, on, n)]
          /\ said = [n \in FabricNodes |-> [l \in FabricNodes |-> IF n \in m THEN claim[l] ELSE Fabric!Nothing]]
          /\ op = [n \in FabricNodes |-> Fabric!Resting] /\ jobs = {}
    BY DEF Fabric!Init
  <1>2. \A n \in FabricNodes : Fabric!Standing(m, on, n) \in Fabric!Claims
    BY DEF Fabric!Standing, Fabric!Claims, Fabric!Blocks, Fabric!FabricAssumption
  <1>3. claim \in [FabricNodes -> Fabric!Claims]
    BY <1>1, <1>2
  <1>4. said \in [FabricNodes -> [FabricNodes -> Fabric!Claims]]
    BY <1>1, <1>3, FabricNothingIsClaims
  <1>5. QED
    BY <1>1, <1>3, <1>4, FabricRestFits DEF Fabric!TypeOK, Fabric!ClaimsOK, Fabric!OpsOK, Fabric!FabricAssumption

-----------------------------------------------------------------------------
(* Every step keeps what things are. *)

LEMMA FabricBeginKeepsTypes ==
  ASSUME Fabric!TypeOK, NEW c \in FabricNodes, NEW f \in Twins,
         Fabric!Extend(c, f) \/ Fabric!Delete(c, f) \/ \E p \in FabricPrefixes : Fabric!Create(c, f, p)
  PROVE Fabric!TypeOK'
  <1> DEFINE members == s1  claim == s2  said == s3  jobs == s9
  <1>1. /\ c \in members /\ UNCHANGED <<members, claim, said, jobs>>
        /\ \E o : Fabric!Begin(c, o) /\ Fabric!OpFits(o, members)
    <2>1. CASE \E p \in FabricPrefixes : Fabric!Create(c, f, p)
      BY <2>1, FabricOperationFits DEF Fabric!Create
    <2>2. CASE Fabric!Extend(c, f)
      BY <2>2, FabricOperationFits DEF Fabric!Extend
    <2>3. CASE Fabric!Delete(c, f)
      BY <2>3, FabricOperationFits DEF Fabric!Delete
    <2>4. QED
      BY <2>1, <2>2, <2>3
  <1>2. Fabric!OpsOK'
    BY <1>1, FabricBeginTypes
  <1>3. QED
    BY <1>1, <1>2 DEF Fabric!TypeOK, Fabric!ClaimsOK

LEMMA FabricCreateCheckKeepsTypes ==
  ASSUME Fabric!FabricAssumption, Fabric!TypeOK, NEW c \in FabricNodes, Fabric!CheckCreate(c)
  PROVE Fabric!TypeOK'
  <1> DEFINE members == s1  claim == s2  said == s3  op == s8  jobs == s9
  <1> DEFINE want == Fabric!Allocation(Fabric!Seen(c), op[c].fabric, op[c].prefix, members)
             on == [op[c] EXCEPT !.at = "begin", !.want = want, !.fresh = members]
  <1>0. Fabric!OpFits(op[c], members) /\ members \subseteq FabricNodes /\ (op[c].at # "rest" => c \in members)
    BY DEF Fabric!TypeOK, Fabric!OpsOK, Fabric!ClaimsOK
  <1>1. c \in members /\ op[c].kind = "create" /\ op[c].at = "check" /\ UNCHANGED <<members, claim, said, jobs>>
    BY <1>0 DEF Fabric!CheckCreate
  <1>2. op = [n \in FabricNodes |-> op[n]]
    BY DEF Fabric!TypeOK, Fabric!OpsOK
  <1>3. op' = [op EXCEPT ![c] = Fabric!Resting] \/ op' = [op EXCEPT ![c] = on]
    BY <1>2 DEF Fabric!CheckCreate
  <1>4. want \subseteq [to : members, subnet : FabricSubnets]
    BY <1>0, FabricAllocationIs
  <1> HIDE DEF want
  <1>5. Fabric!OpFits(on, members)
    BY <1>0, <1>1, <1>4 DEF Fabric!OpFits
  <1> HIDE DEF on
  <1>6. Fabric!OpsOK'
    BY <1>1, <1>3, <1>5, FabricOneOpTypes, FabricRestFits
  <1>7. QED
    BY <1>1, <1>6 DEF Fabric!TypeOK, Fabric!ClaimsOK

LEMMA FabricDefinedPrefixes ==
  ASSUME Fabric!TypeOK, NEW c \in FabricNodes, NEW f \in Twins, NEW p \in Fabric!Defined(Fabric!Seen(c), f)
  PROVE p \in FabricPrefixes
  <1> DEFINE members == s1
  <1>1. PICK n \in members : p = Fabric!Seen(c)[n][f].prefix /\ Fabric!Held(Fabric!Seen(c)[n][f])
    BY DEF Fabric!Defined
  <1>2. Fabric!Seen(c)[n] \in Fabric!Claims
    BY DEF Fabric!Seen, Fabric!TypeOK, Fabric!ClaimsOK
  <1>3. QED
    BY <1>1, <1>2 DEF Fabric!Claims, Fabric!Blocks, Fabric!Held

\* What an extend goes on with.
LEMMA FabricExtendGoesOn ==
  ASSUME Fabric!FabricAssumption, Fabric!TypeOK, NEW c \in FabricNodes, Fabric!CheckExtend(c)
  PROVE \/ s8' = [s8 EXCEPT ![c] = Fabric!Resting]
        \/ \E p \in FabricPrefixes : \E missing \in SUBSET s1 : \E want \in SUBSET [to : s1, subnet : FabricSubnets] :
              /\ missing = {n \in s1 : Fabric!Seen(c)[n][s8[c].fabric].prefix # p}
              /\ want = {a \in Fabric!Allocation(Fabric!Seen(c), s8[c].fabric, p, s1) : a.to \in missing}
              /\ Fabric!Suffices(Fabric!Seen(c), s8[c].fabric, p, s1)
              /\ s8' = [s8 EXCEPT ![c] = [s8[c] EXCEPT !.at = "begin", !.prefix = p, !.want = want,
                                                       !.fresh = missing]]
  <1> DEFINE members == s1  claim == s2  op == s8
  <1> DEFINE f == op[c].fabric
  <1>0. Fabric!OpFits(op[c], members) /\ members \subseteq FabricNodes /\ op = [n \in FabricNodes |-> op[n]] /\ claim[c] \in Fabric!Claims
    BY DEF Fabric!TypeOK, Fabric!OpsOK, Fabric!ClaimsOK
  <1>1. CASE Fabric!Defined(Fabric!Seen(c), f) = {}
    BY <1>1 DEF Fabric!CheckExtend
  <1>2. CASE Fabric!Defined(Fabric!Seen(c), f) # {}
    <2>1. f \in Twins
      BY <1>0 DEF Fabric!OpFits, Fabric!CheckExtend
    <2> DEFINE missing(p) == {n \in members : Fabric!Seen(c)[n][f].prefix # p}
               want(p) == {a \in Fabric!Allocation(Fabric!Seen(c), f, p, members) : a.to \in missing(p)}
    <2>2. PICK p \in IF Fabric!Held(claim[c][f]) THEN {claim[c][f].prefix} ELSE Fabric!Defined(Fabric!Seen(c), f) :
             \E known \in Fabric!Known(c) : op' = [op EXCEPT ![c] =
                      IF missing(p) \cap known # {} \/ missing(p) = {} \/ ~Fabric!Suffices(Fabric!Seen(c), f, p, members) THEN Fabric!Resting
                      ELSE [op[c] EXCEPT !.at = "begin", !.prefix = p, !.want = want(p), !.fresh = missing(p)]]
      BY <1>0, <1>2 DEF Fabric!CheckExtend
    <2>3. p \in FabricPrefixes
      BY <1>0, <2>1, FabricDefinedPrefixes DEF Fabric!Claims, Fabric!Blocks, Fabric!Held
    <2>4. want(p) \subseteq [to : members, subnet : FabricSubnets] /\ missing(p) \subseteq members
      BY <1>0, FabricAllocationIs
    <2>5. QED
      BY <2>2, <2>3, <2>4
  <1>3. QED
    BY <1>1, <1>2

LEMMA FabricExtendCheckKeepsTypes ==
  ASSUME Fabric!FabricAssumption, Fabric!TypeOK, NEW c \in FabricNodes, Fabric!CheckExtend(c)
  PROVE Fabric!TypeOK'
  <1> DEFINE members == s1  claim == s2  said == s3  op == s8  jobs == s9
  <1>0. Fabric!OpFits(op[c], members) /\ members \subseteq FabricNodes /\ (op[c].at # "rest" => c \in members)
    BY DEF Fabric!TypeOK, Fabric!OpsOK, Fabric!ClaimsOK
  <1>1. c \in members /\ op[c].kind = "extend" /\ UNCHANGED <<members, claim, said, jobs>>
    BY <1>0 DEF Fabric!CheckExtend
  <1>2. \E o : op' = [op EXCEPT ![c] = o] /\ Fabric!OpFits(o, members)
    <2>1. CASE op' = [op EXCEPT ![c] = Fabric!Resting]
      BY <2>1, FabricRestFits
    <2>2. CASE op' # [op EXCEPT ![c] = Fabric!Resting]
      <3>1. PICK p \in FabricPrefixes, missing \in SUBSET members,
           want \in SUBSET [to : members, subnet : FabricSubnets] :
              /\ missing = {n \in members : Fabric!Seen(c)[n][op[c].fabric].prefix # p}
              /\ want = {a \in Fabric!Allocation(Fabric!Seen(c), op[c].fabric, p, members) : a.to \in missing}
              /\ Fabric!Suffices(Fabric!Seen(c), op[c].fabric, p, members)
              /\ op' = [op EXCEPT ![c] = [op[c] EXCEPT !.at = "begin", !.prefix = p, !.want = want,
                                                       !.fresh = missing]]
        BY <2>2, FabricExtendGoesOn
      <3>2. Fabric!OpFits([op[c] EXCEPT !.at = "begin", !.prefix = p, !.want = want, !.fresh = missing], members)
        BY <1>0, <1>1, <3>1 DEF Fabric!OpFits
      <3>3. QED
        BY <3>1, <3>2
    <2>3. QED
      BY <2>1, <2>2
  <1>3. Fabric!OpsOK'
    BY <1>1, <1>2, FabricOneOpTypes
  <1>4. QED
    BY <1>1, <1>3 DEF Fabric!TypeOK, Fabric!ClaimsOK

LEMMA FabricDeleteCheckKeepsTypes ==
  ASSUME Fabric!FabricAssumption, Fabric!TypeOK, NEW c \in FabricNodes, Fabric!CheckDelete(c)
  PROVE Fabric!TypeOK'
  <1> DEFINE members == s1  claim == s2  said == s3  op == s8  jobs == s9
  <1> DEFINE want == {[to |-> n, subnet |-> 0] : n \in members}
             on == [op[c] EXCEPT !.at = "tell", !.want = want]
  <1>0. Fabric!OpFits(op[c], members) /\ members \subseteq FabricNodes /\ (op[c].at # "rest" => c \in members)
    BY DEF Fabric!TypeOK, Fabric!OpsOK, Fabric!ClaimsOK
  <1>1. c \in members /\ op[c].kind = "delete" /\ UNCHANGED <<members, claim, said, jobs>>
    BY <1>0 DEF Fabric!CheckDelete
  <1>2. op = [n \in FabricNodes |-> op[n]]
    BY DEF Fabric!TypeOK, Fabric!OpsOK
  <1>3. op' = [op EXCEPT ![c] = Fabric!Resting] \/ op' = [op EXCEPT ![c] = on]
    BY <1>2 DEF Fabric!CheckDelete
  <1>4. want \subseteq [to : members, subnet : {0}]
    OBVIOUS
  <1> HIDE DEF want
  <1>5. Fabric!OpFits(on, members)
    BY <1>0, <1>1, <1>4 DEF Fabric!OpFits
  <1> HIDE DEF on
  <1>6. Fabric!OpsOK'
    BY <1>1, <1>3, <1>5, FabricOneOpTypes, FabricRestFits
  <1>7. QED
    BY <1>1, <1>6 DEF Fabric!TypeOK, Fabric!ClaimsOK

LEMMA FabricHandKeepsTypes ==
  ASSUME Fabric!TypeOK, NEW c \in FabricNodes, Fabric!HandOut(c)
  PROVE Fabric!TypeOK'
  <1> DEFINE members == s1  claim == s2  said == s3  op == s8  jobs == s9
  <1> DEFINE left == {a \in op[c].want : a.to # c}
             on == [op[c] EXCEPT !.at = "tell", !.want = left]
             K == {Fabric!Job("claim", a.to, c, op[c], a.subnet) : a \in {b \in op[c].want : b.to = c}}
  <1>0. Fabric!OpFits(op[c], members) /\ (op[c].at # "rest" => c \in members) /\ op = [n \in FabricNodes |-> op[n]]
    BY DEF Fabric!TypeOK, Fabric!OpsOK
  <1>1. c \in members /\ op[c].kind \in {"create", "extend"} /\ UNCHANGED <<members, claim, said>>
    BY <1>0 DEF Fabric!HandOut, Fabric!OpFits
  <1>2. op[c].want \subseteq [to : members, subnet : FabricSubnets] /\ op[c].fabric \in Twins /\ op[c].prefix \in FabricPrefixes
    BY <1>0, <1>1 DEF Fabric!OpFits, Fabric!HandOut
  <1>3. op' = [op EXCEPT ![c] = on]
    BY <1>0 DEF Fabric!HandOut
  <1>4. Fabric!OpFits(on, members)
    BY <1>0, <1>1, <1>2 DEF Fabric!OpFits
  <1>5. \A k \in K : Fabric!JobFits(k, members)
    BY <1>1, <1>2, FabricJobMade
  <1>6. jobs' = jobs \cup K
    BY DEF Fabric!HandOut
  <1> HIDE DEF on, K
  <1>7. Fabric!OpsOK' /\ \A k \in jobs' : Fabric!JobFits(k, members')
    BY <1>1, <1>3, <1>4, <1>5, <1>6, FabricOneOpTypes, FabricJobsAdded
  <1>8. QED
    BY <1>1, <1>7 DEF Fabric!TypeOK, Fabric!ClaimsOK

LEMMA FabricTellKeepsTypes ==
  ASSUME Fabric!TypeOK, NEW c \in FabricNodes, Fabric!Tell(c)
  PROVE Fabric!TypeOK'
  <1> DEFINE members == s1  claim == s2  said == s3  op == s8  jobs == s9
  <1> DEFINE on == [op[c] EXCEPT !.at = IF op[c].kind = "delete" THEN "leave" ELSE "level"]
             K == {Fabric!Job(Fabric!Kind(op[c]), a.to, c, op[c], a.subnet) : a \in {b \in op[c].want : b.to # c}}
  <1>0. Fabric!OpFits(op[c], members) /\ (op[c].at # "rest" => c \in members) /\ op = [n \in FabricNodes |-> op[n]]
    BY DEF Fabric!TypeOK, Fabric!OpsOK
  <1>1. c \in members /\ op[c].kind \in {"create", "extend", "delete"} /\ UNCHANGED <<members, claim, said>>
    BY <1>0 DEF Fabric!Tell, Fabric!OpFits
  <1>2. /\ op[c].fabric \in Twins /\ op[c].prefix \in FabricPrefixes \cup {Fabric!NoPrefix}
        /\ op[c].kind # "delete" => op[c].want \subseteq [to : members, subnet : FabricSubnets] /\ op[c].prefix \in FabricPrefixes
        /\ op[c].kind = "delete" => op[c].want \subseteq [to : members, subnet : {0}]
    BY <1>0, <1>1 DEF Fabric!OpFits, Fabric!Tell
  <1>3. op' = [op EXCEPT ![c] = on]
    BY <1>0 DEF Fabric!Tell
  <1>4. Fabric!OpFits(on, members)
    BY <1>0, <1>1, <1>2 DEF Fabric!OpFits
  <1>5. \A k \in K : Fabric!JobFits(k, members)
    <2>1. CASE op[c].kind = "delete"
      <3>1. ASSUME NEW a \in op[c].want PROVE Fabric!JobFits(Fabric!Job("drop", a.to, c, op[c], a.subnet), members)
        <4>1. a.to \in members /\ a.subnet = 0
          BY <1>2, <2>1
        <4>2. QED
          BY <1>1, <1>2, <4>1, FabricJobMade
      <3>2. QED
        BY <2>1, <3>1 DEF Fabric!Kind
    <2>2. CASE op[c].kind # "delete"
      <3>1. ASSUME NEW a \in op[c].want PROVE Fabric!JobFits(Fabric!Job("claim", a.to, c, op[c], a.subnet), members)
        <4>1. a.to \in members /\ a.subnet \in FabricSubnets
          BY <1>2, <2>2
        <4>2. QED
          BY <1>1, <1>2, <2>2, <4>1, FabricJobMade
      <3>2. QED
        BY <2>2, <3>1 DEF Fabric!Kind
    <2>3. QED
      BY <2>1, <2>2
  <1>6. jobs' = jobs \cup K
    BY DEF Fabric!Tell
  <1> HIDE DEF on, K
  <1>7. Fabric!OpsOK' /\ \A k \in jobs' : Fabric!JobFits(k, members')
    BY <1>1, <1>3, <1>4, <1>5, <1>6, FabricOneOpTypes, FabricJobsAdded
  <1>8. QED
    BY <1>1, <1>7 DEF Fabric!TypeOK, Fabric!ClaimsOK

LEMMA FabricLeaveKeepsTypes ==
  ASSUME Fabric!TypeOK, NEW c \in FabricNodes, Fabric!LeaveHere(c)
  PROVE Fabric!TypeOK'
  <1> DEFINE members == s1  claim == s2  said == s3  op == s8  jobs == s9
  <1> DEFINE on == [op[c] EXCEPT !.at = "level"]
             K == {Fabric!Job("drop", c, c, op[c], 0)}
  <1>0. Fabric!OpFits(op[c], members) /\ (op[c].at # "rest" => c \in members) /\ op = [n \in FabricNodes |-> op[n]]
    BY DEF Fabric!TypeOK, Fabric!OpsOK
  <1>1. c \in members /\ op[c].kind = "delete" /\ UNCHANGED <<members, claim, said>>
    BY <1>0 DEF Fabric!LeaveHere, Fabric!OpFits
  <1>2. op[c].fabric \in Twins /\ op[c].prefix \in FabricPrefixes \cup {Fabric!NoPrefix}
    BY <1>0, <1>1 DEF Fabric!OpFits
  <1>3. op' = [op EXCEPT ![c] = on] /\ jobs' = jobs \cup K
    BY <1>0 DEF Fabric!LeaveHere
  <1>4. Fabric!OpFits(on, members)
    BY <1>0, <1>1 DEF Fabric!OpFits
  <1>5. \A k \in K : Fabric!JobFits(k, members)
    BY <1>1, <1>2, FabricJobMade
  <1> HIDE DEF on, K
  <1>7. Fabric!OpsOK' /\ \A k \in jobs' : Fabric!JobFits(k, members')
    BY <1>1, <1>3, <1>4, <1>5, FabricOneOpTypes, FabricJobsAdded
  <1>8. QED
    BY <1>1, <1>7 DEF Fabric!TypeOK, Fabric!ClaimsOK

LEMMA FabricLevelKeepsTypes ==
  ASSUME Fabric!TypeOK, NEW c \in FabricNodes, Fabric!LevelOnce(c)
  PROVE Fabric!TypeOK'
  <1> DEFINE members == s1  claim == s2  said == s3  op == s8  jobs == s9
  <1> DEFINE on == [op[c] EXCEPT !.at = "last"]
             k == [Fabric!Job("level", c, c, op[c], 0) EXCEPT !.at = "sync", !.read = claim[c], !.left = members \ {c}]
             K == {k}
  <1>0. Fabric!OpFits(op[c], members) /\ (op[c].at # "rest" => c \in members) /\ op = [n \in FabricNodes |-> op[n]]
        /\ claim[c] \in Fabric!Claims
    BY DEF Fabric!TypeOK, Fabric!OpsOK, Fabric!ClaimsOK
  <1>1. c \in members /\ UNCHANGED <<members, claim, said>> /\ op[c].at = "level"
    BY <1>0 DEF Fabric!LevelOnce
  <1>3. op' = [op EXCEPT ![c] = on] /\ jobs' = jobs \cup K
    BY <1>0 DEF Fabric!LevelOnce
  <1>4. Fabric!OpFits(on, members)
    BY <1>0, <1>1 DEF Fabric!OpFits
  <1>5. Fabric!JobFits(k, members)
    <2>1. op[c].fabric \in Twins \cup {Fabric!NoFabric} /\ op[c].prefix \in FabricPrefixes \cup {Fabric!NoPrefix}
      BY <1>0 DEF Fabric!OpFits
    <2>2. QED
      BY <1>0, <1>1, <2>1 DEF Fabric!JobFits, Fabric!Job
  <1>6. \A i \in K : Fabric!JobFits(i, members)
    BY <1>5
  <1> HIDE DEF on, k, K
  <1>7. Fabric!OpsOK' /\ \A i \in jobs' : Fabric!JobFits(i, members')
    BY <1>1, <1>3, <1>4, <1>6, FabricOneOpTypes, FabricJobsAdded
  <1>8. QED
    BY <1>1, <1>7 DEF Fabric!TypeOK, Fabric!ClaimsOK

LEMMA FabricEndKeepsTypes ==
  ASSUME Fabric!TypeOK, NEW c \in FabricNodes, Fabric!OpEnds(c)
  PROVE Fabric!TypeOK'
  <1> DEFINE members == s1  claim == s2  said == s3  op == s8  jobs == s9
  <1> DEFINE on == [op[c] EXCEPT !.at = "done"]
  <1>0. Fabric!OpFits(op[c], members) /\ (op[c].at # "rest" => c \in members) /\ op = [n \in FabricNodes |-> op[n]]
    BY DEF Fabric!TypeOK, Fabric!OpsOK
  <1>1. c \in members /\ UNCHANGED <<members, claim, said, jobs>> /\ op[c].at = "last"
    BY <1>0 DEF Fabric!OpEnds
  <1>3. op' = [op EXCEPT ![c] = on]
    BY <1>0 DEF Fabric!OpEnds
  <1>4. Fabric!OpFits(on, members)
    BY <1>0, <1>1 DEF Fabric!OpFits
  <1> HIDE DEF on
  <1>7. Fabric!OpsOK'
    BY <1>1, <1>3, <1>4, FabricOneOpTypes
  <1>8. QED
    BY <1>1, <1>7 DEF Fabric!TypeOK, Fabric!ClaimsOK

LEMMA FabricJoinKeepsTypes ==
  ASSUME Fabric!TypeOK, NEW x \in FabricNodes, NEW by \in FabricNodes, Fabric!Join(x, by)
  PROVE Fabric!TypeOK'
  <1> DEFINE members == s1  claim == s2  said == s3  jobs == s9
  <1>1. /\ members' = members \cup {x} /\ members \subseteq members' /\ x \in members' /\ members' \subseteq FabricNodes
        /\ UNCHANGED <<claim, jobs>>
        /\ said' = [said EXCEPT ![x] = Fabric!Seen(by)]
    BY DEF Fabric!Join, Fabric!TypeOK, Fabric!ClaimsOK
  <1>2. Fabric!Seen(by) \in [FabricNodes -> Fabric!Claims]
    BY DEF Fabric!Seen, Fabric!TypeOK, Fabric!ClaimsOK
  <1>3. Fabric!Offers(x, by) \subseteq [fabric : Twins, prefix : FabricPrefixes, subnet : FabricSubnets]
    BY DEF Fabric!Offers
  <1>4. Fabric!OpsOK'
    <2>1. Fabric!Begin(x, [Fabric!Operation(x, "join", Fabric!NoFabric) EXCEPT !.at = "offers", !.want = Fabric!Offers(x, by)])
      BY DEF Fabric!Join
    <2>2. Fabric!OpFits([Fabric!Operation(x, "join", Fabric!NoFabric) EXCEPT !.at = "offers", !.want = Fabric!Offers(x, by)], members')
      BY <1>3, FabricJoinFits
    <2>3. QED
      BY <1>1, <2>1, <2>2, FabricBeginTypes
  <1>5. \A j \in jobs' : Fabric!JobFits(j, members')
    BY <1>1, FabricMoreMembers DEF Fabric!TypeOK
  <1>6. Fabric!ClaimsOK'
    BY <1>1, <1>2 DEF Fabric!TypeOK, Fabric!ClaimsOK
  <1>7. QED
    BY <1>4, <1>5, <1>6 DEF Fabric!TypeOK

LEMMA FabricOfferKeepsTypes ==
  ASSUME Fabric!TypeOK, NEW x \in FabricNodes, Fabric!TakeOffer(x)
  PROVE Fabric!TypeOK'
  <1> DEFINE members == s1  claim == s2  said == s3  op == s8  jobs == s9
  <1>0. Fabric!OpFits(op[x], members) /\ (op[x].at # "rest" => x \in members) /\ op = [n \in FabricNodes |-> op[n]]
    BY DEF Fabric!TypeOK, Fabric!OpsOK
  <1>1. x \in members /\ op[x].kind = "join" /\ UNCHANGED <<members, claim, said>>
    BY <1>0 DEF Fabric!TakeOffer, Fabric!OpFits
  <1>2. op[x].want \subseteq [fabric : Twins, prefix : FabricPrefixes, subnet : FabricSubnets]
    BY <1>0, <1>1 DEF Fabric!OpFits
  <1>3. Fabric!OpsOK' /\ \A k \in jobs' : Fabric!JobFits(k, members')
    <2>1. CASE op[x].want = {}
      <3>1. op' = [op EXCEPT ![x] = [op[x] EXCEPT !.at = "level"]] /\ jobs' = jobs
        BY <1>0, <2>1 DEF Fabric!TakeOffer
      <3>2. Fabric!OpFits([op[x] EXCEPT !.at = "level"], members)
        BY <1>0, <1>1 DEF Fabric!OpFits
      <3>3. QED
        BY <1>1, <3>1, <3>2, FabricOneOpTypes DEF Fabric!TypeOK
    <2>2. CASE op[x].want # {}
      <3>1. PICK offer \in op[x].want :
               /\ jobs' = jobs \cup {Fabric!Job("claim", x, x, offer, offer.subnet)}
               /\ op' = [op EXCEPT ![x] = [op[x] EXCEPT !.want = op[x].want \ {offer}]]
        BY <1>0, <2>2 DEF Fabric!TakeOffer
      <3>2. Fabric!OpFits([op[x] EXCEPT !.want = op[x].want \ {offer}], members)
        BY <1>0, <1>1 DEF Fabric!OpFits
      <3>3. Fabric!JobFits(Fabric!Job("claim", x, x, offer, offer.subnet), members)
        BY <1>1, <1>2, FabricJobMade
      <3> DEFINE K == {Fabric!Job("claim", x, x, offer, offer.subnet)}
      <3>4. jobs' = jobs \cup K /\ \A k \in K : Fabric!JobFits(k, members)
        BY <3>1, <3>3
      <3> HIDE DEF K
      <3>5. \A k \in jobs' : Fabric!JobFits(k, members')
        BY <1>1, <3>4, FabricJobsAdded
      <3>6. Fabric!OpsOK'
        BY <1>1, <3>1, <3>2, FabricOneOpTypes
      <3>7. QED
        BY <3>5, <3>6
    <2>3. QED
      BY <2>1, <2>2
  <1>4. QED
    BY <1>1, <1>3 DEF Fabric!TypeOK, Fabric!ClaimsOK

LEMMA FabricJobType ==
  ASSUME Fabric!TypeOK, NEW j \in s9
  PROVE Fabric!JobFits(j, s1) /\ j.node \in s1 /\ j.node \in FabricNodes /\ s2[j.node] \in Fabric!Claims
  BY DEF Fabric!TypeOK, Fabric!ClaimsOK, Fabric!JobFits

LEMMA FabricSyncFits ==
  ASSUME NEW W, NEW j, Fabric!JobFits(j, W), NEW mine \in Fabric!Claims
  PROVE j.at # "call" \/ j.kind # "level" => Fabric!JobFits([j EXCEPT !.at = "sync", !.read = mine, !.left = W \ {j.node}], W)
  BY DEF Fabric!JobFits

LEMMA FabricAcceptKeepsTypes ==
  ASSUME Fabric!TypeOK, NEW j \in s9, Fabric!Accept(j)
  PROVE Fabric!TypeOK'
  <1> DEFINE members == s1  claim == s2  said == s3  op == s8  jobs == s9
  <1>1. Fabric!JobFits(j, members) /\ j.node \in FabricNodes /\ claim[j.node] \in Fabric!Claims /\ j.kind = "claim" /\ j.at = "call"
        /\ members' = members /\ said' = said
    BY FabricJobType DEF Fabric!Accept
  <1>2. CASE Fabric!MayTake(j)
    <2>1. /\ claim' = [claim EXCEPT ![j.node] = [claim[j.node] EXCEPT ![j.fabric] = j.claim]]
          /\ Fabric!Becomes(j, Fabric!Syncs(j, claim'[j.node])) /\ op' = op
      BY <1>2 DEF Fabric!Accept
    <2>2. [claim[j.node] EXCEPT ![j.fabric] = j.claim] \in Fabric!Claims
      BY <1>1, FabricWithIsClaims DEF Fabric!JobFits
    <2>3. claim' \in [FabricNodes -> Fabric!Claims] /\ claim'[j.node] \in Fabric!Claims
      BY <1>1, <2>1, <2>2 DEF Fabric!TypeOK, Fabric!ClaimsOK
    <2>4. Fabric!JobFits(Fabric!Syncs(j, claim'[j.node]), members)
      BY <1>1, <2>3, FabricSyncFits DEF Fabric!Syncs
    <2>5. \A k \in jobs' : Fabric!JobFits(k, members')
      BY <1>1, <2>1, <2>4, FabricJobGoesOn
    <2>6. QED
      BY <1>1, <2>1, <2>3, <2>5 DEF Fabric!TypeOK, Fabric!ClaimsOK, Fabric!OpsOK
  <1>3. CASE ~Fabric!MayTake(j)
    <2>1. Fabric!Over(j, FALSE) /\ claim' = claim
      BY <1>3 DEF Fabric!Accept
    <2>2. QED
      BY <1>1, <2>1, FabricOverTypes DEF Fabric!TypeOK, Fabric!ClaimsOK
  <1>4. QED
    BY <1>2, <1>3

LEMMA FabricBridgeKeepsTypes ==
  ASSUME Fabric!TypeOK, NEW j \in s9, Fabric!BridgeFails(j)
  PROVE Fabric!TypeOK'
  <1> DEFINE members == s1  claim == s2  said == s3
  <1>1. Fabric!JobFits(j, members) /\ j.node \in FabricNodes /\ claim[j.node] \in Fabric!Claims /\ j.kind = "claim"
        /\ members' = members /\ said' = said /\ Fabric!Over(j, FALSE)
        /\ claim' = [claim EXCEPT ![j.node] = [claim[j.node] EXCEPT ![j.fabric] = j.claim]]
    BY FabricJobType DEF Fabric!BridgeFails
  <1>2. [claim[j.node] EXCEPT ![j.fabric] = j.claim] \in Fabric!Claims
    BY <1>1, FabricWithIsClaims DEF Fabric!JobFits
  <1>3. claim' \in [FabricNodes -> Fabric!Claims]
    BY <1>1, <1>2 DEF Fabric!TypeOK, Fabric!ClaimsOK
  <1>4. QED
    BY <1>1, <1>3, FabricOverTypes DEF Fabric!TypeOK, Fabric!ClaimsOK

LEMMA FabricLeaveReadKeepsTypes ==
  ASSUME Fabric!TypeOK, NEW j \in s9, Fabric!LeaveReads(j)
  PROVE Fabric!TypeOK'
  <1> DEFINE members == s1  claim == s2  said == s3  op == s8  jobs == s9
  <1>1. Fabric!JobFits(j, members) /\ claim[j.node] \in Fabric!Claims /\ j.kind = "drop"
        /\ UNCHANGED <<members, claim, said>>
    BY FabricJobType DEF Fabric!LeaveReads
  <1>2. CASE Fabric!Held(claim[j.node][j.fabric])
    <2>1. Fabric!Becomes(j, [j EXCEPT !.at = "save", !.read = claim[j.node]]) /\ op' = op
      BY <1>2 DEF Fabric!LeaveReads
    <2>2. Fabric!JobFits([j EXCEPT !.at = "save", !.read = claim[j.node]], members)
      BY <1>1 DEF Fabric!JobFits
    <2>3. \A k \in jobs' : Fabric!JobFits(k, members')
      BY <1>1, <2>1, <2>2, FabricJobGoesOn
    <2>4. QED
      BY <1>1, <2>1, <2>3 DEF Fabric!TypeOK, Fabric!ClaimsOK, Fabric!OpsOK
  <1>3. CASE ~Fabric!Held(claim[j.node][j.fabric])
    <2>1. Fabric!Over(j, TRUE)
      BY <1>3 DEF Fabric!LeaveReads
    <2>2. QED
      BY <1>1, <2>1, FabricOverTypes DEF Fabric!TypeOK, Fabric!ClaimsOK
  <1>4. QED
    BY <1>2, <1>3

LEMMA FabricLeaveSaveKeepsTypes ==
  ASSUME Fabric!TypeOK, NEW j \in s9, Fabric!LeaveSaves(j)
  PROVE Fabric!TypeOK'
  <1> DEFINE members == s1  claim == s2  said == s3  op == s8  jobs == s9
  <1> DEFINE mine == [j.read EXCEPT ![j.fabric] = Fabric!NoClaim]
  <1>1. Fabric!JobFits(j, members) /\ j.node \in FabricNodes /\ j.kind = "drop"
        /\ members' = members /\ said' = said /\ op' = op
        /\ claim' = [claim EXCEPT ![j.node] = mine] /\ Fabric!Becomes(j, Fabric!Syncs(j, mine))
    BY FabricJobType DEF Fabric!LeaveSaves, Fabric!JobFits
  <1>2. mine \in Fabric!Claims
    BY <1>1, FabricWithoutIsClaims DEF Fabric!JobFits
  <1> HIDE DEF mine
  <1>3. Fabric!JobFits(Fabric!Syncs(j, mine), members)
    BY <1>1, <1>2, FabricSyncFits DEF Fabric!Syncs
  <1>4. \A k \in jobs' : Fabric!JobFits(k, members')
    BY <1>1, <1>3, FabricJobGoesOn
  <1>5. Fabric!ClaimsOK'
    BY <1>1, <1>2 DEF Fabric!TypeOK, Fabric!ClaimsOK
  <1>6. QED
    BY <1>1, <1>4, <1>5 DEF Fabric!TypeOK, Fabric!OpsOK

LEMMA FabricAnnounceKeepsTypes ==
  ASSUME Fabric!TypeOK, NEW j \in s9, NEW m \in FabricNodes, Fabric!Announced(j, m) \/ Fabric!AnnounceFails(j, m)
  PROVE Fabric!TypeOK'
  <1> DEFINE members == s1  claim == s2  said == s3  op == s8  jobs == s9
  <1>1. Fabric!JobFits(j, members) /\ j.node \in FabricNodes /\ j.read \in Fabric!Claims /\ claim[m] \in Fabric!Claims
        /\ members' = members /\ claim' = claim /\ j.by \in FabricNodes /\ j.by \in members
    BY FabricJobType DEF Fabric!Announced, Fabric!AnnounceFails, Fabric!JobFits, Fabric!TypeOK, Fabric!ClaimsOK
  <1>2. CASE Fabric!Announced(j, m)
    <2> DEFINE k == [j EXCEPT !.left = j.left \ {m}, !.got = j.got \cup {[of |-> m, claims |-> claim[m]]}]
    <2>1. /\ said' = [said EXCEPT ![m] = [said[m] EXCEPT ![j.node] = j.read]]
          /\ Fabric!Becomes(j, k) /\ op' = op /\ m \in j.left
      BY <1>2 DEF Fabric!Announced
    <2>2. Fabric!JobFits(k, members)
      <3>1. m \in members /\ j.left \ {m} \in SUBSET members
        BY <1>1, <2>1 DEF Fabric!JobFits
      <3>2. [of |-> m, claims |-> claim[m]] \in [of : members, claims : Fabric!Claims]
        BY <1>1, <3>1
      <3>3. j.got \cup {[of |-> m, claims |-> claim[m]]} \in SUBSET [of : members, claims : Fabric!Claims]
        BY <1>1, <3>2 DEF Fabric!JobFits
      <3>4. QED
        BY <1>1, <3>1, <3>3 DEF Fabric!JobFits
    <2> HIDE DEF k
    <2>3. \A i \in jobs' : Fabric!JobFits(i, members')
      BY <1>1, <2>1, <2>2, FabricJobGoesOn
    <2>4. Fabric!ClaimsOK'
      BY <1>1, <2>1 DEF Fabric!TypeOK, Fabric!ClaimsOK
    <2>5. QED
      BY <1>1, <2>1, <2>3, <2>4 DEF Fabric!TypeOK, Fabric!OpsOK
  <1>3. CASE Fabric!AnnounceFails(j, m)
    <2>0. Fabric!OpFits(op[j.by], members) /\ op = [n \in FabricNodes |-> op[n]]
      BY <1>1 DEF Fabric!TypeOK, Fabric!OpsOK
    <2>1. /\ said' = said /\ Fabric!Becomes(j, [j EXCEPT !.left = j.left \ {m}])
          /\ op' = [op EXCEPT ![j.by] = [op[j.by] EXCEPT !.alone = FALSE]]
      BY <1>3, <1>1, <2>0 DEF Fabric!AnnounceFails
    <2>2. Fabric!JobFits([j EXCEPT !.left = j.left \ {m}], members)
      BY <1>1 DEF Fabric!JobFits
    <2>3. \A i \in jobs' : Fabric!JobFits(i, members')
      BY <1>1, <2>1, <2>2, FabricJobGoesOn
    <2>4. Fabric!OpFits([op[j.by] EXCEPT !.alone = FALSE], members)
      BY <2>0 DEF Fabric!OpFits
    <2>5. Fabric!OpsOK'
      BY <1>1, <2>1, <2>4, FabricOneOpTypes
    <2>6. QED
      BY <1>1, <2>1, <2>3, <2>5 DEF Fabric!TypeOK, Fabric!ClaimsOK
  <1>4. QED
    BY <1>2, <1>3

LEMMA FabricSyncKeepsTypes ==
  ASSUME Fabric!TypeOK, NEW j \in s9, Fabric!SyncEnds(j)
  PROVE Fabric!TypeOK'
  <1> DEFINE members == s1  claim == s2  said == s3
  <1>1. Fabric!JobFits(j, members) /\ j.node \in FabricNodes /\ members' = members /\ claim' = claim /\ Fabric!Over(j, TRUE)
        /\ said' = [said EXCEPT ![j.node] = Fabric!Heard(j)]
    BY FabricJobType DEF Fabric!SyncEnds
  <1>2. Fabric!Heard(j) \in [FabricNodes -> Fabric!Claims]
    <2>1. \A g \in j.got : g.claims \in Fabric!Claims
      BY <1>1 DEF Fabric!JobFits
    <2>2. \A m \in FabricNodes : said[j.node][m] \in Fabric!Claims
      BY <1>1 DEF Fabric!TypeOK, Fabric!ClaimsOK
    <2>3. QED
      BY <2>1, <2>2 DEF Fabric!Heard
  <1>3. Fabric!ClaimsOK'
    BY <1>1, <1>2 DEF Fabric!TypeOK, Fabric!ClaimsOK
  <1>4. QED
    BY <1>1, <1>3, FabricOverTypes DEF Fabric!TypeOK

LEMMA FabricCallKeepsTypes ==
  ASSUME Fabric!TypeOK, NEW j \in s9, Fabric!CallFails(j)
  PROVE Fabric!TypeOK'
  <1> DEFINE members == s1  claim == s2  said == s3
  <1>1. Fabric!Over(j, FALSE) /\ UNCHANGED <<members, claim, said>>
    BY DEF Fabric!CallFails
  <1>2. QED
    BY <1>1, FabricOverTypes DEF Fabric!TypeOK, Fabric!ClaimsOK

LEMMA FabricMaintenanceKeepsTypes ==
  ASSUME Fabric!TypeOK, NEW n \in FabricNodes, Fabric!SetMaintenance(n)
  PROVE Fabric!TypeOK'
  <1> DEFINE members == s1  claim == s2  said == s3  marked == s5  op == s8  jobs == s9
  <1> DEFINE k == Fabric!Syncs(Fabric!Job(IF n \in marked THEN "lift" ELSE "mark", n, n, Fabric!Resting, 0), claim[n])
             K == {k}
  <1>1. /\ n \in members /\ members' = members /\ claim' = claim /\ said' = said /\ jobs' = jobs \cup K
        /\ op' = [m \in FabricNodes |-> Fabric!Beside(op[m])]
    BY DEF Fabric!SetMaintenance
  <1>2. Fabric!JobFits(k, members)
    <2>1. claim[n] \in Fabric!Claims
      BY DEF Fabric!TypeOK, Fabric!ClaimsOK
    <2>2. QED
      BY <1>1, <2>1 DEF Fabric!JobFits, Fabric!Syncs, Fabric!Job, Fabric!Resting
  <1>3. \A i \in K : Fabric!JobFits(i, members)
    BY <1>2
  <1> HIDE DEF k, K
  <1>4. \A i \in jobs' : Fabric!JobFits(i, members')
    BY <1>1, <1>3, FabricJobsAdded
  <1>5. Fabric!OpsOK'
    <2>1. ASSUME NEW m \in FabricNodes PROVE Fabric!OpFits(op'[m], members') /\ (op'[m].at # "rest" => m \in members')
      BY <1>1, FabricBesideFits DEF Fabric!TypeOK, Fabric!OpsOK
    <2>2. QED
      BY <1>1, <2>1 DEF Fabric!OpsOK
  <1>6. QED
    BY <1>1, <1>4, <1>5 DEF Fabric!TypeOK, Fabric!ClaimsOK

LEMMA FabricLanKeepsTypes ==
  ASSUME Fabric!TypeOK, Fabric!HostOK,
         (\E w \in s7 : Fabric!LanSaves(w)) \/ \E n \in FabricNodes : Fabric!LanReads(n) \/ Fabric!Round(n)
  PROVE Fabric!TypeOK'
  <1> DEFINE members == s1  claim == s2  said == s3  rewrites == s7  op == s8  jobs == s9
  <1>1. CASE \E w \in rewrites : Fabric!LanSaves(w)
    <2>1. PICK w \in rewrites : Fabric!LanSaves(w)
      BY <1>1
    <2>2. /\ claim' = [claim EXCEPT ![w.node] = w.read] /\ w.read \in Fabric!Claims
          /\ members' = members /\ said' = said /\ jobs' = jobs
          /\ op' = op \/ op' = [m \in FabricNodes |-> Fabric!Beside(op[m])]
      BY <2>1 DEF Fabric!LanSaves, Fabric!HostOK
    <2>3. Fabric!OpsOK'
      <3>1. ASSUME NEW m \in FabricNodes PROVE Fabric!OpFits(op'[m], members') /\ (op'[m].at # "rest" => m \in members')
        BY <2>2, FabricBesideFits DEF Fabric!TypeOK, Fabric!OpsOK
      <3>2. op' = [m \in FabricNodes |-> op'[m]]
        BY <2>2 DEF Fabric!TypeOK, Fabric!OpsOK
      <3>3. QED
        BY <3>1, <3>2 DEF Fabric!OpsOK
    <2>4. QED
      BY <2>2, <2>3 DEF Fabric!TypeOK, Fabric!ClaimsOK
  <1>2. CASE \E n \in FabricNodes : Fabric!LanReads(n) \/ Fabric!Round(n)
    <2>1. UNCHANGED <<members, claim, said, op, jobs>>
      BY <1>2 DEF Fabric!LanReads, Fabric!Round
    <2>2. QED
      BY <2>1 DEF Fabric!TypeOK, Fabric!ClaimsOK, Fabric!OpsOK
  <1>3. QED
    BY <1>1, <1>2

LEMMA FabricTypesStep == ASSUME Fabric!FabricAssumption, Fabric!TypeOK, Fabric!HostOK, [Fabric!Next]_(Fabric!fabricVars) PROVE Fabric!TypeOK'
  <1> DEFINE jobs == s9
  <1>1. CASE UNCHANGED Fabric!fabricVars
    BY <1>1 DEF Fabric!fabricVars, Fabric!TypeOK, Fabric!ClaimsOK, Fabric!OpsOK
  <1>2. ASSUME NEW c \in FabricNodes, NEW f \in Twins, Fabric!Extend(c, f) \/ Fabric!Delete(c, f)
               \/ \E p \in FabricPrefixes : Fabric!Create(c, f, p)
        PROVE Fabric!TypeOK'
    BY <1>2, FabricBeginKeepsTypes
  <1>3. ASSUME NEW c \in FabricNodes, \/ Fabric!CheckCreate(c) \/ Fabric!CheckExtend(c) \/ Fabric!CheckDelete(c)
               \/ Fabric!HandOut(c) \/ Fabric!Tell(c) \/ Fabric!LeaveHere(c) \/ Fabric!LevelOnce(c) \/ Fabric!OpEnds(c)
               \/ (\E by \in FabricNodes : Fabric!Join(c, by)) \/ Fabric!TakeOffer(c)
        PROVE Fabric!TypeOK'
    BY <1>3, FabricCreateCheckKeepsTypes, FabricExtendCheckKeepsTypes, FabricDeleteCheckKeepsTypes, FabricHandKeepsTypes,
       FabricTellKeepsTypes, FabricLeaveKeepsTypes, FabricLevelKeepsTypes, FabricEndKeepsTypes, FabricJoinKeepsTypes, FabricOfferKeepsTypes
  <1>4. ASSUME NEW j \in jobs, \/ Fabric!Accept(j) \/ Fabric!BridgeFails(j) \/ Fabric!LeaveReads(j) \/ Fabric!LeaveSaves(j)
               \/ Fabric!SyncEnds(j) \/ Fabric!CallFails(j)
               \/ \E m \in FabricNodes : Fabric!Announced(j, m) \/ Fabric!AnnounceFails(j, m)
        PROVE Fabric!TypeOK'
    BY <1>4, FabricAcceptKeepsTypes, FabricBridgeKeepsTypes, FabricLeaveReadKeepsTypes, FabricLeaveSaveKeepsTypes,
       FabricAnnounceKeepsTypes, FabricSyncKeepsTypes, FabricCallKeepsTypes
  <1>5. QED
    BY <1>1, <1>2, <1>3, <1>4, FabricMaintenanceKeepsTypes, FabricLanKeepsTypes DEF Fabric!Next

-----------------------------------------------------------------------------
(* The routes of a node, and what it is about to write back. *)

LEMMA FabricReapplyKeeps ==
  ASSUME Fabric!HostOK, NEW n \in FabricNodes, NEW mine, NEW seen, Fabric!Program(n, mine, seen) \/ Fabric!Reapply(n, mine, seen)
  PROVE /\ s4' = [m \in FabricNodes |-> s4'[m]]
        /\ \A m \in FabricNodes \ {n} : s4'[m] = s4[m] /\ (m \in s6 => m \in s6')
        /\ s4'[n] = Fabric!Desired(mine, seen, n) \/ n \in s6'
  <1> DEFINE routes == s4  skipped == s6
  <1> DEFINE want == Fabric!Desired(mine, seen, n)
  <1>0. routes = [m \in FabricNodes |-> routes[m]]
    BY DEF Fabric!HostOK
  <1>1. CASE routes' = routes /\ skipped' = skipped \cup {n}
    BY <1>0, <1>1
  <1>2. CASE routes' = [routes EXCEPT ![n] = want] /\ skipped' = skipped \ {n}
    BY <1>0, <1>2
  <1>3. CASE \E some : routes' = [routes EXCEPT ![n] = some] /\ skipped' = skipped \cup {n}
    BY <1>0, <1>3
  <1>4. QED
    <2>1. CASE Fabric!Program(n, mine, seen)
      BY <1>2, <1>3, <2>1 DEF Fabric!Program
    <2>2. CASE Fabric!Reapply(n, mine, seen)
      BY <1>1, <1>2, <1>3, <2>2 DEF Fabric!Reapply, Fabric!Program
    <2>3. QED
      BY <2>1, <2>2

LEMMA FabricRoutesStay ==
  ASSUME Fabric!HostOK, NEW n \in FabricNodes, \/ (UNCHANGED <<s4, s6>>) \/ (\E mine, seen : Fabric!Program(n, mine, seen) \/ Fabric!Reapply(n, mine, seen))
  PROVE s4' = [m \in FabricNodes |-> s4'[m]]
  BY FabricReapplyKeeps DEF Fabric!HostOK

\* Nothing about n changes but that its routes are brought up to date, or left alone.
LEMMA FabricOneFollows ==
  ASSUME Fabric!RoutesFollow, NEW n \in FabricNodes,
         \A m \in FabricNodes \ {n} : s4'[m] = s4[m] /\ s2'[m] = s2[m] /\ s3'[m] = s3[m],
         \A m \in FabricNodes \ {n} : m \in s6 => m \in s6',
         \A m \in FabricNodes \ {n} : Fabric!Taking(m) => Fabric!Taking(m)',
         \/ s4'[n] = Fabric!Desired(s2'[n], s3'[n], n) \/ n \in s6' \/ Fabric!Taking(n)'
  PROVE Fabric!RoutesFollow'
  <1> DEFINE claim == s2  said == s3  routes == s4  skipped == s6
  <1>1. ASSUME NEW m \in FabricNodes
        PROVE routes'[m] = Fabric!Desired(claim'[m], said'[m], m) \/ m \in skipped' \/ Fabric!Taking(m)'
    <2>1. CASE m = n
      BY <2>1
    <2>2. CASE m # n
      <3>1. routes[m] = Fabric!Desired(claim[m], said[m], m) \/ m \in skipped \/ Fabric!Taking(m)
        BY DEF Fabric!RoutesFollow
      <3>2. /\ routes'[m] = routes[m] /\ claim'[m] = claim[m] /\ said'[m] = said[m]
            /\ m \in skipped => m \in skipped'
            /\ Fabric!Taking(m) => Fabric!Taking(m)'
        BY <2>2
      <3>3. QED
        BY <3>1, <3>2
    <2>3. QED
      BY <2>1, <2>2
  <1>2. QED
    BY <1>1 DEF Fabric!RoutesFollow

-----------------------------------------------------------------------------
(* What a node holds is apart, whatever crosses. *)

LEMMA FabricPrefixIsSome ==
  ASSUME Fabric!FabricAssumption, NEW mine \in Fabric!Claims, NEW f \in Twins
  PROVE (Fabric!Held(mine[f]) <=> mine[f].prefix \in FabricPrefixes) /\ (Fabric!Held(mine[f]) <=> mine[f].prefix # Fabric!NoPrefix)
        /\ (Fabric!Held(mine[f]) => mine[f] \in Fabric!Blocks)
  BY DEF Fabric!Claims, Fabric!Blocks, Fabric!Held, Fabric!NoClaim, Fabric!FabricAssumption

LEMMA FabricTakenApart ==
  ASSUME Fabric!FabricAssumption, NEW mine \in Fabric!Claims, Fabric!IsApart(mine), NEW f \in Twins, NEW b \in Fabric!Blocks,
         \A g \in Twins \ {f} : mine[g].prefix # b.prefix
  PROVE Fabric!IsApart([mine EXCEPT ![f] = b])
  <1> DEFINE its == [mine EXCEPT ![f] = b]
  <1>1. its[f] = b /\ \A g \in Twins \ {f} : its[g] = mine[g]
    BY DEF Fabric!Claims
  <1> HIDE DEF its
  <1>2. ASSUME NEW g \in Twins, NEW h \in Twins, g # h, Fabric!Held(its[g]) PROVE its[g].prefix # its[h].prefix
    <2>1. CASE g = f
      BY <1>1, <1>2, <2>1
    <2>2. CASE h = f
      BY <1>1, <1>2, <2>2
    <2>3. CASE g # f /\ h # f
      BY <1>1, <1>2, <2>3 DEF Fabric!IsApart
    <2>4. QED
      BY <2>1, <2>2, <2>3
  <1>3. QED
    BY <1>2 DEF Fabric!IsApart, its

LEMMA FabricLeftApart ==
  ASSUME Fabric!FabricAssumption, NEW mine \in Fabric!Claims, Fabric!IsApart(mine), NEW f \in Twins
  PROVE Fabric!IsApart([mine EXCEPT ![f] = Fabric!NoClaim])
  <1> DEFINE its == [mine EXCEPT ![f] = Fabric!NoClaim]
  <1>1. its[f] = Fabric!NoClaim /\ its \in Fabric!Claims /\ \A g \in Twins \ {f} : its[g] = mine[g]
    BY DEF Fabric!Claims
  <1>2. Fabric!NoClaim.prefix = Fabric!NoPrefix /\ ~Fabric!Held(Fabric!NoClaim)
    BY DEF Fabric!NoClaim, Fabric!Held
  <1> HIDE DEF its
  <1>3. ASSUME NEW g \in Twins, NEW h \in Twins, g # h, Fabric!Held(its[g]) PROVE its[g].prefix # its[h].prefix
    <2>1. g # f
      BY <1>1, <1>2, <1>3
    <2>2. CASE h = f
      BY <1>1, <1>2, <1>3, <2>2, FabricPrefixIsSome
    <2>3. CASE h # f
      BY <1>1, <1>3, <2>1, <2>3 DEF Fabric!IsApart
    <2>4. QED
      BY <2>2, <2>3
  <1>4. QED
    BY <1>3 DEF Fabric!IsApart, its

LEMMA FabricApartInit == ASSUME Fabric!FabricAssumption, Fabric!Init PROVE Fabric!PrefixesApart /\ Fabric!ReadsApart /\ Fabric!OutsideHoldNothing
  <1> DEFINE members == s1  claim == s2  rewrites == s7  jobs == s9
  <1>1. PICK m \in FabricFounders, on \in [Twins -> FabricPrefixes \cup {Fabric!NoPrefix}] :
          /\ \A f, g \in Twins : f # g /\ on[f] # Fabric!NoPrefix => on[f] # on[g]
          /\ members = m /\ claim = [n \in FabricNodes |-> Fabric!Standing(m, on, n)] /\ jobs = {}
    BY DEF Fabric!Init
  <1>2. \A n \in FabricNodes : \A f \in Twins : claim[n][f] = IF n \in m /\ on[f] # Fabric!NoPrefix
                                THEN [prefix |-> on[f], subnet |-> n] ELSE Fabric!NoClaim
    BY <1>1 DEF Fabric!Standing
  <1>3. Fabric!PrefixesApart
    <2>1. ASSUME NEW n \in FabricNodes, NEW f \in Twins, NEW g \in Twins, f # g, Fabric!Held(claim[n][f])
          PROVE claim[n][f].prefix # claim[n][g].prefix
      <3>0. on[f] # Fabric!NoPrefix /\ claim[n][f] = [prefix |-> on[f], subnet |-> n]
        BY <1>2, <2>1 DEF Fabric!Held
      <3>1. claim[n][f].prefix = on[f] /\ on[f] # on[g]
        BY <1>1, <2>1, <3>0
      <3>2. claim[n][g] = [prefix |-> on[g], subnet |-> n] \/ claim[n][g] = Fabric!NoClaim
        BY <1>2
      <3>3. claim[n][g].prefix = on[g] \/ claim[n][g].prefix = Fabric!NoPrefix
        BY <3>2 DEF Fabric!NoClaim
      <3>4. QED
        BY <3>0, <3>1, <3>3
    <2>2. QED
      BY <2>1 DEF Fabric!PrefixesApart
  <1>4. Fabric!OutsideHoldNothing
    BY <1>1 DEF Fabric!OutsideHoldNothing, Fabric!Nothing, Fabric!Standing
  <1>5. rewrites = {}
    BY DEF Fabric!Init
  <1>6. QED
    BY <1>1, <1>3, <1>4, <1>5 DEF Fabric!ReadsApart

LEMMA FabricClaimsStay ==
  ASSUME Fabric!PrefixesApart, Fabric!ReadsApart, Fabric!OutsideHoldNothing, s1 \subseteq s1', s2' = s2,
         \A j \in s9' : j.at = "save" => j \in s9, s7' \subseteq s7
  PROVE Fabric!PrefixesApart' /\ Fabric!ReadsApart' /\ Fabric!OutsideHoldNothing'
  BY DEF Fabric!PrefixesApart, Fabric!ReadsApart, Fabric!OutsideHoldNothing, Fabric!Nothing

LEMMA FabricOneClaims ==
  ASSUME Fabric!TypeOK, Fabric!PrefixesApart, Fabric!ReadsApart, Fabric!OutsideHoldNothing, s1' = s1,
         NEW n \in s1, NEW mine, Fabric!IsApart(mine), s2' = [s2 EXCEPT ![n] = mine],
         \A j \in s9' : j.at = "save" => j \in s9, s7' \subseteq s7
  PROVE Fabric!PrefixesApart' /\ Fabric!ReadsApart' /\ Fabric!OutsideHoldNothing'
  <1> DEFINE claim == s2
  <1>1. \A m \in FabricNodes : claim'[m] = IF m = n THEN mine ELSE claim[m]
    BY DEF Fabric!TypeOK, Fabric!ClaimsOK
  <1>2. Fabric!PrefixesApart'
    BY <1>1 DEF Fabric!PrefixesApart, Fabric!IsApart
  <1>3. Fabric!OutsideHoldNothing'
    BY <1>1 DEF Fabric!OutsideHoldNothing, Fabric!Nothing
  <1>4. QED
    BY <1>2, <1>3 DEF Fabric!ReadsApart, Fabric!IsApart, Fabric!Held, Fabric!NoClaim

LEMMA FabricOfOps ==
  ASSUME Fabric!TypeOK, NEW c \in FabricNodes,
         \/ \E f \in Twins : Fabric!Extend(c, f) \/ Fabric!Delete(c, f) \/ \E p \in FabricPrefixes : Fabric!Create(c, f, p)
         \/ Fabric!CheckCreate(c) \/ Fabric!CheckExtend(c) \/ Fabric!CheckDelete(c)
         \/ Fabric!HandOut(c) \/ Fabric!Tell(c) \/ Fabric!LeaveHere(c) \/ Fabric!LevelOnce(c) \/ Fabric!OpEnds(c)
         \/ (\E by \in FabricNodes : Fabric!Join(c, by)) \/ Fabric!TakeOffer(c)
  PROVE /\ s2' = s2 /\ s1 \subseteq s1' /\ s9 \subseteq s9'
        /\ UNCHANGED <<s4, s5, s6, s7>>
        /\ \A j \in s9' : j \in s9 \/ j.at \in {"call", "sync"}
  <1> DEFINE members == s1  claim == s2  op == s8  jobs == s9
  <1> USE DEF Fabric!Job, Fabric!hostVars
  <1>1. CASE \E f \in Twins : Fabric!Extend(c, f) \/ Fabric!Delete(c, f) \/ \E p \in FabricPrefixes : Fabric!Create(c, f, p)
    BY <1>1 DEF Fabric!Extend, Fabric!Delete, Fabric!Create
  <1>2. CASE Fabric!CheckCreate(c) \/ Fabric!CheckExtend(c) \/ Fabric!CheckDelete(c)
    BY <1>2 DEF Fabric!CheckCreate, Fabric!CheckExtend, Fabric!CheckDelete
  <1>3. CASE Fabric!HandOut(c)
    BY <1>3 DEF Fabric!HandOut
  <1>4. CASE Fabric!Tell(c)
    BY <1>4 DEF Fabric!Tell
  <1>5. CASE Fabric!LeaveHere(c) \/ Fabric!OpEnds(c)
    BY <1>5 DEF Fabric!LeaveHere, Fabric!OpEnds
  <1>6. CASE Fabric!LevelOnce(c)
    <2>1. PICK k : k.at = "sync" /\ jobs' = jobs \cup {k} /\ UNCHANGED <<members, claim, Fabric!hostVars>>
      BY <1>6 DEF Fabric!LevelOnce
    <2>2. QED
      BY <2>1
  <1>7. CASE \E by \in FabricNodes : Fabric!Join(c, by)
    BY <1>7 DEF Fabric!Join
  <1>8. CASE Fabric!TakeOffer(c)
    <2>1. UNCHANGED <<members, claim, Fabric!hostVars>>
      BY <1>8 DEF Fabric!TakeOffer
    <2>2. jobs' = jobs \/ \E offer \in op[c].want : jobs' = jobs \cup {Fabric!Job("claim", c, c, offer, offer.subnet)}
      BY <1>8 DEF Fabric!TakeOffer
    <2>3. QED
      BY <2>1, <2>2
  <1>9. QED
    BY <1>1, <1>2, <1>3, <1>4, <1>5, <1>6, <1>7, <1>8

LEMMA FabricApartStep ==
  ASSUME Fabric!FabricAssumption, Fabric!TypeOK, Fabric!HostOK, Fabric!PrefixesApart, Fabric!ReadsApart, Fabric!OutsideHoldNothing, [Fabric!Next]_(Fabric!fabricVars)
  PROVE Fabric!PrefixesApart' /\ Fabric!ReadsApart' /\ Fabric!OutsideHoldNothing'
  <1> DEFINE members == s1  claim == s2  rewrites == s7  jobs == s9
  <1>1. CASE UNCHANGED Fabric!fabricVars
    BY <1>1, FabricClaimsStay DEF Fabric!fabricVars
  <1>2. ASSUME NEW c \in FabricNodes,
         \/ \E f \in Twins : Fabric!Extend(c, f) \/ Fabric!Delete(c, f) \/ \E p \in FabricPrefixes : Fabric!Create(c, f, p)
         \/ Fabric!CheckCreate(c) \/ Fabric!CheckExtend(c) \/ Fabric!CheckDelete(c)
         \/ Fabric!HandOut(c) \/ Fabric!Tell(c) \/ Fabric!LeaveHere(c) \/ Fabric!LevelOnce(c) \/ Fabric!OpEnds(c)
         \/ (\E by \in FabricNodes : Fabric!Join(c, by)) \/ Fabric!TakeOffer(c)
        PROVE Fabric!PrefixesApart' /\ Fabric!ReadsApart' /\ Fabric!OutsideHoldNothing'
    BY <1>2, FabricOfOps, FabricClaimsStay
  <1>3. ASSUME NEW j \in jobs, Fabric!Accept(j) \/ Fabric!BridgeFails(j) PROVE Fabric!PrefixesApart' /\ Fabric!ReadsApart' /\ Fabric!OutsideHoldNothing'
    <2>1. /\ Fabric!JobFits(j, members) /\ j.node \in members /\ j.node \in FabricNodes /\ claim[j.node] \in Fabric!Claims
          /\ j.kind = "claim" /\ members' = members /\ rewrites' \subseteq rewrites
      BY <1>3, FabricJobType DEF Fabric!Accept, Fabric!BridgeFails, Fabric!hostVars
    <2>2. CASE Fabric!MayTake(j)
      <3>1. claim' = [claim EXCEPT ![j.node] = [claim[j.node] EXCEPT ![j.fabric] = j.claim]]
        BY <1>3, <2>2 DEF Fabric!Accept, Fabric!BridgeFails
      <3>2. \A k \in jobs' : k.at = "save" => k \in jobs
        <4>1. jobs' = jobs \ {j} \/ jobs' = (jobs \ {j}) \cup {Fabric!Syncs(j, claim'[j.node])}
          BY <1>3, <2>1, <2>2 DEF Fabric!Accept, Fabric!BridgeFails, Fabric!Becomes, Fabric!Over
        <4>2. Fabric!Syncs(j, claim'[j.node]).at = "sync"
          BY <2>1 DEF Fabric!Syncs, Fabric!JobFits
        <4>3. QED
          BY <4>1, <4>2
      <3>3. Fabric!IsApart([claim[j.node] EXCEPT ![j.fabric] = j.claim])
        <4>1. Fabric!IsApart(claim[j.node])
          BY <2>1 DEF Fabric!PrefixesApart, Fabric!IsApart
        <4>2. QED
          BY <2>1, <2>2, <4>1, FabricTakenApart DEF Fabric!MayTake, Fabric!FreeHere, Fabric!JobFits
      <3>4. QED
        BY <2>1, <3>1, <3>2, <3>3, FabricOneClaims
    <2>3. CASE ~Fabric!MayTake(j)
      BY <1>3, <2>1, <2>3, FabricClaimsStay DEF Fabric!Accept, Fabric!BridgeFails, Fabric!Over
    <2>4. QED
      BY <2>2, <2>3
  <1>4. ASSUME NEW j \in jobs, Fabric!LeaveReads(j) PROVE Fabric!PrefixesApart' /\ Fabric!ReadsApart' /\ Fabric!OutsideHoldNothing'
    <2>1. /\ Fabric!JobFits(j, members) /\ j.node \in FabricNodes /\ members' = members /\ claim' = claim /\ rewrites' = rewrites
      BY <1>4, FabricJobType DEF Fabric!LeaveReads, Fabric!hostVars
    <2>2. Fabric!IsApart(claim[j.node])
      BY <2>1 DEF Fabric!PrefixesApart, Fabric!IsApart
    <2>3. Fabric!PrefixesApart' /\ Fabric!OutsideHoldNothing'
      BY <2>1 DEF Fabric!PrefixesApart, Fabric!OutsideHoldNothing, Fabric!Nothing
    <2>4. \A k \in jobs' : k \in jobs \/ k.read = claim[j.node]
      <3> DEFINE k == [j EXCEPT !.at = "save", !.read = claim[j.node]]
      <3>1. jobs' = jobs \ {j} \/ jobs' = (jobs \ {j}) \cup {k}
        BY <1>4 DEF Fabric!LeaveReads, Fabric!Becomes, Fabric!Over
      <3>2. k.read = claim[j.node]
        BY <2>1 DEF Fabric!JobFits
      <3>3. QED
        BY <3>1, <3>2
    <2>5. QED
      BY <2>1, <2>2, <2>3, <2>4 DEF Fabric!ReadsApart, Fabric!IsApart, Fabric!Held, Fabric!NoClaim
  <1>5. ASSUME NEW j \in jobs, Fabric!LeaveSaves(j) PROVE Fabric!PrefixesApart' /\ Fabric!ReadsApart' /\ Fabric!OutsideHoldNothing'
    <2>1. /\ Fabric!JobFits(j, members) /\ j.node \in members /\ members' = members /\ j.read \in Fabric!Claims /\ j.at = "save"
          /\ claim' = [claim EXCEPT ![j.node] = [j.read EXCEPT ![j.fabric] = Fabric!NoClaim]]
          /\ j.fabric \in Twins /\ rewrites' \subseteq rewrites
      BY <1>5, FabricJobType DEF Fabric!LeaveSaves, Fabric!JobFits
    <2>2. Fabric!IsApart([j.read EXCEPT ![j.fabric] = Fabric!NoClaim])
      BY <2>1, FabricLeftApart DEF Fabric!ReadsApart
    <2>3. \A k \in jobs' : k.at = "save" => k \in jobs
      BY <1>5, <2>1 DEF Fabric!LeaveSaves, Fabric!Becomes, Fabric!Syncs, Fabric!JobFits
    <2>4. QED
      BY <2>1, <2>2, <2>3, FabricOneClaims
  <1>6. ASSUME NEW j \in jobs, \/ Fabric!SyncEnds(j) \/ Fabric!CallFails(j)
               \/ \E m \in FabricNodes : Fabric!Announced(j, m) \/ Fabric!AnnounceFails(j, m)
        PROVE Fabric!PrefixesApart' /\ Fabric!ReadsApart' /\ Fabric!OutsideHoldNothing'
    <2>1. claim' = claim /\ members' = members /\ Fabric!JobFits(j, members) /\ rewrites' \subseteq rewrites
      BY <1>6, FabricJobType DEF Fabric!SyncEnds, Fabric!CallFails, Fabric!Announced, Fabric!AnnounceFails, Fabric!hostVars
    <2>2. \A k \in jobs' : k.at = "save" => k \in jobs
      <3>1. CASE Fabric!SyncEnds(j) \/ Fabric!CallFails(j)
        BY <3>1 DEF Fabric!SyncEnds, Fabric!CallFails, Fabric!Over
      <3>2. CASE \E m \in FabricNodes : Fabric!Announced(j, m)
        <4>1. PICK m \in FabricNodes : Fabric!Announced(j, m)
          BY <3>2
        <4> DEFINE k == [j EXCEPT !.left = j.left \ {m}, !.got = j.got \cup {[of |-> m, claims |-> claim[m]]}]
        <4>2. jobs' = (jobs \ {j}) \cup {k} /\ j.at = "sync"
          BY <4>1 DEF Fabric!Announced, Fabric!Becomes
        <4>3. k.at = "sync"
          BY <2>1, <4>2 DEF Fabric!JobFits
        <4>4. QED
          BY <4>2, <4>3
      <3>3. CASE \E m \in FabricNodes : Fabric!AnnounceFails(j, m)
        <4>1. PICK m \in FabricNodes : Fabric!AnnounceFails(j, m)
          BY <3>3
        <4> DEFINE k == [j EXCEPT !.left = j.left \ {m}]
        <4>2. jobs' = (jobs \ {j}) \cup {k} /\ j.at = "sync"
          BY <4>1 DEF Fabric!AnnounceFails, Fabric!Becomes
        <4>3. k.at = "sync"
          BY <2>1, <4>2 DEF Fabric!JobFits
        <4>4. QED
          BY <4>2, <4>3
      <3>4. QED
        BY <1>6, <3>1, <3>2, <3>3
    <2>3. QED
      BY <2>1, <2>2, FabricClaimsStay
  <1>7. ASSUME NEW n \in FabricNodes, Fabric!SetMaintenance(n) \/ Fabric!Round(n) PROVE Fabric!PrefixesApart' /\ Fabric!ReadsApart' /\ Fabric!OutsideHoldNothing'
    <2>1. /\ claim' = claim /\ members' = members /\ rewrites' \subseteq rewrites
          /\ \A k \in jobs' : k \in jobs \/ \E i : k = Fabric!Syncs(Fabric!Job(i, n, n, Fabric!Resting, 0), claim[n])
      BY <1>7 DEF Fabric!SetMaintenance, Fabric!Round
    <2>2. \A i : Fabric!Syncs(Fabric!Job(i, n, n, Fabric!Resting, 0), claim[n]).at = "sync"
      BY DEF Fabric!Syncs, Fabric!Job
    <2>3. QED
      BY <2>1, <2>2, FabricClaimsStay
  <1>8. ASSUME NEW n \in FabricNodes, Fabric!LanReads(n) PROVE Fabric!PrefixesApart' /\ Fabric!ReadsApart' /\ Fabric!OutsideHoldNothing'
    <2>1. /\ claim' = claim /\ members' = members /\ jobs' = jobs
          /\ rewrites' = rewrites \cup {[node |-> n, read |-> claim[n]]}
      BY <1>8 DEF Fabric!LanReads
    <2>2. Fabric!PrefixesApart' /\ Fabric!OutsideHoldNothing' /\ Fabric!IsApart(claim[n])
      BY <2>1 DEF Fabric!PrefixesApart, Fabric!OutsideHoldNothing, Fabric!Nothing, Fabric!IsApart
    <2>3. Fabric!ReadsApart'
      <3>1. \A w \in rewrites' : Fabric!IsApart(w.read)
        BY <2>1, <2>2 DEF Fabric!ReadsApart
      <3>2. \A k \in jobs' : k.at = "save" => Fabric!IsApart(k.read)
        BY <2>1 DEF Fabric!ReadsApart
      <3>3. QED
        BY <3>1, <3>2 DEF Fabric!ReadsApart, Fabric!IsApart, Fabric!Held, Fabric!NoClaim
    <2>4. QED
      BY <2>2, <2>3
  <1>9. ASSUME NEW w \in rewrites, Fabric!LanSaves(w) PROVE Fabric!PrefixesApart' /\ Fabric!ReadsApart' /\ Fabric!OutsideHoldNothing'
    <2>1. /\ members' = members /\ w.node \in members /\ claim' = [claim EXCEPT ![w.node] = w.read]
          /\ jobs' = jobs /\ rewrites' \subseteq rewrites
      BY <1>9 DEF Fabric!LanSaves, Fabric!HostOK
    <2>2. Fabric!IsApart(w.read)
      BY DEF Fabric!ReadsApart
    <2>3. QED
      BY <2>1, <2>2, FabricOneClaims
  <1>10. QED
    BY <1>1, <1>2, <1>3, <1>4, <1>5, <1>6, <1>7, <1>8, <1>9 DEF Fabric!Next

LEMMA FabricHostInit == ASSUME Fabric!Init PROVE Fabric!HostOK /\ Fabric!RoutesFollow
  <1> DEFINE claim == s2  said == s3  routes == s4  rewrites == s7
  <1>1. routes = [n \in FabricNodes |-> Fabric!Desired(claim[n], said[n], n)] /\ rewrites = {}
    BY DEF Fabric!Init
  <1>2. QED
    BY <1>1 DEF Fabric!HostOK, Fabric!RoutesFollow

LEMMA FabricHostStep ==
  ASSUME Fabric!TypeOK, Fabric!HostOK, [Fabric!Next]_(Fabric!fabricVars)
  PROVE Fabric!HostOK'
  <1> DEFINE members == s1  claim == s2  routes == s4  rewrites == s7  jobs == s9
  <1>1. CASE UNCHANGED Fabric!fabricVars
    BY <1>1 DEF Fabric!fabricVars, Fabric!HostOK
  <1>2. ASSUME NEW c \in FabricNodes,
         \/ \E f \in Twins : Fabric!Extend(c, f) \/ Fabric!Delete(c, f) \/ \E p \in FabricPrefixes : Fabric!Create(c, f, p)
         \/ Fabric!CheckCreate(c) \/ Fabric!CheckExtend(c) \/ Fabric!CheckDelete(c)
         \/ Fabric!HandOut(c) \/ Fabric!Tell(c) \/ Fabric!LeaveHere(c) \/ Fabric!LevelOnce(c) \/ Fabric!OpEnds(c)
         \/ (\E by \in FabricNodes : Fabric!Join(c, by)) \/ Fabric!TakeOffer(c)
        PROVE Fabric!HostOK'
    <2>1. routes' = routes /\ rewrites' = rewrites /\ members \subseteq members'
      BY <1>2, FabricOfOps
    <2>2. QED
      BY <2>1 DEF Fabric!HostOK
  <1>3. ASSUME NEW j \in jobs, Fabric!Accept(j) \/ Fabric!BridgeFails(j) \/ Fabric!LeaveReads(j) \/ Fabric!CallFails(j)
                                \/ \E m \in FabricNodes : Fabric!AnnounceFails(j, m)
        PROVE Fabric!HostOK'
    <2>1. routes' = routes /\ rewrites' = rewrites /\ members' = members
      BY <1>3 DEF Fabric!Accept, Fabric!BridgeFails, Fabric!LeaveReads, Fabric!CallFails, Fabric!AnnounceFails, Fabric!hostVars
    <2>2. QED
      BY <2>1 DEF Fabric!HostOK
  <1>4. ASSUME NEW j \in jobs, Fabric!LeaveSaves(j) \/ Fabric!SyncEnds(j) \/ \E m \in FabricNodes : Fabric!Announced(j, m)
        PROVE Fabric!HostOK'
    <2>1. rewrites' = rewrites /\ members' = members /\ j.node \in FabricNodes
      BY <1>4, FabricJobType DEF Fabric!LeaveSaves, Fabric!SyncEnds, Fabric!Announced
    <2>2. routes' = [m \in FabricNodes |-> routes'[m]]
      <3>1. CASE Fabric!LeaveSaves(j)
        BY <2>1, <3>1, FabricRoutesStay DEF Fabric!LeaveSaves
      <3>2. CASE Fabric!SyncEnds(j)
        BY <2>1, <3>2, FabricRoutesStay DEF Fabric!SyncEnds
      <3>3. CASE \E m \in FabricNodes : Fabric!Announced(j, m)
        BY <2>1, <3>3, FabricRoutesStay DEF Fabric!Announced
      <3>4. QED
        BY <1>4, <3>1, <3>2, <3>3
    <2>3. QED
      BY <2>1, <2>2 DEF Fabric!HostOK
  <1>5. ASSUME NEW n \in FabricNodes, Fabric!SetMaintenance(n) \/ Fabric!LanReads(n) PROVE Fabric!HostOK'
    <2>1. /\ routes' = routes /\ members' = members /\ claim[n] \in Fabric!Claims /\ n \in members
          /\ rewrites' = rewrites \/ rewrites' = rewrites \cup {[node |-> n, read |-> claim[n]]}
      BY <1>5 DEF Fabric!SetMaintenance, Fabric!LanReads, Fabric!TypeOK, Fabric!ClaimsOK
    <2>2. QED
      BY <2>1 DEF Fabric!HostOK
  <1>6. ASSUME NEW n \in FabricNodes, Fabric!Round(n) PROVE Fabric!HostOK'
    <2>1. rewrites' = rewrites /\ members' = members /\ routes' = [m \in FabricNodes |-> routes'[m]]
      BY <1>6, FabricRoutesStay DEF Fabric!Round
    <2>2. QED
      BY <2>1 DEF Fabric!HostOK
  <1>7. ASSUME NEW w \in rewrites, Fabric!LanSaves(w) PROVE Fabric!HostOK'
    <2>1. w.node \in FabricNodes
      BY DEF Fabric!HostOK, Fabric!TypeOK, Fabric!ClaimsOK
    <2>2. rewrites' = rewrites \ {w} /\ members' = members /\ routes' = [m \in FabricNodes |-> routes'[m]]
      BY <1>7, <2>1, FabricRoutesStay DEF Fabric!LanSaves
    <2>3. QED
      BY <2>2 DEF Fabric!HostOK
  <1>8. QED
    BY <1>1, <1>2, <1>3, <1>4, <1>5, <1>6, <1>7 DEF Fabric!Next

LEMMA FabricTakingStays ==
  ASSUME s9 \subseteq s9' PROVE \A n : Fabric!Taking(n) => Fabric!Taking(n)'
  BY DEF Fabric!Taking

LEMMA FabricOverIsNotTaking ==
  ASSUME NEW j \in s9, s9' = s9 \ {j}, j.at # "sync" \/ j.kind # "claim"
  PROVE \A n : Fabric!Taking(n) => Fabric!Taking(n)'
  BY DEF Fabric!Taking

LEMMA FabricFollowsStep ==
  ASSUME Fabric!TypeOK, Fabric!HostOK, Fabric!OutsideHoldNothing, Fabric!RoutesFollow, [Fabric!Next]_(Fabric!fabricVars)
  PROVE Fabric!RoutesFollow'
  <1> DEFINE members == s1  claim == s2  said == s3  routes == s4  skipped == s6
             rewrites == s7  jobs == s9
  <1>0. claim \in [FabricNodes -> Fabric!Claims] /\ said \in [FabricNodes -> [FabricNodes -> Fabric!Claims]] /\ members \subseteq FabricNodes
    BY DEF Fabric!TypeOK, Fabric!ClaimsOK
  <1>1. CASE UNCHANGED Fabric!fabricVars
    BY <1>1 DEF Fabric!fabricVars, Fabric!RoutesFollow, Fabric!Taking
  <1>2. ASSUME claim' = claim, said' = said, routes' = routes, skipped \subseteq skipped',
               \A n \in FabricNodes : Fabric!Taking(n) => Fabric!Taking(n)'
        PROVE Fabric!RoutesFollow'
    <2>1. ASSUME NEW n \in FabricNodes
          PROVE routes'[n] = Fabric!Desired(claim'[n], said'[n], n) \/ n \in skipped' \/ Fabric!Taking(n)'
      <3>1. routes[n] = Fabric!Desired(claim[n], said[n], n) \/ n \in skipped \/ Fabric!Taking(n)
        BY DEF Fabric!RoutesFollow
      <3>2. QED
        BY <1>2, <3>1
    <2>2. QED
      BY <2>1 DEF Fabric!RoutesFollow
  <1>3. ASSUME NEW c \in FabricNodes,
         \/ \E f \in Twins : Fabric!Extend(c, f) \/ Fabric!Delete(c, f) \/ \E p \in FabricPrefixes : Fabric!Create(c, f, p)
         \/ Fabric!CheckCreate(c) \/ Fabric!CheckExtend(c) \/ Fabric!CheckDelete(c)
         \/ Fabric!HandOut(c) \/ Fabric!Tell(c) \/ Fabric!LeaveHere(c) \/ Fabric!LevelOnce(c) \/ Fabric!OpEnds(c) \/ Fabric!TakeOffer(c)
        PROVE Fabric!RoutesFollow'
    <2>1. claim' = claim /\ jobs \subseteq jobs' /\ routes' = routes /\ skipped' = skipped
      BY <1>3, FabricOfOps
    <2>2. said' = said
      <3>1. CASE \E f \in Twins : Fabric!Extend(c, f) \/ Fabric!Delete(c, f) \/ \E p \in FabricPrefixes : Fabric!Create(c, f, p)
        BY <3>1 DEF Fabric!Extend, Fabric!Delete, Fabric!Create
      <3>2. CASE Fabric!CheckCreate(c) \/ Fabric!CheckExtend(c) \/ Fabric!CheckDelete(c)
        BY <3>2 DEF Fabric!CheckCreate, Fabric!CheckExtend, Fabric!CheckDelete
      <3>3. QED
        BY <1>3, <3>1, <3>2 DEF Fabric!HandOut, Fabric!Tell, Fabric!LeaveHere, Fabric!LevelOnce, Fabric!OpEnds, Fabric!TakeOffer
    <2>3. QED
      BY <1>2, <2>1, <2>2, FabricTakingStays
  <1>4. ASSUME NEW x \in FabricNodes, NEW by \in FabricNodes, Fabric!Join(x, by) PROVE Fabric!RoutesFollow'
    <2>1. claim' = claim /\ jobs \subseteq jobs' /\ routes' = routes /\ skipped' = skipped
      BY <1>4, FabricOfOps
    <2>2. claim[x] = Fabric!Nothing /\ said' = [said EXCEPT ![x] = Fabric!Seen(by)]
      BY <1>4 DEF Fabric!Join, Fabric!OutsideHoldNothing
    <2>3. \A seen : Fabric!Desired(claim[x], seen, x) = {}
      BY <2>2, FabricNothingIsClaims DEF Fabric!Desired
    <2>4. routes'[x] = Fabric!Desired(claim'[x], said'[x], x) \/ x \in skipped' \/ Fabric!Taking(x)'
      <3>1. routes[x] = Fabric!Desired(claim[x], said[x], x) \/ x \in skipped \/ Fabric!Taking(x)
        BY DEF Fabric!RoutesFollow
      <3>2. QED
        BY <2>1, <2>3, <3>1, FabricTakingStays
    <2>5. \A m \in FabricNodes \ {x} : said'[m] = said[m]
      BY <1>0, <2>2
    <2>6. QED
      BY <2>1, <2>4, <2>5, FabricTakingStays, FabricOneFollows
  <1>5. ASSUME NEW j \in jobs, Fabric!Accept(j) PROVE Fabric!RoutesFollow'
    <2>1. /\ Fabric!JobFits(j, members) /\ j.node \in FabricNodes /\ j.at = "call" /\ j.kind = "claim"
          /\ said' = said /\ routes' = routes /\ skipped' = skipped
      BY <1>5, FabricJobType DEF Fabric!Accept, Fabric!hostVars
    <2>2. CASE Fabric!MayTake(j)
      <3> DEFINE k == Fabric!Syncs(j, claim'[j.node])
      <3>1. jobs' = (jobs \ {j}) \cup {k} /\ claim' = [claim EXCEPT ![j.node] = [claim[j.node] EXCEPT ![j.fabric] = j.claim]]
        BY <1>5, <2>2 DEF Fabric!Accept, Fabric!Becomes
      <3>2. k.at = "sync" /\ k.kind = "claim" /\ k.node = j.node
        BY <2>1 DEF Fabric!Syncs, Fabric!JobFits
      <3> HIDE DEF k
      <3>3. Fabric!Taking(j.node)'
        BY <3>1, <3>2 DEF Fabric!Taking
      <3>4. \A m : Fabric!Taking(m) => Fabric!Taking(m)'
        BY <2>1, <3>1 DEF Fabric!Taking
      <3>5. \A m \in FabricNodes \ {j.node} : claim'[m] = claim[m]
        BY <1>0, <3>1
      <3>6. QED
        BY <2>1, <3>3, <3>4, <3>5, FabricOneFollows
    <2>3. CASE ~Fabric!MayTake(j)
      <3>1. jobs' = jobs \ {j} /\ claim' = claim
        BY <1>5, <2>3 DEF Fabric!Accept, Fabric!Over
      <3>2. QED
        BY <1>2, <2>1, <3>1, FabricOverIsNotTaking
    <2>4. QED
      BY <2>2, <2>3
  <1>6. ASSUME NEW j \in jobs, Fabric!BridgeFails(j) PROVE Fabric!RoutesFollow'
    <2>1. /\ j.node \in FabricNodes /\ j.at = "call" /\ said' = said /\ routes' = routes
          /\ skipped' = skipped \cup {j.node} /\ jobs' = jobs \ {j}
          /\ claim' = [claim EXCEPT ![j.node] = [claim[j.node] EXCEPT ![j.fabric] = j.claim]]
      BY <1>6, FabricJobType DEF Fabric!BridgeFails, Fabric!Over
    <2>2. \A m \in FabricNodes \ {j.node} : claim'[m] = claim[m]
      BY <1>0, <2>1
    <2>3. QED
      BY <2>1, <2>2, FabricOverIsNotTaking, FabricOneFollows
  <1>7. ASSUME NEW j \in jobs, Fabric!LeaveReads(j) \/ Fabric!CallFails(j) PROVE Fabric!RoutesFollow'
    <2>1. Fabric!JobFits(j, members) /\ claim' = claim /\ said' = said /\ routes' = routes /\ skipped' = skipped /\ j.at = "call"
      BY <1>7, FabricJobType DEF Fabric!LeaveReads, Fabric!CallFails, Fabric!hostVars
    <2>2. \A m : Fabric!Taking(m) => Fabric!Taking(m)'
      <3>1. jobs' = jobs \ {j} \/ \E k : jobs' = (jobs \ {j}) \cup {k}
        BY <1>7 DEF Fabric!LeaveReads, Fabric!CallFails, Fabric!Becomes, Fabric!Over
      <3>2. QED
        BY <2>1, <3>1 DEF Fabric!Taking
    <2>3. QED
      BY <1>2, <2>1, <2>2
  <1>8. ASSUME NEW j \in jobs, Fabric!LeaveSaves(j) PROVE Fabric!RoutesFollow'
    <2> DEFINE mine == [j.read EXCEPT ![j.fabric] = Fabric!NoClaim]
    <2>1. /\ j.node \in FabricNodes /\ j.at = "save" /\ said' = said /\ Fabric!Program(j.node, mine, said[j.node])
          /\ jobs' = (jobs \ {j}) \cup {Fabric!Syncs(j, mine)} /\ claim' = [claim EXCEPT ![j.node] = mine]
      BY <1>8, FabricJobType DEF Fabric!LeaveSaves, Fabric!Becomes
    <2> HIDE DEF mine
    <2>2. \A m : Fabric!Taking(m) => Fabric!Taking(m)'
      BY <2>1 DEF Fabric!Taking
    <2>3. claim'[j.node] = mine /\ \A m \in FabricNodes \ {j.node} : claim'[m] = claim[m]
      BY <1>0, <2>1
    <2>4. /\ \A m \in FabricNodes \ {j.node} : routes'[m] = routes[m] /\ (m \in skipped => m \in skipped')
          /\ routes'[j.node] = Fabric!Desired(mine, said[j.node], j.node) \/ j.node \in skipped'
      BY <2>1, FabricReapplyKeeps
    <2>5. QED
      BY <2>1, <2>2, <2>3, <2>4, FabricOneFollows
  <1>9. ASSUME NEW j \in jobs, NEW m \in FabricNodes, Fabric!Announced(j, m) PROVE Fabric!RoutesFollow'
    <2> DEFINE k == [j EXCEPT !.left = j.left \ {m}, !.got = j.got \cup {[of |-> m, claims |-> claim[m]]}]
    <2>1. /\ Fabric!JobFits(j, members) /\ j.node \in FabricNodes /\ claim' = claim
          /\ said' = [said EXCEPT ![m] = [said[m] EXCEPT ![j.node] = j.read]]
          /\ jobs' = (jobs \ {j}) \cup {k}
          /\ \/ said[m][j.node] = j.read /\ routes' = routes /\ skipped' = skipped
             \/ Fabric!Reapply(m, claim[m], said'[m])
      BY <1>9, FabricJobType DEF Fabric!Announced, Fabric!Becomes
    <2>2. k.at = j.at /\ k.kind = j.kind /\ k.node = j.node
      BY <2>1 DEF Fabric!JobFits
    <2> HIDE DEF k
    <2>3. \A n : Fabric!Taking(n) => Fabric!Taking(n)'
      BY <2>1, <2>2 DEF Fabric!Taking
    <2>4. \A n \in FabricNodes \ {m} : said'[n] = said[n]
      BY <1>0, <2>1
    <2>5. CASE said[m][j.node] = j.read /\ routes' = routes /\ skipped' = skipped
      <3>1. said[m] = [n \in FabricNodes |-> said[m][n]] /\ said = [n \in FabricNodes |-> said[n]]
        BY <1>0
      <3>2. [said[m] EXCEPT ![j.node] = j.read] = said[m]
        BY <2>1, <2>5, <3>1
      <3>3. said' = said
        BY <2>1, <3>1, <3>2
      <3>4. QED
        BY <1>2, <2>1, <2>3, <2>5, <3>3
    <2>6. CASE Fabric!Reapply(m, claim[m], said'[m])
      <3>1. /\ \A n \in FabricNodes \ {m} : routes'[n] = routes[n] /\ (n \in skipped => n \in skipped')
            /\ routes'[m] = Fabric!Desired(claim[m], said'[m], m) \/ m \in skipped'
        BY <2>6, FabricReapplyKeeps
      <3>2. QED
        BY <2>1, <2>3, <2>4, <3>1, FabricOneFollows
    <2>7. QED
      BY <2>1, <2>5, <2>6
  <1>10. ASSUME NEW j \in jobs, NEW m \in FabricNodes, Fabric!AnnounceFails(j, m) PROVE Fabric!RoutesFollow'
    <2> DEFINE k == [j EXCEPT !.left = j.left \ {m}]
    <2>1. /\ Fabric!JobFits(j, members) /\ claim' = claim /\ said' = said /\ routes' = routes /\ skipped' = skipped
          /\ jobs' = (jobs \ {j}) \cup {k}
      BY <1>10, FabricJobType DEF Fabric!AnnounceFails, Fabric!Becomes, Fabric!hostVars
    <2>2. k.at = j.at /\ k.kind = j.kind /\ k.node = j.node
      BY <2>1 DEF Fabric!JobFits
    <2> HIDE DEF k
    <2>3. \A n : Fabric!Taking(n) => Fabric!Taking(n)'
      BY <2>1, <2>2 DEF Fabric!Taking
    <2>4. QED
      BY <1>2, <2>1, <2>3
  <1>11. ASSUME NEW j \in jobs, Fabric!SyncEnds(j) PROVE Fabric!RoutesFollow'
    <2>1. /\ j.node \in FabricNodes /\ claim' = claim /\ said' = [said EXCEPT ![j.node] = Fabric!Heard(j)]
          /\ jobs' = jobs \ {j}
          /\ \/ Fabric!Heard(j) = said[j.node] /\ ~Fabric!Reapplies(j) /\ routes' = routes /\ skipped' = skipped
             \/ Fabric!Reapply(j.node, claim[j.node], said'[j.node])
      BY <1>11, FabricJobType DEF Fabric!SyncEnds, Fabric!Over
    <2>2. \A n \in FabricNodes \ {j.node} : said'[n] = said[n]
      BY <1>0, <2>1
    <2>3. CASE Fabric!Heard(j) = said[j.node] /\ ~Fabric!Reapplies(j) /\ routes' = routes /\ skipped' = skipped
      <3>1. said = [n \in FabricNodes |-> said[n]]
        BY <1>0
      <3>2. said' = said
        BY <2>1, <2>3, <3>1
      <3>3. j.kind # "claim"
        BY <2>3 DEF Fabric!Reapplies
      <3>4. QED
        BY <1>2, <2>1, <2>3, <3>2, <3>3, FabricOverIsNotTaking
    <2>4. CASE Fabric!Reapply(j.node, claim[j.node], said'[j.node])
      <3>1. /\ \A n \in FabricNodes \ {j.node} : routes'[n] = routes[n] /\ (n \in skipped => n \in skipped')
            /\ routes'[j.node] = Fabric!Desired(claim[j.node], said'[j.node], j.node) \/ j.node \in skipped'
        BY <2>1, <2>4, FabricReapplyKeeps
      <3>2. \A n \in FabricNodes \ {j.node} : Fabric!Taking(n) => Fabric!Taking(n)'
        BY <2>1 DEF Fabric!Taking
      <3>3. QED
        BY <2>1, <2>2, <3>1, <3>2, FabricOneFollows
    <2>5. QED
      BY <2>1, <2>3, <2>4
  <1>12. ASSUME NEW n \in FabricNodes, Fabric!SetMaintenance(n) \/ Fabric!LanReads(n) PROVE Fabric!RoutesFollow'
    <2>1. claim' = claim /\ said' = said /\ routes' = routes /\ skipped' = skipped /\ jobs \subseteq jobs'
      BY <1>12 DEF Fabric!SetMaintenance, Fabric!LanReads
    <2>2. QED
      BY <1>2, <2>1, FabricTakingStays
  <1>13. ASSUME NEW n \in FabricNodes, Fabric!Round(n) PROVE Fabric!RoutesFollow'
    <2>1. claim' = claim /\ said' = said /\ jobs \subseteq jobs' /\ Fabric!Reapply(n, claim[n], said[n])
      BY <1>13 DEF Fabric!Round
    <2>2. /\ \A m \in FabricNodes \ {n} : routes'[m] = routes[m] /\ (m \in skipped => m \in skipped')
          /\ routes'[n] = Fabric!Desired(claim[n], said[n], n) \/ n \in skipped'
      BY <2>1, FabricReapplyKeeps
    <2>3. QED
      BY <2>1, <2>2, FabricTakingStays, FabricOneFollows
  <1>14. ASSUME NEW w \in rewrites, Fabric!LanSaves(w) PROVE Fabric!RoutesFollow'
    <2>1. /\ w.node \in FabricNodes /\ claim' = [claim EXCEPT ![w.node] = w.read] /\ said' = said /\ jobs \subseteq jobs'
          /\ Fabric!Reapply(w.node, w.read, said[w.node])
      BY <1>0, <1>14 DEF Fabric!LanSaves, Fabric!HostOK
    <2>2. claim'[w.node] = w.read /\ \A m \in FabricNodes \ {w.node} : claim'[m] = claim[m]
      BY <1>0, <2>1
    <2>3. /\ \A m \in FabricNodes \ {w.node} : routes'[m] = routes[m] /\ (m \in skipped => m \in skipped')
          /\ routes'[w.node] = Fabric!Desired(w.read, said[w.node], w.node) \/ w.node \in skipped'
      BY <2>1, FabricReapplyKeeps
    <2>4. QED
      BY <2>1, <2>2, <2>3, FabricTakingStays, FabricOneFollows
  <1>15. QED
    BY <1>1, <1>3, <1>4, <1>5, <1>6, <1>7, <1>8, <1>9, <1>10, <1>11, <1>12, <1>13, <1>14 DEF Fabric!Next

-----------------------------------------------------------------------------
(* An operation that has the cluster alone. *)

LEMMA FabricBegunAlone ==
  ASSUME Fabric!TypeOK, NEW c \in FabricNodes, NEW o, Fabric!Begin(c, o), o.alone = Fabric!Alone(c), o.at # "rest", s9' = s9,
         Fabric!Calm(c)'
  PROVE /\ s8'[c] = o /\ s9 = {} /\ Fabric!Agree /\ s9' = {} /\ s8'[c].at # "rest"
        /\ \A m \in FabricNodes \ {c} : s8'[m].at = "rest"
  <1> DEFINE members == s1  op == s8
  <1>1. \A m \in FabricNodes : op'[m] = IF m = c THEN o ELSE Fabric!Beside(op[m])
    BY DEF Fabric!Begin
  <1>2. Fabric!Alone(c)
    BY <1>1 DEF Fabric!Calm
  <1>3. \A m \in FabricNodes : Fabric!OpFits(op[m], members)
    BY DEF Fabric!TypeOK, Fabric!OpsOK
  <1>4. \A m \in FabricNodes \ {c} : Fabric!Beside(op[m]).at = "rest"
    BY <1>2, <1>3, FabricBesideFits DEF Fabric!Alone
  <1>5. QED
    BY <1>1, <1>2, <1>4 DEF Fabric!Alone, Fabric!Agree

LEMMA FabricBeginCalm ==
  ASSUME Fabric!TypeOK, NEW c \in FabricNodes, NEW f \in Twins, Fabric!Calm(c)',
         Fabric!Extend(c, f) \/ Fabric!Delete(c, f) \/ \E p \in FabricPrefixes : Fabric!Create(c, f, p)
  PROVE Fabric!CalmFits(c)'
  <1> DEFINE members == s1  claim == s2  said == s3  op == s8  jobs == s9
  <1>1. \E o : Fabric!Begin(c, o) /\ o.alone = Fabric!Alone(c) /\ o.at = "check"
    <2>1. CASE Fabric!Extend(c, f)
      <3>1. Fabric!Operation(c, "extend", f).alone = Fabric!Alone(c) /\ Fabric!Operation(c, "extend", f).at = "check"
        BY DEF Fabric!Operation
      <3>2. QED
        BY <2>1, <3>1 DEF Fabric!Extend
    <2>2. CASE Fabric!Delete(c, f)
      <3>1. Fabric!Operation(c, "delete", f).alone = Fabric!Alone(c) /\ Fabric!Operation(c, "delete", f).at = "check"
        BY DEF Fabric!Operation
      <3>2. QED
        BY <2>2, <3>1 DEF Fabric!Delete
    <2>3. CASE \E p \in FabricPrefixes : Fabric!Create(c, f, p)
      <3>1. PICK p \in FabricPrefixes : Fabric!Create(c, f, p)
        BY <2>3
      <3> DEFINE o == [Fabric!Operation(c, "create", f) EXCEPT !.prefix = p]
      <3>2. o.alone = Fabric!Alone(c) /\ o.at = "check"
        BY DEF Fabric!Operation
      <3>3. QED
        BY <3>1, <3>2 DEF Fabric!Create
    <2>4. QED
      BY <2>1, <2>2, <2>3
  <1>2. UNCHANGED <<members, claim, said, jobs>>
    BY DEF Fabric!Extend, Fabric!Delete, Fabric!Create
  <1>3. /\ op'[c].at = "check" /\ jobs' = {} /\ Fabric!Agree /\ \A m \in FabricNodes \ {c} : op'[m].at = "rest"
    <2>1. PICK o : Fabric!Begin(c, o) /\ o.alone = Fabric!Alone(c) /\ o.at = "check"
      BY <1>1
    <2>2. QED
      BY <1>2, <2>1, FabricBegunAlone
  <1>4. Fabric!Agree'
    BY <1>2, <1>3 DEF Fabric!Agree
  <1>5. QED
    BY <1>3, <1>4 DEF Fabric!CalmFits

LEMMA FabricSeenIs ==
  ASSUME Fabric!TypeOK, NEW c \in s1, Fabric!Agree, NEW n \in s1
  PROVE Fabric!Seen(c)[n] = s2[n]
  BY DEF Fabric!Seen, Fabric!Agree, Fabric!TypeOK, Fabric!ClaimsOK

LEMMA FabricJoinCalm ==
  ASSUME Fabric!FabricAssumption, Fabric!TypeOK, Fabric!OutsideHoldNothing, NEW x \in FabricNodes, NEW by \in FabricNodes, Fabric!Join(x, by), Fabric!Calm(x)'
  PROVE Fabric!CalmFits(x)'
  <1> DEFINE members == s1  claim == s2  op == s8  jobs == s9
  <1> DEFINE o == [Fabric!Operation(x, "join", Fabric!NoFabric) EXCEPT !.at = "offers", !.want = Fabric!Offers(x, by)]
  <1>1. Fabric!Begin(x, o) /\ x \notin members /\ by \in members /\ members' = members \cup {x} /\ claim' = claim /\ jobs' = jobs
    BY DEF Fabric!Join
  <1>2. o.alone = Fabric!Alone(x) /\ o.at = "offers" /\ o.kind = "join" /\ o.want = Fabric!Offers(x, by)
    BY DEF Fabric!Operation
  <1> HIDE DEF o
  <1>3. /\ op'[x] = o /\ jobs = {} /\ Fabric!Agree /\ jobs' = {} /\ \A m \in FabricNodes \ {x} : op'[m].at = "rest"
    BY <1>1, <1>2, FabricBegunAlone
  <1>4. ASSUME NEW n \in members' \ {x} PROVE n \in members /\ claim'[n] = claim[n] /\ Fabric!Seen(by)[n] = claim[n] /\ n \in FabricNodes
    BY <1>1, <1>3, <1>4, FabricSeenIs DEF Fabric!TypeOK, Fabric!ClaimsOK
  <1>5. ASSUME NEW n \in members' \ {x}, NEW q \in Fabric!Offers(x, by), claim[n][q.fabric].prefix = q.prefix
        PROVE claim[n][q.fabric].subnet # q.subnet
    <2>1. [to |-> x, subnet |-> q.subnet] \in Fabric!Allocation(Fabric!Seen(by), q.fabric, q.prefix, members \cup {x})
      BY DEF Fabric!Offers
    <2>2. members \cup {x} \subseteq FabricNodes /\ n \in members \cup {x}
      BY <1>4 DEF Fabric!TypeOK, Fabric!ClaimsOK
    <2>3. Fabric!Seen(by)[n][q.fabric].subnet # q.subnet
      BY <1>4, <1>5, <2>1, <2>2, FabricAllocationIs
    <2>4. QED
      BY <1>4, <2>3
  <1>6. \A g \in Twins : ~Fabric!Held(claim[x][g])
    BY <1>1, FabricNothingIsClaims DEF Fabric!OutsideHoldNothing
  <1>7. Fabric!Offered(x)' = Fabric!Offers(x, by)
    BY <1>2, <1>3 DEF Fabric!Offered
  <1>8. Fabric!Joined(x)'
    BY <1>1, <1>4, <1>5, <1>6, <1>7 DEF Fabric!Joined, Fabric!Held, Fabric!NoClaim
  <1>9. QED
    BY <1>2, <1>3, <1>8 DEF Fabric!CalmFits

LEMMA FabricRestIsNotCalm == ASSUME NEW c \in FabricNodes, Fabric!TypeOK, s8' = [s8 EXCEPT ![c] = Fabric!Resting] PROVE ~Fabric!Calm(c)'
  BY DEF Fabric!TypeOK, Fabric!OpsOK, Fabric!Calm, Fabric!Resting

\* What one operation's step changes of the operations.
LEMMA FabricOneOp ==
  ASSUME Fabric!TypeOK, NEW c \in FabricNodes, NEW o, s8' = [s8 EXCEPT ![c] = o], Fabric!CalmFits(c)
  PROVE s8'[c] = o /\ \A m \in FabricNodes \ {c} : s8'[m].at = "rest"
  BY DEF Fabric!TypeOK, Fabric!OpsOK, Fabric!CalmFits

LEMMA FabricNobodyHas ==
  ASSUME Fabric!TypeOK, NEW f \in Twins, NEW p \in FabricPrefixes, Fabric!FabricAssumption, Fabric!Defined(s2, f) = {}, NEW n \in s1
  PROVE s2[n][f].prefix # p
  <1> DEFINE claim == s2
  <1>1. ~Fabric!Held(claim[n][f])
    BY DEF Fabric!Defined
  <1>2. claim[n] \in Fabric!Claims
    BY DEF Fabric!TypeOK, Fabric!ClaimsOK
  <1>3. QED
    BY <1>1, <1>2, FabricPrefixIsSome

LEMMA FabricCreateCheckCalm ==
  ASSUME Fabric!FabricAssumption, Fabric!TypeOK, NEW c \in FabricNodes, Fabric!CheckCreate(c), Fabric!CalmFits(c), Fabric!Calm(c)'
  PROVE Fabric!CalmFits(c)'
  <1> DEFINE members == s1  claim == s2  said == s3  op == s8  jobs == s9
  <1> DEFINE f == op[c].fabric
             p == op[c].prefix
             want == Fabric!Allocation(Fabric!Seen(c), f, p, members)
             on == [op[c] EXCEPT !.at = "begin", !.want = want, !.fresh = members]
  <1>0. Fabric!OpFits(op[c], members) /\ members \subseteq FabricNodes /\ c \in members /\ op = [n \in FabricNodes |-> op[n]]
        /\ jobs = {} /\ Fabric!Agree
    BY DEF Fabric!TypeOK, Fabric!OpsOK, Fabric!ClaimsOK, Fabric!CheckCreate, Fabric!CalmFits
  <1>1. /\ UNCHANGED <<members, claim, said, jobs>>
        /\ op[c].kind = "create" /\ f \in Twins /\ p \in FabricPrefixes
    BY <1>0 DEF Fabric!CheckCreate, Fabric!OpFits
  <1>2. op' # [op EXCEPT ![c] = Fabric!Resting]
    BY FabricRestIsNotCalm
  <1>3. /\ op' = [op EXCEPT ![c] = on] /\ Fabric!Defined(claim, f) = {}
        /\ Fabric!Suffices(Fabric!Seen(c), f, p, members)
    BY <1>0, <1>2 DEF Fabric!CheckCreate
  <1>4. \A n \in members : claim[n][f].prefix # p /\ Fabric!Seen(c)[n] = claim[n]
    BY <1>0, <1>1, <1>3, FabricNobodyHas, FabricSeenIs
  <1>5. \A n \in members : \E a \in want : a.to = n
    BY <1>3, <1>4 DEF Fabric!Suffices, Fabric!Keeps
  <1>6. \A a, b \in want : a.to = b.to <=> a.subnet = b.subnet
    BY <1>0, FabricAllocationIs
  <1> HIDE DEF want
  <1>7. /\ op'[c] = on /\ \A m \in FabricNodes \ {c} : op'[m].at = "rest"
    BY <1>3, FabricOneOp
  <1>8. on.at = "begin" /\ on.want = want /\ on.kind = "create" /\ on.fabric = f /\ on.prefix = p
    BY <1>0, <1>1 DEF Fabric!OpFits
  <1> HIDE DEF on, f, p
  <1>9. Fabric!Due(c)' = want
    BY <1>0, <1>1, <1>7, <1>8 DEF Fabric!Due
  <1>10. Fabric!GivenOut(c)'
    BY <1>1, <1>4, <1>5, <1>6, <1>7, <1>8, <1>9 DEF Fabric!GivenOut, Fabric!Has, Fabric!IsDue
  <1>11. QED
    BY <1>0, <1>1, <1>7, <1>8, <1>10 DEF Fabric!CalmFits

LEMMA FabricExtendCheckCalm ==
  ASSUME Fabric!FabricAssumption, Fabric!TypeOK, NEW c \in FabricNodes, Fabric!CheckExtend(c), Fabric!CalmFits(c), Fabric!Calm(c)'
  PROVE Fabric!CalmFits(c)'
  <1> DEFINE members == s1  claim == s2  said == s3  op == s8  jobs == s9
  <1> DEFINE f == op[c].fabric
  <1>0. Fabric!OpFits(op[c], members) /\ members \subseteq FabricNodes /\ c \in members /\ op = [n \in FabricNodes |-> op[n]]
        /\ jobs = {} /\ Fabric!Agree
    BY DEF Fabric!TypeOK, Fabric!OpsOK, Fabric!ClaimsOK, Fabric!CheckExtend, Fabric!CalmFits
  <1>1. /\ UNCHANGED <<members, claim, said, jobs>>
        /\ op[c].kind = "extend" /\ f \in Twins
    BY <1>0 DEF Fabric!CheckExtend, Fabric!OpFits
  <1>2. op' # [op EXCEPT ![c] = Fabric!Resting]
    BY FabricRestIsNotCalm
  <1>3. PICK p \in FabricPrefixes, missing \in SUBSET members,
           want \in SUBSET [to : members, subnet : FabricSubnets] :
              /\ missing = {n \in members : Fabric!Seen(c)[n][op[c].fabric].prefix # p}
              /\ want = {a \in Fabric!Allocation(Fabric!Seen(c), op[c].fabric, p, members) : a.to \in missing}
              /\ Fabric!Suffices(Fabric!Seen(c), op[c].fabric, p, members)
              /\ op' = [op EXCEPT ![c] = [op[c] EXCEPT !.at = "begin", !.prefix = p, !.want = want,
                                                       !.fresh = missing]]
    BY <1>2, FabricExtendGoesOn
  <1> DEFINE on == [op[c] EXCEPT !.at = "begin", !.prefix = p, !.want = want, !.fresh = missing]
  <1>4. \A n \in members : Fabric!Seen(c)[n] = claim[n]
    BY <1>0, FabricSeenIs
  <1>5. \A n \in missing : \E a \in want : a.to = n
    <2>1. ASSUME NEW n \in missing PROVE \E a \in want : a.to = n
      <3>1. n \in members \ Fabric!Keeps(Fabric!Seen(c), f, p, members)
        BY <1>3 DEF Fabric!Keeps
      <3>2. QED
        BY <1>3, <3>1 DEF Fabric!Suffices
    <2>2. QED
      BY <2>1
  <1>6. \A a, b \in want : a.to = b.to <=> a.subnet = b.subnet
    BY <1>0, <1>3, FabricAllocationIs
  <1>7. \A a \in want : \A n \in members : claim[n][f].prefix = p => claim[n][f].subnet # a.subnet
    BY <1>0, <1>3, <1>4, FabricAllocationIs
  <1>8. \A n \in members : n \in missing <=> claim[n][f].prefix # p
    BY <1>3, <1>4
  <1>9. /\ op'[c] = on /\ \A m \in FabricNodes \ {c} : op'[m].at = "rest"
    BY <1>3, FabricOneOp
  <1>10. on.at = "begin" /\ on.want = want /\ on.kind = "extend" /\ on.fabric = f /\ on.prefix = p /\ on.fresh = missing
    BY <1>0, <1>1 DEF Fabric!OpFits
  <1> HIDE DEF on, f
  <1>11. Fabric!Due(c)' = want
    BY <1>0, <1>1, <1>9, <1>10 DEF Fabric!Due
  <1>12. Fabric!GivenOut(c)'
    BY <1>1, <1>5, <1>6, <1>7, <1>8, <1>9, <1>10, <1>11 DEF Fabric!GivenOut, Fabric!Has, Fabric!IsDue
  <1>13. QED
    BY <1>0, <1>1, <1>9, <1>10, <1>12 DEF Fabric!CalmFits

LEMMA FabricDeleteCheckCalm ==
  ASSUME Fabric!TypeOK, NEW c \in FabricNodes, Fabric!CheckDelete(c), Fabric!CalmFits(c), Fabric!Calm(c)'
  PROVE Fabric!CalmFits(c)'
  <1> DEFINE members == s1  claim == s2  said == s3  op == s8  jobs == s9
  <1> DEFINE want == {[to |-> n, subnet |-> 0] : n \in members}
             on == [op[c] EXCEPT !.at = "tell", !.want = want]
  <1>0. Fabric!OpFits(op[c], members) /\ op = [n \in FabricNodes |-> op[n]] /\ jobs = {}
    BY DEF Fabric!TypeOK, Fabric!OpsOK, Fabric!CheckDelete, Fabric!CalmFits
  <1>1. /\ UNCHANGED <<members, claim, said, jobs>> /\ op[c].kind = "delete"
    BY <1>0 DEF Fabric!CheckDelete
  <1>2. op' # [op EXCEPT ![c] = Fabric!Resting]
    BY FabricRestIsNotCalm
  <1>3. op' = [op EXCEPT ![c] = on]
    BY <1>0, <1>2 DEF Fabric!CheckDelete
  <1>7. /\ op'[c] = on /\ \A m \in FabricNodes \ {c} : op'[m].at = "rest"
    BY <1>3, FabricOneOp
  <1>8. on.at = "tell" /\ on.want = want /\ on.kind = "delete"
    BY <1>0, <1>1 DEF Fabric!OpFits
  <1> HIDE DEF on
  <1>9. Fabric!Cleared(c)'
    BY <1>1, <1>7, <1>8 DEF Fabric!Cleared, Fabric!Going
  <1>10. QED
    BY <1>0, <1>1, <1>7, <1>8, <1>9 DEF Fabric!CalmFits

LEMMA FabricGivenStays ==
  ASSUME NEW c \in FabricNodes, Fabric!GivenOut(c), s1' = s1, s2' = s2, Fabric!Due(c)' = Fabric!Due(c),
         s8'[c].fabric = s8[c].fabric, s8'[c].prefix = s8[c].prefix, s8'[c].fresh = s8[c].fresh,
         s8'[c].at = "tell" => \A a \in s8'[c].want : a.to # c
  PROVE Fabric!GivenOut(c)'
  BY DEF Fabric!GivenOut, Fabric!Has, Fabric!IsDue

LEMMA FabricJoinedStays ==
  ASSUME NEW c \in FabricNodes, Fabric!Joined(c), s1' = s1, s2' = s2, Fabric!Offered(c)' = Fabric!Offered(c)
  PROVE Fabric!Joined(c)'
  BY DEF Fabric!Joined

\* Nothing is under way when the next step of an operation is taken.
LEMMA FabricNothingRuns == ASSUME NEW c \in FabricNodes, Fabric!CalmFits(c), Fabric!JobsOf(c) = {} PROVE s9 = {}
  <1> DEFINE op == s8  jobs == s9
  <1>1. ASSUME NEW j \in jobs PROVE FALSE
    <2>1. j.by = c /\ (j.kind = "mark" \/ j.kind = "lift")
      BY DEF Fabric!CalmFits, Fabric!JobsOf
    <2>2. op[c].at = "last"
      BY <2>1 DEF Fabric!CalmFits, Fabric!Works
    <2>3. QED
      BY <2>1, <2>2 DEF Fabric!CalmFits, Fabric!Levels
  <1>2. QED
    BY <1>1

LEMMA FabricHandCalm ==
  ASSUME Fabric!TypeOK, NEW c \in FabricNodes, Fabric!HandOut(c), Fabric!CalmFits(c)
  PROVE Fabric!CalmFits(c)'
  <1> DEFINE members == s1  claim == s2  op == s8  jobs == s9
  <1> DEFINE left == {a \in op[c].want : a.to # c}
             on == [op[c] EXCEPT !.at = "tell", !.want = left]
             K == {Fabric!Job("claim", a.to, c, op[c], a.subnet) : a \in {b \in op[c].want : b.to = c}}
  <1>0. Fabric!OpFits(op[c], members) /\ op = [n \in FabricNodes |-> op[n]] /\ op[c].at = "begin" /\ jobs = {}
    BY FabricNothingRuns DEF Fabric!TypeOK, Fabric!OpsOK, Fabric!HandOut
  <1>1. /\ op[c].kind \in {"create", "extend"} /\ members' = members /\ claim' = claim
        /\ op[c].want \subseteq [to : members, subnet : FabricSubnets]
    BY <1>0 DEF Fabric!HandOut, Fabric!OpFits
  <1>2. op' = [op EXCEPT ![c] = on] /\ jobs' = K
    BY <1>0 DEF Fabric!HandOut
  <1>3. /\ on.at = "tell" /\ on.want = left /\ on.kind = op[c].kind /\ on.fabric = op[c].fabric
        /\ on.prefix = op[c].prefix /\ on.fresh = op[c].fresh
    BY <1>0 DEF Fabric!OpFits
  <1>4. \A k \in K : k.at = "call" /\ k.by = c /\ k.kind = "claim" /\ k.fabric = op[c].fabric /\ k.claim.prefix = op[c].prefix
    BY DEF Fabric!Job
  <1>5. {[to |-> k.node, subnet |-> k.claim.subnet] : k \in {i \in K : i.at = "call"}} = {a \in op[c].want : a.to = c}
    <2>1. ASSUME NEW a \in op[c].want, a.to = c
          PROVE \E k \in K : k.at = "call" /\ a = [to |-> k.node, subnet |-> k.claim.subnet]
      <3> DEFINE k == Fabric!Job("claim", a.to, c, op[c], a.subnet)
      <3>1. k \in K
        BY <2>1
      <3>2. k.node = a.to /\ k.claim.subnet = a.subnet /\ k.at = "call"
        BY DEF Fabric!Job
      <3>3. a = [to |-> a.to, subnet |-> a.subnet]
        BY <1>1
      <3> HIDE DEF k, K
      <3>4. QED
        BY <3>1, <3>2, <3>3
    <2>2. ASSUME NEW k \in K PROVE [to |-> k.node, subnet |-> k.claim.subnet] \in {a \in op[c].want : a.to = c}
      <3>1. PICK a \in op[c].want : a.to = c /\ k = Fabric!Job("claim", a.to, c, op[c], a.subnet)
        OBVIOUS
      <3>2. k.node = a.to /\ k.claim.subnet = a.subnet
        BY <3>1 DEF Fabric!Job
      <3>3. a = [to |-> a.to, subnet |-> a.subnet]
        BY <1>1
      <3>4. QED
        BY <3>1, <3>2, <3>3
    <2> HIDE DEF K
    <2>3. QED
      BY <2>1, <2>2
  <1> HIDE DEF on, K
  <1>6. op'[c] = on /\ \A m \in FabricNodes \ {c} : op'[m].at = "rest"
    BY <1>2, FabricOneOp
  <1>7. Fabric!Due(c) = op[c].want
    BY <1>0 DEF Fabric!Due
  <1>8. Fabric!Due(c)' = op[c].want
    <2>1. Fabric!Due(c)' = left \cup {[to |-> k.node, subnet |-> k.claim.subnet] : k \in {i \in K : i.at = "call"}}
      BY <1>2, <1>3, <1>6 DEF Fabric!Due
    <2>2. QED
      BY <2>1, <1>5
  <1>9. Fabric!GivenOut(c)
    BY <1>0, <1>1 DEF Fabric!CalmFits
  <1>10. Fabric!GivenOut(c)'
    BY <1>1, <1>3, <1>6, <1>7, <1>8, <1>9, FabricGivenStays
  <1>11. \A k \in jobs' : Fabric!Works(c, k)' /\ k.by = c
    BY <1>1, <1>2, <1>3, <1>4, <1>6 DEF Fabric!Works
  <1>12. QED
    BY <1>1, <1>3, <1>6, <1>10, <1>11 DEF Fabric!CalmFits

LEMMA FabricTellCalm ==
  ASSUME Fabric!TypeOK, NEW c \in FabricNodes, Fabric!Tell(c), Fabric!CalmFits(c)
  PROVE Fabric!CalmFits(c)'
  <1> DEFINE members == s1  claim == s2  op == s8  jobs == s9
  <1> DEFINE on == [op[c] EXCEPT !.at = IF op[c].kind = "delete" THEN "leave" ELSE "level"]
             K == {Fabric!Job(Fabric!Kind(op[c]), a.to, c, op[c], a.subnet) : a \in {b \in op[c].want : b.to # c}}
  <1>0. Fabric!OpFits(op[c], members) /\ op = [n \in FabricNodes |-> op[n]] /\ op[c].at = "tell" /\ jobs = {}
    BY FabricNothingRuns DEF Fabric!TypeOK, Fabric!OpsOK, Fabric!Tell
  <1>1. /\ op[c].kind \in {"create", "extend", "delete"} /\ members' = members /\ claim' = claim
        /\ op[c].kind \in {"create", "extend"} => op[c].want \subseteq [to : members, subnet : FabricSubnets]
    BY <1>0 DEF Fabric!Tell, Fabric!OpFits
  <1>2. op' = [op EXCEPT ![c] = on] /\ jobs' = K
    BY <1>0 DEF Fabric!Tell
  <1>3. /\ on.at = (IF op[c].kind = "delete" THEN "leave" ELSE "level") /\ on.kind = op[c].kind
        /\ on.fabric = op[c].fabric /\ on.prefix = op[c].prefix /\ on.fresh = op[c].fresh
    BY <1>0 DEF Fabric!OpFits
  <1>4. \A k \in K : k.at = "call" /\ k.by = c /\ k.kind = Fabric!Kind(op[c]) /\ k.fabric = op[c].fabric /\ k.claim.prefix = op[c].prefix
    BY DEF Fabric!Job
  <1>5. ASSUME NEW a \in op[c].want, a.to # c
        PROVE \E k \in K : k.at = "call" /\ k.node = a.to /\ k.claim.subnet = a.subnet
    <2> DEFINE k == Fabric!Job(Fabric!Kind(op[c]), a.to, c, op[c], a.subnet)
    <2>1. k \in K
      BY <1>5
    <2>2. k.node = a.to /\ k.claim.subnet = a.subnet /\ k.at = "call"
      BY DEF Fabric!Job
    <2> HIDE DEF k, K
    <2>3. QED
      BY <2>1, <2>2
  <1>6. ASSUME NEW k \in K PROVE \E a \in op[c].want : k.node = a.to /\ k.claim.subnet = a.subnet
    BY DEF Fabric!Job
  <1> HIDE DEF on, K
  <1>7. op'[c] = on /\ \A m \in FabricNodes \ {c} : op'[m].at = "rest"
    BY <1>2, FabricOneOp
  <1>8. \A k \in jobs' : Fabric!Works(c, k)' /\ k.by = c
    BY <1>1, <1>2, <1>3, <1>4, <1>7 DEF Fabric!Works, Fabric!Kind
  <1>9. CASE op[c].kind \in {"create", "extend"}
    <2>1. Fabric!GivenOut(c) /\ \A a \in op[c].want : a.to # c
      BY <1>0, <1>9 DEF Fabric!CalmFits, Fabric!GivenOut
    <2>2. Fabric!Due(c) = op[c].want
      BY <1>0 DEF Fabric!Due
    <2>3. {[to |-> k.node, subnet |-> k.claim.subnet] : k \in {i \in K : i.at = "call"}} = op[c].want
      <3>1. \A a \in op[c].want : a = [to |-> a.to, subnet |-> a.subnet]
        BY <1>1, <1>9
      <3>2. ASSUME NEW a \in op[c].want
            PROVE a \in {[to |-> k.node, subnet |-> k.claim.subnet] : k \in {i \in K : i.at = "call"}}
        <4>1. PICK k \in K : k.at = "call" /\ k.node = a.to /\ k.claim.subnet = a.subnet
          BY <1>5, <2>1
        <4>2. QED
          BY <3>1, <4>1
      <3>3. ASSUME NEW k \in K PROVE [to |-> k.node, subnet |-> k.claim.subnet] \in op[c].want
        BY <1>6, <3>1
      <3>4. QED
        BY <3>2, <3>3
    <2>4. Fabric!Due(c)' = {[to |-> k.node, subnet |-> k.claim.subnet] : k \in {i \in K : i.at = "call"}}
      BY <1>2, <1>3, <1>7, <1>9 DEF Fabric!Due
    <2>5. Fabric!GivenOut(c)'
      BY <1>1, <1>3, <1>7, <1>9, <2>1, <2>2, <2>3, <2>4, FabricGivenStays
    <2>6. QED
      BY <1>3, <1>7, <1>8, <1>9, <2>5 DEF Fabric!CalmFits
  <1>10. CASE op[c].kind = "delete"
    <2>1. op[c].want = {[to |-> n, subnet |-> 0] : n \in members}
      BY <1>0, <1>10 DEF Fabric!CalmFits, Fabric!Cleared
    <2>2. ASSUME NEW n \in members, n # c PROVE \E k \in K : k.at = "call" /\ k.node = n
      <3>1. [to |-> n, subnet |-> 0] \in op[c].want
        BY <2>1
      <3>2. QED
        BY <1>5, <2>2, <3>1
    <2>3. Fabric!Cleared(c)'
      BY <1>1, <1>2, <1>3, <1>7, <1>10, <2>2 DEF Fabric!Cleared, Fabric!Going
    <2>4. QED
      BY <1>3, <1>7, <1>8, <1>10, <2>3 DEF Fabric!CalmFits
  <1>11. QED
    BY <1>1, <1>9, <1>10

LEMMA FabricLeaveCalm ==
  ASSUME Fabric!TypeOK, NEW c \in FabricNodes, Fabric!LeaveHere(c), Fabric!CalmFits(c)
  PROVE Fabric!CalmFits(c)'
  <1> DEFINE members == s1  claim == s2  op == s8  jobs == s9
  <1> DEFINE on == [op[c] EXCEPT !.at = "level"]
             k == Fabric!Job("drop", c, c, op[c], 0)
  <1>0. Fabric!OpFits(op[c], members) /\ op = [n \in FabricNodes |-> op[n]] /\ op[c].at = "leave" /\ jobs = {}
    BY FabricNothingRuns DEF Fabric!TypeOK, Fabric!OpsOK, Fabric!LeaveHere
  <1>1. op[c].kind = "delete" /\ members' = members /\ claim' = claim
    BY <1>0 DEF Fabric!LeaveHere, Fabric!OpFits
  <1>2. op' = [op EXCEPT ![c] = on] /\ jobs' = {k}
    BY <1>0 DEF Fabric!LeaveHere
  <1>3. on.at = "level" /\ on.kind = op[c].kind /\ on.fabric = op[c].fabric /\ on.prefix = op[c].prefix
    BY <1>0 DEF Fabric!OpFits
  <1>4. k.at = "call" /\ k.node = c /\ k.by = c /\ k.kind = "drop" /\ k.fabric = op[c].fabric
    BY DEF Fabric!Job
  <1> HIDE DEF on, k
  <1>5. op'[c] = on /\ \A m \in FabricNodes \ {c} : op'[m].at = "rest"
    BY <1>2, FabricOneOp
  <1>6. \A n \in members : Fabric!Held(claim[n][op[c].fabric]) => n = c
    BY <1>0, <1>1 DEF Fabric!CalmFits, Fabric!Cleared, Fabric!Going
  <1>7. Fabric!Cleared(c)'
    BY <1>1, <1>2, <1>3, <1>4, <1>5, <1>6 DEF Fabric!Cleared, Fabric!Going
  <1>8. \A j \in jobs' : Fabric!Works(c, j)' /\ j.by = c
    BY <1>1, <1>2, <1>3, <1>4, <1>5 DEF Fabric!Works
  <1>9. QED
    BY <1>1, <1>2, <1>3, <1>4, <1>5, <1>7, <1>8 DEF Fabric!CalmFits

LEMMA FabricLevelCalm ==
  ASSUME Fabric!TypeOK, NEW c \in FabricNodes, Fabric!LevelOnce(c), Fabric!CalmFits(c)
  PROVE Fabric!CalmFits(c)'
  <1> DEFINE members == s1  claim == s2  op == s8  jobs == s9
  <1> DEFINE on == [op[c] EXCEPT !.at = "last"]
             k == [Fabric!Job("level", c, c, op[c], 0) EXCEPT !.at = "sync", !.read = claim[c], !.left = members \ {c}]
  <1>0. Fabric!OpFits(op[c], members) /\ op = [n \in FabricNodes |-> op[n]] /\ op[c].at = "level" /\ jobs = {}
    BY FabricNothingRuns DEF Fabric!TypeOK, Fabric!OpsOK, Fabric!LevelOnce
  <1>1. members' = members /\ claim' = claim
    BY DEF Fabric!LevelOnce
  <1>2. op' = [op EXCEPT ![c] = on] /\ jobs' = {k}
    BY <1>0 DEF Fabric!LevelOnce
  <1>3. /\ on.at = "last" /\ on.kind = op[c].kind /\ on.fabric = op[c].fabric /\ on.prefix = op[c].prefix
        /\ on.fresh = op[c].fresh
    BY <1>0 DEF Fabric!OpFits
  <1>4. /\ k.at = "sync" /\ k.node = c /\ k.by = c /\ k.kind = "level" /\ k.read = claim[c]
        /\ k.left = members \ {c} /\ k.got = {}
    BY DEF Fabric!Job
  <1> HIDE DEF on, k
  <1>5. op'[c] = on /\ \A m \in FabricNodes \ {c} : op'[m].at = "rest"
    BY <1>2, FabricOneOp
  <1>6. Fabric!Due(c) = {} /\ Fabric!Due(c)' = {} /\ Fabric!Offered(c) = {} /\ Fabric!Offered(c)' = {}
    BY <1>0, <1>2, <1>3, <1>4, <1>5 DEF Fabric!Due, Fabric!Offered
  <1>7. op[c].kind \in {"create", "extend"} => Fabric!GivenOut(c)'
    <2>1. op[c].kind \in {"create", "extend"} => Fabric!GivenOut(c)
      BY <1>0 DEF Fabric!CalmFits
    <2>2. QED
      BY <1>1, <1>3, <1>5, <1>6, <2>1, FabricGivenStays
  <1>8. op[c].kind = "delete" => Fabric!Cleared(c)'
    <2>1. op[c].kind = "delete" => \A n \in members : ~Fabric!Held(claim[n][op[c].fabric])
      BY <1>0 DEF Fabric!CalmFits, Fabric!Cleared, Fabric!Going
    <2>2. QED
      BY <1>1, <1>3, <1>5, <2>1 DEF Fabric!Cleared
  <1>9. op[c].kind = "join" => Fabric!Joined(c)'
    <2>1. op[c].kind = "join" => Fabric!Joined(c)
      BY <1>0 DEF Fabric!CalmFits
    <2>2. QED
      BY <1>1, <1>6, <2>1, FabricJoinedStays
  <1>10. \E j \in jobs' : jobs' = {j} /\ Fabric!Levels(c, j)' /\ j.by = c
    BY <1>1, <1>2, <1>4 DEF Fabric!Levels
  <1>11. QED
    BY <1>2, <1>3, <1>4, <1>5, <1>7, <1>8, <1>9, <1>10 DEF Fabric!CalmFits

LEMMA FabricEndCalm ==
  ASSUME Fabric!TypeOK, NEW c \in FabricNodes, Fabric!OpEnds(c), Fabric!CalmFits(c)
  PROVE Fabric!CalmFits(c)'
  <1> DEFINE members == s1  claim == s2  said == s3  op == s8  jobs == s9
  <1> DEFINE on == [op[c] EXCEPT !.at = "done"]
  <1>0. Fabric!OpFits(op[c], members) /\ op = [n \in FabricNodes |-> op[n]] /\ op[c].at = "last" /\ jobs = {}
    BY FabricNothingRuns DEF Fabric!TypeOK, Fabric!OpsOK, Fabric!OpEnds
  <1>1. UNCHANGED <<members, claim, said, jobs>> /\ op' = [op EXCEPT ![c] = on]
    BY <1>0 DEF Fabric!OpEnds
  <1>2. /\ on.at = "done" /\ on.kind = op[c].kind /\ on.fabric = op[c].fabric /\ on.prefix = op[c].prefix
        /\ on.fresh = op[c].fresh
    BY <1>0 DEF Fabric!OpFits
  <1> HIDE DEF on
  <1>3. op'[c] = on /\ \A m \in FabricNodes \ {c} : op'[m].at = "rest"
    BY <1>1, FabricOneOp
  <1>4. Fabric!Due(c) = {} /\ Fabric!Due(c)' = {} /\ Fabric!Offered(c) = {} /\ Fabric!Offered(c)' = {}
    BY <1>0, <1>1, <1>2, <1>3 DEF Fabric!Due, Fabric!Offered
  <1>5. op[c].kind \in {"create", "extend"} => Fabric!GivenOut(c)'
    <2>1. op[c].kind \in {"create", "extend"} => Fabric!GivenOut(c)
      BY <1>0 DEF Fabric!CalmFits
    <2>2. QED
      BY <1>1, <1>2, <1>3, <1>4, <2>1, FabricGivenStays
  <1>6. op[c].kind = "delete" => Fabric!Cleared(c)'
    <2>1. op[c].kind = "delete" => \A n \in members : ~Fabric!Held(claim[n][op[c].fabric])
      BY <1>0 DEF Fabric!CalmFits, Fabric!Cleared, Fabric!Going
    <2>2. QED
      BY <1>1, <1>2, <1>3, <2>1 DEF Fabric!Cleared
  <1>7. op[c].kind = "join" => Fabric!Joined(c)'
    <2>1. op[c].kind = "join" => Fabric!Joined(c)
      BY <1>0 DEF Fabric!CalmFits
    <2>2. QED
      BY <1>1, <1>4, <2>1, FabricJoinedStays
  <1>8. Fabric!Levelled(c)
    BY <1>0 DEF Fabric!CalmFits
  <1>9. Fabric!Levelled(c)'
    BY <1>1, <1>8 DEF Fabric!Levelled, Fabric!Told
  <1>10. QED
    BY <1>0, <1>1, <1>2, <1>3, <1>5, <1>6, <1>7, <1>9 DEF Fabric!CalmFits

LEMMA FabricOfferCalm ==
  ASSUME Fabric!TypeOK, NEW x \in FabricNodes, Fabric!TakeOffer(x), Fabric!CalmFits(x)
  PROVE Fabric!CalmFits(x)'
  <1> DEFINE members == s1  claim == s2  op == s8  jobs == s9
  <1>0. Fabric!OpFits(op[x], members) /\ op = [n \in FabricNodes |-> op[n]] /\ op[x].at = "offers" /\ jobs = {}
    BY FabricNothingRuns DEF Fabric!TypeOK, Fabric!OpsOK, Fabric!TakeOffer
  <1>1. /\ op[x].kind = "join" /\ members' = members /\ claim' = claim /\ Fabric!Joined(x)
        /\ op[x].want \subseteq [fabric : Twins, prefix : FabricPrefixes, subnet : FabricSubnets]
    BY <1>0 DEF Fabric!TakeOffer, Fabric!OpFits, Fabric!CalmFits
  <1>2. Fabric!Offered(x) = op[x].want
    BY <1>0 DEF Fabric!Offered
  <1>3. CASE op[x].want = {}
    <2> DEFINE on == [op[x] EXCEPT !.at = "level"]
    <2>1. op' = [op EXCEPT ![x] = on] /\ jobs' = {}
      BY <1>0, <1>3 DEF Fabric!TakeOffer
    <2>2. on.at = "level" /\ on.kind = "join"
      BY <1>0, <1>1 DEF Fabric!OpFits
    <2> HIDE DEF on
    <2>3. op'[x] = on /\ \A m \in FabricNodes \ {x} : op'[m].at = "rest"
      BY <2>1, FabricOneOp
    <2>4. Fabric!Offered(x)' = {}
      BY <2>1, <2>2, <2>3 DEF Fabric!Offered
    <2>5. Fabric!Joined(x)'
      BY <1>1, <1>2, <1>3, <2>4, FabricJoinedStays
    <2>6. QED
      BY <2>1, <2>2, <2>3, <2>5 DEF Fabric!CalmFits
  <1>4. CASE op[x].want # {}
    <2>1. PICK offer \in op[x].want :
             /\ jobs' = jobs \cup {Fabric!Job("claim", x, x, offer, offer.subnet)}
             /\ op' = [op EXCEPT ![x].want = @ \ {offer}]
      BY <1>4 DEF Fabric!TakeOffer
    <2> DEFINE on == [op[x] EXCEPT !.want = op[x].want \ {offer}]
               k == Fabric!Job("claim", x, x, offer, offer.subnet)
    <2>2. op' = [op EXCEPT ![x] = on] /\ jobs' = {k}
      BY <1>0, <2>1
    <2>3. on.at = "offers" /\ on.kind = "join" /\ on.want = op[x].want \ {offer}
      BY <1>0, <1>1 DEF Fabric!OpFits
    <2>4. /\ k.at = "call" /\ k.by = x /\ k.node = x /\ k.kind = "claim" /\ k.fabric = offer.fabric
          /\ k.claim.prefix = offer.prefix /\ k.claim.subnet = offer.subnet
      BY DEF Fabric!Job
    <2>5. offer = [fabric |-> offer.fabric, prefix |-> offer.prefix, subnet |-> offer.subnet]
      BY <1>1
    <2> HIDE DEF on, k
    <2>6. op'[x] = on /\ \A m \in FabricNodes \ {x} : op'[m].at = "rest"
      BY <2>2, FabricOneOp
    <2>7. Fabric!Offered(x)' = (op[x].want \ {offer}) \cup {offer}
      <3>1. {[fabric |-> j.fabric, prefix |-> j.claim.prefix, subnet |-> j.claim.subnet] : j \in {i \in {k} : i.at = "call"}} = {offer}
        BY <2>4, <2>5
      <3>2. QED
        BY <2>2, <2>3, <2>6, <3>1 DEF Fabric!Offered
    <2>8. Fabric!Joined(x)'
      BY <1>1, <1>2, <2>7, FabricJoinedStays
    <2>9. \A j \in jobs' : Fabric!Works(x, j)' /\ j.by = x
      BY <2>2, <2>3, <2>4, <2>6 DEF Fabric!Works
    <2>10. QED
      BY <2>2, <2>3, <2>4, <2>6, <2>8, <2>9 DEF Fabric!CalmFits
  <1>5. QED
    BY <1>3, <1>4

-----------------------------------------------------------------------------
(* What the threads do for it. *)

LEMMA FabricAtWork ==
  ASSUME Fabric!TypeOK, NEW c \in FabricNodes, Fabric!CalmFits(c), NEW j \in s9
  PROVE /\ j.by = c /\ Fabric!JobFits(j, s1) /\ s8[c].at \notin {"rest", "check", "done"}
        /\ s8[c].at = "last" => s9 = {j} /\ Fabric!Levels(c, j) /\ j.kind = "level" /\ j.at = "sync"
        /\ s8[c].at # "last" => Fabric!Works(c, j)
        /\ Fabric!OpFits(s8[c], s1) /\ s8[c].kind \in {"create", "extend", "delete", "join"}
  <1> DEFINE members == s1  op == s8  jobs == s9
  <1>1. Fabric!JobFits(j, members) /\ Fabric!OpFits(op[c], members)
    BY DEF Fabric!TypeOK, Fabric!OpsOK
  <1>2. op[c].at \notin {"rest", "check", "done"} /\ j.by = c
    BY DEF Fabric!CalmFits
  <1>3. op[c].kind \in {"create", "extend", "delete", "join"}
    BY <1>1, <1>2 DEF Fabric!OpFits
  <1>4. CASE op[c].at = "last"
    <2>1. \E i \in jobs : jobs = {i} /\ Fabric!Levels(c, i)
      BY <1>4 DEF Fabric!CalmFits
    <2>2. jobs = {j} /\ Fabric!Levels(c, j)
      BY <2>1
    <2>3. QED
      BY <1>1, <1>2, <1>3, <1>4, <2>2 DEF Fabric!Levels, Fabric!JobFits
  <1>5. CASE op[c].at # "last"
    BY <1>1, <1>2, <1>3, <1>5 DEF Fabric!CalmFits
  <1>6. QED
    BY <1>4, <1>5

\* A thread that fails leaves nothing to report; another leaves the operation as it is.
LEMMA FabricOverCalm ==
  ASSUME Fabric!TypeOK, NEW c \in FabricNodes, NEW j \in s9, j.by = c, NEW ok \in BOOLEAN, Fabric!Over(j, ok), Fabric!Calm(c)'
  PROVE ok /\ s8' = s8
  <1> DEFINE members == s1  op == s8
  <1>1. /\ op' = [op EXCEPT ![c] = [op[c] EXCEPT !.ok = op[c].ok /\ ok,
                                           !.at = IF ok THEN op[c].at ELSE Fabric!Stopped(op[c], j)]]
        /\ Fabric!OpFits(op[c], members) /\ op = [n \in FabricNodes |-> op[n]]
    <2>1. op' = [op EXCEPT ![j.by] = [op[j.by] EXCEPT !.ok = op[j.by].ok /\ ok,
                                           !.at = IF ok THEN op[j.by].at ELSE Fabric!Stopped(op[j.by], j)]]
      BY FabricOverOp
    <2>2. Fabric!OpFits(op[c], members) /\ op = [n \in FabricNodes |-> op[n]]
      BY DEF Fabric!TypeOK, Fabric!OpsOK
    <2>3. QED
      BY <2>1, <2>2
  <1>2. op'[c].ok = (op[c].ok /\ ok)
    BY <1>1 DEF Fabric!OpFits
  <1>3. ok /\ op[c].ok
    BY <1>2 DEF Fabric!Calm
  <1>4. [op[c] EXCEPT !.ok = op[c].ok /\ ok, !.at = IF ok THEN op[c].at ELSE Fabric!Stopped(op[c], j)] = op[c]
    BY <1>1, <1>3 DEF Fabric!OpFits
  <1>5. QED
    BY <1>1, <1>3, <1>4

\* What the threads have still to do is the same.
LEMMA FabricQuietStep ==
  ASSUME NEW c \in FabricNodes, s1' = s1, s2' = s2, s8' = s8,
         {k \in s9' : k.at # "sync"} = {k \in s9 : k.at # "sync"}
  PROVE /\ Fabric!GivenOut(c) => Fabric!GivenOut(c)'
        /\ Fabric!Cleared(c) => Fabric!Cleared(c)'
        /\ Fabric!Joined(c) => Fabric!Joined(c)'
  <1> DEFINE op == s8  jobs == s9
  <1>1. {k \in jobs' : k.at = "call"} = {k \in jobs : k.at = "call"}
    OBVIOUS
  <1>2. Fabric!Due(c)' = Fabric!Due(c) /\ Fabric!Offered(c)' = Fabric!Offered(c)
    BY <1>1 DEF Fabric!Due, Fabric!Offered
  <1>3. Fabric!GivenOut(c) => Fabric!GivenOut(c)'
    <2>1. Fabric!GivenOut(c) => (op[c].at = "tell" => \A a \in op[c].want : a.to # c)
      BY DEF Fabric!GivenOut
    <2>2. QED
      BY <1>2, <2>1, FabricGivenStays
  <1>4. Fabric!Joined(c) => Fabric!Joined(c)'
    BY <1>2, FabricJoinedStays
  <1>5. \A n : Fabric!Going(c, n)' <=> Fabric!Going(c, n)
    BY DEF Fabric!Going
  <1>6. Fabric!Cleared(c) => Fabric!Cleared(c)'
    BY <1>5 DEF Fabric!Cleared
  <1>7. QED
    BY <1>3, <1>4, <1>6

\* A thread goes on, and the operation has not come to its last levelling.
LEMMA FabricGoesOnCalm ==
  ASSUME Fabric!TypeOK, NEW c \in FabricNodes, Fabric!CalmFits(c), NEW j \in s9, s8[c].at # "last", s8' = s8,
         \A k \in s9' : k \in s9 \/ (k.by = j.by /\ k.kind = j.kind /\ k.node = j.node
                                         /\ k.fabric = j.fabric /\ k.claim = j.claim),
         s8[c].kind \in {"create", "extend"} => Fabric!GivenOut(c)',
         s8[c].kind = "delete" => Fabric!Cleared(c)',
         s8[c].kind = "join" => Fabric!Joined(c)'
  PROVE Fabric!CalmFits(c)'
  <1> DEFINE op == s8  jobs == s9
  <1>1. Fabric!Works(c, j) /\ j.by = c /\ op[c].at \notin {"rest", "check", "done"}
    BY FabricAtWork
  <1>2. \A k \in jobs' : k.by = c
    BY <1>1 DEF Fabric!CalmFits
  <1>3. \A k \in jobs' : Fabric!Works(c, k)'
    <2>1. ASSUME NEW k \in jobs' PROVE Fabric!Works(c, k)'
      <3>1. Fabric!Works(c, k)
        <4>1. CASE k \in jobs
          BY <1>1, <4>1 DEF Fabric!CalmFits
        <4>2. CASE k \notin jobs
          <5>1. k.kind = j.kind /\ k.node = j.node /\ k.fabric = j.fabric /\ k.claim = j.claim
            BY <2>1, <4>2
          <5>2. QED
            BY <1>1, <5>1 DEF Fabric!Works
        <4>3. QED
          BY <4>1, <4>2
      <3>2. QED
        BY <3>1 DEF Fabric!Works
    <2>2. QED
      BY <2>1
  <1>4. QED
    BY <1>1, <1>2, <1>3 DEF Fabric!CalmFits

\* A subnet that was due is taken.
LEMMA FabricTakenGivenOut ==
  ASSUME NEW c \in FabricNodes, Fabric!GivenOut(c), NEW j \in s9, j.at = "call", s8' = s8, s1' = s1,
         s2 \in [FabricNodes -> Fabric!Claims], s1 \subseteq FabricNodes, j.node \in s1, s8[c].fabric \in Twins,
         s8[c].fresh \subseteq s1,
         j.claim.prefix = s8[c].prefix,
         s2' = [s2 EXCEPT ![j.node] = [s2[j.node] EXCEPT ![s8[c].fabric] = j.claim]],
         Fabric!Due(c) = Fabric!Due(c)' \cup {[to |-> j.node, subnet |-> j.claim.subnet]}
  PROVE Fabric!GivenOut(c)'
  <1> DEFINE members == s1  claim == s2  op == s8
  <1> DEFINE f == op[c].fabric
             p == op[c].prefix
             d == [to |-> j.node, subnet |-> j.claim.subnet]
             D == Fabric!Due(c)
             E == Fabric!Due(c)'
             n0 == j.node
             s0 == j.claim.subnet
  <1>1. \A n \in members : claim'[n][f] = IF n = n0 THEN j.claim ELSE claim[n][f]
    BY DEF Fabric!Claims
  <1>2. d \in D /\ d.to = n0 /\ d.subnet = s0 /\ E \subseteq D /\ (\A a \in D : a.to # n0 => a \in E)
    OBVIOUS
  <1>3. /\ \A n \in members : claim[n][f].prefix = p \/ \E a \in D : a.to = n
        /\ \A a, b \in D : a.to = b.to <=> a.subnet = b.subnet
        /\ \A a \in D : \A n \in members \ {a.to} : claim[n][f].prefix = p => claim[n][f].subnet # a.subnet
        /\ \A n \in op[c].fresh : \A m \in members \ {n} :
              claim[n][f].prefix = p /\ claim[m][f].prefix = p /\ ~(\E a \in D : a.to = n) => claim[n][f] # claim[m][f]
    BY DEF Fabric!GivenOut, Fabric!Has, Fabric!IsDue
  <1>4. j.claim.prefix = p /\ n0 \in members
    OBVIOUS
  <1>5. /\ op'[c].fabric = f /\ op'[c].prefix = p /\ op'[c].fresh = op[c].fresh /\ op'[c].at = op[c].at
        /\ op'[c].want = op[c].want
    OBVIOUS
  <1>6. op[c].at = "tell" => \A a \in op[c].want : a.to # c
    BY DEF Fabric!GivenOut
  <1> HIDE DEF f, p, d, D, n0, s0
  <1>7. \A n \in members : claim'[n][f].prefix = p \/ \E a \in E : a.to = n
    <2>1. ASSUME NEW n \in members PROVE claim'[n][f].prefix = p \/ \E a \in E : a.to = n
      <3>1. CASE n = n0
        BY <1>1, <1>4, <3>1
      <3>2. CASE n # n0
        BY <1>1, <1>2, <1>3, <3>2
      <3>3. QED
        BY <3>1, <3>2
    <2>2. QED
      BY <2>1
  <1>8. \A a, b \in E : a.to = b.to <=> a.subnet = b.subnet
    BY <1>2, <1>3
  <1>9. ASSUME NEW a \in E, NEW n \in members \ {a.to}, claim'[n][f].prefix = p
        PROVE claim'[n][f].subnet # a.subnet
    <2>1. a \in D
      BY <1>2
    <2>2. CASE n = n0
      <3>1. claim'[n][f].subnet = s0
        BY <1>1, <2>2 DEF s0
      <3>2. a.to # d.to
        BY <1>2, <1>9, <2>2
      <3>3. QED
        BY <1>2, <1>3, <2>1, <3>1, <3>2
    <2>3. CASE n # n0
      BY <1>1, <1>3, <1>9, <2>1, <2>3
    <2>4. QED
      BY <2>2, <2>3
  <1>10. ASSUME NEW n \in op[c].fresh, NEW m \in members \ {n},
                claim'[n][f].prefix = p, claim'[m][f].prefix = p, ~(\E a \in E : a.to = n)
         PROVE claim'[n][f] # claim'[m][f]
    <2>1. CASE n = n0
      <3>1. claim'[n][f].subnet = s0 /\ claim'[m][f] = claim[m][f]
        BY <1>1, <1>10, <2>1 DEF s0
      <3>2. claim[m][f].subnet # s0
        BY <1>2, <1>3, <1>10, <2>1, <3>1
      <3>3. QED
        BY <3>1, <3>2
    <2>2. CASE m = n0 /\ n # n0
      <3>1. claim'[m][f].subnet = s0 /\ claim'[n][f] = claim[n][f]
        BY <1>1, <1>10, <2>2 DEF s0
      <3>2. claim[n][f].subnet # s0
        BY <1>2, <1>3, <1>10, <2>2, <3>1
      <3>3. QED
        BY <3>1, <3>2
    <2>3. CASE n # n0 /\ m # n0
      BY <1>1, <1>2, <1>3, <1>10, <2>3
    <2>4. QED
      BY <2>1, <2>2, <2>3
  <1>11. QED
    BY <1>5, <1>6, <1>7, <1>8, <1>9, <1>10 DEF Fabric!GivenOut, Fabric!Has, Fabric!IsDue

LEMMA FabricAcceptCalm ==
  ASSUME Fabric!TypeOK, NEW c \in FabricNodes, Fabric!CalmFits(c), NEW j \in s9, Fabric!Accept(j), Fabric!Calm(c)'
  PROVE Fabric!CalmFits(c)'
  <1> DEFINE members == s1  claim == s2  op == s8  jobs == s9
  <1> DEFINE k == Fabric!Syncs(j, claim'[j.node])
             d == [to |-> j.node, subnet |-> j.claim.subnet]
             q == [fabric |-> j.fabric, prefix |-> j.claim.prefix, subnet |-> j.claim.subnet]
  <1>1. /\ j.by = c /\ Fabric!JobFits(j, members) /\ op[c].at \notin {"rest", "check", "done", "last"} /\ Fabric!Works(c, j)
        /\ Fabric!OpFits(op[c], members) /\ op[c].kind \in {"create", "extend", "delete", "join"}
        /\ j.at = "call" /\ j.kind = "claim" /\ op[c].kind # "delete" /\ j.node \in members
        /\ members' = members /\ op[c].kind \in {"create", "extend", "join"}
    <2>1. /\ j.by = c /\ Fabric!JobFits(j, members) /\ op[c].at \notin {"rest", "check", "done"}
          /\ op[c].at = "last" => j.at = "sync"
          /\ op[c].at # "last" => Fabric!Works(c, j)
          /\ Fabric!OpFits(op[c], members) /\ op[c].kind \in {"create", "extend", "delete", "join"}
      BY FabricAtWork
    <2>2. j.at = "call" /\ j.kind = "claim" /\ members' = members
      BY DEF Fabric!Accept
    <2>3. QED
      BY <2>1, <2>2 DEF Fabric!Works, Fabric!JobFits
  <1>2. Fabric!MayTake(j)
    BY <1>1, FabricOverCalm DEF Fabric!Accept
  <1>3. /\ claim' = [claim EXCEPT ![j.node] = [claim[j.node] EXCEPT ![j.fabric] = j.claim]]
        /\ jobs' = (jobs \ {j}) \cup {k} /\ op' = op
    BY <1>2 DEF Fabric!Accept, Fabric!Becomes
  <1>4. k.at = "sync" /\ k.by = j.by /\ k.kind = j.kind /\ k.node = j.node /\ k.fabric = j.fabric /\ k.claim = j.claim
    BY <1>1 DEF Fabric!Syncs, Fabric!JobFits
  <1> HIDE DEF k
  <1>5. {i \in jobs : i.at = "call"} = {i \in jobs' : i.at = "call"} \cup {j}
    BY <1>1, <1>3, <1>4
  <1>6. Fabric!Due(c) = Fabric!Due(c)' \cup {d}
    BY <1>3, <1>5 DEF Fabric!Due
  <1>7. Fabric!Offered(c) = Fabric!Offered(c)' \cup {q}
    BY <1>3, <1>5 DEF Fabric!Offered
  <1>8. claim \in [FabricNodes -> Fabric!Claims] /\ members \subseteq FabricNodes
    BY DEF Fabric!TypeOK, Fabric!ClaimsOK
  <1>9. op[c].kind \in {"create", "extend"} => Fabric!GivenOut(c)'
    <2> SUFFICES ASSUME op[c].kind \in {"create", "extend"} PROVE Fabric!GivenOut(c)'
      OBVIOUS
    <2>1. Fabric!GivenOut(c)
      BY <1>1 DEF Fabric!CalmFits
    <2>2. /\ j.fabric = op[c].fabric /\ j.claim.prefix = op[c].prefix /\ op[c].fabric \in Twins
          /\ op[c].fresh \subseteq members
      BY <1>1 DEF Fabric!Works, Fabric!OpFits
    <2>3. QED
      BY <1>1, <1>3, <1>6, <1>8, <2>1, <2>2, FabricTakenGivenOut
  <1>10. op[c].kind = "join" => Fabric!Joined(c)'
    <2> SUFFICES ASSUME op[c].kind = "join" PROVE Fabric!Joined(c)'
      OBVIOUS
    <2>1. Fabric!Joined(c) /\ j.node = c /\ j.fabric \in Twins /\ j.claim \in Fabric!Blocks
      BY <1>1 DEF Fabric!CalmFits, Fabric!Works, Fabric!JobFits
    <2>2. /\ \A n \in members \ {c} : claim'[n] = claim[n]
          /\ \A g \in Twins : claim'[c][g] = IF g = j.fabric THEN j.claim ELSE claim[c][g]
      BY <1>3, <1>8, <2>1 DEF Fabric!Claims
    <2>3. Fabric!Offered(c)' \subseteq Fabric!Offered(c) /\ q \in Fabric!Offered(c)
      BY <1>7
    <2>4. q.fabric = j.fabric /\ q.prefix = j.claim.prefix /\ q.subnet = j.claim.subnet
      OBVIOUS
    <2> HIDE DEF q
    <2>5. \A n \in members \ {c} : j.claim # claim[n][j.fabric]
      BY <2>1, <2>3, <2>4 DEF Fabric!Joined
    <2>6. ASSUME NEW n \in members \ {c}, NEW o \in Fabric!Offered(c)', claim[n][o.fabric].prefix = o.prefix
          PROVE claim[n][o.fabric].subnet # o.subnet
      BY <2>1, <2>3, <2>6 DEF Fabric!Joined
    <2>7. ASSUME NEW n \in members \ {c}, NEW g \in Twins, Fabric!Held(claim'[c][g]) PROVE claim'[c][g] # claim[n][g]
      BY <2>1, <2>2, <2>5, <2>7 DEF Fabric!Joined
    <2>8. QED
      BY <1>1, <2>2, <2>6, <2>7 DEF Fabric!Joined
  <1>11. QED
    BY <1>1, <1>3, <1>4, <1>9, <1>10, FabricGoesOnCalm

LEMMA FabricFailsCalm ==
  ASSUME Fabric!TypeOK, NEW c \in FabricNodes, Fabric!CalmFits(c), NEW j \in s9,
         Fabric!BridgeFails(j) \/ Fabric!CallFails(j) \/ \E m \in FabricNodes : Fabric!AnnounceFails(j, m)
  PROVE ~Fabric!Calm(c)'
  <1> DEFINE members == s1  op == s8
  <1>1. j.by = c /\ op = [n \in FabricNodes |-> op[n]]
    BY FabricAtWork DEF Fabric!TypeOK, Fabric!OpsOK
  <1>2. CASE Fabric!BridgeFails(j) \/ Fabric!CallFails(j)
    BY <1>1, <1>2, FabricOverCalm DEF Fabric!BridgeFails, Fabric!CallFails
  <1>3. CASE \E m \in FabricNodes : Fabric!AnnounceFails(j, m)
    <2>1. op' = [op EXCEPT ![c] = [op[c] EXCEPT !.alone = FALSE]] /\ Fabric!OpFits(op[c], members)
      BY <1>1, <1>3, FabricAtWork DEF Fabric!AnnounceFails
    <2>2. [op[c] EXCEPT !.alone = FALSE].alone = FALSE
      BY <2>1 DEF Fabric!OpFits
    <2>3. QED
      BY <1>1, <2>1, <2>2 DEF Fabric!Calm
  <1>4. QED
    BY <1>2, <1>3

LEMMA FabricLeaveReadCalm ==
  ASSUME Fabric!TypeOK, NEW c \in FabricNodes, Fabric!CalmFits(c), NEW j \in s9, Fabric!LeaveReads(j), Fabric!Calm(c)'
  PROVE Fabric!CalmFits(c)'
  <1> DEFINE members == s1  claim == s2  op == s8  jobs == s9
  <1>1. /\ j.by = c /\ Fabric!JobFits(j, members) /\ op[c].at \notin {"rest", "check", "done", "last"}
        /\ op[c].kind = "delete" /\ members' = members /\ claim' = claim /\ j.fabric = op[c].fabric
        /\ j.at = "call"
    <2>1. /\ j.by = c /\ Fabric!JobFits(j, members) /\ op[c].at \notin {"rest", "check", "done"}
          /\ op[c].at = "last" => j.at = "sync"
          /\ op[c].at # "last" => Fabric!Works(c, j)
      BY FabricAtWork
    <2>2. j.at = "call" /\ j.kind = "drop" /\ members' = members /\ claim' = claim
      BY DEF Fabric!LeaveReads
    <2>3. QED
      BY <2>1, <2>2 DEF Fabric!Works
  <1>2. Fabric!Cleared(c)
    BY <1>1 DEF Fabric!CalmFits
  <1>3. CASE Fabric!Held(claim[j.node][j.fabric])
    <2> DEFINE k == [j EXCEPT !.at = "save", !.read = claim[j.node]]
    <2>1. jobs' = (jobs \ {j}) \cup {k} /\ op' = op
      BY <1>3 DEF Fabric!LeaveReads, Fabric!Becomes
    <2>2. k.at = "save" /\ k.by = j.by /\ k.kind = j.kind /\ k.node = j.node /\ k.fabric = j.fabric /\ k.claim = j.claim
      BY <1>1 DEF Fabric!JobFits
    <2> HIDE DEF k
    <2>3. \A n : Fabric!Going(c, n) => Fabric!Going(c, n)'
      BY <2>1, <2>2 DEF Fabric!Going
    <2>4. Fabric!Cleared(c)'
      BY <1>1, <1>2, <2>1, <2>3 DEF Fabric!Cleared
    <2>5. QED
      BY <1>1, <2>1, <2>2, <2>4, FabricGoesOnCalm
  <1>4. CASE ~Fabric!Held(claim[j.node][j.fabric])
    <2>1. op' = op /\ jobs' = jobs \ {j}
      BY <1>1, <1>4, FabricOverCalm DEF Fabric!LeaveReads, Fabric!Over
    <2>2. \A n : n # j.node /\ Fabric!Going(c, n) => Fabric!Going(c, n)'
      BY <2>1 DEF Fabric!Going
    <2>3. Fabric!Cleared(c)'
      BY <1>1, <1>2, <1>4, <2>1, <2>2 DEF Fabric!Cleared
    <2>4. QED
      BY <1>1, <2>1, <2>3, FabricGoesOnCalm
  <1>5. QED
    BY <1>3, <1>4

LEMMA FabricLeaveSaveCalm ==
  ASSUME Fabric!TypeOK, NEW c \in FabricNodes, Fabric!CalmFits(c), NEW j \in s9, Fabric!LeaveSaves(j)
  PROVE Fabric!CalmFits(c)'
  <1> DEFINE members == s1  claim == s2  op == s8  jobs == s9
  <1> DEFINE mine == [j.read EXCEPT ![j.fabric] = Fabric!NoClaim]
             k == Fabric!Syncs(j, mine)
  <1>1. /\ j.by = c /\ Fabric!JobFits(j, members) /\ op[c].at \notin {"rest", "check", "done", "last"}
        /\ op[c].kind = "delete" /\ members' = members /\ j.fabric = op[c].fabric /\ j.node \in FabricNodes
    <2>1. /\ j.by = c /\ Fabric!JobFits(j, members) /\ op[c].at \notin {"rest", "check", "done"}
          /\ op[c].at = "last" => j.at = "sync"
          /\ op[c].at # "last" => Fabric!Works(c, j)
      BY FabricAtWork
    <2>2. j.at = "save" /\ members' = members /\ j.kind = "drop" /\ j.node \in FabricNodes
      BY <2>1, FabricJobType DEF Fabric!LeaveSaves, Fabric!JobFits
    <2>3. QED
      BY <2>1, <2>2 DEF Fabric!Works
  <1>2. claim' = [claim EXCEPT ![j.node] = mine] /\ jobs' = (jobs \ {j}) \cup {k} /\ op' = op
    BY DEF Fabric!LeaveSaves, Fabric!Becomes
  <1>3. ~Fabric!Held(mine[j.fabric])
    BY <1>1, FabricJobType DEF Fabric!JobFits, Fabric!Claims, Fabric!Held, Fabric!LeaveSaves
  <1>4. k.at = "sync" /\ k.by = j.by /\ k.kind = j.kind /\ k.node = j.node /\ k.fabric = j.fabric /\ k.claim = j.claim
    BY <1>1 DEF Fabric!Syncs, Fabric!JobFits
  <1> HIDE DEF k, mine
  <1>5. \A n \in FabricNodes : claim'[n] = IF n = j.node THEN mine ELSE claim[n]
    BY <1>2 DEF Fabric!TypeOK, Fabric!ClaimsOK
  <1>6. Fabric!Cleared(c) /\ members \subseteq FabricNodes
    BY <1>1 DEF Fabric!CalmFits, Fabric!TypeOK, Fabric!ClaimsOK
  <1>7. \A n : n # j.node /\ Fabric!Going(c, n) => Fabric!Going(c, n)'
    BY <1>2 DEF Fabric!Going
  <1>8. Fabric!Cleared(c)'
    BY <1>1, <1>2, <1>3, <1>5, <1>6, <1>7 DEF Fabric!Cleared
  <1>9. QED
    BY <1>1, <1>2, <1>4, <1>8, FabricGoesOnCalm

\* The records are levelled, and nothing else is: what was given out, or given up, stays so.
LEMMA FabricLevellingCalm ==
  ASSUME Fabric!TypeOK, NEW c \in FabricNodes, Fabric!CalmFits(c), s8[c].at = "last", s1' = s1, s2' = s2, s8' = s8,
         {i \in s9' : i.at # "sync"} = {i \in s9 : i.at # "sync"}, \A i \in s9' : i.by = c,
         (s9' = {} /\ Fabric!Levelled(c)') \/ \E i \in s9' : s9' = {i} /\ Fabric!Levels(c, i)'
  PROVE Fabric!CalmFits(c)'
  <1> DEFINE op == s8
  <1>1. /\ op[c].kind \in {"create", "extend"} => Fabric!GivenOut(c)'
        /\ op[c].kind = "delete" => Fabric!Cleared(c)'
        /\ op[c].kind = "join" => Fabric!Joined(c)'
    <2>1. /\ op[c].kind \in {"create", "extend"} => Fabric!GivenOut(c)
          /\ op[c].kind = "delete" => Fabric!Cleared(c)
          /\ op[c].kind = "join" => Fabric!Joined(c)
      BY DEF Fabric!CalmFits
    <2>2. QED
      BY <2>1, FabricQuietStep
  <1>2. \A m \in FabricNodes \ {c} : op'[m].at = "rest"
    BY DEF Fabric!CalmFits
  <1>3. op'[c].at = "last" /\ op'[c].kind = op[c].kind
    OBVIOUS
  <1>4. QED
    BY <1>1, <1>2, <1>3 DEF Fabric!CalmFits

LEMMA FabricAnnouncedCalm ==
  ASSUME Fabric!TypeOK, NEW c \in FabricNodes, Fabric!CalmFits(c), NEW j \in s9, NEW m \in FabricNodes, Fabric!Announced(j, m)
  PROVE Fabric!CalmFits(c)'
  <1> DEFINE members == s1  claim == s2  said == s3  op == s8  jobs == s9
  <1> DEFINE k == [j EXCEPT !.left = j.left \ {m}, !.got = j.got \cup {[of |-> m, claims |-> claim[m]]}]
  <1>1. /\ j.by = c /\ Fabric!JobFits(j, members) /\ op[c].at \notin {"rest", "check", "done"}
        /\ op[c].at = "last" => jobs = {j} /\ Fabric!Levels(c, j)
        /\ op[c].kind \in {"create", "extend", "delete", "join"}
        /\ members \subseteq FabricNodes /\ said \in [FabricNodes -> [FabricNodes -> Fabric!Claims]]
    BY FabricAtWork DEF Fabric!TypeOK, Fabric!ClaimsOK
  <1>2. /\ members' = members /\ claim' = claim /\ op' = op /\ jobs' = (jobs \ {j}) \cup {k}
        /\ j.at = "sync" /\ m \in j.left
        /\ said' = [said EXCEPT ![m] = [said[m] EXCEPT ![j.node] = j.read]]
    BY DEF Fabric!Announced, Fabric!Becomes
  <1>3. /\ k.at = "sync" /\ k.by = j.by /\ k.kind = j.kind /\ k.node = j.node /\ k.fabric = j.fabric
        /\ k.claim = j.claim /\ k.read = j.read /\ k.left = j.left \ {m}
        /\ k.got = j.got \cup {[of |-> m, claims |-> claim[m]]}
    BY <1>1, <1>2 DEF Fabric!JobFits
  <1> HIDE DEF k
  <1>4. {i \in jobs' : i.at # "sync"} = {i \in jobs : i.at # "sync"}
    BY <1>2, <1>3
  <1>5. CASE op[c].at = "last"
    <2>1. /\ j.kind = "level" /\ j.node = c /\ j.read = claim[c] /\ j.left \subseteq members \ {c}
          /\ j.got = {[of |-> n, claims |-> claim[n]] : n \in (members \ {c}) \ j.left}
          /\ \A n \in (members \ {c}) \ j.left : Fabric!Told(c, n)
      BY <1>1, <1>5 DEF Fabric!Levels
    <2>2. m \in members \ {c} /\ (members \ {c}) \ k.left = ((members \ {c}) \ j.left) \cup {m}
      BY <1>2, <1>3, <2>1
    <2>3. k.got = {[of |-> n, claims |-> claim[n]] : n \in (members \ {c}) \ k.left}
      BY <1>3, <2>1, <2>2
    <2>4. said'[m][c] = claim[c]
      BY <1>1, <1>2, <2>1
    <2>5. \A n \in members : n # m => said'[n] = said[n]
      BY <1>1, <1>2
    <2>6. \A n \in (members \ {c}) \ k.left : Fabric!Told(c, n)'
      <3>1. ASSUME NEW n \in (members \ {c}) \ k.left PROVE Fabric!Told(c, n)'
        <4>1. CASE n = m
          BY <1>2, <2>4, <4>1 DEF Fabric!Told
        <4>2. CASE n # m
          BY <1>2, <2>1, <2>2, <2>5, <3>1, <4>2 DEF Fabric!Told
        <4>3. QED
          BY <4>1, <4>2
      <3>2. QED
        BY <3>1
    <2>7. k.kind = "level" /\ k.node = c /\ k.read = claim[c] /\ k.left \subseteq members \ {c} /\ jobs' = {k}
      BY <1>1, <1>2, <1>3, <1>5, <2>1
    <2>8. \E i \in jobs' : jobs' = {i} /\ Fabric!Levels(c, i)'
      BY <1>2, <2>3, <2>6, <2>7 DEF Fabric!Levels
    <2>9. \A i \in jobs' : i.by = c
      BY <1>1, <1>3, <2>7
    <2>10. QED
      BY <1>2, <1>4, <1>5, <2>8, <2>9, FabricLevellingCalm
  <1>6. CASE op[c].at # "last"
    <2>1. /\ op[c].kind \in {"create", "extend"} => Fabric!GivenOut(c)'
          /\ op[c].kind = "delete" => Fabric!Cleared(c)'
          /\ op[c].kind = "join" => Fabric!Joined(c)'
      <3>1. /\ op[c].kind \in {"create", "extend"} => Fabric!GivenOut(c)
            /\ op[c].kind = "delete" => Fabric!Cleared(c)
            /\ op[c].kind = "join" => Fabric!Joined(c)
        BY <1>1 DEF Fabric!CalmFits
      <3>2. QED
        BY <1>2, <1>4, <3>1, FabricQuietStep
    <2>2. QED
      BY <1>2, <1>3, <1>6, <2>1, FabricGoesOnCalm
  <1>7. QED
    BY <1>5, <1>6

LEMMA FabricSyncCalm ==
  ASSUME Fabric!TypeOK, NEW c \in FabricNodes, Fabric!CalmFits(c), NEW j \in s9, Fabric!SyncEnds(j), Fabric!Calm(c)'
  PROVE Fabric!CalmFits(c)'
  <1> DEFINE members == s1  claim == s2  said == s3  op == s8  jobs == s9
  <1>1. /\ j.by = c /\ Fabric!JobFits(j, members) /\ op[c].at \notin {"rest", "check", "done"}
        /\ op[c].at = "last" => jobs = {j} /\ Fabric!Levels(c, j)
        /\ op[c].kind \in {"create", "extend", "delete", "join"}
        /\ members \subseteq FabricNodes /\ said \in [FabricNodes -> [FabricNodes -> Fabric!Claims]]
    BY FabricAtWork DEF Fabric!TypeOK, Fabric!ClaimsOK
  <1>2. /\ members' = members /\ claim' = claim /\ op' = op /\ jobs' = jobs \ {j}
        /\ j.at = "sync" /\ j.left = {}
        /\ said' = [said EXCEPT ![j.node] = Fabric!Heard(j)]
    BY <1>1, FabricOverCalm DEF Fabric!SyncEnds, Fabric!Over
  <1>4. {i \in jobs' : i.at # "sync"} = {i \in jobs : i.at # "sync"}
    BY <1>2
  <1>5. CASE op[c].at = "last"
    <2>1. /\ j.node = c /\ j.got = {[of |-> n, claims |-> claim[n]] : n \in members \ {c}}
          /\ \A n \in members \ {c} : Fabric!Told(c, n)
      BY <1>1, <1>2, <1>5 DEF Fabric!Levels
    <2>2. ASSUME NEW m \in members \ {c} PROVE Fabric!Heard(j)[m] = claim[m]
      <3> DEFINE its == [of |-> m, claims |-> claim[m]]
      <3>0. {h \in j.got : h.of = m} = {its} /\ its.claims = claim[m]
        BY <2>1, <2>2
      <3> HIDE DEF its
      <3>1. {g.claims : g \in {h \in j.got : h.of = m}} = {claim[m]}
        BY <3>0
      <3>2. m \in FabricNodes
        BY <1>1
      <3>3. QED
        BY <3>1, <3>2 DEF Fabric!Heard
    <2>3. said'[c] = Fabric!Heard(j)
      BY <1>1, <1>2, <2>1
    <2>4. \A m \in members \ {c} : said'[m] = said[m]
      BY <1>1, <1>2, <2>1
    <2>5. Fabric!Levelled(c)'
      BY <1>2, <2>1, <2>2, <2>3, <2>4 DEF Fabric!Levelled, Fabric!Told
    <2>6. jobs' = {}
      BY <1>1, <1>2, <1>5
    <2>7. QED
      BY <1>2, <1>4, <1>5, <2>5, <2>6, FabricLevellingCalm
  <1>6. CASE op[c].at # "last"
    <2>1. /\ op[c].kind \in {"create", "extend"} => Fabric!GivenOut(c)'
          /\ op[c].kind = "delete" => Fabric!Cleared(c)'
          /\ op[c].kind = "join" => Fabric!Joined(c)'
      <3>1. /\ op[c].kind \in {"create", "extend"} => Fabric!GivenOut(c)
            /\ op[c].kind = "delete" => Fabric!Cleared(c)
            /\ op[c].kind = "join" => Fabric!Joined(c)
        BY <1>1 DEF Fabric!CalmFits
      <3>2. QED
        BY <1>2, <1>4, <3>1, FabricQuietStep
    <2>2. QED
      BY <1>2, <1>6, <2>1, FabricGoesOnCalm
  <1>7. QED
    BY <1>5, <1>6

LEMMA FabricNothingIsCalm == ASSUME Fabric!Init, NEW c \in FabricNodes PROVE ~Fabric!Calm(c)
  <1> DEFINE op == s8
  <1>1. op = [n \in FabricNodes |-> Fabric!Resting]
    BY DEF Fabric!Init
  <1>2. QED
    BY <1>1 DEF Fabric!Calm, Fabric!Resting

LEMMA FabricOpStepCalm ==
  ASSUME Fabric!FabricAssumption, Fabric!TypeOK, NEW c \in FabricNodes, Fabric!Calm(c)', Fabric!Calm(c) => Fabric!CalmFits(c), NEW d \in FabricNodes,
         \/ Fabric!CheckCreate(d) \/ Fabric!CheckExtend(d) \/ Fabric!CheckDelete(d)
         \/ Fabric!HandOut(d) \/ Fabric!Tell(d) \/ Fabric!LeaveHere(d) \/ Fabric!LevelOnce(d) \/ Fabric!OpEnds(d) \/ Fabric!TakeOffer(d)
  PROVE Fabric!CalmFits(c)'
  <1> DEFINE members == s1  op == s8
  <1>0. Fabric!OpFits(op[d], members) /\ op = [n \in FabricNodes |-> op[n]]
    BY DEF Fabric!TypeOK, Fabric!OpsOK
  <1>1. \E o : op' = [op EXCEPT ![d] = o] /\ (o = Fabric!Resting \/ (o.ok = op[d].ok /\ o.alone = op[d].alone))
    <2>1. CASE Fabric!CheckCreate(d)
      <3>1. \E want : op' = [op EXCEPT ![d] = Fabric!Resting]
                     \/ op' = [op EXCEPT ![d] = [op[d] EXCEPT !.at = "begin", !.want = want, !.fresh = members]]
        BY <1>0, <2>1 DEF Fabric!CheckCreate
      <3>2. \A want : LET o == [op[d] EXCEPT !.at = "begin", !.want = want, !.fresh = members]
                      IN o.ok = op[d].ok /\ o.alone = op[d].alone
        BY <1>0 DEF Fabric!OpFits
      <3>3. QED
        BY <3>1, <3>2
    <2>2. CASE Fabric!CheckExtend(d)
      <3>1. CASE op' = [op EXCEPT ![d] = Fabric!Resting]
        BY <3>1
      <3>2. CASE op' # [op EXCEPT ![d] = Fabric!Resting]
        <4>1. PICK p \in FabricPrefixes, missing \in SUBSET members,
           want \in SUBSET [to : members, subnet : FabricSubnets] :
              /\ missing = {n \in members : Fabric!Seen(d)[n][op[d].fabric].prefix # p}
              /\ want = {a \in Fabric!Allocation(Fabric!Seen(d), op[d].fabric, p, members) : a.to \in missing}
              /\ Fabric!Suffices(Fabric!Seen(d), op[d].fabric, p, members)
              /\ op' = [op EXCEPT ![d] = [op[d] EXCEPT !.at = "begin", !.prefix = p, !.want = want,
                                                       !.fresh = missing]]
          BY <2>2, <3>2, FabricExtendGoesOn
        <4> DEFINE o == [op[d] EXCEPT !.at = "begin", !.prefix = p, !.want = want, !.fresh = missing]
        <4>2. o.ok = op[d].ok /\ o.alone = op[d].alone
          BY <1>0 DEF Fabric!OpFits
        <4>3. op' = [op EXCEPT ![d] = o]
          BY <4>1
        <4> HIDE DEF o
        <4>4. QED
          BY <4>2, <4>3
      <3>3. QED
        BY <3>1, <3>2
    <2>3. CASE Fabric!CheckDelete(d)
      <3> DEFINE o == [op[d] EXCEPT !.at = "tell", !.want = {[to |-> n, subnet |-> 0] : n \in members}]
      <3>1. op' = [op EXCEPT ![d] = Fabric!Resting] \/ op' = [op EXCEPT ![d] = o]
        BY <1>0, <2>3 DEF Fabric!CheckDelete
      <3>2. o.ok = op[d].ok /\ o.alone = op[d].alone
        BY <1>0 DEF Fabric!OpFits
      <3> HIDE DEF o
      <3>3. QED
        BY <3>1, <3>2
    <2>4. CASE Fabric!HandOut(d)
      <3> DEFINE o == [op[d] EXCEPT !.at = "tell", !.want = {a \in op[d].want : a.to # d}]
      <3>1. op' = [op EXCEPT ![d] = o]
        BY <1>0, <2>4 DEF Fabric!HandOut
      <3>2. o.ok = op[d].ok /\ o.alone = op[d].alone
        BY <1>0 DEF Fabric!OpFits
      <3> HIDE DEF o
      <3>3. QED
        BY <3>1, <3>2
    <2>5. CASE Fabric!Tell(d) \/ Fabric!LeaveHere(d) \/ Fabric!LevelOnce(d) \/ Fabric!OpEnds(d)
      <3>1. PICK at : op' = [op EXCEPT ![d] = [op[d] EXCEPT !.at = at]]
        BY <1>0, <2>5 DEF Fabric!Tell, Fabric!LeaveHere, Fabric!LevelOnce, Fabric!OpEnds
      <3> DEFINE o == [op[d] EXCEPT !.at = at]
      <3>2. o.ok = op[d].ok /\ o.alone = op[d].alone
        BY <1>0 DEF Fabric!OpFits
      <3>3. op' = [op EXCEPT ![d] = o]
        BY <3>1
      <3> HIDE DEF o
      <3>4. QED
        BY <3>2, <3>3
    <2>6. CASE Fabric!TakeOffer(d)
      <3>1. CASE op[d].want = {}
        <4> DEFINE o == [op[d] EXCEPT !.at = "level"]
        <4>1. op' = [op EXCEPT ![d] = o]
          BY <1>0, <2>6, <3>1 DEF Fabric!TakeOffer
        <4>2. o.ok = op[d].ok /\ o.alone = op[d].alone
          BY <1>0 DEF Fabric!OpFits
        <4> HIDE DEF o
        <4>3. QED
          BY <4>1, <4>2
      <3>2. CASE op[d].want # {}
        <4>1. PICK offer \in op[d].want : op' = [op EXCEPT ![d] = [op[d] EXCEPT !.want = op[d].want \ {offer}]]
          BY <1>0, <2>6, <3>2 DEF Fabric!TakeOffer
        <4> DEFINE o == [op[d] EXCEPT !.want = op[d].want \ {offer}]
        <4>2. o.ok = op[d].ok /\ o.alone = op[d].alone
          BY <1>0 DEF Fabric!OpFits
        <4>3. op' = [op EXCEPT ![d] = o]
          BY <4>1
        <4> HIDE DEF o
        <4>4. QED
          BY <4>2, <4>3
      <3>3. QED
        BY <3>1, <3>2
    <2>7. QED
      BY <2>1, <2>2, <2>3, <2>4, <2>5, <2>6
  <1>2. op[d].at # "rest"
    BY DEF Fabric!CheckCreate, Fabric!CheckExtend, Fabric!CheckDelete, Fabric!HandOut, Fabric!Tell, Fabric!LeaveHere, Fabric!LevelOnce, Fabric!OpEnds, Fabric!TakeOffer
  <1>3. Fabric!Calm(c)
    BY <1>0, <1>1 DEF Fabric!Calm, Fabric!Resting
  <1>4. d = c
    BY <1>2, <1>3 DEF Fabric!CalmFits
  <1>5. QED
    BY <1>3, <1>4, FabricCreateCheckCalm, FabricExtendCheckCalm, FabricDeleteCheckCalm, FabricHandCalm, FabricTellCalm, FabricLeaveCalm, FabricLevelCalm,
       FabricEndCalm, FabricOfferCalm

LEMMA FabricJobStepCalm ==
  ASSUME Fabric!TypeOK, NEW c \in FabricNodes, Fabric!Calm(c)', Fabric!Calm(c) => Fabric!CalmFits(c), NEW j \in s9,
         \/ Fabric!Accept(j) \/ Fabric!BridgeFails(j) \/ Fabric!LeaveReads(j) \/ Fabric!LeaveSaves(j) \/ Fabric!SyncEnds(j) \/ Fabric!CallFails(j)
         \/ \E m \in FabricNodes : Fabric!Announced(j, m) \/ Fabric!AnnounceFails(j, m)
  PROVE Fabric!CalmFits(c)'
  <1> DEFINE members == s1  op == s8
  <1>1. Fabric!Calm(c)
    <2>1. CASE op' = op
      BY <2>1 DEF Fabric!Calm
    <2>2. CASE \E ok \in BOOLEAN : Fabric!Over(j, ok)
      <3>1. PICK ok \in BOOLEAN : Fabric!Over(j, ok)
        BY <2>2
      <3>2. /\ op' = [op EXCEPT ![j.by] = [op[j.by] EXCEPT !.ok = op[j.by].ok /\ ok,
                                           !.at = IF ok THEN op[j.by].at ELSE Fabric!Stopped(op[j.by], j)]]
            /\ Fabric!OpFits(op[j.by], members) /\ j.by \in FabricNodes /\ op = [n \in FabricNodes |-> op[n]]
        BY <3>1, FabricOverOp DEF Fabric!TypeOK, Fabric!OpsOK
      <3>3. CASE c = j.by
        <4>1. op'[c].ok = (op[c].ok /\ ok) /\ op'[c].alone = op[c].alone
          BY <3>2, <3>3 DEF Fabric!OpFits
        <4>2. QED
          BY <4>1 DEF Fabric!Calm
      <3>4. CASE c # j.by
        BY <3>2, <3>4 DEF Fabric!Calm
      <3>5. QED
        BY <3>3, <3>4
    <2>3. CASE \E m \in FabricNodes : Fabric!AnnounceFails(j, m)
      <3>1. /\ op' = [op EXCEPT ![j.by] = [op[j.by] EXCEPT !.alone = FALSE]]
            /\ Fabric!OpFits(op[j.by], members) /\ j.by \in FabricNodes /\ op = [n \in FabricNodes |-> op[n]]
        <4>1. Fabric!JobFits(j, members) /\ j.by \in FabricNodes /\ op = [n \in FabricNodes |-> op[n]]
          BY DEF Fabric!TypeOK, Fabric!OpsOK, Fabric!ClaimsOK, Fabric!JobFits
        <4>2. Fabric!OpFits(op[j.by], members)
          BY <4>1 DEF Fabric!TypeOK, Fabric!OpsOK
        <4>3. QED
          BY <2>3, <4>1, <4>2 DEF Fabric!AnnounceFails
      <3>2. [op[j.by] EXCEPT !.alone = FALSE].alone = FALSE
        BY <3>1 DEF Fabric!OpFits
      <3>3. QED
        BY <3>1, <3>2 DEF Fabric!Calm
    <2>4. QED
      BY <2>1, <2>2, <2>3 DEF Fabric!Accept, Fabric!BridgeFails, Fabric!LeaveReads, Fabric!LeaveSaves, Fabric!SyncEnds, Fabric!CallFails, Fabric!Announced
  <1>2. QED
    BY <1>1, FabricAcceptCalm, FabricFailsCalm, FabricLeaveReadCalm, FabricLeaveSaveCalm, FabricAnnouncedCalm, FabricSyncCalm

\* An operation that another begins beside has not the cluster alone.
LEMMA FabricOthersBegin ==
  ASSUME Fabric!TypeOK, NEW c \in FabricNodes, NEW d \in FabricNodes, d # c,
         (\E f \in Twins : Fabric!Extend(d, f) \/ Fabric!Delete(d, f) \/ \E p \in FabricPrefixes : Fabric!Create(d, f, p))
           \/ \E by \in FabricNodes : Fabric!Join(d, by)
  PROVE ~Fabric!Calm(c)'
  <1> DEFINE members == s1  op == s8
  <1>1. \E o : Fabric!Begin(d, o)
    BY DEF Fabric!Extend, Fabric!Delete, Fabric!Create, Fabric!Join
  <1>2. op'[c] = Fabric!Beside(op[c])
    BY <1>1 DEF Fabric!Begin
  <1>3. Fabric!OpFits(op[c], members)
    BY DEF Fabric!TypeOK, Fabric!OpsOK
  <1>4. QED
    BY <1>2, <1>3, FabricBesideFits DEF Fabric!Calm

\* What has to do with none of an operation's, and what ends being alone for all of them.
LEMMA FabricSameCalm ==
  ASSUME NEW c \in FabricNodes, Fabric!Calm(c)', Fabric!Calm(c) => Fabric!CalmFits(c), UNCHANGED <<s1, s2, s3, s8, s9>>
  PROVE Fabric!CalmFits(c)'
  <1>1. Fabric!Calm(c) /\ Fabric!CalmFits(c)
    BY DEF Fabric!Calm
  <1>2. Fabric!Due(c)' = Fabric!Due(c) /\ Fabric!Offered(c)' = Fabric!Offered(c)
    BY DEF Fabric!Due, Fabric!Offered
  <1>3. QED
    BY <1>1, <1>2 DEF Fabric!CalmFits, Fabric!Works, Fabric!GivenOut, Fabric!Has, Fabric!IsDue, Fabric!Cleared, Fabric!Going, Fabric!Joined, Fabric!Levels, Fabric!Levelled, Fabric!Told, Fabric!Agree

LEMMA FabricNobodyIsCalm ==
  ASSUME Fabric!TypeOK, NEW c \in FabricNodes, s8' = [m \in FabricNodes |-> Fabric!Beside(s8[m])]
  PROVE ~Fabric!Calm(c)'
  <1> DEFINE members == s1  op == s8
  <1>1. Fabric!OpFits(op[c], members) /\ op'[c] = Fabric!Beside(op[c])
    BY DEF Fabric!TypeOK, Fabric!OpsOK
  <1>2. QED
    BY <1>1, FabricBesideFits DEF Fabric!Calm

THEOREM FabricInit == ASSUME Fabric!FabricAssumption, Fabric!Init PROVE Fabric!FabricInv
  BY FabricTypesInit, FabricHostInit, FabricApartInit, FabricNothingIsCalm DEF Fabric!FabricInv

THEOREM FabricStep == ASSUME Fabric!FabricAssumption, Fabric!FabricInv, [Fabric!Next]_(Fabric!fabricVars) PROVE Fabric!FabricInv'
  <1> DEFINE members == s1  claim == s2  said == s3  rewrites == s7  op == s8  jobs == s9
  <1>1. Fabric!TypeOK' /\ Fabric!HostOK' /\ Fabric!PrefixesApart' /\ Fabric!ReadsApart' /\ Fabric!OutsideHoldNothing' /\ Fabric!RoutesFollow'
    BY FabricTypesStep, FabricHostStep, FabricApartStep, FabricFollowsStep DEF Fabric!FabricInv
  <1>2. ASSUME NEW c \in FabricNodes, Fabric!Calm(c)' PROVE Fabric!CalmFits(c)'
    <2>0. Fabric!TypeOK /\ Fabric!OutsideHoldNothing /\ (Fabric!Calm(c) => Fabric!CalmFits(c))
      BY DEF Fabric!FabricInv
    <2>1. CASE UNCHANGED Fabric!fabricVars
      <3>1. UNCHANGED <<members, claim, said, op, jobs>>
        BY <2>1 DEF Fabric!fabricVars
      <3>2. QED
        BY <1>2, <2>0, <3>1, FabricSameCalm
    <2>2. ASSUME NEW d \in FabricNodes, NEW f \in Twins, Fabric!Extend(d, f) \/ Fabric!Delete(d, f) \/ \E p \in FabricPrefixes : Fabric!Create(d, f, p)
          PROVE Fabric!CalmFits(c)'
      BY <1>2, <2>0, <2>2, FabricBeginCalm, FabricOthersBegin
    <2>3. ASSUME NEW d \in FabricNodes, NEW by \in FabricNodes, Fabric!Join(d, by) PROVE Fabric!CalmFits(c)'
      BY <1>2, <2>0, <2>3, FabricJoinCalm, FabricOthersBegin
    <2>4. ASSUME NEW d \in FabricNodes,
             \/ Fabric!CheckCreate(d) \/ Fabric!CheckExtend(d) \/ Fabric!CheckDelete(d)
             \/ Fabric!HandOut(d) \/ Fabric!Tell(d) \/ Fabric!LeaveHere(d) \/ Fabric!LevelOnce(d) \/ Fabric!OpEnds(d) \/ Fabric!TakeOffer(d)
          PROVE Fabric!CalmFits(c)'
      BY <1>2, <2>0, <2>4, FabricOpStepCalm
    <2>5. ASSUME NEW j \in jobs,
             \/ Fabric!Accept(j) \/ Fabric!BridgeFails(j) \/ Fabric!LeaveReads(j) \/ Fabric!LeaveSaves(j) \/ Fabric!SyncEnds(j) \/ Fabric!CallFails(j)
             \/ \E m \in FabricNodes : Fabric!Announced(j, m) \/ Fabric!AnnounceFails(j, m)
          PROVE Fabric!CalmFits(c)'
      BY <1>2, <2>0, <2>5, FabricJobStepCalm
    <2>6. ASSUME NEW n \in FabricNodes, Fabric!SetMaintenance(n) \/ Fabric!LanReads(n) \/ Fabric!Round(n) PROVE Fabric!CalmFits(c)'
      <3>1. CASE Fabric!SetMaintenance(n)
        BY <1>2, <2>0, <3>1, FabricNobodyIsCalm DEF Fabric!SetMaintenance
      <3>2. CASE Fabric!LanReads(n) \/ Fabric!Round(n)
        <4>1. UNCHANGED <<members, claim, said, op, jobs>>
          BY <3>2 DEF Fabric!LanReads, Fabric!Round
        <4>2. QED
          BY <1>2, <2>0, <4>1, FabricSameCalm
      <3>3. QED
        BY <2>6, <3>1, <3>2
    <2>7. ASSUME NEW w \in rewrites, Fabric!LanSaves(w) PROVE Fabric!CalmFits(c)'
      <3>1. CASE w.read = claim[w.node]
        <4>1. claim = [n \in FabricNodes |-> claim[n]]
          BY <2>0 DEF Fabric!TypeOK, Fabric!ClaimsOK
        <4>2. UNCHANGED <<members, claim, said, op, jobs>>
          BY <2>7, <3>1, <4>1 DEF Fabric!LanSaves
        <4>3. QED
          BY <1>2, <2>0, <4>2, FabricSameCalm
      <3>2. CASE w.read # claim[w.node]
        BY <1>2, <2>0, <2>7, <3>2, FabricNobodyIsCalm DEF Fabric!LanSaves
      <3>3. QED
        BY <3>1, <3>2
    <2>8. QED
      BY <2>1, <2>2, <2>3, <2>4, <2>5, <2>6, <2>7 DEF Fabric!Next
  <1>3. QED
    BY <1>1, <1>2 DEF Fabric!FabricInv

LEMMA FabricRoutesTo ==
  ASSUME Fabric!FabricAssumption, NEW mine \in Fabric!Claims, NEW seen, NEW n \in FabricNodes, NEW m \in FabricNodes, m # n, NEW f \in Twins,
         NEW its \in Fabric!Claims, seen[m] = its, Fabric!Held(mine[f]), Fabric!Held(its[f]), mine[f].prefix = its[f].prefix
  PROVE [to |-> m, fabric |-> f, claim |-> its[f]] \in Fabric!Desired(mine, seen, n)
  <1>1. its[f] \in [prefix : FabricPrefixes, subnet : FabricSubnets]
    BY FabricPrefixIsSome DEF Fabric!Blocks
  <1>2. QED
    BY <1>1 DEF Fabric!Desired

THEOREM FabricGives == ASSUME Fabric!FabricAssumption, Fabric!FabricInv PROVE Fabric!FabricsHold
  <1> DEFINE members == s1  claim == s2  said == s3  routes == s4  skipped == s6  op == s8
             jobs == s9
  <1> SUFFICES ASSUME NEW c \in FabricNodes, Fabric!Report(c)
               PROVE LET f == op[c].fabric IN
                     /\ op[c].kind \in {"create", "extend"} =>
                           /\ \A n \in members : Fabric!Held(claim[n][f])
                           /\ \A n \in op[c].fresh : \A m \in members \ {n} : claim[n][f] # claim[m][f]
                           /\ \A n \in members \ {c} : Fabric!RoutedBoth(c, n, f)
                     /\ op[c].kind = "delete" =>
                           /\ \A n \in members : ~Fabric!Held(claim[n][f])
                           /\ \A n \in members \ skipped : \A r \in routes[n] : r.fabric # f
                     /\ op[c].kind = "join" =>
                           \A g \in Twins : \A n \in members \ {c} :
                              Fabric!Held(claim[c][g]) /\ Fabric!Held(claim[n][g]) /\ claim[c][g].prefix = claim[n][g].prefix =>
                                 claim[c][g] # claim[n][g] /\ Fabric!RoutedBoth(c, n, g)
    BY DEF Fabric!FabricsHold, Fabric!FabricInv, Fabric!ChangeIsDone
  <1>1. /\ Fabric!CalmFits(c) /\ op[c].at = "done" /\ jobs = {} /\ Fabric!Levelled(c) /\ Fabric!OpFits(op[c], members) /\ c \in members
        /\ members \subseteq FabricNodes /\ \A n \in FabricNodes : claim[n] \in Fabric!Claims
    BY DEF Fabric!Report, Fabric!FabricInv, Fabric!Calm, Fabric!CalmFits, Fabric!TypeOK, Fabric!OpsOK, Fabric!ClaimsOK
  <1>2. Fabric!Due(c) = {}
    BY <1>1 DEF Fabric!Due
  <1>8. \A n \in FabricNodes : routes[n] = Fabric!Desired(claim[n], said[n], n) \/ n \in skipped
    BY <1>1 DEF Fabric!FabricInv, Fabric!RoutesFollow, Fabric!Taking
  <1>3. ASSUME NEW n \in members \ {c}, NEW g \in Twins, Fabric!Held(claim[c][g]), Fabric!Held(claim[n][g]),
               claim[c][g].prefix = claim[n][g].prefix
        PROVE Fabric!RoutedBoth(c, n, g)
    <2>1. said[c][n] = claim[n] /\ said[n][c] = claim[c]
      BY <1>1 DEF Fabric!Levelled, Fabric!Told
    <2>2. n \in FabricNodes /\ claim[n] \in Fabric!Claims /\ claim[c] \in Fabric!Claims
      BY <1>1
    <2>3. [to |-> n, fabric |-> g, claim |-> claim[n][g]] \in Fabric!Desired(claim[c], said[c], c)
      BY <1>3, <2>1, <2>2, FabricRoutesTo
    <2>4. [to |-> c, fabric |-> g, claim |-> claim[c][g]] \in Fabric!Desired(claim[n], said[n], n)
      BY <1>3, <2>1, <2>2, FabricRoutesTo
    <2>5. QED
      BY <1>8, <2>1, <2>2, <2>3, <2>4 DEF Fabric!Routed, Fabric!RoutedBoth
  <1>4. CASE op[c].kind \in {"create", "extend"}
    <2> DEFINE f == op[c].fabric
    <2>1. Fabric!GivenOut(c) /\ f \in Twins /\ op[c].prefix \in FabricPrefixes /\ op[c].fresh \subseteq members
      BY <1>1, <1>4 DEF Fabric!CalmFits, Fabric!OpFits
    <2>2. \A n \in members : Fabric!Has(c, n) /\ ~Fabric!IsDue(c, n)
      BY <1>2, <2>1 DEF Fabric!GivenOut, Fabric!IsDue
    <2>3. \A n \in members : claim[n][f].prefix = op[c].prefix /\ Fabric!Held(claim[n][f])
      BY <1>1, <2>1, <2>2, FabricPrefixIsSome DEF Fabric!Has
    <2>4. \A n \in op[c].fresh : \A m \in members \ {n} : claim[n][f] # claim[m][f]
      BY <2>1, <2>2 DEF Fabric!GivenOut
    <2>5. \A n \in members \ {c} : Fabric!RoutedBoth(c, n, f)
      BY <1>1, <1>3, <2>1, <2>3
    <2>6. QED
      BY <1>4, <2>3, <2>4, <2>5
  <1>5. CASE op[c].kind = "delete"
    <2>1. \A n \in members : ~Fabric!Held(claim[n][op[c].fabric])
      BY <1>1, <1>5 DEF Fabric!CalmFits, Fabric!Cleared, Fabric!Going
    <2>2. \A n \in members \ skipped : routes[n] = Fabric!Desired(claim[n], said[n], n)
      BY <1>1, <1>8
    <2>3. \A n \in members \ skipped : \A r \in routes[n] : Fabric!Held(claim[n][r.fabric])
      BY <2>2 DEF Fabric!Desired
    <2>4. QED
      BY <1>5, <2>1, <2>3
  <1>6. CASE op[c].kind = "join"
    <2>1. Fabric!Joined(c)
      BY <1>1, <1>6 DEF Fabric!CalmFits
    <2>2. QED
      BY <1>3, <1>6, <2>1 DEF Fabric!Joined
  <1>7. QED
    BY <1>4, <1>5, <1>6
=============================================================================
