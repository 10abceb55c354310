----------------------------- MODULE Occurrence -----------------------------
(***************************************************************************)
(* What the cluster promises about one scheduled occurrence of a task      *)
(* (docs/tasks.md, "Who runs a scheduled run"): it is started by at most   *)
(* one candidacy of one node.  Nothing is promised about it being started: *)
(* an occurrence may be missed.  TaskVote implements this specification.   *)
(***************************************************************************)
EXTENDS FiniteSets

CONSTANT Candidacy     \* the candidacies for the occurrence: who stands, and which time

VARIABLE started       \* the candidacies that started a run of it: none, or one

Init == started = {}

\* One candidacy starts a run of the occurrence, which none has started yet.
Start(c) ==
    /\ started = {}
    /\ started' = {c}

Next == \E c \in Candidacy : Start(c)

Spec == Init /\ [][Next]_started
=============================================================================
