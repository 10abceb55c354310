----------------------------- MODULE MCTaskVote -----------------------------
(***************************************************************************)
(* Small clusters for TLC to check TaskVote on.                            *)
(***************************************************************************)
EXTENDS TaskVote

CONSTANTS a, b, c

\* The order rank() gives the occurrence: a stands first, c last.
AlphabeticalRank == [n \in Node |-> CASE n = a -> 0 [] n = b -> 1 [] n = c -> 2]

\* All that the rest of a behaviour depends on: a verdict is only written.
Ahead ==
    <<clock, upcoming, members, stage, tries, order, voters, answer, grants, net, ran, restarts>>
=============================================================================
