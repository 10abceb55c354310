----------------------------- MODULE MCStackRun -----------------------------
(***************************************************************************)
(* Small sequences of swarms for TLC to check StackRun on.                 *)
(***************************************************************************)
EXTENDS StackRun

CONSTANTS home, peer

\* A swarm with a followed launch on both nodes beside a script, then another
\* script; and after it one with a launch that waits for its bootstrap, and a gate.
TwoSwarms ==
    << {"gen", "warm"}, {"test"}, {"smoke_ends"}, {"load"}, {"gate"}, {"heavy_ends"} >>

TwoSwarmsSwarm == [s \in UNION {TwoSwarms[i] : i \in DOMAIN TwoSwarms} |->
                      IF s \in {"load", "gate", "heavy_ends"} THEN "heavy" ELSE "smoke"]

TwoSwarmsKind ==
    [gen |-> "follow", warm |-> "script", test |-> "script", smoke_ends |-> "teardown",
     load |-> "launch", gate |-> "healthy", heavy_ends |-> "teardown"]

TwoSwarmsWhere == [gen |-> {home, peer}, load |-> {peer}]
=============================================================================
