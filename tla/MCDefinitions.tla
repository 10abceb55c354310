--------------------------- MODULE MCDefinitions ---------------------------
(***************************************************************************)
(* Definitions on three members, any of which can be exchanged.            *)
(***************************************************************************)
EXTENDS Definitions, TLC

Interchangeable == Permutations(Node)
=============================================================================
