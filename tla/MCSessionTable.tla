--------------------------- MODULE MCSessionTable ---------------------------
(* SessionTable for TLC.  References and transaction keys are symmetric:   *)
(* no operator orders them or picks one with CHOOSE.                       *)
EXTENDS SessionTable, TLC

Symm == Permutations(NodeRef) \union Permutations(RSeid)
=============================================================================
