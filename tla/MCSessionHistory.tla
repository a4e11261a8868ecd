-------------------------- MODULE MCSessionHistory --------------------------
(* SessionHistory for TLC.  References and the SEIDs of the SMFs are       *)
(* symmetric: no operator orders them or picks one with CHOOSE.            *)
EXTENDS SessionHistory, TLC

Symm == Permutations(NodeRef) \union Permutations(RSeid)
=============================================================================
