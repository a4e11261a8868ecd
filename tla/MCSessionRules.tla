--------------------------- MODULE MCSessionRules ---------------------------
(* SessionRules for TLC: two SEIDs, a FAR, a QER and a PDR.                *)
EXTENDS SessionRules, TLC

CONSTANTS s1, s2, f1, q1, p1, v1, v2

MCSEID == {s1, s2}
MCRule == {f1, q1, p1}
MCVal  == {v1, v2}
MCKindOf == (f1 :> FAR) @@ (q1 :> QER) @@ (p1 :> PDR)
MCFarOf  == [r \in MCRule |-> f1]
Sym == Permutations(MCSEID)
=============================================================================
