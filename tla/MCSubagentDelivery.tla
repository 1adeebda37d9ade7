------------------------- MODULE MCSubagentDelivery -------------------------
(* Two references in a session and its branch.                              *)
EXTENDS SubagentDelivery, TLC

CONSTANTS p1, r1, r2, s1, s2

MCSession == {s1, s2}
MCParent == (s1 :> None) @@ (s2 :> s1)

RefSymmetry == Permutations({r1, r2})
=============================================================================
