------------------------- MODULE MCDeliveryLedger -------------------------
(* A group chat m1, m2, m3 on channel c1, where m1 and m2 come from one    *)
(* user's session and m3 from another's; a direct chat m4 on channel c2;   *)
(* and a ledger that holds only two records, so that a third claim must    *)
(* evict one.                                                              *)
EXTENDS DeliveryLedger, TLC

CONSTANTS m1, m2, m3, m4, c1, c2, s1, s2, s3

MCMessage == {m1, m2, m3, m4}
MCChannel == {c1, c2}
MCSession == {s1, s2, s3}
MCChannelOf == (m1 :> c1) @@ (m2 :> c1) @@ (m3 :> c1) @@ (m4 :> c2)
MCSessionOf == (m1 :> s1) @@ (m2 :> s1) @@ (m3 :> s2) @@ (m4 :> s3)

(* m1 and m2 are interchangeable, and every property is a safety property. *)
SameUser == Permutations({m1, m2})
=============================================================================
