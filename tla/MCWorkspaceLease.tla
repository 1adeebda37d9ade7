-------------------------- MODULE MCWorkspaceLease --------------------------
(* Two sessions in one process and a third in another; the first session   *)
(* has two runs, the others one each, and any of them may start a job.     *)
EXTENDS WorkspaceLease, TLC

CONSTANTS o1, o2, o3, p1, p2, r1, r2, r3, r4, j1, j2

MCOwner == {o1, o2, o3}
MCProcess == {p1, p2}
MCRun == {r1, r2, r3, r4}
MCJob == {j1}
MCProcessOf == (o1 :> p1) @@ (o2 :> p1) @@ (o3 :> p2)
MCOwnerOf == (r1 :> o1) @@ (r2 :> o1) @@ (r3 :> o2) @@ (r4 :> o3)
=============================================================================
