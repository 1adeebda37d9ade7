----------------------------- MODULE MCSessionSave -----------------------------
(* Two runtimes share a session.                                           *)
EXTENDS SessionSave, TLC

CONSTANTS r1, r2

MCRuntime == {r1, r2}
Symmetry == Permutations(MCRuntime)
================================================================================
