------------------------------- MODULE MCRewind -------------------------------
(* Turns over two files, which are alike.                                  *)
EXTENDS Rewind

CONSTANTS f1, f2

TwoFiles == {f1, f2}
Symmetry == Permutations(TwoFiles)
===============================================================================
