--------------------------- MODULE MCUpdateRepair ---------------------------
(* Three releases, the last of which never comes up, two updates and two    *)
(* faults, with one Guard process.                                         *)
EXTENDS UpdateRepair
CONSTANTS g1
=============================================================================
