------------------------------ MODULE SessionFile ------------------------------
(***************************************************************************)
(* What the transcript store promises of one session file, whatever the    *)
(* runtimes that share it do: its transcript is continued, or replaced by  *)
(* a runtime that knows exactly the transcript it replaces.  Nobody drops  *)
(* messages it has never seen.                                             *)
(***************************************************************************)
EXTENDS SequencesExt, Naturals

CONSTANTS
    Runtime,
    Transcript,         \* the transcripts a file may hold
    NoFile              \* there is no transcript

VARIABLES
    stored,             \* the transcript a reader of the file finds
    known               \* known[r]: the transcript runtime r last read or wrote

vars == <<stored, known>>

Init == /\ stored \in Transcript \cup {NoFile}
        /\ known = [r \in Runtime |-> NoFile]

Create == /\ stored = NoFile
          /\ stored' \in Transcript
          /\ UNCHANGED known

Extend == /\ stored # NoFile
          /\ stored' \in Transcript
          /\ IsStrictPrefix(stored, stored')
          /\ UNCHANGED known

Rewrite(r) == /\ stored # NoFile /\ known[r] = stored
              /\ stored' \in Transcript
              /\ UNCHANGED known

Learn(r) == known' = [known EXCEPT ![r] = stored] /\ UNCHANGED stored

Forget(r) == known' = [known EXCEPT ![r] = NoFile] /\ UNCHANGED stored

Next == \/ Create \/ Extend
        \/ \E r \in Runtime : Rewrite(r) \/ Learn(r) \/ Forget(r)

Spec == Init /\ [][Next]_vars
================================================================================
