--------------------------- MODULE RecoveryCursor ---------------------------
(***************************************************************************)
(* What the delivery ledger promises a chat platform, without records,     *)
(* obligations or a file: every remote channel hands out consecutive       *)
(* sequence numbers, each number is settled once and for all, and the      *)
(* checkpoint the adapter resumes from is the longest settled prefix -     *)
(* never beyond a message that is still owed an answer, never behind one   *)
(* whose whole prefix has been answered.                                   *)
(***************************************************************************)
EXTENDS Naturals

CONSTANT Channel                \* remote delivery streams

VARIABLES issued,               \* issued[c]: the last sequence handed out
          settled,              \* settled[c]: the sequences answered for good
          frontier              \* frontier[c]: the durable checkpoint

cursorVars == <<issued, settled, frontier>>

(* f is the end of the longest prefix of 1, 2, 3, ... inside S.            *)
IsPrefixEnd(f, S) == /\ \A i \in 1..f : i \in S
                     /\ f + 1 \notin S

Init == /\ issued = [c \in Channel |-> 0]
        /\ settled = [c \in Channel |-> {}]
        /\ frontier = [c \in Channel |-> 0]

(* A message enters channel c and receives the next sequence.              *)
Issue(c) == /\ issued' = [issued EXCEPT ![c] = @ + 1]
            /\ UNCHANGED <<settled, frontier>>

(* One durable commit settles messages of any channels; the checkpoint of  *)
(* each channel moves in that same commit.                                 *)
Settle == /\ \E c \in Channel : settled'[c] # settled[c]
          /\ settled' \in [Channel -> SUBSET UNION {1..issued[c] : c \in Channel}]
          /\ \A c \in Channel : settled[c] \subseteq settled'[c]
          /\ \A c \in Channel : settled'[c] \subseteq 1..issued[c]
          /\ frontier' \in [Channel -> UNION {0..issued[c] : c \in Channel}]
          /\ \A c \in Channel : IsPrefixEnd(frontier'[c], settled'[c])
          /\ UNCHANGED issued

Next == (\E c \in Channel : Issue(c)) \/ Settle

Spec == Init /\ [][Next]_cursorVars
=============================================================================
