--------------------------- MODULE StartupLedger ---------------------------
(* The startup ledger of the desktop app (internal/repair/startup.go): one  *)
(* record in a file that desktop and Guard processes update under a file    *)
(* lock.  It counts the starts that did not end well within a window of     *)
(* five minutes.  Every operation is a function of the record; a process    *)
(* that ends is replaced by Dead, as the record's pid is only ever asked    *)
(* whether it is alive.                                                     *)
EXTENDS Naturals

CONSTANTS
    FailureLimit,   \* starts that recommend Safe Mode (defaultFailureLimit)
    Dead            \* the pid of a process that is gone, or of nobody

ASSUME LimitAssumption == FailureLimit \in Nat \ {0}

VARIABLE ledger

NoStart == [phase |-> "none", version |-> 0, pid |-> Dead, failures |-> 0, fresh |-> FALSE]

Incomplete(phase) == phase \in {"starting", "ready", "failed"}
Running(phase) == phase \in {"starting", "ready", "healthy"}

LiveOwner(l) == Running(l.phase) /\ l.pid # Dead

(* fresh: the window of the first failure has not passed.                   *)
SafeModeRecommended ==
    /\ Incomplete(ledger.phase)
    /\ ~ LiveOwner(ledger)
    /\ ledger.fresh
    /\ ledger.failures >= FailureLimit

(* Mutant of CountStart: only a start that told of its failure counts.      *)
CountFailedStart(l) ==
    IF l.phase = "failed" /\ l.fresh /\ l.failures < FailureLimit THEN l.failures + 1 ELSE 1

(* The count of a start: this one, and those before it in the same window.  *)
(* Counts above the limit are not told apart.                               *)
CountStart(l) ==
    IF Incomplete(l.phase) /\ l.fresh
    THEN IF l.failures < FailureLimit THEN l.failures + 1 ELSE FailureLimit
    ELSE 1

(* Begin: a live owner is never replaced.                                   *)
Begun(l, p, v) ==
    IF LiveOwner(l) THEN l
    ELSE [phase |-> "starting", version |-> v, pid |-> p, failures |-> CountStart(l),
          fresh |-> TRUE]

(* transition: refused while another process that is alive owns the record. *)
Marked(l, p, phase) ==
    IF l.pid \notin {Dead, p} THEN l
    ELSE IF phase \in {"healthy", "clean-exit"}
         THEN [l EXCEPT !.phase = phase, !.failures = 0, !.fresh = FALSE]
         ELSE [l EXCEPT !.phase = phase]

(* The process p is gone.                                                   *)
Abandoned(l, p) == IF l.pid = p THEN [l EXCEPT !.pid = Dead] ELSE l

=============================================================================
