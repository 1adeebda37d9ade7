------------------------- MODULE UpdateRepairProofs -------------------------
(***************************************************************************)
(* What is proved of UpdateRepair, for any number of Guard processes,      *)
(* releases, updates and faults.                                           *)
(***************************************************************************)
EXTENDS UpdateRepair, TLAPS

(* One rollback at a time holds the lock, of the update that is pending,   *)
(* and it has not met an installation that nobody recorded.                *)
Alone == \A g, h \in Guard : Swapping(g) /\ Swapping(h) => g = h
Held == Locked => pending # NoUpdate /\ begun = pending.id
Apart == Locked /\ ~ collided => ~ Installing

(* The pending update is the last one that was prepared.                   *)
Latest == /\ begun <= updates
          /\ pending # NoUpdate => pending.id = updates /\ pending.id > 0 /\ pending.to > 1

Runs == desktop.pc # "off" => desktop.version > 0

(* Who installs, installs the pending update, and is older than it.        *)
Ours == Installing =>
            /\ desktop.version < desktop.to
            /\ collided \/ (pending # NoUpdate /\ desktop.to = pending.to)

Backed == pending # NoUpdate => \A f \in Name : ~ Missing(f) => backup[f] \in {pending.old[f], Damaged}

(* What an update starts from is whole, and so is what it leaves.          *)
WholeBefore == ~ collided => /\ pending = NoUpdate => Whole(file)
                             /\ pending # NoUpdate => Whole(pending.old)

(* Guard goes first: where the new desktop is installed, and more so where *)
(* it runs, the whole new release is.                                      *)
GuardFirst ==
    /\ ~ collided /\ desktop.pc \in {"desktopAway", "desktopIn"} => file["guard"] = desktop.to
    /\ ~ collided /\ pending # NoUpdate /\ begun # pending.id =>
          /\ file["desktop"] = pending.to => file["guard"] = pending.to
          /\ desktop.version = pending.to => \A f \in Name : file[f] = pending.to

(* A rollback has put back what it has passed.                             *)
Passed(r) == \A j \in 1 .. 2 : j < r.at => file[Files[j]] = pending.old[Files[j]]

Restoring ==
    \A g \in Guard : Swapping(g) =>
        /\ BackupsMatch
        /\ ~ collided => /\ guard[g].pc \in {"aside", "restore"} => Passed(guard[g])
                         /\ guard[g].pc \in {"clean", "forget"} => file = pending.old
        /\ guard[g].pc = "restore" => ~ Missing(Files[guard[g].at])

(* A failure that is recorded, or in a Guard's hands, is of an update that *)
(* failed.                                                                 *)
Real(m) == m.at <= updates /\ (m.at = 0 \/ m.at \in failed)
Causes ==
    /\ Real(marker)
    /\ \A g \in Guard : Real(guard[g].failure) /\ (guard[g].reason = "installer" => guard[g].tx \in failed)

Safe == Runs /\ Alone /\ Held /\ Apart /\ Latest /\ Ours /\ Backed /\ WholeBefore /\ GuardFirst /\ Restoring
IInv == TypeOK /\ Safe /\ Causes

-----------------------------------------------------------------------------
LEMMA FilesFacts == /\ Len(Files) = 2 /\ Files[1] = "desktop" /\ Files[2] = "guard"
                    /\ \A i \in 1 .. 2 : Files[i] \in Name
BY DEF Files, Name

LEMMA GuardOffTyped ==
  GuardOff \in GuardState /\ DesktopOff \in DesktopState /\ Cautious \in GuardState
<1> USE ReleaseAssumption DEF Absent, Damaged, Stored, Release
<1>1. [f \in Name |-> FALSE] \in [Name -> BOOLEAN]  OBVIOUS
<1>2. NoMarker \in Marker  BY DEF NoMarker, Marker
<1>3. GuardOff \in GuardState  BY <1>1, <1>2 DEF GuardOff, GuardState
<1>4. DesktopOff \in DesktopState  BY DEF DesktopOff, DesktopState
<1> QED BY <1>3, <1>4 DEF Cautious, GuardState

LEMMA GoingTyped ==
  ASSUME NEW r \in GuardState,
         NEW p \in {"check", "attribute", "mark", "launch", "rollback"}
  PROVE  Going(r, p) \in GuardState
BY GuardOffTyped DEF Going, GuardState

LEMMA Init_IInv == Init => IInv
<1> SUFFICES ASSUME Init PROVE IInv  OBVIOUS
<1> USE ReleaseAssumption, LimitAssumption DEF Init, Name, Absent, Version, Damaged, Stored, Release
<1>1. TypeOK
  <2>1. /\ file \in [Name -> Stored] /\ aside \in [Name -> Stored] /\ backup \in [Name -> Stored]
    BY DEF Unguarded
  <2>2. ledger \in LedgerState  BY DEF NoStart, LedgerState
  <2>3. NoUpdate.old \in [Name -> Stored] /\ NoUpdate.id \in Nat /\ NoUpdate.to \in Release
    BY DEF NoUpdate
  <2>4. pending \in Update /\ marker \in Marker
    BY <2>3 DEF NoUpdate, NoMarker, Marker, Update
  <2>5. desktop \in DesktopState  BY DEF DesktopOff, DesktopState
  <2>6. GuardOff \in GuardState  BY GuardOffTyped
  <2>7. GuardOff.undone <= GuardOff.at  BY DEF GuardOff
  <2> QED BY <2>1, <2>2, <2>4, <2>5, <2>6, <2>7 DEF TypeOK
<1>2. \A g \in Guard : ~ Swapping(g)  BY DEF Swapping, GuardOff
<1>3. ~ Installing /\ Whole(file)  BY DEF Installing, DesktopOff, Whole
<1>4. Safe
  BY <1>2, <1>3 DEF Safe, Runs, Alone, Held, Locked, Apart, Latest, Ours, Backed, WholeBefore,
     GuardFirst, Restoring, DesktopOff
<1>5. Causes  BY DEF Causes, Real, NoMarker, GuardOff
<1> QED BY <1>1, <1>4, <1>5 DEF IInv

-----------------------------------------------------------------------------
(* Type correctness.                                                       *)
GuardFine(r) == r \in GuardState /\ r.undone <= r.at

LEMMA LedgerTyped ==
  ASSUME NEW l \in LedgerState, NEW v \in Release, NEW p, NEW q \in {Dead, Desktop},
         NEW phase \in {"ready", "healthy", "failed", "clean-exit"}
  PROVE  Begun(l, q, v) \in LedgerState /\ Marked(l, p, phase) \in LedgerState /\ Abandoned(l, p) \in LedgerState
<1> USE LimitAssumption
<1>1. CountStart(l) \in 0 .. FailureLimit  BY DEF CountStart, LedgerState
<1>2. Begun(l, q, v) \in LedgerState  BY <1>1 DEF Begun, LedgerState
<1>3. Marked(l, p, phase) \in LedgerState
  <2>1. [l EXCEPT !.phase = phase] \in LedgerState  BY DEF LedgerState
  <2>2. [l EXCEPT !.phase = phase, !.failures = 0, !.fresh = FALSE] \in LedgerState
    <3>1. 0 \in 0 .. FailureLimit  OBVIOUS
    <3> HIDE LimitAssumption
    <3> QED BY <3>1 DEF LedgerState
  <2> QED BY <2>1, <2>2 DEF Marked
<1>4. Abandoned(l, p) \in LedgerState  BY DEF Abandoned, LedgerState
<1> QED BY <1>2, <1>3, <1>4

LEMMA GoingAt == \A r, p : Going(r, p).undone = 1 /\ Going(r, p).at = 1 /\ Going(r, p).reason = "none"
BY DEF Going, GuardOff

LEMMA OutcomeTyped ==
  ASSUME NEW r \in GuardState, r.undone <= r.at, NEW o
  PROVE  GuardFine(AfterRollback(r, o))
<1>1. GuardFine(GuardOff) /\ GuardFine(Cautious)
  BY GuardOffTyped DEF GuardFine, GuardOff, Cautious
<1>2. GuardFine(Going(r, "mark"))  BY GoingTyped, GoingAt DEF GuardFine
<1>3. GuardFine([r EXCEPT !.pc = "clear"]) /\ GuardFine([r EXCEPT !.pc = "drop"])
  BY DEF GuardFine, GuardState
<1> QED BY <1>1, <1>2, <1>3 DEF AfterRollback

LEMMA AdvancedTyped ==
  ASSUME NEW r \in GuardState, r.undone <= r.at
  PROVE  GuardFine(Advanced(r))
<1>1. GuardFine([r EXCEPT !.pc = "clean"])  BY DEF GuardFine, GuardState
<1>2. r.at # 2 => r.at + 1 \in 1 .. 2 /\ r.undone <= r.at + 1  BY DEF GuardState
<1>3. r.at # 2 => [r EXCEPT !.pc = "aside", !.at = r.at + 1] \in GuardState
  BY <1>2 DEF GuardState
<1>4. r.at # 2 => GuardFine([r EXCEPT !.pc = "aside", !.at = r.at + 1])
  BY <1>2, <1>3 DEF GuardFine, GuardState
<1> QED BY <1>1, <1>4, FilesFacts DEF Advanced

LEMMA ReleaseFacts ==
  /\ Absent \in Release /\ Version \subseteq Release /\ Release \subseteq Stored
  /\ Damaged \in Stored /\ "desktop" \in Name /\ "guard" \in Name
BY ReleaseAssumption DEF Absent, Release, Stored, Version, Damaged, Name

LEMMA NoUpdateTyped == NoUpdate \in Update
<1>1. [f \in Name |-> Absent] \in [Name -> Stored]  BY ReleaseFacts
<1> QED BY <1>1, ReleaseFacts DEF NoUpdate, Update

(* A step of a Guard that replaces its own record.                         *)
LEMMA OneGuard ==
  ASSUME TypeOK, NEW g \in Guard, NEW r, GuardFine(r), guard' = [guard EXCEPT ![g] = r]
  PROVE  guard' \in [Guard -> GuardState] /\ \A h \in Guard : guard'[h].undone <= guard'[h].at
BY DEF TypeOK, GuardFine

LEMMA DesktopTypes == TypeOK /\ (DesktopStep \/ UserLaunch \/ Quit \/ CrashDesktop) => TypeOK'
<1> SUFFICES ASSUME TypeOK, DesktopStep \/ UserLaunch \/ Quit \/ CrashDesktop PROVE TypeOK'  OBVIOUS
<1> USE ReleaseFacts DEF TypeOK, disk, history, Fault
<1>1. CASE BeginStart
  <2>1. ledger' \in LedgerState  BY <1>1, LedgerTyped DEF BeginStart, DesktopState
  <2>2. desktop' \in DesktopState  BY <1>1 DEF BeginStart, DesktopState
  <2> QED BY <1>1, <2>1, <2>2 DEF BeginStart
<1>2. CASE DomReady
  <2>1. ledger' \in LedgerState  BY <1>2, LedgerTyped DEF DomReady, DesktopState
  <2>2. desktop' \in DesktopState  BY <1>2 DEF DomReady, DesktopState
  <2> QED BY <1>2, <2>1, <2>2 DEF DomReady
<1>3. CASE FailStart
  <2>1. ledger' \in LedgerState  BY <1>3, LedgerTyped DEF FailStart, DesktopState
  <2> QED BY <1>3, <2>1, GuardOffTyped DEF FailStart
<1>4. CASE HealthTimer
  <2>1. ledger' \in LedgerState  BY <1>4, LedgerTyped DEF HealthTimer, DesktopState
  <2>2. desktop' \in DesktopState  BY <1>4 DEF HealthTimer, DesktopState
  <2> QED BY <1>4, <2>1, <2>2 DEF HealthTimer
<1>5. CASE ConfirmHealthy \/ ConfirmClosing
  <2>1. desktop' \in DesktopState  BY <1>5 DEF ConfirmHealthy, ConfirmClosing, DesktopState
  <2>2. NoUpdate \in Update  BY NoUpdateTyped
  <2>3. backup' \in [Name -> Stored] /\ pending' \in Update /\ file' = file /\ aside' = aside
        /\ faults' \in Nat /\ collided' \in BOOLEAN
    <3> MarkUpdateHealthy(desktop.version)  BY <1>5 DEF ConfirmHealthy, ConfirmClosing
    <3>1. [f \in Name |-> IF pending.old[f] = Absent THEN backup[f] ELSE Absent] \in [Name -> Stored]
      OBVIOUS
    <3>2. (/\ pending' = NoUpdate
           /\ backup' = [f \in Name |-> IF pending.old[f] = Absent THEN backup[f] ELSE Absent]
           /\ collided' = (collided \/ begun = pending.id)
           /\ UNCHANGED <<file, aside, faults>>)
          \/ (UNCHANGED <<disk, collided>> /\ faults' \in Nat)
      BY DEF MarkUpdateHealthy
    <3> QED BY <2>2, <3>1, <3>2
  <2> QED BY <1>5, <2>1, <2>3 DEF ConfirmHealthy, ConfirmClosing
<1>6. CASE Shutdown
  <2>1. ledger' \in LedgerState  BY <1>6, LedgerTyped DEF Shutdown, DesktopState
  <2>2. desktop' \in DesktopState  BY <1>6 DEF Shutdown, DesktopState
  <2> QED BY <1>6, <2>1, <2>2 DEF Shutdown
<1>7. CASE Exit
  <2>1. ledger' \in LedgerState  BY <1>7, LedgerTyped DEF Exit, DesktopState
  <2>2. CASE UNCHANGED guard  BY <1>7, <2>1, <2>2, GuardOffTyped DEF Exit
  <2>3. CASE \E g \in Guard : GuardStarted(g, desktop.safe)
    <3>0. PICK g \in Guard : GuardStarted(g, desktop.safe)  BY <2>3
    <3>a. GuardFine(guard[g]) /\ desktop.safe \in BOOLEAN  BY DEF GuardFine, DesktopState
    <3>2. GuardFine([guard[g] EXCEPT !.pc = "recover", !.safe = desktop.safe])
      BY <3>a DEF GuardFine, GuardState
    <3>3. guard' = [guard EXCEPT ![g] = [guard[g] EXCEPT !.pc = "recover", !.safe = desktop.safe]]
      BY <3>0 DEF GuardStarted
    <3>1. guard' \in [Guard -> GuardState] /\ \A h \in Guard : guard'[h].undone <= guard'[h].at
      BY <3>2, <3>3, OneGuard
    <3> QED BY <1>7, <2>1, <3>1, GuardOffTyped DEF Exit
  <2> QED BY <1>7, <2>2, <2>3 DEF Exit
<1>8. CASE ReplaceGuard
  <2>1. desktop' \in DesktopState /\ file' \in [Name -> Stored]
    BY <1>8 DEF ReplaceGuard, DesktopState
  <2> QED BY <1>8, <2>1 DEF ReplaceGuard
<1>9. CASE MoveDesktopAway
  <2>1. desktop' \in DesktopState  BY <1>9 DEF MoveDesktopAway, DesktopState
  <2>2. file' \in [Name -> Stored]  BY <1>9 DEF MoveDesktopAway, DesktopState
  <2> QED BY <1>9, <2>1, <2>2 DEF MoveDesktopAway
<1>10. CASE MoveDesktopIn
  <2>1. desktop' \in DesktopState  BY <1>10 DEF MoveDesktopIn, DesktopState
  <2>2. file' \in [Name -> Stored]  BY <1>10 DEF MoveDesktopIn, DesktopState
  <2> QED BY <1>10, <2>1, <2>2 DEF MoveDesktopIn
<1>11. CASE RecordFailure
  <2>1. desktop' \in DesktopState  BY <1>11 DEF RecordFailure, DesktopState
  <2>2. marker' \in Marker  BY <1>11 DEF RecordFailure, DesktopState, Marker
  <2> QED BY <1>11, <2>1, <2>2 DEF RecordFailure
<1>12. CASE UserLaunch
  <2>1. desktop' \in DesktopState  BY <1>12 DEF UserLaunch, Started, DesktopState
  <2> QED BY <1>12, <2>1 DEF UserLaunch
<1>13. CASE Quit
  <2>1. desktop' \in DesktopState  BY <1>13 DEF Quit, DesktopState
  <2> QED BY <1>13, <2>1 DEF Quit
<1>14. CASE CrashDesktop
  <2>1. ledger' \in LedgerState  BY <1>14, LedgerTyped DEF CrashDesktop
  <2> QED BY <1>14, <2>1, GuardOffTyped DEF CrashDesktop
<1> QED BY <1>1, <1>2, <1>3, <1>4, <1>5, <1>6, <1>7, <1>8, <1>9, <1>10, <1>11, <1>12, <1>13, <1>14
        DEF DesktopStep

LEMMA GuardTypes ==
  ASSUME TypeOK, NEW g \in Guard, GuardStep(g) \/ GuardLaunch(g) \/ GuardRollback(g) \/ CrashGuard(g)
  PROVE  TypeOK'
<1> USE ReleaseFacts DEF TypeOK, disk, history, Fault
<1> DEFINE r == guard[g]
<1>0. r \in GuardState /\ r.undone <= r.at /\ GuardFine(r)  BY DEF GuardFine
<1>g. GuardFine(GuardOff) /\ GuardFine(Cautious) /\ \A p \in {"check", "attribute", "mark", "launch", "rollback"} : GuardFine(Going(r, p))
  BY <1>0, GuardOffTyped, GoingTyped, GoingAt DEF GuardFine, GuardOff, Cautious
<1>o. \A o : GuardFine(AfterRollback(r, o))  BY <1>0, OutcomeTyped
<1>p. \A p \in {"recover", "match", "drop", "check", "rollback", "aside", "restore", "undo", "clean", "forget"} :
        GuardFine([r EXCEPT !.pc = p])
  BY <1>0 DEF GuardFine, GuardState
<1> HIDE DEF r
<1>1. CASE ReadFailure(g)
  <2>1. GuardFine([r EXCEPT !.pc = IF marker = NoMarker THEN "check" ELSE "match", !.failure = marker])
    BY <1>0 DEF GuardFine, GuardState
  <2>2. guard' = [guard EXCEPT ![g] = [r EXCEPT !.pc = IF marker = NoMarker THEN "check" ELSE "match", !.failure = marker]]
    BY <1>1 DEF ReadFailure, r
  <2>3. guard' \in [Guard -> GuardState] /\ \A h \in Guard : guard'[h].undone <= guard'[h].at
    BY <2>1, <2>2, OneGuard
  <2> QED BY <1>1, <2>3 DEF ReadFailure
<1>2. CASE MatchFailure(g)
  <2>1. GuardFine([r EXCEPT !.pc = "rollback", !.reason = "installer", !.tx = pending.id])
    BY <1>0 DEF GuardFine, GuardState, Update
  <2>2. \/ guard' = [guard EXCEPT ![g] = [r EXCEPT !.pc = "rollback", !.reason = "installer", !.tx = pending.id]]
        \/ guard' = [guard EXCEPT ![g] = [r EXCEPT !.pc = "drop"]]
    BY <1>2 DEF MatchFailure, r
  <2>3. guard' \in [Guard -> GuardState] /\ \A h \in Guard : guard'[h].undone <= guard'[h].at
    BY <1>p, <2>1, <2>2, OneGuard
  <2> QED BY <1>2, <2>3 DEF MatchFailure
<1>3. CASE ClearFailure(g)
  <2>2. guard' = [guard EXCEPT ![g] = GuardOff] \/ guard' = [guard EXCEPT ![g] = Going(r, "check")]
    BY <1>3 DEF ClearFailure, r
  <2>3. guard' \in [Guard -> GuardState] /\ \A h \in Guard : guard'[h].undone <= guard'[h].at
    BY <1>g, <2>2, OneGuard
  <2>4. marker' \in Marker  BY <1>3 DEF ClearFailure, Marker, NoMarker
  <2> QED BY <1>3, <2>3, <2>4 DEF ClearFailure
<1>4. CASE CheckStarts(g)
  <2>2. \/ guard' = [guard EXCEPT ![g] = GuardOff] \/ guard' = [guard EXCEPT ![g] = Going(r, "attribute")]
        \/ guard' = [guard EXCEPT ![g] = Going(r, "launch")]
    BY <1>4 DEF CheckStarts, r
  <2>3. guard' \in [Guard -> GuardState] /\ \A h \in Guard : guard'[h].undone <= guard'[h].at
    BY <1>g, <2>2, OneGuard
  <2> QED BY <1>4, <2>3 DEF CheckStarts
<1>5. CASE Attribute(g)
  <2>1. GuardFine([Going(r, "rollback") EXCEPT !.reason = "loop", !.tx = pending.id])
    BY <1>g DEF GuardFine, GuardState, Update
  <2>2. \/ guard' = [guard EXCEPT ![g] = Cautious]
        \/ guard' = [guard EXCEPT ![g] = [Going(r, "rollback") EXCEPT !.reason = "loop", !.tx = pending.id]]
    BY <1>5 DEF Attribute, r
  <2>3. guard' \in [Guard -> GuardState] /\ \A h \in Guard : guard'[h].undone <= guard'[h].at
    BY <1>g, <2>1, <2>2, OneGuard
  <2> QED BY <1>5, <2>3 DEF Attribute
<1>6. CASE MarkRolledBack(g)
  <2>2. guard' = [guard EXCEPT ![g] = Going(r, "launch")]  BY <1>6 DEF MarkRolledBack, r
  <2>3. guard' \in [Guard -> GuardState] /\ \A h \in Guard : guard'[h].undone <= guard'[h].at
    BY <1>g, <2>2, OneGuard
  <2>4. ledger' \in LedgerState  BY <1>6, LedgerTyped DEF MarkRolledBack
  <2> QED BY <1>6, <2>3, <2>4 DEF MarkRolledBack
<1>7. CASE LaunchDesktop(g)
  <2>2. guard' = [guard EXCEPT ![g] = GuardOff]  BY <1>7 DEF LaunchDesktop
  <2>3. guard' \in [Guard -> GuardState] /\ \A h \in Guard : guard'[h].undone <= guard'[h].at
    BY <1>g, <2>2, OneGuard
  <2>4. guard[g].safe \in BOOLEAN  BY DEF GuardState
  <2>5. ledger' \in LedgerState  BY <1>7, LedgerTyped DEF LaunchDesktop, HandsOver, Started
  <2>6. desktop' \in DesktopState  BY <1>7, <2>4 DEF LaunchDesktop, HandsOver, Started, DesktopState
  <2> QED BY <1>7, <2>3, <2>5, <2>6 DEF LaunchDesktop
<1>8. CASE BeginRollback(g)
  <2>2. \/ \E o : guard' = [guard EXCEPT ![g] = AfterRollback(r, o)]
        \/ guard' = [guard EXCEPT ![g] = [r EXCEPT !.pc = "aside", !.at = 1, !.undone = 1]]
    BY <1>8 DEF BeginRollback, r
  <2>1. GuardFine([r EXCEPT !.pc = "aside", !.at = 1, !.undone = 1])
    <3>1. 1 \in 1 .. 2 /\ 1 <= 1  OBVIOUS
    <3>2. [r EXCEPT !.pc = "aside", !.at = 1, !.undone = 1] \in GuardState
      BY <1>0, <3>1 DEF GuardState
    <3> QED BY <1>0, <3>1, <3>2 DEF GuardFine, GuardState
  <2>3. guard' \in [Guard -> GuardState] /\ \A h \in Guard : guard'[h].undone <= guard'[h].at
    BY <1>o, <2>1, <2>2, OneGuard
  <2>4. begun' \in Nat /\ collided' \in BOOLEAN /\ faults' \in Nat
    <3>1. pending.id \in Nat  BY DEF Update
    <3>2. /\ begun' = begun \/ begun' = pending.id
          /\ collided' = collided \/ collided' = (collided \/ Installing)
          /\ faults' = faults \/ faults' = faults + 1
      BY <1>8 DEF BeginRollback
    <3>3. begun' \in Nat  BY <3>1, <3>2
    <3>4. faults' \in Nat  BY <3>2
    <3>5. collided \in BOOLEAN /\ (collided \/ Installing) \in BOOLEAN  OBVIOUS
    <3>6. collided' \in BOOLEAN  BY <3>2, <3>5
    <3> QED BY <3>3, <3>4, <3>6
  <2> QED BY <1>8, <2>3, <2>4 DEF BeginRollback
<1>9. CASE MoveAside(g)
  <2> DEFINE k == file[Files[r.at]] # Absent \/ (~ Missing(Files[r.at]) /\ aside[Files[r.at]] # Absent)
             n == [r EXCEPT !.kept[Files[r.at]] = k]
  <2>0. Files[r.at] \in Name /\ r.at \in 1 .. 2  BY <1>0, FilesFacts DEF GuardState
  <2>1. n \in GuardState /\ n.undone <= n.at /\ n.at = r.at
    <3>1. [r.kept EXCEPT ![Files[r.at]] = k] \in [Name -> BOOLEAN]  BY <1>0 DEF GuardState
    <3>2. n = [r EXCEPT !.kept = [r.kept EXCEPT ![Files[r.at]] = k]]  BY <1>0 DEF GuardState
    <3> HIDE DEF k, n
    <3> QED BY <1>0, <3>1, <3>2 DEF GuardState
  <2>2. \/ guard' = [guard EXCEPT ![g] = Advanced(n)] \/ guard' = [guard EXCEPT ![g] = [n EXCEPT !.pc = "restore"]]
        \/ guard' = [guard EXCEPT ![g] = [r EXCEPT !.pc = "undo"]]
    BY <1>9 DEF MoveAside, r
  <2> HIDE DEF n, k
  <2>4. GuardFine(Advanced(n)) /\ GuardFine([n EXCEPT !.pc = "restore"])
    <3>1. GuardFine([n EXCEPT !.pc = "restore"])  BY <2>1 DEF GuardFine, GuardState
    <3> QED BY <2>1, <3>1, AdvancedTyped
  <2>3. guard' \in [Guard -> GuardState] /\ \A h \in Guard : guard'[h].undone <= guard'[h].at
    BY <1>p, <2>4, <2>2, OneGuard
  <2>5. file' \in [Name -> Stored] /\ aside' \in [Name -> Stored] /\ faults' \in Nat
    BY <1>9, <2>0 DEF MoveAside, r
  <2> QED BY <1>9, <2>3, <2>5 DEF MoveAside
<1>10. CASE RestoreFile(g)
  <2>0. Files[r.at] \in Name /\ r.at \in 1 .. 2  BY <1>0, FilesFacts DEF GuardState
  <2>2. \/ guard' = [guard EXCEPT ![g] = Advanced(r)]
        \/ guard' = [guard EXCEPT ![g] = [r EXCEPT !.pc = "undo", !.tried = TRUE]]
    BY <1>10 DEF RestoreFile, r
  <2>4. GuardFine(Advanced(r)) /\ GuardFine([r EXCEPT !.pc = "undo", !.tried = TRUE])
    <3>1. GuardFine([r EXCEPT !.pc = "undo", !.tried = TRUE])  BY <1>0 DEF GuardFine, GuardState
    <3> QED BY <1>0, <3>1, AdvancedTyped
  <2>3. guard' \in [Guard -> GuardState] /\ \A h \in Guard : guard'[h].undone <= guard'[h].at
    BY <2>4, <2>2, OneGuard
  <2>5. file' \in [Name -> Stored] /\ faults' \in Nat  BY <1>10, <2>0 DEF RestoreFile, r
  <2> QED BY <1>10, <2>3, <2>5 DEF RestoreFile
<1>11. CASE UndoFile(g)
  <2> DEFINE n(m) == [r EXCEPT !.mixed = @ \/ m]
  <2>0. Files[r.undone] \in Name  BY <1>0, FilesFacts DEF GuardState
  <2>1. \A m \in BOOLEAN : n(m) \in GuardState /\ n(m).undone = r.undone /\ n(m).at = r.at
    BY <1>0 DEF GuardState
  <2>2. \E m \in BOOLEAN :
           \/ guard' = [guard EXCEPT ![g] = AfterRollback(n(m), "error")]
           \/ r.undone # r.at /\ guard' = [guard EXCEPT ![g] = [n(m) EXCEPT !.undone = @ + 1]]
    <3> DEFINE lost == ~ r.kept[Files[r.undone]] /\ ~ Missing(Files[r.undone]) /\ (r.undone < r.at \/ r.tried)
               after(m) == IF r.undone = r.at THEN AfterRollback(n(m), "error") ELSE [n(m) EXCEPT !.undone = @ + 1]
    <3>1. \/ guard' = [guard EXCEPT ![g] = after(FALSE)]
          \/ guard' = [guard EXCEPT ![g] = after(r.kept[Files[r.undone]] \/ lost)]
      BY <1>11 DEF UndoFile, r
    <3>2. (r.kept[Files[r.undone]] \/ lost) \in BOOLEAN  BY <1>0, <2>0 DEF GuardState
    <3> HIDE DEF n, lost
    <3> QED BY <3>1, <3>2
  <2> HIDE DEF n
  <2>4. \A m \in BOOLEAN : /\ GuardFine(AfterRollback(n(m), "error"))
                           /\ r.undone # r.at => GuardFine([n(m) EXCEPT !.undone = @ + 1])
    <3> TAKE m \in BOOLEAN
    <3>1. GuardFine(AfterRollback(n(m), "error"))  BY <1>0, <2>1, OutcomeTyped
    <3>2. r.undone # r.at => GuardFine([n(m) EXCEPT !.undone = @ + 1])
      BY <1>0, <2>1 DEF GuardFine, GuardState
    <3> QED BY <3>1, <3>2
  <2>3. guard' \in [Guard -> GuardState] /\ \A h \in Guard : guard'[h].undone <= guard'[h].at
    BY <2>4, <2>2, OneGuard
  <2>5. file' \in [Name -> Stored] /\ aside' \in [Name -> Stored]  BY <1>11, <2>0 DEF UndoFile, r
  <2> QED BY <1>11, <2>3, <2>5 DEF UndoFile
<1>12. CASE RemoveAsides(g)
  <2>2. guard' = [guard EXCEPT ![g] = [r EXCEPT !.pc = "forget"]]  BY <1>12 DEF RemoveAsides, r
  <2>3. guard' \in [Guard -> GuardState] /\ \A h \in Guard : guard'[h].undone <= guard'[h].at
    BY <1>p, <2>2, OneGuard
  <2>5. aside' \in [Name -> Stored]  BY <1>12 DEF RemoveAsides
  <2> QED BY <1>12, <2>3, <2>5 DEF RemoveAsides
<1>13. CASE FinishRollback(g)
  <2>2. guard' = [guard EXCEPT ![g] = AfterRollback(r, "done")]  BY <1>13 DEF FinishRollback, r
  <2>3. guard' \in [Guard -> GuardState] /\ \A h \in Guard : guard'[h].undone <= guard'[h].at
    BY <1>o, <2>2, OneGuard
  <2>4. pending' \in Update /\ faults' \in Nat  BY <1>13, NoUpdateTyped DEF FinishRollback
  <2> QED BY <1>13, <2>3, <2>4 DEF FinishRollback
<1>14. CASE GuardLaunch(g)
  <2>1. GuardFine([r EXCEPT !.pc = "recover", !.safe = FALSE])  BY <1>0 DEF GuardFine, GuardState
  <2>2. guard' = [guard EXCEPT ![g] = [r EXCEPT !.pc = "recover", !.safe = FALSE]]
    BY <1>14 DEF GuardLaunch, GuardStarted, r
  <2>3. guard' \in [Guard -> GuardState] /\ \A h \in Guard : guard'[h].undone <= guard'[h].at
    BY <2>1, <2>2, OneGuard
  <2> QED BY <1>14, <2>3 DEF GuardLaunch
<1>15. CASE GuardRollback(g)
  <2>1. GuardFine([r EXCEPT !.pc = "rollback", !.reason = "operator"])  BY <1>0 DEF GuardFine, GuardState
  <2>2. guard' = [guard EXCEPT ![g] = [r EXCEPT !.pc = "rollback", !.reason = "operator"]]
    BY <1>15 DEF GuardRollback, r
  <2>3. guard' \in [Guard -> GuardState] /\ \A h \in Guard : guard'[h].undone <= guard'[h].at
    BY <2>1, <2>2, OneGuard
  <2> QED BY <1>15, <2>3 DEF GuardRollback
<1>16. CASE CrashGuard(g)
  <2>3. guard' \in [Guard -> GuardState] /\ \A h \in Guard : guard'[h].undone <= guard'[h].at
    BY <1>16, <1>g, OneGuard DEF CrashGuard
  <2> QED BY <1>16, <2>3 DEF CrashGuard
<1> QED BY <1>1, <1>2, <1>3, <1>4, <1>5, <1>6, <1>7, <1>8, <1>9, <1>10, <1>11, <1>12, <1>13, <1>14,
           <1>15, <1>16 DEF GuardStep

LEMMA TypeStep == TypeOK /\ [Next]_vars => TypeOK'
<1> SUFFICES ASSUME TypeOK, [Next]_vars PROVE TypeOK'  OBVIOUS
<1> USE ReleaseFacts DEF TypeOK, disk, history, Fault
<1>1. CASE \E to \in Version : Prepare(to)
  <2> PICK to \in Version : Prepare(to)  BY <1>1
  <2>1. backup' \in [Name -> Stored]  BY DEF Prepare
  <2>2. pending' \in Update  BY DEF Prepare, Update
  <2>3. desktop' \in DesktopState  BY DEF Prepare, DesktopState
  <2> QED BY <2>1, <2>2, <2>3 DEF Prepare
<1>2. CASE \E f \in Name : DamageBackup(f)
  <2>1. backup' \in [Name -> Stored]  BY <1>2 DEF DamageBackup
  <2> QED BY <1>2, <2>1 DEF DamageBackup
<1>3. CASE WindowPasses
  <2>1. ledger' \in LedgerState  BY <1>3 DEF WindowPasses, LedgerState
  <2> QED BY <1>3, <2>1 DEF WindowPasses
<1>4. CASE UNCHANGED vars  BY <1>4 DEF vars
<1> QED BY <1>1, <1>2, <1>3, <1>4, DesktopTypes, GuardTypes DEF Next

-----------------------------------------------------------------------------
(* Causes.                                                                 *)
Caused(r) == Real(r.failure) /\ (r.reason = "installer" => r.tx \in failed)

LEMMA NothingCaused ==
  ASSUME TypeOK
  PROVE  Caused(GuardOff) /\ Caused(Cautious) /\ \A r, p : Caused(Going(r, p))
BY DEF TypeOK, Caused, Real, GuardOff, Cautious, Going, NoMarker

LEMMA OutcomeCaused ==
  ASSUME TypeOK, NEW r \in GuardState, Caused(r), NEW o
  PROVE  Caused(AfterRollback(r, o))
<1>1. Caused([r EXCEPT !.pc = "clear"]) /\ Caused([r EXCEPT !.pc = "drop"])
  BY DEF Caused, GuardState
<1> QED BY <1>1, NothingCaused DEF AfterRollback

(* What a Guard is after a step of its own.                                *)
LEMMA GuardCaused ==
  ASSUME TypeOK, Latest, Causes, NEW g \in Guard,
         GuardStep(g) \/ GuardLaunch(g) \/ GuardRollback(g) \/ CrashGuard(g)
  PROVE  Caused(guard'[g]) /\ \A h \in Guard \ {g} : guard'[h] = guard[h]
<1> DEFINE r == guard[g]
<1>0. r \in GuardState /\ Caused(r) /\ Real(marker)  BY DEF TypeOK, Causes, Caused
<1>d. guard \in [Guard -> GuardState]  BY DEF TypeOK
<1>g. Caused(GuardOff) /\ Caused(Cautious) /\ \A p : Caused(Going(r, p))  BY NothingCaused
<1>o. \A o : Caused(AfterRollback(r, o))  BY <1>0, OutcomeCaused
<1>p. \A p : Caused([r EXCEPT !.pc = p])  BY <1>0 DEF Caused, GuardState
<1> HIDE DEF r
<1>1. CASE ReadFailure(g)
  <2>1. \A p : Caused([r EXCEPT !.pc = p, !.failure = marker])  BY <1>0 DEF Caused, GuardState
  <2> QED BY <1>1, <2>1, <1>d DEF ReadFailure, r
<1>2. CASE MatchFailure(g)
  <2>1. CASE pending # NoUpdate /\ r.failure.to = pending.to /\ r.failure.at >= pending.id
    <3>1. r.failure.at \in Nat /\ pending.id \in Nat /\ updates \in Nat
      BY <1>0 DEF GuardState, Marker, TypeOK, Update
    <3>2. r.failure.at = pending.id /\ pending.id > 0  BY <2>1, <3>1, <1>0 DEF Latest, Caused, Real
    <3>3. pending.id \in failed  BY <3>1, <3>2, <1>0 DEF Caused, Real
    <3>4. Caused([r EXCEPT !.pc = "rollback", !.reason = "installer", !.tx = pending.id])
      BY <3>3, <1>0 DEF Caused, GuardState
    <3> QED BY <1>2, <2>1, <3>4, <1>d DEF MatchFailure, r
  <2>2. CASE ~ (pending # NoUpdate /\ r.failure.to = pending.to /\ r.failure.at >= pending.id)
    BY <1>2, <2>2, <1>p, <1>d DEF MatchFailure, r
  <2> QED BY <2>1, <2>2
<1>3. CASE ClearFailure(g)  BY <1>3, <1>g, <1>d DEF ClearFailure, r
<1>4. CASE CheckStarts(g)  BY <1>4, <1>g, <1>d DEF CheckStarts, r
<1>5. CASE Attribute(g)
  <2>1. Caused([Going(r, "rollback") EXCEPT !.reason = "loop", !.tx = pending.id])
    BY <1>g DEF Caused, Going, GuardOff
  <2> QED BY <1>5, <2>1, <1>g, <1>d DEF Attribute, r
<1>6. CASE MarkRolledBack(g)  BY <1>6, <1>g, <1>d DEF MarkRolledBack, r
<1>7. CASE LaunchDesktop(g)  BY <1>7, <1>g, <1>d DEF LaunchDesktop
<1>8. CASE BeginRollback(g)
  <2>1. Caused([r EXCEPT !.pc = "aside", !.at = 1, !.undone = 1])  BY <1>0 DEF Caused, GuardState
  <2>2. \/ \E o : guard' = [guard EXCEPT ![g] = AfterRollback(r, o)]
        \/ guard' = [guard EXCEPT ![g] = [r EXCEPT !.pc = "aside", !.at = 1, !.undone = 1]]
    BY <1>8 DEF BeginRollback, r
  <2> QED BY <2>1, <2>2, <1>o, <1>d
<1>9. CASE MoveAside(g)
  <2> DEFINE k == file[Files[r.at]] # Absent \/ (~ Missing(Files[r.at]) /\ aside[Files[r.at]] # Absent)
             n == [r EXCEPT !.kept[Files[r.at]] = k]
  <2>1. n.failure = r.failure /\ n.reason = r.reason /\ n.tx = r.tx
        /\ n = [r EXCEPT !.kept = [r.kept EXCEPT ![Files[r.at]] = k]]
    BY <1>0 DEF GuardState
  <2> HIDE DEF k
  <2>2. Caused(n) /\ (\A p : Caused([n EXCEPT !.pc = p])) /\ Caused([n EXCEPT !.pc = "aside", !.at = @ + 1])
    BY <2>1, <1>0 DEF Caused, GuardState
  <2>3. \/ guard' = [guard EXCEPT ![g] = Advanced(n)] \/ guard' = [guard EXCEPT ![g] = [n EXCEPT !.pc = "restore"]]
        \/ guard' = [guard EXCEPT ![g] = [r EXCEPT !.pc = "undo"]]
    BY <1>9 DEF MoveAside, r, k
  <2> HIDE DEF n
  <2>4. Caused(Advanced(n))  BY <2>2 DEF Advanced
  <2> QED BY <2>2, <2>3, <2>4, <1>p, <1>d
<1>10. CASE RestoreFile(g)
  <2>2. Caused([r EXCEPT !.pc = "undo", !.tried = TRUE]) /\ Caused([r EXCEPT !.pc = "aside", !.at = @ + 1])
    BY <1>0 DEF Caused, GuardState
  <2>3. Caused(Advanced(r))  BY <2>2, <1>p DEF Advanced
  <2>4. \/ guard' = [guard EXCEPT ![g] = Advanced(r)]
        \/ guard' = [guard EXCEPT ![g] = [r EXCEPT !.pc = "undo", !.tried = TRUE]]
    BY <1>10 DEF RestoreFile, r
  <2> QED BY <2>2, <2>3, <2>4, <1>d
<1>11. CASE UndoFile(g)
  <2> DEFINE n(m) == [r EXCEPT !.mixed = @ \/ m]
  <2>0. r.undone \in 1 .. 2 /\ Files[r.undone] \in Name  BY <1>0, FilesFacts DEF GuardState
  <2>1. \A m \in BOOLEAN : n(m) \in GuardState /\ Caused(n(m))  BY <1>0 DEF GuardState, Caused
  <2>2. \E m \in BOOLEAN :
           \/ guard' = [guard EXCEPT ![g] = AfterRollback(n(m), "error")]
           \/ guard' = [guard EXCEPT ![g] = [n(m) EXCEPT !.undone = @ + 1]]
    <3> DEFINE lost == ~ r.kept[Files[r.undone]] /\ ~ Missing(Files[r.undone]) /\ (r.undone < r.at \/ r.tried)
               after(m) == IF r.undone = r.at THEN AfterRollback(n(m), "error") ELSE [n(m) EXCEPT !.undone = @ + 1]
    <3>1. \/ guard' = [guard EXCEPT ![g] = after(FALSE)]
          \/ guard' = [guard EXCEPT ![g] = after(r.kept[Files[r.undone]] \/ lost)]
      BY <1>11 DEF UndoFile, r
    <3>2. (r.kept[Files[r.undone]] \/ lost) \in BOOLEAN  BY <1>0, <2>0 DEF GuardState
    <3> HIDE DEF n, lost
    <3> QED BY <3>1, <3>2
  <2> HIDE DEF n
  <2>3. \A m \in BOOLEAN : Caused(AfterRollback(n(m), "error")) /\ Caused([n(m) EXCEPT !.undone = @ + 1])
    BY <2>1, OutcomeCaused DEF Caused, GuardState
  <2> QED BY <2>2, <2>3, <1>d
<1>12. CASE RemoveAsides(g)  BY <1>12, <1>p, <1>d DEF RemoveAsides, r
<1>13. CASE FinishRollback(g)  BY <1>13, <1>o, <1>d DEF FinishRollback, r
<1>14. CASE GuardLaunch(g)
  <2>1. Caused([r EXCEPT !.pc = "recover", !.safe = FALSE])  BY <1>0 DEF Caused, GuardState
  <2> QED BY <1>14, <2>1, <1>d DEF GuardLaunch, GuardStarted, r
<1>15. CASE GuardRollback(g)
  <2>1. Caused([r EXCEPT !.pc = "rollback", !.reason = "operator"])  BY <1>0 DEF Caused, GuardState
  <2> QED BY <1>15, <2>1, <1>d DEF GuardRollback, r
<1>16. CASE CrashGuard(g)  BY <1>16, <1>g, <1>d DEF CrashGuard
<1> QED BY <1>1, <1>2, <1>3, <1>4, <1>5, <1>6, <1>7, <1>8, <1>9, <1>10, <1>11, <1>12, <1>13, <1>14,
           <1>15, <1>16 DEF GuardStep

LEMMA CausesStep == TypeOK /\ TypeOK' /\ Latest /\ Causes /\ [Next]_vars => Causes'
<1> SUFFICES ASSUME TypeOK, TypeOK', Latest, Causes, [Next]_vars PROVE Causes'  OBVIOUS
<1> DEFINE Kept == updates <= updates' /\ failed \subseteq failed'
<1>k. ASSUME Kept, Real(marker)', \A h \in Guard : guard'[h] = guard[h] \/ Caused(guard'[h])
      PROVE  Causes'
  <2>1. ASSUME NEW h \in Guard PROVE (Real(guard[h].failure) /\ (guard[h].reason = "installer" => guard[h].tx \in failed))'
    <3>1. Caused(guard'[h])  BY <1>k DEF Causes, Caused
    <3>2. guard'[h].failure \in Marker  BY DEF TypeOK, GuardState
    <3>3. Real(guard'[h].failure)  BY <3>1 DEF Caused
    <3>4. updates \in Nat /\ updates' \in Nat /\ updates <= updates' /\ failed \subseteq failed'
      BY <1>k DEF TypeOK
    <3>5. Real(guard[h].failure)'  BY <3>2, <3>3, <3>4 DEF Real, Marker
    <3> QED BY <3>1, <3>4, <3>5 DEF Caused
  <2> QED BY <1>k, <2>1 DEF Causes
<1>m. ASSUME Kept, marker' = marker PROVE Real(marker)'
  BY <1>m DEF Causes, Real, TypeOK, Marker
<1>u. updates \in Nat  BY DEF TypeOK
<1>1. CASE \E g \in Guard : GuardStep(g) \/ GuardLaunch(g) \/ GuardRollback(g) \/ CrashGuard(g)
  <2> PICK g \in Guard : GuardStep(g) \/ GuardLaunch(g) \/ GuardRollback(g) \/ CrashGuard(g)  BY <1>1
  <2>1. updates' = updates /\ failed' = failed /\ (marker' = marker \/ marker' = NoMarker)
    BY DEF GuardStep, GuardLaunch, GuardRollback, CrashGuard, ReadFailure, MatchFailure, ClearFailure,
       CheckStarts, Attribute, MarkRolledBack, LaunchDesktop, BeginRollback, MoveAside, RestoreFile,
       UndoFile, RemoveAsides, FinishRollback, history
  <2>2. Real(marker)'  BY <2>1, <1>m, <1>u DEF Real, NoMarker
  <2> QED BY <2>1, <2>2, <1>k, <1>u, GuardCaused
<1>2. CASE Exit
  <2>1. updates' = updates /\ failed' = failed /\ marker' = marker  BY <1>2 DEF Exit, history
  <2>2. \A h \in Guard : guard'[h] = guard[h] \/ Caused(guard'[h])
    <3>1. CASE UNCHANGED guard  BY <3>1
    <3>2. CASE \E g \in Guard : GuardStarted(g, desktop.safe)
      <4> PICK g \in Guard : GuardStarted(g, desktop.safe)  BY <3>2
      <4>1. guard \in [Guard -> GuardState]  BY DEF TypeOK
      <4>2. Caused(guard[g])  BY DEF Causes, Caused
      <4>3. Caused(guard'[g]) /\ \A h \in Guard \ {g} : guard'[h] = guard[h]
        BY <4>1, <4>2 DEF GuardStarted, Caused, GuardState
      <4> QED BY <4>3
    <3> QED BY <1>2, <3>1, <3>2 DEF Exit
  <2> QED BY <2>1, <2>2, <1>k, <1>m, <1>u
<1>3. CASE RecordFailure
  <2>1. updates' = updates /\ failed' = failed \cup {updates} /\ guard' = guard  BY <1>3 DEF RecordFailure
  <2>2. Real(marker)'  BY <1>3, <2>1, <1>m, <1>u DEF RecordFailure, Real
  <2> QED BY <2>1, <2>2, <1>k, <1>u
<1>4. CASE \E to \in Version : Prepare(to)
  <2>1. updates' = updates + 1 /\ UNCHANGED <<marker, guard, failed>>  BY <1>4 DEF Prepare, history
  <2> QED BY <2>1, <1>k, <1>m, <1>u
<1>5. CASE \/ BeginStart \/ DomReady \/ FailStart \/ HealthTimer \/ ConfirmHealthy \/ Shutdown
           \/ ConfirmClosing \/ ReplaceGuard \/ MoveDesktopAway \/ MoveDesktopIn \/ UserLaunch
           \/ Quit \/ CrashDesktop \/ WindowPasses \/ (\E f \in Name : DamageBackup(f)) \/ UNCHANGED vars
  <2>1. UNCHANGED <<marker, guard, updates, failed>>
    BY <1>5 DEF BeginStart, DomReady, FailStart, HealthTimer, ConfirmHealthy, Shutdown,
       ConfirmClosing, ReplaceGuard, MoveDesktopAway, MoveDesktopIn, UserLaunch, Quit, CrashDesktop,
       WindowPasses, DamageBackup, history, vars
  <2> QED BY <2>1, <1>k, <1>m, <1>u
<1> QED BY <1>1, <1>2, <1>3, <1>4, <1>5 DEF Next, DesktopStep

-----------------------------------------------------------------------------
(* Safety.                                                                 *)

(* Steps that touch neither the files nor the record of the update.        *)
GuardRests(g) ==
    Swapping(g)' =>
        /\ Swapping(g)
        /\ \/ guard'[g].pc = guard[g].pc /\ guard'[g].at = guard[g].at
           \/ guard'[g].pc = "undo"
           \/ guard[g].pc = "clean" /\ guard'[g].pc = "forget"
DesktopRests ==
    /\ Installing' => /\ Installing /\ desktop'.to = desktop.to /\ desktop'.version = desktop.version
                      /\ desktop'.pc = desktop.pc \/ desktop'.pc = "failed"
    /\ desktop'.version \in {desktop.version, Absent, file["desktop"]}
    /\ desktop'.pc # "off" => \/ desktop.pc # "off" /\ desktop'.version = desktop.version
                              \/ desktop'.version \in Version

LEMMA QuietStep ==
  ASSUME TypeOK, TypeOK', Safe, UNCHANGED <<file, backup, pending, updates, begun, collided>>,
         \A g \in Guard : GuardRests(g), DesktopRests
  PROVE  Safe'
<1> USE DEF Safe
<1>1. Alone'  BY DEF Alone, GuardRests
<1>2. Locked' => Locked  BY DEF Locked, GuardRests
<1>3. Held'  BY <1>2 DEF Held
<1>4. Apart'  BY <1>2 DEF Apart, DesktopRests
<1>5. Latest' /\ Backed' /\ WholeBefore'  BY DEF Latest, Backed, WholeBefore, Missing
<1>6. Ours' /\ Runs'  BY DEF Ours, Runs, DesktopRests, Version
<1>7. GuardFirst'
  <2>1. desktop'.pc \in {"desktopAway", "desktopIn"} => desktop.pc = desktop'.pc /\ desktop'.to = desktop.to
    BY DEF DesktopRests, Installing
  <2>2. ASSUME ~ collided, pending # NoUpdate, begun # pending.id, desktop'.version = pending.to
        PROVE  \A f \in Name : file[f] = pending.to
    <3>1. pending.to # Absent  BY <2>2 DEF Latest, Absent, TypeOK, Update, Release
    <3>2. CASE desktop'.version = desktop.version  BY <2>2, <3>2 DEF GuardFirst
    <3>3. CASE desktop'.version = file["desktop"]  BY <2>2, <3>3 DEF GuardFirst, Name
    <3> QED BY <2>2, <3>1, <3>2, <3>3 DEF DesktopRests
  <2> QED BY <2>1, <2>2 DEF GuardFirst
<1>8. Restoring'
  <2> SUFFICES ASSUME NEW g \in Guard, Swapping(g)'
               PROVE  /\ BackupsMatch'
                      /\ ~ collided => /\ guard'[g].pc \in {"aside", "restore"} => Passed(guard[g])'
                                       /\ guard'[g].pc \in {"clean", "forget"} => file' = pending'.old
                      /\ guard'[g].pc = "restore" => ~ Missing(Files[guard[g].at])'
    BY DEF Restoring
  <2>1. Swapping(g) /\ BackupsMatch'  BY DEF GuardRests, Restoring, BackupsMatch
  <2>2. GuardRests(g)  OBVIOUS
  <2>3. CASE guard'[g].pc = guard[g].pc /\ guard'[g].at = guard[g].at
    BY <2>1, <2>3 DEF Restoring, Passed, Missing
  <2>4. CASE guard'[g].pc = "undo"  BY <2>1, <2>4
  <2>5. CASE guard[g].pc = "clean" /\ guard'[g].pc = "forget"  BY <2>1, <2>5 DEF Restoring
  <2> QED BY <2>2, <2>3, <2>4, <2>5 DEF GuardRests
<1> QED BY <1>1, <1>3, <1>4, <1>5, <1>6, <1>7, <1>8

(* Steps of the installation.                                              *)
LEMMA InstallStep ==
  ASSUME TypeOK, TypeOK', Safe, ReplaceGuard \/ MoveDesktopAway \/ MoveDesktopIn
  PROVE  Safe'
<1> USE DEF Safe
<1>0. UNCHANGED <<backup, pending, guard, updates, begun, collided>>
  BY DEF ReplaceGuard, MoveDesktopAway, MoveDesktopIn, history
<1>1. Installing /\ desktop'.to = desktop.to /\ desktop'.version = desktop.version
  BY DEF ReplaceGuard, MoveDesktopAway, MoveDesktopIn, Installing, TypeOK, DesktopState
<1>2. Locked' = Locked /\ (Locked => collided)  BY <1>0, <1>1 DEF Locked, Swapping, Apart
<1>3. Alone' /\ Held' /\ Latest' /\ Backed'
  BY <1>0, <1>2 DEF Alone, Swapping, Held, Latest, Backed, Missing
<1>4. Apart'  BY <1>0, <1>2 DEF Apart
<1>5. Ours' /\ Runs'  BY <1>0, <1>1 DEF Ours, Runs, Installing
<1>6. WholeBefore'  BY <1>0, <1>1 DEF WholeBefore, Ours
<1>7. GuardFirst'
  <2> SUFFICES ASSUME ~ collided PROVE GuardFirst'  BY <1>0 DEF GuardFirst
  <2>1. pending # NoUpdate /\ desktop.to = pending.to /\ desktop.version < pending.to
    BY <1>1 DEF Ours
  <2>2. desktop'.version # pending.to /\ pending.to # Absent
    BY <2>1, <1>1 DEF Latest, Absent, TypeOK, DesktopState, Release, Update
  <2>3. CASE ReplaceGuard
    <3>1. desktop'.pc \in {"desktopAway", "desktopIn"} => file'["guard"] = desktop'.to
      BY <2>3, <1>1 DEF ReplaceGuard, TypeOK, DesktopState, Name
    <3>2. file' = file \/ file'["guard"] = pending.to
      BY <2>1, <2>3 DEF ReplaceGuard, TypeOK, Name
    <3> QED BY <2>2, <3>1, <3>2, <1>0 DEF GuardFirst
  <2>4. CASE MoveDesktopAway
    <3>1. desktop.pc = "desktopAway" /\ file["guard"] = desktop.to  BY <2>4 DEF GuardFirst, MoveDesktopAway
    <3>2. file'["guard"] = desktop.to  BY <2>4, <3>1 DEF MoveDesktopAway, TypeOK, Name
    <3> QED BY <2>1, <2>2, <3>2, <1>0, <1>1 DEF GuardFirst
  <2>5. CASE MoveDesktopIn
    <3>1. desktop.pc = "desktopIn" /\ file["guard"] = desktop.to  BY <2>5 DEF GuardFirst, MoveDesktopIn
    <3>2. file'["guard"] = desktop.to  BY <2>5, <3>1 DEF MoveDesktopIn, TypeOK, Name
    <3> QED BY <2>1, <2>2, <3>2, <1>0, <1>1 DEF GuardFirst
  <2> QED BY <2>3, <2>4, <2>5
<1>8. Restoring'  BY <1>0, <1>2 DEF Restoring, Swapping, BackupsMatch, Missing, Locked
<1> QED BY <1>3, <1>4, <1>5, <1>6, <1>7, <1>8

(* Steps of a rollback that holds the lock.                                *)
LEMMA SwapStep ==
  ASSUME TypeOK, TypeOK', Safe, NEW g \in Guard, Swapping(g),
         UNCHANGED <<backup, pending, updates, begun, collided, desktop>>,
         \A h \in Guard \ {g} : guard'[h] = guard[h],
         Swapping(g)' =>
            /\ ~ collided => /\ guard'[g].pc \in {"aside", "restore"} => Passed(guard[g])'
                             /\ guard'[g].pc \in {"clean", "forget"} => file' = pending'.old
            /\ guard'[g].pc = "restore" => ~ Missing(Files[guard[g].at])'
  PROVE  Safe'
<1> USE DEF Safe
<1>0. \A h \in Guard : Swapping(h)' => h = g  BY DEF Alone, Swapping
<1>1. Locked /\ (Locked' => Locked)  BY DEF Locked
<1>2. Alone' /\ Held' /\ Apart'  BY <1>0, <1>1 DEF Alone, Held, Apart, Installing
<1>3. Latest' /\ Ours' /\ Backed' /\ Runs'  BY DEF Latest, Ours, Runs, Installing, Backed, Missing
<1>4. WholeBefore' /\ GuardFirst'
  BY <1>1 DEF WholeBefore, GuardFirst, Held, Apart, Installing
<1>5. Restoring'  BY <1>0 DEF Restoring, BackupsMatch
<1> QED BY <1>2, <1>3, <1>4, <1>5

LEMMA ConfirmStep ==
  ASSUME TypeOK, TypeOK', Safe, ConfirmHealthy \/ ConfirmClosing
  PROVE  Safe'
<1> USE DEF Safe
<1>0. /\ UNCHANGED <<guard, updates, begun, file>> /\ MarkUpdateHealthy(desktop.version)
      /\ desktop'.to = desktop.to /\ desktop'.version = desktop.version
      /\ desktop'.pc = desktop.pc \/ (desktop.pc = "confirm" /\ desktop'.pc = "exit")
  BY DEF ConfirmHealthy, ConfirmClosing, TypeOK, DesktopState, MarkUpdateHealthy, disk
<1>1. ~ Locked /\ ~ Locked'  BY <1>0 DEF MarkUpdateHealthy, Locked, Swapping
<1>2. CASE UNCHANGED <<disk, collided>>
  <2>1. DesktopRests /\ \A g \in Guard : GuardRests(g)
    BY <1>0, <1>1 DEF DesktopRests, Installing, GuardRests, Locked, TypeOK, DesktopState
  <2> QED BY <1>0, <1>2, <2>1, QuietStep DEF disk
<1>3. CASE /\ pending # NoUpdate /\ pending.to = desktop.version /\ pending' = NoUpdate
           /\ collided' = (collided \/ begun = pending.id)
  <2>1. Alone' /\ Held' /\ Apart' /\ Restoring'  BY <1>1 DEF Alone, Held, Apart, Restoring, Locked
  <2>2. Latest' /\ Backed' /\ Runs'  BY <1>0, <1>3 DEF Latest, Backed, Runs
  <2>3. ~ collided' => ~ collided /\ begun # pending.id  BY <1>3
  <2>4. Installing' => Installing /\ desktop'.pc = desktop.pc  BY <1>0 DEF Installing
  <2>5. Ours' /\ (Installing' => collided)
    <3>1. desktop.version = pending.to /\ desktop.version \in Nat  BY <1>3 DEF TypeOK, DesktopState, Release
    <3>2. Installing => collided  BY <3>1 DEF Ours
    <3> QED BY <1>0, <1>3, <2>4, <3>2 DEF Ours
  <2>6. WholeBefore'
    <3> SUFFICES ASSUME ~ collided' PROVE Whole(file)'  BY <1>3 DEF WholeBefore
    <3>1. \A f \in Name : file[f] = pending.to  BY <1>3, <2>3 DEF GuardFirst
    <3>2. file = [f \in Name |-> pending.to]  BY <3>1 DEF TypeOK
    <3>3. pending.to \in Version
      BY <1>3 DEF Latest, TypeOK, Update, Release, Version
    <3> QED BY <1>0, <3>2, <3>3 DEF Whole
  <2>7. GuardFirst'  BY <1>3, <2>3, <2>4, <2>5 DEF GuardFirst, Installing
  <2> QED BY <2>1, <2>2, <2>5, <2>6, <2>7
<1> QED BY <1>0, <1>2, <1>3 DEF MarkUpdateHealthy, disk

LEMMA PrepareStep ==
  ASSUME TypeOK, TypeOK', Safe, NEW to \in Version, Prepare(to)
  PROVE  Safe'
<1> USE DEF Safe
<1>0. /\ ~ Locked /\ pending = NoUpdate /\ UNCHANGED <<guard, begun, file, collided>>
      /\ updates' = updates + 1 /\ pending' = [id |-> updates', to |-> to, old |-> file]
      /\ desktop.version < to /\ to \in Nat /\ desktop.version \in Nat /\ updates \in Nat
      /\ desktop' = [desktop EXCEPT !.pc = "guardFile", !.to = to]
  BY DEF Prepare, history, Version, TypeOK, DesktopState, Release
<1>1. ~ Locked'  BY <1>0 DEF Locked, Swapping
<1>2. to > 1 /\ Runs'
  BY <1>0 DEF Prepare, Runs, TypeOK, DesktopState
<1>3. /\ pending' # NoUpdate /\ pending'.id = updates + 1 /\ pending'.to = to /\ pending'.old = file
      /\ desktop'.to = to /\ desktop'.version = desktop.version /\ desktop'.pc = "guardFile"
  BY <1>0 DEF NoUpdate, TypeOK, DesktopState
<1>4. Alone' /\ Held' /\ Apart' /\ Restoring'  BY <1>1 DEF Alone, Held, Apart, Restoring, Locked
<1>5. Latest'  BY <1>0, <1>2, <1>3 DEF Latest, TypeOK
<1>6. Ours'  BY <1>0, <1>3 DEF Ours
<1>7. Backed'
  <2>1. backup' = [f \in Name |-> IF file[f] = Absent THEN backup[f] ELSE file[f]]  BY DEF Prepare
  <2> QED BY <2>1, <1>3 DEF Backed, Missing
<1>8. WholeBefore'  BY <1>0, <1>3 DEF WholeBefore
<1>9. GuardFirst'
  <2> SUFFICES ASSUME ~ collided PROVE GuardFirst'  BY <1>0 DEF GuardFirst
  <2>1. Whole(file)  BY <1>0 DEF WholeBefore
  <2>2. file["desktop"] = to => file["guard"] = to
    BY <2>1, <1>2 DEF Whole, Unguarded, Name
  <2> QED BY <1>0, <1>3, <2>2 DEF GuardFirst
<1> QED BY <1>2, <1>4, <1>5, <1>6, <1>7, <1>8, <1>9

LEMMA BeginStep ==
  ASSUME TypeOK, TypeOK', Safe, NEW g \in Guard, guard[g].pc = "rollback", ~ Locked,
         pending # NoUpdate, BackupsMatch, guard' = [guard EXCEPT ![g].pc = "aside", ![g].at = 1, ![g].undone = 1],
         collided' = (collided \/ Installing), begun' = pending.id,
         UNCHANGED <<disk, updates, desktop>>
  PROVE  Safe'
<1> USE DEF Safe
<1>0. guard'[g].at = 1 /\ guard'[g].pc = "aside" /\ \A h \in Guard \ {g} : guard'[h] = guard[h]
  BY DEF TypeOK, GuardState
<1>1. \A h \in Guard : Swapping(h)' => h = g  BY <1>0 DEF Locked, Swapping
<1>2. Alone' /\ Held'  BY <1>1 DEF Alone, Held, disk
<1>3. Apart'  BY DEF Apart, Installing
<1>4. Latest' /\ Ours' /\ Runs' /\ Backed'
  BY DEF Latest, Ours, Runs, Installing, Backed, disk, Missing, TypeOK, Update
<1>5. WholeBefore' /\ GuardFirst'  BY DEF WholeBefore, GuardFirst, disk
<1>6. Restoring'
  <2>1. Passed(guard[g])'  BY <1>0 DEF Passed
  <2> QED BY <1>0, <1>1, <2>1 DEF Restoring, BackupsMatch, disk
<1> QED BY <1>2, <1>3, <1>4, <1>5, <1>6

LEMMA FinishStep ==
  ASSUME TypeOK, TypeOK', Safe, NEW g \in Guard, guard[g].pc = "forget", FinishRollback(g)
  PROVE  Safe'
<1> USE DEF Safe
<1>0. /\ UNCHANGED <<file, backup, updates, begun, collided, desktop>>
      /\ \A h \in Guard \ {g} : guard'[h] = guard[h]
      /\ guard'[g] = AfterRollback(guard[g], "done")
      /\ pending' = pending \/ pending' = NoUpdate
  BY DEF FinishRollback, history, TypeOK
<1>1. ~ Swapping(g)'  BY <1>0 DEF AfterRollback, Swapping, GuardOff, Going, TypeOK, GuardState
<1>2. Swapping(g)  BY DEF Swapping
<1>3. CASE pending' = pending
  <2> QED BY <1>0, <1>1, <1>2, <1>3, SwapStep
<1>4. CASE pending' = NoUpdate
  <2>1. ~ Locked'  BY <1>0, <1>1, <1>2 DEF Locked, Alone, Swapping
  <2>2. Alone' /\ Held' /\ Apart' /\ Restoring'  BY <2>1 DEF Alone, Held, Apart, Restoring, Locked
  <2>3. Latest' /\ Backed'  BY <1>0, <1>4 DEF Latest, Backed
  <2>4. Locked /\ pending # NoUpdate /\ (~ collided => ~ Installing /\ file = pending.old /\ Whole(file))
    BY <1>2 DEF Locked, Held, Apart, Restoring, WholeBefore
  <2>5. Ours' /\ Runs' /\ WholeBefore' /\ GuardFirst'
    BY <1>0, <1>4, <2>4 DEF Ours, Runs, WholeBefore, GuardFirst, Installing
  <2> QED BY <2>2, <2>3, <2>5
<1> QED BY <1>0, <1>3, <1>4

LEMMA MoveAsideStep ==
  ASSUME TypeOK, TypeOK', Safe, NEW g \in Guard, MoveAside(g)
  PROVE  Safe'
<1> USE DEF Safe
<1> DEFINE r == guard[g]
           f == Files[r.at]
           k == file[f] # Absent \/ (~ Missing(f) /\ aside[f] # Absent)
           n == [r EXCEPT !.kept[f] = k]
<1>0. /\ r \in GuardState /\ r.at \in 1 .. 2 /\ f \in Name /\ r.pc = "aside" /\ Swapping(g)
      /\ (f = "desktop" <=> r.at = 1) /\ (f = "guard" <=> r.at = 2)
  BY FilesFacts DEF TypeOK, GuardState, MoveAside, Swapping, Files
<1>1. /\ UNCHANGED <<backup, pending, updates, begun, collided, desktop>>
      /\ \A h \in Guard \ {g} : guard'[h] = guard[h]
  BY DEF MoveAside, history, TypeOK
<1>2. ~ collided => Passed(r)  BY <1>0 DEF Restoring
<1>3. CASE guard'[g].pc = "undo"
  <2> QED BY <1>0, <1>1, <1>3, SwapStep
<1>4. CASE file' = [file EXCEPT ![f] = Absent] /\ guard'[g] = (IF Missing(f) THEN Advanced(n) ELSE [n EXCEPT !.pc = "restore"])
  <2>1. n.at = r.at /\ n.pc = r.pc /\ n = [r EXCEPT !.kept = [r.kept EXCEPT ![f] = k]]
    BY <1>0 DEF GuardState
  <2>2. n \in GuardState
    <3>1. [r.kept EXCEPT ![f] = k] \in [Name -> BOOLEAN]  BY <1>0 DEF GuardState
    <3> HIDE DEF k, n
    <3> QED BY <1>0, <2>1, <3>1 DEF GuardState
  <2> HIDE DEF k
  <2> HIDE DEF n
  <2>3. CASE ~ Missing(f)
    <3>1. guard'[g].pc = "restore" /\ guard'[g].at = r.at  BY <1>0, <1>4, <2>1, <2>2, <2>3 DEF GuardState
    <3>2. ~ collided => Passed(guard[g])'
      BY <1>0, <1>1, <1>2, <1>4, <3>1, FilesFacts DEF Passed, TypeOK
    <3>3. ~ Missing(Files[guard[g].at])'  BY <1>1, <2>3, <3>1 DEF Missing
    <3> QED BY <1>0, <1>1, <3>1, <3>2, <3>3, SwapStep
  <2>4. CASE Missing(f)
    <3>0. file'[f] = pending.old[f] /\ \A x \in Name \ {f} : file'[x] = file[x]
      BY <1>0, <1>4, <2>4 DEF Missing, TypeOK
    <3>1. CASE r.at = 1
      <4>1. guard'[g].pc = "aside" /\ guard'[g].at = 2
        BY <1>4, <2>1, <2>2, <2>4, <3>1, FilesFacts DEF Advanced, GuardState
      <4>2. Passed(guard[g])'  BY <1>0, <1>1, <3>0, <3>1, <4>1, FilesFacts DEF Passed
      <4> QED BY <1>0, <1>1, <4>1, <4>2, SwapStep
    <3>2. CASE r.at = 2
      <4>1. guard'[g].pc = "clean"
        BY <1>4, <2>1, <2>2, <2>4, <3>2, FilesFacts DEF Advanced, GuardState
      <4>2. ~ collided => file["desktop"] = pending.old["desktop"]
        BY <1>2, <3>2, FilesFacts DEF Passed
      <4>3. ~ collided => file' = pending'.old
        BY <1>0, <1>1, <3>0, <3>2, <4>2 DEF TypeOK, Update, Name
      <4> QED BY <1>0, <1>1, <4>1, <4>3, SwapStep
    <3> QED BY <1>0, <3>1, <3>2
  <2> QED BY <2>3, <2>4
<1>5. \/ file' = [file EXCEPT ![f] = Absent] /\ guard'[g] = (IF Missing(f) THEN Advanced(n) ELSE [n EXCEPT !.pc = "restore"])
      \/ guard'[g].pc = "undo"
  BY <1>0 DEF MoveAside, TypeOK, GuardState
<1> QED BY <1>3, <1>4, <1>5

LEMMA RestoreStep ==
  ASSUME TypeOK, TypeOK', Safe, NEW g \in Guard, RestoreFile(g)
  PROVE  Safe'
<1> USE DEF Safe
<1> DEFINE r == guard[g]
           f == Files[r.at]
<1>0. /\ r \in GuardState /\ r.at \in 1 .. 2 /\ f \in Name /\ r.pc = "restore" /\ Swapping(g)
      /\ (f = "desktop" <=> r.at = 1) /\ (f = "guard" <=> r.at = 2)
  BY FilesFacts DEF TypeOK, GuardState, RestoreFile, Swapping, Files
<1>1. /\ UNCHANGED <<backup, pending, updates, begun, collided, desktop>>
      /\ \A h \in Guard \ {g} : guard'[h] = guard[h]
  BY DEF RestoreFile, history, TypeOK
<1>2. (~ collided => Passed(r)) /\ BackupsMatch /\ ~ Missing(f)  BY <1>0 DEF Restoring
<1>3. CASE guard'[g].pc = "undo"
  <2> QED BY <1>0, <1>1, <1>3, SwapStep
<1>4. CASE file' = [file EXCEPT ![f] = backup[f]] /\ guard'[g] = Advanced(r)
  <2>0. file'[f] = pending.old[f] /\ \A x \in Name \ {f} : file'[x] = file[x]
    BY <1>0, <1>2, <1>4 DEF Missing, BackupsMatch, TypeOK
  <2>1. CASE r.at = 1
    <3>1. guard'[g].pc = "aside" /\ guard'[g].at = 2
      BY <1>0, <1>4, <2>1, FilesFacts DEF Advanced, GuardState
    <3>2. Passed(guard[g])'  BY <1>0, <1>1, <2>0, <2>1, <3>1, FilesFacts DEF Passed
    <3> QED BY <1>0, <1>1, <3>1, <3>2, SwapStep
  <2>2. CASE r.at = 2
    <3>1. guard'[g].pc = "clean"  BY <1>0, <1>4, <2>2, FilesFacts DEF Advanced, GuardState
    <3>2. ~ collided => file["desktop"] = pending.old["desktop"]
      BY <1>2, <2>2, FilesFacts DEF Passed
    <3>3. ~ collided => file' = pending'.old
      BY <1>0, <1>1, <2>0, <2>2, <3>2 DEF TypeOK, Update, Name
    <3> QED BY <1>0, <1>1, <3>1, <3>3, SwapStep
  <2> QED BY <1>0, <2>1, <2>2
<1>5. \/ file' = [file EXCEPT ![f] = backup[f]] /\ guard'[g] = Advanced(r)
      \/ guard'[g].pc = "undo"
  BY <1>0 DEF RestoreFile, TypeOK, GuardState
<1> QED BY <1>3, <1>4, <1>5

LEMMA UndoStep ==
  ASSUME TypeOK, TypeOK', Safe, NEW g \in Guard, UndoFile(g)
  PROVE  Safe'
<1> DEFINE r == guard[g]
           n(m) == [r EXCEPT !.mixed = @ \/ m]
           after(m) == IF r.undone = r.at THEN AfterRollback(n(m), "error") ELSE [n(m) EXCEPT !.undone = @ + 1]
<1>0. r \in GuardState /\ r.pc = "undo" /\ Swapping(g)  BY DEF TypeOK, UndoFile, Swapping
<1>1. /\ UNCHANGED <<backup, pending, updates, begun, collided, desktop>>
      /\ \A h \in Guard \ {g} : guard'[h] = guard[h]
  BY DEF UndoFile, history, TypeOK
<1>2. \A m : n(m).pc = "undo"  BY <1>0 DEF GuardState
<1>3. \A m : after(m).pc \in {"off", "drop", "clear", "mark", "launch", "undo"}
  <2> TAKE m
  <2>1. [n(m) EXCEPT !.undone = @ + 1].pc = "undo"  BY <1>0 DEF GuardState
  <2>2. AfterRollback(n(m), "error").pc \in {"off", "drop", "clear", "mark", "launch"}
    BY DEF AfterRollback, GuardOff, Cautious, Going
  <2> QED BY <2>1, <2>2
<1> HIDE DEF n
<1>4. \E m : guard'[g] = after(m)  BY DEF UndoFile, TypeOK, n
<1>5. guard'[g].pc \in {"off", "drop", "clear", "mark", "launch", "undo"}  BY <1>3, <1>4
<1> QED BY <1>0, <1>1, <1>5, SwapStep

(* Steps of a Guard that holds no lock, and takes none.                    *)
LEMMA GuardQuiet ==
  ASSUME TypeOK, TypeOK', Safe, NEW g \in Guard,
         \/ ReadFailure(g) \/ MatchFailure(g) \/ ClearFailure(g) \/ CheckStarts(g) \/ Attribute(g)
         \/ MarkRolledBack(g) \/ GuardLaunch(g) \/ GuardRollback(g) \/ CrashGuard(g) \/ RemoveAsides(g)
         \/ LaunchDesktop(g)
  PROVE  Safe'
<1>0. UNCHANGED <<file, backup, pending, updates, begun, collided>>
  BY DEF ReadFailure, MatchFailure, ClearFailure, CheckStarts, Attribute, MarkRolledBack, GuardLaunch,
     GuardRollback, CrashGuard, RemoveAsides, LaunchDesktop, disk, history
<1>d. guard \in [Guard -> GuardState]  BY DEF TypeOK
<1>1. \A h \in Guard \ {g} : guard'[h] = guard[h]
  BY <1>d DEF ReadFailure, MatchFailure, ClearFailure, CheckStarts, Attribute, MarkRolledBack, GuardLaunch,
     GuardStarted, GuardRollback, CrashGuard, RemoveAsides, LaunchDesktop
<1>2. \/ guard'[g].pc \in {"off", "recover", "match", "drop", "check", "attribute", "launch", "rollback"}
      \/ guard[g].pc = "clean" /\ guard'[g].pc = "forget"
  <2>1. CASE ReadFailure(g)  BY <1>d, <2>1 DEF ReadFailure, GuardState
  <2>2. CASE MatchFailure(g)  BY <1>d, <2>2 DEF MatchFailure, GuardState
  <2>3. CASE ClearFailure(g)
    <3>1. guard'[g] \in {GuardOff, Going(guard[g], "check")}  BY <1>d, <2>3 DEF ClearFailure
    <3>2. GuardOff.pc = "off" /\ Going(guard[g], "check").pc = "check"  BY DEF GuardOff, Going
    <3> QED BY <3>1, <3>2
  <2>4. CASE CheckStarts(g)  BY <1>d, <2>4 DEF CheckStarts, GuardOff, Going, GuardState
  <2>5. CASE Attribute(g)  BY <1>d, <2>5 DEF Attribute, Going, Cautious, GuardOff, GuardState
  <2>6. CASE MarkRolledBack(g)  BY <1>d, <2>6 DEF MarkRolledBack, Going, GuardOff, GuardState
  <2>7. CASE GuardLaunch(g)  BY <1>d, <2>7 DEF GuardLaunch, GuardStarted, GuardState
  <2>8. CASE GuardRollback(g)  BY <1>d, <2>8 DEF GuardRollback, GuardState
  <2>9. CASE CrashGuard(g)  BY <1>d, <2>9 DEF CrashGuard, GuardOff, GuardState
  <2>10. CASE RemoveAsides(g)  BY <1>d, <2>10 DEF RemoveAsides, GuardState
  <2>11. CASE LaunchDesktop(g)  BY <1>d, <2>11 DEF LaunchDesktop, GuardOff, GuardState
  <2> QED BY <2>1, <2>2, <2>3, <2>4, <2>5, <2>6, <2>7, <2>8, <2>9, <2>10, <2>11
<1>3. \A h \in Guard : GuardRests(h)  BY <1>1, <1>2 DEF GuardRests, Swapping
<1>4. DesktopRests
  <2>1. CASE LaunchDesktop(g)
    BY <2>1 DEF LaunchDesktop, Started, HandsOver, DesktopRests, Installing, TypeOK, DesktopState
  <2>2. CASE UNCHANGED desktop
    BY <2>2 DEF DesktopRests, Installing
  <2> QED BY <2>1, <2>2 DEF ReadFailure, MatchFailure, ClearFailure, CheckStarts, Attribute,
          MarkRolledBack, GuardLaunch, GuardRollback, CrashGuard, RemoveAsides, disk, history
<1> QED BY <1>0, <1>3, <1>4, QuietStep

LEMMA BeginRollbackStep ==
  ASSUME TypeOK, TypeOK', Safe, NEW g \in Guard, BeginRollback(g)
  PROVE  Safe'
<1> DEFINE r == guard[g]
<1>0. r \in GuardState /\ r.pc = "rollback" /\ ~ Locked /\ UNCHANGED <<disk, updates, desktop>>
  BY DEF TypeOK, BeginRollback
<1>1. CASE /\ pending # NoUpdate /\ BackupsMatch
           /\ guard' = [guard EXCEPT ![g].pc = "aside", ![g].at = 1, ![g].undone = 1]
           /\ collided' = (collided \/ Installing) /\ begun' = pending.id
  BY <1>0, <1>1, BeginStep
<1>2. CASE (\E o : guard' = [guard EXCEPT ![g] = AfterRollback(r, o)]) /\ UNCHANGED <<begun, collided>>
  <2>1. PICK o : guard' = [guard EXCEPT ![g] = AfterRollback(r, o)]  BY <1>2
  <2>2. ~ Swapping(g)'
    BY <2>1, <1>0 DEF AfterRollback, Swapping, GuardOff, Cautious, Going, TypeOK, GuardState
  <2>3. \A h \in Guard : GuardRests(h)  BY <2>1, <2>2 DEF GuardRests, Swapping, TypeOK
  <2>4. DesktopRests  BY <1>0 DEF DesktopRests, Installing
  <2> QED BY <1>0, <1>2, <2>3, <2>4, QuietStep DEF disk
<1> QED BY <1>1, <1>2 DEF BeginRollback

(* Steps of the desktop that only pass the time.                           *)
LEMMA DesktopQuiet ==
  ASSUME TypeOK, TypeOK', Safe,
         \/ BeginStart \/ DomReady \/ FailStart \/ HealthTimer \/ Shutdown \/ Exit \/ RecordFailure
         \/ UserLaunch \/ Quit \/ CrashDesktop
  PROVE  Safe'
<1>0. UNCHANGED <<file, backup, pending, updates, begun, collided>>
  BY DEF BeginStart, DomReady, FailStart, HealthTimer, Shutdown, Exit, RecordFailure, UserLaunch, Quit,
     CrashDesktop, disk, history
<1>d. desktop \in DesktopState  BY DEF TypeOK
<1>1. DesktopRests
  <2>1. CASE BeginStart
    BY <1>d, <2>1 DEF BeginStart, DesktopRests, Installing, DesktopState
  <2>2. CASE DomReady
    BY <1>d, <2>2 DEF DomReady, DesktopRests, Installing, DesktopState
  <2>3. CASE FailStart
    BY <1>d, <2>3 DEF FailStart, DesktopOff, DesktopRests, Installing, DesktopState
  <2>4. CASE HealthTimer
    BY <1>d, <2>4 DEF HealthTimer, DesktopRests, Installing, DesktopState
  <2>5. CASE Shutdown
    BY <1>d, <2>5 DEF Shutdown, DesktopRests, Installing, DesktopState
  <2>6. CASE Exit
    BY <1>d, <2>6 DEF Exit, DesktopOff, DesktopRests, Installing, DesktopState
  <2>7. CASE RecordFailure
    BY <1>d, <2>7 DEF RecordFailure, DesktopRests, Installing, DesktopState
  <2>8. CASE UserLaunch
    BY <1>d, <2>8 DEF UserLaunch, Started, DesktopRests, Installing, DesktopState
  <2>9. CASE Quit
    BY <1>d, <2>9 DEF Quit, DesktopRests, Installing, DesktopState
  <2>10. CASE CrashDesktop
    BY <1>d, <2>10 DEF CrashDesktop, DesktopOff, DesktopRests, Installing, DesktopState
  <2> QED BY <2>1, <2>2, <2>3, <2>4, <2>5, <2>6, <2>7, <2>8, <2>9, <2>10
<1>2. \A g \in Guard : GuardRests(g)
  <2>1. CASE UNCHANGED guard  BY <2>1 DEF GuardRests, Swapping
  <2>2. CASE Exit /\ \E g \in Guard : GuardStarted(g, desktop.safe)
    BY <2>2 DEF GuardStarted, GuardRests, Swapping, TypeOK, GuardState
  <2> QED BY <2>1, <2>2 DEF BeginStart, DomReady, FailStart, HealthTimer, Shutdown, Exit, RecordFailure,
          UserLaunch, Quit, CrashDesktop
<1> QED BY <1>0, <1>1, <1>2, QuietStep

LEMMA SafeStep == TypeOK /\ TypeOK' /\ Safe /\ [Next]_vars => Safe'
<1> SUFFICES ASSUME TypeOK, TypeOK', Safe, [Next]_vars PROVE Safe'  OBVIOUS
<1>1. CASE DesktopStep \/ UserLaunch \/ Quit \/ CrashDesktop
  BY <1>1, DesktopQuiet, InstallStep, ConfirmStep DEF DesktopStep
<1>2. ASSUME NEW g \in Guard, GuardStep(g) \/ GuardLaunch(g) \/ GuardRollback(g) \/ CrashGuard(g)
      PROVE  Safe'
  <2>1. FinishRollback(g) => guard[g].pc = "forget"  BY DEF FinishRollback
  <2> QED BY <1>2, <2>1, GuardQuiet, BeginRollbackStep, MoveAsideStep, RestoreStep, UndoStep, FinishStep
          DEF GuardStep
<1>3. CASE \E to \in Version : Prepare(to)  BY <1>3, PrepareStep
<1>4. CASE \E f \in Name : DamageBackup(f)
  <2> PICK f \in Name : DamageBackup(f)  BY <1>4
  <2>0. /\ UNCHANGED <<file, pending, desktop, guard, updates, begun, collided>> /\ ~ Locked
        /\ backup' = [backup EXCEPT ![f] = Damaged]
    BY DEF DamageBackup, history
  <2>1. ~ Locked'  BY <2>0 DEF Locked, Swapping
  <2>2. Alone' /\ Held' /\ Apart' /\ Restoring'
    BY <2>1 DEF Alone, Held, Apart, Restoring, Locked
  <2>3. Runs' /\ Latest' /\ Ours' /\ WholeBefore' /\ GuardFirst'
    BY <2>0 DEF Safe, Runs, Latest, Ours, Installing, WholeBefore, GuardFirst
  <2>4. Backed'  BY <2>0 DEF Safe, Backed, Missing, TypeOK
  <2> QED BY <2>2, <2>3, <2>4 DEF Safe
<1>5. CASE WindowPasses \/ UNCHANGED vars
  <2>0. UNCHANGED <<file, backup, pending, updates, begun, collided, desktop, guard>>
    BY <1>5 DEF WindowPasses, vars, disk, history
  <2>1. DesktopRests /\ \A g \in Guard : GuardRests(g)
    BY <2>0 DEF DesktopRests, Installing, GuardRests, Swapping
  <2> QED BY <2>0, <2>1, QuietStep
<1> QED BY <1>1, <1>2, <1>3, <1>4, <1>5 DEF Next

-----------------------------------------------------------------------------
(* The conjunction is an invariant of the self-update.                     *)
THEOREM Invariance == Spec => []IInv
<1>1. IInv /\ [Next]_vars => IInv'  BY TypeStep, SafeStep, CausesStep DEF IInv, Safe
<1> QED BY Init_IInv, <1>1, PTL DEF Spec

(* Every variable holds what the code can write there.                     *)
THEOREM TypeCorrect == Spec => []TypeOK
BY Invariance, PTL DEF IInv

(* An installation of two releases is never left without the record and    *)
(* the backups that undo it, whoever dies where and whatever fails.        *)
THEOREM EvidenceIsKept == Spec => []EvidenceKept
<1>1. IInv => EvidenceKept
  BY DEF IInv, Safe, EvidenceKept, Evidence, Backed, WholeBefore, Missing
<1> QED BY Invariance, <1>1, PTL

(* A rollback that calls itself done has put the whole old release back.   *)
THEOREM RollbacksRestore == Spec => RollbackRestores
<1> DEFINE A == \A g \in Guard : guard[g].pc = "clean" /\ guard'[g].pc = "forget"
                     => file = pending.old \/ collided
<1>1. IInv /\ [Next]_vars => A  BY DEF IInv, Safe, Restoring, Swapping
<1>2. A => [A]_vars  OBVIOUS
<1> QED BY Invariance, <1>1, PTL DEF Spec, RollbackRestores

(* Guard undoes an update on account of a failed installation only if it   *)
(* was this update that failed.                                            *)
THEOREM RollbacksHaveCause == Spec => RollbackHasCause
<1> DEFINE A == \A g \in Guard : /\ guard[g].reason = "installer"
                                 /\ guard[g].pc = "rollback" /\ guard'[g].pc = "aside"
                                 => pending.id \in failed
<1>1. IInv /\ [Next]_vars => A
  <2> SUFFICES ASSUME IInv, [Next]_vars, NEW g \in Guard, guard[g].reason = "installer",
                      guard[g].pc = "rollback", guard'[g].pc = "aside"
               PROVE  pending.id \in failed
    OBVIOUS
  <2>0. guard \in [Guard -> GuardState] /\ guard[g].tx \in failed  BY DEF IInv, TypeOK, Causes
  <2>1. BeginRollback(g)
    <3>1. guard'[g] # guard[g]  OBVIOUS
    <3>2. \A h \in Guard : GuardStep(h) \/ GuardLaunch(h) \/ GuardRollback(h) \/ CrashGuard(h) => h = g
      BY <3>1, GuardCaused DEF IInv, Safe
    <3>3. ~ UNCHANGED guard  BY <3>1
    <3>4. ~ \E h \in Guard : GuardStarted(h, desktop.safe)
      BY <2>0 DEF GuardStarted, GuardState
    <3>5. GuardStep(g) \/ GuardLaunch(g) \/ GuardRollback(g) \/ CrashGuard(g)
      BY <3>2, <3>3, <3>4 DEF Next, DesktopStep, BeginStart, DomReady, FailStart, HealthTimer,
         ConfirmHealthy, Shutdown, ConfirmClosing, Exit, ReplaceGuard, MoveDesktopAway, MoveDesktopIn,
         RecordFailure, UserLaunch, Quit, CrashDesktop, Prepare, DamageBackup, WindowPasses, vars
    <3> QED BY <2>0, <3>5 DEF GuardStep, ReadFailure, MatchFailure, ClearFailure, CheckStarts, Attribute,
            MarkRolledBack, LaunchDesktop, MoveAside, RestoreFile, UndoFile, RemoveAsides,
            FinishRollback, GuardLaunch, GuardStarted, GuardRollback, CrashGuard, GuardOff
  <2> QED BY <2>0, <2>1 DEF BeginRollback, AfterRollback, GuardOff, Going, Cautious, GuardState
<1> QED BY Invariance, <1>1, PTL DEF Spec, RollbackHasCause

=============================================================================
