---------------------------- MODULE UpdateRepair ----------------------------
(* The self-update of the desktop app on Linux and its undoing by Guard     *)
(* (desktop/updater_app.go, updater.go, app.go, main.go; internal/repair;   *)
(* internal/guardcmd/guard.go).  A release is two files, replaced one after *)
(* the other by the running desktop; a pending-update record with a backup  *)
(* of each file is written first and removed when the new release has       *)
(* proved itself.  Guard starts the desktop and puts the backups back when  *)
(* the installation failed or the new release does not come up.  Every      *)
(* process may die between any two file operations.  One desktop process    *)
(* runs at a time: a second one hands over to the first and ends.           *)
EXTENDS StartupLedger, Sequences

CONSTANTS
    Desktop,        \* the pid of the desktop process
    Guard,          \* Guard processes
    MaxVersion,     \* releases are numbered; the first one is installed
    Fragile,        \* releases that may fail to come up
    Bad,            \* releases that never do
    MaxUpdate,      \* bound: updates prepared
    MaxFault        \* bound: crashes, failed writes, damaged backups, waits past the window

ASSUME ReleaseAssumption ==
    /\ MaxVersion \in Nat \ {0}
    /\ Fragile \subseteq 1 .. MaxVersion /\ Bad \subseteq Fragile
    /\ MaxUpdate \in Nat /\ MaxFault \in Nat

VARIABLES
    file,       \* the installed release: what stands under each name
    aside,      \* X.reames-rollback-aside: what a rollback moved out of the way
    backup,     \* repair/updates/X.previous
    pending,    \* pending-update.json
    marker,     \* update-apply-failed.json
    desktop,    \* the desktop process: where it is and what it knows
    guard,      \* per Guard process
    updates,    \* updates prepared so far: the clock of creation times
    faults,
    begun,      \* history: the update whose rollback last began to move files
    failed,     \* history: the updates that failed to apply
    collided    \* history: one of the two races that the lock does not exclude

vars == <<ledger, file, aside, backup, pending, marker, desktop, guard, updates, faults,
          begun, failed, collided>>
disk == <<file, aside, backup, pending>>
history == <<begun, failed, collided>>

Absent == 0
Version == 1 .. MaxVersion
Damaged == MaxVersion + 1

Files == <<"desktop", "guard">>     \* the order of the transaction's Files
Name == {"desktop", "guard"}

(* The first release may have come without Guard.                           *)
Unguarded == [f \in Name |-> IF f = "desktop" THEN 1 ELSE Absent]

NoUpdate == [id |-> 0, to |-> Absent, old |-> [f \in Name |-> Absent]]
NoMarker == [to |-> Absent, at |-> 0]

DesktopOff == [pc |-> "off", version |-> Absent, safe |-> FALSE, owned |-> FALSE,
               timer |-> "none", to |-> Absent, away |-> Absent, relaunch |-> FALSE]
GuardOff == [pc |-> "off", safe |-> FALSE, failure |-> NoMarker, tx |-> 0,
             reason |-> "none", at |-> 1, kept |-> [f \in Name |-> FALSE], tried |-> FALSE,
             undone |-> 1, mixed |-> FALSE]

(* Guard goes on with nothing in hand but its environment; or launches in    *)
(* Safe Mode.                                                               *)
Going(r, pc) == [GuardOff EXCEPT !.pc = pc, !.safe = r.safe]
Cautious == [GuardOff EXCEPT !.pc = "launch", !.safe = TRUE]

Init ==
    /\ ledger = NoStart
    /\ file \in {[f \in Name |-> 1], Unguarded}
    /\ aside = [f \in Name |-> Absent]
    /\ backup = [f \in Name |-> Absent]
    /\ pending = NoUpdate
    /\ marker = NoMarker
    /\ desktop = DesktopOff
    /\ guard = [g \in Guard |-> GuardOff]
    /\ updates = 0
    /\ faults = 0
    /\ begun = 0
    /\ failed = {}
    /\ collided = FALSE

Fault == faults < MaxFault /\ faults' = faults + 1

(* flock on pending-update.json.lock: only a rollback holds it for more     *)
(* than one step.                                                           *)
Swapping(g) == guard[g].pc \in {"aside", "restore", "undo", "clean", "forget"}
Locked == \E g \in Guard : Swapping(g)

----------------------------------------------------------------------------
(* The desktop process.                                                     *)

Started(safe) ==
    /\ desktop.pc = "off"
    /\ file["desktop"] \in Version
    /\ desktop' = [desktop EXCEPT !.pc = "begin", !.version = file["desktop"],
                                  !.safe = safe]

(* The single-instance lock: a second process counts as a start where the   *)
(* first is not in the ledger, wakes the first up and ends.                 *)
HandsOver ==
    /\ desktop.pc # "off" /\ file["desktop"] \in Version
    /\ ledger' = Begun(ledger, Dead, file["desktop"])
    /\ UNCHANGED desktop

(* Packaged entries start Guard; the executable itself is started where     *)
(* there is none.                                                           *)
UserLaunch ==
    /\ file["guard"] = Absent
    /\ Started(FALSE)
    /\ UNCHANGED <<ledger, disk, marker, guard, updates, faults, history>>

(* main: Safe Mode and Begin; a Begin that fails leaves the process without *)
(* a tracker.                                                               *)
BeginStart ==
    /\ desktop.pc = "begin"
    /\ LET Goes(owned) == desktop' = [desktop EXCEPT !.pc = "opening", !.owned = owned,
                                                     !.safe = @ \/ SafeModeRecommended]
       IN  \/ /\ ledger' = Begun(ledger, Desktop, desktop.version)
              /\ Goes(ledger'.pid = Desktop)
              /\ UNCHANGED faults
           \/ Fault /\ Goes(FALSE) /\ UNCHANGED ledger
    /\ UNCHANGED <<disk, marker, guard, updates, history>>

(* domReady.                                                                *)
DomReady ==
    /\ desktop.pc = "opening" /\ desktop.version \notin Bad
    /\ desktop' = [desktop EXCEPT !.pc = "open",
                                  !.timer = IF desktop.owned THEN "armed" ELSE "none"]
    /\ ledger' = IF desktop.owned THEN Marked(ledger, Desktop, "ready") ELSE ledger
    /\ UNCHANGED <<disk, marker, guard, updates, faults, history>>

(* A release that does not come up: wails.Run fails, or the process dies.   *)
FailStart ==
    /\ desktop.pc = "opening" /\ desktop.version \in Fragile
    /\ \E told \in BOOLEAN :
          ledger' = Abandoned(IF desktop.owned /\ told THEN Marked(ledger, Desktop, "failed")
                              ELSE ledger, Desktop)
    /\ desktop' = DesktopOff
    /\ UNCHANGED <<disk, marker, guard, updates, faults, history>>

(* After 30 seconds of the window being up: MarkHealthy ...                 *)
HealthTimer ==
    /\ desktop.timer = "armed"
    /\ ledger' = Marked(ledger, Desktop, "healthy")
    /\ desktop' = [desktop EXCEPT !.timer = IF desktop.safe THEN "none" ELSE "healthy"]
    /\ UNCHANGED <<disk, marker, guard, updates, faults, history>>

(* Mutant of MarkUpdateHealthy: any release confirms the pending update.    *)
MarkUpdateHealthyAnyway(version) ==
    /\ ~ Locked
    /\ pending' = NoUpdate
    /\ backup' = [f \in Name |-> IF pending.old[f] = Absent THEN backup[f] ELSE Absent]
    /\ UNCHANGED <<file, aside, faults, collided>>

(* MarkUpdateHealthy: the pending update of exactly this release is settled *)
(* and its backups are given up.  A record that cannot be removed stays.    *)
MarkUpdateHealthy(version) ==
    /\ ~ Locked
    /\ IF pending # NoUpdate /\ pending.to = version
       THEN \/ /\ pending' = NoUpdate
               /\ backup' = [f \in Name |-> IF pending.old[f] = Absent THEN backup[f] ELSE Absent]
               /\ collided' = (collided \/ begun = pending.id)
               /\ UNCHANGED <<file, aside, faults>>
            \/ Fault /\ UNCHANGED <<disk, collided>>
       ELSE UNCHANGED <<disk, faults, collided>>

(* ... and then the update.                                                 *)
ConfirmHealthy ==
    /\ desktop.timer = "healthy"
    /\ MarkUpdateHealthy(desktop.version)
    /\ desktop' = [desktop EXCEPT !.timer = "none"]
    /\ UNCHANGED <<ledger, marker, guard, updates, begun, failed>>

(* The user quits.                                                          *)
Quit ==
    /\ desktop.pc = "open"
    /\ desktop' = [desktop EXCEPT !.pc = "closing"]
    /\ UNCHANGED <<ledger, disk, marker, guard, updates, faults, history>>

(* shutdown: only the tracker's owner says anything.                        *)
Shutdown ==
    /\ desktop.pc = "closing"
    /\ ledger' = IF desktop.owned THEN Marked(ledger, Desktop, "clean-exit") ELSE ledger
    /\ desktop' = [desktop EXCEPT !.pc =
                      IF desktop.owned /\ ~ desktop.safe THEN "confirm" ELSE "exit"]
    /\ UNCHANGED <<disk, marker, guard, updates, faults, history>>

ConfirmClosing ==
    /\ desktop.pc = "confirm"
    /\ MarkUpdateHealthy(desktop.version)
    /\ desktop' = [desktop EXCEPT !.pc = "exit"]
    /\ UNCHANGED <<ledger, marker, guard, updates, begun, failed>>

(* A Guard is started, by the user or by the desktop that it is to replace, *)
(* and passes the environment on, in which Safe Mode is a variable.         *)
GuardStarted(g, safe) ==
    /\ guard[g].pc = "off" /\ file["guard"] \in Version
    /\ guard' = [guard EXCEPT ![g].pc = "recover", ![g].safe = safe]

Exit ==
    /\ desktop.pc = "exit"
    /\ desktop' = DesktopOff
    /\ ledger' = Abandoned(ledger, Desktop)
    /\ \/ desktop.relaunch /\ \E g \in Guard : GuardStarted(g, desktop.safe)
       \/ UNCHANGED guard
    /\ UNCHANGED <<disk, marker, updates, faults, history>>

----------------------------------------------------------------------------
(* The update, by a desktop whose window is up.                             *)

(* PrepareFileUpdate: refused while an update is pending; a missing sibling *)
(* is recorded as such.  The record is written after all the backups.       *)
Prepare(to) ==
    /\ desktop.pc = "open"
    /\ desktop.version < to
    /\ updates < MaxUpdate
    /\ ~ Locked /\ pending = NoUpdate /\ file["desktop"] # Absent
    /\ updates' = updates + 1
    /\ pending' = [id |-> updates', to |-> to, old |-> file]
    /\ backup' = [f \in Name |-> IF file[f] = Absent THEN backup[f] ELSE file[f]]
    /\ desktop' = [desktop EXCEPT !.pc = "guardFile", !.to = to]
    /\ UNCHANGED <<ledger, file, aside, marker, guard, faults, history>>

(* applyLinux: Guard is replaced first, and a failure stops the update.     *)
ReplaceGuard ==
    /\ desktop.pc = "guardFile"
    /\ \/ /\ file' = [file EXCEPT !["guard"] = desktop.to]
          /\ desktop' = [desktop EXCEPT !.pc = "desktopAway"]
          /\ UNCHANGED faults
       \/ /\ Fault
          /\ desktop' = [desktop EXCEPT !.pc = "failed"]
          /\ UNCHANGED file
    /\ UNCHANGED <<ledger, aside, backup, pending, marker, guard, updates, history>>

(* selfupdate.Apply moves the executable away ...                           *)
MoveDesktopAway ==
    /\ desktop.pc = "desktopAway"
    /\ \/ /\ file["desktop"] # Absent
          /\ file' = [file EXCEPT !["desktop"] = Absent]
          /\ desktop' = [desktop EXCEPT !.pc = "desktopIn", !.away = file["desktop"]]
          /\ UNCHANGED faults
       \/ /\ Fault \/ (file["desktop"] = Absent /\ UNCHANGED faults)
          /\ desktop' = [desktop EXCEPT !.pc = "failed"]
          /\ UNCHANGED file
    /\ UNCHANGED <<ledger, aside, backup, pending, marker, guard, updates, history>>

(* ... and the new one in; when that fails the old one is moved back.       *)
MoveDesktopIn ==
    /\ desktop.pc = "desktopIn"
    /\ \/ /\ file' = [file EXCEPT !["desktop"] = desktop.to]
          /\ desktop' = [desktop EXCEPT !.pc = "closing", !.relaunch = TRUE]
          /\ UNCHANGED faults
       \/ /\ Fault
          /\ file' = [file EXCEPT !["desktop"] = desktop.away]
          /\ desktop' = [desktop EXCEPT !.pc = "failed"]
    /\ UNCHANGED <<ledger, aside, backup, pending, marker, guard, updates, history>>

(* retainFailedUpdate: the failure is recorded and the transaction kept.    *)
RecordFailure ==
    /\ desktop.pc = "failed"
    /\ \/ marker' = [to |-> desktop.to, at |-> updates] /\ UNCHANGED faults
       \/ Fault /\ UNCHANGED marker
    /\ failed' = failed \cup {updates}
    /\ desktop' = [desktop EXCEPT !.pc = "open", !.to = Absent, !.away = Absent]
    /\ UNCHANGED <<ledger, disk, guard, updates, begun, collided>>

----------------------------------------------------------------------------
(* Guard: launch.                                                           *)

GuardLaunch(g) ==
    /\ GuardStarted(g, FALSE)
    /\ UNCHANGED <<ledger, disk, marker, desktop, updates, faults, history>>

(* guard rollback: the operator's command, with no identity to compare.  The *)
(* recovery center does the same with the identity it has shown.            *)
GuardRollback(g) ==
    /\ guard[g].pc = "off" /\ file["guard"] \in Version
    /\ guard' = [guard EXCEPT ![g].pc = "rollback", ![g].reason = "operator"]
    /\ UNCHANGED <<ledger, disk, marker, desktop, updates, faults, history>>

(* RecoverFailedInstall reads the failure ...                               *)
ReadFailure(g) ==
    /\ guard[g].pc = "recover"
    /\ guard' = [guard EXCEPT ![g].pc = IF marker = NoMarker THEN "check" ELSE "match",
                              ![g].failure = marker]
    /\ UNCHANGED <<ledger, disk, marker, desktop, updates, faults, history>>

(* Mutant of MatchFailure: the time of the failure is not compared.         *)
MatchFailureByVersion(g) ==
    /\ guard[g].pc = "match"
    /\ guard' = IF pending # NoUpdate /\ guard[g].failure.to = pending.to
                THEN [guard EXCEPT ![g].pc = "rollback", ![g].reason = "installer",
                                   ![g].tx = pending.id]
                ELSE [guard EXCEPT ![g].pc = "drop"]
    /\ UNCHANGED <<ledger, disk, marker, desktop, updates, faults, history>>

(* ... and rolls the update back that it belongs to.                        *)
MatchFailure(g) ==
    /\ guard[g].pc = "match"
    /\ LET failure == guard[g].failure IN
       guard' = IF pending # NoUpdate /\ failure.to = pending.to /\ failure.at >= pending.id
                THEN [guard EXCEPT ![g].pc = "rollback", ![g].reason = "installer",
                                   ![g].tx = pending.id]
                ELSE [guard EXCEPT ![g].pc = "drop"]
    /\ UNCHANGED <<ledger, disk, marker, desktop, updates, faults, history>>

(* ClearUpdateApplyFailure: a failure refuses the launch, except after a    *)
(* rollback.                                                                *)
ClearFailure(g) ==
    /\ guard[g].pc \in {"drop", "clear"}
    /\ \/ /\ marker' = NoMarker
          /\ guard' = [guard EXCEPT ![g] = Going(guard[g], "check")]
          /\ UNCHANGED faults
       \/ /\ Fault
          /\ guard' = [guard EXCEPT ![g] =
                IF guard[g].pc = "drop" THEN GuardOff
                ELSE Going(guard[g], "check")]
          /\ UNCHANGED marker
    /\ UNCHANGED <<ledger, disk, desktop, updates, history>>

(* resolveDesktopPath, and the evidence of a crash loop.                    *)
CheckStarts(g) ==
    /\ guard[g].pc = "check"
    /\ guard' = [guard EXCEPT ![g] =
          IF file["desktop"] = Absent THEN GuardOff
          ELSE IF SafeModeRecommended
               THEN Going(guard[g], "attribute")
               ELSE Going(guard[g], "launch")]
    /\ UNCHANGED <<ledger, disk, marker, desktop, updates, faults, history>>

(* Only the start of the very release that is pending is held against it.   *)
Attribute(g) ==
    /\ guard[g].pc = "attribute"
    /\ guard' = [guard EXCEPT ![g] =
          IF pending # NoUpdate /\ ledger.version = pending.to
          THEN [Going(guard[g], "rollback") EXCEPT !.reason = "loop", !.tx = pending.id]
          ELSE Cautious]
    /\ UNCHANGED <<ledger, disk, marker, desktop, updates, faults, history>>

MarkRolledBack(g) ==
    /\ guard[g].pc = "mark"
    /\ \/ ledger' = Marked(ledger, g, "clean-exit") /\ UNCHANGED faults
       \/ Fault /\ UNCHANGED ledger
    /\ guard' = [guard EXCEPT ![g] = Going(guard[g], "launch")]
    /\ UNCHANGED <<disk, marker, desktop, updates, history>>

LaunchDesktop(g) ==
    /\ guard[g].pc = "launch"
    /\ \/ file["desktop"] = Absent /\ UNCHANGED <<ledger, desktop>>
       \/ Started(guard[g].safe) /\ UNCHANGED ledger
       \/ HandsOver
    /\ guard' = [guard EXCEPT ![g] = GuardOff]
    /\ UNCHANGED <<disk, marker, updates, faults, history>>

----------------------------------------------------------------------------
(* rollbackPendingUpdate and restoreReleaseUnit.                            *)

(* What the caller does with the result.                                    *)
AfterRollback(r, outcome) ==
    IF r.reason = "operator" THEN GuardOff
    ELSE IF r.reason = "installer"
    THEN IF outcome = "error" THEN GuardOff
         ELSE [r EXCEPT !.pc = IF outcome = "done" THEN "clear" ELSE "drop"]
    ELSE IF outcome = "error" /\ r.mixed THEN GuardOff
    ELSE IF outcome = "done" THEN Going(r, "mark")
    ELSE Cautious

(* Mutant of BackupsMatch: the hashes are not compared.                     *)
BackupsStand == \A f \in Name : pending.old[f] # Absent => backup[f] # Absent

(* Every backup still has the hash that the record holds.                   *)
BackupsMatch ==
    \A f \in Name : pending.old[f] # Absent => backup[f] = pending.old[f]

(* The files are replaced outside the lock.                                 *)
Installing ==
    desktop.pc \in {"guardFile", "desktopAway", "desktopIn", "failed"}

(* Identity, hashes and staging: nothing installed is touched before all    *)
(* the copies stand ready.                                                  *)
BeginRollback(g) ==
    /\ guard[g].pc = "rollback" /\ ~ Locked
    /\ LET r == guard[g]
           current == pending # NoUpdate /\ (r.reason = "operator" \/ pending.id = r.tx)
       IN  \/ /\ ~ current
              /\ guard' = [guard EXCEPT ![g] = AfterRollback(r, "nothing")]
              /\ UNCHANGED <<faults, begun, collided>>
           \/ /\ current /\ ~ BackupsMatch
              /\ guard' = [guard EXCEPT ![g] = AfterRollback(r, "error")]
              /\ UNCHANGED <<faults, begun, collided>>
           \/ /\ current /\ BackupsMatch
              /\ guard' = [guard EXCEPT ![g].pc = "aside", ![g].at = 1, ![g].undone = 1]
              /\ collided' = (collided \/ Installing)
              /\ begun' = pending.id
              /\ UNCHANGED faults
           \/ /\ current /\ BackupsMatch /\ Fault
              /\ guard' = [guard EXCEPT ![g] = AfterRollback(r, "error")]
              /\ UNCHANGED <<begun, collided>>
    /\ UNCHANGED <<ledger, disk, marker, desktop, updates, failed>>

Missing(f) == pending.old[f] = Absent

Advanced(r) ==
    IF r.at = Len(Files) THEN [r EXCEPT !.pc = "clean"]
    ELSE [r EXCEPT !.pc = "aside", !.at = @ + 1]

(* The installed file is renamed out of the way; one that is not there may  *)
(* have been by a rollback that was cut short.                              *)
MoveAside(g) ==
    /\ guard[g].pc = "aside"
    /\ LET r == guard[g]
           f == Files[r.at]
           moved == file[f] # Absent
           kept == moved \/ (~ Missing(f) /\ aside[f] # Absent)
           next == [r EXCEPT !.kept[f] = kept]
       IN  \/ /\ file' = [file EXCEPT ![f] = Absent]
              /\ aside' = IF moved THEN [aside EXCEPT ![f] = file[f]] ELSE aside
              /\ guard' = [guard EXCEPT ![g] =
                    IF Missing(f) THEN Advanced(next) ELSE [next EXCEPT !.pc = "restore"]]
              /\ UNCHANGED faults
           \/ /\ Fault
              /\ guard' = [guard EXCEPT ![g].pc = "undo"]
              /\ UNCHANGED <<file, aside>>
    /\ UNCHANGED <<ledger, backup, pending, marker, desktop, updates, history>>

(* The staged copy of the backup takes its place.                           *)
RestoreFile(g) ==
    /\ guard[g].pc = "restore"
    /\ LET r == guard[g]
           f == Files[r.at]
       IN  \/ /\ file' = [file EXCEPT ![f] = backup[f]]
              /\ guard' = [guard EXCEPT ![g] = Advanced(r)]
              /\ UNCHANGED faults
           \/ /\ Fault
              /\ guard' = [guard EXCEPT ![g].pc = "undo", ![g].tried = TRUE]
              /\ UNCHANGED file
    /\ UNCHANGED <<ledger, aside, backup, pending, marker, desktop, updates, history>>

(* A failed rename: what was moved aside goes back, in order, up to the     *)
(* file that failed; what cannot go back leaves a mixed release.            *)
UndoFile(g) ==
    /\ guard[g].pc = "undo"
    /\ LET r == guard[g]
           f == Files[r.undone]
           lost == ~ r.kept[f] /\ ~ Missing(f) /\ (r.undone < r.at \/ r.tried)
           after(mixed) ==
              LET next == [r EXCEPT !.mixed = @ \/ mixed] IN
              IF r.undone = r.at THEN AfterRollback(next, "error")
              ELSE [next EXCEPT !.undone = @ + 1]
       IN  \/ /\ r.kept[f]
              /\ file' = [file EXCEPT ![f] = aside[f]]
              /\ aside' = [aside EXCEPT ![f] = Absent]
              /\ guard' = [guard EXCEPT ![g] = after(FALSE)]
           \/ /\ guard' = [guard EXCEPT ![g] = after(r.kept[f] \/ lost)]
              /\ UNCHANGED <<file, aside>>
    /\ UNCHANGED <<ledger, backup, pending, marker, desktop, updates, faults, history>>

RemoveAsides(g) ==
    /\ guard[g].pc = "clean"
    /\ aside' = [f \in Name |-> Absent]
    /\ guard' = [guard EXCEPT ![g].pc = "forget"]
    /\ UNCHANGED <<ledger, file, backup, pending, marker, desktop, updates, faults, history>>

(* The release is restored; the record goes if it can.                      *)
FinishRollback(g) ==
    /\ guard[g].pc = "forget"
    /\ \/ pending' = NoUpdate /\ UNCHANGED faults
       \/ Fault /\ UNCHANGED pending
    /\ guard' = [guard EXCEPT ![g] = AfterRollback(guard[g], "done")]
    /\ UNCHANGED <<ledger, file, aside, backup, marker, desktop, updates, history>>

----------------------------------------------------------------------------
(* What else happens.                                                       *)

CrashDesktop ==
    /\ desktop.pc # "off" /\ Fault
    /\ desktop' = DesktopOff
    /\ ledger' = Abandoned(ledger, Desktop)
    /\ UNCHANGED <<disk, marker, guard, updates, history>>

CrashGuard(g) ==
    /\ guard[g].pc # "off" /\ Fault
    /\ guard' = [guard EXCEPT ![g] = GuardOff]
    /\ UNCHANGED <<ledger, disk, marker, desktop, updates, history>>

(* A backup that may be needed is damaged on disk.                          *)
DamageBackup(f) ==
    /\ pending # NoUpdate /\ backup[f] \in Version /\ ~ Locked /\ Fault
    /\ backup' = [backup EXCEPT ![f] = Damaged]
    /\ UNCHANGED <<ledger, file, aside, pending, marker, desktop, guard, updates, history>>

(* Five minutes since the first start of the window.                        *)
WindowPasses ==
    /\ ledger.fresh /\ Fault
    /\ ledger' = [ledger EXCEPT !.fresh = FALSE]
    /\ UNCHANGED <<disk, marker, desktop, guard, updates, history>>

DesktopStep ==
    \/ BeginStart \/ DomReady \/ FailStart
    \/ HealthTimer \/ ConfirmHealthy
    \/ Shutdown \/ ConfirmClosing \/ Exit
    \/ ReplaceGuard \/ MoveDesktopAway \/ MoveDesktopIn \/ RecordFailure

GuardStep(g) ==
    \/ ReadFailure(g) \/ MatchFailure(g) \/ ClearFailure(g) \/ CheckStarts(g) \/ Attribute(g)
    \/ MarkRolledBack(g) \/ LaunchDesktop(g)
    \/ BeginRollback(g) \/ MoveAside(g) \/ RestoreFile(g) \/ UndoFile(g)
    \/ RemoveAsides(g) \/ FinishRollback(g)

Next ==
    \/ DesktopStep \/ UserLaunch \/ Quit \/ CrashDesktop
    \/ \E to \in Version : Prepare(to)
    \/ \E g \in Guard : GuardStep(g) \/ GuardLaunch(g) \/ GuardRollback(g) \/ CrashGuard(g)
    \/ \E f \in Name : DamageBackup(f)
    \/ WindowPasses

Spec == Init /\ [][Next]_vars

----------------------------------------------------------------------------
Stored == 0 .. Damaged
Release == 0 .. MaxVersion
Marker == [to : Release, at : Nat]

LedgerState ==
    [phase : {"none", "starting", "ready", "healthy", "failed", "clean-exit"},
     version : Release, pid : {Dead, Desktop}, failures : 0 .. FailureLimit, fresh : BOOLEAN]
Update == [id : Nat, to : Release, old : [Name -> Stored]]
DesktopState ==
    [pc : {"off", "begin", "opening", "open", "closing", "confirm", "exit",
           "guardFile", "desktopAway", "desktopIn", "failed"},
     version : Release, safe : BOOLEAN, owned : BOOLEAN, timer : {"none", "armed", "healthy"},
     to : Release, away : Stored, relaunch : BOOLEAN]
GuardState ==
    [pc : {"off", "recover", "match", "drop", "clear", "check", "attribute", "mark", "launch",
           "rollback", "aside", "restore", "undo", "clean", "forget"},
     safe : BOOLEAN, failure : Marker, tx : Nat,
     reason : {"none", "installer", "loop", "operator"}, at : 1 .. 2,
     kept : [Name -> BOOLEAN], tried : BOOLEAN, undone : 1 .. 2, mixed : BOOLEAN]

TypeOK ==
    /\ ledger \in LedgerState
    /\ file \in [Name -> Stored] /\ aside \in [Name -> Stored] /\ backup \in [Name -> Stored]
    /\ pending \in Update /\ marker \in Marker
    /\ desktop \in DesktopState /\ guard \in [Guard -> GuardState]
    /\ updates \in Nat /\ faults \in Nat /\ begun \in Nat
    /\ failed \subseteq Nat /\ collided \in BOOLEAN
    /\ \A g \in Guard : guard[g].undone <= guard[g].at

(* The files are of one release.                                            *)
Whole(release) ==
    \/ \E v \in Version : release = [f \in Name |-> v]
    \/ release = Unguarded

(* The pending update can still be undone, or its backup was damaged.       *)
Evidence ==
    /\ pending # NoUpdate
    /\ \A f \in Name :
          pending.old[f] # Absent => backup[f] \in {pending.old[f], Damaged}

(* Whatever fails and whoever dies, an installation of two releases is      *)
(* never left without the record and the backups to undo it                 *)
(* (docs/RECOVERY.md), but for two races: files replaced outside the lock   *)
(* while a rollback runs, and an update confirmed whose rollback has begun. *)
EvidenceKept == Whole(file) \/ collided \/ Evidence

(* A rollback that calls itself done has put the whole old release back,    *)
(* after any number of rollbacks that were cut short before it.             *)
RollbackRestores ==
    [][\A g \in Guard : guard[g].pc = "clean" /\ guard'[g].pc = "forget"
            => file = pending.old \/ collided]_vars

(* Guard undoes an update on account of a failed installation only if it    *)
(* was this update that failed, not one before it of the same release.      *)
RollbackHasCause ==
    [][\A g \in Guard :
            /\ guard[g].reason = "installer"
            /\ guard[g].pc = "rollback" /\ guard'[g].pc = "aside"
            => pending.id \in failed]_vars

(* A release that never comes up is not started normally for ever: the      *)
(* crash loop ends in a rollback or in Safe Mode.                           *)
BadReleaseIsLeft ==
    <>[][/\ desktop.pc = "begin" /\ desktop'.pc = "opening"
         /\ desktop.version \in Bad
         => desktop'.safe]_vars

=============================================================================
