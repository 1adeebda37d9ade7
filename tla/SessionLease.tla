----------------------------- MODULE SessionLease -----------------------------
(***************************************************************************)
(* Who may write one session (src/internal/agent/session_lease.go,         *)
(* session_removal.go, session_lock_unix.go, session_lock_windows.go and   *)
(* the sidecar helpers of save.go).  A runtime holds the session's lease:  *)
(* an entry in a registry of its process, a lock on <session>.lease.lock   *)
(* and a readable <session>.lease.json.  Savers lock <session>.lock.  Both *)
(* lock files are deleted by whoever retires them, under their own lock.   *)
(*                                                                         *)
(* A lock belongs to the file that was opened, not to its name, so opening,*)
(* locking, unlinking and unlocking are steps of their own, and every      *)
(* goroutine of every process may stop between any two of them.  Only one  *)
(* session is modelled: paths do not interact.                             *)
(***************************************************************************)
EXTENDS Naturals, FiniteSets

CONSTANTS
    Actor,              \* goroutines that work on the session
    Process,            \* operating system processes
    ProcessOf,          \* ProcessOf[a]: the process of goroutine a
    Tasks,              \* Tasks[a]: which of the operations a performs
    Platform,           \* "unix" or "windows"
    NoActor, NoProcess  \* nil

ASSUME HomeAssumption == ProcessOf \in [Actor -> Process]
ASSUME FiniteAssumption == IsFiniteSet(Actor)
ASSUME NilAssumption == NoActor \notin Actor

VARIABLES
    pc,                 \* pc[a]: the next step of a
    after,              \* after[a]: where a probe goes on when nobody else holds
    owners,             \* owners[p]: sessionLeaseOwners of process p
    info,               \* the process the lease info file names
    inode,              \* inode[f]: the file that the name f stands for, or 0
    doomed,             \* doomed[f]: it goes when its last handle closes
    fd                  \* fd[a][f]: the handle a has of lock file f

fileVars == <<inode, doomed, fd>>
vars == <<pc, after, owners, info, fileVars>>

File == {"lease", "save"}
NoFile == [inode |-> 0, helper |-> FALSE, locked |-> FALSE]
Mine(a) == ProcessOf[a]
GoTo(a, where) == pc' = [pc EXCEPT ![a] = where]

Init == /\ pc = [a \in Actor |-> "idle"]
        /\ after = [a \in Actor |-> "idle"]
        /\ owners = [p \in Process |-> NoActor]
        /\ info = NoProcess
        /\ inode = [f \in File |-> 0]
        /\ doomed = [f \in File |-> FALSE]
        /\ fd = [a \in Actor |-> [f \in File |-> NoFile]]

-----------------------------------------------------------------------------
(* Lock files.                                                             *)

Handles(f, i) == {a \in Actor : fd[a][f].inode = i}

(* A file nobody has open and no name stands for: inode numbers are reused.*)
Fresh(f) == CHOOSE i \in 1..(Cardinality(Actor) + 1) : i # inode[f] /\ Handles(f, i) = {}

(* Windows refuses to open a file that is about to go, and an ordinary     *)
(* handle (Go's share mode) excludes a helper's, which may delete, and is  *)
(* excluded by it.                                                         *)
CanOpen(f, helper) ==
    Platform = "windows" =>
        /\ ~ doomed[f]
        /\ \A a \in Handles(f, inode[f]) : inode[f] # 0 => fd[a][f].helper = helper

Open(a, f, helper) ==
    LET i == IF inode[f] = 0 THEN Fresh(f) ELSE inode[f] IN
    /\ inode' = [inode EXCEPT ![f] = i]
    /\ fd' = [fd EXCEPT ![a][f] = [inode |-> i, helper |-> helper, locked |-> FALSE]]
    /\ UNCHANGED doomed

Available(a, f) == \A b \in Handles(f, fd[a][f].inode) : ~ fd[b][f].locked

Close(a, f) ==
    LET last == doomed[f] /\ Handles(f, inode[f]) = {a} IN
    /\ fd' = [fd EXCEPT ![a][f] = NoFile]
    /\ inode' = [inode EXCEPT ![f] = IF last THEN 0 ELSE @]
    /\ doomed' = [doomed EXCEPT ![f] = @ /\ ~ last]

(* A bug to catch: the name is removed on Windows too, and not the file.   *)
UnlinkName(f) == inode' = [inode EXCEPT ![f] = 0] /\ UNCHANGED <<doomed, fd>>

(* RemoveAndUnlock, first half: Unix takes the name from whatever file it  *)
(* stands for, Windows marks the file of the handle.                       *)
Unlink(f) ==
    /\ IF Platform = "unix"
       THEN inode' = [inode EXCEPT ![f] = 0] /\ UNCHANGED doomed
       ELSE doomed' = [doomed EXCEPT ![f] = TRUE] /\ UNCHANGED inode
    /\ UNCHANGED fd

(* The steps of a try-lock: open or be refused, lock or close again.       *)
TryOpen(a, f, helper, here, there, refused) ==
    /\ pc[a] = here
    /\ \/ CanOpen(f, helper) /\ Open(a, f, helper) /\ GoTo(a, there)
       \/ ~ CanOpen(f, helper) /\ GoTo(a, refused) /\ UNCHANGED fileVars
    /\ UNCHANGED <<after, owners, info>>

TryLock(a, f, here, there, refused) ==
    /\ pc[a] = here
    /\ \/ /\ Available(a, f) /\ GoTo(a, there)
          /\ fd' = [fd EXCEPT ![a][f].locked = TRUE]
          /\ UNCHANGED <<inode, doomed>>
       \/ ~ Available(a, f) /\ Close(a, f) /\ GoTo(a, refused)
    /\ UNCHANGED <<after, owners, info>>

Unlock(a, f, here, there) ==
    /\ pc[a] = here /\ Close(a, f) /\ GoTo(a, there)
    /\ UNCHANGED <<after, owners, info>>

RemoveName(a, f, here, there) ==
    /\ pc[a] = here /\ Unlink(f) /\ GoTo(a, there)
    /\ UNCHANGED <<after, owners, info>>

SetInfo(a, p, here, there) ==
    /\ pc[a] = here /\ info' = p /\ GoTo(a, there)
    /\ UNCHANGED <<after, owners, fileVars>>

Jump(a, here, there) == pc[a] = here /\ GoTo(a, there)
Pure == UNCHANGED <<after, owners, info, fileVars>>

HeldLocally(a) == owners[Mine(a)] # NoActor

(* A bug to catch: the entry is deleted whoever owns it.                   *)
Delete(a) == owners' = [owners EXCEPT ![Mine(a)] = NoActor]

CompareAndDelete(a) ==
    owners' = [owners EXCEPT ![Mine(a)] = IF @ = a THEN NoActor ELSE @]

-----------------------------------------------------------------------------
(* TryAcquireSessionLease: register, lock, publish.                        *)
TryAcquire(a) ==
    \/ /\ "lease" \in Tasks[a] /\ ~ HeldLocally(a)
       /\ Jump(a, "idle", "acqOpen")
       /\ owners' = [owners EXCEPT ![Mine(a)] = a]
       /\ UNCHANGED <<after, info, fileVars>>
    \/ TryOpen(a, "lease", FALSE, "acqOpen", "acqLock", "acqRefused")
    \/ TryLock(a, "lease", "acqLock", "acqInfo", "acqRefused")
    \/ /\ Jump(a, "acqRefused", "idle") /\ CompareAndDelete(a)
       /\ UNCHANGED <<after, info, fileVars>>
    \/ SetInfo(a, Mine(a), "acqInfo", "held")
    \/ Jump(a, "acqInfo", "release") /\ Pure    \* the info cannot be written

(* TryReclaimCurrentProcessSessionLease: a lease this process lost track of*)
(* - its info names this process or is missing - is locked first and       *)
(* registered then.                                                        *)
TryReclaim(a) ==
    \/ /\ "reclaim" \in Tasks[a] /\ info \in {Mine(a), NoProcess}
       /\ Jump(a, "idle", "recOpen") /\ Pure
    \/ TryOpen(a, "lease", FALSE, "recOpen", "recLock", "idle")
    \/ TryLock(a, "lease", "recLock", "recStore", "idle")
    \/ /\ Jump(a, "recStore", "acqInfo")
       /\ owners' = [owners EXCEPT ![Mine(a)] = a]
       /\ UNCHANGED <<after, info, fileVars>>

(* Release: the info goes, the lock is freed, the entry deleted; then the  *)
(* lease lock file is retired, then the save lock file if no other runtime *)
(* holds the session.                                                      *)
Release(a) ==
    \/ Jump(a, "held", "release") /\ Pure
    \/ SetInfo(a, NoProcess, "release", "relUnlock")
    \/ Unlock(a, "lease", "relUnlock", "relDelete")
    \/ /\ Jump(a, "relDelete", "retLease") /\ CompareAndDelete(a)
       /\ UNCHANGED <<after, info, fileVars>>
    \/ /\ Jump(a, "retLease", IF HeldLocally(a) THEN "retSave" ELSE "retOpen") /\ Pure
    \/ TryOpen(a, "lease", TRUE, "retOpen", "retLock", "retSave")
    \/ TryLock(a, "lease", "retLock", "retUnlink", "retSave")
    \/ RemoveName(a, "lease", "retUnlink", "retUnlock")
    \/ Unlock(a, "lease", "retUnlock", "retSave")
    \/ /\ Jump(a, "retSave", IF HeldLocally(a) THEN "idle" ELSE "probe")
       /\ after' = [after EXCEPT ![a] = "sweepOpen"]
       /\ UNCHANGED <<owners, info, fileVars>>
    \/ TryOpen(a, "save", TRUE, "sweepOpen", "sweepLock", "idle")
    \/ TryLock(a, "save", "sweepLock", "sweepUnlink", "idle")
    \/ RemoveName(a, "save", "sweepUnlink", "sweepUnlock")
    \/ Unlock(a, "save", "sweepUnlock", "idle")

(* SessionLeaseHeldByOtherRuntime: a leftover of a dead process is told    *)
(* from a holder by its lock, and its info is removed.                     *)
Probe(a) ==
    \/ /\ "probe" \in Tasks[a] /\ Jump(a, "idle", "probe")
       /\ after' = [after EXCEPT ![a] = "idle"]
       /\ UNCHANGED <<owners, info, fileVars>>
    \/ Jump(a, "probe", IF HeldLocally(a) THEN after[a] ELSE "probeInfo") /\ Pure
    \/ /\ Jump(a, "probeInfo", IF info \in {NoProcess, Mine(a)} THEN after[a]
                                                                ELSE "probeOpen")
       /\ Pure
    \/ TryOpen(a, "lease", FALSE, "probeOpen", "probeLock", "idle")
    \/ TryLock(a, "lease", "probeLock", "probeClean", "idle")
    \/ SetInfo(a, NoProcess, "probeClean", "probeUnlock")
    \/ Unlock(a, "lease", "probeUnlock", after[a])

(* A bug to catch: the guard that finds a save in flight keeps the lease.  *)
GuardUndoKeeps(a) == Jump(a, "guardUndo", "idle") /\ Pure

GuardUndo(a) == Unlock(a, "lease", "guardUndo", "idle")

(* A bug to catch: the guard does not wait for savers.                     *)
GuardSaveLockIgnored(a) == Jump(a, "guardOpenSave", "guard") /\ Pure

GuardSaveLock(a) == \/ TryOpen(a, "save", TRUE, "guardOpenSave", "guardLockSave", "guardUndo")
                    \/ TryLock(a, "save", "guardLockSave", "guard", "guardUndo")

(* SessionRemovalGuard: both locks, without waiting; then the files of the *)
(* session are moved or deleted and the sidecars with them, or not.        *)
RemovalGuard(a) ==
    \/ "remove" \in Tasks[a] /\ ~ HeldLocally(a) /\ Jump(a, "idle", "guardOpen") /\ Pure
    \/ TryOpen(a, "lease", TRUE, "guardOpen", "guardLock", "idle")
    \/ TryLock(a, "lease", "guardLock", "guardOpenSave", "idle")
    \/ GuardSaveLock(a)
    \/ GuardUndo(a)
    \/ Unlock(a, "save", "guard", "guardUndo")
    \/ SetInfo(a, NoProcess, "guard", "rmSave")
    \/ RemoveName(a, "save", "rmSave", "rmSaveUnlock")
    \/ Unlock(a, "save", "rmSaveUnlock", "rmLease")
    \/ RemoveName(a, "lease", "rmLease", "rmLeaseUnlock")
    \/ Unlock(a, "lease", "rmLeaseUnlock", "idle")

(* A save: lockSessionFile tries for a while, then fails the save.         *)
Save(a) ==
    \/ "save" \in Tasks[a] /\ Jump(a, "idle", "saveOpen") /\ Pure
    \/ TryOpen(a, "save", FALSE, "saveOpen", "saveLock", "idle")
    \/ TryLock(a, "save", "saveLock", "saving", "idle")
    \/ Unlock(a, "save", "saving", "idle")

(* The sweep of ReconcileSessionSidecars over a leftover info file.        *)
SweepInfo(a) ==
    \/ /\ "sweep" \in Tasks[a] /\ ~ HeldLocally(a)
       /\ Jump(a, "idle", IF inode["lease"] = 0 THEN "infoRemove" ELSE "infoOpen") /\ Pure
    \/ SetInfo(a, NoProcess, "infoRemove", "idle")
    \/ TryOpen(a, "lease", FALSE, "infoOpen", "infoLock", "idle")
    \/ TryLock(a, "lease", "infoLock", "infoClean", "idle")
    \/ SetInfo(a, NoProcess, "infoClean", "infoUnlock")
    \/ Unlock(a, "lease", "infoUnlock", "idle")

(* A lease is dropped without Release: its handle is collected, the entry  *)
(* and the info stay.                                                      *)
Drop(a) ==
    /\ Jump(a, "held", "idle") /\ Close(a, "lease")
    /\ UNCHANGED <<after, owners, info>>

(* A process dies; the system closes its handles.                          *)
Crash(p) ==
    LET dead == {a \in Actor : ProcessOf[a] = p}
        gone == {f \in File : doomed[f] /\ Handles(f, inode[f]) \subseteq dead}
    IN  /\ pc' = [a \in Actor |-> IF a \in dead THEN "idle" ELSE pc[a]]
        /\ fd' = [a \in Actor |-> IF a \in dead THEN [f \in File |-> NoFile] ELSE fd[a]]
        /\ owners' = [owners EXCEPT ![p] = NoActor]
        /\ inode' = [f \in File |-> IF f \in gone THEN 0 ELSE inode[f]]
        /\ doomed' = [f \in File |-> doomed[f] /\ f \notin gone]
        /\ UNCHANGED <<after, info>>

Next == \/ \E a \in Actor : \/ TryAcquire(a) \/ TryReclaim(a) \/ Release(a) \/ Probe(a)
                            \/ RemovalGuard(a) \/ Save(a) \/ SweepInfo(a) \/ Drop(a)
        \/ \E p \in Process : Crash(p)

Spec == Init /\ [][Next]_vars

-----------------------------------------------------------------------------
(* Every variable stays within its shape, and no file is locked twice.     *)
TypeOK ==
    /\ owners \in [Process -> Actor \cup {NoActor}]
    /\ info \in Process \cup {NoProcess}
    /\ inode \in [File -> 0..(Cardinality(Actor) + 1)]
    /\ doomed \in [File -> BOOLEAN]
    /\ \A f \in File : \A a, b \in Actor :
          fd[a][f].locked /\ fd[b][f].locked /\ fd[a][f].inode = fd[b][f].inode => a = b

Holds(a) == pc[a] \in {"acqInfo", "held", "release", "recStore"}

(* One runtime at a time has the session's lease, whatever acquires,       *)
(* releases, reclaims, retires lock files or dies in whatever order.       *)
LeaseExclusive == \A a, b \in Actor : Holds(a) /\ Holds(b) => a = b

(* While a removal guard moves or deletes the files of a session, no other *)
(* runtime holds its lease and no save is in flight.                       *)
RemovalAlone ==
    \A a, b \in Actor : pc[a] = "guard" => ~ Holds(b) /\ pc[b] # "saving"

(* A racing caller never evicts an entry it does not own: while a holder   *)
(* keeps a lease its process has registered as its, no other acquire,      *)
(* reclaim or release of that process takes the entry away or over.  (A    *)
(* holder may be without an entry to begin with: a reclaim that locks      *)
(* between its registration and its lock replaces the entry, and deletes   *)
(* it when it releases.)                                                   *)
EntryIsKept ==
    [][\A a \in Actor : pc[a] = "held" /\ pc'[a] = "held" /\ owners[Mine(a)] = a
                            => owners'[Mine(a)] = a]_vars

(* Whoever is done, or was refused halfway, has every lock file closed: no *)
(* session is wedged by a lock nobody uses.                                *)
NoLeakedLock == \A a \in Actor : pc[a] = "idle" => fd[a] = [f \in File |-> NoFile]
=============================================================================
