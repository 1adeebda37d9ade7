------------------------------ MODULE SessionProofs ------------------------------
(***************************************************************************)
(* What is proved of one session: of SessionLease on Windows, where a lock *)
(* file goes when its last handle closes, for any number of goroutines and *)
(* processes; and of SessionSave, for any number of runtimes, transcripts, *)
(* copies and faults.                                                      *)
(***************************************************************************)
EXTENDS SessionLease, SessionSave, SequenceTheorems, FiniteSetTheorems, TLAPS

-----------------------------------------------------------------------------
(* SessionLease.                                                           *)

(* Where a goroutine has a lock file open, and where it has it locked.     *)
OpenAt(f) ==
    IF f = "lease" THEN {"acqLock", "recLock", "retLock", "probeLock", "guardLock", "infoLock"}
    ELSE {"sweepLock", "guardLockSave", "saveLock"}

LockedAt(f) ==
    IF f = "lease"
    THEN {"acqInfo", "held", "release", "recStore", "relUnlock", "retUnlink", "retUnlock",
          "probeClean", "probeUnlock", "guardOpenSave", "guardLockSave", "guardUndo", "guard",
          "rmSave", "rmSaveUnlock", "rmLease", "rmLeaseUnlock", "infoClean", "infoUnlock"}
    ELSE {"sweepUnlink", "sweepUnlock", "guard", "rmSave", "rmSaveUnlock", "saving"}

Status(p, f) == IF p \in LockedAt(f) THEN "locked" ELSE IF p \in OpenAt(f) THEN "open" ELSE "closed"

(* A step from p to q takes file f from one status to another, or none.    *)
Takes(p, q, f, s, t) == /\ Status(p, f) = s /\ Status(q, f) = t
                        /\ \A g \in File \ {f} : Status(p, g) = Status(q, g)
Still(p, q) == \A g \in File : Status(p, g) = Status(q, g)

Inode == 0..(Cardinality(Actor) + 1)
Handle == [inode : Inode, helper : BOOLEAN, locked : BOOLEAN]

Typed == /\ pc = [a \in Actor |-> pc[a]]
         /\ after \in [Actor -> {"idle", "sweepOpen"}]
         /\ owners \in [Process -> Actor \cup {NoActor}]
         /\ info \in Process \cup {NoProcess}
         /\ inode \in [File -> Inode] /\ doomed \in [File -> BOOLEAN]
         /\ fd \in [Actor -> [File -> Handle]]

(* The handles of a goroutine are what its place says.                     *)
Shaped == \A a \in Actor, f \in File :
             /\ fd[a][f].inode # 0 <=> Status(pc[a], f) # "closed"
             /\ fd[a][f].locked <=> Status(pc[a], f) = "locked"
             /\ fd[a][f].inode = 0 => fd[a][f] = NoFile

(* Every open handle is of the file the name stands for.                   *)
OneFile == \A a \in Actor, f \in File : fd[a][f].inode # 0 => fd[a][f].inode = inode[f]

OneLock == \A a, b \in Actor, f \in File : fd[a][f].locked /\ fd[b][f].locked => a = b

IInv == Typed /\ Shaped /\ OneFile /\ OneLock

-----------------------------------------------------------------------------
LEMMA Init_IInv == Init => IInv
<1> SUFFICES ASSUME Init PROVE IInv  OBVIOUS
<1>1. NoFile \in Handle /\ 0 \in Inode
  BY FiniteAssumption, FS_CardinalityType DEF NoFile, Handle, Inode
<1>2. \A f \in File : Status("idle", f) = "closed"
  BY DEF Status, OpenAt, LockedAt, File
<1>3. Typed  BY <1>1 DEF Init, Typed
<1>4. Shaped /\ OneFile /\ OneLock  BY <1>2 DEF Init, Shaped, OneFile, OneLock, NoFile
<1> QED BY <1>3, <1>4 DEF IInv

(* A goroutine changes one of its handles.                                 *)
LEMMA HandleStep ==
    ASSUME IInv, NEW a \in Actor, NEW f \in File, NEW h \in Handle, NEW where,
           GoTo(a, where), fd' = [fd EXCEPT ![a][f] = h],
           inode' \in [File -> Inode], \A g \in File \ {f} : inode'[g] = inode[g],
           doomed' \in [File -> BOOLEAN], UNCHANGED <<after, owners, info>>,
           h.inode # 0 <=> Status(where, f) # "closed",
           h.locked <=> Status(where, f) = "locked",
           h.inode = 0 => h = NoFile,
           h.inode # 0 => h.inode = inode'[f],
           \A g \in File \ {f} : Status(where, g) = Status(pc[a], g),
           \A b \in Actor \ {a} : fd[b][f].inode # 0 => inode'[f] = inode[f],
           h.locked => \A b \in Actor \ {a} : ~ fd[b][f].locked
    PROVE  IInv'
<1>1. /\ fd'[a][f] = h
      /\ \A g \in File \ {f} : fd'[a][g] = fd[a][g]
      /\ \A b \in Actor \ {a} : fd'[b] = fd[b]
      /\ fd' \in [Actor -> [File -> Handle]]
  BY DEF IInv, Typed
<1>2. /\ pc'[a] = where /\ \A b \in Actor \ {a} : pc'[b] = pc[b]
      /\ pc' = [b \in Actor |-> pc'[b]]
  BY DEF IInv, Typed, GoTo
<1>3. Typed'  BY <1>1, <1>2 DEF IInv, Typed
<1>4. Shaped'
  <2> SUFFICES ASSUME NEW b \in Actor, NEW g \in File
               PROVE  /\ fd'[b][g].inode # 0 <=> Status(pc'[b], g) # "closed"
                      /\ fd'[b][g].locked <=> Status(pc'[b], g) = "locked"
                      /\ fd'[b][g].inode = 0 => fd'[b][g] = NoFile
    BY DEF Shaped, Status, OpenAt, LockedAt, NoFile
  <2>1. CASE b = a /\ g = f  BY <1>1, <1>2, <2>1
  <2>2. CASE b = a /\ g # f  BY <1>1, <1>2, <2>2 DEF IInv, Shaped
  <2>3. CASE b # a  BY <1>1, <1>2, <2>3 DEF IInv, Shaped
  <2> QED BY <2>1, <2>2, <2>3
<1>5. OneFile'
  <2> SUFFICES ASSUME NEW b \in Actor, NEW g \in File, fd'[b][g].inode # 0
               PROVE  fd'[b][g].inode = inode'[g]
    BY DEF OneFile
  <2>1. CASE b = a /\ g = f  BY <1>1, <2>1
  <2>2. CASE g # f  BY <1>1, <2>2 DEF IInv, OneFile
  <2>3. CASE b # a /\ g = f  BY <1>1, <2>3 DEF IInv, OneFile
  <2> QED BY <2>1, <2>2, <2>3
<1>6. OneLock'
  <2> SUFFICES ASSUME NEW b \in Actor, NEW c \in Actor, NEW g \in File,
                      fd'[b][g].locked, fd'[c][g].locked, b # c
               PROVE  FALSE
    BY DEF OneLock
  <2>1. CASE g # f  BY <1>1, <2>1 DEF IInv, OneLock
  <2>2. CASE g = f /\ b = a  BY <1>1, <2>2
  <2>3. CASE g = f /\ c = a  BY <1>1, <2>3
  <2>4. CASE b # a /\ c # a  BY <1>1, <2>4 DEF IInv, OneLock
  <2> QED BY <2>1, <2>2, <2>3, <2>4
<1> QED BY <1>3, <1>4, <1>5, <1>6 DEF IInv

(* A goroutine that touches no handle.                                     *)
LEMMA StillStep ==
    ASSUME IInv, NEW a \in Actor, NEW where, GoTo(a, where), Still(pc[a], where),
           UNCHANGED <<inode, fd>>, doomed' \in [File -> BOOLEAN],
           after' \in [Actor -> {"idle", "sweepOpen"}],
           owners' \in [Process -> Actor \cup {NoActor}], info' \in Process \cup {NoProcess}
    PROVE  IInv'
<1>1. /\ pc'[a] = where /\ \A b \in Actor \ {a} : pc'[b] = pc[b]
      /\ pc' = [b \in Actor |-> pc'[b]]
  BY DEF IInv, Typed, GoTo
<1>2. Typed'  BY <1>1 DEF IInv, Typed
<1>3. \A b \in Actor, g \in File : Status(pc'[b], g) = Status(pc[b], g)
  BY <1>1 DEF Still
<1>4. Shaped'
  <2>1. \A b \in Actor, g \in File :
            /\ fd'[b][g].inode # 0 <=> Status(pc'[b], g) # "closed"
            /\ fd'[b][g].locked <=> Status(pc'[b], g) = "locked"
            /\ fd'[b][g].inode = 0 => fd'[b][g] = NoFile
    BY <1>3 DEF IInv, Shaped
  <2> QED BY <2>1 DEF Shaped, Status, OpenAt, LockedAt, NoFile
<1>5. OneFile' /\ OneLock'  BY DEF IInv, OneFile, OneLock
<1> QED BY <1>2, <1>4, <1>5 DEF IInv

-----------------------------------------------------------------------------
(* The steps that the operations are made of.                              *)
Windows == Platform = "windows"

LEMMA FreshFile ==
    ASSUME IInv, NEW f \in File, inode[f] = 0
    PROVE  Fresh(f) \in Inode \ {0} /\ \A b \in Actor : fd[b][f].inode = 0
<1>1. \A b \in Actor : fd[b][f].inode = 0  BY DEF IInv, OneFile
<1>2. Cardinality(Actor) \in Nat  BY FiniteAssumption, FS_CardinalityType
<1>3. \A i \in 1..(Cardinality(Actor) + 1) : Handles(f, i) = {}
  BY <1>1, <1>2 DEF Handles
<1>4. \E i \in 1..(Cardinality(Actor) + 1) : i # inode[f] /\ Handles(f, i) = {}
  <2>1. 1 \in 1..(Cardinality(Actor) + 1) /\ 1 # inode[f]  BY <1>2
  <2> QED BY <1>3, <2>1
<1>5. Fresh(f) \in 1..(Cardinality(Actor) + 1)  BY <1>4 DEF Fresh
<1> QED BY <1>1, <1>2, <1>5 DEF Inode

LEMMA TryOpen_IInv ==
    ASSUME IInv, NEW a \in Actor, NEW f \in File, NEW helper \in BOOLEAN,
           NEW here, NEW there, NEW refused,
           TryOpen(a, f, helper, here, there, refused),
           Takes(here, there, f, "closed", "open"), Still(here, refused)
    PROVE  IInv'
<1>1. CASE CanOpen(f, helper) /\ Open(a, f, helper) /\ GoTo(a, there)
  <2> DEFINE i == IF inode[f] = 0 THEN Fresh(f) ELSE inode[f]
             h == [inode |-> i, helper |-> helper, locked |-> FALSE]
  <2>1. i \in Inode \ {0}  BY FreshFile DEF IInv, Typed
  <2>2. h \in Handle /\ h.inode = i /\ ~ h.locked  BY <2>1 DEF Handle
  <2>3. /\ inode' = [inode EXCEPT ![f] = i] /\ fd' = [fd EXCEPT ![a][f] = h]
        /\ doomed' = doomed
    BY <1>1 DEF Open
  <2>4. \A b \in Actor \ {a} : fd[b][f].inode # 0 => i = inode[f]
    BY FreshFile
  <2> HIDE DEF i, h
  <2>5. /\ inode' \in [File -> Inode] /\ inode'[f] = i
        /\ \A g \in File \ {f} : inode'[g] = inode[g]
    BY <2>1, <2>3 DEF IInv, Typed
  <2>6. /\ Status(there, f) = "open" /\ pc[a] = here
        /\ \A g \in File \ {f} : Status(there, g) = Status(pc[a], g)
    BY DEF Takes, TryOpen
  <2>7. doomed' \in [File -> BOOLEAN] /\ UNCHANGED <<after, owners, info>>
    BY <2>3 DEF IInv, Typed, TryOpen
  <2>8. h.inode # 0  BY <2>1, <2>2
  <2> QED BY <1>1, <2>2, <2>3, <2>4, <2>5, <2>6, <2>7, <2>8, HandleStep
<1>2. CASE ~ CanOpen(f, helper) /\ GoTo(a, refused) /\ UNCHANGED fileVars
  BY <1>2, StillStep DEF TryOpen, fileVars, IInv, Typed
<1> QED BY <1>1, <1>2 DEF TryOpen

(* Closing takes the name with it when the file was to go and this was its *)
(* last handle.                                                            *)
LEMMA Close_IInv ==
    ASSUME IInv, NEW a \in Actor, NEW f \in File, NEW where,
           Close(a, f), GoTo(a, where), Status(where, f) = "closed",
           \A g \in File \ {f} : Status(where, g) = Status(pc[a], g),
           UNCHANGED <<after, owners, info>>
    PROVE  IInv'
<1> DEFINE last == doomed[f] /\ Handles(f, inode[f]) = {a}
<1>1. /\ fd' = [fd EXCEPT ![a][f] = NoFile]
      /\ inode' = [inode EXCEPT ![f] = IF last THEN 0 ELSE @]
      /\ doomed' = [doomed EXCEPT ![f] = @ /\ ~ last]
  BY DEF Close
<1>2. NoFile \in Handle /\ NoFile.inode = 0 /\ ~ NoFile.locked /\ 0 \in Inode
  BY FiniteAssumption, FS_CardinalityType DEF NoFile, Handle, Inode
<1>3. last => \A b \in Actor \ {a} : fd[b][f].inode = 0
  BY DEF IInv, OneFile, Handles
<1> HIDE DEF last
<1>4. /\ inode' \in [File -> Inode] /\ doomed' \in [File -> BOOLEAN]
      /\ \A g \in File \ {f} : inode'[g] = inode[g]
      /\ ~ last => inode'[f] = inode[f]
  BY <1>1, <1>2 DEF IInv, Typed
<1>5. \A b \in Actor \ {a} : fd[b][f].inode # 0 => inode'[f] = inode[f]
  BY <1>3, <1>4
<1> DEFINE h == NoFile
<1>6. h \in Handle /\ h.inode = 0 /\ ~ h.locked /\ h = NoFile  BY <1>2
<1>7. fd' = [fd EXCEPT ![a][f] = h]  BY <1>1
<1> HIDE DEF h
<1> QED BY <1>4, <1>5, <1>6, <1>7, HandleStep

LEMMA TryLock_IInv ==
    ASSUME IInv, NEW a \in Actor, NEW f \in File, NEW here, NEW there, NEW refused,
           TryLock(a, f, here, there, refused),
           Takes(here, there, f, "open", "locked"), Takes(here, refused, f, "open", "closed")
    PROVE  IInv'
<1>0. pc[a] = here /\ UNCHANGED <<after, owners, info>>  BY DEF TryLock
<1>1. CASE /\ Available(a, f) /\ GoTo(a, there)
           /\ fd' = [fd EXCEPT ![a][f].locked = TRUE]
           /\ UNCHANGED <<inode, doomed>>
  <2> DEFINE h == [fd[a][f] EXCEPT !.locked = TRUE]
  <2>1. fd[a][f] \in Handle /\ fd[a][f].inode # 0 /\ fd[a][f].inode = inode[f]
    BY <1>0 DEF IInv, Typed, Shaped, OneFile, Takes
  <2>2. h \in Handle /\ h.inode = fd[a][f].inode /\ h.locked  BY <2>1 DEF Handle
  <2>3. fd' = [fd EXCEPT ![a][f] = h]  BY <1>1 DEF IInv, Typed
  <2>4. \A b \in Actor \ {a} : ~ fd[b][f].locked
    <3>1. \A b \in Actor : fd[b][f].locked => fd[b][f].inode = inode[f]
      BY DEF IInv, Shaped, OneFile
    <3> QED BY <1>1, <2>1, <3>1 DEF Available, Handles
  <2> HIDE DEF h
  <2>5. /\ inode' \in [File -> Inode] /\ doomed' \in [File -> BOOLEAN]
        /\ \A g \in File : inode'[g] = inode[g]
    BY <1>1 DEF IInv, Typed
  <2>6. /\ Status(there, f) = "locked"
        /\ \A g \in File \ {f} : Status(there, g) = Status(pc[a], g)
    BY <1>0 DEF Takes
  <2> QED BY <1>0, <1>1, <2>1, <2>2, <2>3, <2>4, <2>5, <2>6, HandleStep
<1>2. CASE Close(a, f) /\ GoTo(a, refused)
  BY <1>0, <1>2, Close_IInv DEF Takes
<1> QED BY <1>1, <1>2 DEF TryLock

LEMMA Unlock_IInv ==
    ASSUME IInv, NEW a \in Actor, NEW f \in File, NEW here, NEW there,
           Unlock(a, f, here, there), Takes(here, there, f, "locked", "closed")
    PROVE  IInv'
BY Close_IInv DEF Unlock, Takes

LEMMA Remove_IInv ==
    ASSUME IInv, Windows, NEW a \in Actor, NEW f \in File, NEW here, NEW there,
           RemoveName(a, f, here, there), Still(here, there)
    PROVE  IInv'
<1>1. /\ pc[a] = here /\ GoTo(a, there) /\ UNCHANGED <<after, owners, info, inode, fd>>
      /\ doomed' = [doomed EXCEPT ![f] = TRUE]
  BY DEF RemoveName, Unlink, Windows
<1>2. doomed' \in [File -> BOOLEAN]  BY <1>1 DEF IInv, Typed
<1> QED BY <1>1, <1>2, StillStep DEF IInv, Typed

LEMMA SetInfo_IInv ==
    ASSUME IInv, NEW a \in Actor, NEW p \in Process \cup {NoProcess}, NEW here, NEW there,
           SetInfo(a, p, here, there), Still(here, there)
    PROVE  IInv'
BY StillStep DEF SetInfo, fileVars, IInv, Typed

LEMMA Pure_IInv ==
    ASSUME IInv, NEW a \in Actor, NEW here, NEW there,
           Jump(a, here, there), Pure, Still(here, there)
    PROVE  IInv'
BY StillStep DEF Jump, Pure, fileVars, IInv, Typed

LEMMA Entry_IInv ==
    ASSUME IInv, NEW a \in Actor, NEW here, NEW there, NEW b \in Actor \cup {NoActor},
           Jump(a, here, there), Still(here, there), owners' = [owners EXCEPT ![Mine(a)] = b],
           UNCHANGED <<after, info, fileVars>>
    PROVE  IInv'
<1>1. owners' \in [Process -> Actor \cup {NoActor}]  BY DEF IInv, Typed
<1> QED BY <1>1, StillStep DEF Jump, fileVars, IInv, Typed

LEMMA CompareAndDelete_IInv ==
    ASSUME IInv, NEW a \in Actor, NEW here, NEW there,
           Jump(a, here, there), Still(here, there), CompareAndDelete(a),
           UNCHANGED <<after, info, fileVars>>
    PROVE  IInv'
<1>1. owners' \in [Process -> Actor \cup {NoActor}]  BY DEF CompareAndDelete, IInv, Typed
<1> QED BY <1>1, StillStep DEF Jump, fileVars, IInv, Typed
-----------------------------------------------------------------------------
(* Each operation keeps the invariant.                                     *)

LEMMA TryAcquire_IInv ==
    ASSUME IInv, NEW a \in Actor, TryAcquire(a)
    PROVE  IInv'
<1>1. CASE /\ Jump(a, "idle", "acqOpen")
           /\ owners' = [owners EXCEPT ![Mine(a)] = a]
           /\ UNCHANGED <<after, info, fileVars>>
  BY <1>1, Entry_IInv DEF Takes, Still, Status, OpenAt, LockedAt, File
<1>2. CASE TryOpen(a, "lease", FALSE, "acqOpen", "acqLock", "acqRefused")
  <2>1. /\ Takes("acqOpen", "acqLock", "lease", "closed", "open")
        /\ Still("acqOpen", "acqRefused") /\ "lease" \in File
    BY DEF Takes, Still, Status, OpenAt, LockedAt, File
  <2> QED BY ONLY <1>2, <2>1, IInv, TryOpen_IInv, Zenon
<1>3. CASE TryLock(a, "lease", "acqLock", "acqInfo", "acqRefused")
  BY <1>3, TryLock_IInv DEF Takes, Still, Status, OpenAt, LockedAt, File
<1>4. CASE /\ Jump(a, "acqRefused", "idle")
           /\ CompareAndDelete(a)
           /\ UNCHANGED <<after, info, fileVars>>
  BY <1>4, CompareAndDelete_IInv DEF Takes, Still, Status, OpenAt, LockedAt, File
<1>5. CASE SetInfo(a, Mine(a), "acqInfo", "held")
  BY <1>5, SetInfo_IInv, HomeAssumption DEF Mine, Takes, Still, Status, OpenAt, LockedAt, File
<1>6. CASE Jump(a, "acqInfo", "release") /\ Pure
  BY <1>6, Pure_IInv DEF Takes, Still, Status, OpenAt, LockedAt, File
<1> QED BY <1>1, <1>2, <1>3, <1>4, <1>5, <1>6 DEF TryAcquire

LEMMA TryReclaim_IInv ==
    ASSUME IInv, NEW a \in Actor, TryReclaim(a)
    PROVE  IInv'
<1>1. CASE Jump(a, "idle", "recOpen") /\ Pure
  BY <1>1, Pure_IInv DEF Takes, Still, Status, OpenAt, LockedAt, File
<1>2. CASE TryOpen(a, "lease", FALSE, "recOpen", "recLock", "idle")
  <2>1. /\ Takes("recOpen", "recLock", "lease", "closed", "open")
        /\ Still("recOpen", "idle") /\ "lease" \in File
    BY DEF Takes, Still, Status, OpenAt, LockedAt, File
  <2> QED BY ONLY <1>2, <2>1, IInv, TryOpen_IInv, Zenon
<1>3. CASE TryLock(a, "lease", "recLock", "recStore", "idle")
  BY <1>3, TryLock_IInv DEF Takes, Still, Status, OpenAt, LockedAt, File
<1>4. CASE /\ Jump(a, "recStore", "acqInfo")
           /\ owners' = [owners EXCEPT ![Mine(a)] = a]
           /\ UNCHANGED <<after, info, fileVars>>
  BY <1>4, Entry_IInv DEF Takes, Still, Status, OpenAt, LockedAt, File
<1> QED BY <1>1, <1>2, <1>3, <1>4 DEF TryReclaim

LEMMA RemovalGuard_IInv ==
    ASSUME IInv, Windows, NEW a \in Actor, RemovalGuard(a)
    PROVE  IInv'
<1>1. CASE Jump(a, "idle", "guardOpen") /\ Pure
  BY <1>1, Pure_IInv DEF Takes, Still, Status, OpenAt, LockedAt, File
<1>2. CASE TryOpen(a, "lease", TRUE, "guardOpen", "guardLock", "idle")
  <2>1. /\ Takes("guardOpen", "guardLock", "lease", "closed", "open")
        /\ Still("guardOpen", "idle") /\ "lease" \in File
    BY DEF Takes, Still, Status, OpenAt, LockedAt, File
  <2> QED BY ONLY <1>2, <2>1, IInv, TryOpen_IInv, Zenon
<1>3. CASE TryLock(a, "lease", "guardLock", "guardOpenSave", "idle")
  BY <1>3, TryLock_IInv DEF Takes, Still, Status, OpenAt, LockedAt, File
<1>4. CASE TryOpen(a, "save", TRUE, "guardOpenSave", "guardLockSave", "guardUndo")
  <2>1. /\ Takes("guardOpenSave", "guardLockSave", "save", "closed", "open")
        /\ Still("guardOpenSave", "guardUndo") /\ "save" \in File
    BY DEF Takes, Still, Status, OpenAt, LockedAt, File
  <2> QED BY ONLY <1>4, <2>1, IInv, TryOpen_IInv, Zenon
<1>5. CASE TryLock(a, "save", "guardLockSave", "guard", "guardUndo")
  BY <1>5, TryLock_IInv DEF Takes, Still, Status, OpenAt, LockedAt, File
<1>6. CASE Unlock(a, "lease", "guardUndo", "idle")
  BY <1>6, Unlock_IInv DEF Takes, Still, Status, OpenAt, LockedAt, File
<1>7. CASE Unlock(a, "save", "guard", "guardUndo")
  BY <1>7, Unlock_IInv DEF Takes, Still, Status, OpenAt, LockedAt, File
<1>8. CASE SetInfo(a, NoProcess, "guard", "rmSave")
  BY <1>8, SetInfo_IInv DEF Takes, Still, Status, OpenAt, LockedAt, File
<1>9. CASE RemoveName(a, "save", "rmSave", "rmSaveUnlock")
  BY <1>9, Remove_IInv DEF Takes, Still, Status, OpenAt, LockedAt, File
<1>10. CASE Unlock(a, "save", "rmSaveUnlock", "rmLease")
  BY <1>10, Unlock_IInv DEF Takes, Still, Status, OpenAt, LockedAt, File
<1>11. CASE RemoveName(a, "lease", "rmLease", "rmLeaseUnlock")
  BY <1>11, Remove_IInv DEF Takes, Still, Status, OpenAt, LockedAt, File
<1>12. CASE Unlock(a, "lease", "rmLeaseUnlock", "idle")
  BY <1>12, Unlock_IInv DEF Takes, Still, Status, OpenAt, LockedAt, File
<1> QED BY <1>1, <1>2, <1>3, <1>4, <1>5, <1>6, <1>7, <1>8, <1>9, <1>10, <1>11, <1>12
     DEF RemovalGuard, GuardSaveLock, GuardUndo

LEMMA Save_IInv ==
    ASSUME IInv, NEW a \in Actor, Save(a)
    PROVE  IInv'
<1>1. CASE Jump(a, "idle", "saveOpen") /\ Pure
  BY <1>1, Pure_IInv DEF Takes, Still, Status, OpenAt, LockedAt, File
<1>2. CASE TryOpen(a, "save", FALSE, "saveOpen", "saveLock", "idle")
  <2>1. /\ Takes("saveOpen", "saveLock", "save", "closed", "open")
        /\ Still("saveOpen", "idle") /\ "save" \in File
    BY DEF Takes, Still, Status, OpenAt, LockedAt, File
  <2> QED BY ONLY <1>2, <2>1, IInv, TryOpen_IInv, Zenon
<1>3. CASE TryLock(a, "save", "saveLock", "saving", "idle")
  BY <1>3, TryLock_IInv DEF Takes, Still, Status, OpenAt, LockedAt, File
<1>4. CASE Unlock(a, "save", "saving", "idle")
  BY <1>4, Unlock_IInv DEF Takes, Still, Status, OpenAt, LockedAt, File
<1> QED BY <1>1, <1>2, <1>3, <1>4 DEF Save

LEMMA SweepInfo_IInv ==
    ASSUME IInv, NEW a \in Actor, SweepInfo(a)
    PROVE  IInv'
<1>1. CASE \E q \in {"infoRemove", "infoOpen"} : Jump(a, "idle", q) /\ Pure
  BY <1>1, Pure_IInv DEF Takes, Still, Status, OpenAt, LockedAt, File
<1>2. CASE SetInfo(a, NoProcess, "infoRemove", "idle")
  BY <1>2, SetInfo_IInv DEF Takes, Still, Status, OpenAt, LockedAt, File
<1>3. CASE TryOpen(a, "lease", FALSE, "infoOpen", "infoLock", "idle")
  <2>1. /\ Takes("infoOpen", "infoLock", "lease", "closed", "open")
        /\ Still("infoOpen", "idle") /\ "lease" \in File
    BY DEF Takes, Still, Status, OpenAt, LockedAt, File
  <2> QED BY ONLY <1>3, <2>1, IInv, TryOpen_IInv, Zenon
<1>4. CASE TryLock(a, "lease", "infoLock", "infoClean", "idle")
  BY <1>4, TryLock_IInv DEF Takes, Still, Status, OpenAt, LockedAt, File
<1>5. CASE SetInfo(a, NoProcess, "infoClean", "infoUnlock")
  BY <1>5, SetInfo_IInv DEF Takes, Still, Status, OpenAt, LockedAt, File
<1>6. CASE Unlock(a, "lease", "infoUnlock", "idle")
  BY <1>6, Unlock_IInv DEF Takes, Still, Status, OpenAt, LockedAt, File
<1> QED BY <1>1, <1>2, <1>3, <1>4, <1>5, <1>6 DEF SweepInfo

LEMMA Release_IInv ==
    ASSUME IInv, Windows, NEW a \in Actor, Release(a)
    PROVE  IInv'
<1>1. CASE Jump(a, "held", "release") /\ Pure
  BY <1>1, Pure_IInv DEF Takes, Still, Status, OpenAt, LockedAt, File
<1>2. CASE SetInfo(a, NoProcess, "release", "relUnlock")
  BY <1>2, SetInfo_IInv DEF Takes, Still, Status, OpenAt, LockedAt, File
<1>3. CASE Unlock(a, "lease", "relUnlock", "relDelete")
  BY <1>3, Unlock_IInv DEF Takes, Still, Status, OpenAt, LockedAt, File
<1>4. CASE /\ Jump(a, "relDelete", "retLease")
           /\ CompareAndDelete(a)
           /\ UNCHANGED <<after, info, fileVars>>
  BY <1>4, CompareAndDelete_IInv DEF Takes, Still, Status, OpenAt, LockedAt, File
<1>5. CASE \E q \in {"retSave", "retOpen"} : Jump(a, "retLease", q) /\ Pure
  BY <1>5, Pure_IInv DEF Takes, Still, Status, OpenAt, LockedAt, File
<1>6. CASE TryOpen(a, "lease", TRUE, "retOpen", "retLock", "retSave")
  <2>1. /\ Takes("retOpen", "retLock", "lease", "closed", "open")
        /\ Still("retOpen", "retSave") /\ "lease" \in File
    BY DEF Takes, Still, Status, OpenAt, LockedAt, File
  <2> QED BY ONLY <1>6, <2>1, IInv, TryOpen_IInv, Zenon
<1>7. CASE TryLock(a, "lease", "retLock", "retUnlink", "retSave")
  BY <1>7, TryLock_IInv DEF Takes, Still, Status, OpenAt, LockedAt, File
<1>8. CASE RemoveName(a, "lease", "retUnlink", "retUnlock")
  BY <1>8, Remove_IInv DEF Takes, Still, Status, OpenAt, LockedAt, File
<1>9. CASE Unlock(a, "lease", "retUnlock", "retSave")
  BY <1>9, Unlock_IInv DEF Takes, Still, Status, OpenAt, LockedAt, File
<1>10. CASE Jump(a, "retSave", IF HeldLocally(a) THEN "idle" ELSE "probe")
           /\ after' = [after EXCEPT ![a] = "sweepOpen"] /\ UNCHANGED <<owners, info, fileVars>>
  <2>1. after' \in [Actor -> {"idle", "sweepOpen"}]  BY <1>10 DEF IInv, Typed
  <2>2. Still("retSave", "idle") /\ Still("retSave", "probe")  BY
     DEF Takes, Still, Status, OpenAt, LockedAt, File
  <2> QED BY <1>10, <2>1, <2>2, StillStep DEF Jump, fileVars, IInv, Typed
<1>11. CASE TryOpen(a, "save", TRUE, "sweepOpen", "sweepLock", "idle")
  <2>1. /\ Takes("sweepOpen", "sweepLock", "save", "closed", "open")
        /\ Still("sweepOpen", "idle") /\ "save" \in File
    BY DEF Takes, Still, Status, OpenAt, LockedAt, File
  <2> QED BY ONLY <1>11, <2>1, IInv, TryOpen_IInv, Zenon
<1>12. CASE TryLock(a, "save", "sweepLock", "sweepUnlink", "idle")
  BY <1>12, TryLock_IInv DEF Takes, Still, Status, OpenAt, LockedAt, File
<1>13. CASE RemoveName(a, "save", "sweepUnlink", "sweepUnlock")
  BY <1>13, Remove_IInv DEF Takes, Still, Status, OpenAt, LockedAt, File
<1>14. CASE Unlock(a, "save", "sweepUnlock", "idle")
  BY <1>14, Unlock_IInv DEF Takes, Still, Status, OpenAt, LockedAt, File
<1> QED BY <1>1, <1>2, <1>3, <1>4, <1>5, <1>6, <1>7, <1>8, <1>9, <1>10, <1>11, <1>12, <1>13, <1>14
     DEF Release

LEMMA Probe_IInv ==
    ASSUME IInv, NEW a \in Actor, Probe(a)
    PROVE  IInv'
<1>1. CASE Jump(a, "idle", "probe") /\ after' = [after EXCEPT ![a] = "idle"]
           /\ UNCHANGED <<owners, info, fileVars>>
  <2>1. after' \in [Actor -> {"idle", "sweepOpen"}]  BY <1>1 DEF IInv, Typed
  <2>2. Still("idle", "probe")  BY DEF Takes, Still, Status, OpenAt, LockedAt, File
  <2> QED BY <1>1, <2>1, <2>2, StillStep DEF Jump, fileVars, IInv, Typed
<1>2. CASE \E q \in {"idle", "sweepOpen", "probeInfo"} : Jump(a, "probe", q) /\ Pure
  BY <1>2, Pure_IInv DEF Takes, Still, Status, OpenAt, LockedAt, File
<1>3. CASE \E q \in {"idle", "sweepOpen", "probeOpen"} : Jump(a, "probeInfo", q) /\ Pure
  BY <1>3, Pure_IInv DEF Takes, Still, Status, OpenAt, LockedAt, File
<1>4. CASE TryOpen(a, "lease", FALSE, "probeOpen", "probeLock", "idle")
  <2>1. /\ Takes("probeOpen", "probeLock", "lease", "closed", "open")
        /\ Still("probeOpen", "idle") /\ "lease" \in File
    BY DEF Takes, Still, Status, OpenAt, LockedAt, File
  <2> QED BY ONLY <1>4, <2>1, IInv, TryOpen_IInv, Zenon
<1>5. CASE TryLock(a, "lease", "probeLock", "probeClean", "idle")
  BY <1>5, TryLock_IInv DEF Takes, Still, Status, OpenAt, LockedAt, File
<1>6. CASE SetInfo(a, NoProcess, "probeClean", "probeUnlock")
  BY <1>6, SetInfo_IInv DEF Takes, Still, Status, OpenAt, LockedAt, File
<1>7. CASE \E q \in {"idle", "sweepOpen"} : Unlock(a, "lease", "probeUnlock", q)
  BY <1>7, Unlock_IInv DEF Takes, Still, Status, OpenAt, LockedAt, File
<1>8. after[a] \in {"idle", "sweepOpen"}  BY DEF IInv, Typed
<1> QED BY <1>1, <1>2, <1>3, <1>4, <1>5, <1>6, <1>7, <1>8 DEF Probe

LEMMA Drop_IInv ==
    ASSUME IInv, NEW a \in Actor, Drop(a)
    PROVE  IInv'
<1>1. /\ Status("idle", "lease") = "closed"
      /\ \A g \in File \ {"lease"} : Status("idle", g) = Status("held", g)
  BY DEF Status, OpenAt, LockedAt, File
<1>2. "lease" \in File  BY DEF File
<1>3. /\ pc[a] = "held" /\ GoTo(a, "idle") /\ Close(a, "lease")
      /\ UNCHANGED <<after, owners, info>>
  BY DEF Drop, Jump
<1> QED BY <1>1, <1>2, <1>3, Close_IInv

(* A death closes handles; a name goes only when no living goroutine has   *)
(* the file open.                                                          *)
LEMMA Crash_IInv ==
    ASSUME IInv, NEW p \in Process, Crash(p)
    PROVE  IInv'
<1> DEFINE dead == {a \in Actor : ProcessOf[a] = p}
           gone == {f \in File : doomed[f] /\ Handles(f, inode[f]) \subseteq dead}
<1>1. /\ pc' = [a \in Actor |-> IF a \in dead THEN "idle" ELSE pc[a]]
      /\ fd' = [a \in Actor |-> IF a \in dead THEN [f \in File |-> NoFile] ELSE fd[a]]
      /\ owners' = [owners EXCEPT ![p] = NoActor]
      /\ inode' = [f \in File |-> IF f \in gone THEN 0 ELSE inode[f]]
      /\ doomed' = [f \in File |-> doomed[f] /\ f \notin gone]
      /\ UNCHANGED <<after, info>>
  BY DEF Crash
<1>2. \A a \in Actor \ dead, f \in gone : fd[a][f].inode = 0
  BY DEF IInv, OneFile, Handles
<1> HIDE DEF dead, gone
<1>3. NoFile \in Handle /\ NoFile.inode = 0 /\ ~ NoFile.locked /\ 0 \in Inode
  BY FiniteAssumption, FS_CardinalityType DEF NoFile, Handle, Inode
<1>4. \A f \in File : Status("idle", f) = "closed"  BY DEF Status, OpenAt, LockedAt, File
<1>5. \A a \in Actor : \/ pc'[a] = "idle" /\ \A f \in File : fd'[a][f] = NoFile
                       \/ a \notin dead /\ pc'[a] = pc[a] /\ fd'[a] = fd[a]
  BY <1>1
<1>6. Typed'
  <2>1. /\ fd' \in [Actor -> [File -> Handle]] /\ inode' \in [File -> Inode]
        /\ doomed' \in [File -> BOOLEAN]
    BY <1>1, <1>3 DEF IInv, Typed
  <2>2. owners' \in [Process -> Actor \cup {NoActor}] /\ pc' = [a \in Actor |-> pc'[a]]
    BY <1>1 DEF IInv, Typed
  <2> QED BY <1>1, <2>1, <2>2 DEF IInv, Typed
<1>7. Shaped'
  <2>1. ASSUME NEW a \in Actor, NEW f \in File
        PROVE  /\ fd'[a][f].inode # 0 <=> Status(pc'[a], f) # "closed"
               /\ fd'[a][f].locked <=> Status(pc'[a], f) = "locked"
               /\ fd'[a][f].inode = 0 => fd'[a][f] = NoFile
    <3>1. CASE pc'[a] = "idle" /\ fd'[a][f] = NoFile  BY <1>3, <1>4, <3>1
    <3>2. CASE pc'[a] = pc[a] /\ fd'[a] = fd[a]  BY <3>2 DEF IInv, Shaped
    <3> QED BY <1>5, <3>1, <3>2
  <2> QED BY <2>1 DEF Shaped, Status, OpenAt, LockedAt, NoFile
<1>8. OneFile'
  <2> SUFFICES ASSUME NEW a \in Actor, NEW f \in File, fd'[a][f].inode # 0
               PROVE  fd'[a][f].inode = inode'[f]
    BY DEF OneFile
  <2>1. a \notin dead /\ fd'[a] = fd[a]  BY <1>3, <1>5
  <2>2. f \notin gone  BY <1>2, <2>1
  <2> QED BY <1>1, <2>1, <2>2 DEF IInv, OneFile
<1>9. OneLock'
  <2>1. \A a \in Actor, f \in File : fd'[a][f].locked => fd[a][f].locked
    BY <1>3, <1>5
  <2> QED BY <2>1 DEF IInv, OneLock
<1> QED BY <1>6, <1>7, <1>8, <1>9 DEF IInv

LEMMA Next_IInv ==
    ASSUME IInv, Windows, [Next]_vars
    PROVE  IInv'
<1>1. ASSUME NEW a \in Actor,
             \/ TryAcquire(a) \/ TryReclaim(a) \/ Release(a) \/ Probe(a)
             \/ RemovalGuard(a) \/ Save(a) \/ SweepInfo(a) \/ Drop(a)
      PROVE  IInv'
  BY <1>1, TryAcquire_IInv, TryReclaim_IInv, Release_IInv, Probe_IInv, RemovalGuard_IInv,
     Save_IInv, SweepInfo_IInv, Drop_IInv
<1>2. ASSUME NEW p \in Process, Crash(p) PROVE IInv'  BY <1>2, Crash_IInv
<1>3. CASE UNCHANGED vars
  BY <1>3 DEF vars, fileVars, IInv, Typed, Shaped, OneFile, OneLock, Status, OpenAt,
              LockedAt, NoFile
<1> QED BY <1>1, <1>2, <1>3 DEF Next

(* On Windows the invariant holds in every state.                          *)
THEOREM Invariance == Spec => [](Windows => IInv)
<1>1. Init => (Windows => IInv)  BY Init_IInv
<1>2. (Windows => IInv) /\ [Next]_vars => (Windows => IInv)'
  <2>1. Windows' = Windows  BY DEF Windows
  <2> QED BY <2>1, Next_IInv
<1> QED BY <1>1, <1>2, PTL DEF Spec

(* Every variable keeps its shape, and no file is locked twice.            *)
THEOREM TypeCorrect == Spec => [](Windows => TypeOK)
<1>1. IInv => TypeOK
  <2> SUFFICES ASSUME IInv PROVE TypeOK  OBVIOUS
  <2>1. \A f \in File : \A a, b \in Actor :
            fd[a][f].locked /\ fd[b][f].locked /\ fd[a][f].inode = fd[b][f].inode => a = b
    BY DEF IInv, OneLock
  <2> QED BY <2>1 DEF IInv, Typed, TypeOK, Inode
<1> QED BY <1>1, Invariance, PTL

LEMMA Exclusive ==
    ASSUME IInv
    PROVE  LeaseExclusive
<1> SUFFICES ASSUME NEW a \in Actor, NEW b \in Actor, Holds(a), Holds(b) PROVE a = b
  BY DEF LeaseExclusive
<1>1. Status(pc[a], "lease") = "locked" /\ Status(pc[b], "lease") = "locked" /\ "lease" \in File
  BY DEF Holds, Status, LockedAt, File
<1> QED BY <1>1 DEF IInv, Shaped, OneLock

(* Two runtimes never have the session's lease at once.                    *)
THEOREM OneHolder == Spec => [](Windows => LeaseExclusive)
<1>1. IInv => LeaseExclusive  BY Exclusive
<1> QED BY <1>1, Invariance, PTL

(* A removal is alone with the session: no holder and no save.             *)
THEOREM RemovalIsAlone == Spec => [](Windows => RemovalAlone)
<1>1. IInv => RemovalAlone
  <2> SUFFICES ASSUME IInv, NEW a \in Actor, NEW b \in Actor, pc[a] = "guard",
                      Holds(b) \/ pc[b] = "saving"
               PROVE  FALSE
    BY DEF RemovalAlone
  <2>1. \A f \in File : Status(pc[a], f) = "locked"
    BY DEF Status, LockedAt, File
  <2>2. \E f \in File : Status(pc[b], f) = "locked"
    BY DEF Status, LockedAt, File, Holds
  <2>3. a = b  BY <2>1, <2>2 DEF IInv, Shaped, OneLock
  <2> QED BY <2>3 DEF Holds
<1> QED BY <1>1, Invariance, PTL

(* Whoever is done has closed every lock file.                             *)
THEOREM LocksAreFreed == Spec => [](Windows => NoLeakedLock)
<1>1. IInv => NoLeakedLock
  <2> SUFFICES ASSUME IInv, NEW a \in Actor, pc[a] = "idle"
               PROVE  fd[a] = [f \in File |-> NoFile]
    BY DEF NoLeakedLock
  <2>1. \A f \in File : Status("idle", f) = "closed"
    BY DEF Status, OpenAt, LockedAt, File
  <2>2. \A f \in File : fd[a][f] = NoFile  BY <2>1 DEF IInv, Shaped
  <2> QED BY <2>2 DEF IInv, Typed
<1> QED BY <1>1, Invariance, PTL

(* A registered holder keeps its entry: an acquire is refused while there  *)
(* is one, a release deletes only its own, and a reclaim has the lock.     *)
THEOREM EntryStays == Windows => (Spec => EntryIsKept)
<1> SUFFICES ASSUME Windows PROVE Spec => EntryIsKept  OBVIOUS
<1> DEFINE Kept == \A a \in Actor :
                       pc[a] = "held" /\ pc'[a] = "held" /\ owners[Mine(a)] = a
                           => owners'[Mine(a)] = a
<1>1. IInv /\ [Next]_vars => Kept
  <2> SUFFICES ASSUME IInv, [Next]_vars, NEW a \in Actor,
                      pc[a] = "held", pc'[a] = "held", owners[Mine(a)] = a
               PROVE  owners'[Mine(a)] = a
    OBVIOUS
  <2>1. CASE owners' = owners  BY <2>1
  <2>2. ASSUME NEW p \in Process, Crash(p) PROVE owners'[Mine(a)] = a
    <3>1. ProcessOf[a] # p  BY <2>2 DEF Crash
    <3> QED BY <2>2, <3>1 DEF Crash, Mine
  <2>3. ASSUME NEW b \in Actor,
               TryAcquire(b) \/ TryReclaim(b) \/ Release(b), owners' # owners
        PROVE  owners'[Mine(a)] = a
    <3>1. CASE ~ HeldLocally(b) /\ owners' = [owners EXCEPT ![Mine(b)] = b]
      <4>1. Mine(b) # Mine(a)  BY <3>1, NilAssumption DEF HeldLocally
      <4> QED BY <3>1, <4>1
    <3>2. CASE pc[b] \in {"acqRefused", "relDelete"} /\ CompareAndDelete(b)
      <4>1. a # b  BY <3>2
      <4> QED BY <3>2, <4>1, HomeAssumption DEF CompareAndDelete, Mine, IInv, Typed
    <3>3. pc[b] # "recStore"
      <4> SUFFICES ASSUME pc[b] = "recStore" PROVE FALSE  OBVIOUS
      <4>1. Holds(a) /\ Holds(b)  BY DEF Holds
      <4> QED BY <4>1, Exclusive DEF LeaseExclusive
    <3> QED BY <2>3, <3>1, <3>2, <3>3
            DEF TryAcquire, TryReclaim, Release, TryOpen, TryLock, Unlock, RemoveName, SetInfo,
                Jump, Pure
  <2>4. ASSUME NEW b \in Actor,
               Probe(b) \/ RemovalGuard(b) \/ Save(b) \/ SweepInfo(b) \/ Drop(b)
        PROVE  owners' = owners
    BY <2>4 DEF Probe, RemovalGuard, Save, SweepInfo, Drop, GuardSaveLock, GuardUndo,
                TryOpen, TryLock, Unlock, RemoveName, SetInfo, Jump, Pure
  <2> QED BY <2>1, <2>2, <2>3, <2>4 DEF Next, vars
<1>2. Spec => [](Windows => IInv)  BY Invariance
<1>3. Spec => []IInv  BY <1>2, PTL
<1>4. Spec => [][Kept]_vars  BY <1>1, <1>3, PTL DEF Spec
<1> QED BY <1>4 DEF EntryIsKept

-----------------------------------------------------------------------------
(* SessionSave.                                                            *)

(* The inductive invariant.                                                *)
Path == Seq([digest : Text, writer : Runtime \cup {NoRuntime}])

Transcript == Text \cup {NoTranscript}

FileRecord == [head : {"none", "native", "foreign"}, log : Text, torn : BOOLEAN,
               anchor : Transcript]

BaseRecord == [ok : BOOLEAN, path : Path, digest : Transcript, revision : Nat,
               verified : BOOLEAN]

(* What a save may still have to write.                                    *)
Plan == {<<"mark">>, <<"record">>, <<"append", "record">>, <<"anchor", "record">>,
         <<"append", "anchor", "record">>, <<"compact", "anchor", "record">>,
         <<"meta">>, <<"anchor", "meta">>, <<"append", "anchor", "meta">>}

JobRecord == [mode : {"none", "snapshot", "rewrite", "force"},
              caller : {"none", "open", "snapshot", "rewind", "cancel"},
              shutdown : BOOLEAN, path : Path,
              kind : {"none", "stale prefix", "diverged"},
              msgs : Text, todo : Plan \cup {<<>>}]

Stage == {"off", "loading", "idle", "save", "writing", "conflict", "adopt", "copy"}

VariablesTyped ==
    /\ mem \in [Runtime -> Text]
    /\ edited \in [Runtime -> SUBSET Moments] /\ rewritten \in [Runtime -> SUBSET Moments]
    /\ persisted \in [Runtime -> BaseRecord]
    /\ path \in [Runtime -> Path]
    /\ stage \in [Runtime -> Stage]
    /\ job \in [Runtime -> JobRecord]
    /\ matching \subseteq Runtime /\ compacting \subseteq Runtime
    /\ edits \in 0..MaxEdit /\ started \in 0..MaxStart /\ faults \in 0..MaxFault

(* Only a log can be torn, and a revision is recorded of a file that is.   *)
FileSound(p) ==
    /\ Files(p) \in FileRecord /\ (Files(p).torn => Files(p).head = "native")
    /\ Digests(p) \in Seq(Text) /\ (Digests(p) # <<>> => Stored(p) # NoTranscript)

FilesSound ==
    /\ main \in DOMAIN disk /\ DOMAIN disk \subseteq Path
    /\ \A p \in DOMAIN disk \cup DOMAIN ledger : FileSound(p)

(* The locks of a file.                                                    *)
OneWriter == \A r, s \in Runtime :
    stage[r] = "writing" /\ stage[s] = "writing" /\ job[r].path = job[s].path => r = s

(* A save may write what it captured: there is no transcript yet, or it is *)
(* continued, or it is the one the runtime has read or written last.       *)
Authorised(b, j) ==
    \/ Stored(j.path) = NoTranscript \/ IsPrefix(Stored(j.path), j.msgs)
    \/ b.ok /\ b.path = j.path /\ b.digest = Stored(j.path)

(* What it writes brings back nothing it knows to have been removed.       *)
BringsNothingBack(b, j) ==
    b.path = j.path /\ Sound(b) =>
       Removed(j.path) \cap Messages(b.digest) \cap Messages(j.msgs)
          \subseteq Messages(Stored(j.path))

(* A save that writes, and what the files hold by then.                    *)
WriteSound(p, b, j) ==
    /\ j.todo \in Plan
    /\ Last(j.todo) = "meta" => j.path # main
    /\ Last(j.todo) # "meta" =>
          /\ j.path = p /\ ~ Files(j.path).torn
          /\ j.mode = "force" => j.path # main
          /\ j.mode # "force" => Authorised(b, j) /\ BringsNothingBack(b, j)
    /\ Head(j.todo) = "anchor" =>
          Files(j.path).torn \/ Files(j.path).head # "native" \/ Files(j.path).log = j.msgs
    /\ Head(j.todo) \in {"mark", "record", "meta"} =>
          Files(j.path).torn \/ Stored(j.path) = j.msgs
    /\ Head(j.todo) = "mark" => LedgerDigest(j.path) \in {NoTranscript, j.msgs}

(* The baseline b of a runtime at path p is the transcript in memory while *)
(* that is not edited, and that of the files while their stamps match.     *)
BaseSound(r, p, b) ==
    /\ p \in DOMAIN disk /\ b.path \in DOMAIN disk
    /\ ~ b.ok => b.revision = 0
    /\ "saved" \notin edited[r] /\ b.ok => mem[r] = b.digest
    /\ r \in matching /\ b.ok /\ Readable(b.path) => Stored(b.path) = b.digest

(* The snapshot j it works on.                                             *)
JobSound(r, p, b, j) ==
    /\ stage[r] \in {"off", "idle"} <=> j = NoJob
    /\ stage[r] \in {"writing", "copy"} /\ "captured" \notin edited[r] => mem[r] = j.msgs
    /\ stage[r] = "loading" => j.path \in DOMAIN disk
    /\ stage[r] \in {"save", "conflict", "adopt"} =>
          j.path = p /\ j.mode # "none" /\ (j.mode = "force" => p # main)
    /\ stage[r] \in {"conflict", "adopt"} => Stored(p) # NoTranscript
    /\ stage[r] = "copy" => j.path # main
    /\ stage[r] = "writing" => WriteSound(p, b, j)

RuntimeSound(r) == \A p \in {path[r]}, b \in {persisted[r]}, j \in {job[r]} :
    BaseSound(r, p, b) /\ JobSound(r, p, b, j)

SaveInv == VariablesTyped /\ FilesSound /\ OneWriter /\ \A r \in Runtime : RuntimeSound(r)

-----------------------------------------------------------------------------
(* Lemmas about the operators of the model.                                *)
LEMMA NoTextIsNone == NoTranscript \notin Text
BY DEF NoTranscript, Text

LEMMA PartOfSequence ==
    ASSUME NEW S, NEW t \in Seq(S), NEW m \in Nat \ {0}, NEW n \in 0..Len(t)
    PROVE  SubSeq(t, m, n) \in Seq(S)
<1>1. \A i \in m..n : t[i] \in S
  <2> SUFFICES ASSUME NEW i \in m..n PROVE t[i] \in S  OBVIOUS
  <2>1. i \in 1..Len(t)  OBVIOUS
  <2> QED BY <2>1, ElementOfSeq
<1> QED BY <1>1, SubSeqProperties

LEMMA PartOfText ==
    ASSUME NEW t \in Text, NEW m \in Nat \ {0}, NEW n \in 0..Len(t)
    PROVE  SubSeq(t, m, n) \in Text
BY PartOfSequence DEF Text

LEMMA MainIsPath == main \in Path /\ Len(main) = 0
BY DEF main, Path

LEMMA CopyPath ==
    ASSUME NEW p \in Path, NEW t \in Text, NEW w \in Runtime \cup {NoRuntime}
    PROVE  RecoveryPath(p, t, w) \in Path /\ RecoveryPath(p, t, w) # main
<1> DEFINE c == [digest |-> t, writer |-> w]
<1>1. c \in [digest : Text, writer : Runtime \cup {NoRuntime}]  OBVIOUS
<1> HIDE DEF c
<1>2. Append(p, c) \in Path /\ Len(Append(p, c)) = Len(p) + 1 /\ Len(p) \in Nat
  BY <1>1 DEF Path
<1>3. RecoveryPath(p, t, w) = Append(p, c)  BY DEF RecoveryPath, c
<1> QED BY <1>2, <1>3, MainIsPath

LEMMA OneLeft == ASSUME NEW x PROVE <<x>> # <<>> /\ Head(<<x>>) = x /\ Last(<<x>>) = x
BY DEF Last

LEMMA TwoLeft ==
    ASSUME NEW x, NEW y
    PROVE  /\ <<x, y>> # <<>> /\ Head(<<x, y>>) = x /\ Last(<<x, y>>) = y
           /\ Tail(<<x, y>>) = <<y>>
BY DEF Last

(* What is left to write, and what is written last.                        *)
LEMMA PlanShape ==
    ASSUME NEW t \in Plan
    PROVE  /\ t # <<>>
           /\ Head(t) \in {"append", "compact", "anchor", "mark", "record", "meta"}
           /\ Last(t) \in {"mark", "record", "meta"}
           /\ Head(t) \in {"append", "compact", "anchor"} =>
                 /\ Tail(t) \in Plan /\ Last(Tail(t)) = Last(t)
                 /\ Head(Tail(t)) \in {"anchor", "record", "meta"}
                 /\ Head(t) = "anchor" => Head(Tail(t)) \in {"record", "meta"}
           /\ Head(t) \in {"mark", "record", "meta"} => Last(t) = Head(t)
           /\ Last(t) = "mark" => Head(t) = "mark"
<1>1. ASSUME NEW x \in {"mark", "record", "meta"}, t = <<x>>
      PROVE  Head(t) = x /\ Last(t) = x /\ t # <<>>
  BY <1>1, OneLeft
<1>2. ASSUME NEW x \in {"append", "anchor"}, NEW y \in {"record", "meta"}, t = <<x, y>>,
             <<y>> \in Plan
      PROVE  /\ Head(t) = x /\ Last(t) = y /\ t # <<>> /\ Tail(t) \in Plan
             /\ Head(Tail(t)) = y /\ Last(Tail(t)) = y
  <2>1. /\ <<x, y>> # <<>> /\ Head(<<x, y>>) = x /\ Last(<<x, y>>) = y
        /\ Tail(<<x, y>>) = <<y>>
    BY TwoLeft, Zenon
  <2>2. Head(<<y>>) = y /\ Last(<<y>>) = y  BY OneLeft, Zenon
  <2> QED BY <1>2, <2>1, <2>2, Zenon
<1>3. ASSUME NEW x \in {"append", "compact"}, NEW y \in {"record", "meta"},
             t = <<x, "anchor", y>>, <<"anchor", y>> \in Plan
      PROVE  /\ Head(t) = x /\ Last(t) = y /\ t # <<>> /\ Tail(t) \in Plan
             /\ Head(Tail(t)) = "anchor" /\ Last(Tail(t)) = y
  <2>1. /\ <<x, "anchor", y>> # <<>> /\ Head(<<x, "anchor", y>>) = x
        /\ Last(<<x, "anchor", y>>) = y /\ Tail(<<x, "anchor", y>>) = <<"anchor", y>>
    BY DEF Last
  <2>2. Head(<<"anchor", y>>) = "anchor" /\ Last(<<"anchor", y>>) = y  BY TwoLeft, Zenon
  <2> QED BY <1>3, <2>1, <2>2, Zenon
<1>4. \A y \in {"record", "meta"} : <<y>> \in Plan /\ <<"anchor", y>> \in Plan
  BY DEF Plan
<1>5. CASE \E x \in {"mark", "record", "meta"} : t = <<x>>  BY <1>1, <1>5
<1>6. CASE \E x \in {"append", "anchor"}, y \in {"record", "meta"} : t = <<x, y>>
  BY <1>2, <1>4, <1>6
<1>7. CASE \E x \in {"append", "compact"}, y \in {"record", "meta"} : t = <<x, "anchor", y>>
  BY <1>3, <1>4, <1>7
<1> QED BY <1>5, <1>6, <1>7 DEF Plan

LEMMA PlansWritten ==
    /\ <<"mark">> \in Plan /\ Head(<<"mark">>) = "mark" /\ Last(<<"mark">>) = "mark"
    /\ <<"record">> \in Plan /\ Head(<<"record">>) = "record" /\ Last(<<"record">>) = "record"
    /\ <<"anchor", "record">> \in Plan /\ Head(<<"anchor", "record">>) = "anchor"
    /\ Last(<<"anchor", "record">>) = "record"
    /\ <<"append", "record">> \in Plan /\ Head(<<"append", "record">>) = "append"
    /\ Last(<<"append", "record">>) = "record"
    /\ <<"append", "anchor", "record">> \in Plan
    /\ Head(<<"append", "anchor", "record">>) = "append"
    /\ Last(<<"append", "anchor", "record">>) = "record"
    /\ <<"compact", "anchor", "record">> \in Plan
    /\ Head(<<"compact", "anchor", "record">>) = "compact"
    /\ Last(<<"compact", "anchor", "record">>) = "record"
    /\ <<"meta">> \in Plan /\ Head(<<"meta">>) = "meta" /\ Last(<<"meta">>) = "meta"
    /\ <<"anchor", "meta">> \in Plan /\ Head(<<"anchor", "meta">>) = "anchor"
    /\ Last(<<"anchor", "meta">>) = "meta"
    /\ <<"append", "anchor", "meta">> \in Plan
    /\ Head(<<"append", "anchor", "meta">>) = "append"
    /\ Last(<<"append", "anchor", "meta">>) = "meta"
BY DEF Plan, Last

LEMMA PrefixOfItself == ASSUME NEW t \in Text PROVE IsPrefix(t, t)
BY DEF IsPrefix, Text

(* Between two prefixes of one text, the longer has the shorter.           *)
LEMMA PrefixesAgree ==
    ASSUME NEW s \in Text, NEW t \in Text, NEW u \in Text,
           IsPrefix(s, u), IsPrefix(t, u), Len(s) <= Len(t)
    PROVE  Messages(s) \subseteq Messages(t)
<1>1. ASSUME NEW i \in DOMAIN s PROVE i \in DOMAIN t /\ s[i] = t[i]
  <2>1. i \in 1..Len(s) /\ i \in 1..Len(t) /\ DOMAIN t = 1..Len(t)  BY <1>1 DEF Text
  <2>2. SubSeq(s, 1, Len(s))[i] = s[i] /\ SubSeq(u, 1, Len(s))[i] = u[i]
    BY <2>1, <1>1 DEF IsPrefix, Text
  <2>3. SubSeq(t, 1, Len(t))[i] = t[i] /\ SubSeq(u, 1, Len(t))[i] = u[i]
    BY <2>1, <1>1 DEF IsPrefix, Text
  <2> QED BY <2>1, <2>2, <2>3 DEF IsPrefix
<1> QED BY <1>1 DEF Messages

(* Every path has sound files, the ones not made yet too.                  *)
LEMMA EveryFileSound == ASSUME FilesSound, NEW p PROVE FileSound(p)
<1>1. CASE p \in DOMAIN disk \cup DOMAIN ledger  BY <1>1 DEF FilesSound
<1>2. CASE p \notin DOMAIN disk \cup DOMAIN ledger
  <2>1. Files(p) = EmptyFile /\ Digests(p) = <<>>  BY <1>2 DEF Files, Digests
  <2>2. EmptyFile \in FileRecord /\ ~ EmptyFile.torn
    BY DEF EmptyFile, FileRecord, Transcript, Text
  <2>3. <<>> \in Seq(Text)  OBVIOUS
  <2> QED BY <2>1, <2>2, <2>3 DEF FileSound
<1> QED BY <1>1, <1>2

LEMMA StoredShape ==
    ASSUME NEW p, Files(p) \in FileRecord
    PROVE  /\ Stored(p) \in Transcript
           /\ Stored(p) # NoTranscript => Stored(p) \in Text /\ p \in DOMAIN disk
BY DEF Stored, FileRecord, Transcript, Files, EmptyFile

LEMMA NothingTyped == NoJob \in JobRecord /\ NoBase \in BaseRecord
BY MainIsPath DEF NoJob, JobRecord, NoBase, BaseRecord, Text, Transcript

-----------------------------------------------------------------------------
(* The initial states.                                                     *)
LEMMA InitSound == SaveInit => SaveInv
<1> SUFFICES ASSUME SaveInit PROVE SaveInv  OBVIOUS
<1>1. PICK file \in {EmptyFile, [EmptyFile EXCEPT !.anchor = <<1>>],
                     [EmptyFile EXCEPT !.head = "native", !.log = <<1>>, !.anchor = <<1>>]} :
         /\ disk = [p \in {main} |-> file]
         /\ ledger = [p \in {main} |-> IF file = EmptyFile THEN <<>> ELSE <<(<<1>>)>>]
         /\ edits = IF file = EmptyFile THEN 0 ELSE 1
  BY DEF SaveInit
<1>2. <<1>> \in Text /\ <<>> \in Text /\ <<1>> # NoTranscript /\ <<1>> \in Seq(Nat)
  BY BoundAssumption DEF Text, NoTranscript
<1>3. EmptyFile \in FileRecord  BY <1>2 DEF EmptyFile, FileRecord, Transcript
<1>4. file \in FileRecord /\ ~ file.torn
  BY <1>2, <1>3 DEF EmptyFile, FileRecord, Transcript
<1>5. VariablesTyped
  <2>1. edits \in 0..MaxEdit /\ started \in 0..MaxStart /\ faults \in 0..MaxFault
    BY <1>1, BoundAssumption DEF SaveInit
  <2> QED BY <2>1, <1>2, NothingTyped, MainIsPath DEF SaveInit, VariablesTyped, Stage
<1>6. Files(main) = file /\ DOMAIN disk = {main} /\ DOMAIN ledger = {main}
  BY <1>1 DEF Files
<1>7. FileSound(main)
  <2>1. CASE file = EmptyFile
    <3>1. Digests(main) = <<>>  BY <2>1, <1>1 DEF Digests
    <3> QED BY <3>1, <1>4, <1>6 DEF FileSound
  <2>2. CASE file # EmptyFile
    <3>1. Digests(main) = <<(<<1>>)>>  BY <2>2, <1>1 DEF Digests
    <3>2. Stored(main) = <<1>>  BY <2>2, <1>1, <1>6 DEF Stored, EmptyFile
    <3>3. <<(<<1>>)>> \in Seq(Text)  BY <1>2
    <3> QED BY <3>1, <3>2, <3>3, <1>2, <1>4, <1>6 DEF FileSound
  <2> QED BY <2>1, <2>2
<1>8. FilesSound  BY <1>6, <1>7, MainIsPath DEF FilesSound
<1>9. OneWriter  BY DEF SaveInit, OneWriter
<1>10. ASSUME NEW r \in Runtime PROVE RuntimeSound(r)
  <2>1. path[r] = main /\ persisted[r] = NoBase /\ job[r] = NoJob /\ stage[r] = "off"
        /\ r \notin matching
    BY DEF SaveInit
  <2>2. BaseSound(r, main, NoBase)  BY <2>1, <1>6 DEF BaseSound, NoBase
  <2>3. JobSound(r, main, NoBase, NoJob)  BY <2>1 DEF JobSound
  <2> QED BY <2>1, <2>2, <2>3 DEF RuntimeSound
<1> QED BY <1>5, <1>8, <1>9, <1>10 DEF SaveInv

-----------------------------------------------------------------------------
(* What a step of runtime r that touches the files of q leaves alone.      *)
Untouched(s) == /\ mem'[s] = mem[s] /\ edited'[s] = edited[s] /\ persisted'[s] = persisted[s]
            /\ path'[s] = path[s] /\ stage'[s] = stage[s] /\ job'[s] = job[s]

Keeps(x) == Files(x)' = Files(x) /\ Digests(x)' = Digests(x)

Touches(q) ==
    /\ \A x : x # q => Keeps(x)
    /\ DOMAIN disk \subseteq DOMAIN disk'
    /\ Stored(q) # NoTranscript => Stored(q)' # NoTranscript

Stamps(r, q) == \A s \in matching' : s # r =>
    s \in matching /\ (Files(q)' = Files(q) \/ persisted[s].path # q)

Alone(r, q) ==
    Keeps(q) \/ \A s \in Runtime : s # r /\ stage[s] = "writing" => job[s].path # q

LEMMA KeptFile ==
    ASSUME NEW x, Keeps(x)
    PROVE  /\ Stored(x)' = Stored(x) /\ Readable(x)' = Readable(x)
           /\ LedgerDigest(x)' = LedgerDigest(x) /\ Removed(x)' = Removed(x)
           /\ Revision(x)' = Revision(x)
<1>1. Files(x)' = Files(x) /\ Digests(x)' = Digests(x)  BY DEF Keeps
<1> QED BY <1>1 DEF Stored, Readable, LedgerDigest, Removed, Recalled, Revision

LEMMA KeptStored ==
    ASSUME NEW x, Files(x)' = Files(x)
    PROVE  Stored(x)' = Stored(x) /\ Readable(x)' = Readable(x)
BY DEF Stored, Readable

LEMMA TouchedStored ==
    ASSUME NEW q, Touches(q), NEW x, Stored(x) # NoTranscript
    PROVE  Stored(x)' # NoTranscript
<1>1. CASE x = q  BY <1>1 DEF Touches
<1>2. CASE x # q
  <2>1. Keeps(x)  BY <1>2 DEF Touches
  <2> QED BY <2>1, KeptFile
<1> QED BY <1>1, <1>2

LEMMA WriteKept ==
    ASSUME NEW p, NEW b, NEW j, WriteSound(p, b, j), Keeps(j.path)
    PROVE  WriteSound(p, b, j)'
<1>1. /\ Stored(j.path)' = Stored(j.path) /\ LedgerDigest(j.path)' = LedgerDigest(j.path)
      /\ Removed(j.path)' = Removed(j.path)
  BY KeptFile
<1>2. Files(j.path)' = Files(j.path) /\ Digests(j.path)' = Digests(j.path)  BY DEF Keeps
<1>3. b.path = j.path => (Sound(b)' <=> Sound(b))  BY <1>2 DEF Sound
<1>4. Authorised(b, j) => Authorised(b, j)'  BY <1>1 DEF Authorised
<1>5. BringsNothingBack(b, j) => BringsNothingBack(b, j)'
  BY <1>1, <1>3 DEF BringsNothingBack
<1> QED BY <1>1, <1>2, <1>4, <1>5 DEF WriteSound

LEMMA BaseKept ==
    ASSUME NEW q, Touches(q), NEW s, NEW p, NEW b, BaseSound(s, p, b),
           "saved" \notin edited'[s] => "saved" \notin edited[s] /\ mem'[s] = mem[s],
           s \in matching' => s \in matching /\ (Files(q)' = Files(q) \/ b.path # q)
    PROVE  BaseSound(s, p, b)'
<1>1. p \in DOMAIN disk' /\ b.path \in DOMAIN disk'  BY DEF Touches, BaseSound
<1>2. ~ b.ok => b.revision = 0  BY DEF BaseSound
<1>3. "saved" \notin edited'[s] /\ b.ok => mem'[s] = b.digest  BY DEF BaseSound
<1>4. ASSUME s \in matching', b.ok, Readable(b.path)' PROVE Stored(b.path)' = b.digest
  <2>1. Files(b.path)' = Files(b.path)  BY <1>4 DEF Touches, Keeps
  <2> QED BY <1>4, <2>1, KeptStored DEF BaseSound
<1> QED BY <1>1, <1>2, <1>3, <1>4 DEF BaseSound

LEMMA OthersSound ==
    ASSUME NEW r, NEW q, Touches(q), Stamps(r, q), Alone(r, q),
           NEW s \in Runtime, s # r, Untouched(s), RuntimeSound(s)
    PROVE  RuntimeSound(s)'
<1> SUFFICES ASSUME NEW p, NEW b, NEW j, path[s] = p, persisted[s] = b, job[s] = j
             PROVE  BaseSound(s, p, b)' /\ JobSound(s, p, b, j)'
  BY DEF RuntimeSound, Untouched
<1>1. BaseSound(s, p, b) /\ JobSound(s, p, b, j)  BY DEF RuntimeSound
<1>2. BaseSound(s, p, b)'
  BY <1>1, BaseKept DEF Untouched, Stamps
<1>3. /\ stage'[s] = stage[s] /\ edited'[s] = edited[s] /\ mem'[s] = mem[s]
      /\ DOMAIN disk \subseteq DOMAIN disk'
  BY DEF Untouched, Touches
<1>4. ASSUME stage[s] \in {"conflict", "adopt"} PROVE Stored(p)' # NoTranscript
  BY <1>4, <1>1, TouchedStored DEF JobSound
<1>5. ASSUME stage[s] = "writing" PROVE WriteSound(p, b, j)'
  <2>1. WriteSound(p, b, j)  BY <1>1, <1>5 DEF JobSound
  <2>2. Keeps(j.path)  BY <1>5 DEF Alone, Touches
  <2> QED BY <2>1, <2>2, WriteKept
<1>6. JobSound(s, p, b, j)'  BY <1>1, <1>3, <1>4, <1>5 DEF JobSound
<1> QED BY <1>2, <1>6

(* A step of one runtime keeps the invariant if it keeps its own part.     *)
LEMMA StepSound ==
    ASSUME SaveInv, NEW r \in Runtime, NEW q, Touches(q), Stamps(r, q), Alone(r, q),
           \A s \in Runtime : s # r => Untouched(s),
           VariablesTyped', DOMAIN disk' \subseteq Path, FileSound(q)', RuntimeSound(r)',
           stage'[r] = "writing" =>
              \/ stage[r] = "writing" /\ job'[r].path = job[r].path
              \/ Holders(job'[r].path) = {}
    PROVE  SaveInv'
<1>1. FilesSound'
  <2>1. ASSUME NEW x, x # q PROVE FileSound(x)'
    <3>1. Keeps(x)  BY <2>1 DEF Touches
    <3>2. FileSound(x)  BY EveryFileSound DEF SaveInv
    <3>3. Stored(x)' = Stored(x)  BY <3>1, KeptFile
    <3> QED BY <3>1, <3>2, <3>3 DEF FileSound, Keeps
  <2>2. main \in DOMAIN disk'  BY DEF SaveInv, FilesSound, Touches
  <2>3. \A x : FileSound(x)'  BY <2>1
  <2> QED BY <2>2, <2>3 DEF FilesSound
<1>2. OneWriter'
  <2>1. ASSUME NEW s \in Runtime, s # r, stage'[s] = "writing", stage'[r] = "writing",
               job'[s].path = job'[r].path
        PROVE  FALSE
    <3>1. stage[s] = "writing" /\ job[s].path = job'[r].path  BY <2>1 DEF Untouched
    <3>2. CASE stage[r] = "writing" /\ job'[r].path = job[r].path
      BY <2>1, <3>1, <3>2 DEF SaveInv, OneWriter
    <3>3. CASE Holders(job'[r].path) = {}  BY <2>1, <3>1, <3>3 DEF Holders
    <3> QED BY <2>1, <3>2, <3>3
  <2>2. ASSUME NEW s \in Runtime, NEW t \in Runtime, s # r, t # r,
               stage'[s] = "writing", stage'[t] = "writing", job'[s].path = job'[t].path
        PROVE  s = t
    BY <2>2 DEF SaveInv, OneWriter, Untouched
  <2> QED BY <2>1, <2>2 DEF OneWriter
<1>3. ASSUME NEW s \in Runtime PROVE RuntimeSound(s)'
  <2>1. CASE s = r  BY <2>1
  <2>2. CASE s # r
    <3>1. RuntimeSound(s) /\ Untouched(s)  BY <2>2 DEF SaveInv
    <3> QED BY <2>2, <3>1, OthersSound
  <2> QED BY <2>1, <2>2
<1> QED BY <1>1, <1>2, <1>3 DEF SaveInv

-----------------------------------------------------------------------------
(* What the parts of the actions do to a runtime.                          *)
LEMMA RuntimeTyped ==
    ASSUME VariablesTyped, NEW r \in Runtime
    PROVE  /\ mem[r] \in Text /\ edited[r] \in SUBSET Moments /\ rewritten[r] \in SUBSET Moments
           /\ persisted[r] \in BaseRecord /\ path[r] \in Path /\ stage[r] \in Stage
           /\ job[r] \in JobRecord
BY DEF VariablesTyped

LEMMA EnterEffect ==
    ASSUME VariablesTyped, NEW r \in Runtime, NEW where \in Stage, NEW j \in JobRecord,
           Enter(r, where, j)
    PROVE  /\ stage'[r] = where /\ job'[r] = j
           /\ \A s \in Runtime : s # r => stage'[s] = stage[s] /\ job'[s] = job[s]
           /\ stage' \in [Runtime -> Stage] /\ job' \in [Runtime -> JobRecord]
BY DEF VariablesTyped, Enter

LEMMA IdleEffect ==
    ASSUME VariablesTyped, NEW r \in Runtime, Idle(r)
    PROVE  /\ stage'[r] = "idle" /\ job'[r] = NoJob
           /\ \A s \in Runtime : s # r => stage'[s] = stage[s] /\ job'[s] = job[s]
           /\ stage' \in [Runtime -> Stage] /\ job' \in [Runtime -> JobRecord]
<1>1. "idle" \in Stage  BY DEF Stage
<1> QED BY <1>1, NothingTyped DEF VariablesTyped, Idle

LEMMA StopEffect ==
    ASSUME VariablesTyped, NEW r \in Runtime, Stop(r)
    PROVE  /\ stage'[r] = "off" /\ job'[r] = NoJob /\ path'[r] = main /\ persisted'[r] = NoBase
           /\ \A s \in Runtime : s # r => Untouched(s)
           /\ stage' \in [Runtime -> Stage] /\ job' \in [Runtime -> JobRecord]
           /\ mem' \in [Runtime -> Text] /\ edited' \in [Runtime -> SUBSET Moments]
           /\ rewritten' \in [Runtime -> SUBSET Moments]
           /\ persisted' \in [Runtime -> BaseRecord] /\ path' \in [Runtime -> Path]
           /\ compacting' \subseteq Runtime
<1>1. "off" \in Stage /\ <<>> \in Text /\ main \in Path  BY MainIsPath DEF Stage, Text
<1>2. /\ stage'[r] = "off" /\ job'[r] = NoJob /\ path'[r] = main /\ persisted'[r] = NoBase
  BY DEF VariablesTyped, Stop
<1>3. ASSUME NEW s \in Runtime, s # r PROVE Untouched(s)
  BY <1>3 DEF VariablesTyped, Stop, Untouched
<1>4. stage' \in [Runtime -> Stage] /\ job' \in [Runtime -> JobRecord]
  BY <1>1, NothingTyped DEF VariablesTyped, Stop
<1>5. mem' \in [Runtime -> Text] /\ edited' \in [Runtime -> SUBSET Moments]
      /\ rewritten' \in [Runtime -> SUBSET Moments] /\ compacting' \subseteq Runtime
  BY <1>1 DEF VariablesTyped, Stop
<1>6. persisted' \in [Runtime -> BaseRecord] /\ path' \in [Runtime -> Path]
  BY <1>1, NothingTyped DEF VariablesTyped, Stop
<1> QED BY <1>2, <1>3, <1>4, <1>5, <1>6

LEMMA CaptureEffect ==
    ASSUME VariablesTyped, NEW r \in Runtime, Capture(r)
    PROVE  /\ "captured" \notin edited'[r]
           /\ "saved" \notin edited'[r] <=> "saved" \notin edited[r]
           /\ \A s \in Runtime : s # r => edited'[s] = edited[s]
           /\ edited' \in [Runtime -> SUBSET Moments]
           /\ rewritten' \in [Runtime -> SUBSET Moments]
BY DEF VariablesTyped, Capture

LEMMA MarkEffect ==
    ASSUME VariablesTyped, NEW r \in Runtime, NEW revision \in Nat,
           MarkPersisted(r, revision)
    PROVE  /\ persisted'[r] = [ok |-> TRUE, path |-> job[r].path, digest |-> job[r].msgs,
                               revision |-> revision, verified |-> TRUE]
           /\ edited'[r] = SinceCapture(edited[r])
           /\ \A s \in Runtime : s # r => /\ persisted'[s] = persisted[s]
                                          /\ edited'[s] = edited[s]
           /\ persisted' \in [Runtime -> BaseRecord] /\ matching' = matching \cup {r}
           /\ edited' \in [Runtime -> SUBSET Moments]
           /\ rewritten' \in [Runtime -> SUBSET Moments]
<1> DEFINE b == [ok |-> TRUE, path |-> job[r].path, digest |-> job[r].msgs,
                 revision |-> revision, verified |-> TRUE]
<1>1. b \in BaseRecord  BY RuntimeTyped DEF BaseRecord, JobRecord, Transcript
<1>2. SinceCapture(edited[r]) \in SUBSET Moments /\ SinceCapture(rewritten[r]) \in SUBSET Moments
  BY DEF SinceCapture
<1>3. persisted' = [persisted EXCEPT ![r] = b]  BY DEF MarkPersisted
<1>4. edited' = [edited EXCEPT ![r] = SinceCapture(edited[r])]
      /\ rewritten' = [rewritten EXCEPT ![r] = SinceCapture(rewritten[r])]
  BY DEF MarkPersisted
<1>5. matching' = matching \cup {r}  BY DEF MarkPersisted
<1> HIDE DEF b
<1>6. persisted'[r] = b /\ persisted' \in [Runtime -> BaseRecord]
      /\ \A s \in Runtime : s # r => persisted'[s] = persisted[s]
  BY <1>1, <1>3 DEF VariablesTyped
<1>7. edited'[r] = SinceCapture(edited[r]) /\ edited' \in [Runtime -> SUBSET Moments]
      /\ \A s \in Runtime : s # r => edited'[s] = edited[s]
  BY <1>2, <1>4 DEF VariablesTyped
<1>8. rewritten' \in [Runtime -> SUBSET Moments]  BY <1>2, <1>4 DEF VariablesTyped
<1> QED BY <1>5, <1>6, <1>7, <1>8 DEF b

(* A runtime that is off, and one that has come to rest.                   *)
LEMMA OffSound ==
    ASSUME NEW r, NEW q, Touches(q), FilesSound, stage'[r] = "off", job'[r] = NoJob,
           path'[r] = main, persisted'[r] = NoBase
    PROVE  RuntimeSound(r)'
<1>1. main \in DOMAIN disk'  BY DEF FilesSound, Touches
<1>2. BaseSound(r, main, NoBase)'  BY <1>1 DEF BaseSound, NoBase
<1>3. JobSound(r, main, NoBase, NoJob)'  BY DEF JobSound
<1> QED BY <1>2, <1>3 DEF RuntimeSound

LEMMA RestSound ==
    ASSUME NEW r, NEW p, NEW b, path'[r] = p, persisted'[r] = b, BaseSound(r, p, b)',
           stage'[r] = "idle", job'[r] = NoJob
    PROVE  RuntimeSound(r)'
<1>1. JobSound(r, p, b, NoJob)'  BY DEF JobSound
<1> QED BY <1>1 DEF RuntimeSound

LEMMA JobIs ==
    ASSUME NEW r, NEW p, NEW b, NEW j, path'[r] = p, persisted'[r] = b, job'[r] = j,
           BaseSound(r, p, b)', JobSound(r, p, b, j)'
    PROVE  RuntimeSound(r)'
BY DEF RuntimeSound

(* The steps that leave the files alone.                                   *)
LEMMA QuietFiles ==
    ASSUME FilesSound, UNCHANGED <<disk, ledger>>
    PROVE  /\ \A x : Keeps(x)
           /\ Touches(main) /\ DOMAIN disk' \subseteq Path /\ FileSound(main)'
           /\ FilesSound'
<1>1. \A x : Keeps(x)  BY DEF Keeps, Files, Digests
<1>2. Keeps(main) /\ Stored(main)' = Stored(main)  BY <1>1, KeptFile
<1>3. DOMAIN disk' = DOMAIN disk /\ DOMAIN ledger' = DOMAIN ledger  OBVIOUS
<1>4. Touches(main)  BY <1>1, <1>2, <1>3 DEF Touches
<1>5. ASSUME NEW x \in DOMAIN disk \cup DOMAIN ledger PROVE FileSound(x)'
  <2>1. FileSound(x) /\ Keeps(x) /\ Stored(x)' = Stored(x)
    BY <1>1, <1>5, KeptFile DEF FilesSound
  <2> QED BY <2>1 DEF FileSound, Keeps
<1>6. FilesSound'  BY <1>3, <1>5 DEF FilesSound
<1>7. FileSound(main)'  BY <1>3, <1>5 DEF FilesSound
<1> QED BY <1>1, <1>3, <1>4, <1>6, <1>7 DEF FilesSound

LEMMA QuietStep ==
    ASSUME SaveInv, NEW r \in Runtime, UNCHANGED <<disk, ledger>>,
           \A s \in matching' : s # r => s \in matching,
           \A s \in Runtime : s # r => Untouched(s),
           VariablesTyped', RuntimeSound(r)',
           stage'[r] = "writing" =>
              \/ stage[r] = "writing" /\ job'[r].path = job[r].path
              \/ Holders(job'[r].path) = {}
    PROVE  SaveInv'
<1>1. /\ \A x : Keeps(x)
      /\ Touches(main) /\ DOMAIN disk' \subseteq Path /\ FileSound(main)'
  BY QuietFiles DEF SaveInv
<1>2. Stamps(r, main) /\ Alone(r, main)  BY <1>1 DEF Stamps, Alone, Keeps
<1> QED BY <1>1, <1>2, StepSound

LEMMA QuietBase ==
    ASSUME SaveInv, UNCHANGED <<disk, ledger>>, NEW r \in Runtime,
           "saved" \notin edited'[r] => "saved" \notin edited[r] /\ mem'[r] = mem[r],
           r \in matching' => r \in matching
    PROVE  BaseSound(r, path[r], persisted[r]) /\
           \A p, b : path[r] = p /\ persisted[r] = b => BaseSound(r, p, b)'
<1>1. BaseSound(r, path[r], persisted[r])  BY DEF SaveInv, RuntimeSound
<1>2. Touches(main) /\ Files(main)' = Files(main)  BY QuietFiles DEF SaveInv, Keeps
<1> QED BY <1>1, <1>2, BaseKept

-----------------------------------------------------------------------------
LEMMA NewSession_Sound == ASSUME SaveInv, NEW r \in Runtime, NewSession(r) PROVE SaveInv'
<1>0. VariablesTyped  BY DEF SaveInv
<1>1. Idle(r) /\ UNCHANGED <<mem, edited, rewritten, compacting, persisted, path, disk, ledger,
                             matching, edits, faults>> /\ started' = 1
  BY DEF NewSession, sessionVars, baseVars, storeVars
<1>2. /\ stage'[r] = "idle" /\ job'[r] = NoJob
      /\ \A s \in Runtime : s # r => stage'[s] = stage[s] /\ job'[s] = job[s]
      /\ stage' \in [Runtime -> Stage] /\ job' \in [Runtime -> JobRecord]
  BY <1>0, <1>1, IdleEffect
<1>3. VariablesTyped'  BY <1>0, <1>1, <1>2, BoundAssumption DEF VariablesTyped
<1>4. \A s \in Runtime : s # r => Untouched(s)  BY <1>1, <1>2 DEF Untouched
<1>5. RuntimeSound(r)'  BY <1>1, <1>2, QuietBase, RestSound
<1> QED BY <1>1, <1>2, <1>3, <1>4, <1>5, QuietStep

(* The transcript of a file that is there is read.                         *)
LEMMA ReadSound ==
    ASSUME SaveInv, NEW r \in Runtime, NEW q, NEW j \in JobRecord,
           j.caller # "none" \/ j.mode # "none", Stored(q) # NoTranscript, ReadTranscript(r, q, j),
           UNCHANGED <<sessionVars, baseVars, storeVars, edits, faults>>,
           started' \in 0..MaxStart
    PROVE  SaveInv'
<1> PICK k : k = [j EXCEPT !.path = q, !.msgs = Stored(q)]  OBVIOUS
<1>0. VariablesTyped /\ FilesSound  BY DEF SaveInv
<1>1. UNCHANGED <<mem, edited, rewritten, compacting, persisted, path, disk, ledger,
                  matching, edits, faults>>
  BY DEF sessionVars, baseVars, storeVars
<1>2. Stored(q) \in Text /\ q \in DOMAIN disk /\ q \in Path
  BY <1>0, EveryFileSound, StoredShape DEF FileSound, FilesSound
<1>3. k \in JobRecord /\ (k.caller # "none" \/ k.mode # "none") /\ k.path = q
  BY <1>2 DEF JobRecord
<1>4. Enter(r, "loading", k)  BY DEF ReadTranscript
<1>5. "loading" \in Stage  BY DEF Stage
<1>6. /\ stage'[r] = "loading" /\ job'[r] = k
      /\ \A s \in Runtime : s # r => stage'[s] = stage[s] /\ job'[s] = job[s]
      /\ stage' \in [Runtime -> Stage] /\ job' \in [Runtime -> JobRecord]
  BY <1>0, <1>3, <1>4, <1>5, EnterEffect
<1>7. VariablesTyped'  BY <1>0, <1>1, <1>6 DEF VariablesTyped
<1>8. \A s \in Runtime : s # r => Untouched(s)  BY <1>1, <1>6 DEF Untouched
<1>9. RuntimeSound(r)'
  <2>1. PICK p, b : path[r] = p /\ persisted[r] = b  OBVIOUS
  <2>2. BaseSound(r, p, b)'  BY <1>1, <2>1, QuietBase
  <2>3. k # NoJob  BY <1>3 DEF NoJob
  <2>4. JobSound(r, p, b, k)'  BY <1>1, <1>2, <1>3, <1>6, <2>3 DEF JobSound
  <2> QED BY <1>1, <1>6, <2>1, <2>2, <2>4, JobIs
<1> QED BY <1>1, <1>6, <1>7, <1>8, <1>9, QuietStep

LEMMA Open_Sound == ASSUME SaveInv, NEW r \in Runtime, NEW q, OpenSession(r, q) PROVE SaveInv'
<1> DEFINE j == [NoJob EXCEPT !.caller = "open"]
<1>1. j \in JobRecord /\ j.caller # "none"  BY NothingTyped DEF JobRecord, NoJob
<1>2. started' \in 0..MaxStart
  BY BoundAssumption DEF OpenSession, SaveInv, VariablesTyped
<1> HIDE DEF j
<1>3. ReadTranscript(r, q, j) /\ Stored(q) # NoTranscript
      /\ UNCHANGED <<sessionVars, baseVars, storeVars, edits, faults>>
  BY DEF OpenSession, j
<1> QED BY <1>1, <1>2, <1>3, ReadSound

LEMMA FinishLoad_Sound == ASSUME SaveInv, NEW r \in Runtime, FinishLoad(r) PROVE SaveInv'
<1>0. VariablesTyped /\ FilesSound  BY DEF SaveInv
<1> PICK j : j = job[r]  OBVIOUS
<1>1. j \in JobRecord /\ j.path \in DOMAIN disk /\ j.path \in Path
  BY <1>0, RuntimeTyped DEF SaveInv, RuntimeSound, JobSound, FinishLoad, JobRecord
<1>2. /\ UNCHANGED <<disk, ledger, edits, started, faults>> /\ matching' = matching \ {r}
      /\ IF j.shutdown THEN Stop(r) ELSE
         /\ Idle(r)
         /\ mem' = [mem EXCEPT ![r] = j.msgs]
         /\ edited' = [edited EXCEPT ![r] = {}]
         /\ rewritten' = [rewritten EXCEPT ![r] = {}]
         /\ persisted' = [persisted EXCEPT ![r] =
               [ok |-> TRUE, path |-> j.path, digest |-> j.msgs,
                revision |-> Revision(j.path), verified |-> FALSE]]
         /\ path' = [path EXCEPT ![r] = j.path]
         /\ UNCHANGED compacting
  BY DEF FinishLoad
<1>3. CASE Stop(r)
  <2>1. VariablesTyped'  BY <1>0, <1>2, <1>3, StopEffect DEF VariablesTyped
  <2>2. RuntimeSound(r)'  BY <1>0, <1>2, <1>3, StopEffect, QuietFiles, OffSound
  <2> QED BY <1>0, <1>2, <1>3, <2>1, <2>2, StopEffect, QuietStep
<1>4. CASE /\ Idle(r)
           /\ mem' = [mem EXCEPT ![r] = j.msgs]
           /\ edited' = [edited EXCEPT ![r] = {}]
           /\ rewritten' = [rewritten EXCEPT ![r] = {}]
           /\ persisted' = [persisted EXCEPT ![r] =
                 [ok |-> TRUE, path |-> j.path, digest |-> j.msgs,
                  revision |-> Revision(j.path), verified |-> FALSE]]
           /\ path' = [path EXCEPT ![r] = j.path]
           /\ UNCHANGED compacting
  <2> PICK b : b = [ok |-> TRUE, path |-> j.path, digest |-> j.msgs,
                    revision |-> Revision(j.path), verified |-> FALSE]
    OBVIOUS
  <2>1. b \in BaseRecord
    <3>1. Revision(j.path) \in Nat  BY <1>0, EveryFileSound DEF FileSound, Revision
    <3> QED BY <1>1, <3>1 DEF BaseRecord, JobRecord, Transcript
  <2>2. persisted' = [persisted EXCEPT ![r] = b]  BY <1>4
  <2>3. /\ stage'[r] = "idle" /\ job'[r] = NoJob
        /\ \A s \in Runtime : s # r => stage'[s] = stage[s] /\ job'[s] = job[s]
        /\ stage' \in [Runtime -> Stage] /\ job' \in [Runtime -> JobRecord]
    BY <1>0, <1>4, IdleEffect
  <2>4. j.msgs \in Text  BY <1>1 DEF JobRecord
  <2>5. VariablesTyped'
    <3>1. mem' \in [Runtime -> Text] /\ edited' \in [Runtime -> SUBSET Moments]
          /\ rewritten' \in [Runtime -> SUBSET Moments]
      BY <1>0, <1>4, <2>4 DEF VariablesTyped
    <3>2. persisted' \in [Runtime -> BaseRecord] /\ path' \in [Runtime -> Path]
      BY <1>0, <1>1, <1>4, <2>1, <2>2 DEF VariablesTyped
    <3>3. compacting' \subseteq Runtime /\ matching' \subseteq Runtime
      BY <1>0, <1>2, <1>4 DEF VariablesTyped
    <3> QED BY <1>0, <1>2, <2>3, <3>1, <3>2, <3>3 DEF VariablesTyped
  <2>6. \A s \in Runtime : s # r => Untouched(s)
    BY <1>0, <1>4, <2>2, <2>3 DEF VariablesTyped, Untouched
  <2>7. mem'[r] = j.msgs /\ persisted'[r] = b /\ path'[r] = j.path /\ r \notin matching'
    BY <1>0, <1>2, <1>4, <2>2 DEF VariablesTyped
  <2>8. BaseSound(r, j.path, b)'  BY <1>1, <1>2, <2>7 DEF BaseSound
  <2>9. RuntimeSound(r)'  BY <2>3, <2>7, <2>8, RestSound
  <2> QED BY <1>2, <2>3, <2>5, <2>6, <2>9, QuietStep
<1> QED BY <1>2, <1>3, <1>4

(* A transcript is edited in memory.                                       *)
LEMMA EditStep ==
    ASSUME SaveInv, NEW r \in Runtime, NEW t \in Text, mem' = [mem EXCEPT ![r] = t],
           edited' = [edited EXCEPT ![r] = Moments],
           UNCHANGED <<persisted, path, disk, ledger, matching, stage, job, started, faults>>,
           rewritten' \in [Runtime -> SUBSET Moments], compacting' \subseteq Runtime,
           edits' \in 0..MaxEdit
    PROVE  SaveInv'
<1>0. VariablesTyped  BY DEF SaveInv
<1>1. VariablesTyped'  BY <1>0 DEF VariablesTyped
<1>2. \A s \in Runtime : s # r => Untouched(s)  BY <1>0 DEF VariablesTyped, Untouched
<1>3. edited'[r] = Moments  BY <1>0 DEF VariablesTyped
<1>4. "saved" \in edited'[r] /\ "captured" \in edited'[r]  BY <1>3 DEF Moments
<1>5. PICK p, b, j : path[r] = p /\ persisted[r] = b /\ job[r] = j  OBVIOUS
<1>6. BaseSound(r, p, b)'  BY <1>4, <1>5, QuietBase
<1>7. JobSound(r, p, b, j)'
  <2>1. JobSound(r, p, b, j)  BY <1>5 DEF SaveInv, RuntimeSound
  <2>2. \A x : Keeps(x)  BY QuietFiles DEF SaveInv
  <2>3. Stored(p)' = Stored(p)  BY <2>2, KeptFile
  <2>4. WriteSound(p, b, j) => WriteSound(p, b, j)'  BY <2>2, WriteKept
  <2> QED BY <1>4, <2>1, <2>3, <2>4 DEF JobSound
<1>8. RuntimeSound(r)'  BY <1>5, <1>6, <1>7, JobIs
<1>9. stage'[r] = stage[r] /\ job'[r] = job[r]  OBVIOUS
<1> QED BY <1>1, <1>2, <1>8, <1>9, QuietStep

LEMMA Add_Sound == ASSUME SaveInv, NEW r \in Runtime, Add(r) PROVE SaveInv'
<1> DEFINE t == Append(mem[r], edits + 1)
<1>0. VariablesTyped  BY DEF SaveInv
<1>1. edits + 1 \in 1..MaxEdit /\ edits' \in 0..MaxEdit
  BY <1>0, BoundAssumption DEF Add, VariablesTyped
<1>2. t \in Text  BY <1>0, <1>1, RuntimeTyped DEF Text
<1>3. mem' = [mem EXCEPT ![r] = t]  BY DEF Add
<1> HIDE DEF t
<1>4. /\ edited' = [edited EXCEPT ![r] = Moments]
      /\ UNCHANGED <<rewritten, compacting, persisted, path, disk, ledger, matching, stage, job,
                     started, faults>>
  BY DEF Add, baseVars, storeVars
<1> QED BY <1>0, <1>1, <1>2, <1>3, <1>4, EditStep DEF VariablesTyped

LEMMA Compact_Sound ==
    ASSUME SaveInv, NEW r \in Runtime, NEW k, Compact(r, k) PROVE SaveInv'
<1> DEFINE t == <<edits + 1>> \o SubSeq(mem[r], k + 1, Len(mem[r]))
<1>0. VariablesTyped  BY DEF SaveInv
<1>1. edits + 1 \in 1..MaxEdit /\ edits' \in 0..MaxEdit /\ k \in 1..Len(mem[r])
  BY <1>0, BoundAssumption DEF Compact, VariablesTyped
<1>2. t \in Text
  <2>1. mem[r] \in Text /\ Len(mem[r]) \in Nat  BY <1>0, RuntimeTyped DEF Text
  <2>2. SubSeq(mem[r], k + 1, Len(mem[r])) \in Text  BY <1>1, <2>1, PartOfText
  <2>3. <<edits + 1>> \in Seq(1..MaxEdit)  BY <1>1
  <2> QED BY <2>2, <2>3 DEF Text
<1>3. mem' = [mem EXCEPT ![r] = t]  BY DEF Compact
<1> HIDE DEF t
<1>4. /\ edited' = [edited EXCEPT ![r] = Moments] /\ compacting' = compacting \cup {r}
      /\ UNCHANGED <<rewritten, persisted, path, disk, ledger, matching, stage, job,
                     started, faults>>
  BY DEF Compact, baseVars, storeVars
<1> QED BY <1>0, <1>1, <1>2, <1>3, <1>4, EditStep DEF VariablesTyped

LEMMA Increment_Sound == ASSUME SaveInv, NEW r \in Runtime, IncrementRewrite(r) PROVE SaveInv'
<1>0. VariablesTyped  BY DEF SaveInv
<1>1. mem[r] \in Text /\ mem' = [mem EXCEPT ![r] = mem[r]]
  BY <1>0 DEF IncrementRewrite, VariablesTyped
<1>2. /\ edited' = [edited EXCEPT ![r] = Moments] /\ compacting' = compacting \ {r}
      /\ UNCHANGED <<persisted, path, disk, ledger, matching, stage, job, started, faults, edits>>
      /\ rewritten' = [rewritten EXCEPT ![r] = Moments]
  BY DEF IncrementRewrite, baseVars, storeVars
<1>3. rewritten' \in [Runtime -> SUBSET Moments]  BY <1>0, <1>2 DEF VariablesTyped
<1> QED BY <1>0, <1>1, <1>2, <1>3, EditStep DEF VariablesTyped

(* A snapshot begins, or goes on.                                          *)
LEMMA EnterStep ==
    ASSUME SaveInv, NEW r \in Runtime, NEW where \in Stage, NEW k \in JobRecord,
           Enter(r, where, k), UNCHANGED <<persisted, path, disk, ledger, matching, started>>,
           mem' \in [Runtime -> Text], edited' \in [Runtime -> SUBSET Moments],
           rewritten' \in [Runtime -> SUBSET Moments], compacting' \subseteq Runtime,
           edits' \in 0..MaxEdit, faults' \in 0..MaxFault,
           \A s \in Runtime : s # r => mem'[s] = mem[s] /\ edited'[s] = edited[s],
           "saved" \notin edited'[r] => "saved" \notin edited[r] /\ mem'[r] = mem[r],
           NEW p, NEW b, path[r] = p, persisted[r] = b, JobSound(r, p, b, k)',
           where = "writing" => Holders(k.path) = {}
    PROVE  SaveInv'
<1>0. VariablesTyped  BY DEF SaveInv
<1>1. /\ stage'[r] = where /\ job'[r] = k
      /\ \A s \in Runtime : s # r => stage'[s] = stage[s] /\ job'[s] = job[s]
      /\ stage' \in [Runtime -> Stage] /\ job' \in [Runtime -> JobRecord]
  BY <1>0, EnterEffect
<1>2. VariablesTyped'  BY <1>0, <1>1 DEF VariablesTyped
<1>3. \A s \in Runtime : s # r => Untouched(s)  BY <1>1 DEF Untouched
<1>4. BaseSound(r, p, b)'  BY QuietBase
<1>5. RuntimeSound(r)'  BY <1>1, <1>4, JobIs
<1> QED BY <1>1, <1>2, <1>3, <1>5, QuietStep

(* The same, when the session is left alone.                               *)
LEMMA PassOn ==
    ASSUME SaveInv, NEW r \in Runtime, NEW where \in Stage, NEW k \in JobRecord,
           Enter(r, where, k),
           UNCHANGED <<mem, edited, rewritten, compacting, persisted, path, disk, ledger,
                       matching, edits, started, faults>>,
           NEW p, NEW b, path[r] = p, persisted[r] = b, JobSound(r, p, b, k)',
           where = "writing" => Holders(k.path) = {}
    PROVE  SaveInv'
<1>1. VariablesTyped  BY DEF SaveInv
<1>2. /\ mem' \in [Runtime -> Text] /\ edited' \in [Runtime -> SUBSET Moments]
      /\ rewritten' \in [Runtime -> SUBSET Moments] /\ compacting' \subseteq Runtime
      /\ edits' \in 0..MaxEdit /\ faults' \in 0..MaxFault
  BY <1>1 DEF VariablesTyped
<1> QED BY <1>2, EnterStep

(* ... or when it is captured.                                             *)
LEMMA CaptureStep ==
    ASSUME SaveInv, NEW r \in Runtime, NEW where \in Stage, NEW k \in JobRecord,
           Enter(r, where, k), Capture(r),
           UNCHANGED <<mem, compacting, persisted, path, disk, ledger,
                       matching, edits, started, faults>>,
           NEW p, NEW b, path[r] = p, persisted[r] = b, JobSound(r, p, b, k)',
           where = "writing" => Holders(k.path) = {}
    PROVE  SaveInv'
<1>1. VariablesTyped  BY DEF SaveInv
<1>2. /\ mem' \in [Runtime -> Text] /\ compacting' \subseteq Runtime
      /\ edits' \in 0..MaxEdit /\ faults' \in 0..MaxFault
  BY <1>1 DEF VariablesTyped
<1>3. /\ "saved" \notin edited'[r] <=> "saved" \notin edited[r]
      /\ \A s \in Runtime : s # r => edited'[s] = edited[s]
      /\ edited' \in [Runtime -> SUBSET Moments]
      /\ rewritten' \in [Runtime -> SUBSET Moments]
  BY <1>1, CaptureEffect
<1> QED BY <1>2, <1>3, EnterStep

LEMMA StopStep ==
    ASSUME SaveInv, NEW r \in Runtime, Stop(r), UNCHANGED <<disk, ledger, edits, started>>,
           matching' \subseteq matching, faults' \in 0..MaxFault
    PROVE  SaveInv'
<1>0. VariablesTyped /\ FilesSound  BY DEF SaveInv
<1>1. VariablesTyped'  BY <1>0, StopEffect DEF VariablesTyped
<1>2. RuntimeSound(r)'  BY <1>0, StopEffect, QuietFiles, OffSound
<1> QED BY <1>0, <1>1, <1>2, StopEffect, QuietStep

LEMMA IdleIsEnter ==
    ASSUME NEW r \in Runtime, Idle(r), VariablesTyped, NEW p, NEW b
    PROVE  Enter(r, "idle", NoJob) /\ "idle" \in Stage /\ JobSound(r, p, b, NoJob)'
<1>1. stage'[r] = "idle"  BY IdleEffect
<1> QED BY <1>1 DEF Idle, Enter, Stage, JobSound

LEMMA JobNow ==
    ASSUME SaveInv, NEW r \in Runtime, NEW p, NEW b, NEW j,
           path[r] = p, persisted[r] = b, job[r] = j
    PROVE  /\ p \in Path /\ b \in BaseRecord /\ j \in JobRecord
           /\ BaseSound(r, p, b) /\ JobSound(r, p, b, j)
BY RuntimeTyped DEF SaveInv, RuntimeSound

LEMMA Snapshot_Sound ==
    ASSUME SaveInv, NEW r \in Runtime, NEW shutdown \in BOOLEAN, Snapshot(r, shutdown)
    PROVE  SaveInv'
<1> PICK p, b, j : path[r] = p /\ persisted[r] = b /\ job[r] = j  OBVIOUS
<1>1. PICK m \in {"rewrite", "snapshot"} :
         Enter(r, "save", [NoJob EXCEPT !.caller = "snapshot", !.path = p,
                              !.shutdown = shutdown, !.mode = m])
  BY DEF Snapshot
<1> PICK k : k = [NoJob EXCEPT !.caller = "snapshot", !.path = p,
                              !.shutdown = shutdown, !.mode = m]
  OBVIOUS
<1>2. p \in Path  BY JobNow
<1>3. k \in JobRecord /\ k.path = p /\ k.mode = m
  BY <1>2, NothingTyped DEF JobRecord, NoJob
<1>4. stage'[r] = "save"  BY <1>1 DEF Enter, SaveInv, VariablesTyped
<1>5. k # NoJob  BY <1>3 DEF NoJob
<1>6. JobSound(r, p, b, k)'  BY <1>3, <1>4, <1>5 DEF JobSound
<1>7. UNCHANGED <<mem, edited, rewritten, compacting, persisted, path, disk, ledger,
                  matching, edits, started, faults>>
  BY DEF Snapshot, sessionVars, baseVars, storeVars
<1>8. "save" \in Stage  BY DEF Stage
<1> QED BY <1>1, <1>3, <1>6, <1>7, <1>8, PassOn

LEMMA Cut_Sound ==
    ASSUME SaveInv, NEW r \in Runtime, NEW n, NEW caller \in {"rewind", "cancel"},
           Cut(r, n, caller)
    PROVE  SaveInv'
<1> PICK p, b, j : path[r] = p /\ persisted[r] = b /\ job[r] = j  OBVIOUS
<1> PICK k : k = [NoJob EXCEPT !.caller = caller, !.path = p, !.mode = "rewrite"]  OBVIOUS
<1> DEFINE t == SubSeq(mem[r], 1, n)
<1>0. VariablesTyped  BY DEF SaveInv
<1>1. k \in JobRecord /\ k.path = p /\ k.mode = "rewrite"
  BY JobNow, NothingTyped DEF JobRecord, NoJob
<1>2. k # NoJob  BY <1>1 DEF NoJob
<1>3. Enter(r, "save", k) /\ UNCHANGED <<rewritten, compacting, persisted, path, disk, ledger,
                                         matching, started, faults>>
      /\ edited' = [edited EXCEPT ![r] = Moments]
  BY DEF Cut, baseVars, storeVars
<1>4. t \in Text
  <2>1. mem[r] \in Text /\ Len(mem[r]) \in Nat  BY <1>0, RuntimeTyped DEF Text
  <2>2. n \in 0..Len(mem[r]) /\ 1 \in Nat \ {0}  BY <2>1 DEF Cut
  <2>3. SubSeq(mem[r], 1, n) \in Text
    <3> HIDE DEF t
    <3> QED BY <2>1, <2>2, PartOfText
  <2> QED BY <2>3
<1>5. mem' = [mem EXCEPT ![r] = t]  BY DEF Cut
<1> HIDE DEF t
<1>6. mem' \in [Runtime -> Text] /\ \A s \in Runtime : s # r => mem'[s] = mem[s]
  BY <1>0, <1>4, <1>5 DEF VariablesTyped
<1>7. /\ edited' \in [Runtime -> SUBSET Moments] /\ edited'[r] = Moments
      /\ \A s \in Runtime : s # r => edited'[s] = edited[s]
  BY <1>0, <1>3 DEF VariablesTyped
<1>8. edits' \in 0..MaxEdit  BY <1>0, BoundAssumption DEF Cut, VariablesTyped
<1>9. stage'[r] = "save" /\ "save" \in Stage
  BY <1>0, <1>3 DEF Enter, VariablesTyped, Stage
<1>10. JobSound(r, p, b, k)'  BY <1>1, <1>2, <1>9 DEF JobSound
<1>11. "saved" \in edited'[r]  BY <1>7 DEF Moments
<1>12. /\ rewritten' \in [Runtime -> SUBSET Moments] /\ compacting' \subseteq Runtime
       /\ faults' \in 0..MaxFault
  BY <1>0, <1>3 DEF VariablesTyped
<1> QED BY <1>1, <1>3, <1>6, <1>7, <1>8, <1>9, <1>10, <1>11, <1>12, EnterStep

LEMMA FastPath_Sound == ASSUME SaveInv, NEW r \in Runtime, FastPath(r) PROVE SaveInv'
<1> PICK p, b, j : path[r] = p /\ persisted[r] = b /\ job[r] = j  OBVIOUS
<1>0. VariablesTyped  BY DEF SaveInv
<1>1. UNCHANGED <<disk, ledger, matching, edits, started, faults>> /\ Return(r)
  BY DEF FastPath, storeVars
<1>2. CASE Stop(r)  BY <1>0, <1>1, <1>2, StopStep DEF VariablesTyped
<1>3. CASE Idle(r) /\ UNCHANGED <<sessionVars, persisted, path>>
  <2>1. UNCHANGED <<mem, edited, rewritten, compacting, persisted, path>>
    BY <1>3 DEF sessionVars
  <2> QED BY <1>0, <1>1, <1>3, <2>1, IdleIsEnter, NothingTyped, PassOn
<1> QED BY <1>1, <1>2, <1>3 DEF Return

LEMMA Retry_Sound == ASSUME SaveInv, NEW r \in Runtime, Retry(r) PROVE SaveInv'
<1> PICK p, b, j : path[r] = p /\ persisted[r] = b /\ job[r] = j  OBVIOUS
<1> PICK k : k = [j EXCEPT !.mode = "rewrite"]  OBVIOUS
<1>0. VariablesTyped  BY DEF SaveInv
<1>1. j \in JobRecord /\ JobSound(r, p, b, j)  BY JobNow
<1>2. k \in JobRecord /\ k.path = j.path /\ k.mode = "rewrite"  BY <1>1 DEF JobRecord
<1>3. k # NoJob /\ k.path = p  BY <1>1, <1>2 DEF NoJob, Retry, JobSound
<1>4. Enter(r, "save", k)
      /\ UNCHANGED <<mem, edited, rewritten, compacting, persisted, path, disk, ledger,
                     matching, edits, started, faults>>
  BY DEF Retry, sessionVars, baseVars, storeVars
<1>5. stage'[r] = "save" /\ "save" \in Stage
  BY <1>0, <1>4 DEF Enter, VariablesTyped, Stage
<1>6. JobSound(r, p, b, k)'  BY <1>2, <1>3, <1>5 DEF JobSound
<1> QED BY <1>2, <1>4, <1>5, <1>6, PassOn

LEMMA Adopt_Sound == ASSUME SaveInv, NEW r \in Runtime, Adopt(r) PROVE SaveInv'
<1> PICK p, b, j : path[r] = p /\ persisted[r] = b /\ job[r] = j  OBVIOUS
<1>1. j \in JobRecord /\ JobSound(r, p, b, j) /\ stage[r] \in {"conflict", "adopt"}
  BY JobNow DEF Adopt
<1>2. j.mode # "none" /\ Stored(p) # NoTranscript  BY <1>1 DEF JobSound
<1>3. ReadTranscript(r, p, j) /\ UNCHANGED <<sessionVars, baseVars, storeVars, edits, faults>>
      /\ started' = started
  BY DEF Adopt
<1>4. started' \in 0..MaxStart  BY <1>3 DEF SaveInv, VariablesTyped
<1> QED BY <1>1, <1>2, <1>3, <1>4, ReadSound

LEMMA Recover_Sound == ASSUME SaveInv, NEW r \in Runtime, Recover(r) PROVE SaveInv'
<1> PICK p, b, j, t : path[r] = p /\ persisted[r] = b /\ job[r] = j /\ mem[r] = t  OBVIOUS
<1>0. VariablesTyped  BY DEF SaveInv
<1>1. j \in JobRecord /\ JobSound(r, p, b, j) /\ stage[r] = "conflict" /\ p \in Path
      /\ t \in Text
  BY <1>0, JobNow, RuntimeTyped DEF Recover
<1>2. j.mode # "none" /\ j.path = p /\ Stored(p) # NoTranscript /\ j # NoJob
      /\ (j.mode = "force" => p # main)
  BY <1>1 DEF JobSound
<1>3. Capture(r) /\ UNCHANGED <<mem, compacting, persisted, path, disk, ledger, matching, edits,
                                started, faults>>
  BY DEF Recover, baseVars, storeVars
<1>4. "adopt" \in Stage /\ "save" \in Stage /\ "copy" \in Stage  BY DEF Stage
<1>5. CASE Enter(r, "adopt", j)
  <2>1. stage'[r] = "adopt"  BY <1>0, <1>5 DEF Enter, VariablesTyped
  <2>2. Stored(p)' = Stored(p)  BY <1>3, QuietFiles, KeptFile DEF SaveInv
  <2>3. JobSound(r, p, b, j)'  BY <1>1, <1>2, <2>1, <2>2 DEF JobSound
  <2> QED BY <1>1, <1>3, <1>4, <1>5, <2>3, CaptureStep
<1>6. CASE Len(p) >= MaxDepth /\ Enter(r, "save", [j EXCEPT !.mode = "force"])
  <2> PICK k : k = [j EXCEPT !.mode = "force"]  OBVIOUS
  <2>1. k \in JobRecord /\ k.mode = "force" /\ k.path = p  BY <1>1, <1>2 DEF JobRecord
  <2>2. p # main  BY <1>6, BoundAssumption, MainIsPath
  <2>3. stage'[r] = "save" /\ k # NoJob
    BY <1>0, <1>6, <2>1 DEF Enter, VariablesTyped, NoJob
  <2>4. JobSound(r, p, b, k)'  BY <2>1, <2>2, <2>3 DEF JobSound
  <2> QED BY <1>3, <1>4, <1>6, <2>1, <2>4, CaptureStep
<1>7. CASE Enter(r, "copy", [j EXCEPT !.msgs = t, !.path = RecoveryPath(p, t, NoRuntime)])
  <2> PICK k : k = [j EXCEPT !.msgs = t, !.path = RecoveryPath(p, t, NoRuntime)]  OBVIOUS
  <2>1. RecoveryPath(p, t, NoRuntime) \in Path /\ RecoveryPath(p, t, NoRuntime) # main
    BY <1>1, CopyPath
  <2>2. k \in JobRecord /\ k.mode = j.mode /\ k.path # main /\ k.msgs = t
    BY <1>1, <2>1 DEF JobRecord
  <2>3. stage'[r] = "copy" /\ k # NoJob /\ mem'[r] = t
    BY <1>0, <1>2, <1>3, <1>7, <2>2 DEF Enter, VariablesTyped, NoJob
  <2>4. JobSound(r, p, b, k)'  BY <2>2, <2>3 DEF JobSound
  <2> QED BY <1>3, <1>4, <1>7, <2>2, <2>4, CaptureStep
<1>8. [[job[r] EXCEPT !.msgs = mem[r]] EXCEPT !.path = RecoveryPath(p, mem[r], NoRuntime)]
         = [j EXCEPT !.msgs = t, !.path = RecoveryPath(p, t, NoRuntime)]
  OBVIOUS
<1> QED BY <1>5, <1>6, <1>7, <1>8 DEF Recover

LEMMA BeginCopy_Sound == ASSUME SaveInv, NEW r \in Runtime, BeginCopy(r) PROVE SaveInv'
<1> PICK p, b, j : path[r] = p /\ persisted[r] = b /\ job[r] = j  OBVIOUS
<1>0. VariablesTyped  BY DEF SaveInv
<1>1. j \in JobRecord /\ JobSound(r, p, b, j) /\ stage[r] = "copy" /\ Holders(j.path) = {}
  BY JobNow DEF BeginCopy
<1>2. j.path # main /\ ("captured" \notin edited[r] => mem[r] = j.msgs)  BY <1>1 DEF JobSound
<1>3. PICK w \in {<<"meta">>, <<"anchor", "meta">>, <<"append", "anchor", "meta">>} :
         /\ Enter(r, "writing", [j EXCEPT !.todo = w])
         /\ w = <<"meta">> => Stored(j.path) = j.msgs
         /\ w = <<"anchor", "meta">> => Files(j.path).head = "foreign"
  BY DEF BeginCopy
<1> PICK k : k = [j EXCEPT !.todo = w]  OBVIOUS
<1>4. w \in Plan /\ Last(w) = "meta" /\ Head(w) \in {"meta", "anchor", "append"}
      /\ (Head(w) = "meta" => w = <<"meta">>) /\ (Head(w) = "anchor" => w = <<"anchor", "meta">>)
  BY <1>3, PlansWritten
<1>5. k \in JobRecord /\ k.path = j.path /\ k.msgs = j.msgs /\ k.todo = w
  BY <1>1, <1>4 DEF JobRecord
<1>6. k # NoJob  BY <1>2, <1>5 DEF NoJob
<1>7. UNCHANGED <<mem, edited, rewritten, compacting, persisted, path, disk, ledger,
                  matching, edits, started, faults>>
  BY DEF BeginCopy, sessionVars, baseVars, storeVars
<1>8. Files(j.path)' = Files(j.path) /\ Stored(j.path)' = Stored(j.path)
  BY <1>7, QuietFiles, KeptFile DEF SaveInv, Keeps
<1>9. WriteSound(p, b, k)'
  <2>1. Head(w) = "anchor" => Files(k.path)'.head # "native"  BY <1>3, <1>4, <1>5, <1>8
  <2>2. Head(w) = "meta" => Stored(k.path)' = k.msgs  BY <1>3, <1>4, <1>5, <1>8
  <2>3. Head(w) # "mark" /\ Head(w) # "record"  BY <1>4
  <2> QED BY <1>2, <1>4, <1>5, <2>1, <2>2, <2>3 DEF WriteSound
<1>10. stage'[r] = "writing" /\ "writing" \in Stage
  BY <1>0, <1>3 DEF Enter, VariablesTyped, Stage
<1>11. JobSound(r, p, b, k)'  BY <1>2, <1>5, <1>6, <1>7, <1>9, <1>10 DEF JobSound
<1> QED BY <1>1, <1>3, <1>5, <1>7, <1>10, <1>11, PassOn

LEMMA LockTimeout_Sound == ASSUME SaveInv, NEW r \in Runtime, LockTimeout(r) PROVE SaveInv'
<1> PICK p, b, j, t : path[r] = p /\ persisted[r] = b /\ job[r] = j /\ mem[r] = t  OBVIOUS
<1>0. VariablesTyped  BY DEF SaveInv
<1>1. j \in JobRecord /\ p \in Path /\ t \in Text  BY <1>0, JobNow, RuntimeTyped
<1>2. Capture(r) /\ UNCHANGED <<mem, compacting, persisted, path, disk, ledger, matching, edits,
                                started, faults>>
  BY DEF LockTimeout, baseVars, storeVars
<1>3. CASE Idle(r)  BY <1>0, <1>2, <1>3, IdleIsEnter, NothingTyped, CaptureStep
<1>4. CASE Enter(r, "copy", [j EXCEPT !.path = RecoveryPath(p, t, r), !.msgs = t])
  <2> PICK k : k = [j EXCEPT !.path = RecoveryPath(p, t, r), !.msgs = t]  OBVIOUS
  <2>1. RecoveryPath(p, t, r) \in Path /\ RecoveryPath(p, t, r) # main  BY <1>1, CopyPath
  <2>2. k \in JobRecord /\ k.path # main /\ k.msgs = t  BY <1>1, <2>1 DEF JobRecord
  <2>3. stage'[r] = "copy" /\ k # NoJob /\ mem'[r] = t /\ "copy" \in Stage
    BY <1>0, <1>2, <1>4, <2>2 DEF Enter, VariablesTyped, NoJob, Stage
  <2>4. JobSound(r, p, b, k)'  BY <2>2, <2>3 DEF JobSound
  <2> QED BY <1>2, <1>4, <2>2, <2>3, <2>4, CaptureStep
<1> QED BY <1>3, <1>4 DEF LockTimeout

-----------------------------------------------------------------------------
(* What a save may plan.                                                   *)
LEMMA FullRewriteIs ==
    ASSUME NEW p, NEW w \in FullRewrite(p) \cup Appending(p)
    PROVE  /\ w \in Plan /\ Last(w) = "record" /\ Head(w) \in {"anchor", "append", "compact"}
           /\ Head(w) = "anchor" => Files(p).head = "foreign"
<1>1. \/ w = <<"anchor", "record">> /\ Files(p).head = "foreign"
      \/ w = <<"append", "anchor", "record">> \/ w = <<"compact", "anchor", "record">>
      \/ w = <<"append", "record">>
  BY DEF FullRewrite, Appending
<1> QED BY <1>1, PlansWritten, Zenon

LEMMA NothingContinuesNone == ASSUME NEW t \in Text PROVE ~ IsPrefix(NoTranscript, t)
<1> SUFFICES ASSUME IsPrefix(NoTranscript, t) PROVE FALSE  OBVIOUS
<1>1. Len(t) >= 1 /\ t \in Seq(1..MaxEdit)  BY DEF IsPrefix, NoTranscript, Text
<1>2. SubSeq(NoTranscript, 1, 1)[1] = 0 /\ SubSeq(t, 1, 1)[1] = t[1]
  BY <1>1 DEF NoTranscript
<1>3. t[1] = 0  BY <1>2 DEF IsPrefix, NoTranscript
<1>4. t[1] \in 1..MaxEdit
  <2>1. 1 \in 1..Len(t)  BY <1>1
  <2> QED BY <1>1, <2>1, ElementOfSeq
<1> QED BY <1>3, <1>4, BoundAssumption

LEMMA PlansCases ==
    ASSUME NEW r, NEW p, NEW mode, NEW w \in Plans(r, p, mode), mem[r] \in Text
    PROVE  \/ mode = "force" /\ Files(p).head = "native" /\ w = <<"compact", "anchor", "record">>
           \/ mode = "force" /\ Files(p).head # "native" /\ w = <<"anchor", "record">>
           \/ mode # "force" /\ Stored(p) = NoTranscript /\ w \in FullRewrite(p)
           \/ /\ mode # "force" /\ Stored(p) = mem[r]
              /\ \/ w = <<"mark">> /\ LedgerDigest(p) \in {NoTranscript, mem[r]}
                 \/ w = <<"record">>
           \/ /\ mode # "force" /\ Stored(p) # NoTranscript /\ IsPrefix(Stored(p), mem[r])
              /\ ~ Resurrects(r, p) /\ w \in Appending(p)
           \/ mode # "force" /\ Owns(r, p) /\ w \in FullRewrite(p)
<1>1. CASE mode = "force"  BY <1>1, Zenon DEF Plans
<1>2. CASE mode # "force" /\ Stored(p) = NoTranscript
  <2>1. \/ w \in FullRewrite(p)
        \/ Stored(p) = mem[r] /\ w \in {IF LedgerDigest(p) \in {NoTranscript, mem[r]}
                                          THEN <<"mark">> ELSE <<"record">>}
    BY <1>2, NoTextIsNone, NothingContinuesNone DEF Plans
  <2> QED BY <1>2, <2>1
<1>3. CASE mode # "force" /\ Stored(p) # NoTranscript /\ Stored(p) = mem[r]
  <2>1. w \in {IF LedgerDigest(p) \in {NoTranscript, mem[r]} THEN <<"mark">> ELSE <<"record">>}
    BY <1>3 DEF Plans
  <2> QED BY <1>3, <2>1, Zenon
<1>4. CASE /\ mode # "force" /\ Stored(p) # NoTranscript /\ Stored(p) # mem[r]
           /\ IsPrefix(Stored(p), mem[r])
  <2>1. w \in IF Resurrects(r, p) THEN {} ELSE Appending(p)
    BY <1>4 DEF Plans
  <2> QED BY <1>4, <2>1, Zenon
<1>5. CASE /\ mode # "force" /\ Stored(p) # NoTranscript /\ Stored(p) # mem[r]
           /\ ~ IsPrefix(Stored(p), mem[r])
  <2>1. w \in IF mode = "rewrite" /\ Owns(r, p) THEN FullRewrite(p) ELSE {}
    BY <1>5 DEF Plans
  <2> QED BY <1>5, <2>1, Zenon
<1> QED BY <1>1, <1>2, <1>3, <1>4, <1>5

LEMMA PlansShape ==
    ASSUME NEW r, NEW p, NEW mode, NEW w \in Plans(r, p, mode), mem[r] \in Text
    PROVE  /\ w \in Plan /\ Last(w) # "meta" /\ Head(w) # "meta"
           /\ Head(w) = "anchor" => Files(p).head # "native"
           /\ Head(w) \in {"mark", "record"} => Stored(p) = mem[r]
           /\ Head(w) = "mark" => LedgerDigest(p) \in {NoTranscript, mem[r]}
<1>1. CASE w \in FullRewrite(p) \cup Appending(p)  BY <1>1, FullRewriteIs
<1>2. CASE mode = "force" /\ Files(p).head = "native" /\ w = <<"compact", "anchor", "record">>
  BY <1>2, PlansWritten, Zenon
<1>3. CASE mode = "force" /\ Files(p).head # "native" /\ w = <<"anchor", "record">>
  BY <1>3, PlansWritten, Zenon
<1>4. CASE Stored(p) = mem[r] /\ w = <<"mark">> /\ LedgerDigest(p) \in {NoTranscript, mem[r]}
  BY <1>4, PlansWritten, Zenon
<1>5. CASE Stored(p) = mem[r] /\ w = <<"record">>
  BY <1>5, PlansWritten, Zenon
<1> QED BY <1>1, <1>2, <1>3, <1>4, <1>5, PlansCases

LEMMA BaseIs ==
    ASSUME NEW r, NEW p, NEW b, persisted[r] = b
    PROVE  /\ b.ok /\ b.path = p => Base(r, p) = b
           /\ Base(r, p).ok => Base(r, p) = b /\ b.ok /\ b.path = p
BY DEF Base, NoBase

(* Nothing but a forced save replaces what the runtime does not know.      *)
LEMMA PlansAuthorised ==
    ASSUME SaveInv, NEW r \in Runtime, NEW p, NEW b, NEW t, NEW mode,
           path[r] = p, persisted[r] = b, mem[r] = t, mode # "force",
           Plans(r, p, mode) # {}, NEW j, j.path = p, j.msgs = t
    PROVE  Authorised(b, j) /\ BringsNothingBack(b, j)
<1>0. t \in Text /\ b \in BaseRecord /\ (~ b.ok => b.revision = 0)
  BY RuntimeTyped DEF SaveInv, RuntimeSound, BaseSound
<1>1. FileSound(p)  BY EveryFileSound DEF SaveInv
<1>2. Digests(p) \in Seq(Text) /\ (Digests(p) # <<>> => Stored(p) # NoTranscript)
      /\ Stored(p) \in Transcript
  BY <1>1, StoredShape DEF FileSound
<1>3. b.path = p /\ Sound(b) =>
         b.ok /\ Base(r, p) = b /\ b.digest \in Text /\ Digests(p) # <<>>
  <2> SUFFICES ASSUME b.path = p, Sound(b)
               PROVE  b.ok /\ Base(r, p) = b /\ b.digest \in Text /\ Digests(p) # <<>>
    OBVIOUS
  <2>1. b.revision \in DOMAIN Digests(p) /\ Digests(p)[b.revision] = b.digest  BY DEF Sound
  <2>2. b.revision \in 1..Len(Digests(p))  BY <1>2, <2>1
  <2>3. b.ok  BY <1>0, <2>2
  <2>4. Base(r, p) = b  BY <2>3, BaseIs
  <2>5. b.digest \in Text  BY <1>2, <2>1, <2>2
  <2>6. Digests(p) # <<>>  BY <2>2
  <2> QED BY <2>3, <2>4, <2>5, <2>6
<1>4. CASE Stored(p) = NoTranscript
  BY <1>2, <1>3, <1>4 DEF Authorised, BringsNothingBack
<1>5. CASE Stored(p) = t
  <2>1. Authorised(b, j)  BY <1>0, <1>5, PrefixOfItself DEF Authorised
  <2>2. BringsNothingBack(b, j)  BY <1>5 DEF BringsNothingBack
  <2> QED BY <2>1, <2>2
<1>6. CASE Stored(p) # NoTranscript /\ Stored(p) # t /\ IsPrefix(Stored(p), t)
           /\ ~ Resurrects(r, p)
  <2>1. Authorised(b, j)  BY <1>6 DEF Authorised
  <2>2. ASSUME b.path = p, Sound(b)
        PROVE  Removed(p) \cap Messages(b.digest) \cap Messages(t) \subseteq Messages(Stored(p))
    <3>1. CASE b.revision = Revision(p)
      <4>1. LedgerDigest(p) = Digests(p)[Len(Digests(p))]
        BY <1>3, <2>2 DEF LedgerDigest, Last
      <4>2. b.digest = LedgerDigest(p)  BY <2>2, <3>1, <4>1 DEF Sound, Revision
      <4> QED BY <4>2 DEF Removed
    <3>2. CASE CoversBase(t, Stored(p), b.digest)
      <4>1. Len(b.digest) <= Len(Stored(p)) /\ IsPrefix(b.digest, t)
        <5>1. Stored(p) \in Text /\ b.digest \in Text
          BY <1>2, <1>3, <1>6, <2>2 DEF Transcript
        <5> QED BY <3>2, <5>1 DEF CoversBase, Text
      <4>2. Stored(p) \in Text /\ b.digest \in Text
        BY <1>2, <1>3, <1>6, <2>2 DEF Transcript
      <4>3. Messages(b.digest) \subseteq Messages(Stored(p))
        BY <1>0, <1>6, <4>1, <4>2, PrefixesAgree
      <4> QED BY <4>3
    <3> QED BY <1>3, <1>6, <2>2, <3>1, <3>2 DEF Resurrects
  <2>3. BringsNothingBack(b, j)  BY <2>2 DEF BringsNothingBack
  <2> QED BY <2>1, <2>3
<1>7. CASE Owns(r, p)
  <2>1. b.ok /\ b.path = p /\ b.digest = Stored(p)  BY <1>7, BaseIs DEF Owns
  <2> QED BY <2>1 DEF Authorised, BringsNothingBack
<1>8. PICK w : w \in Plans(r, p, mode)  OBVIOUS
<1>9. \/ Stored(p) = NoTranscript \/ Stored(p) = t \/ Owns(r, p)
      \/ Stored(p) # NoTranscript /\ IsPrefix(Stored(p), t) /\ ~ Resurrects(r, p)
  BY <1>0, <1>8, PlansCases
<1> QED BY <1>4, <1>5, <1>6, <1>7, <1>9

(* A conflict is with a transcript that is there.                          *)
LEMMA ConflictIsWithAFile ==
    ASSUME NEW r, NEW p, NEW mode, Plans(r, p, mode) = {}, mem[r] \in Text
    PROVE  mode # "force" /\ Stored(p) # NoTranscript
<1>1. \E w : w \in FullRewrite(p)  BY DEF FullRewrite
<1>2. mode # "force"
  <2>1. mode = "force" =>
           Plans(r, p, mode) = {IF Files(p).head = "native" THEN <<"compact", "anchor", "record">>
                                                            ELSE <<"anchor", "record">>}
    BY Zenon DEF Plans
  <2> QED BY <2>1, Zenon
<1>3. ASSUME Stored(p) = NoTranscript PROVE FALSE
  <2>1. \/ Plans(r, p, mode) = FullRewrite(p)
        \/ Plans(r, p, mode) = {IF LedgerDigest(p) \in {NoTranscript, mem[r]}
                                    THEN <<"mark">> ELSE <<"record">>}
    BY <1>2, <1>3, NoTextIsNone, NothingContinuesNone DEF Plans
  <2> QED BY <1>1, <2>1, Zenon
<1> QED BY <1>2, <1>3

(* The repair at the start of a save changes no transcript.                *)
LEMMA RepairEffect ==
    ASSUME FilesSound, NEW p \in DOMAIN disk, disk' = [disk EXCEPT ![p] = Repaired(@)],
           UNCHANGED ledger
    PROVE  /\ Touches(p) /\ FileSound(p)' /\ DOMAIN disk' = DOMAIN disk
           /\ Files(p)' = Repaired(Files(p)) /\ ~ Files(p)'.torn /\ Files(p)'.head = Files(p).head
           /\ Stored(p)' = Stored(p) /\ Digests(p)' = Digests(p)
           /\ LedgerDigest(p)' = LedgerDigest(p) /\ Removed(p)' = Removed(p)
<1>1. DOMAIN disk' = DOMAIN disk /\ Files(p)' = Repaired(Files(p))  BY DEF Files
<1>2. \A x : x # p => Files(x)' = Files(x)  BY DEF Files
<1>3. \A x : Digests(x)' = Digests(x)  BY DEF Digests
<1>4. FileSound(p) /\ Files(p) \in FileRecord  BY EveryFileSound DEF FileSound
<1>5. /\ Files(p)' \in FileRecord /\ ~ Files(p)'.torn /\ Files(p)'.head = Files(p).head
      /\ Files(p)'.log = Files(p).log /\ Files(p)'.anchor = Files(p).anchor
  <2> PICK f : f = Files(p)  OBVIOUS
  <2>1. /\ Repaired(f) \in FileRecord /\ ~ Repaired(f).torn /\ Repaired(f).head = f.head
        /\ Repaired(f).log = f.log /\ Repaired(f).anchor = f.anchor
    BY <1>4 DEF Repaired, FileRecord
  <2> QED BY <1>1, <2>1
<1>6. Stored(p)' = Stored(p)  BY <1>5 DEF Stored
<1>7. LedgerDigest(p)' = LedgerDigest(p) /\ Removed(p)' = Removed(p)
  BY <1>3 DEF LedgerDigest, Removed, Recalled
<1>8. Touches(p)  BY <1>1, <1>2, <1>3, <1>6 DEF Touches, Keeps
<1>9. FileSound(p)'  BY <1>3, <1>4, <1>5, <1>6 DEF FileSound
<1> QED BY <1>1, <1>3, <1>5, <1>6, <1>7, <1>8, <1>9

LEMMA BeginSave_Sound == ASSUME SaveInv, NEW r \in Runtime, BeginSave(r) PROVE SaveInv'
<1> PICK p, b, j, t : path[r] = p /\ persisted[r] = b /\ job[r] = j /\ mem[r] = t  OBVIOUS
<1> PICK k : k = [j EXCEPT !.msgs = t]  OBVIOUS
<1>0. VariablesTyped /\ FilesSound  BY DEF SaveInv
<1>1. /\ stage[r] = "save" /\ Holders(p) = {} /\ Capture(r)
      /\ disk' = [disk EXCEPT ![p] = Repaired(@)]
      /\ matching' = IF Repaired(disk[p]) = disk[p] THEN matching ELSE Unstamped(p)
      /\ UNCHANGED <<mem, compacting, persisted, path, ledger, edits, started, faults>>
  BY DEF BeginSave, baseVars
<1>2. /\ j \in JobRecord /\ p \in Path /\ t \in Text /\ BaseSound(r, p, b) /\ p \in DOMAIN disk
      /\ j.path = p /\ j.mode # "none" /\ (j.mode = "force" => p # main)
  BY <1>0, <1>1, JobNow, RuntimeTyped DEF JobSound, BaseSound
<1>3. k \in JobRecord /\ k.path = p /\ k.msgs = t /\ k.mode = j.mode  BY <1>2 DEF JobRecord
<1>4. /\ Touches(p) /\ FileSound(p)' /\ DOMAIN disk' = DOMAIN disk
      /\ Files(p)' = Repaired(Files(p)) /\ ~ Files(p)'.torn /\ Files(p)'.head = Files(p).head
      /\ Stored(p)' = Stored(p) /\ Digests(p)' = Digests(p)
      /\ LedgerDigest(p)' = LedgerDigest(p) /\ Removed(p)' = Removed(p)
  BY <1>0, <1>1, <1>2, RepairEffect
<1>5. \A s \in matching' : s \in matching /\ (Files(p)' = Files(p) \/ persisted[s].path # p)
  <2>1. disk[p] = Files(p)  BY <1>2 DEF Files
  <2> QED BY <1>0, <1>1, <1>4, <2>1 DEF Unstamped, VariablesTyped
<1>6. Stamps(r, p) /\ Alone(r, p)  BY <1>1, <1>5 DEF Stamps, Alone, Holders
<1>7. /\ edited' \in [Runtime -> SUBSET Moments] /\ rewritten' \in [Runtime -> SUBSET Moments]
      /\ \A s \in Runtime : s # r => edited'[s] = edited[s]
      /\ "saved" \notin edited'[r] => "saved" \notin edited[r]
  BY <1>0, <1>1, CaptureEffect
<1>8. BaseSound(r, p, b)'  BY <1>1, <1>2, <1>4, <1>5, <1>7, BaseKept
<1>9. DOMAIN disk' \subseteq Path  BY <1>0, <1>4 DEF FilesSound
<1>10. ASSUME NEW where \in Stage, NEW c \in JobRecord, Enter(r, where, c), JobSound(r, p, b, c)',
              where = "writing" => c.path = p
       PROVE  SaveInv'
  <2>1. /\ stage'[r] = where /\ job'[r] = c
        /\ \A s \in Runtime : s # r => stage'[s] = stage[s] /\ job'[s] = job[s]
        /\ stage' \in [Runtime -> Stage] /\ job' \in [Runtime -> JobRecord]
    BY <1>0, <1>10, EnterEffect
  <2>2. matching' \subseteq Runtime  BY <1>0, <1>5 DEF VariablesTyped
  <2>3. VariablesTyped'  BY <1>0, <1>1, <1>7, <2>1, <2>2 DEF VariablesTyped
  <2>4. \A s \in Runtime : s # r => Untouched(s)  BY <1>1, <1>7, <2>1 DEF Untouched
  <2>5. RuntimeSound(r)'  BY <1>1, <1>8, <1>10, <2>1, JobIs
  <2>6. stage'[r] = "writing" => Holders(job'[r].path) = {}  BY <1>1, <1>10, <2>1
  <2> QED BY <1>4, <1>6, <1>9, <2>3, <2>4, <2>5, <2>6, StepSound
<1>11. k # NoJob  BY <1>2, <1>3 DEF NoJob
<1>12. "writing" \in Stage /\ "conflict" \in Stage  BY DEF Stage
<1>13. ASSUME NEW w \in Plans(r, p, j.mode), Enter(r, "writing", [k EXCEPT !.todo = w])
       PROVE  SaveInv'
  <2> PICK c : c = [k EXCEPT !.todo = w]  OBVIOUS
  <2>1. /\ w \in Plan /\ Last(w) # "meta" /\ Head(w) # "meta"
        /\ Head(w) = "anchor" => Files(p).head # "native"
        /\ Head(w) \in {"mark", "record"} => Stored(p) = t
        /\ Head(w) = "mark" => LedgerDigest(p) \in {NoTranscript, t}
    BY <1>2, <1>13, PlansShape
  <2>2. c \in JobRecord /\ c.path = p /\ c.msgs = t /\ c.mode = j.mode /\ c.todo = w
    BY <1>3, <2>1 DEF JobRecord
  <2>3. c.mode # "force" => Authorised(b, c) /\ BringsNothingBack(b, c)
    BY <1>13, <2>2, PlansAuthorised
  <2>4. WriteSound(p, b, c)'
    <3>1. Authorised(b, c) => Authorised(b, c)'  BY <1>4, <2>2 DEF Authorised
    <3>2. BringsNothingBack(b, c) => BringsNothingBack(b, c)'
      <4>1. b.path = p => (Sound(b)' <=> Sound(b))  BY <1>4 DEF Sound
      <4> QED BY <1>4, <2>2, <4>1 DEF BringsNothingBack
    <3>3. Head(w) = "anchor" => Files(c.path)'.head # "native"  BY <1>4, <2>1, <2>2
    <3>4. Head(w) \in {"mark", "record", "meta"} => Stored(c.path)' = c.msgs
      BY <1>4, <2>1, <2>2
    <3>5. Head(w) = "mark" => LedgerDigest(c.path)' \in {NoTranscript, c.msgs}
      BY <1>4, <2>1, <2>2
    <3>6. ~ Files(c.path)'.torn /\ (c.mode = "force" => c.path # main)  BY <1>2, <1>4, <2>2
    <3> QED BY <2>1, <2>2, <2>3, <3>1, <3>2, <3>3, <3>4, <3>5, <3>6 DEF WriteSound
  <2>5. c # NoJob /\ stage'[r] = "writing" /\ mem'[r] = t
    BY <1>0, <1>1, <1>2, <1>13, <2>2 DEF NoJob, Enter, VariablesTyped
  <2>6. JobSound(r, p, b, c)'  BY <2>2, <2>4, <2>5 DEF JobSound
  <2> QED BY <1>10, <1>12, <1>13, <2>2, <2>6
<1>14. ASSUME Idle(r) PROVE SaveInv'
  <2>1. Enter(r, "idle", NoJob) /\ "idle" \in Stage /\ JobSound(r, p, b, NoJob)'
    BY <1>0, <1>14, IdleIsEnter
  <2> QED BY <1>10, <2>1, NothingTyped
<1>15. ASSUME Plans(r, p, j.mode) = {}, NEW kind \in {"stale prefix", "diverged"},
              Enter(r, "conflict", [k EXCEPT !.kind = kind])
       PROVE  SaveInv'
  <2> PICK c : c = [k EXCEPT !.kind = kind]  OBVIOUS
  <2>1. c \in JobRecord /\ c.path = p /\ c.mode = j.mode  BY <1>3 DEF JobRecord
  <2>2. c # NoJob /\ stage'[r] = "conflict"
    BY <1>0, <1>2, <1>15, <2>1 DEF NoJob, Enter, VariablesTyped
  <2>3. Stored(p)' # NoTranscript  BY <1>2, <1>4, <1>15, ConflictIsWithAFile
  <2>4. JobSound(r, p, b, c)'  BY <1>2, <2>1, <2>2, <2>3 DEF JobSound
  <2> QED BY <1>10, <1>12, <1>15, <2>1, <2>4
<1>16. \/ \E w \in Plans(r, p, j.mode) : Enter(r, "writing", [k EXCEPT !.todo = w])
       \/ Idle(r)
       \/ Plans(r, p, j.mode) = {} /\ Enter(r, "conflict", [k EXCEPT !.kind = Kind(t, Stored(p))])
  BY DEF BeginSave
<1>17. Kind(t, Stored(p)) \in {"stale prefix", "diverged"}  BY DEF Kind
<1> QED BY <1>13, <1>14, <1>15, <1>16, <1>17

-----------------------------------------------------------------------------
(* The writes.                                                             *)
LEMMA WriteEffect ==
    ASSUME FilesSound, NEW q \in Path, NEW f \in FileRecord, f.torn => f.head = "native",
           disk' = [x \in DOMAIN disk \cup {q} |-> IF x = q THEN f ELSE disk[x]],
           UNCHANGED ledger,
           NEW s, s = IF f.head = "native" THEN f.log ELSE f.anchor,
           Stored(q) # NoTranscript => s # NoTranscript
    PROVE  /\ Touches(q) /\ FileSound(q)' /\ DOMAIN disk' \subseteq Path
           /\ Files(q)' = f /\ Stored(q)' = s /\ Digests(q)' = Digests(q)
           /\ Removed(q)' = Removed(q)
<1>1. DOMAIN disk' = DOMAIN disk \cup {q} /\ Files(q)' = f  BY DEF Files
<1>2. \A x : x # q => Files(x)' = Files(x)  BY DEF Files
<1>3. \A x : Digests(x)' = Digests(x)  BY DEF Digests
<1>4. Stored(q)' = s  BY <1>1 DEF Stored
<1>5. Touches(q)  BY <1>1, <1>2, <1>3, <1>4 DEF Touches, Keeps
<1>6. FileSound(q)  BY EveryFileSound
<1>7. FileSound(q)'  BY <1>1, <1>3, <1>4, <1>6 DEF FileSound
<1>8. Removed(q)' = Removed(q)  BY <1>3 DEF Removed, Recalled, LedgerDigest
<1> QED BY <1>1, <1>3, <1>4, <1>5, <1>7, <1>8 DEF FilesSound

LEMMA WrittenIs ==
    ASSUME NEW f \in FileRecord, f.torn => f.head = "native", NEW t \in Text,
           NEW what \in {"append", "compact", "anchor"}, NEW g, g = Written(f, what, t)
    PROVE  /\ g \in FileRecord /\ (g.torn => g.head = "native" /\ f.torn)
           /\ \/ g.head = "native" /\ g.log = t
              \/ g.head # "native" /\ g.anchor = t
              \/ f.head = "native" /\ g.head = "native" /\ g.log = f.log
           /\ what = "append" => g.torn \/ g.log = t
           /\ what = "compact" => g.log = t
           /\ what \in {"append", "compact"} => g.torn \/ g.head = "native"
           /\ what = "anchor" => /\ g.torn = f.torn /\ g.head = f.head /\ g.log = f.log
                                 /\ g.anchor = t
<1>1. CASE what = "append"  BY <1>1 DEF Written, FileRecord, Transcript
<1>2. CASE what = "compact"  BY <1>2 DEF Written, FileRecord, Transcript
<1>3. CASE what = "anchor"  BY <1>3 DEF Written, FileRecord, Transcript
<1> QED BY <1>1, <1>2, <1>3

LEMMA TornIs ==
    ASSUME NEW f \in FileRecord, f.torn => f.head = "native", NEW g, g = Torn(f)
    PROVE  /\ g \in FileRecord /\ (g.torn => g.head = "native")
           /\ \/ f.head = "native" /\ g.head = "native" /\ g.log = f.log
              \/ f.head # "native" /\ g.head # "native" /\ g.anchor = f.anchor
BY DEF Torn, FileRecord

LEMMA RecordEffect ==
    ASSUME FilesSound, NEW q, NEW d \in Seq(Text), Stored(q) # NoTranscript, Record(q, d),
           UNCHANGED disk
    PROVE  /\ Touches(q) /\ FileSound(q)' /\ DOMAIN disk' \subseteq Path
           /\ Digests(q)' = d /\ Stored(q)' = Stored(q)
           /\ \A x : Files(x)' = Files(x)
<1>1. \A x : Files(x)' = Files(x)  BY DEF Files
<1>2. DOMAIN ledger' = DOMAIN ledger \cup {q} /\ ledger'[q] = d
      /\ \A x : x \in DOMAIN ledger /\ x # q => ledger'[x] = ledger[x]
  BY DEF Record
<1>3. Digests(q)' = d /\ \A x : x # q => Digests(x)' = Digests(x)  BY <1>2 DEF Digests
<1>4. Stored(q)' = Stored(q)  BY <1>1 DEF Stored
<1>5. Touches(q)  BY <1>1, <1>3, <1>4 DEF Touches, Keeps
<1>6. FileSound(q)  BY EveryFileSound
<1>7. FileSound(q)'  BY <1>1, <1>3, <1>4, <1>6 DEF FileSound
<1> QED BY <1>1, <1>3, <1>4, <1>5, <1>7 DEF FilesSound

LEMMA RecordedIs ==
    ASSUME NEW d \in Seq(Text), NEW t \in Text, NEW what \in {"mark", "record", "meta"}
    PROVE  Recorded(d, what, t) \in Seq(Text)
BY DEF Recorded

(* At the end of a save, before it is recorded.                            *)
LEMMA SavedSoFar ==
    ASSUME SaveInv, NEW r \in Runtime, stage[r] = "writing", NEW j, job[r] = j,
           Head(j.todo) \in {"mark", "record", "meta"}
    PROVE  /\ j \in JobRecord /\ j.path \in DOMAIN disk /\ Stored(j.path) # NoTranscript
           /\ Readable(j.path) => Stored(j.path) = j.msgs
           /\ j.path = main => path[r] = main
           /\ Recorded(Digests(j.path), Head(j.todo), j.msgs) \in Seq(Text)
<1> PICK p, b : path[r] = p /\ persisted[r] = b  OBVIOUS
<1>1. j \in JobRecord /\ WriteSound(p, b, j)  BY JobNow DEF JobSound
<1>2. FileSound(j.path) /\ Stored(j.path) \in Transcript
  BY EveryFileSound, StoredShape DEF SaveInv, FileSound
<1>3. Files(j.path).torn \/ Stored(j.path) = j.msgs  BY <1>1 DEF WriteSound
<1>4. Files(j.path).torn => Stored(j.path) \in Text
  BY <1>2 DEF FileSound, Stored, FileRecord
<1>5. j.msgs \in Text  BY <1>1 DEF JobRecord
<1>6. Stored(j.path) \in Text  BY <1>3, <1>4, <1>5
<1>7. Stored(j.path) # NoTranscript /\ j.path \in DOMAIN disk
  BY <1>2, <1>6, NoTextIsNone, StoredShape DEF FileSound
<1>8. Files(j.path).torn => j.path # main
  BY <1>1, PlanShape DEF WriteSound
<1>9. j.path = main => p = main  BY <1>1 DEF WriteSound
<1>10. Recorded(Digests(j.path), Head(j.todo), j.msgs) \in Seq(Text)
  BY <1>2, <1>5, RecordedIs DEF FileSound
<1> QED BY <1>1, <1>3, <1>7, <1>8, <1>9, <1>10 DEF Readable

LEMMA WriterIsAlone ==
    ASSUME SaveInv, NEW r \in Runtime, stage[r] = "writing", NEW q, job[r].path = q
    PROVE  Alone(r, q)
BY DEF SaveInv, OneWriter, Alone

(* The stamps of the others no longer match what is written.               *)
LEMMA OthersUnstamped ==
    ASSUME SaveInv, NEW r \in Runtime, NEW q, matching' \subseteq Unstamped(q)
    PROVE  /\ Stamps(r, q) /\ matching' \subseteq Runtime
           /\ \A s \in matching' : s \in matching /\ persisted[s].path # q
BY DEF SaveInv, VariablesTyped, Stamps, Unstamped

LEMMA WriteFile_Sound == ASSUME SaveInv, NEW r \in Runtime, WriteFile(r) PROVE SaveInv'
<1> PICK p, b, j : path[r] = p /\ persisted[r] = b /\ job[r] = j  OBVIOUS
<1> PICK q, t, w : j.path = q /\ j.msgs = t /\ j.todo = w  OBVIOUS
<1> PICK f, g, k, d : /\ f = Files(q) /\ g = Written(f, Head(w), t)
                   /\ k = [j EXCEPT !.todo = Tail(@)]
                   /\ d = IF g.head = "native" THEN g.log ELSE g.anchor
  OBVIOUS
<1>0. VariablesTyped /\ FilesSound  BY DEF SaveInv
<1>1. /\ stage[r] = "writing" /\ Head(w) \in {"append", "compact", "anchor"}
      /\ WriteTo(q, g) /\ job' = [job EXCEPT ![r].todo = Tail(@)]
      /\ UNCHANGED <<mem, edited, rewritten, compacting, persisted, path, ledger, stage, edits,
                     started, faults>>
  BY DEF WriteFile, sessionVars, baseVars
<1>2. /\ j \in JobRecord /\ p \in Path /\ b \in BaseRecord /\ BaseSound(r, p, b)
      /\ JobSound(r, p, b, j) /\ WriteSound(p, b, j)
  BY <1>1, JobNow DEF JobSound
<1>3. q \in Path /\ t \in Text /\ w \in Plan /\ t # NoTranscript
  BY <1>2, NoTextIsNone DEF JobRecord, WriteSound
<1>4. /\ Tail(w) \in Plan /\ Last(Tail(w)) = Last(w)
      /\ Head(Tail(w)) \in {"anchor", "record", "meta"}
      /\ Head(w) = "anchor" => Head(Tail(w)) \in {"record", "meta"}
  BY <1>1, <1>3, PlanShape
<1>5. k \in JobRecord /\ k.path = q /\ k.msgs = t /\ k.todo = Tail(w) /\ k.mode = j.mode
  BY <1>2, <1>4 DEF JobRecord
<1>6. f \in FileRecord /\ (f.torn => f.head = "native")
      /\ Stored(q) = (IF f.head = "native" THEN f.log ELSE f.anchor)
  BY <1>0, EveryFileSound DEF FileSound, Stored
<1>7. /\ g \in FileRecord /\ (g.torn => g.head = "native" /\ f.torn)
      /\ \/ g.head = "native" /\ g.log = t
         \/ g.head # "native" /\ g.anchor = t
         \/ f.head = "native" /\ g.head = "native" /\ g.log = f.log
      /\ Head(w) = "append" => g.torn \/ g.log = t
      /\ Head(w) = "compact" => g.log = t
      /\ Head(w) \in {"append", "compact"} => g.torn \/ g.head = "native"
      /\ Head(w) = "anchor" => /\ g.torn = f.torn /\ g.head = f.head /\ g.log = f.log
                               /\ g.anchor = t
  BY <1>1, <1>3, <1>6, WrittenIs
<1>8. d \in {Stored(q), t}  BY <1>6, <1>7
<1>9. disk' = [x \in DOMAIN disk \cup {q} |-> IF x = q THEN g ELSE disk[x]]
      /\ matching' = Unstamped(q)
  BY <1>1 DEF WriteTo
<1>10. /\ Touches(q) /\ FileSound(q)' /\ DOMAIN disk' \subseteq Path
       /\ Files(q)' = g /\ Stored(q)' = d /\ Digests(q)' = Digests(q)
       /\ Removed(q)' = Removed(q)
  BY <1>0, <1>1, <1>3, <1>7, <1>8, <1>9, WriteEffect
<1>11. /\ Stamps(r, q) /\ matching' \subseteq Runtime
       /\ \A s \in matching' : s \in matching /\ persisted[s].path # q
  BY <1>9, OthersUnstamped
<1>12. Alone(r, q)  BY <1>1, WriterIsAlone
<1>13. /\ job' \in [Runtime -> JobRecord] /\ job'[r] = k
       /\ \A s \in Runtime : s # r => job'[s] = job[s]
  BY <1>0, <1>1, <1>5 DEF VariablesTyped
<1>14. VariablesTyped'  BY <1>0, <1>1, <1>11, <1>13 DEF VariablesTyped
<1>15. \A s \in Runtime : s # r => Untouched(s)  BY <1>1, <1>13 DEF Untouched
<1>16. BaseSound(r, p, b)'  BY <1>1, <1>2, <1>10, <1>11, BaseKept
<1>17. WriteSound(p, b, k)'
  <2>1. ASSUME Authorised(b, j) PROVE Authorised(b, k)'
    <3>1. CASE d = t  BY <1>3, <1>5, <1>10, <3>1, PrefixOfItself DEF Authorised
    <3>2. CASE d = Stored(q)  BY <1>5, <1>10, <2>1, <3>2 DEF Authorised
    <3> QED BY <1>8, <3>1, <3>2
  <2>2. ASSUME BringsNothingBack(b, j) PROVE BringsNothingBack(b, k)'
    <3>1. b.path = q => (Sound(b)' <=> Sound(b))  BY <1>10 DEF Sound
    <3>2. CASE d = t  BY <1>5, <1>10, <3>2 DEF BringsNothingBack
    <3>3. CASE d = Stored(q)  BY <1>5, <1>10, <2>2, <3>1, <3>3 DEF BringsNothingBack
    <3> QED BY <1>8, <3>2, <3>3
  <2>3. Last(k.todo) = "meta" => q # main  BY <1>2, <1>4, <1>5 DEF WriteSound
  <2>4. Last(k.todo) # "meta" =>
           /\ q = p /\ ~ g.torn /\ (k.mode = "force" => q # main)
           /\ k.mode # "force" => Authorised(b, k)' /\ BringsNothingBack(b, k)'
    BY <1>2, <1>4, <1>5, <1>7, <2>1, <2>2 DEF WriteSound
  <2>5. Head(k.todo) = "anchor" => g.torn \/ g.head # "native" \/ g.log = t
    BY <1>1, <1>4, <1>5, <1>7
  <2>6. Head(k.todo) \in {"record", "meta"} => g.torn \/ d = t
    <3>1. CASE Head(w) \in {"append", "compact"}  BY <1>7, <3>1
    <3>2. CASE Head(w) = "anchor"
      <4>1. f.torn \/ f.head # "native" \/ f.log = t  BY <1>2, <3>2 DEF WriteSound
      <4> QED BY <1>6, <1>7, <3>2, <4>1
    <3> QED BY <1>1, <3>1, <3>2
  <2>7. Head(k.todo) # "mark"  BY <1>4, <1>5
  <2> QED BY <1>4, <1>5, <1>10, <2>3, <2>4, <2>5, <2>6, <2>7 DEF WriteSound
<1>18. JobSound(r, p, b, k)'
  <2>1. k # NoJob  BY <1>3, <1>4, <1>5, PlanShape DEF NoJob
  <2>2. "captured" \notin edited'[r] => mem'[r] = k.msgs  BY <1>1, <1>2, <1>5 DEF JobSound
  <2> QED BY <1>1, <1>17, <2>1, <2>2 DEF JobSound
<1>19. RuntimeSound(r)'  BY <1>1, <1>13, <1>16, <1>18, JobIs
<1>20. stage'[r] = "writing" => stage[r] = "writing" /\ job'[r].path = job[r].path
  BY <1>1, <1>5, <1>13
<1> QED BY <1>10, <1>11, <1>12, <1>14, <1>15, <1>19, <1>20, StepSound

(* A write that fails leaves a runtime that comes to rest.                 *)
LEMMA FailStep ==
    ASSUME SaveInv, NEW r \in Runtime, NEW q, stage[r] = "writing", job[r].path = q,
           Idle(r), Touches(q), FileSound(q)', DOMAIN disk' \subseteq Path,
           \A s \in matching' : s \in matching /\ (Files(q)' = Files(q) \/ persisted[s].path # q),
           UNCHANGED <<mem, edited, rewritten, compacting, persisted, path, edits, started>>,
           faults' \in 0..MaxFault
    PROVE  SaveInv'
<1> PICK p, b : path[r] = p /\ persisted[r] = b  OBVIOUS
<1>0. VariablesTyped  BY DEF SaveInv
<1>1. /\ stage'[r] = "idle" /\ job'[r] = NoJob
      /\ \A s \in Runtime : s # r => stage'[s] = stage[s] /\ job'[s] = job[s]
      /\ stage' \in [Runtime -> Stage] /\ job' \in [Runtime -> JobRecord]
  BY <1>0, IdleEffect
<1>2. VariablesTyped'  BY <1>0, <1>1 DEF VariablesTyped
<1>3. \A s \in Runtime : s # r => Untouched(s)  BY <1>1 DEF Untouched
<1>4. BaseSound(r, p, b)  BY DEF SaveInv, RuntimeSound
<1>5. BaseSound(r, p, b)'  BY <1>4, BaseKept
<1>6. RuntimeSound(r)'  BY <1>1, <1>5, RestSound
<1>7. Stamps(r, q) /\ Alone(r, q)  BY WriterIsAlone DEF Stamps
<1> QED BY <1>1, <1>2, <1>3, <1>6, <1>7, StepSound

LEMMA WriteFails_Sound == ASSUME SaveInv, NEW r \in Runtime, WriteFails(r) PROVE SaveInv'
<1> PICK p, b, j, q, t, w, f : /\ path[r] = p /\ persisted[r] = b /\ job[r] = j
                               /\ j.path = q /\ j.msgs = t /\ j.todo = w /\ f = Files(q)
  OBVIOUS
<1>0. VariablesTyped /\ FilesSound  BY DEF SaveInv
<1>1. /\ stage[r] = "writing" /\ Idle(r)
      /\ UNCHANGED <<mem, edited, rewritten, compacting, persisted, path, edits, started>>
      /\ faults' \in 0..MaxFault
  BY <1>0, BoundAssumption DEF WriteFails, sessionVars, baseVars, VariablesTyped
<1>2. q \in Path /\ t \in Text /\ t # NoTranscript
  <2>1. j \in JobRecord  BY JobNow
  <2> QED BY <2>1, NoTextIsNone DEF JobRecord
<1>3. f \in FileRecord /\ (f.torn => f.head = "native")
      /\ Stored(q) = (IF f.head = "native" THEN f.log ELSE f.anchor)
  BY <1>0, EveryFileSound DEF FileSound, Stored
<1>4. CASE UNCHANGED storeVars
  <2>1. UNCHANGED <<disk, ledger, matching>>  BY <1>4 DEF storeVars
  <2>2. Touches(main) /\ FileSound(main)' /\ DOMAIN disk' \subseteq Path /\ \A x : Keeps(x)
    BY <1>0, <2>1, QuietFiles
  <2>3. Touches(q)  BY <2>2, KeptFile DEF Touches
  <2>4. FileSound(q)'
    <3>1. FileSound(q) /\ Keeps(q)  BY <1>0, <2>2, EveryFileSound
    <3> QED BY <3>1, KeptFile DEF FileSound, Keeps
  <2>5. Files(q)' = Files(q)  BY <2>2 DEF Keeps
  <2> QED BY <1>1, <2>1, <2>2, <2>3, <2>4, <2>5, FailStep
<1>5. ASSUME NEW g \in FileRecord, g.torn => g.head = "native", WriteTo(q, g), UNCHANGED ledger,
             NEW d, d = IF g.head = "native" THEN g.log ELSE g.anchor, d \in {Stored(q), t}
      PROVE  SaveInv'
  <2>1. disk' = [x \in DOMAIN disk \cup {q} |-> IF x = q THEN g ELSE disk[x]]
        /\ matching' = Unstamped(q)
    BY <1>5 DEF WriteTo
  <2>2. Touches(q) /\ FileSound(q)' /\ DOMAIN disk' \subseteq Path
    BY <1>0, <1>2, <1>5, <2>1, WriteEffect
  <2>3. \A s \in matching' : s \in matching /\ persisted[s].path # q
    BY <2>1, OthersUnstamped
  <2> QED BY <1>1, <2>2, <2>3, FailStep
<1>6. ASSUME WriteTo(q, Torn(f)), UNCHANGED ledger PROVE SaveInv'
  <2> PICK g, d : g = Torn(f) /\ d = IF g.head = "native" THEN g.log ELSE g.anchor  OBVIOUS
  <2>1. g \in FileRecord /\ (g.torn => g.head = "native") /\ d = Stored(q)
    BY <1>3, TornIs
  <2> QED BY <1>5, <1>6, <2>1
<1>7. ASSUME WriteTo(q, Written(f, "append", t)), UNCHANGED ledger PROVE SaveInv'
  <2> PICK g, d : /\ g = Written(f, "append", t)
                  /\ d = IF g.head = "native" THEN g.log ELSE g.anchor
    OBVIOUS
  <2>1. /\ g \in FileRecord /\ (g.torn => g.head = "native")
        /\ \/ g.head = "native" /\ g.log = t
           \/ g.head # "native" /\ g.anchor = t
           \/ f.head = "native" /\ g.head = "native" /\ g.log = f.log
    BY <1>2, <1>3, WrittenIs
  <2>2. d \in {Stored(q), t}  BY <1>3, <2>1
  <2> QED BY <1>5, <1>7, <2>1, <2>2
<1>8. ASSUME Head(w) \in {"record", "meta"}, Record(q, Recorded(Digests(q), Head(w), t)),
             UNCHANGED <<disk, matching>>
      PROVE  SaveInv'
  <2>1. Stored(q) # NoTranscript /\ Recorded(Digests(q), Head(w), t) \in Seq(Text)
    BY <1>1, <1>8, SavedSoFar
  <2>2. /\ Touches(q) /\ FileSound(q)' /\ DOMAIN disk' \subseteq Path /\ Files(q)' = Files(q)
    BY <1>0, <1>8, <2>1, RecordEffect
  <2> QED BY <1>1, <1>8, <2>2, FailStep
<1> QED BY <1>4, <1>6, <1>7, <1>8 DEF WriteFails

LEMMA Die_Sound == ASSUME SaveInv, NEW r \in Runtime, Die(r) PROVE SaveInv'
<1> PICK j, q : job[r] = j /\ j.path = q  OBVIOUS
<1>0. VariablesTyped /\ FilesSound  BY DEF SaveInv
<1>1. Stop(r) /\ UNCHANGED <<ledger, edits, started>> /\ faults' \in 0..MaxFault
  BY <1>0, BoundAssumption DEF Die, VariablesTyped
<1>2. CASE disk' = disk /\ matching' = matching \ {r}  BY <1>1, <1>2, StopStep
<1>3. CASE /\ stage[r] = "writing"
           /\ disk' = [x \in DOMAIN disk \cup {q} |-> IF x = q THEN Torn(Files(x)) ELSE disk[x]]
           /\ matching' = Unstamped(q) \ {r}
  <2> PICK f, g, d : /\ f = Files(q) /\ g = Torn(f)
                     /\ d = IF g.head = "native" THEN g.log ELSE g.anchor
    OBVIOUS
  <2>1. disk' = [x \in DOMAIN disk \cup {q} |-> IF x = q THEN g ELSE disk[x]]  BY <1>3
  <2>2. f \in FileRecord /\ (f.torn => f.head = "native")
        /\ Stored(q) = (IF f.head = "native" THEN f.log ELSE f.anchor)
    BY <1>0, EveryFileSound DEF FileSound, Stored
  <2>3. g \in FileRecord /\ (g.torn => g.head = "native") /\ d = Stored(q)
    BY <2>2, TornIs
  <2>4. j \in JobRecord  BY JobNow
  <2>5. q \in Path  BY <2>4 DEF JobRecord
  <2>6. Touches(q) /\ FileSound(q)' /\ DOMAIN disk' \subseteq Path
    BY <1>0, <1>1, <2>1, <2>3, <2>5, WriteEffect
  <2>7. Stamps(r, q) /\ matching' \subseteq Runtime /\ Alone(r, q)
    BY <1>3, OthersUnstamped, WriterIsAlone
  <2>8. VariablesTyped'  BY <1>0, <1>1, <2>7, StopEffect DEF VariablesTyped
  <2>9. RuntimeSound(r)' /\ stage'[r] = "off" /\ \A s \in Runtime : s # r => Untouched(s)
    BY <1>0, <1>1, <2>6, StopEffect, OffSound
  <2> QED BY <2>6, <2>7, <2>8, <2>9, StepSound
<1> QED BY <1>2, <1>3 DEF Die

(* What is captured becomes the baseline.                                  *)
LEMMA MarkedSound ==
    ASSUME SaveInv, NEW r \in Runtime, stage[r] = "writing", NEW j, job[r] = j,
           Head(j.todo) \in {"mark", "record", "meta"},
           NEW d \in Seq(Text), Record(j.path, d), MarkPersisted(r, Len(d)), Idle(r),
           UNCHANGED <<mem, compacting, disk, edits, started>>, faults' \in 0..MaxFault,
           NEW p \in {path[r], j.path}, path' = [path EXCEPT ![r] = p]
    PROVE  SaveInv' /\ Digests(j.path)' = d /\ \A x : Stored(x)' = Stored(x)
<1> PICK q, t : j.path = q /\ j.msgs = t  OBVIOUS
<1> PICK b : b = [ok |-> TRUE, path |-> q, digest |-> t, revision |-> Len(d), verified |-> TRUE]
  OBVIOUS
<1>0. VariablesTyped /\ FilesSound  BY DEF SaveInv
<1>1. /\ j \in JobRecord /\ q \in DOMAIN disk /\ Stored(q) # NoTranscript
      /\ Readable(q) => Stored(q) = t
  BY SavedSoFar
<1>2. /\ Touches(q) /\ FileSound(q)' /\ DOMAIN disk' \subseteq Path
      /\ Digests(q)' = d /\ Stored(q)' = Stored(q)
      /\ \A x : Files(x)' = Files(x)
  BY <1>0, <1>1, RecordEffect
<1>3. /\ persisted'[r] = b /\ edited'[r] = SinceCapture(edited[r])
      /\ \A s \in Runtime : s # r => persisted'[s] = persisted[s] /\ edited'[s] = edited[s]
      /\ persisted' \in [Runtime -> BaseRecord] /\ matching' = matching \cup {r}
      /\ edited' \in [Runtime -> SUBSET Moments] /\ rewritten' \in [Runtime -> SUBSET Moments]
  <2>1. Len(d) \in Nat  OBVIOUS
  <2> QED BY <1>0, <2>1, MarkEffect
<1>4. /\ stage'[r] = "idle" /\ job'[r] = NoJob
      /\ \A s \in Runtime : s # r => stage'[s] = stage[s] /\ job'[s] = job[s]
      /\ stage' \in [Runtime -> Stage] /\ job' \in [Runtime -> JobRecord]
  BY <1>0, IdleEffect
<1>5. path[r] \in DOMAIN disk  BY DEF SaveInv, RuntimeSound, BaseSound
<1>6. p \in DOMAIN disk /\ p \in Path  BY <1>0, <1>1, <1>5 DEF FilesSound
<1>7. /\ path' \in [Runtime -> Path] /\ path'[r] = p
      /\ \A s \in Runtime : s # r => path'[s] = path[s]
  BY <1>0, <1>6 DEF VariablesTyped
<1>8. VariablesTyped'
  <2>1. matching' \subseteq Runtime  BY <1>0, <1>3 DEF VariablesTyped
  <2> QED BY <1>0, <1>3, <1>4, <1>7, <2>1 DEF VariablesTyped
<1>9. \A s \in Runtime : s # r => Untouched(s)  BY <1>3, <1>4, <1>7 DEF Untouched
<1>10. Stamps(r, q) /\ Alone(r, q)  BY <1>2, <1>3, WriterIsAlone DEF Stamps
<1>11. BaseSound(r, p, b)'
  <2>1. b.ok /\ b.path = q /\ b.digest = t  OBVIOUS
  <2>2. "saved" \notin edited'[r] => mem'[r] = t
    <3>1. "captured" \notin edited[r] => mem[r] = t
      BY DEF SaveInv, RuntimeSound, JobSound
    <3> QED BY <1>3, <3>1 DEF SinceCapture, Moments
  <2>3. Readable(q)' => Stored(q)' = t  BY <1>1, <1>2, KeptStored
  <2> QED BY <1>1, <1>6, <2>1, <2>2, <2>3 DEF BaseSound
<1>12. RuntimeSound(r)'  BY <1>3, <1>4, <1>7, <1>11, RestSound
<1>13. \A x : Stored(x)' = Stored(x)  BY <1>2, KeptStored
<1> QED BY <1>2, <1>4, <1>8, <1>9, <1>10, <1>12, <1>13, StepSound

LEMMA FinishSave_Sound == ASSUME SaveInv, NEW r \in Runtime, FinishSave(r) PROVE SaveInv'
<1> PICK j, q, t : job[r] = j /\ j.path = q /\ j.msgs = t  OBVIOUS
<1> PICK d : d = Recorded(Digests(q), Head(j.todo), t)  OBVIOUS
<1>0. VariablesTyped /\ FilesSound  BY DEF SaveInv
<1>1. /\ stage[r] = "writing" /\ Head(j.todo) \in {"mark", "record", "meta"}
      /\ Record(q, d) /\ UNCHANGED <<disk, edits, started, faults>>
  BY DEF FinishSave
<1>2. Stored(q) # NoTranscript /\ d \in Seq(Text)  BY <1>1, SavedSoFar
<1>3. CASE j.shutdown /\ Stop(r) /\ matching' = matching \ {r}
  <2>1. /\ Touches(q) /\ FileSound(q)' /\ DOMAIN disk' \subseteq Path
        /\ \A x : Files(x)' = Files(x)
    BY <1>0, <1>1, <1>2, RecordEffect
  <2>2. VariablesTyped'  BY <1>0, <1>1, <1>3, StopEffect DEF VariablesTyped
  <2>3. RuntimeSound(r)' /\ stage'[r] = "off" /\ \A s \in Runtime : s # r => Untouched(s)
    BY <1>0, <1>3, <2>1, StopEffect, OffSound
  <2>4. Stamps(r, q) /\ Alone(r, q)  BY <1>1, <1>3, <2>1, WriterIsAlone DEF Stamps
  <2> QED BY <2>1, <2>2, <2>3, <2>4, StepSound
<1>4. CASE /\ MarkPersisted(r, Len(d)) /\ path' = [path EXCEPT ![r] = q] /\ Idle(r)
           /\ UNCHANGED <<mem, compacting>>
  <2>1. faults' \in 0..MaxFault  BY <1>0, <1>1 DEF VariablesTyped
  <2> QED BY <1>1, <1>2, <1>4, <2>1, MarkedSound
<1> QED BY <1>3, <1>4 DEF FinishSave

LEMMA CommitFails_Sound == ASSUME SaveInv, NEW r \in Runtime, CommitFails(r) PROVE SaveInv'
<1> PICK j, q, t : job[r] = j /\ j.path = q /\ j.msgs = t  OBVIOUS
<1> PICK d : d = Recorded(Digests(q), "meta", t)  OBVIOUS
<1>0. VariablesTyped /\ FilesSound  BY DEF SaveInv
<1>1. /\ stage[r] = "writing" /\ j.todo = <<"meta">> /\ Record(q, d)
      /\ MarkPersisted(r, Len(d)) /\ Idle(r)
      /\ UNCHANGED <<mem, compacting, path, disk, edits, started>>
  BY DEF CommitFails
<1>2. Head(j.todo) = "meta"  BY <1>1, PlansWritten
<1>3. d \in Seq(Text)  BY <1>1, <1>2, SavedSoFar
<1>4. faults' \in 0..MaxFault  BY <1>0, BoundAssumption DEF CommitFails, VariablesTyped
<1>5. path' = [path EXCEPT ![r] = path[r]]  BY <1>0, <1>1 DEF VariablesTyped
<1> QED BY <1>1, <1>2, <1>3, <1>4, <1>5, MarkedSound

LEMMA StutterSound == ASSUME SaveInv, UNCHANGED saveVars PROVE SaveInv'
<1>0. UNCHANGED <<mem, edited, rewritten, compacting, persisted, path, disk, ledger, matching,
                  stage, job, edits, started, faults>>
  BY DEF saveVars, sessionVars, baseVars, storeVars
<1>1. VariablesTyped'  BY <1>0 DEF SaveInv, VariablesTyped
<1>2. \A s : Untouched(s)  BY <1>0 DEF Untouched
<1>3. CASE Runtime = {}
  <2>1. FilesSound'  BY <1>0, QuietFiles DEF SaveInv
  <2> QED BY <1>1, <1>3, <2>1 DEF SaveInv, OneWriter
<1>4. CASE \E r : r \in Runtime
  <2>1. PICK r : r \in Runtime  BY <1>4
  <2>2. Touches(main) /\ Keeps(main)  BY <1>0, QuietFiles DEF SaveInv
  <2>3. ASSUME NEW s \in Runtime PROVE RuntimeSound(s)'
    <3> PICK p, b, j : path[s] = p /\ persisted[s] = b /\ job[s] = j  OBVIOUS
    <3>1. BaseSound(s, p, b)'  BY <1>0, QuietBase
    <3>2. JobSound(s, p, b, j)'
      <4>1. JobSound(s, p, b, j)  BY JobNow
      <4>2. \A x : Keeps(x)  BY <1>0, QuietFiles DEF SaveInv
      <4>3. Stored(p)' = Stored(p)  BY <4>2, KeptFile
      <4>4. WriteSound(p, b, j) => WriteSound(p, b, j)'  BY <4>2, WriteKept
      <4> QED BY <1>0, <4>1, <4>3, <4>4 DEF JobSound
    <3> QED BY <1>0, <3>1, <3>2, JobIs
  <2> QED BY <1>0, <1>1, <1>2, <2>1, <2>3, QuietStep
<1> QED BY <1>3, <1>4

LEMMA StepInv == SaveInv /\ [SaveNext]_saveVars => SaveInv'
<1> SUFFICES ASSUME SaveInv, [SaveNext]_saveVars PROVE SaveInv'  OBVIOUS
<1>1. CASE UNCHANGED saveVars  BY <1>1, StutterSound
<1>2. ASSUME NEW r \in Runtime, NewSession(r) PROVE SaveInv'  BY <1>2, NewSession_Sound
<1>3. ASSUME NEW r \in Runtime, NEW p \in DOMAIN disk, OpenSession(r, p) PROVE SaveInv'
  BY <1>3, Open_Sound
<1>4. ASSUME NEW r \in Runtime, FinishLoad(r) PROVE SaveInv'  BY <1>4, FinishLoad_Sound
<1>5. ASSUME NEW r \in Runtime, Add(r) PROVE SaveInv'  BY <1>5, Add_Sound
<1>6. ASSUME NEW r \in Runtime, NEW k \in 1..MaxEdit, Compact(r, k) PROVE SaveInv'
  BY <1>6, Compact_Sound
<1>7. ASSUME NEW r \in Runtime, IncrementRewrite(r) PROVE SaveInv'  BY <1>7, Increment_Sound
<1>8. ASSUME NEW r \in Runtime, NEW shutdown \in BOOLEAN, Snapshot(r, shutdown) PROVE SaveInv'
  BY <1>8, Snapshot_Sound
<1>9. ASSUME NEW r \in Runtime, NEW k \in 0..MaxEdit, NEW caller \in {"rewind", "cancel"},
             Cut(r, k, caller)
      PROVE  SaveInv'
  BY <1>9, Cut_Sound
<1>10. ASSUME NEW r \in Runtime, FastPath(r) PROVE SaveInv'  BY <1>10, FastPath_Sound
<1>11. ASSUME NEW r \in Runtime, BeginSave(r) PROVE SaveInv'  BY <1>11, BeginSave_Sound
<1>12. ASSUME NEW r \in Runtime, WriteFile(r) PROVE SaveInv'  BY <1>12, WriteFile_Sound
<1>13. ASSUME NEW r \in Runtime, FinishSave(r) PROVE SaveInv'  BY <1>13, FinishSave_Sound
<1>14. ASSUME NEW r \in Runtime, CommitFails(r) PROVE SaveInv'  BY <1>14, CommitFails_Sound
<1>15. ASSUME NEW r \in Runtime, WriteFails(r) PROVE SaveInv'  BY <1>15, WriteFails_Sound
<1>16. ASSUME NEW r \in Runtime, Die(r) PROVE SaveInv'  BY <1>16, Die_Sound
<1>17. ASSUME NEW r \in Runtime, Retry(r) PROVE SaveInv'  BY <1>17, Retry_Sound
<1>18. ASSUME NEW r \in Runtime, Adopt(r) PROVE SaveInv'  BY <1>18, Adopt_Sound
<1>19. ASSUME NEW r \in Runtime, Recover(r) PROVE SaveInv'  BY <1>19, Recover_Sound
<1>20. ASSUME NEW r \in Runtime, BeginCopy(r) PROVE SaveInv'  BY <1>20, BeginCopy_Sound
<1>21. ASSUME NEW r \in Runtime, LockTimeout(r) PROVE SaveInv'  BY <1>21, LockTimeout_Sound
<1> QED BY <1>1, <1>2, <1>3, <1>4, <1>5, <1>6, <1>7, <1>8, <1>9, <1>10, <1>11, <1>12, <1>13,
           <1>14, <1>15, <1>16, <1>17, <1>18, <1>19, <1>20, <1>21 DEF SaveNext

(* The files are sound, a path has one writer at a time, and what each     *)
(* runtime believes of its file and still has to write there is right, in  *)
(* every state of the store.                                               *)
THEOREM SavesAreSound == SaveSpec => []SaveInv
<1>1. SaveInit => SaveInv  BY InitSound
<1>2. SaveInv /\ [SaveNext]_saveVars => SaveInv'  BY StepInv
<1> QED BY <1>1, <1>2, PTL DEF SaveSpec

(* The variables of the store have their types, a path in use has files,   *)
(* and only a runtime that saves or loads has a job.                       *)
THEOREM SaveTypeCorrect == SaveSpec => []SaveTypeOK
<1>1. SaveInv => SaveTypeOK
  <2> SUFFICES ASSUME SaveInv PROVE SaveTypeOK  OBVIOUS
  <2>1. VariablesTyped  BY DEF SaveInv
  <2>2. ASSUME NEW p \in DOMAIN disk
        PROVE  /\ disk[p].head \in {"none", "native", "foreign"} /\ disk[p].torn \in BOOLEAN
               /\ disk[p].log \in Text /\ disk[p].anchor \in Text \cup {NoTranscript}
    <3>1. disk[p] \in FileRecord  BY EveryFileSound DEF SaveInv, FileSound, Files
    <3> QED BY <3>1 DEF FileRecord, Transcript
  <2>3. ASSUME NEW p \in DOMAIN ledger PROVE ledger[p] \in Seq(Text)
    BY EveryFileSound DEF SaveInv, FileSound, Digests
  <2>4. persisted \in [Runtime -> BaseOf] /\ path \in [Runtime -> DOMAIN disk]
    <3>1. ASSUME NEW r \in Runtime PROVE persisted[r] \in BaseOf /\ path[r] \in DOMAIN disk
      <4>1. persisted[r] \in BaseRecord /\ persisted[r].path \in DOMAIN disk
            /\ path[r] \in DOMAIN disk
        BY <2>1, RuntimeTyped DEF SaveInv, RuntimeSound, BaseSound
      <4> QED BY <4>1 DEF BaseRecord, BaseOf, Transcript
    <3> QED BY <2>1, <3>1 DEF VariablesTyped
  <2>5. ASSUME NEW r \in Runtime PROVE stage[r] \in {"off", "idle"} <=> job[r] = NoJob
    BY DEF SaveInv, RuntimeSound, JobSound
  <2>6. stage \in [Runtime -> {"off", "loading", "idle", "save", "writing", "conflict",
                               "adopt", "copy"}]
    BY <2>1 DEF VariablesTyped, Stage
  <2> QED BY <2>1, <2>2, <2>3, <2>4, <2>5, <2>6 DEF SaveTypeOK, VariablesTyped
<1> QED BY <1>1, SavesAreSound, PTL

-----------------------------------------------------------------------------
(* What one step does, whatever it is.                                     *)
StepOf(r) ==
    \/ NewSession(r)
    \/ \E p \in DOMAIN disk : OpenSession(r, p)
    \/ FinishLoad(r)
    \/ Add(r)
    \/ \E k \in 1..MaxEdit : Compact(r, k)
    \/ IncrementRewrite(r)
    \/ \E shutdown \in BOOLEAN : Snapshot(r, shutdown)
    \/ \E k \in 0..MaxEdit, caller \in {"rewind", "cancel"} : Cut(r, k, caller)
    \/ FastPath(r) \/ BeginSave(r) \/ WriteFile(r) \/ FinishSave(r)
    \/ CommitFails(r) \/ WriteFails(r) \/ Die(r)
    \/ Retry(r) \/ Adopt(r) \/ Recover(r) \/ BeginCopy(r) \/ LockTimeout(r)

LEMMA NextIsStep == SaveNext <=> \E r \in Runtime : StepOf(r)
BY DEF SaveNext, StepOf

LEMMA OthersStill ==
    ASSUME VariablesTyped, NEW r \in Runtime, StepOf(r)
    PROVE  \A s \in Runtime : s # r => Untouched(s)
<1> SUFFICES ASSUME NEW s \in Runtime, s # r PROVE Untouched(s)  OBVIOUS
<1> USE DEF VariablesTyped, Untouched, sessionVars, baseVars, storeVars
<1>1. CASE NewSession(r)  BY <1>1 DEF NewSession, Idle
<1>2. ASSUME NEW p, OpenSession(r, p) PROVE Untouched(s)
  BY <1>2 DEF OpenSession, ReadTranscript, Enter
<1>3. CASE FinishLoad(r)
  <2>1. CASE job[r].shutdown  BY <1>3, <2>1 DEF FinishLoad, Stop
  <2>2. CASE ~ job[r].shutdown  BY <1>3, <2>2 DEF FinishLoad, Idle
  <2> QED BY <2>1, <2>2
<1>4. CASE Add(r)  BY <1>4 DEF Add
<1>5. ASSUME NEW k, Compact(r, k) PROVE Untouched(s)  BY <1>5 DEF Compact
<1>6. CASE IncrementRewrite(r)  BY <1>6 DEF IncrementRewrite
<1>7. ASSUME NEW shutdown, Snapshot(r, shutdown) PROVE Untouched(s)  BY <1>7 DEF Snapshot, Enter
<1>8. ASSUME NEW k, NEW caller, Cut(r, k, caller) PROVE Untouched(s)  BY <1>8 DEF Cut, Enter
<1>9. CASE FastPath(r)  BY <1>9 DEF FastPath, Return, Stop, Idle
<1>10. CASE BeginSave(r)  BY <1>10 DEF BeginSave, Capture, Enter, Idle
<1>11. CASE WriteFile(r)  BY <1>11 DEF WriteFile
<1>12. CASE FinishSave(r)
  <2>1. CASE job[r].shutdown  BY <1>12, <2>1 DEF FinishSave, Stop
  <2>2. CASE ~ job[r].shutdown
    BY <1>12, <2>2 DEF FinishSave, MarkPersisted, Idle
  <2> QED BY <2>1, <2>2
<1>13. CASE CommitFails(r)  BY <1>13 DEF CommitFails, MarkPersisted, Idle
<1>14. CASE WriteFails(r)  BY <1>14 DEF WriteFails, Idle
<1>15. CASE Die(r)  BY <1>15 DEF Die, Stop
<1>16. CASE Retry(r)  BY <1>16 DEF Retry, Enter
<1>17. CASE Adopt(r)  BY <1>17 DEF Adopt, ReadTranscript, Enter
<1>18. CASE Recover(r)  BY <1>18 DEF Recover, Capture, Enter
<1>19. CASE BeginCopy(r)  BY <1>19 DEF BeginCopy, Enter
<1>20. CASE LockTimeout(r)  BY <1>20 DEF LockTimeout, Capture, Enter, Idle
<1> QED BY <1>1, <1>2, <1>3, <1>4, <1>5, <1>6, <1>7, <1>8, <1>9, <1>10, <1>11, <1>12, <1>13,
           <1>14, <1>15, <1>16, <1>17, <1>18, <1>19, <1>20 DEF StepOf

(* Only the writes change files, and they leave what was captured or what  *)
(* was there.                                                              *)
LEMMA StoredStep ==
    ASSUME SaveInv, NEW r \in Runtime, StepOf(r), NEW x
    PROVE  \/ Stored(x)' = Stored(x)
           \/ /\ stage[r] = "writing" /\ job[r].path = x /\ Stored(x)' = job[r].msgs
              /\ persisted'[r] = persisted[r] /\ stage'[r] # "loading"
<1>0. VariablesTyped /\ FilesSound  BY DEF SaveInv
<1>1. CASE UNCHANGED disk  BY <1>1 DEF Stored, Files
<1>2. CASE BeginSave(r)
  <2> PICK p, b : path[r] = p /\ persisted[r] = b  OBVIOUS
  <2>1. p \in DOMAIN disk  BY JobNow DEF BaseSound
  <2>2. Touches(p) /\ Stored(p)' = Stored(p)
    BY <1>0, <1>2, <2>1, RepairEffect DEF BeginSave
  <2>3. x # p => Stored(x)' = Stored(x)
    <3>1. x # p => Keeps(x)  BY <2>2 DEF Touches
    <3> QED BY <3>1, KeptFile
  <2> QED BY <2>2, <2>3
<1>3. ASSUME NEW q, NEW g, DOMAIN disk' = DOMAIN disk \cup {q}, disk'[q] = g,
             \A y \in DOMAIN disk : y # q => disk'[y] = disk[y]
      PROVE  /\ x # q => Stored(x)' = Stored(x)
             /\ Stored(q)' = IF g.head = "native" THEN g.log ELSE g.anchor
  BY <1>3 DEF Stored, Files
<1>4. ASSUME NEW j, job[r] = j, NEW q, j.path = q, stage[r] = "writing",
             NEW what \in {"append", "compact", "anchor"},
             disk' = [y \in DOMAIN disk \cup {q} |->
                         IF y = q THEN Written(Files(q), what, j.msgs) ELSE disk[y]]
      PROVE  Stored(x)' = Stored(x) \/ (x = q /\ Stored(x)' = j.msgs)
  <2> PICK f, g : f = Files(q) /\ g = Written(f, what, j.msgs)  OBVIOUS
  <2>1. j \in JobRecord  BY <1>4, JobNow
  <2>2. f \in FileRecord /\ (f.torn => f.head = "native")
        /\ Stored(q) = (IF f.head = "native" THEN f.log ELSE f.anchor)
    BY <1>0, EveryFileSound DEF FileSound, Stored
  <2>3. \/ g.head = "native" /\ g.log = j.msgs
        \/ g.head # "native" /\ g.anchor = j.msgs
        \/ f.head = "native" /\ g.head = "native" /\ g.log = f.log
    <3>1. j.msgs \in Text  BY <2>1 DEF JobRecord
    <3> QED BY <2>2, <3>1, WrittenIs
  <2>4. DOMAIN disk' = DOMAIN disk \cup {q} /\ disk'[q] = g
        /\ \A y \in DOMAIN disk : y # q => disk'[y] = disk[y]
    BY <1>4
  <2> QED BY <1>3, <2>2, <2>3, <2>4
<1>5. ASSUME NEW q, disk' = [y \in DOMAIN disk \cup {q} |->
                                IF y = q THEN Torn(Files(q)) ELSE disk[y]]
      PROVE  Stored(x)' = Stored(x)
  <2> PICK f, g : f = Files(q) /\ g = Torn(f)  OBVIOUS
  <2>1. f \in FileRecord /\ (f.torn => f.head = "native")
        /\ Stored(q) = (IF f.head = "native" THEN f.log ELSE f.anchor)
    BY <1>0, EveryFileSound DEF FileSound, Stored
  <2>2. \/ f.head = "native" /\ g.head = "native" /\ g.log = f.log
        \/ f.head # "native" /\ g.head # "native" /\ g.anchor = f.anchor
    BY <2>1, TornIs
  <2>3. DOMAIN disk' = DOMAIN disk \cup {q} /\ disk'[q] = g
        /\ \A y \in DOMAIN disk : y # q => disk'[y] = disk[y]
    BY <1>5
  <2> QED BY <1>3, <2>1, <2>2, <2>3
<1>6. CASE WriteFile(r)
  <2>1. /\ stage[r] = "writing" /\ Head(job[r].todo) \in {"append", "compact", "anchor"}
        /\ WriteTo(job[r].path, Written(Files(job[r].path), Head(job[r].todo), job[r].msgs))
        /\ persisted' = persisted /\ stage' = stage
    BY <1>6 DEF WriteFile, baseVars
  <2>2. Stored(x)' = Stored(x) \/ (x = job[r].path /\ Stored(x)' = job[r].msgs)
    BY <1>4, <2>1 DEF WriteTo
  <2> QED BY <2>1, <2>2
<1>7. CASE WriteFails(r)
  <2>1. stage[r] = "writing" /\ stage'[r] = "idle" /\ persisted' = persisted
    BY <1>0, <1>7, IdleEffect DEF WriteFails, baseVars
  <2>2. \/ UNCHANGED disk
        \/ WriteTo(job[r].path, Torn(Files(job[r].path)))
        \/ WriteTo(job[r].path, Written(Files(job[r].path), "append", job[r].msgs))
    BY <1>7 DEF WriteFails, storeVars
  <2>3. Stored(x)' = Stored(x) \/ (x = job[r].path /\ Stored(x)' = job[r].msgs)
    BY <1>1, <1>4, <1>5, <2>1, <2>2 DEF WriteTo
  <2> QED BY <2>1, <2>3
<1>8. CASE Die(r)
  <2> PICK q : q = job[r].path  OBVIOUS
  <2>1. \/ UNCHANGED disk
        \/ disk' = [y \in DOMAIN disk \cup {q} |-> IF y = q THEN Torn(Files(y)) ELSE disk[y]]
    BY <1>8 DEF Die
  <2>2. \/ UNCHANGED disk
        \/ disk' = [y \in DOMAIN disk \cup {q} |-> IF y = q THEN Torn(Files(q)) ELSE disk[y]]
    BY <2>1
  <2> QED BY <1>1, <1>5, <2>2
<1> QED BY <1>1, <1>2, <1>6, <1>7, <1>8
        DEF StepOf, NewSession, OpenSession, FinishLoad, Add, Compact, IncrementRewrite, Snapshot,
            Cut, FastPath, FinishSave, CommitFails, Retry, Adopt, Recover, BeginCopy, LockTimeout,
            storeVars

-----------------------------------------------------------------------------
(* Only the end of a save gives a verified baseline.                       *)
LEMMA BaseStep ==
    ASSUME VariablesTyped, NEW r \in Runtime, StepOf(r), persisted'[r] # persisted[r],
           persisted'[r].verified
    PROVE  \E j, d, what :
              /\ stage[r] = "writing" /\ job[r] = j /\ Head(j.todo) = what
              /\ what \in {"mark", "record", "meta"} /\ d = Recorded(Digests(j.path), what, j.msgs)
              /\ Record(j.path, d) /\ MarkPersisted(r, Len(d)) /\ UNCHANGED disk
<1> PICK j : job[r] = j  OBVIOUS
<1>1. ASSUME Stop(r) PROVE FALSE
  <2>1. persisted'[r] = NoBase  BY <1>1, StopEffect
  <2> QED BY <2>1 DEF NoBase
<1>2. CASE persisted' = persisted  BY <1>2
<1>3. CASE FinishLoad(r)
  <2>1. CASE j.shutdown  BY <1>1, <1>3, <2>1 DEF FinishLoad
  <2>2. CASE ~ j.shutdown
    <3>1. persisted' = [persisted EXCEPT ![r] = [ok |-> TRUE, path |-> j.path, digest |-> j.msgs,
                                      revision |-> Revision(j.path), verified |-> FALSE]]
      BY <1>3, <2>2 DEF FinishLoad
    <3> QED BY <3>1 DEF VariablesTyped
  <2> QED BY <2>1, <2>2
<1>4. CASE FastPath(r)  BY <1>1, <1>4 DEF FastPath, Return
<1>5. CASE FinishSave(r)
  <2>1. CASE j.shutdown  BY <1>1, <1>5, <2>1 DEF FinishSave
  <2>2. CASE ~ j.shutdown
    <3>1. PICK d : d = Recorded(Digests(j.path), Head(j.todo), j.msgs)  OBVIOUS
    <3>2. /\ stage[r] = "writing" /\ Head(j.todo) \in {"mark", "record", "meta"}
          /\ Record(j.path, d) /\ MarkPersisted(r, Len(d)) /\ UNCHANGED disk
      BY <1>5, <2>2, <3>1 DEF FinishSave
    <3> QED BY <3>1, <3>2
  <2> QED BY <2>1, <2>2
<1>6. CASE CommitFails(r)
  <2>1. PICK d : d = Recorded(Digests(j.path), "meta", j.msgs)  OBVIOUS
  <2>2. /\ stage[r] = "writing" /\ j.todo = <<"meta">>
        /\ Record(j.path, d) /\ MarkPersisted(r, Len(d)) /\ UNCHANGED disk
    BY <1>6, <2>1 DEF CommitFails
  <2>3. Head(j.todo) = "meta"  BY <2>2, PlansWritten
  <2> QED BY <2>1, <2>2, <2>3
<1>7. CASE Die(r)  BY <1>1, <1>7 DEF Die
<1> QED BY <1>2, <1>3, <1>4, <1>5, <1>6, <1>7
        DEF StepOf, NewSession, OpenSession, Add, Compact, IncrementRewrite, Snapshot, Cut,
            BeginSave, WriteFile, WriteFails, Retry, Adopt, Recover, BeginCopy, LockTimeout,
            baseVars

LEMMA SavedStep ==
    ASSUME SaveInv, NEW r \in Runtime, StepOf(r), persisted'[r] # persisted[r],
           persisted'[r].verified
    PROVE  BaseIsStored(r)'
<1>0. VariablesTyped /\ FilesSound  BY DEF SaveInv
<1>1. PICK j, d, what :
         /\ stage[r] = "writing" /\ job[r] = j /\ Head(j.todo) = what
         /\ what \in {"mark", "record", "meta"} /\ d = Recorded(Digests(j.path), what, j.msgs)
         /\ Record(j.path, d) /\ MarkPersisted(r, Len(d)) /\ UNCHANGED disk
  BY <1>0, BaseStep
<1> PICK q, t, b : /\ j.path = q /\ j.msgs = t /\ persisted'[r] = b  OBVIOUS
<1>2. /\ j \in JobRecord /\ Stored(q) # NoTranscript /\ d \in Seq(Text)
      /\ Readable(q) => Stored(q) = t
  BY <1>1, SavedSoFar
<1>3. /\ Digests(q)' = d /\ Stored(q)' = Stored(q) /\ Files(q)' = Files(q)
  BY <1>0, <1>1, <1>2, RecordEffect
<1>4. b.path = q /\ b.digest = t /\ b.revision = Len(d)
  <2>1. Len(d) \in Nat  BY <1>2
  <2>2. b = [ok |-> TRUE, path |-> q, digest |-> t, revision |-> Len(d), verified |-> TRUE]
    BY <1>0, <1>1, <2>1, MarkEffect
  <2> QED BY <2>2
<1>5. Readable(q)' => Stored(q)' = t  BY <1>2, <1>3, KeptStored
<1>6. Revision(q)' = Len(d)  BY <1>3 DEF Revision
<1>7. ASSUME q = main PROVE LedgerDigest(q)' \in {NoTranscript, t}
  <2>1. PICK p, c : path[r] = p /\ persisted[r] = c  OBVIOUS
  <2>2. WriteSound(p, c, j)  BY <1>1, <2>1, JobNow DEF JobSound
  <2>3. Last(j.todo) = what  BY <1>1, <2>2, PlanShape DEF WriteSound
  <2>4. CASE what = "mark"
    <3>1. LedgerDigest(q) \in {NoTranscript, t}  BY <1>1, <2>2, <2>4 DEF WriteSound
    <3>2. d = Digests(q)  BY <1>1, <2>4 DEF Recorded
    <3> QED BY <1>3, <3>1, <3>2 DEF LedgerDigest
  <2>5. CASE what = "record"
    <3>1. d = Append(Digests(q), t)  BY <1>1, <2>5 DEF Recorded
    <3>2. Digests(q) \in Seq(Text) /\ t \in Text
      BY <1>0, <1>2, EveryFileSound DEF FileSound, JobRecord
    <3>3. Last(d) = t /\ d # <<>>  BY <3>1, <3>2 DEF Last
    <3> QED BY <1>3, <3>3 DEF LedgerDigest
  <2>6. CASE what = "meta"  BY <1>7, <2>2, <2>3, <2>6 DEF WriteSound
  <2> QED BY <1>1, <2>4, <2>5, <2>6
<1> QED BY <1>4, <1>5, <1>6, <1>7 DEF BaseIsStored

LEMMA SkippedIsStored ==
    ASSUME SaveInv, NEW r \in Runtime, UpToDate(r), Readable(path[r])
    PROVE  Stored(path[r]) = mem[r]
<1> PICK p, b : path[r] = p /\ persisted[r] = b  OBVIOUS
<1>1. Base(r, p).ok /\ "saved" \notin edited[r] /\ r \in matching  BY DEF UpToDate
<1>2. b.ok /\ b.path = p  BY <1>1, BaseIs
<1>3. BaseSound(r, p, b)  BY JobNow
<1> QED BY <1>1, <1>2, <1>3 DEF BaseSound

SavedIs == \A r \in Runtime :
    /\ persisted'[r] # persisted[r] /\ persisted'[r].verified => BaseIsStored(r)'
    /\ stage[r] = "save" /\ UpToDate(r) /\ Readable(path[r]) => Stored(path[r]) = mem[r]

(* A save that reports success has stored what it captured, and one that   *)
(* is skipped finds in the file what is in memory: snapshotUpToDate never  *)
(* hides a needed save.                                                    *)
THEOREM SavesAreStored == SaveSpec => SavedIsStored
<1>1. ASSUME SaveInv, [SaveNext]_saveVars PROVE [SavedIs]_saveVars
  <2>1. CASE SaveNext
    <3>1. PICK s \in Runtime : StepOf(s)  BY <2>1, NextIsStep
    <3>2. VariablesTyped  BY <1>1 DEF SaveInv
    <3>3. ASSUME NEW r \in Runtime, persisted'[r] # persisted[r], persisted'[r].verified
          PROVE  BaseIsStored(r)'
      <4>1. r = s  BY <3>1, <3>2, <3>3, OthersStill DEF Untouched
      <4> QED BY <1>1, <3>1, <3>3, <4>1, SavedStep
    <3>4. SavedIs  BY <1>1, <3>3, SkippedIsStored DEF SavedIs
    <3> QED BY <3>4
  <2> QED BY <1>1, <2>1
<1>2. [][SavedIs]_saveVars => SavedIsStored  BY PTL DEF SavedIsStored, SavedIs
<1> QED BY <1>1, <1>2, SavesAreSound, PTL DEF SaveSpec

(* When no plan is left.                                                   *)
LEMMA NoPlan ==
    ASSUME NEW r, NEW p, NEW mode, Plans(r, p, mode) = {}, mem[r] \in Text
    PROVE  /\ mode # "force" /\ Stored(p) # NoTranscript
           /\ IsPrefix(Stored(p), mem[r]) => Resurrects(r, p)
           /\ ~ IsPrefix(Stored(p), mem[r]) => ~ (mode = "rewrite" /\ Owns(r, p))
<1>1. mode # "force" /\ Stored(p) # NoTranscript  BY ConflictIsWithAFile
<1>2. (\E w : w \in FullRewrite(p)) /\ (\E w : w \in Appending(p))
  BY DEF FullRewrite, Appending
<1>3. Stored(p) # mem[r]
  <2>1. Stored(p) = mem[r] =>
           Plans(r, p, mode) = {IF LedgerDigest(p) \in {NoTranscript, mem[r]}
                                   THEN <<"mark">> ELSE <<"record">>}
    BY <1>1 DEF Plans
  <2> QED BY <2>1, Zenon
<1>4. ASSUME IsPrefix(Stored(p), mem[r]) PROVE Resurrects(r, p)
  <2>1. Plans(r, p, mode) = IF Resurrects(r, p) THEN {} ELSE Appending(p)
    BY <1>1, <1>3, <1>4 DEF Plans
  <2> QED BY <1>2, <2>1
<1>5. ASSUME ~ IsPrefix(Stored(p), mem[r]) PROVE ~ (mode = "rewrite" /\ Owns(r, p))
  <2>1. Plans(r, p, mode) = IF mode = "rewrite" /\ Owns(r, p) THEN FullRewrite(p) ELSE {}
    BY <1>1, <1>3, <1>5 DEF Plans
  <2> QED BY <1>2, <2>1
<1> QED BY <1>1, <1>4, <1>5

ConflictStep == \A r \in Runtime :
    LET p == path[r] IN
    stage[r] = "save" /\ stage'[r] = "conflict" =>
       \/ Stored(p) # Base(r, p).digest
       \/ Revision(p) # Base(r, p).revision /\ LedgerDigest(p) # Stored(p)
       \/ job[r].mode = "snapshot" /\ ~ IsPrefix(Base(r, p).digest, mem[r])

LEMMA ConflictMoves ==
    ASSUME VariablesTyped, NEW r \in Runtime, StepOf(r), stage[r] = "save",
           stage'[r] = "conflict"
    PROVE  Plans(r, path[r], job[r].mode) = {}
<1> USE DEF VariablesTyped
<1>1. ASSUME Stop(r) \/ Idle(r) PROVE FALSE  BY <1>1 DEF Stop, Idle
<1>2. CASE BeginSave(r)
  <2>1. (\E w \in Plans(r, path[r], job[r].mode) : stage' = [stage EXCEPT ![r] = "writing"])
        \/ Idle(r) \/ Plans(r, path[r], job[r].mode) = {}
    BY <1>2 DEF BeginSave, Enter
  <2> QED BY <1>1, <2>1
<1>3. CASE FastPath(r)  BY <1>1, <1>3 DEF FastPath, Return
<1>4. CASE LockTimeout(r)
  <2>1. Idle(r) \/ stage' = [stage EXCEPT ![r] = "copy"]  BY <1>4 DEF LockTimeout, Enter
  <2> QED BY <1>1, <2>1
<1>5. CASE Add(r) \/ IncrementRewrite(r) \/ \E k \in 1..MaxEdit : Compact(r, k)
  BY <1>5 DEF Add, IncrementRewrite, Compact
<1>6. CASE NewSession(r) \/ Die(r)  BY <1>1, <1>6 DEF NewSession, Die
<1> QED BY <1>2, <1>3, <1>4, <1>5, <1>6
        DEF StepOf, OpenSession, FinishLoad, Snapshot, Cut, WriteFile, FinishSave, CommitFails,
            WriteFails, Retry, Adopt, Recover, BeginCopy

LEMMA ConflictIs ==
    ASSUME SaveInv, NEW r \in Runtime, stage[r] = "save", NEW p, path[r] = p,
           Plans(r, p, job[r].mode) = {}, Stored(p) = Base(r, p).digest
    PROVE  \/ Revision(p) # Base(r, p).revision /\ LedgerDigest(p) # Stored(p)
           \/ job[r].mode = "snapshot" /\ ~ IsPrefix(Base(r, p).digest, mem[r])
<1> PICK b, j, t : persisted[r] = b /\ job[r] = j /\ mem[r] = t  OBVIOUS
<1>1. t \in Text /\ j \in JobRecord /\ j.mode # "none"
  BY JobNow, RuntimeTyped DEF JobSound, SaveInv
<1>2. /\ j.mode # "force" /\ Stored(p) # NoTranscript
      /\ IsPrefix(Stored(p), t) => Resurrects(r, p)
      /\ ~ IsPrefix(Stored(p), t) => ~ (j.mode = "rewrite" /\ Owns(r, p))
  BY <1>1, NoPlan
<1>3. Base(r, p).ok  BY <1>2 DEF Base, NoBase
<1>4. CASE IsPrefix(Stored(p), t)
  <2>1. Stored(p) \in Text
    BY <1>2, EveryFileSound, StoredShape DEF SaveInv, FileSound
  <2>2. CoversBase(t, Stored(p), Base(r, p).digest)
    BY <1>4, <2>1 DEF CoversBase, Text
  <2> QED BY <1>2, <1>4, <2>2 DEF Resurrects
<1>5. CASE ~ IsPrefix(Stored(p), t)
  <2>1. j.mode \in {"snapshot", "rewrite"}  BY <1>1, <1>2 DEF JobRecord
  <2>2. CASE j.mode = "snapshot"  BY <1>5, <2>2
  <2>3. CASE j.mode = "rewrite"
    <3>1. ~ Owns(r, p)  BY <1>2, <1>5, <2>3
    <3> QED BY <1>3, <3>1 DEF Owns
  <2> QED BY <2>1, <2>2, <2>3
<1> QED BY <1>4, <1>5

(* A save is in conflict only with what another runtime has written since, *)
(* or a history that was cut without a rewrite being noted.                *)
THEOREM ConflictsAreForeign == SaveSpec => ConflictIsForeign
<1>1. ASSUME SaveInv, [SaveNext]_saveVars PROVE [ConflictStep]_saveVars
  <2>1. CASE SaveNext
    <3>1. PICK s \in Runtime : StepOf(s)  BY <2>1, NextIsStep
    <3>2. VariablesTyped  BY <1>1 DEF SaveInv
    <3>3. ASSUME NEW r \in Runtime, stage[r] = "save", stage'[r] = "conflict", NEW p, path[r] = p
          PROVE  \/ Stored(p) # Base(r, p).digest
                 \/ Revision(p) # Base(r, p).revision /\ LedgerDigest(p) # Stored(p)
                 \/ job[r].mode = "snapshot" /\ ~ IsPrefix(Base(r, p).digest, mem[r])
      <4>1. r = s  BY <3>1, <3>2, <3>3, OthersStill DEF Untouched
      <4>2. Plans(r, p, job[r].mode) = {}  BY <3>1, <3>2, <3>3, <4>1, ConflictMoves
      <4> QED BY <1>1, <3>3, <4>2, ConflictIs
    <3>4. ConflictStep  BY <3>3 DEF ConflictStep
    <3> QED BY <3>4
  <2> QED BY <1>1, <2>1
<1>2. [][ConflictStep]_saveVars => ConflictIsForeign  BY PTL DEF ConflictIsForeign, ConflictStep
<1> QED BY <1>1, <1>2, SavesAreSound, PTL DEF SaveSpec

RemovedStep == \A r \in Runtime, p \in DOMAIN disk :
    r \in Holders(p) /\ persisted[r].path = p /\ Sound(persisted[r])
    /\ job[r].mode # "force" /\ Last(job[r].todo) = "record" =>
       Removed(p) \cap Messages(persisted[r].digest) \cap Messages(Stored(p)')
          \subseteq Messages(Stored(p))

LEMMA RemovedStepKept ==
    ASSUME SaveInv, NEW s \in Runtime, StepOf(s), NEW r \in Runtime, NEW p, NEW b, NEW j,
           persisted[r] = b, job[r] = j, stage[r] = "writing", j.path = p, b.path = p, Sound(b),
           j.mode # "force", Last(j.todo) = "record"
    PROVE  Removed(p) \cap Messages(b.digest) \cap Messages(Stored(p)')
              \subseteq Messages(Stored(p))
<1>1. CASE Stored(p)' = Stored(p)  BY <1>1
<1>2. CASE stage[s] = "writing" /\ job[s].path = p /\ Stored(p)' = job[s].msgs
  <2>1. s = r  BY <1>2 DEF SaveInv, OneWriter
  <2>2. PICK q : path[r] = q  OBVIOUS
  <2>3. WriteSound(q, b, j)  BY <2>2, JobNow DEF JobSound
  <2>4. BringsNothingBack(b, j)  BY <2>3 DEF WriteSound
  <2>5. Stored(p)' = j.msgs  BY <1>2, <2>1
  <2> QED BY <2>4, <2>5 DEF BringsNothingBack
<1> QED BY <1>1, <1>2, StoredStep

(* A save brings back nothing that its runtime knows to have been in the   *)
(* file, and that a recorded rewind or compaction has removed since.       *)
THEOREM RemovedStaysRemoved == SaveSpec => RemovedStays
<1>1. ASSUME SaveInv, [SaveNext]_saveVars PROVE [RemovedStep]_saveVars
  <2>1. CASE SaveNext
    <3>1. PICK s \in Runtime : StepOf(s)  BY <2>1, NextIsStep
    <3>2. ASSUME NEW r \in Runtime, NEW p \in DOMAIN disk,
                 r \in Holders(p), persisted[r].path = p, Sound(persisted[r]),
                 job[r].mode # "force", Last(job[r].todo) = "record"
          PROVE  Removed(p) \cap Messages(persisted[r].digest) \cap Messages(Stored(p)')
                    \subseteq Messages(Stored(p))
      <4>1. stage[r] = "writing" /\ job[r].path = p  BY <3>2 DEF Holders
      <4> QED BY <1>1, <3>1, <3>2, <4>1, RemovedStepKept
    <3>3. RemovedStep  BY <3>2 DEF RemovedStep
    <3> QED BY <3>3
  <2> QED BY <1>1, <2>1
<1>2. [][RemovedStep]_saveVars => RemovedStays  BY PTL DEF RemovedStays, RemovedStep
<1> QED BY <1>1, <1>2, SavesAreSound, PTL DEF SaveSpec

-----------------------------------------------------------------------------
(* The refinement of SessionFile.                                          *)
LEMMA KnownAtRest ==
    ASSUME NEW r, stage[r] # "loading", NEW b, persisted[r] = b
    PROVE  KnownTo(r) = IF b.ok /\ b.path = main THEN b.digest ELSE NoTranscript
BY DEF KnownTo

LEMMA KnownNext ==
    ASSUME NEW r, stage'[r] # "loading", NEW b, persisted'[r] = b
    PROVE  KnownTo(r)' = IF b.ok /\ b.path = main THEN b.digest ELSE NoTranscript
BY DEF KnownTo

LEMMA KnownReading ==
    ASSUME NEW r, stage'[r] = "loading", NEW j, job'[r] = j
    PROVE  KnownTo(r)' = IF j.path = main THEN j.msgs ELSE NoTranscript
BY DEF KnownTo

LEMMA KnownStill == ASSUME NEW s, Untouched(s) PROVE KnownTo(s)' = KnownTo(s)
BY DEF KnownTo, Untouched

LEMMA KnownKept ==
    ASSUME NEW r, stage[r] # "loading", stage'[r] # "loading", persisted'[r] = persisted[r]
    PROVE  KnownTo(r)' = KnownTo(r)
BY KnownAtRest, KnownNext

LEMMA KnownStopped ==
    ASSUME VariablesTyped, NEW r \in Runtime, Stop(r) PROVE KnownTo(r)' = NoTranscript
<1>1. stage'[r] # "loading" /\ persisted'[r] = NoBase  BY StopEffect
<1> QED BY <1>1, KnownNext DEF NoBase

(* What a runtime knows of the session file is what it has known before,   *)
(* or what the file holds, or nothing.                                     *)
LEMMA KnownStep ==
    ASSUME SaveInv, NEW r \in Runtime, StepOf(r)
    PROVE  KnownTo(r)' \in {KnownTo(r), Stored(main), NoTranscript}
<1>0. VariablesTyped  BY DEF SaveInv
<1> PICK j : job[r] = j  OBVIOUS
<1>1. ASSUME NEW where \in Stage, NEW k, Enter(r, where, k)
      PROVE  stage'[r] = where /\ job'[r] = k
  BY <1>0, <1>1 DEF Enter, VariablesTyped
<1>2. ASSUME NEW p, NEW c \in JobRecord, ReadTranscript(r, p, c)
      PROVE  KnownTo(r)' \in {Stored(main), NoTranscript}
  <2> PICK k : k = [c EXCEPT !.path = p, !.msgs = Stored(p)]  OBVIOUS
  <2>1. stage'[r] = "loading" /\ job'[r] = k  BY <1>1, <1>2 DEF ReadTranscript, Stage
  <2>2. k.path = p /\ k.msgs = Stored(p)  BY DEF JobRecord
  <2> QED BY <2>1, <2>2, KnownReading
<1>3. ASSUME stage[r] # "loading", Idle(r), persisted' = persisted
      PROVE  KnownTo(r)' = KnownTo(r)
  BY <1>0, <1>3, IdleEffect, KnownKept
<1>4. ASSUME NEW where \in Stage, where # "loading", NEW k, Enter(r, where, k),
             stage[r] # "loading", persisted' = persisted
      PROVE  KnownTo(r)' = KnownTo(r)
  BY <1>1, <1>4, KnownKept
<1>5. CASE NewSession(r)  BY <1>3, <1>5 DEF NewSession, baseVars
<1>6. ASSUME NEW p, OpenSession(r, p) PROVE KnownTo(r)' \in {Stored(main), NoTranscript}
  <2>1. [NoJob EXCEPT !.caller = "open"] \in JobRecord  BY NothingTyped DEF JobRecord
  <2> QED BY <1>2, <1>6, <2>1 DEF OpenSession
<1>7. CASE FinishLoad(r)
  <2>1. CASE j.shutdown  BY <1>0, <1>7, <2>1, KnownStopped DEF FinishLoad
  <2>2. CASE ~ j.shutdown
    <3> PICK b : b = [ok |-> TRUE, path |-> j.path, digest |-> j.msgs,
                      revision |-> Revision(j.path), verified |-> FALSE]
      OBVIOUS
    <3>1. persisted' = [persisted EXCEPT ![r] = b] /\ Idle(r) /\ stage[r] = "loading"
      BY <1>7, <2>2 DEF FinishLoad
    <3>2. persisted'[r] = b /\ stage'[r] # "loading"
      BY <1>0, <3>1, IdleEffect DEF VariablesTyped
    <3>3. KnownTo(r)' = IF j.path = main THEN j.msgs ELSE NoTranscript
      BY <3>2, KnownNext
    <3>4. j.path = main => KnownTo(r) = j.msgs  BY <3>1 DEF KnownTo
    <3> QED BY <3>3, <3>4
  <2> QED BY <2>1, <2>2
<1>8. CASE Add(r) \/ IncrementRewrite(r) \/ \E k \in 1..MaxEdit : Compact(r, k)
  BY <1>8 DEF Add, IncrementRewrite, Compact, KnownTo, baseVars
<1>9. ASSUME NEW shutdown, Snapshot(r, shutdown) PROVE KnownTo(r)' = KnownTo(r)
  BY <1>4, <1>9 DEF Snapshot, Stage, baseVars
<1>10. ASSUME NEW k, NEW caller, Cut(r, k, caller) PROVE KnownTo(r)' = KnownTo(r)
  BY <1>4, <1>10 DEF Cut, Stage, baseVars
<1>11. CASE FastPath(r)
  BY <1>0, <1>3, <1>11, KnownStopped DEF FastPath, Return
<1>12. CASE BeginSave(r)
  BY <1>3, <1>4, <1>12 DEF BeginSave, Stage, baseVars
<1>13. CASE WriteFile(r)
  BY <1>13, KnownKept DEF WriteFile, baseVars
<1>14. ASSUME stage[r] = "writing", Head(j.todo) \in {"mark", "record", "meta"},
              NEW d \in Seq(Text), MarkPersisted(r, Len(d)), Idle(r)
       PROVE  KnownTo(r)' \in {Stored(main), NoTranscript}
  <2> PICK b : b = [ok |-> TRUE, path |-> j.path, digest |-> j.msgs,
                    revision |-> Len(d), verified |-> TRUE]
    OBVIOUS
  <2>1. Len(d) \in Nat  OBVIOUS
  <2>2. persisted'[r] = b /\ stage'[r] # "loading"
    BY <1>0, <1>14, <2>1, IdleEffect, MarkEffect
  <2>3. KnownTo(r)' = IF j.path = main THEN j.msgs ELSE NoTranscript  BY <2>2, KnownNext
  <2>4. j.path = main => Stored(main) = j.msgs  BY <1>14, SavedSoFar DEF Readable
  <2> QED BY <2>3, <2>4
<1>15. CASE FinishSave(r)
  <2>1. CASE j.shutdown  BY <1>0, <1>15, <2>1, KnownStopped DEF FinishSave
  <2>2. CASE ~ j.shutdown
    <3> PICK d : d = Recorded(Digests(j.path), Head(j.todo), j.msgs)  OBVIOUS
    <3>1. /\ stage[r] = "writing" /\ Head(j.todo) \in {"mark", "record", "meta"}
          /\ MarkPersisted(r, Len(d)) /\ Idle(r)
      BY <1>15, <2>2 DEF FinishSave
    <3>2. d \in Seq(Text)  BY <3>1, SavedSoFar
    <3> QED BY <1>14, <3>1, <3>2
  <2> QED BY <2>1, <2>2
<1>16. CASE CommitFails(r)
  <2> PICK d : d = Recorded(Digests(j.path), "meta", j.msgs)  OBVIOUS
  <2>1. stage[r] = "writing" /\ j.todo = <<"meta">> /\ MarkPersisted(r, Len(d)) /\ Idle(r)
    BY <1>16 DEF CommitFails
  <2>2. Head(j.todo) = "meta"  BY <2>1, PlansWritten
  <2>3. d \in Seq(Text)  BY <2>1, <2>2, SavedSoFar
  <2> QED BY <1>14, <2>1, <2>2, <2>3
<1>17. CASE WriteFails(r)  BY <1>3, <1>17 DEF WriteFails, baseVars
<1>18. CASE Die(r)  BY <1>0, <1>18, KnownStopped DEF Die
<1>19. CASE Retry(r)  BY <1>4, <1>19 DEF Retry, Stage, baseVars
<1>20. CASE Adopt(r)
  <2>1. j \in JobRecord  BY JobNow
  <2> QED BY <1>2, <1>20, <2>1 DEF Adopt
<1>21. CASE Recover(r)  BY <1>4, <1>21 DEF Recover, Stage, baseVars
<1>22. CASE BeginCopy(r)  BY <1>4, <1>22 DEF BeginCopy, Stage, baseVars
<1>23. CASE LockTimeout(r)  BY <1>3, <1>4, <1>23 DEF LockTimeout, Stage, baseVars
<1> QED BY <1>5, <1>6, <1>7, <1>8, <1>9, <1>10, <1>11, <1>12, <1>13, <1>15, <1>16, <1>17, <1>18,
           <1>19, <1>20, <1>21, <1>22, <1>23 DEF StepOf

LEMMA PromiseInit == SaveInit /\ SaveInv => Promise!Init
<1> SUFFICES ASSUME SaveInit, SaveInv PROVE Promise!Init  OBVIOUS
<1>1. Stored(main) \in Text \cup {NoTranscript}
  BY EveryFileSound, StoredShape DEF SaveInv, FileSound, Transcript
<1>2. ASSUME NEW r \in Runtime PROVE KnownTo(r) = NoTranscript
  <2>1. stage[r] # "loading" /\ persisted[r] = NoBase  BY DEF SaveInit
  <2> QED BY <2>1, KnownAtRest DEF NoBase
<1>3. [r \in Runtime |-> KnownTo(r)] = [r \in Runtime |-> NoTranscript]  BY <1>2
<1> QED BY <1>1, <1>3 DEF Promise!Init

LEMMA PromiseStep == SaveInv /\ [SaveNext]_saveVars => [Promise!Next]_(Promise!vars)
<1> SUFFICES ASSUME SaveInv, [SaveNext]_saveVars PROVE [Promise!Next]_(Promise!vars)  OBVIOUS
<1> DEFINE known == [r \in Runtime |-> KnownTo(r)]
<1>0. VariablesTyped  BY DEF SaveInv
<1>1. CASE UNCHANGED saveVars
  <2>1. Stored(main)' = Stored(main)
    BY <1>1 DEF saveVars, storeVars, Stored, Files
  <2>2. \A r : KnownTo(r)' = KnownTo(r)
    BY <1>1 DEF saveVars, baseVars, KnownTo
  <2>3. known' = known  BY <2>2
  <2> QED BY <2>1, <2>3 DEF Promise!vars
<1>2. CASE SaveNext
  <2>1. PICK r \in Runtime : StepOf(r)  BY <1>2, NextIsStep
  <2>2. \A s \in Runtime : s # r => KnownTo(s)' = KnownTo(s)
    BY <1>0, <2>1, OthersStill, KnownStill
  <2>3. KnownTo(r)' \in {KnownTo(r), Stored(main), NoTranscript}  BY <2>1, KnownStep
  <2>4. CASE Stored(main)' = Stored(main)
    <3>1. CASE KnownTo(r)' = KnownTo(r)
      <4>1. known' = known  BY <2>2, <3>1
      <4> QED BY <2>4, <4>1 DEF Promise!vars
    <3>2. CASE KnownTo(r)' = Stored(main)
      <4>1. known' = [known EXCEPT ![r] = Stored(main)]  BY <2>2, <3>2
      <4>2. Promise!Learn(r)  BY <2>4, <4>1 DEF Promise!Learn
      <4> QED BY <4>2 DEF Promise!Next
    <3>3. CASE KnownTo(r)' = NoTranscript
      <4>1. known' = [known EXCEPT ![r] = NoTranscript]  BY <2>2, <3>3
      <4>2. Promise!Forget(r)  BY <2>4, <4>1 DEF Promise!Forget
      <4> QED BY <4>2 DEF Promise!Next
    <3> QED BY <2>3, <3>1, <3>2, <3>3
  <2>5. CASE Stored(main)' # Stored(main)
    <3> PICK p, b, j : path[r] = p /\ persisted[r] = b /\ job[r] = j  OBVIOUS
    <3>1. /\ stage[r] = "writing" /\ j.path = main /\ Stored(main)' = j.msgs
          /\ persisted'[r] = persisted[r] /\ stage'[r] # "loading"
      BY <2>1, <2>5, StoredStep
    <3>2. j \in JobRecord /\ WriteSound(p, b, j)  BY <3>1, JobNow DEF JobSound
    <3>3. Authorised(b, j)  BY <3>1, <3>2 DEF WriteSound
    <3>4. Stored(main)' \in Text  BY <3>1, <3>2 DEF JobRecord
    <3>5. KnownTo(r)' = KnownTo(r)  BY <3>1, KnownKept
    <3>6. known' = known  BY <2>2, <3>5
    <3>7. CASE Stored(main) = NoTranscript
      <4>1. Promise!Create  BY <3>4, <3>6, <3>7 DEF Promise!Create
      <4> QED BY <4>1 DEF Promise!Next
    <3>8. CASE Stored(main) # NoTranscript /\ IsPrefix(Stored(main), j.msgs)
      <4>1. Promise!Extend
        BY <2>5, <3>1, <3>4, <3>6, <3>8
           DEF Promise!Extend, Promise!IsStrictPrefix, Promise!IsPrefix, IsPrefix
      <4> QED BY <4>1 DEF Promise!Next
    <3>9. CASE Stored(main) # NoTranscript /\ b.ok /\ b.path = main /\ b.digest = Stored(main)
      <4>1. KnownTo(r) = Stored(main)  BY <3>1, <3>9, KnownAtRest
      <4>2. known[r] = Stored(main)  BY <4>1
      <4>3. Promise!Rewrite(r)  BY <3>4, <3>6, <3>9, <4>2 DEF Promise!Rewrite
      <4> QED BY <4>3 DEF Promise!Next
    <3> QED BY <3>1, <3>3, <3>7, <3>8, <3>9 DEF Authorised
  <2> QED BY <2>4, <2>5
<1> QED BY <1>1, <1>2

(* The store implements SessionFile: whatever the runtimes that share the  *)
(* session file do, its transcript is continued, or replaced by a runtime  *)
(* that knows exactly what it replaces.                                    *)
THEOREM StoreImplementsPromise == SaveSpec => ImplementsPromise
<1>1. SaveInit => SaveInv  BY InitSound
<1>2. SaveInit /\ SaveInv => Promise!Init  BY PromiseInit
<1>3. SaveInv /\ [SaveNext]_saveVars => [Promise!Next]_(Promise!vars)  BY PromiseStep
<1> QED BY <1>1, <1>2, <1>3, SavesAreSound, PTL DEF SaveSpec, ImplementsPromise, Promise!Spec
================================================================================
