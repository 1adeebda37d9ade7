-------------------------- MODULE WorkspaceLeaseProofs --------------------------
(***************************************************************************)
(* What is proved of WorkspaceLease for any processes, sessions, runs and  *)
(* jobs.                                                                   *)
(***************************************************************************)
EXTENDS WorkspaceLease, FiniteSetTheorems, TLAPS

(* One run of a session fetches the lease, and only one that is not there. *)
Fetched ==
    \A o \in Owner :
        /\ acquiring[o] <=> Fetching(o) # {}
        /\ \A r, q \in Fetching(o) : r = q
        /\ acquired[o] => ~ acquiring[o] /\ dropping[o] = "nothing"

(* The steps of the way at which a session has the token, and the file.    *)
HasToken(o) == \/ acquired[o] \/ dropping[o] # "nothing"
               \/ \E r \in RunsOf(o) : pc[r] \in {"file", "got"}
HasFile(o) == \/ acquired[o] \/ dropping[o] = "file"
              \/ \E r \in RunsOf(o) : pc[r] = "got"

Locks == \A o \in Owner : /\ token[ProcessOf[o]] = o <=> HasToken(o)
                          /\ file = o <=> HasFile(o)

(* What is being given back is not fetched at the same time.               *)
Apart == \A r \in Run : dropping[OwnerOf[r]] # "nothing" => pc[r] \notin {"file", "got"}

(* Who writes has the lease, and who has the lease is at work.             *)
Told == /\ \A r \in Run : wrote[r] => pc[r] # "idle" /\ acquired[OwnerOf[r]]
        /\ \A j \in Job : jobOf[j] # NoOwner => acquired[jobOf[j]]

Needed == \A o \in Owner : acquired[o] => activeRuns[o] > 0 \/ background[o] > 0

IInv == TypeOK /\ Fetched /\ Locks /\ Apart /\ Told /\ Needed

-----------------------------------------------------------------------------
(* The counters of a session are the numbers of its runs and jobs.         *)
LEMMA FiniteCounts ==
    \A o : IsFiniteSet(Busy(o)) /\ IsFiniteSet(JobsOf(o))
<1> SUFFICES ASSUME NEW o PROVE IsFiniteSet(Busy(o)) /\ IsFiniteSet(JobsOf(o))
  OBVIOUS
<1>1. Busy(o) \in SUBSET Run /\ JobsOf(o) \in SUBSET Job  BY DEF Busy, RunsOf, JobsOf
<1> QED BY <1>1, FiniteAssumption, FS_Subset

LEMMA NobodyAtWork ==
    ASSUME TypeOK, NEW o \in Owner
    PROVE  /\ activeRuns[o] = 0 <=> Busy(o) = {}
           /\ background[o] = 0 <=> JobsOf(o) = {}
BY FiniteCounts, FS_EmptySet DEF TypeOK

LEMMA Init_IInv == Init => IInv
<1> SUFFICES ASSUME Init PROVE IInv  OBVIOUS
<1>1. \A o \in Owner : Busy(o) = {} /\ JobsOf(o) = {} /\ Fetching(o) = {}
  BY HomeAssumption DEF Init, Busy, JobsOf, Fetching, RunsOf
<1>2. TypeOK
  BY <1>1, FS_EmptySet, HomeAssumption DEF Init, TypeOK
<1>3. Fetched /\ Locks /\ Apart /\ Told /\ Needed
  BY <1>1, HomeAssumption
     DEF Init, Fetched, Locks, HasToken, HasFile, Apart, Told, Needed, RunsOf
<1> QED BY <1>2, <1>3 DEF IInv

-----------------------------------------------------------------------------
(* A run that moves on the way, and neither begins nor ends.               *)
LEMMA BusyStays ==
    ASSUME TypeOK, NEW r \in Run, NEW where, GoTo(r, where), where # "idle", pc[r] # "idle"
    PROVE  \A o : Busy(o)' = Busy(o)
BY DEF TypeOK, GoTo, Busy, RunsOf

LEMMA BeginRun_IInv == ASSUME IInv, NEW r \in Run, BeginRun(r) PROVE IInv'
<1> DEFINE o == OwnerOf[r]
<1>0. o \in Owner  BY HomeAssumption
<1>1. Busy(o)' = Busy(o) \cup {r} /\ r \notin Busy(o)
  BY <1>0 DEF IInv, TypeOK, BeginRun, GoTo, Busy, RunsOf
<1>2. \A w \in Owner \ {o} : Busy(w)' = Busy(w)
  BY DEF IInv, TypeOK, BeginRun, GoTo, Busy, RunsOf
<1>3. \A w \in Owner : JobsOf(w)' = JobsOf(w)
  BY DEF BeginRun, JobsOf
<1>4. Cardinality(Busy(o)') = activeRuns[o] + 1
  <2>1. IsFiniteSet(Busy(o))  BY FiniteCounts
  <2>2. Cardinality(Busy(o) \cup {r}) = Cardinality(Busy(o)) + 1
    BY <1>1, <2>1, FS_AddElement
  <2> QED BY <1>0, <1>1, <2>2 DEF IInv, TypeOK
<1>5. activeRuns' = [activeRuns EXCEPT ![o] = @ + 1]
  BY DEF BeginRun
<1>6. TypeOK'
  <2>1. ASSUME NEW w \in Owner
        PROVE  /\ activeRuns'[w] = Cardinality(Busy(w)')
               /\ background'[w] = Cardinality(JobsOf(w)')
    <3>1. CASE w = o  BY <1>0, <1>3, <1>4, <1>5, <3>1 DEF IInv, TypeOK, BeginRun
    <3>2. CASE w # o  BY <1>2, <1>3, <1>5, <3>2 DEF IInv, TypeOK, BeginRun
    <3> QED BY <3>1, <3>2
  <2>2. activeRuns' \in [Owner -> Nat]  BY <1>0, <1>5 DEF IInv, TypeOK
  <2>3. pc' \in [Run -> {"idle", "running", "await", "token", "file", "got", "failed"}]
    BY DEF IInv, TypeOK, BeginRun, GoTo
  <2> QED BY <2>1, <2>2, <2>3 DEF IInv, TypeOK, BeginRun, lockVars
<1>7. \A w \in Owner : Fetching(w)' = Fetching(w)
  BY DEF IInv, TypeOK, BeginRun, GoTo, Fetching, RunsOf
<1>8. \A w \in Owner : HasToken(w)' = HasToken(w) /\ HasFile(w)' = HasFile(w)
  BY DEF IInv, TypeOK, BeginRun, GoTo, HasToken, HasFile, RunsOf
<1>9. Fetched' /\ Locks'
  BY <1>7, <1>8 DEF IInv, BeginRun, Fetched, Locks, lockVars
<1>10. Apart' /\ Told'
  BY DEF IInv, TypeOK, BeginRun, GoTo, Apart, Told, RunsOf
<1>11. Needed'
  BY <1>5 DEF IInv, TypeOK, BeginRun, Needed
<1> QED BY <1>6, <1>9, <1>10, <1>11 DEF IInv

(* A step of a run on the way leaves the counters alone.                   *)
Moves(r) == /\ pc[r] # "idle" /\ jobOf' = jobOf
            /\ activeRuns' = activeRuns /\ background' = background
            /\ \E where \in {"running", "await", "token", "file", "got", "failed"} : GoTo(r, where)

LEMMA MovesKeepCounts ==
    ASSUME TypeOK, NEW r \in Run, Moves(r),
           wrote' \in [Run -> BOOLEAN], acquired' \in [Owner -> BOOLEAN],
           acquiring' \in [Owner -> BOOLEAN],
           dropping' \in [Owner -> {"nothing", "file", "token"}],
           token' \in [Process -> Owner \cup {NoOwner}], file' \in Owner \cup {NoOwner}
    PROVE  TypeOK'
<1>1. \A o : Busy(o)' = Busy(o)  BY BusyStays DEF Moves
<1>2. \A o : JobsOf(o)' = JobsOf(o)  BY DEF Moves, JobsOf
<1>3. pc' \in [Run -> {"idle", "running", "await", "token", "file", "got", "failed"}]
  BY DEF TypeOK, Moves, GoTo
<1> QED BY <1>1, <1>2, <1>3 DEF TypeOK, Moves

LEMMA AcquireWrite_IInv == ASSUME IInv, NEW r \in Run, AcquireWrite(r) PROVE IInv'
<1> DEFINE o == OwnerOf[r]
<1>0. o \in Owner  BY HomeAssumption
<1>1. TypeOK'
  <2>1. Moves(r)  BY DEF AcquireWrite, Moves, GoTo
  <2> QED BY <2>1, MovesKeepCounts DEF IInv, TypeOK, AcquireWrite, lockVars
<1>2. Fetched'
  <2>1. ASSUME NEW w \in Owner, w # o  PROVE Fetching(w)' = Fetching(w) /\ acquiring'[w] = acquiring[w]
    BY <2>1 DEF IInv, TypeOK, AcquireWrite, GoTo, Fetching, RunsOf
  <2>2. CASE acquired[o] \/ acquiring[o]
    <3>1. Fetching(o)' = Fetching(o) /\ acquiring' = acquiring
      BY <2>2 DEF IInv, TypeOK, AcquireWrite, GoTo, Fetching, RunsOf
    <3> QED BY <2>1, <3>1 DEF IInv, AcquireWrite, Fetched
  <2>3. CASE ~ acquired[o] /\ ~ acquiring[o]
    <3>1. Fetching(o) = {}  BY <1>0, <2>3 DEF IInv, Fetched
    <3>2. Fetching(o)' = {r}
      BY <3>1, <2>3 DEF IInv, TypeOK, AcquireWrite, GoTo, Fetching, RunsOf
    <3>3. acquiring'[o]  BY <1>0, <2>3 DEF IInv, TypeOK, AcquireWrite
    <3> QED BY <2>1, <2>3, <3>2, <3>3 DEF IInv, AcquireWrite, Fetched
  <2> QED BY <2>2, <2>3
<1>3. Locks'
  <2>1. \A w \in Owner : HasToken(w)' = HasToken(w) /\ HasFile(w)' = HasFile(w)
    BY DEF IInv, TypeOK, AcquireWrite, GoTo, HasToken, HasFile, RunsOf
  <2> QED BY <2>1 DEF IInv, Locks, AcquireWrite, lockVars
<1>4. Apart'  BY DEF IInv, TypeOK, Apart, AcquireWrite, GoTo
<1>5. Told'  BY DEF IInv, TypeOK, Told, AcquireWrite, GoTo
<1>6. Needed'  BY DEF IInv, Needed, AcquireWrite
<1> QED BY <1>1, <1>2, <1>3, <1>4, <1>5, <1>6 DEF IInv

(* A run that fetches goes on to the token, to the file, or gives up.      *)
Fetches(r) == TakeToken(r) \/ LockFile(r) \/ GiveUp(r) \/ StopAwaiting(r)

LEMMA Fetches_IInv == ASSUME IInv, NEW r \in Run, Fetches(r) PROVE IInv'
<1> DEFINE o == OwnerOf[r]
<1>0. o \in Owner /\ ProcessOf[o] \in Process  BY HomeAssumption
<1>1. TypeOK'
  <2>1. Moves(r)
    BY DEF Fetches, TakeToken, LockFile, GiveUp, StopAwaiting, Moves, GoTo, ownerVars
  <2>2. token' \in [Process -> Owner \cup {NoOwner}] /\ file' \in Owner \cup {NoOwner}
    BY <1>0 DEF IInv, TypeOK, Fetches, TakeToken, LockFile, GiveUp, StopAwaiting, lockVars
  <2> QED BY <2>1, <2>2, MovesKeepCounts
          DEF IInv, TypeOK, Fetches, TakeToken, LockFile, GiveUp, StopAwaiting, ownerVars
<1>2. Fetched'
  <2>1. \A w \in Owner : Fetching(w)' = Fetching(w)
    BY DEF IInv, TypeOK, Fetches, TakeToken, LockFile, GiveUp, StopAwaiting, GoTo, Fetching, RunsOf
  <2> QED BY <2>1 DEF IInv, Fetched, Fetches, TakeToken, LockFile, GiveUp, StopAwaiting, ownerVars
<1>3. Locks'
  <2>0. \A q \in Run : q # r => pc'[q] = pc[q]
    BY DEF IInv, TypeOK, Fetches, TakeToken, LockFile, GiveUp, StopAwaiting, GoTo, RunsOf
  <2>1. ASSUME NEW w \in Owner, w # o
        PROVE HasToken(w)' = HasToken(w) /\ HasFile(w)' = HasFile(w)
    <3>1. \A q \in RunsOf(w) : pc'[q] = pc[q]  BY <2>0, <2>1 DEF RunsOf
    <3> QED BY <3>1 DEF HasToken, HasFile, Fetches, TakeToken, LockFile, GiveUp, StopAwaiting, ownerVars, RunsOf
  <2>2. CASE TakeToken(r)
    <3>1. pc'[r] = "file"  BY <2>2 DEF IInv, TypeOK, TakeToken, GoTo
    <3>2. HasToken(o)' /\ HasFile(o)' = HasFile(o)
      BY <2>0, <2>2, <3>1 DEF HasToken, HasFile, TakeToken, ownerVars, RunsOf
    <3> QED BY <1>0, <2>1, <2>2, <3>2, HomeAssumption DEF IInv, TypeOK, Locks, TakeToken
  <2>3. CASE LockFile(r)
    <3>1. pc'[r] = "got"  BY <2>3 DEF IInv, TypeOK, LockFile, GoTo
    <3>2. HasToken(o)' = HasToken(o) /\ HasFile(o)'
      BY <2>0, <2>3, <3>1 DEF HasToken, HasFile, LockFile, ownerVars, RunsOf
    <3> QED BY <1>0, <2>1, <2>3, <3>2, HomeAssumption DEF IInv, TypeOK, Locks, LockFile
  <2>4. CASE GiveUp(r) /\ pc[r] = "file"
    <3>1. pc'[r] = "failed"  BY <2>4 DEF IInv, TypeOK, GiveUp, GoTo
    <3>2. r \in Fetching(o) /\ \A q \in RunsOf(o) : q # r => pc[q] \notin {"file", "got"}
      BY <1>0, <2>4 DEF IInv, Fetched, Fetching, RunsOf
    <3>3. ~ acquired[o] /\ dropping[o] = "nothing"
      BY <1>0, <2>4, <3>2 DEF IInv, TypeOK, Fetched, Apart
    <3>4. ~ HasToken(o)' /\ ~ HasFile(o)' /\ ~ HasFile(o) /\ HasToken(o)
      BY <2>0, <2>4, <3>1, <3>2, <3>3 DEF HasToken, HasFile, GiveUp, ownerVars, RunsOf
    <3>5. token[ProcessOf[o]] = o  BY <1>0, <3>4 DEF IInv, Locks
    <3> QED BY <1>0, <2>1, <2>4, <3>4, <3>5, HomeAssumption DEF IInv, TypeOK, Locks, GiveUp
  <2>5. CASE (GiveUp(r) /\ pc[r] # "file") \/ StopAwaiting(r)
    <3>1. pc'[r] \notin {"file", "got"} /\ pc[r] \notin {"file", "got"}
      BY <2>5 DEF IInv, TypeOK, GiveUp, StopAwaiting, GoTo
    <3>2. HasToken(o)' = HasToken(o) /\ HasFile(o)' = HasFile(o)
      BY <2>0, <2>5, <3>1 DEF HasToken, HasFile, GiveUp, StopAwaiting, ownerVars, RunsOf
    <3> QED BY <2>1, <2>5, <3>2 DEF IInv, Locks, GiveUp, StopAwaiting, lockVars
  <2> QED BY <2>2, <2>3, <2>4, <2>5 DEF Fetches
<1>4. Apart'
  <2>1. CASE TakeToken(r)
    <3>1. dropping[o] = "nothing"
      BY <1>0, <2>1, HomeAssumption DEF IInv, TypeOK, Locks, HasToken, TakeToken
    <3> QED BY <2>1, <3>1 DEF IInv, TypeOK, Apart, TakeToken, GoTo, ownerVars
  <2>2. CASE ~ TakeToken(r)
    BY <2>2 DEF IInv, TypeOK, Apart, Fetches, LockFile, GiveUp, StopAwaiting, GoTo, ownerVars
  <2> QED BY <2>1, <2>2
<1>5. Told'
  BY DEF IInv, TypeOK, Told, Fetches, TakeToken, LockFile, GiveUp, StopAwaiting, GoTo, ownerVars
<1>6. Needed'
  BY DEF IInv, Needed, Fetches, TakeToken, LockFile, GiveUp, StopAwaiting, ownerVars
<1> QED BY <1>1, <1>2, <1>3, <1>4, <1>5, <1>6 DEF IInv

-----------------------------------------------------------------------------
(* What an assignment to the fields of a session and releaseIfIdleLocked   *)
(* leave behind.                                                           *)
LEMMA SettleParts ==
    ASSUME TypeOK, NEW o \in Owner, NEW runs \in Nat, NEW jobs \in Nat,
           NEW held \in BOOLEAN, NEW busy \in BOOLEAN, held => ~ busy,
           Settle(o, runs, jobs, held, busy)
    PROVE  /\ activeRuns' \in [Owner -> Nat] /\ background' \in [Owner -> Nat]
           /\ acquired' \in [Owner -> BOOLEAN] /\ acquiring' \in [Owner -> BOOLEAN]
           /\ dropping' \in [Owner -> {"nothing", "file", "token"}]
           /\ activeRuns'[o] = runs /\ background'[o] = jobs /\ acquiring'[o] = busy
           /\ acquired'[o] <=> held /\ (runs > 0 \/ jobs > 0)
           /\ dropping'[o] = IF held /\ ~ acquired'[o] THEN "file" ELSE dropping[o]
           /\ \A w \in Owner \ {o} :
                 /\ activeRuns'[w] = activeRuns[w] /\ background'[w] = background[w]
                 /\ acquired'[w] = acquired[w] /\ acquiring'[w] = acquiring[w]
                 /\ dropping'[w] = dropping[w]
<1>1. \A n \in Nat : n > 0 <=> n # 0  OBVIOUS
<1> QED BY <1>1 DEF Settle, IdleNow, TypeOK

LEMMA EndRun_IInv == ASSUME IInv, NEW r \in Run, EndRun(r) PROVE IInv'
<1> DEFINE o == OwnerOf[r]
           runs == activeRuns[o] - 1
<1>0. o \in Owner /\ TypeOK  BY HomeAssumption DEF IInv
<1>1. pc' = [pc EXCEPT ![r] = "idle"] /\ pc[r] = "running" /\ wrote' = [wrote EXCEPT ![r] = FALSE]
  BY DEF EndRun, GoTo
<1>2. Busy(o)' = Busy(o) \ {r} /\ r \in Busy(o)
  BY <1>0, <1>1 DEF TypeOK, Busy, RunsOf
<1>3. Cardinality(Busy(o)') = runs /\ activeRuns[o] > 0 /\ runs \in Nat
  <2>1. IsFiniteSet(Busy(o))  BY FiniteCounts
  <2>2. Cardinality(Busy(o) \ {r}) = Cardinality(Busy(o)) - 1  BY <1>2, <2>1, FS_RemoveElement
  <2>3. activeRuns[o] # 0  BY <1>0, <1>2, NobodyAtWork
  <2> QED BY <1>0, <1>2, <2>2, <2>3 DEF TypeOK
<1>4. Settle(o, runs, background[o], acquired[o], acquiring[o])
  BY <1>3 DEF EndRun, Less
<1>5. /\ background[o] \in Nat /\ acquired[o] \in BOOLEAN /\ acquiring[o] \in BOOLEAN
      /\ acquired[o] => ~ acquiring[o] /\ dropping[o] = "nothing"
  BY <1>0 DEF IInv, TypeOK, Fetched
<1> HIDE DEF runs
<1>6. /\ activeRuns' \in [Owner -> Nat] /\ background' \in [Owner -> Nat]
      /\ acquired' \in [Owner -> BOOLEAN] /\ acquiring' \in [Owner -> BOOLEAN]
      /\ dropping' \in [Owner -> {"nothing", "file", "token"}]
      /\ activeRuns'[o] = runs /\ background'[o] = background[o] /\ acquiring'[o] = acquiring[o]
      /\ acquired'[o] <=> acquired[o] /\ (runs > 0 \/ background[o] > 0)
      /\ dropping'[o] = IF acquired[o] /\ ~ acquired'[o] THEN "file" ELSE dropping[o]
      /\ \A w \in Owner \ {o} :
            /\ activeRuns'[w] = activeRuns[w] /\ background'[w] = background[w]
            /\ acquired'[w] = acquired[w] /\ acquiring'[w] = acquiring[w]
            /\ dropping'[w] = dropping[w]
  BY <1>0, <1>3, <1>4, <1>5, SettleParts
<1>7. jobOf' = jobOf /\ token' = token /\ file' = file  BY DEF EndRun, lockVars
<1>8. TypeOK'
  <2>1. ASSUME NEW w \in Owner
        PROVE  /\ activeRuns'[w] = Cardinality(Busy(w)')
               /\ background'[w] = Cardinality(JobsOf(w)')
    <3>1. JobsOf(w)' = JobsOf(w)  BY <1>7 DEF JobsOf
    <3>2. CASE w = o  BY <1>0, <1>3, <1>6, <3>1, <3>2 DEF TypeOK
    <3>3. CASE w # o
      <4>1. Busy(w)' = Busy(w)  BY <1>0, <1>1, <3>3 DEF TypeOK, Busy, RunsOf
      <4> QED BY <1>0, <1>6, <3>1, <3>3, <4>1 DEF TypeOK
    <3> QED BY <3>2, <3>3
  <2> QED BY <1>0, <1>1, <1>6, <1>7, <2>1 DEF TypeOK
<1>9. \A w \in Owner : Fetching(w)' = Fetching(w)
  BY <1>0, <1>1 DEF TypeOK, Fetching, RunsOf
<1>10. Fetched'
  BY <1>5, <1>6, <1>9 DEF IInv, Fetched
<1>11. \A w \in Owner : HasToken(w)' = HasToken(w) /\ HasFile(w)' = HasFile(w)
  <2>1. ASSUME NEW w \in Owner
        PROVE  /\ (\E q \in RunsOf(w) : pc'[q] \in {"file", "got"})
                     <=> (\E q \in RunsOf(w) : pc[q] \in {"file", "got"})
               /\ (\E q \in RunsOf(w) : pc'[q] = "got") <=> (\E q \in RunsOf(w) : pc[q] = "got")
    BY <1>0, <1>1 DEF TypeOK, RunsOf
  <2>2. \A w \in Owner : RunsOf(w)' = RunsOf(w)  BY DEF RunsOf
  <2>3. ASSUME NEW w \in Owner  PROVE HasToken(w)' <=> HasToken(w)
    BY <1>0, <1>5, <1>6, <2>1, <2>2 DEF HasToken, TypeOK
  <2>4. ASSUME NEW w \in Owner  PROVE HasFile(w)' <=> HasFile(w)
    BY <1>0, <1>5, <1>6, <2>1, <2>2 DEF HasFile, TypeOK
  <2> QED BY <2>3, <2>4 DEF HasToken, HasFile
<1>12. Locks'
  BY <1>7, <1>11 DEF IInv, Locks
<1>13. Apart'
  <2>1. ASSUME NEW q \in Run, dropping'[OwnerOf[q]] # "nothing"  PROVE pc'[q] \notin {"file", "got"}
    <3>1. CASE OwnerOf[q] = o /\ acquired[o]
      <4>1. Fetching(o) = {}  BY <1>0, <1>5, <3>1 DEF IInv, Fetched
      <4> QED BY <1>0, <1>1, <3>1, <4>1 DEF TypeOK, Fetching, RunsOf
    <3>2. CASE ~ (OwnerOf[q] = o /\ acquired[o])
      <4>1. dropping'[OwnerOf[q]] = dropping[OwnerOf[q]]  BY <1>6, <3>2, HomeAssumption
      <4> QED BY <1>0, <1>1, <2>1, <4>1 DEF IInv, Apart, TypeOK
    <3> QED BY <3>1, <3>2
  <2> QED BY <2>1 DEF Apart
<1>14. Told'
  <2>1. CASE acquired[o] => acquired'[o]
    <3>1. \A w \in Owner : acquired[w] => acquired'[w]  BY <1>6, <2>1
    <3>2. \A q \in Run : wrote'[q] => wrote[q] /\ pc'[q] = pc[q]  BY <1>0, <1>1 DEF TypeOK
    <3> QED BY <1>0, <1>7, <3>1, <3>2, HomeAssumption DEF IInv, Told, TypeOK
  <2>2. CASE acquired[o] /\ ~ acquired'[o]
    <3>1. runs = 0 /\ background[o] = 0  BY <1>3, <1>5, <1>6, <2>2
    <3>2. Busy(o)' = {}
      BY <1>2, <1>3, <3>1, FiniteCounts, FS_EmptySet, FS_RemoveElement
    <3>3. JobsOf(o) = {}  BY <1>0, <3>1, NobodyAtWork
    <3>4. \A q \in Run : OwnerOf[q] = o => ~ wrote'[q]
      BY <1>0, <1>1, <1>2, <3>2 DEF IInv, Told, TypeOK, Busy, RunsOf
    <3>5. \A q \in Run : wrote'[q] => wrote[q] /\ pc'[q] = pc[q]  BY <1>0, <1>1 DEF TypeOK
    <3>6. \A j \in Job : jobOf[j] # NoOwner => jobOf[j] # o /\ jobOf[j] \in Owner
      BY <1>0, <3>3 DEF TypeOK, JobsOf
    <3> QED BY <1>6, <1>7, <3>4, <3>5, <3>6, HomeAssumption DEF IInv, Told
  <2> QED BY <2>1, <2>2
<1>15. Needed'
  BY <1>6 DEF IInv, Needed
<1> QED BY <1>8, <1>10, <1>12, <1>13, <1>14, <1>15 DEF IInv

(* The outcome of the way is published.                                    *)
LEMMA Acquired_IInv == ASSUME IInv, NEW r \in Run, Acquired(r) PROVE IInv'
<1> DEFINE o == OwnerOf[r]
           ok == pc[r] = "got"
           held == acquired[o] \/ ok
           busy == FALSE
<1>0. o \in Owner /\ TypeOK  BY HomeAssumption DEF IInv
<1>1. /\ pc' = [pc EXCEPT ![r] = "running"] /\ pc[r] \in {"got", "failed"}
      /\ wrote' = [wrote EXCEPT ![r] = @ \/ ok]
      /\ jobOf' = jobOf /\ token' = token /\ file' = file
  BY DEF Acquired, GoTo, lockVars
<1>2. Fetching(o) = {r} /\ ~ acquired[o] /\ acquiring[o]
  BY <1>0, <1>1 DEF IInv, Fetched, Fetching, RunsOf
<1>3. r \in Busy(o) /\ activeRuns[o] > 0
  <2>1. r \in Busy(o)  BY <1>0, <1>1 DEF Busy, RunsOf
  <2> QED BY <1>0, <2>1, NobodyAtWork DEF TypeOK
<1>4. activeRuns[o] \in Nat /\ background[o] \in Nat /\ held \in BOOLEAN /\ busy \in BOOLEAN
  BY <1>0 DEF TypeOK
<1>5. Settle(o, activeRuns[o], background[o], held, busy)
  BY DEF Acquired
<1>6. (held <=> ok) /\ ~ busy  BY <1>2
<1> HIDE DEF held, busy
<1>7. /\ activeRuns' \in [Owner -> Nat] /\ background' \in [Owner -> Nat]
      /\ acquired' \in [Owner -> BOOLEAN] /\ acquiring' \in [Owner -> BOOLEAN]
      /\ dropping' \in [Owner -> {"nothing", "file", "token"}]
      /\ activeRuns'[o] = activeRuns[o] /\ background'[o] = background[o] /\ acquiring'[o] = busy
      /\ acquired'[o] <=> held /\ (activeRuns[o] > 0 \/ background[o] > 0)
      /\ dropping'[o] = IF held /\ ~ acquired'[o] THEN "file" ELSE dropping[o]
      /\ \A w \in Owner \ {o} :
            /\ activeRuns'[w] = activeRuns[w] /\ background'[w] = background[w]
            /\ acquired'[w] = acquired[w] /\ acquiring'[w] = acquiring[w]
            /\ dropping'[w] = dropping[w]
  BY <1>0, <1>4, <1>5, <1>6, SettleParts
<1>8. (acquired'[o] <=> ok) /\ dropping'[o] = dropping[o]
  BY <1>3, <1>6, <1>7
<1>9. TypeOK'
  <2>1. \A w : Busy(w)' = Busy(w)  BY <1>0, <1>1 DEF TypeOK, Busy, RunsOf
  <2>2. \A w : JobsOf(w)' = JobsOf(w)  BY <1>1 DEF JobsOf
  <2>3. \A w \in Owner : activeRuns'[w] = activeRuns[w] /\ background'[w] = background[w]
    BY <1>7
  <2>4. wrote' \in [Run -> BOOLEAN]  BY <1>0, <1>1 DEF TypeOK
  <2>5. pc' \in [Run -> {"idle", "running", "await", "token", "file", "got", "failed"}]
    BY <1>0, <1>1 DEF TypeOK
  <2> QED BY <1>0, <1>1, <1>7, <2>1, <2>2, <2>3, <2>4, <2>5 DEF TypeOK
<1>10. Fetched'
  <2>1. Fetching(o)' = {}  BY <1>0, <1>1, <1>2 DEF TypeOK, Fetching, RunsOf
  <2>2. \A w \in Owner \ {o} : Fetching(w)' = Fetching(w)
    BY <1>0, <1>1 DEF TypeOK, Fetching, RunsOf
  <2>3. ok => dropping[o] = "nothing"  BY <1>0, <1>1 DEF IInv, Apart, TypeOK
  <2> QED BY <1>6, <1>7, <1>8, <2>1, <2>2, <2>3 DEF IInv, Fetched
<1>11. Locks'
  <2>1. \A q \in RunsOf(o) : q # r => pc'[q] = pc[q] /\ pc[q] \notin {"file", "got"}
    BY <1>0, <1>1, <1>2 DEF TypeOK, Fetching, RunsOf
  <2>2. r \in RunsOf(o) /\ pc'[r] = "running"  BY <1>0, <1>1 DEF TypeOK, RunsOf
  <2>3. (HasToken(o)' <=> HasToken(o)) /\ (HasFile(o)' <=> HasFile(o))
    <3>0. RunsOf(o)' = RunsOf(o)  BY DEF RunsOf
    <3>1. CASE ok
      BY <1>1, <1>8, <2>2, <3>0, <3>1 DEF HasToken, HasFile
    <3>2. CASE ~ ok
      BY <1>1, <1>2, <1>8, <2>1, <2>2, <3>0, <3>2 DEF HasToken, HasFile
    <3> QED BY <3>1, <3>2
  <2>4. ASSUME NEW w \in Owner \ {o}
        PROVE (HasToken(w)' <=> HasToken(w)) /\ (HasFile(w)' <=> HasFile(w))
    <3>1. RunsOf(w)' = RunsOf(w) /\ \A q \in RunsOf(w) : pc'[q] = pc[q]
      BY <1>0, <1>1 DEF TypeOK, RunsOf
    <3> QED BY <1>7, <3>1 DEF HasToken, HasFile
  <2> QED BY <1>1, <2>3, <2>4 DEF IInv, Locks
<1>12. Apart'
  BY <1>0, <1>1, <1>7, <1>8, HomeAssumption DEF IInv, Apart, TypeOK
<1>13. Told'
  <2>1. \A w \in Owner : acquired[w] => acquired'[w]  BY <1>2, <1>7
  <2>2. \A q \in Run : q # r => wrote'[q] = wrote[q] /\ pc'[q] = pc[q]  BY <1>0, <1>1 DEF TypeOK
  <2>3. (wrote'[r] <=> wrote[r] \/ ok) /\ pc'[r] = "running"  BY <1>0, <1>1 DEF TypeOK
  <2>4. ~ wrote[r]  BY <1>2 DEF IInv, Told
  <2>5. \A q \in Run : wrote'[q] => pc'[q] # "idle" /\ acquired'[OwnerOf[q]]
    <3>1. ASSUME NEW q \in Run, wrote'[q], q # r  PROVE pc'[q] # "idle" /\ acquired'[OwnerOf[q]]
      BY <2>1, <2>2, <3>1, HomeAssumption DEF IInv, Told
    <3>2. wrote'[r] => pc'[r] # "idle" /\ acquired'[o]  BY <1>8, <2>3, <2>4
    <3> QED BY <3>1, <3>2
  <2>6. \A j \in Job : jobOf'[j] # NoOwner => acquired'[jobOf'[j]]
    BY <1>0, <1>1, <2>1 DEF IInv, Told, TypeOK
  <2> QED BY <2>5, <2>6 DEF Told
<1>14. Needed'
  BY <1>3, <1>7 DEF IInv, Needed
<1> QED BY <1>9, <1>10, <1>11, <1>12, <1>13, <1>14 DEF IInv

-----------------------------------------------------------------------------
LEMMA RetainUntil_IInv ==
    ASSUME IInv, NEW r \in Run, NEW j \in Job, RetainUntil(r, j) PROVE IInv'
<1> DEFINE o == OwnerOf[r]
<1>0. o \in Owner /\ TypeOK /\ o # NoOwner  BY HomeAssumption DEF IInv
<1>1. /\ jobOf' = [jobOf EXCEPT ![j] = o] /\ jobOf[j] = NoOwner /\ acquired[o]
      /\ background' = [background EXCEPT ![o] = @ + 1]
      /\ UNCHANGED <<pc, wrote, activeRuns, acquired, acquiring, dropping, token, file>>
  BY DEF RetainUntil, runVars, lockVars
<1>2. JobsOf(o)' = JobsOf(o) \cup {j} /\ j \notin JobsOf(o)
  BY <1>0, <1>1 DEF TypeOK, JobsOf
<1>3. \A w \in Owner \ {o} : JobsOf(w)' = JobsOf(w)
  BY <1>0, <1>1, HomeAssumption DEF TypeOK, JobsOf
<1>4. Cardinality(JobsOf(o)') = background[o] + 1
  <2>1. IsFiniteSet(JobsOf(o))  BY FiniteCounts
  <2>2. Cardinality(JobsOf(o) \cup {j}) = Cardinality(JobsOf(o)) + 1
    BY <1>2, <2>1, FS_AddElement
  <2> QED BY <1>0, <1>2, <2>2 DEF TypeOK
<1>5. \A w : Busy(w)' = Busy(w)  BY <1>1 DEF Busy, RunsOf
<1>6. TypeOK'
  <2>1. \A w \in Owner : background'[w] = Cardinality(JobsOf(w)')
    BY <1>0, <1>1, <1>3, <1>4 DEF TypeOK
  <2>2. background' \in [Owner -> Nat]  BY <1>0, <1>1 DEF TypeOK
  <2> QED BY <1>0, <1>1, <1>5, <2>1, <2>2 DEF TypeOK
<1>7. Fetched' /\ Locks' /\ Apart'
  BY <1>1 DEF IInv, Fetched, Fetching, Locks, HasToken, HasFile, Apart, RunsOf
<1>8. Told'  BY <1>0, <1>1 DEF IInv, Told, TypeOK
<1>9. Needed'  BY <1>0, <1>1 DEF IInv, Needed, TypeOK
<1> QED BY <1>6, <1>7, <1>8, <1>9 DEF IInv

LEMMA JobDone_IInv == ASSUME IInv, NEW j \in Job, JobDone(j) PROVE IInv'
<1>a. jobOf[j] \in Owner  BY DEF IInv, TypeOK, JobDone
<1> PICK o \in Owner : o = jobOf[j]  BY <1>a
<1> DEFINE jobs == background[o] - 1
<1>0. o = jobOf[j] /\ TypeOK /\ o # NoOwner  BY DEF IInv, JobDone
<1>1. /\ jobOf' = [jobOf EXCEPT ![j] = NoOwner]
      /\ UNCHANGED <<pc, wrote, token, file>>
  BY DEF JobDone, runVars, lockVars
<1>2. JobsOf(o)' = JobsOf(o) \ {j} /\ j \in JobsOf(o)
  BY <1>0, <1>1 DEF TypeOK, JobsOf
<1>3. Cardinality(JobsOf(o)') = jobs /\ background[o] > 0 /\ jobs \in Nat
  <2>1. IsFiniteSet(JobsOf(o))  BY FiniteCounts
  <2>2. Cardinality(JobsOf(o) \ {j}) = Cardinality(JobsOf(o)) - 1  BY <1>2, <2>1, FS_RemoveElement
  <2>3. background[o] # 0  BY <1>0, <1>2, NobodyAtWork
  <2> QED BY <1>0, <1>2, <2>2, <2>3 DEF TypeOK
<1>4. Settle(o, activeRuns[o], jobs, acquired[o], acquiring[o])
  BY <1>3 DEF JobDone, Less
<1>5. /\ activeRuns[o] \in Nat /\ acquired[o] \in BOOLEAN /\ acquiring[o] \in BOOLEAN
      /\ acquired[o] => ~ acquiring[o] /\ dropping[o] = "nothing"
  BY <1>0 DEF IInv, TypeOK, Fetched
<1>6. acquired[o]  BY <1>0 DEF IInv, Told
<1> HIDE DEF jobs
<1>7. /\ activeRuns' \in [Owner -> Nat] /\ background' \in [Owner -> Nat]
      /\ acquired' \in [Owner -> BOOLEAN] /\ acquiring' \in [Owner -> BOOLEAN]
      /\ dropping' \in [Owner -> {"nothing", "file", "token"}]
      /\ activeRuns'[o] = activeRuns[o] /\ background'[o] = jobs /\ acquiring'[o] = acquiring[o]
      /\ acquired'[o] <=> acquired[o] /\ (activeRuns[o] > 0 \/ jobs > 0)
      /\ dropping'[o] = IF acquired[o] /\ ~ acquired'[o] THEN "file" ELSE dropping[o]
      /\ \A w \in Owner \ {o} :
            /\ activeRuns'[w] = activeRuns[w] /\ background'[w] = background[w]
            /\ acquired'[w] = acquired[w] /\ acquiring'[w] = acquiring[w]
            /\ dropping'[w] = dropping[w]
  BY <1>0, <1>3, <1>4, <1>5, SettleParts
<1>8. TypeOK'
  <2>1. \A w \in Owner : background'[w] = Cardinality(JobsOf(w)')
    <3>1. ASSUME NEW w \in Owner \ {o}  PROVE JobsOf(w)' = JobsOf(w)
      BY <1>0, <1>1, HomeAssumption DEF TypeOK, JobsOf
    <3> QED BY <1>0, <1>3, <1>7, <3>1 DEF TypeOK
  <2>2. \A w : Busy(w)' = Busy(w)  BY <1>1 DEF Busy, RunsOf
  <2>3. \A w \in Owner : activeRuns'[w] = activeRuns[w]  BY <1>7
  <2>4. jobOf' \in [Job -> Owner \cup {NoOwner}]  BY <1>0, <1>1 DEF TypeOK
  <2> QED BY <1>0, <1>1, <1>7, <2>1, <2>2, <2>3, <2>4 DEF TypeOK
<1>9. Fetched'
  BY <1>1, <1>5, <1>7 DEF IInv, Fetched, Fetching, RunsOf
<1>10. Locks'
  <2>1. \A w \in Owner : RunsOf(w)' = RunsOf(w)  BY DEF RunsOf
  <2>2. \A w \in Owner : (HasToken(w)' <=> HasToken(w)) /\ (HasFile(w)' <=> HasFile(w))
    BY <1>1, <1>5, <1>7, <2>1 DEF HasToken, HasFile
  <2> QED BY <1>1, <2>2 DEF IInv, Locks
<1>11. Apart'
  <2>1. \A q \in Run : OwnerOf[q] = o => pc[q] \notin {"file", "got"}
    BY <1>0, <1>5, <1>6 DEF IInv, Fetched, Fetching, RunsOf
  <2> QED BY <1>1, <1>7, <2>1, HomeAssumption DEF IInv, Apart
<1>12. Told'
  <2>1. CASE acquired'[o]
    <3>1. \A w \in Owner : acquired[w] => acquired'[w]  BY <1>7, <2>1
    <3> QED BY <1>0, <1>1, <3>1, HomeAssumption DEF IInv, Told, TypeOK
  <2>2. CASE ~ acquired'[o]
    <3>1. activeRuns[o] = 0 /\ jobs = 0  BY <1>3, <1>5, <1>6, <1>7, <2>2
    <3>2. Busy(o) = {}  BY <1>0, <3>1, NobodyAtWork
    <3>3. JobsOf(o)' = {}  BY <1>2, <1>3, <3>1, FiniteCounts, FS_EmptySet, FS_RemoveElement
    <3>4. \A q \in Run : OwnerOf[q] = o => ~ wrote[q]
      BY <3>2 DEF IInv, Told, Busy, RunsOf
    <3>5. \A i \in Job : jobOf'[i] # o  BY <3>3 DEF JobsOf
    <3>6. \A i \in Job : jobOf'[i] # NoOwner => jobOf'[i] = jobOf[i] /\ jobOf[i] \in Owner
      BY <1>0, <1>1 DEF TypeOK
    <3> QED BY <1>1, <1>7, <3>4, <3>5, <3>6, HomeAssumption DEF IInv, Told
  <2> QED BY <2>1, <2>2
<1>13. Needed'
  BY <1>7 DEF IInv, Needed
<1> QED BY <1>8, <1>9, <1>10, <1>11, <1>12, <1>13 DEF IInv

(* The two steps of giving back.                                           *)
LEMMA Release_IInv == ASSUME IInv, NEW o \in Owner, Release(o) PROVE IInv'
<1>0. TypeOK /\ ProcessOf[o] \in Process /\ o # NoOwner  BY HomeAssumption DEF IInv
<1>1. UNCHANGED <<pc, wrote, jobOf, activeRuns, background, acquired, acquiring>>
  BY DEF Release, ReleaseFile, ReleaseToken, runVars
<1>2. ~ acquired[o] /\ \A q \in RunsOf(o) : pc[q] \notin {"file", "got"}
  BY <1>0 DEF IInv, Fetched, Apart, Release, ReleaseFile, ReleaseToken, RunsOf
<1>3. \A w : Busy(w)' = Busy(w) /\ JobsOf(w)' = JobsOf(w) /\ RunsOf(w)' = RunsOf(w)
  BY <1>1 DEF Busy, RunsOf, JobsOf
<1>4. TypeOK'
  BY <1>0, <1>1, <1>3 DEF TypeOK, Release, ReleaseFile, ReleaseToken
<1>5. Fetched'
  <2>1. \A w : Fetching(w)' = Fetching(w)  BY <1>1 DEF Fetching, RunsOf
  <2> QED BY <1>0, <1>1, <1>2, <2>1 DEF IInv, Fetched, TypeOK, Release, ReleaseFile, ReleaseToken
<1>6. Locks'
  <2>1. \A w \in Owner \ {o} : dropping'[w] = dropping[w]
    BY <1>0 DEF TypeOK, Release, ReleaseFile, ReleaseToken
  <2>2. \A w \in Owner \ {o} : (HasToken(w)' <=> HasToken(w)) /\ (HasFile(w)' <=> HasFile(w))
    BY <1>1, <1>3, <2>1 DEF HasToken, HasFile
  <2>3. CASE ReleaseFile(o)
    <3>1. HasToken(o) /\ HasToken(o)' /\ HasFile(o) /\ ~ HasFile(o)'
      BY <1>0, <1>1, <1>2, <1>3, <2>3 DEF HasToken, HasFile, ReleaseFile, TypeOK
    <3> QED BY <1>0, <2>2, <2>3, <3>1, HomeAssumption DEF IInv, Locks, ReleaseFile
  <2>4. CASE ReleaseToken(o)
    <3>1. HasToken(o) /\ ~ HasToken(o)' /\ ~ HasFile(o) /\ ~ HasFile(o)'
      BY <1>0, <1>1, <1>2, <1>3, <2>4 DEF HasToken, HasFile, ReleaseToken, TypeOK
    <3>2. token[ProcessOf[o]] = o  BY <3>1 DEF IInv, Locks
    <3> QED BY <1>0, <2>2, <2>4, <3>1, <3>2, HomeAssumption DEF IInv, Locks, ReleaseToken, TypeOK
  <2> QED BY <2>3, <2>4 DEF Release
<1>7. Apart'
  BY <1>0, <1>1, <1>2, HomeAssumption
     DEF IInv, Apart, TypeOK, RunsOf, Release, ReleaseFile, ReleaseToken
<1>8. Told' /\ Needed'  BY <1>1 DEF IInv, Told, Needed
<1> QED BY <1>4, <1>5, <1>6, <1>7, <1>8 DEF IInv

LEMMA Crash_IInv == ASSUME IInv, NEW p \in Process, Crash(p) PROVE IInv'
<1> DEFINE dead == {o \in Owner : ProcessOf[o] = p}
<1>0. TypeOK  BY DEF IInv
<1>1. /\ pc' = [r \in Run |-> IF OwnerOf[r] \in dead THEN "idle" ELSE pc[r]]
      /\ wrote' = [r \in Run |-> wrote[r] /\ OwnerOf[r] \notin dead]
      /\ jobOf' = [j \in Job |-> IF jobOf[j] \in dead THEN NoOwner ELSE jobOf[j]]
      /\ activeRuns' = [o \in Owner |-> IF o \in dead THEN 0 ELSE activeRuns[o]]
      /\ background' = [o \in Owner |-> IF o \in dead THEN 0 ELSE background[o]]
      /\ acquired' = [o \in Owner |-> acquired[o] /\ o \notin dead]
      /\ acquiring' = [o \in Owner |-> acquiring[o] /\ o \notin dead]
      /\ dropping' = [o \in Owner |-> IF o \in dead THEN "nothing" ELSE dropping[o]]
      /\ token' = [token EXCEPT ![p] = NoOwner]
      /\ file' = IF file \in dead THEN NoOwner ELSE file
  BY DEF Crash
<1>2. dead \subseteq Owner /\ NoOwner \notin dead
  BY HomeAssumption
<1>3. \A o \in Owner : o \notin dead => ProcessOf[o] # p
  OBVIOUS
<1>3a. \A o \in dead : ProcessOf[o] = p  OBVIOUS
<1> HIDE DEF dead
<1>4. \A o \in dead : Busy(o)' = {} /\ JobsOf(o)' = {} /\ Fetching(o)' = {}
  BY <1>1, <1>2 DEF Busy, JobsOf, Fetching, RunsOf
<1>5. \A o \in Owner \ dead : /\ Busy(o)' = Busy(o) /\ Fetching(o)' = Fetching(o)
                              /\ JobsOf(o)' = JobsOf(o)
  BY <1>0, <1>1, <1>2, HomeAssumption DEF TypeOK, Busy, JobsOf, Fetching, RunsOf
<1>6. TypeOK'
  <2>1. \A o \in Owner : /\ activeRuns'[o] = Cardinality(Busy(o)')
                         /\ background'[o] = Cardinality(JobsOf(o)')
    BY <1>0, <1>1, <1>4, <1>5, FS_EmptySet DEF TypeOK
  <2>2. activeRuns' \in [Owner -> Nat] /\ background' \in [Owner -> Nat]
    BY <1>0, <1>1 DEF TypeOK
  <2>3. /\ acquired' \in [Owner -> BOOLEAN] /\ acquiring' \in [Owner -> BOOLEAN]
        /\ wrote' \in [Run -> BOOLEAN]
    BY <1>1
  <2>4. /\ pc' \in [Run -> {"idle", "running", "await", "token", "file", "got", "failed"}]
        /\ jobOf' \in [Job -> Owner \cup {NoOwner}]
        /\ dropping' \in [Owner -> {"nothing", "file", "token"}]
        /\ token' \in [Process -> Owner \cup {NoOwner}] /\ file' \in Owner \cup {NoOwner}
    BY <1>0, <1>1, <1>2 DEF TypeOK
  <2> QED BY <2>1, <2>2, <2>3, <2>4 DEF TypeOK
<1>7. Fetched'
  BY <1>0, <1>1, <1>4, <1>5 DEF IInv, Fetched, TypeOK
<1>8. Locks'
  <2>1. ASSUME NEW o \in dead
        PROVE  ~ HasToken(o)' /\ ~ HasFile(o)' /\ token'[ProcessOf[o]] # o /\ file' # o
    <3>1. \A q \in RunsOf(o)' : pc'[q] = "idle"  BY <1>1 DEF RunsOf
    <3>2. ~ acquired'[o] /\ dropping'[o] = "nothing"  BY <1>1, <1>2
    <3>3. token'[ProcessOf[o]] = NoOwner  BY <1>0, <1>1, <1>3a DEF TypeOK
    <3>4. file' # o  BY <1>1, <1>2
    <3> QED BY <1>2, <3>1, <3>2, <3>3, <3>4 DEF HasToken, HasFile
  <2>2. ASSUME NEW o \in Owner \ dead
        PROVE  /\ HasToken(o)' <=> HasToken(o)
               /\ HasFile(o)' <=> HasFile(o)
               /\ token'[ProcessOf[o]] = token[ProcessOf[o]]
               /\ file' = o <=> file = o
    <3>1. RunsOf(o)' = RunsOf(o) /\ \A q \in RunsOf(o) : pc'[q] = pc[q]
      BY <1>1 DEF RunsOf
    <3>2. (acquired'[o] <=> acquired[o]) /\ dropping'[o] = dropping[o]  BY <1>1
    <3>3. token'[ProcessOf[o]] = token[ProcessOf[o]]
      BY <1>0, <1>1, <1>3, HomeAssumption DEF TypeOK
    <3>4. file' = o <=> file = o  BY <1>1, <1>2, HomeAssumption
    <3> QED BY <3>1, <3>2, <3>3, <3>4 DEF HasToken, HasFile
  <2> QED BY <1>2, <2>1, <2>2 DEF IInv, Locks
<1>9. Apart'
  BY <1>1, <1>2, HomeAssumption DEF IInv, Apart
<1>10. Told'
  <2>1. \A r \in Run : wrote'[r] => pc'[r] # "idle" /\ acquired'[OwnerOf[r]]
    BY <1>1, HomeAssumption DEF IInv, Told
  <2>2. \A j \in Job : jobOf'[j] # NoOwner => acquired'[jobOf'[j]]
    BY <1>0, <1>1 DEF IInv, Told, TypeOK
  <2> QED BY <2>1, <2>2 DEF Told
<1>11. Needed'
  BY <1>1 DEF IInv, Needed
<1> QED BY <1>6, <1>7, <1>8, <1>9, <1>10, <1>11 DEF IInv

-----------------------------------------------------------------------------
LEMMA Next_IInv == IInv /\ [Next]_vars => IInv'
<1> SUFFICES ASSUME IInv, [Next]_vars PROVE IInv'  OBVIOUS
<1>1. CASE \E r \in Run : BeginRun(r) \/ EndRun(r) \/ Acquire(r)
  BY <1>1, BeginRun_IInv, EndRun_IInv, AcquireWrite_IInv, Fetches_IInv, Acquired_IInv
     DEF Acquire, Fetches
<1>2. CASE \E r \in Run, j \in Job : RetainUntil(r, j)  BY <1>2, RetainUntil_IInv
<1>3. CASE \E j \in Job : JobDone(j)  BY <1>3, JobDone_IInv
<1>4. CASE \E o \in Owner : Release(o)  BY <1>4, Release_IInv
<1>5. CASE \E p \in Process : Crash(p)  BY <1>5, Crash_IInv
<1>6. CASE UNCHANGED vars
  <2>1. UNCHANGED <<runVars, jobOf, ownerVars, lockVars>>  BY <1>6 DEF vars
  <2>2. \A o : /\ Busy(o)' = Busy(o) /\ JobsOf(o)' = JobsOf(o)
               /\ RunsOf(o)' = RunsOf(o) /\ Fetching(o)' = Fetching(o)
    BY <2>1 DEF runVars, Busy, JobsOf, Fetching, RunsOf
  <2>3. TypeOK'  BY <2>1, <2>2 DEF IInv, TypeOK, runVars, ownerVars, lockVars
  <2>4. Fetched' /\ Told' /\ Needed' /\ Apart'
    BY <2>1, <2>2 DEF IInv, Fetched, Told, Needed, Apart, runVars, ownerVars
  <2>5. Locks'
    BY <2>1, <2>2 DEF IInv, Locks, HasToken, HasFile, runVars, ownerVars, lockVars
  <2> QED BY <2>3, <2>4, <2>5 DEF IInv
<1> QED BY <1>1, <1>2, <1>3, <1>4, <1>5, <1>6 DEF Next

(* The counters of a session are the numbers of its runs and jobs, one run *)
(* of it at most fetches the lease, and token and file are a session's     *)
(* exactly on the way from taking them to giving them back.                *)
THEOREM Invariance == Spec => []IInv
<1>1. Init => IInv  BY Init_IInv
<1>2. IInv /\ [Next]_vars => IInv'  BY Next_IInv
<1> QED BY <1>1, <1>2, PTL DEF Spec

(* TypeOK: the fields keep their shape, and the counters count.            *)
THEOREM TypeCorrect == Spec => []TypeOK
<1>1. IInv => TypeOK  BY DEF IInv
<1> QED BY <1>1, Invariance, PTL

(* WriterHolds: who was told it may write holds both locks, so that only   *)
(* one session writes to the workspace at a time (AcquireWrite).           *)
THEOREM WritersHoldTheLease == Spec => []WriterHolds
<1>1. IInv => WriterHolds
  <2> SUFFICES ASSUME IInv, NEW o \in Owner, Writes(o)
               PROVE  acquired[o] /\ file = o /\ token[ProcessOf[o]] = o
    BY DEF WriterHolds
  <2>1. acquired[o]
    BY HomeAssumption DEF IInv, TypeOK, Told, Writes, JobsOf, RunsOf
  <2> QED BY <2>1 DEF IInv, Locks, HasToken, HasFile
<1> QED BY <1>1, Invariance, PTL

(* NoLeak: a session without runs and jobs keeps nothing                   *)
(* (releaseIfIdleLocked).                                                  *)
THEOREM IdleSessionsHoldNothing == Spec => []NoLeak
<1>1. IInv => NoLeak
  <2> SUFFICES ASSUME IInv, NEW o \in Owner, activeRuns[o] = 0, background[o] = 0
               PROVE  /\ ~ acquired[o] /\ ~ acquiring[o]
                      /\ (file = o \/ token[ProcessOf[o]] = o) => dropping[o] # "nothing"
    BY DEF NoLeak
  <2>1. ~ acquired[o]  BY DEF IInv, Needed
  <2>2. Busy(o) = {}  BY NobodyAtWork DEF IInv
  <2>3. \A q \in RunsOf(o) : pc[q] = "idle"  BY <2>2 DEF Busy
  <2>4. ~ acquiring[o]  BY <2>3 DEF IInv, Fetched, Fetching
  <2> QED BY <2>1, <2>3, <2>4 DEF IInv, Locks, HasToken, HasFile
<1> QED BY <1>1, Invariance, PTL
=============================================================================
