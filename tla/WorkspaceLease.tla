---------------------------- MODULE WorkspaceLease ----------------------------
(***************************************************************************)
(* The write lease of one workspace (src/internal/workspacelease/lease.go):*)
(* sessions of one process, and of several processes, take turns writing.  *)
(* A session's Owner is shared by its agent runs; the first writing tool of*)
(* a run acquires the lease, and it is kept until the last run and the last*)
(* retained background job of the session are finished.                    *)
(*                                                                         *)
(* Two locks are taken in order: a token of the process, then a flock on a *)
(* file that other processes see too.  Every block under Owner.mu is one   *)
(* step; the waits in between, and the release that follows the unlock,    *)
(* are steps of their own.                                                 *)
(***************************************************************************)
EXTENDS Naturals, FiniteSets

CONSTANTS
    Owner,              \* sessions that may write to the workspace
    Process,            \* operating system processes
    Run,                \* goroutines that may run an agent of a session
    Job,                \* background jobs a run may start
    ProcessOf,          \* ProcessOf[o]: the process of session o
    OwnerOf,            \* OwnerOf[r]: the session run r takes part in
    NoOwner             \* nil

ASSUME HomeAssumption == /\ ProcessOf \in [Owner -> Process]
                         /\ OwnerOf \in [Run -> Owner]
                         /\ NoOwner \notin Owner
ASSUME FiniteAssumption == IsFiniteSet(Run) /\ IsFiniteSet(Job)

VARIABLES
    pc,                 \* pc[r]: where run r is, in AcquireWrite or outside
    wrote,              \* wrote[r]: AcquireWrite has returned nil in this run
    jobOf,              \* jobOf[j]: the session that retains job j
    activeRuns, background, acquired, acquiring,    \* fields of Owner
    dropping,           \* dropping[o]: what releaseSystem still has to free
    token,              \* token[p]: who took the token of process p
    file                \* who holds the flock

runVars == <<pc, wrote>>
ownerVars == <<activeRuns, background, acquired, acquiring, dropping>>
lockVars == <<token, file>>
vars == <<runVars, jobOf, ownerVars, lockVars>>

Init == /\ pc = [r \in Run |-> "idle"]
        /\ wrote = [r \in Run |-> FALSE]
        /\ jobOf = [j \in Job |-> NoOwner]
        /\ activeRuns = [o \in Owner |-> 0]
        /\ background = [o \in Owner |-> 0]
        /\ acquired = [o \in Owner |-> FALSE]
        /\ acquiring = [o \in Owner |-> FALSE]
        /\ dropping = [o \in Owner |-> "nothing"]
        /\ token = [p \in Process |-> NoOwner]
        /\ file = NoOwner

GoTo(r, where) == pc' = [pc EXCEPT ![r] = where]

-----------------------------------------------------------------------------
(* Three bugs to catch: a job does not keep the lease, the lease is given  *)
(* up although another run is under way, or it is never given up.          *)
IdleDespiteJobs(o, runs, jobs, held, busy) == held /\ ~ busy /\ runs = 0
IdleDespiteRuns(o, runs, jobs, held, busy) == held /\ ~ busy /\ jobs = 0
IdleNever(o, runs, jobs, held, busy) == FALSE

(* releaseIfIdleLocked: the condition, on the values just assigned.        *)
IdleNow(o, runs, jobs, held, busy) == held /\ ~ busy /\ runs = 0 /\ jobs = 0

(* The fields of o after an assignment and the releaseIfIdleLocked that    *)
(* follows it; the caller runs releaseSystem after the unlock.             *)
Settle(o, runs, jobs, held, busy) ==
    LET gone == IdleNow(o, runs, jobs, held, busy) IN
    /\ activeRuns' = [activeRuns EXCEPT ![o] = runs]
    /\ background' = [background EXCEPT ![o] = jobs]
    /\ acquiring' = [acquiring EXCEPT ![o] = busy]
    /\ acquired' = [acquired EXCEPT ![o] = held /\ ~ gone]
    /\ dropping' = [dropping EXCEPT ![o] = IF gone THEN "file" ELSE @]

Less(n) == IF n > 0 THEN n - 1 ELSE n

(* BeginRun                                                                *)
BeginRun(r) ==
    /\ pc[r] = "idle"
    /\ GoTo(r, "running")
    /\ activeRuns' = [activeRuns EXCEPT ![OwnerOf[r]] = @ + 1]
    /\ UNCHANGED <<wrote, jobOf, background, acquired, acquiring, dropping, lockVars>>

(* EndRun                                                                  *)
EndRun(r) ==
    LET o == OwnerOf[r] IN
    /\ pc[r] = "running"
    /\ GoTo(r, "idle")
    /\ wrote' = [wrote EXCEPT ![r] = FALSE]
    /\ Settle(o, Less(activeRuns[o]), background[o], acquired[o], acquiring[o])
    /\ UNCHANGED <<jobOf, lockVars>>

(* The head of the loop in AcquireWrite: the lease is there, another run of*)
(* the session is fetching it, or this run goes for it.                    *)
AcquireWrite(r) ==
    LET o == OwnerOf[r] IN
    /\ \/ pc[r] = "running"
       \/ pc[r] = "await" /\ ~ acquiring[o]
    /\ \/ /\ acquired[o]
          /\ GoTo(r, "running")
          /\ wrote' = [wrote EXCEPT ![r] = TRUE]
          /\ UNCHANGED acquiring
       \/ /\ ~ acquired[o] /\ acquiring[o]
          /\ GoTo(r, "await")
          /\ UNCHANGED <<wrote, acquiring>>
       \/ /\ ~ acquired[o] /\ ~ acquiring[o]
          /\ GoTo(r, "token")
          /\ acquiring' = [acquiring EXCEPT ![o] = TRUE]
          /\ UNCHANGED wrote
    /\ UNCHANGED <<jobOf, activeRuns, background, acquired, dropping, lockVars>>

(* acquire: first the token of the process ...                             *)
TakeToken(r) ==
    LET p == ProcessOf[OwnerOf[r]] IN
    /\ pc[r] = "token" /\ token[p] = NoOwner
    /\ token' = [token EXCEPT ![p] = OwnerOf[r]]
    /\ GoTo(r, "file")
    /\ UNCHANGED <<wrote, jobOf, ownerVars, file>>

(* ... then the file; while somebody holds it the call tries again.        *)
LockFile(r) ==
    /\ pc[r] = "file" /\ file = NoOwner
    /\ file' = OwnerOf[r]
    /\ GoTo(r, "got")
    /\ UNCHANGED <<wrote, jobOf, ownerVars, token>>

(* A bug to catch: who gives up on the file keeps the token.               *)
GiveUpKeepsToken(r) ==
    /\ pc[r] \in {"token", "file"}
    /\ GoTo(r, "failed")
    /\ UNCHANGED <<wrote, jobOf, ownerVars, lockVars>>

(* The tool call is canceled while it waits, or the file cannot be locked: *)
(* the token goes back.                                                    *)
GiveUp(r) ==
    LET p == ProcessOf[OwnerOf[r]] IN
    /\ pc[r] \in {"token", "file"}
    /\ token' = IF pc[r] = "file" THEN [token EXCEPT ![p] = NoOwner] ELSE token
    /\ GoTo(r, "failed")
    /\ UNCHANGED <<wrote, jobOf, ownerVars, file>>

(* A run that waits for another run of its session is canceled.            *)
StopAwaiting(r) ==
    /\ pc[r] = "await"
    /\ GoTo(r, "running")
    /\ UNCHANGED <<wrote, jobOf, ownerVars, lockVars>>

(* The second block of AcquireWrite: the outcome is published and the      *)
(* waiting runs wake.                                                      *)
Acquired(r) ==
    LET o == OwnerOf[r]
        ok == pc[r] = "got"
    IN  /\ pc[r] \in {"got", "failed"}
        /\ GoTo(r, "running")
        /\ wrote' = [wrote EXCEPT ![r] = @ \/ ok]
        /\ Settle(o, activeRuns[o], background[o], acquired[o] \/ ok, FALSE)
        /\ UNCHANGED <<jobOf, lockVars>>

(* RetainUntil: a run starts a background job; without the lease the job   *)
(* is a reader and retains nothing.                                        *)
RetainUntil(r, j) ==
    LET o == OwnerOf[r] IN
    /\ pc[r] = "running" /\ jobOf[j] = NoOwner /\ acquired[o]
    /\ jobOf' = [jobOf EXCEPT ![j] = o]
    /\ background' = [background EXCEPT ![o] = @ + 1]
    /\ UNCHANGED <<runVars, activeRuns, acquired, acquiring, dropping, lockVars>>

JobDone(j) ==
    LET o == jobOf[j] IN
    /\ o # NoOwner
    /\ jobOf' = [jobOf EXCEPT ![j] = NoOwner]
    /\ Settle(o, activeRuns[o], Less(background[o]), acquired[o], acquiring[o])
    /\ UNCHANGED <<runVars, lockVars>>

(* releaseSystem: the file is unlocked, then the token returned.           *)
ReleaseFile(o) ==
    /\ dropping[o] = "file"
    /\ file' = NoOwner
    /\ dropping' = [dropping EXCEPT ![o] = "token"]
    /\ UNCHANGED <<runVars, jobOf, activeRuns, background, acquired, acquiring, token>>

ReleaseToken(o) ==
    /\ dropping[o] = "token"
    /\ token' = [token EXCEPT ![ProcessOf[o]] = NoOwner]
    /\ dropping' = [dropping EXCEPT ![o] = "nothing"]
    /\ UNCHANGED <<runVars, jobOf, activeRuns, background, acquired, acquiring, file>>

(* A process dies: its token and its fields vanish with it, and the system *)
(* unlocks its file.                                                       *)
Crash(p) ==
    LET dead == {o \in Owner : ProcessOf[o] = p} IN
    /\ pc' = [r \in Run |-> IF OwnerOf[r] \in dead THEN "idle" ELSE pc[r]]
    /\ wrote' = [r \in Run |-> wrote[r] /\ OwnerOf[r] \notin dead]
    /\ jobOf' = [j \in Job |-> IF jobOf[j] \in dead THEN NoOwner ELSE jobOf[j]]
    /\ activeRuns' = [o \in Owner |-> IF o \in dead THEN 0 ELSE activeRuns[o]]
    /\ background' = [o \in Owner |-> IF o \in dead THEN 0 ELSE background[o]]
    /\ acquired' = [o \in Owner |-> acquired[o] /\ o \notin dead]
    /\ acquiring' = [o \in Owner |-> acquiring[o] /\ o \notin dead]
    /\ dropping' = [o \in Owner |-> IF o \in dead THEN "nothing" ELSE dropping[o]]
    /\ token' = [token EXCEPT ![p] = NoOwner]
    /\ file' = IF file \in dead THEN NoOwner ELSE file

Acquire(r) == AcquireWrite(r) \/ TakeToken(r) \/ LockFile(r) \/ GiveUp(r)
                \/ StopAwaiting(r) \/ Acquired(r)
Release(o) == ReleaseFile(o) \/ ReleaseToken(o)

Next == \/ \E r \in Run : BeginRun(r) \/ EndRun(r) \/ Acquire(r)
        \/ \E r \in Run, j \in Job : RetainUntil(r, j)
        \/ \E j \in Job : JobDone(j)
        \/ \E o \in Owner : Release(o)
        \/ \E p \in Process : Crash(p)

(* A goroutine that can go on does; a run and a job end; nothing forces a  *)
(* run to begin or to write, a wait to be canceled or a process to die.    *)
Fairness ==
    /\ \A r \in Run : /\ WF_vars(EndRun(r)) /\ WF_vars(TakeToken(r))
                      /\ WF_vars(LockFile(r)) /\ WF_vars(Acquired(r))
                      /\ WF_vars(pc[r] = "await" /\ AcquireWrite(r))
    /\ \A j \in Job : WF_vars(JobDone(j))
    /\ \A o \in Owner : WF_vars(Release(o))

Spec == Init /\ [][Next]_vars /\ Fairness

-----------------------------------------------------------------------------
RunsOf(o) == {r \in Run : OwnerOf[r] = o}
Busy(o) == {r \in RunsOf(o) : pc[r] # "idle"}
JobsOf(o) == {j \in Job : jobOf[j] = o}
Fetching(o) == {r \in RunsOf(o) : pc[r] \in {"token", "file", "got", "failed"}}
Writes(o) == (\E r \in RunsOf(o) : wrote[r]) \/ JobsOf(o) # {}

(* Every variable stays within its shape, and the counters of an Owner are *)
(* the numbers of its runs and retained jobs.                              *)
TypeOK ==
    /\ pc \in [Run -> {"idle", "running", "await", "token", "file", "got", "failed"}]
    /\ wrote \in [Run -> BOOLEAN]
    /\ jobOf \in [Job -> Owner \cup {NoOwner}]
    /\ activeRuns \in [Owner -> Nat] /\ background \in [Owner -> Nat]
    /\ \A o \in Owner : /\ activeRuns[o] = Cardinality(Busy(o))
                        /\ background[o] = Cardinality(JobsOf(o))
    /\ acquired \in [Owner -> BOOLEAN] /\ acquiring \in [Owner -> BOOLEAN]
    /\ dropping \in [Owner -> {"nothing", "file", "token"}]
    /\ token \in [Process -> Owner \cup {NoOwner}]
    /\ file \in Owner \cup {NoOwner}

(* A run that was told it may write, and a job it leaves behind, hold both *)
(* locks to their end, whatever the other runs and jobs of the session do  *)
(* meanwhile; so only one session writes to the workspace at a time.       *)
WriterHolds ==
    \A o \in Owner : Writes(o) => acquired[o] /\ file = o /\ token[ProcessOf[o]] = o

(* No lease is kept by nobody: a session without runs and jobs holds at    *)
(* most what its last EndRun is just giving back.                          *)
NoLeak ==
    \A o \in Owner : activeRuns[o] = 0 /\ background[o] = 0 =>
        /\ ~ acquired[o] /\ ~ acquiring[o]
        /\ (file = o \/ token[ProcessOf[o]] = o) => dropping[o] # "nothing"

(* While a session waits for the lease, some session gets the file or gives*)
(* up waiting: the two locks never leave everybody waiting for nobody.     *)
(* Which of the waiting sessions is next is left to chance.                *)
SomebodyGetsIt ==
    \A o \in Owner : acquiring[o] ~>
        (~ acquiring[o] \/ file # NoOwner \/ \E r \in Run : pc[r] = "failed")

(* Every lease ends: a session whose runs and jobs are all finished is     *)
(* soon without it, so that others can write.                              *)
LeaseEnds ==
    \A o \in Owner : file = o ~> (file # o \/ \E r \in RunsOf(o) : pc[r] # "idle")
=============================================================================
