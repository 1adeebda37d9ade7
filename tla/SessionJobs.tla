------------------------------- MODULE SessionJobs -------------------------------
(***************************************************************************)
(* The session gate of Controller (src/internal/control/controller.go) and *)
(* the background jobs behind it.                                          *)
(*                                                                         *)
(* A turn starts jobs for the session it was composed in.  /new, /clear    *)
(* and a host mutation claim the gate, which no turn may hold; a turn of   *)
(* its own accord goes on in a recovered copy, and a session may be        *)
(* resumed.  /clear destroys the jobs of the session and removes its files,*)
(* at once or in the background when jobs have to unwind first.  A marker  *)
(* beside the transcript hides a session whose removal is still due, and a *)
(* new process removes what is marked.                                     *)
(*                                                                         *)
(* What a turn says, hooks, goals, prompts and checkpoints are left out.   *)
(***************************************************************************)
EXTENDS Jobs

CONSTANT MaxProcess             \* bound: processes started

ASSUME ProcessAssumption == MaxProcess \in Nat

VARIABLES
    phase,          \* of the process: see TypeOK
    turnSession,    \* the session the running turn has in its context, if any
    rotating,       \* who has the gate, and how far it is
    sessionPath,    \* the session of the controller
    clearing,       \* oldPath of ClearSession
    reservedFor,    \* the session BeginRuntimeMutation looked at
    reaper,         \* reaper[s]: the goroutine that removes s in the background
    targets,        \* targets[s]: the jobs it waits for
    marker,         \* sessions with a cleanup marker beside their files
    minted,         \* sessions that were made; each has its files until removed
    processes,      \* processes started so far
    cleared,        \* sessions a ClearSession has replaced
    busy,           \* those of them that had a job unfinished then
    removed         \* sessions whose files are removed

gateVars == <<turnSession, rotating, clearing, reservedFor>>
reapVars == <<reaper, targets>>
clearVars == <<cleared, busy, removed>>
runVars == <<phase, processes>>
vars == <<jobVars, gateVars, reapVars, marker, clearVars, runVars, sessionPath, minted>>

Fresh == Session \ minted
Visible == minted \ (removed \cup marker)

IdleGate == /\ turnSession = NoSession /\ rotating = "no"
            /\ clearing = NoSession /\ reservedFor = NoSession

Init == /\ JobsInit /\ IdleGate
        /\ phase = "down" /\ processes = 0
        /\ sessionPath = NoSession /\ minted = {}
        /\ reaper = [s \in Session |-> "none"] /\ targets = [s \in Session |-> {}]
        /\ marker = {} /\ cleared = {} /\ busy = {} /\ removed = {}

RemoveFiles(ss) ==
    /\ marker' = marker \ ss
    /\ removed' = removed \cup ss
    /\ meta' = [j \in Job |-> IF job[j].owner \in ss THEN "none" ELSE meta[j]]

(* A process starts: reconcileCleanupPending removes what is marked, as far*)
(* as it can, and then the controller opens a new or a visible session.    *)
Boot(ss) ==
    /\ phase = "down" /\ processes < MaxProcess
    /\ ss \subseteq marker
    /\ RemoveFiles(ss)
    /\ phase' = "starting" /\ processes' = processes + 1
    /\ UNCHANGED <<job, unwritten, completed, destroying, loaded, told, gateVars, reapVars,
                   cleared, busy, sessionPath, minted>>

Open(s) ==
    /\ phase = "starting" /\ s \in Fresh \cup Visible
    /\ phase' = "up"
    /\ sessionPath' = s /\ minted' = minted \cup {s}
    /\ SetActiveSession(s)
    /\ UNCHANGED <<gateVars, reapVars, marker, clearVars, processes>>

-----------------------------------------------------------------------------
Turning == turnSession # NoSession

(* Mutant of Compose: only another turn is looked for, not a rotation.     *)
ComposeMutant ==
    /\ phase = "up"
    /\ turnSession' = sessionPath
    /\ DrainCompleted(sessionPath)
    /\ UNCHANGED <<rotating, clearing, reservedFor, reapVars, marker, clearVars,
                   runVars, sessionPath, minted>>

(* runGuarded and RunTurn take the gate, and the turn is composed; a goal  *)
(* loop composes several turns before it ends.  Bound: nothing new begins  *)
(* in a controller that is closed.                                         *)
Compose ==
    /\ Turning \/ (phase = "up" /\ rotating = "no")
    /\ turnSession' = sessionPath
    /\ DrainCompleted(sessionPath)
    /\ UNCHANGED <<rotating, clearing, reservedFor, reapVars, marker, clearVars,
                   runVars, sessionPath, minted>>

StartJob(j) ==
    /\ Turning
    /\ StartForSession(turnSession, j, phase # "up")
    /\ UNCHANGED <<gateVars, reapVars, marker, clearVars, runVars, sessionPath, minted>>

KillShell(j) ==
    /\ Turning
    /\ KillForSession(turnSession, j)
    /\ UNCHANGED <<gateVars, reapVars, marker, clearVars, runVars, sessionPath, minted>>

JobMoves(j) ==
    /\ JobStep(j)
    /\ UNCHANGED <<gateVars, reapVars, marker, clearVars, runVars, sessionPath, minted>>

(* A save of the running turn ended in a copy: the controller goes on      *)
(* there, the tools of the turn keep the session they were given.          *)
CommitRecovered(s) ==
    /\ Turning /\ s \in Fresh
    /\ sessionPath' = s /\ minted' = minted \cup {s}
    /\ SetActiveSession(s)
    /\ UNCHANGED <<gateVars, reapVars, marker, clearVars, runVars>>

EndTurn ==
    /\ Turning
    /\ turnSession' = NoSession
    /\ UNCHANGED <<jobVars, rotating, clearing, reservedFor, reapVars, marker, clearVars,
                   runVars, sessionPath, minted>>

-----------------------------------------------------------------------------
(* beginRotation: no turn runs and nobody else has the gate.  NewSession   *)
(* has it only while it swaps the session.                                 *)
GateFree == phase = "up" /\ ~ Turning /\ rotating = "no"

NewSession(s) ==
    /\ GateFree /\ s \in Fresh
    /\ sessionPath' = s /\ minted' = minted \cup {s}
    /\ SetActiveSession(s)
    /\ UNCHANGED <<gateVars, reapVars, marker, clearVars, runVars>>

(* Resume takes snapshotMu, which ClearSession has from the destruction to *)
(* the swap.  Bound: no session is resumed that /clear has replaced.       *)
Resume(s) ==
    /\ phase = "up" /\ rotating \notin {"destroyed", "removed"}
    /\ s \in Visible \ cleared /\ s # sessionPath
    /\ sessionPath' = s
    /\ SetActiveSession(s)
    /\ UNCHANGED <<gateVars, reapVars, marker, clearVars, runVars, minted>>

-----------------------------------------------------------------------------
(* ClearSession claims the gate, and marks the session first when a job is *)
(* unfinished.                                                             *)
ClearMark ==
    /\ GateFree
    /\ rotating' = "marked" /\ clearing' = sessionPath
    /\ marker' = IF HasUnfinished(sessionPath) THEN marker \cup {sessionPath} ELSE marker
    /\ UNCHANGED <<jobVars, turnSession, reservedFor, reapVars, clearVars, runVars,
                   sessionPath, minted>>

ClearDestroy ==
    /\ rotating = "marked"
    /\ rotating' = "destroyed"
    /\ targets' = [targets EXCEPT ![clearing] = TeardownTargets(clearing)]
    /\ BeginDestroy(clearing)
    /\ UNCHANGED <<turnSession, clearing, reservedFor, reaper, marker, clearVars,
                   runVars, sessionPath, minted>>

FinishDestroy(s) ==
    /\ job' = Purged(s)
    /\ destroying' = destroying \ {s} /\ loaded' = loaded \ {s}
    /\ UNCHANGED <<unwritten, completed, told>>

(* Nothing to wait for: the files go at once, or ClearSession fails.       *)
ClearRemove ==
    /\ rotating = "destroyed" /\ targets[clearing] = {}
    /\ FinishDestroy(clearing)
    /\ \/ RemoveFiles({clearing}) /\ rotating' = "removed" /\ UNCHANGED clearing
       \/ rotating' = "no" /\ clearing' = NoSession /\ UNCHANGED <<marker, removed, meta>>
    /\ UNCHANGED <<turnSession, reservedFor, reapVars, cleared, busy, runVars,
                   sessionPath, minted>>

ClearSwap(s) ==
    /\ \/ rotating = "removed"
       \/ rotating = "destroyed" /\ targets[clearing] # {}
    /\ s \in Fresh
    /\ rotating' = "no" /\ clearing' = NoSession
    /\ sessionPath' = s /\ minted' = minted \cup {s}
    /\ SetActiveSession(s)
    /\ reaper' = [reaper EXCEPT ![clearing] = IF rotating = "removed" THEN "none" ELSE "wait"]
    /\ cleared' = cleared \cup {clearing}
    /\ busy' = IF \E j \in JobsOf(clearing) : Unfinished(j) THEN busy \cup {clearing} ELSE busy
    /\ UNCHANGED <<turnSession, reservedFor, targets, marker, removed, runVars>>

(* WaitTeardown gives up after the grace: the session is marked, when that *)
(* succeeds, and WaitAll waits on.                                         *)
ReapTimeout(s) ==
    /\ reaper[s] = "wait" /\ \E j \in targets[s] : Unfinished(j)
    /\ reaper' = [reaper EXCEPT ![s] = "late"]
    /\ marker' \in {marker, marker \cup {s}}
    /\ UNCHANGED <<jobVars, gateVars, targets, clearVars, runVars, sessionPath, minted>>

Reap(s) ==
    /\ reaper[s] # "none" /\ \A j \in targets[s] : ~ Unfinished(j)
    /\ FinishDestroy(s)
    /\ RemoveFiles({s}) \/ UNCHANGED <<marker, removed, meta>>
    /\ reaper' = [reaper EXCEPT ![s] = "none"]
    /\ targets' = [targets EXCEPT ![s] = {}]
    /\ UNCHANGED <<gateVars, cleared, busy, runVars, sessionPath, minted>>

-----------------------------------------------------------------------------
(* BeginRuntimeMutation claims the gate, and only then looks for jobs; a   *)
(* pending prompt makes it fail as well.                                   *)
ClaimGate ==
    /\ GateFree
    /\ rotating' = "reserving"
    /\ UNCHANGED <<jobVars, turnSession, clearing, reservedFor, reapVars, marker, clearVars,
                   runVars, sessionPath, minted>>

Reserve ==
    /\ rotating = "reserving"
    /\ \/ /\ Running(sessionPath) = {}
          /\ rotating' = "reserved" /\ reservedFor' = sessionPath
       \/ rotating' = "no" /\ UNCHANGED reservedFor
    /\ UNCHANGED <<jobVars, turnSession, clearing, reapVars, marker, clearVars,
                   runVars, sessionPath, minted>>

Release ==
    /\ rotating = "reserved"
    /\ rotating' = "no" /\ reservedFor' = NoSession
    /\ UNCHANGED <<jobVars, turnSession, clearing, reapVars, marker, clearVars,
                   runVars, sessionPath, minted>>

(* Controller.Close - bound: not while somebody has the gate - and the end  *)
(* of the process, at any time.                                            *)
Close ==
    /\ rotating = "no"
    /\ \/ phase = "up" /\ CancelRoot /\ phase' = "canceled"
       \/ phase = "canceled" /\ CloseTargets /\ phase' = "closed"
    /\ UNCHANGED <<gateVars, reapVars, marker, clearVars, processes, sessionPath, minted>>

Exit ==
    /\ phase # "down" /\ processes < MaxProcess
    /\ phase' = "down"
    /\ JobsDie
    /\ turnSession' = NoSession /\ rotating' = "no"
    /\ clearing' = NoSession /\ reservedFor' = NoSession /\ sessionPath' = NoSession
    /\ reaper' = [s \in Session |-> "none"] /\ targets' = [s \in Session |-> {}]
    /\ UNCHANGED <<marker, clearVars, processes, minted>>

-----------------------------------------------------------------------------
Turn == \/ Compose \/ EndTurn
        \/ \E j \in Job : KillShell(j) \/ StartJob(j)
        \/ \E s \in Session : CommitRecovered(s)
Rotation == \/ ClaimGate \/ Reserve \/ Release
            \/ ClearMark \/ ClearDestroy \/ ClearRemove
            \/ \E s \in Session : NewSession(s) \/ ClearSwap(s)

Next == \/ Turn \/ Rotation
        \/ \E j \in Job : JobMoves(j)
        \/ \E s \in Session : Resume(s) \/ ReapTimeout(s) \/ Reap(s)
        \/ \E ss \in SUBSET Session : Boot(ss)
        \/ \E s \in Session : Open(s)
        \/ Close \/ Exit

Spec == Init /\ [][Next]_vars

-----------------------------------------------------------------------------
Status == {"running", "done", "killed", "interrupted"}
Pc == {"unused", "run", "stored", "noted", "closed", "tombstone", "gone"}
JobRecord == [owner : Session \cup {NoSession}, pc : Pc, status : Status \cup {"none"},
              outcome : {"none", "done", "killed"}, canceled : BOOLEAN]

(* Every variable stays within its shape, and the gate and the turn are    *)
(* never held at once.                                                     *)
TypeOK ==
    /\ job \in [Job -> JobRecord]
    /\ meta \in [Job -> Status \cup {"none"}] /\ told \in [Job -> SUBSET Status]
    /\ unwritten \subseteq Job
    /\ completed \subseteq [job : Job, status : Status \ {"running"}]
    /\ destroying \subseteq Session /\ loaded \subseteq Session /\ minted \subseteq Session
    /\ marker \subseteq Session /\ removed \subseteq Session
    /\ cleared \subseteq Session /\ busy \subseteq cleared
    /\ phase \in {"down", "starting", "up", "canceled", "closed"}
    /\ processes \in 0..MaxProcess
    /\ rotating \in {"no", "marked", "destroyed", "removed", "reserving", "reserved"}
    /\ Turning => rotating = "no"
    /\ turnSession \in Session \cup {NoSession} /\ clearing \in Session \cup {NoSession}
    /\ reservedFor \in Session \cup {NoSession} /\ sessionPath \in Session \cup {NoSession}
    /\ reaper \in [Session -> {"none", "wait", "late"}]
    /\ targets \in [Session -> SUBSET Job]

NotedAs(j) == told[j] \cup {n.status : n \in {m \in completed : m.job = j}}

(* What turns are told of a job is neither lost nor contradicted.  Whoever *)
(* sees a job done or failed, or its channel closed, finds its completion  *)
(* queued or told already, unless the session is being destroyed; and no   *)
(* turn, of this or a later process, is told a second ending of a job whose*)
(* final record was written, be it killed while it finishes or interrupted *)
(* by the death of the process anywhere on the way.                        *)
CompletionsTold ==
    \A j \in Job :
        /\ /\ job[j].status = "done" \/ (job[j].pc = "closed" /\ job[j].status # "none")
           /\ job[j].pc # "tombstone"
           => NotedAs(j) # {} \/ job[j].owner \in destroying
        /\ j \notin unwritten => Cardinality(NotedAs(j)) <= 1

BusyIsHidden == busy \cap Visible = {}
RemovedIsQuiet ==
    \A s \in removed : \A j \in JobsOf(s) :
        ~ Writing(j) /\ meta[j] = "none" /\ \A n \in completed : n.job # j

(* A session that was cleared while a job of it was unfinished is never    *)
(* seen again, also when the process dies before the removal; and once the *)
(* files of a session are removed, no job of it is left to write them again*)
(* and no turn is told of one.                                             *)
ClearedIsGone == BusyIsHidden /\ RemovedIsQuiet

(* While a host mutation has the controller reserved, no turn runs, and no *)
(* job of the session that was looked at: none slips in between the claim  *)
(* of the gate and the check, or after it.                                 *)
MutationIsIdle ==
    rotating = "reserved" => ~ Turning /\ Running(reservedFor) = {}
===============================================================================
