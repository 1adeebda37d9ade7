---------------------------- MODULE SessionJobsProofs ----------------------------
(***************************************************************************)
(* What is proved of SessionJobs for any sessions, jobs and number of      *)
(* processes.                                                              *)
(***************************************************************************)
EXTENDS SessionJobs, FiniteSetTheorems, TLAPS

Sessionless == phase \in {"down", "starting"}
Destroys(s) == reaper[s] # "none" \/ (rotating = "destroyed" /\ clearing = s)

(* A job that is unfinished has a status that makes it a target.           *)
UnfinishedIsTarget ==
    \A j \in Job : Unfinished(j) => job[j].status \in {"running", "killed"}

(* The outcome of a job is decided before its completion is queued.        *)
OutcomeDecided ==
    \A j \in Job : job[j].pc \in {"stored", "noted"} => job[j].outcome # "none"

(* A process without a session has no job, turn or rotation either.        *)
NothingRuns ==
    Sessionless => /\ destroying = {} /\ completed = {} /\ ~ Turning /\ rotating = "no"
                   /\ sessionPath = NoSession
                   /\ \A s \in Session : reaper[s] = "none"
                   /\ \A j \in Job : ~ Unfinished(j) /\ job[j].status = "none"

(* Only what was made is cleared or removed.                               *)
OnlyMinted ==
    /\ removed \subseteq minted /\ cleared \subseteq minted /\ marker \subseteq minted
    /\ ~ Sessionless => sessionPath \in minted
    /\ rotating \in {"marked", "destroyed", "removed"} =>
            clearing \in minted /\ reaper[clearing] = "none"

(* The session in use is neither being removed in the background nor gone. *)
InUse ==
    /\ \A s \in Session : reaper[s] # "none" =>
            s \in cleared /\ s # sessionPath /\ s # turnSession
    /\ rotating # "removed" => sessionPath \notin removed
    /\ turnSession \notin removed
    /\ rotating = "removed" => clearing \in removed

(* The destroy window is open while somebody is about to remove the files, *)
(* and the jobs that are unfinished then are waited for.                   *)
Window ==
    /\ \A s \in Session : s \in destroying <=> Destroys(s)
    /\ \A s \in Session : Destroys(s) =>
            \A j \in JobsOf(s) : Unfinished(j) => j \in targets[s]

(* Nobody is told of a job whose session is being removed, or is gone; and *)
(* such a job has nothing left to write.                                   *)
Quiet ==
    /\ \A n \in completed : job[n.job].owner \notin destroying \cup removed
    /\ \A j \in Job : job[j].owner \in removed => ~ Unfinished(j) /\ meta[j] = "none"

(* A session is marked while a job of it is unfinished.                    *)
Marked ==
    /\ busy \subseteq marker \cup removed
    /\ rotating \in {"marked", "destroyed"} =>
        \A j \in JobsOf(clearing) : Unfinished(j) => clearing \in marker \cup removed

(* The part of the inductive invariant that is about the job table alone.  *)
JobsInv ==
    /\ job \in [Job -> JobRecord]
    /\ meta \in [Job -> Status \cup {"none"}] /\ told \in [Job -> SUBSET Status]
    /\ unwritten \subseteq Job
    /\ completed \subseteq [job : Job, status : Status \ {"running"}]
    /\ destroying \subseteq Session /\ loaded \subseteq Session
    /\ UnfinishedIsTarget /\ OutcomeDecided

(* And the shape of the rest.                                              *)
GateType ==
    /\ minted \subseteq Session
    /\ marker \subseteq Session /\ removed \subseteq Session
    /\ cleared \subseteq Session /\ busy \subseteq cleared
    /\ phase \in {"down", "starting", "up", "canceled", "closed"}
    /\ processes \in 0..MaxProcess
    /\ rotating \in {"no", "marked", "destroyed", "removed", "reserving", "reserved"}
    /\ Turning => rotating = "no"
    /\ turnSession \in Session \cup {NoSession} /\ clearing \in Session \cup {NoSession}
    /\ reservedFor \in Session \cup {NoSession} /\ sessionPath \in Session \cup {NoSession}
    /\ reaper \in [Session -> {"none", "wait", "late"}]
    /\ targets \in [Session -> SUBSET Job]

(* The inductive invariant.                                                *)
IInv == /\ JobsInv /\ GateType /\ NothingRuns /\ OnlyMinted
        /\ InUse /\ Window /\ Quiet /\ Marked /\ MutationIsIdle

-----------------------------------------------------------------------------
(* A step that starts no job: owners stay, and nothing becomes unfinished  *)
(* or running.                                                             *)
JobsKept ==
    \A j \in Job : /\ job'[j].owner = job[j].owner
                   /\ Unfinished(j)' => Unfinished(j)
                   /\ job'[j].status = "running" => job[j].status = "running"

LEMMA JobsInit_Inv == ASSUME JobsInit PROVE JobsInv
  BY SessionAssumption DEF JobsInit, JobsInv, Blank, Unused, JobRecord, Pc, Status,
     UnfinishedIsTarget, OutcomeDecided, Unfinished, Writing

LEMMA Start_Inv ==
  ASSUME JobsInv, NEW s \in Session, NEW j \in Job, NEW root \in BOOLEAN,
         StartForSession(s, j, root)
  PROVE  /\ JobsInv'
         /\ \A i \in Job \ {j} : job'[i] = job[i] /\ meta'[i] = meta[i]
         /\ job'[j].owner = s
<1> USE DEF JobRecord, Pc, Status, Blank, Unused
<1>1. job' = [job EXCEPT ![j] = [owner |-> s, pc |-> "run", status |-> "running",
                                 outcome |-> "none", canceled |-> root]]
  BY DEF StartForSession
<1>2. job' \in [Job -> JobRecord] /\ meta' \in [Job -> Status \cup {"none"}]
  BY <1>1 DEF StartForSession, JobsInv
<1>3. UnfinishedIsTarget' /\ OutcomeDecided'
  BY <1>1 DEF JobsInv, UnfinishedIsTarget, OutcomeDecided, Unfinished, Writing
<1>4. \A i \in Job \ {j} : job'[i] = job[i] /\ meta'[i] = meta[i]
  BY <1>1 DEF StartForSession, JobsInv
<1> QED BY <1>1, <1>2, <1>3, <1>4 DEF StartForSession, JobsInv

LEMMA Return_Inv ==
  ASSUME JobsInv, NEW j \in Job, Return(j)
  PROVE  /\ JobsInv' /\ JobsKept /\ Unfinished(j)
         /\ \A i \in Job \ {j} : meta'[i] = meta[i]
<1> USE DEF JobRecord, Pc, Status
<1>1. PICK st \in {"killed", "done"} :
        /\ job' = [job EXCEPT ![j].pc = "stored", ![j].outcome = st]
        /\ \/ meta' = [meta EXCEPT ![j] = st] /\ UNCHANGED unwritten
           \/ /\ unwritten' = IF meta[j] = "none" THEN unwritten ELSE unwritten \cup {j}
              /\ UNCHANGED meta
  BY DEF Return
<1>2. job' \in [Job -> JobRecord]
  <2>1. job \in [Job -> JobRecord]  BY DEF JobsInv
  <2> QED BY <1>1, <2>1
<1>5. meta' \in [Job -> Status \cup {"none"}]
  BY <1>1 DEF JobsInv
<1>3. UnfinishedIsTarget' /\ OutcomeDecided' /\ JobsKept /\ Unfinished(j)
  BY <1>1 DEF Return, JobsInv, UnfinishedIsTarget, OutcomeDecided, JobsKept,
              Unfinished, Writing
<1>4. \A i \in Job \ {j} : meta'[i] = meta[i]
  BY <1>1 DEF JobsInv
<1> QED BY <1>1, <1>2, <1>3, <1>4, <1>5 DEF Return, JobsInv

LEMMA Record_Inv ==
  ASSUME JobsInv, NEW j \in Job, RecordCompletion(j)
  PROVE  /\ JobsInv' /\ JobsKept /\ Unfinished(j)
         /\ \A n \in completed' : n \in completed \/ (n.job = j /\ job[j].owner \notin destroying)
<1> USE DEF JobRecord, Pc, Status
<1>1. job' \in [Job -> JobRecord]
  BY DEF RecordCompletion, JobsInv
<1>2. UnfinishedIsTarget' /\ OutcomeDecided' /\ JobsKept /\ Unfinished(j)
  BY DEF RecordCompletion, JobsInv, UnfinishedIsTarget, OutcomeDecided, JobsKept,
         Unfinished, Writing
<1>3. job[j].outcome \in {"done", "killed"}
  BY DEF RecordCompletion, JobsInv, OutcomeDecided
<1>4. completed' \subseteq [job : Job, status : Status \ {"running"}]
  BY <1>3 DEF RecordCompletion, JobsInv
<1>5. \A n \in completed' : n \in completed \/ (n.job = j /\ job[j].owner \notin destroying)
  BY DEF RecordCompletion
<1> QED BY <1>1, <1>2, <1>4, <1>5 DEF RecordCompletion, JobsInv

LEMMA Publish_Inv ==
  ASSUME JobsInv, NEW j \in Job, Publish(j)
  PROVE  JobsInv' /\ JobsKept
<1> USE DEF JobRecord, Pc, Status, Blank, Unused
<1>1. PICK st \in {job[j].status, job[j].outcome} :
        /\ job' = [job EXCEPT ![j] = [owner |-> job[j].owner, pc |-> "closed", status |-> st,
                                      outcome |-> "none", canceled |-> FALSE]]
        /\ st = IF job[j].status = "running" THEN job[j].outcome ELSE job[j].status
  BY DEF Publish
<1>2. job' \in [Job -> JobRecord]
  BY <1>1 DEF JobsInv
<1>3. UnfinishedIsTarget' /\ OutcomeDecided' /\ JobsKept
  BY <1>1 DEF JobsInv, UnfinishedIsTarget, OutcomeDecided, JobsKept, Unfinished, Writing
<1> QED BY <1>2, <1>3 DEF Publish, JobsInv

(* Killing some of the running jobs.                                       *)
LEMMA Killing_Inv ==
  ASSUME JobsInv, NEW js \in SUBSET Job, job' = Killing(js), \A j \in js : job[j].status = "running"
  PROVE  job' \in [Job -> JobRecord] /\ UnfinishedIsTarget' /\ OutcomeDecided' /\ JobsKept
<1> USE DEF JobRecord, Pc, Status
<1>0. \A j \in Job : [job[j] EXCEPT !.status = "killed", !.canceled = TRUE] \in JobRecord
  <2>1. job \in [Job -> JobRecord]  BY DEF JobsInv
  <2> QED BY <2>1
<1>1. job' \in [Job -> JobRecord]
  <2> HIDE DEF JobRecord
  <2> QED BY <1>0 DEF Killing, JobsInv
<1>2. \A j \in Job : /\ job'[j].owner = job[j].owner /\ job'[j].pc = job[j].pc
                     /\ job'[j].outcome = job[j].outcome
                     /\ job'[j].status \in {job[j].status, "killed"}
  BY DEF Killing, JobsInv
<1> QED BY <1>1, <1>2 DEF JobsInv, UnfinishedIsTarget, OutcomeDecided, JobsKept, Unfinished, Writing

LEMMA Kill_Inv ==
  ASSUME JobsInv, NEW s, NEW j \in Job, KillForSession(s, j)
  PROVE  JobsInv' /\ JobsKept
<1>1. /\ job' \in [Job -> JobRecord] /\ UnfinishedIsTarget' /\ OutcomeDecided' /\ JobsKept
  BY Killing_Inv DEF KillForSession, Running
<1> QED BY <1>1 DEF KillForSession, JobsInv

LEMMA CloseTargets_Inv ==
  ASSUME JobsInv, CloseTargets
  PROVE  JobsInv' /\ JobsKept
<1>1. /\ job' \in [Job -> JobRecord] /\ UnfinishedIsTarget' /\ OutcomeDecided' /\ JobsKept
  BY Killing_Inv DEF CloseTargets
<1> QED BY <1>1 DEF CloseTargets, JobsInv

LEMMA BeginDestroy_Inv ==
  ASSUME JobsInv, NEW s \in Session, BeginDestroy(s)
  PROVE  /\ JobsInv' /\ JobsKept
         /\ \A n \in completed' : n \in completed /\ job[n.job].owner # s
<1>1. /\ job' \in [Job -> JobRecord] /\ UnfinishedIsTarget' /\ OutcomeDecided' /\ JobsKept
  BY Killing_Inv DEF BeginDestroy, Running, JobsOf
<1> QED BY <1>1 DEF BeginDestroy, NotesOf, JobsInv

LEMMA CancelRoot_Inv ==
  ASSUME JobsInv, CancelRoot
  PROVE  JobsInv' /\ JobsKept
<1> USE DEF JobRecord, Pc, Status
<1>0. \A j \in Job : [job[j] EXCEPT !.canceled = TRUE] \in JobRecord
  BY DEF JobsInv
<1>1. job' \in [Job -> JobRecord]
  <2> HIDE DEF JobRecord
  <2> QED BY <1>0 DEF CancelRoot, JobsInv
<1>2. \A j \in Job : /\ job'[j].owner = job[j].owner /\ job'[j].pc = job[j].pc
                     /\ job'[j].outcome = job[j].outcome /\ job'[j].status = job[j].status
  BY DEF CancelRoot, JobsInv
<1>3. UnfinishedIsTarget' /\ OutcomeDecided' /\ JobsKept
  BY <1>2 DEF JobsInv, UnfinishedIsTarget, OutcomeDecided, JobsKept, Unfinished, Writing
<1> QED BY <1>1, <1>3 DEF CancelRoot, JobsInv

LEMMA Drain_Inv ==
  ASSUME JobsInv, NEW s, DrainCompleted(s)
  PROVE  JobsInv' /\ JobsKept /\ completed' \subseteq completed
<1>1. told' \in [Job -> SUBSET Status]
  BY DEF DrainCompleted, JobsInv, NotesOf
<1>2. UnfinishedIsTarget' /\ OutcomeDecided' /\ JobsKept
  BY DEF DrainCompleted, JobsInv, UnfinishedIsTarget, OutcomeDecided, JobsKept,
         Unfinished, Writing
<1> QED BY <1>1, <1>2 DEF DrainCompleted, JobsInv

LEMMA SetActive_Inv ==
  ASSUME JobsInv, NEW s \in Session, SetActiveSession(s)
  PROVE  /\ JobsInv' /\ JobsKept
         /\ \A j \in Job : meta[j] = "none" => meta'[j] = "none"
         /\ \A n \in completed' : n \in completed \/ job[n.job].owner = s
         /\ \A j \in Job : Unfinished(j) => job'[j] = job[j]
<1> USE DEF JobRecord, Pc, Status
<1>1. \A j \in Job : LoadedStatus(j) \in {"done", "killed", "interrupted", "none"}
  BY DEF LoadedStatus, JobsInv
<1>0. \A j \in Job :
        [job[j] EXCEPT !.pc = "tombstone", !.status = LoadedStatus(j)] \in JobRecord
  <2>1. job \in [Job -> JobRecord]  BY DEF JobsInv
  <2> QED BY <1>1, <2>1
<1>2. job' \in [Job -> JobRecord]
  <2> HIDE DEF JobRecord
  <2> QED BY <1>0 DEF SetActiveSession, JobsInv
<1>9. meta' \in [Job -> Status \cup {"none"}]
  BY <1>1 DEF SetActiveSession, JobsInv
<1>3. \A j \in Job : /\ job'[j].owner = job[j].owner
                     /\ \/ job'[j] = job[j]
                        \/ /\ job[j].status = "none" /\ job'[j].pc = "tombstone"
                           /\ job'[j].status # "running"
  BY <1>1 DEF SetActiveSession, JobsInv, Absent
<1>4. UnfinishedIsTarget' /\ OutcomeDecided' /\ JobsKept
  BY <1>3 DEF JobsInv, UnfinishedIsTarget, OutcomeDecided, JobsKept, Unfinished, Writing
<1>5. \A j \in Job : Unfinished(j) => job'[j] = job[j]
  BY <1>3 DEF JobsInv, UnfinishedIsTarget
<1>6. \A n \in completed' :
        \/ n \in completed
        \/ \E j \in Absent(s) : n = [job |-> j, status |-> "interrupted"]
  BY DEF SetActiveSession
<1>7. \A n \in completed' : n \in completed \/ job[n.job].owner = s
  BY <1>6 DEF Absent, JobsOf
<1>10. completed' \subseteq [job : Job, status : Status \ {"running"}]
  BY <1>6 DEF JobsInv, Absent, JobsOf
<1>8. \A j \in Job : meta[j] = "none" => meta'[j] = "none"
  BY DEF SetActiveSession, LoadedStatus, JobsInv
<1> QED BY <1>2, <1>4, <1>5, <1>7, <1>8, <1>9, <1>10 DEF SetActiveSession, JobsInv

(* The jobs of a session without unfinished jobs leave the table.          *)
LEMMA Purged_Inv ==
  ASSUME JobsInv, NEW s \in Session, job' = Purged(s), \A j \in JobsOf(s) : ~ Unfinished(j)
  PROVE  job' \in [Job -> JobRecord] /\ UnfinishedIsTarget' /\ OutcomeDecided' /\ JobsKept
<1> USE DEF JobRecord, Pc, Status
<1>1. job' \in [Job -> JobRecord]
  BY DEF Purged, JobsInv
<1>2. \A j \in Job : /\ job'[j].owner = job[j].owner /\ job'[j].pc = job[j].pc
                     /\ job'[j].outcome = job[j].outcome
                     /\ \/ job'[j].status = job[j].status
                        \/ job'[j].status = "none" /\ ~ Unfinished(j)
  BY DEF Purged, JobsOf, JobsInv
<1> QED BY <1>1, <1>2 DEF JobsInv, UnfinishedIsTarget, OutcomeDecided, JobsKept, Unfinished, Writing

LEMMA Die_Inv ==
  ASSUME JobsInv, JobsDie
  PROVE  /\ JobsInv' /\ JobsKept /\ completed' = {} /\ destroying' = {}
         /\ \A j \in Job : ~ Unfinished(j)' /\ job'[j].status = "none"
<1> USE DEF JobRecord, Pc, Status, Blank, Unused
<1>1. \A j \in Job : job'[j] = [owner |-> job[j].owner,
                                pc |-> IF job[j] = Unused THEN "unused" ELSE "gone",
                                status |-> "none", outcome |-> "none", canceled |-> FALSE]
  BY DEF JobsDie, JobsInv
<1>2. job' \in [Job -> JobRecord]
  BY <1>1 DEF JobsDie, JobsInv
<1> QED BY <1>1, <1>2 DEF JobsDie, JobsInv, UnfinishedIsTarget, OutcomeDecided, JobsKept, Unfinished, Writing

-----------------------------------------------------------------------------
(* What a step that starts no job leaves true, each part with what it      *)
(* may change.                                                             *)
LEMMA WindowKept ==
  ASSUME Window, JobsKept, UNCHANGED <<destroying, reaper, targets>>,
         UNCHANGED <<rotating, clearing>> \/ (rotating # "destroyed" /\ rotating' # "destroyed")
  PROVE  Window'
  BY DEF Window, Destroys, JobsOf, JobsKept

LEMMA QuietKept ==
  ASSUME JobsInv, Quiet, JobsKept, UNCHANGED <<destroying, removed>>,
         \A n \in completed' : n \in completed \/ job[n.job].owner \notin destroying \cup removed,
         \A n \in completed' : n.job \in Job,
         \A j \in Job : job[j].owner \in removed /\ meta[j] = "none" => meta'[j] = "none"
  PROVE  Quiet'
  BY DEF Quiet, JobsKept, JobsInv

LEMMA MarkedKept ==
  ASSUME Marked, JobsKept, UNCHANGED <<marker, removed, busy>>,
         UNCHANGED <<rotating, clearing>> \/ rotating' \notin {"marked", "destroyed"}
  PROVE  Marked'
  BY DEF Marked, JobsKept, JobsOf

LEMMA IdleKept ==
  ASSUME MutationIsIdle, JobsKept,
         rotating' = "reserved" => UNCHANGED <<rotating, reservedFor, turnSession>>
  PROVE  MutationIsIdle'
  BY DEF MutationIsIdle, Turning, Running, JobsOf, JobsKept

(* A step of a job, or of somebody who only kills or cancels jobs, or tells*)
(* of them.                                                                *)
LEMMA JobsMove_Inv ==
  ASSUME IInv, JobsInv', JobsKept,
         UNCHANGED <<gateVars, reapVars, marker, clearVars, processes, sessionPath, minted>>,
         UNCHANGED destroying,
         \A n \in completed' : n \in completed \/ job[n.job].owner \notin destroying \cup removed,
         \A j \in Job : job[j].owner \in removed => meta'[j] = meta[j],
         ~ Sessionless, phase' \in {"up", "canceled", "closed"}
  PROVE  IInv'
<1> USE DEF IInv, gateVars, reapVars, clearVars
<1>1. GateType' /\ NothingRuns' /\ OnlyMinted' /\ InUse'
  BY DEF GateType, Turning, NothingRuns, Sessionless, OnlyMinted, InUse
<1>2. Window'  BY WindowKept
<1>3. Quiet'
  <2>1. \A n \in completed' : n.job \in Job  BY DEF JobsInv
  <2> QED BY <2>1, QuietKept
<1>4. Marked'  BY MarkedKept
<1>5. MutationIsIdle'  BY IdleKept
<1> QED BY <1>1, <1>2, <1>3, <1>4, <1>5

(* Jobs that are unfinished, notes and turns need a process with a session.*)
LEMMA InProcess ==
  ASSUME IInv
  PROVE  /\ \A j \in Job : Unfinished(j) => ~ Sessionless
         /\ Turning => ~ Sessionless
         /\ rotating # "no" => ~ Sessionless
         /\ \A s \in Session : reaper[s] # "none" => ~ Sessionless
  BY DEF IInv, NothingRuns

LEMMA JobMoves_IInv == ASSUME IInv, NEW j \in Job, JobMoves(j) PROVE IInv'
<1> USE DEF IInv
<1>0. /\ UNCHANGED <<gateVars, reapVars, marker, clearVars, processes, sessionPath, minted>>
      /\ phase' = phase
  BY DEF JobMoves, runVars
<1>1. CASE Return(j)
  <2>1. JobsInv' /\ JobsKept /\ Unfinished(j) /\ \A i \in Job \ {j} : meta'[i] = meta[i]
    BY <1>1, Return_Inv
  <2>2. UNCHANGED <<completed, destroying>>  BY <1>1 DEF Return
  <2>3. job[j].owner \notin removed  BY <2>1 DEF Quiet
  <2>4. ~ Sessionless /\ phase \in {"up", "canceled", "closed"}
    BY <2>1, InProcess DEF Sessionless, GateType
  <2> QED BY <1>0, <2>1, <2>2, <2>3, <2>4, JobsMove_Inv
<1>2. CASE RecordCompletion(j)
  <2>1. /\ JobsInv' /\ JobsKept /\ Unfinished(j)
        /\ \A n \in completed' : n \in completed \/ (n.job = j /\ job[j].owner \notin destroying)
    BY <1>2, Record_Inv
  <2>2. UNCHANGED <<meta, destroying>>  BY <1>2 DEF RecordCompletion
  <2>3. job[j].owner \notin removed  BY <2>1 DEF Quiet
  <2>4. ~ Sessionless /\ phase \in {"up", "canceled", "closed"}
    BY <2>1, InProcess DEF Sessionless, GateType
  <2> QED BY <1>0, <2>1, <2>2, <2>3, <2>4, JobsMove_Inv
<1>3. CASE Publish(j)
  <2>1. JobsInv' /\ JobsKept  BY <1>3, Publish_Inv
  <2>2. UNCHANGED <<completed, meta, destroying>>  BY <1>3 DEF Publish
  <2>3. Unfinished(j)  BY <1>3 DEF Publish, Unfinished
  <2>4. ~ Sessionless /\ phase \in {"up", "canceled", "closed"}
    BY <2>3, InProcess DEF Sessionless, GateType
  <2> QED BY <1>0, <2>1, <2>2, <2>4, JobsMove_Inv
<1> QED BY <1>1, <1>2, <1>3 DEF JobMoves, JobStep

LEMMA KillShell_IInv == ASSUME IInv, NEW j \in Job, KillShell(j) PROVE IInv'
<1> USE DEF IInv
<1>1. JobsInv' /\ JobsKept  BY Kill_Inv DEF KillShell
<1>2. UNCHANGED <<completed, meta, destroying>>  BY DEF KillShell, KillForSession
<1>3. ~ Sessionless /\ phase \in {"up", "canceled", "closed"}
  BY InProcess DEF KillShell, Sessionless, GateType
<1> QED BY <1>1, <1>2, <1>3, JobsMove_Inv DEF KillShell, runVars

LEMMA Close_IInv == ASSUME IInv, Close PROVE IInv'
<1> USE DEF IInv
<1>1. JobsInv' /\ JobsKept  BY CancelRoot_Inv, CloseTargets_Inv DEF Close
<1>2. UNCHANGED <<completed, meta, destroying>>  BY DEF Close, CancelRoot, CloseTargets
<1>3. ~ Sessionless /\ phase' \in {"canceled", "closed"}  BY DEF Close, Sessionless
<1> QED BY <1>1, <1>2, <1>3, JobsMove_Inv DEF Close

LEMMA Compose_IInv == ASSUME IInv, Compose PROVE IInv'
<1> USE DEF IInv
<1>1. JobsInv' /\ JobsKept /\ completed' \subseteq completed
  BY Drain_Inv DEF Compose
<1>2. /\ UNCHANGED <<job, meta, destroying, rotating, clearing, reservedFor, reapVars, marker,
                     clearVars, runVars, sessionPath, minted>>
      /\ turnSession' = sessionPath
  BY DEF Compose, DrainCompleted
<1>3. ~ Sessionless /\ rotating = "no"
  BY InProcess DEF Compose, Sessionless, GateType
<1>4. GateType' /\ NothingRuns' /\ OnlyMinted' /\ InUse'
  BY <1>2, <1>3 DEF GateType, Turning, NothingRuns, Sessionless, OnlyMinted, InUse,
     reapVars, clearVars, runVars
<1>5. Window'  BY <1>1, <1>2, WindowKept DEF reapVars
<1>6. Quiet'
  BY <1>1, <1>2, QuietKept DEF clearVars, JobsInv
<1>7. Marked'  BY <1>1, <1>2, MarkedKept DEF clearVars
<1>8. MutationIsIdle'  BY <1>2, <1>3 DEF MutationIsIdle
<1> QED BY <1>1, <1>4, <1>5, <1>6, <1>7, <1>8

LEMMA StartJob_IInv == ASSUME IInv, NEW j \in Job, StartJob(j) PROVE IInv'
<1> USE DEF IInv
<1> DEFINE s == turnSession
<1>0. Turning /\ s \in Session /\ rotating = "no" /\ ~ Sessionless
  BY InProcess DEF StartJob, Turning, GateType
<1>1. /\ JobsInv' /\ \A i \in Job \ {j} : job'[i] = job[i] /\ meta'[i] = meta[i]
      /\ job'[j].owner = s
  BY <1>0, Start_Inv DEF StartJob
<1>2. /\ UNCHANGED <<completed, destroying>>
      /\ UNCHANGED <<gateVars, reapVars, marker, clearVars, runVars, sessionPath, minted>>
  BY DEF StartJob, StartForSession
<1>3. GateType' /\ NothingRuns' /\ OnlyMinted' /\ InUse'
  BY <1>0, <1>2 DEF GateType, Turning, NothingRuns, Sessionless, OnlyMinted, InUse,
     gateVars, reapVars, clearVars, runVars
<1>4. ~ Destroys(s) /\ s \notin destroying /\ s \notin removed
  BY <1>0 DEF Destroys, InUse, Window
<1>5. Window'
  BY <1>0, <1>1, <1>2, <1>4 DEF Window, Destroys, JobsOf, Unfinished, Writing, gateVars, reapVars
<1>6. Quiet'
  BY <1>1, <1>2, <1>4 DEF Quiet, Unfinished, Writing, clearVars, JobsInv
<1>7. Marked' /\ MutationIsIdle'
  BY <1>0, <1>2 DEF Marked, MutationIsIdle, gateVars, clearVars
<1> QED BY <1>1, <1>3, <1>5, <1>6, <1>7

(* A session is made the active one that is neither gone nor being         *)
(* destroyed, and its records are read.                                    *)
LEMMA SetActive_IInv ==
  ASSUME IInv, NEW s \in Session, SetActiveSession(s),
         s \notin destroying \cup removed
  PROVE  /\ JobsInv' /\ JobsKept /\ UNCHANGED destroying
         /\ UNCHANGED removed => Quiet'
<1> USE DEF IInv
<1>1. JobsInv' /\ JobsKept
  BY SetActive_Inv
<1>2. UNCHANGED destroying  BY DEF SetActiveSession
<1>3. ASSUME UNCHANGED removed PROVE Quiet'
  <2>1. /\ \A j \in Job : meta[j] = "none" => meta'[j] = "none"
        /\ \A n \in completed' : n \in completed \/ job[n.job].owner = s
    BY SetActive_Inv
  <2>2. \A n \in completed' : n.job \in Job  BY <1>1 DEF JobsInv
  <2> QED BY <1>1, <1>2, <1>3, <2>1, <2>2, QuietKept
<1> QED BY <1>1, <1>2, <1>3

(* A session that is new or not in use is not being destroyed while the    *)
(* gate is not on its way to a removal.                                    *)
LEMMA NotDestroyed ==
  ASSUME IInv, NEW s \in Session, s \notin cleared, rotating # "destroyed"
  PROVE  s \notin destroying
  BY DEF IInv, InUse, Window, Destroys

LEMMA CommitRecovered_IInv == ASSUME IInv, NEW s \in Session, CommitRecovered(s) PROVE IInv'
<1> USE DEF IInv
<1>0. /\ Turning /\ rotating = "no" /\ ~ Sessionless
      /\ s \notin minted /\ s \notin removed /\ s \notin cleared
      /\ UNCHANGED <<gateVars, reapVars, marker, clearVars, runVars>>
      /\ sessionPath' = s /\ minted' = minted \cup {s} /\ SetActiveSession(s)
  BY InProcess DEF CommitRecovered, Fresh, GateType, OnlyMinted
<1>1. JobsInv' /\ JobsKept /\ Quiet' /\ UNCHANGED destroying
  BY <1>0, SetActive_IInv, NotDestroyed DEF clearVars
<1>2. GateType' /\ NothingRuns' /\ OnlyMinted' /\ InUse'
  BY <1>0 DEF GateType, Turning, NothingRuns, Sessionless, OnlyMinted, InUse,
     gateVars, reapVars, clearVars, runVars
<1>3. Window'  BY <1>0, <1>1, WindowKept DEF gateVars, reapVars
<1>4. Marked'  BY <1>0, <1>1, MarkedKept DEF gateVars, clearVars
<1>5. MutationIsIdle'  BY <1>0 DEF MutationIsIdle, gateVars
<1> QED BY <1>1, <1>2, <1>3, <1>4, <1>5

LEMMA NewSession_IInv == ASSUME IInv, NEW s \in Session, NewSession(s) PROVE IInv'
<1> USE DEF IInv
<1>0. /\ rotating = "no" /\ ~ Turning /\ ~ Sessionless
      /\ s \notin minted /\ s \notin removed /\ s \notin cleared
      /\ UNCHANGED <<gateVars, reapVars, marker, clearVars, runVars>>
      /\ sessionPath' = s /\ minted' = minted \cup {s} /\ SetActiveSession(s)
  BY DEF NewSession, GateFree, Sessionless, Fresh, GateType, OnlyMinted
<1>1. JobsInv' /\ JobsKept /\ Quiet' /\ UNCHANGED destroying
  BY <1>0, SetActive_IInv, NotDestroyed DEF clearVars
<1>2. GateType' /\ NothingRuns' /\ OnlyMinted' /\ InUse'
  BY <1>0 DEF GateType, Turning, NothingRuns, Sessionless, OnlyMinted, InUse,
     gateVars, reapVars, clearVars, runVars
<1>3. Window'  BY <1>0, <1>1, WindowKept DEF gateVars, reapVars
<1>4. Marked'  BY <1>0, <1>1, MarkedKept DEF gateVars, clearVars
<1>5. MutationIsIdle'  BY <1>0 DEF MutationIsIdle, gateVars
<1> QED BY <1>1, <1>2, <1>3, <1>4, <1>5

LEMMA Resume_IInv == ASSUME IInv, NEW s \in Session, Resume(s) PROVE IInv'
<1> USE DEF IInv
<1>0. /\ rotating \notin {"destroyed", "removed"} /\ ~ Sessionless
      /\ s \in minted /\ s \notin removed /\ s \notin cleared
      /\ UNCHANGED <<gateVars, reapVars, marker, clearVars, runVars, minted>>
      /\ sessionPath' = s /\ SetActiveSession(s)
  BY DEF Resume, Sessionless, Visible
<1>1. JobsInv' /\ JobsKept /\ Quiet' /\ UNCHANGED destroying
  BY <1>0, SetActive_IInv, NotDestroyed DEF clearVars
<1>2. GateType' /\ NothingRuns' /\ OnlyMinted' /\ InUse'
  BY <1>0 DEF GateType, Turning, NothingRuns, Sessionless, OnlyMinted, InUse,
     gateVars, reapVars, clearVars, runVars
<1>3. Window'  BY <1>0, <1>1, WindowKept DEF gateVars, reapVars
<1>4. Marked'  BY <1>0, <1>1, MarkedKept DEF gateVars, clearVars
<1>5. MutationIsIdle'  BY <1>0, <1>1, IdleKept DEF gateVars
<1> QED BY <1>1, <1>2, <1>3, <1>4, <1>5

LEMMA Open_IInv == ASSUME IInv, NEW s \in Session, Open(s) PROVE IInv'
<1> USE DEF IInv
<1>0. /\ Sessionless /\ rotating = "no" /\ ~ Turning /\ destroying = {}
      /\ s \notin removed /\ phase' = "up"
      /\ UNCHANGED <<gateVars, reapVars, marker, clearVars, processes>>
      /\ sessionPath' = s /\ minted' = minted \cup {s} /\ SetActiveSession(s)
      /\ \A r \in Session : reaper[r] = "none"
  BY DEF Open, Sessionless, Fresh, Visible, OnlyMinted, NothingRuns
<1>1. JobsInv' /\ JobsKept /\ Quiet' /\ UNCHANGED destroying
  BY <1>0, SetActive_IInv DEF clearVars
<1>2. GateType' /\ NothingRuns' /\ OnlyMinted' /\ InUse'
  BY <1>0 DEF GateType, Turning, NothingRuns, Sessionless, OnlyMinted, InUse,
     gateVars, reapVars, clearVars
<1>3. Window'  BY <1>0, <1>1, WindowKept DEF gateVars, reapVars
<1>4. Marked'  BY <1>0, <1>1, MarkedKept DEF gateVars, clearVars
<1>5. MutationIsIdle'  BY <1>0 DEF MutationIsIdle, gateVars
<1> QED BY <1>1, <1>2, <1>3, <1>4, <1>5

-----------------------------------------------------------------------------
(* A step of the gate that leaves the jobs alone.                          *)
LEMMA JobsSame ==
  ASSUME JobsInv, UNCHANGED jobVars
  PROVE  JobsInv' /\ JobsKept
  BY DEF JobsInv, jobVars, JobsKept, UnfinishedIsTarget, OutcomeDecided, Unfinished, Writing

LEMMA EndTurn_IInv == ASSUME IInv, EndTurn PROVE IInv'
<1> USE DEF IInv
<1>0. /\ Turning /\ ~ Sessionless /\ turnSession' = NoSession
      /\ UNCHANGED <<jobVars, rotating, clearing, reservedFor, reapVars, marker, clearVars,
                     runVars, sessionPath, minted>>
  BY InProcess DEF EndTurn
<1>1. JobsInv' /\ JobsKept  BY <1>0, JobsSame
<1>2. GateType' /\ NothingRuns' /\ OnlyMinted' /\ InUse'
  BY <1>0, SessionAssumption DEF GateType, Turning, NothingRuns, Sessionless, OnlyMinted, InUse,
     reapVars, clearVars, runVars
<1>3. Window'  BY <1>0, <1>1, WindowKept DEF reapVars, jobVars
<1>4. Quiet'  BY <1>0 DEF Quiet, jobVars, clearVars, Unfinished, Writing
<1>5. Marked'  BY <1>0, <1>1, MarkedKept DEF clearVars
<1>6. MutationIsIdle'
  BY <1>0 DEF MutationIsIdle, GateType
<1> QED BY <1>1, <1>2, <1>3, <1>4, <1>5, <1>6

LEMMA Gate_IInv ==
  ASSUME IInv, ClaimGate \/ Reserve \/ Release
  PROVE  IInv'
<1> USE DEF IInv
<1>0. /\ ~ Turning /\ ~ Sessionless /\ rotating \in {"no", "reserving", "reserved"}
      /\ rotating' \in {"no", "reserving", "reserved"}
      /\ reservedFor' \in {reservedFor, sessionPath, NoSession}
      /\ rotating' = "reserved" => Running(sessionPath) = {} /\ reservedFor' = sessionPath
      /\ UNCHANGED <<jobVars, turnSession, clearing, reapVars, marker, clearVars, runVars,
                     sessionPath, minted>>
  BY DEF ClaimGate, Reserve, Release, GateFree, Sessionless, NothingRuns, GateType
<1>1. JobsInv' /\ JobsKept  BY <1>0, JobsSame
<1>2. GateType' /\ NothingRuns' /\ OnlyMinted' /\ InUse'
  BY <1>0 DEF GateType, Turning, NothingRuns, Sessionless, OnlyMinted, InUse,
     reapVars, clearVars, runVars
<1>3. Window'  BY <1>0, <1>1, WindowKept DEF reapVars, jobVars
<1>4. Quiet'  BY <1>0 DEF Quiet, jobVars, clearVars, Unfinished, Writing
<1>5. Marked'  BY <1>0, <1>1, MarkedKept DEF clearVars
<1>6. MutationIsIdle'
  BY <1>0 DEF MutationIsIdle, Turning, Running, JobsOf, jobVars
<1> QED BY <1>1, <1>2, <1>3, <1>4, <1>5, <1>6

LEMMA ClearMark_IInv == ASSUME IInv, ClearMark PROVE IInv'
<1> USE DEF IInv
<1>0. /\ ~ Turning /\ ~ Sessionless /\ rotating = "no"
      /\ rotating' = "marked" /\ clearing' = sessionPath
      /\ marker' = IF HasUnfinished(sessionPath) THEN marker \cup {sessionPath} ELSE marker
      /\ UNCHANGED <<jobVars, turnSession, reservedFor, reapVars, clearVars, runVars,
                     sessionPath, minted>>
  BY DEF ClearMark, GateFree, Sessionless
<1>1. JobsInv' /\ JobsKept  BY <1>0, JobsSame
<1>2. sessionPath \in minted /\ sessionPath \in Session /\ reaper[sessionPath] = "none"
  BY <1>0 DEF OnlyMinted, GateType, InUse
<1>3. GateType' /\ NothingRuns' /\ OnlyMinted' /\ InUse'
  BY <1>0, <1>2 DEF GateType, Turning, NothingRuns, Sessionless, OnlyMinted, InUse,
     reapVars, clearVars, runVars
<1>4. Window'  BY <1>0, <1>1, WindowKept DEF reapVars, jobVars
<1>5. Quiet'  BY <1>0 DEF Quiet, jobVars, clearVars, Unfinished, Writing
<1>6. Marked'
  <2>1. \A j \in JobsOf(sessionPath) : Unfinished(j) => HasUnfinished(sessionPath)
    BY DEF HasUnfinished, Known, JobsInv, UnfinishedIsTarget, JobsOf
  <2>2. \A j \in JobsOf(sessionPath)' : Unfinished(j)' => sessionPath \in marker'
    BY <1>0, <2>1 DEF jobVars, JobsOf, Unfinished, Writing
  <2>3. marker \subseteq marker' /\ UNCHANGED <<busy, removed>>
    BY <1>0 DEF clearVars
  <2> QED BY <1>0, <2>2, <2>3 DEF Marked, JobsOf, Unfinished, Writing
<1>7. MutationIsIdle'  BY <1>0 DEF MutationIsIdle
<1> QED BY <1>1, <1>3, <1>4, <1>5, <1>6, <1>7

LEMMA ClearDestroy_IInv == ASSUME IInv, ClearDestroy PROVE IInv'
<1> USE DEF IInv
<1>0. /\ rotating = "marked" /\ rotating' = "destroyed" /\ ~ Turning /\ ~ Sessionless
      /\ targets' = [targets EXCEPT ![clearing] = TeardownTargets(clearing)]
      /\ BeginDestroy(clearing)
      /\ UNCHANGED <<turnSession, clearing, reservedFor, reaper, marker, clearVars, runVars,
                     sessionPath, minted>>
  BY InProcess DEF ClearDestroy, GateType
<1>1. clearing \in minted /\ clearing \in Session /\ reaper[clearing] = "none"
  BY <1>0 DEF OnlyMinted, GateType
<1>2. /\ JobsInv' /\ JobsKept
      /\ \A n \in completed' : n \in completed /\ job[n.job].owner # clearing
  BY <1>0, <1>1, BeginDestroy_Inv
<1>3. destroying' = destroying \cup {clearing} /\ meta' = meta
  BY <1>0 DEF BeginDestroy
<1>4. TeardownTargets(clearing) \subseteq Job  BY DEF TeardownTargets, JobsOf
<1>5. GateType'
  BY <1>0, <1>4 DEF GateType, Turning, clearVars, runVars
<1>6. NothingRuns' /\ OnlyMinted' /\ InUse'
  BY <1>0, <1>1 DEF NothingRuns, Sessionless, OnlyMinted, InUse, clearVars, runVars
<1>7. Window'
  <2>1. \A s \in Session : Destroys(s)' <=> Destroys(s) \/ s = clearing
    BY <1>0 DEF Destroys
  <2>2. \A s \in Session : s \in destroying' <=> Destroys(s)'
    BY <1>3, <2>1 DEF Window
  <2>3. ASSUME NEW s \in Session, Destroys(s)', NEW j \in Job, job'[j].owner = s, Unfinished(j)'
        PROVE  j \in targets'[s]
    <3>1. job[j].owner = s /\ Unfinished(j)  BY <1>2, <2>3 DEF JobsKept
    <3>2. CASE s = clearing
      <4>1. j \in TeardownTargets(s)
        BY <3>1 DEF TeardownTargets, JobsOf, JobsInv, UnfinishedIsTarget
      <4> QED BY <1>0, <1>1, <3>2, <4>1 DEF GateType
    <3>3. CASE s # clearing
      BY <1>0, <2>1, <2>3, <3>1, <3>3 DEF Window, JobsOf, GateType
    <3> QED BY <3>2, <3>3
  <2> QED BY <2>2, <2>3 DEF Window, JobsOf
<1>8. Quiet'
  <2>1. \A n \in completed' : n.job \in Job  BY <1>2 DEF JobsInv
  <2>2. UNCHANGED removed  BY <1>0 DEF clearVars
  <2> QED BY <1>2, <1>3, <2>1, <2>2 DEF Quiet, JobsKept
<1>9. Marked'
  BY <1>0, <1>2 DEF Marked, JobsKept, JobsOf, clearVars
<1>10. MutationIsIdle'  BY <1>0 DEF MutationIsIdle
<1> QED BY <1>2, <1>5, <1>6, <1>7, <1>8, <1>9, <1>10

-----------------------------------------------------------------------------
(* The files of some sessions go, whose jobs have nothing left to write    *)
(* and of which nobody is to be told.                                      *)
LEMMA Remove_Inv ==
  ASSUME JobsInv, NEW ss \in SUBSET Session, RemoveFiles(ss)
  PROVE  /\ meta' \in [Job -> Status \cup {"none"}]
         /\ \A j \in Job : meta'[j] = IF job[j].owner \in ss THEN "none" ELSE meta[j]
         /\ marker' = marker \ ss /\ removed' = removed \cup ss
  BY DEF JobsInv, RemoveFiles

(* The end of a destruction, with or without the removal of the files.     *)
LEMMA Finish_Inv ==
  ASSUME IInv, NEW s \in Session, s \in destroying, FinishDestroy(s),
         \A j \in JobsOf(s) : ~ Unfinished(j),
         RemoveFiles({s}) \/ UNCHANGED <<marker, removed, meta>>
  PROVE  /\ JobsInv' /\ JobsKept /\ Quiet' /\ destroying' = destroying \ {s}
         /\ \/ marker' = marker \ {s} /\ removed' = removed \cup {s}
            \/ UNCHANGED <<marker, removed>>
<1> USE DEF IInv
<1>1. job' \in [Job -> JobRecord] /\ UnfinishedIsTarget' /\ OutcomeDecided' /\ JobsKept
  BY Purged_Inv DEF FinishDestroy
<1>2. /\ destroying' = destroying \ {s} /\ loaded' = loaded \ {s}
      /\ UNCHANGED <<unwritten, completed, told>>
  BY DEF FinishDestroy
<1>3. /\ meta' \in [Job -> Status \cup {"none"}]
      /\ \A j \in Job : \/ job[j].owner \in removed' \ removed /\ meta'[j] = "none"
                        \/ job[j].owner \notin removed' \ removed /\ meta'[j] = meta[j]
                        \/ job[j].owner \in removed /\ meta'[j] \in {meta[j], "none"}
      /\ \/ marker' = marker \ {s} /\ removed' = removed \cup {s}
         \/ UNCHANGED <<marker, removed>>
  <2>1. CASE RemoveFiles({s})  BY <2>1, Remove_Inv
  <2>2. CASE UNCHANGED <<marker, removed, meta>>  BY <2>2 DEF JobsInv
  <2> QED BY <2>1, <2>2
<1>4. JobsInv'  BY <1>1, <1>2, <1>3 DEF JobsInv
<1>5. Quiet'
  <2>1. \A n \in completed : n.job \in Job /\ job[n.job].owner \notin destroying \cup removed
    BY DEF Quiet, JobsInv
  <2>2. \A n \in completed' : job'[n.job].owner \notin destroying' \cup removed'
    BY <1>1, <1>2, <1>3, <2>1 DEF JobsKept
  <2>3. \A j \in Job : job[j].owner \in removed' => ~ Unfinished(j)' /\ meta'[j] = "none"
    BY <1>1, <1>3 DEF JobsKept, Quiet, JobsOf
  <2> QED BY <1>1, <2>2, <2>3 DEF Quiet, JobsKept
<1> QED BY <1>1, <1>2, <1>3, <1>4, <1>5

LEMMA ClearRemove_IInv == ASSUME IInv, ClearRemove PROVE IInv'
<1> USE DEF IInv
<1>0. /\ rotating = "destroyed" /\ targets[clearing] = {} /\ ~ Turning /\ ~ Sessionless
      /\ FinishDestroy(clearing)
      /\ \/ RemoveFiles({clearing}) /\ rotating' = "removed" /\ UNCHANGED clearing
         \/ rotating' = "no" /\ clearing' = NoSession /\ UNCHANGED <<marker, removed, meta>>
      /\ UNCHANGED <<turnSession, reservedFor, reapVars, cleared, busy, runVars,
                     sessionPath, minted>>
  BY InProcess DEF ClearRemove, GateType
<1>1. /\ clearing \in minted /\ clearing \in Session /\ reaper[clearing] = "none"
      /\ clearing \in destroying /\ \A j \in JobsOf(clearing) : ~ Unfinished(j)
  BY <1>0 DEF OnlyMinted, GateType, Window, Destroys
<1>2. /\ JobsInv' /\ JobsKept /\ Quiet' /\ destroying' = destroying \ {clearing}
      /\ \/ marker' = marker \ {clearing} /\ removed' = removed \cup {clearing}
         \/ UNCHANGED <<marker, removed>>
  BY <1>0, <1>1, Finish_Inv
<1>3. rotating' = "removed" => removed' = removed \cup {clearing} /\ clearing' = clearing
  BY <1>0 DEF RemoveFiles
<1>4. rotating' # "removed" => rotating' = "no" /\ UNCHANGED removed
  BY <1>0
<1>5. GateType'
  BY <1>0, <1>1, <1>2 DEF GateType, Turning, reapVars, runVars
<1>6. NothingRuns' /\ OnlyMinted'
  BY <1>0, <1>1, <1>2, <1>3, <1>4 DEF NothingRuns, Sessionless, OnlyMinted, reapVars, runVars
<1>7. InUse'
  BY <1>0, <1>1, <1>3, <1>4, SessionAssumption DEF InUse, GateType, Turning, reapVars
<1>8. Window'
  <2>1. \A s \in Session : Destroys(s)' <=> Destroys(s) /\ s # clearing
    BY <1>0, <1>1 DEF Destroys, reapVars
  <2> QED BY <1>0, <1>2, <2>1 DEF Window, JobsOf, JobsKept, reapVars
<1>9. Marked' /\ MutationIsIdle'
  BY <1>0, <1>2 DEF Marked, MutationIsIdle
<1> QED BY <1>2, <1>5, <1>6, <1>7, <1>8, <1>9

LEMMA ClearSwap_IInv == ASSUME IInv, NEW s \in Session, ClearSwap(s) PROVE IInv'
<1> USE DEF IInv
<1>0. /\ rotating \in {"removed", "destroyed"} /\ ~ Turning /\ ~ Sessionless
      /\ s \notin minted /\ s \notin removed /\ s \notin cleared
      /\ rotating' = "no" /\ clearing' = NoSession
      /\ sessionPath' = s /\ minted' = minted \cup {s} /\ SetActiveSession(s)
      /\ reaper' = [reaper EXCEPT ![clearing] = IF rotating = "removed" THEN "none" ELSE "wait"]
      /\ cleared' = cleared \cup {clearing}
      /\ busy' = IF \E j \in JobsOf(clearing) : Unfinished(j) THEN busy \cup {clearing} ELSE busy
      /\ UNCHANGED <<turnSession, reservedFor, targets, marker, removed, runVars>>
  BY InProcess DEF ClearSwap, Fresh, GateType, OnlyMinted
<1>1. clearing \in minted /\ clearing \in Session /\ reaper[clearing] = "none" /\ clearing # s
  BY <1>0 DEF OnlyMinted, GateType
<1>2. s \notin destroying
  BY <1>0, <1>1 DEF Window, Destroys, InUse
<1>3. JobsInv' /\ JobsKept /\ Quiet' /\ UNCHANGED destroying
  BY <1>0, <1>2, SetActive_IInv
<1>4. GateType'
  BY <1>0, <1>1 DEF GateType, Turning, runVars
<1>5. NothingRuns' /\ OnlyMinted'
  BY <1>0, <1>1 DEF NothingRuns, Sessionless, OnlyMinted, runVars
<1>6. \A r \in Session : reaper'[r] = IF r = clearing /\ rotating = "destroyed" THEN "wait"
                                       ELSE reaper[r]
  BY <1>0, <1>1 DEF GateType
<1>7. InUse'
  BY <1>0, <1>1, <1>6, SessionAssumption DEF InUse, OnlyMinted, Turning
<1>8. Window'
  <2>1. \A r \in Session : Destroys(r)' <=> Destroys(r)
    BY <1>0, <1>1, <1>6 DEF Destroys
  <2> QED BY <1>0, <1>3, <2>1 DEF Window, JobsOf, JobsKept
<1>9. Marked'
  <2>1. (\E j \in JobsOf(clearing) : Unfinished(j)) => clearing \in marker \cup removed
    BY <1>0 DEF Marked, InUse
  <2> QED BY <1>0, <2>1 DEF Marked
<1>10. MutationIsIdle'  BY <1>0 DEF MutationIsIdle
<1> QED BY <1>3, <1>4, <1>5, <1>7, <1>8, <1>9, <1>10

LEMMA ReapTimeout_IInv == ASSUME IInv, NEW s \in Session, ReapTimeout(s) PROVE IInv'
<1> USE DEF IInv
<1>0. /\ reaper[s] = "wait" /\ ~ Sessionless
      /\ reaper' = [reaper EXCEPT ![s] = "late"]
      /\ marker' \in {marker, marker \cup {s}}
      /\ UNCHANGED <<jobVars, gateVars, targets, clearVars, runVars, sessionPath, minted>>
  BY InProcess DEF ReapTimeout
<1>1. JobsInv' /\ JobsKept  BY <1>0, JobsSame
<1>2. /\ s \in cleared /\ s \in minted
      /\ \A r \in Session : reaper'[r] # "none" <=> reaper[r] # "none"
  BY <1>0 DEF InUse, OnlyMinted, GateType
<1>3. GateType'
  BY <1>0 DEF GateType, Turning, gateVars, clearVars, runVars
<1>4. NothingRuns' /\ OnlyMinted' /\ InUse'
  BY <1>0, <1>2 DEF NothingRuns, Sessionless, OnlyMinted, InUse, gateVars, clearVars, runVars,
     GateType
<1>5. Window'
  BY <1>0, <1>1, <1>2 DEF Window, Destroys, JobsOf, JobsKept, gateVars, jobVars
<1>6. Quiet'  BY <1>0 DEF Quiet, jobVars, clearVars, Unfinished, Writing
<1>7. Marked'
  BY <1>0, <1>1 DEF Marked, JobsKept, JobsOf, gateVars, clearVars
<1>8. MutationIsIdle'  BY <1>0, <1>1, IdleKept DEF gateVars
<1> QED BY <1>1, <1>3, <1>4, <1>5, <1>6, <1>7, <1>8

LEMMA Reap_IInv == ASSUME IInv, NEW s \in Session, Reap(s) PROVE IInv'
<1> USE DEF IInv
<1>0. /\ reaper[s] # "none" /\ ~ Sessionless
      /\ \A j \in targets[s] : ~ Unfinished(j)
      /\ FinishDestroy(s)
      /\ RemoveFiles({s}) \/ UNCHANGED <<marker, removed, meta>>
      /\ reaper' = [reaper EXCEPT ![s] = "none"]
      /\ targets' = [targets EXCEPT ![s] = {}]
      /\ UNCHANGED <<gateVars, cleared, busy, runVars, sessionPath, minted>>
  BY InProcess DEF Reap
<1>1. /\ s \in destroying /\ s \in cleared /\ s \in minted /\ s # sessionPath /\ s # turnSession
      /\ \A j \in JobsOf(s) : ~ Unfinished(j)
  BY <1>0 DEF Window, Destroys, InUse, OnlyMinted
<1>2. /\ JobsInv' /\ JobsKept /\ Quiet' /\ destroying' = destroying \ {s}
      /\ \/ marker' = marker \ {s} /\ removed' = removed \cup {s}
         \/ UNCHANGED <<marker, removed>>
  BY <1>0, <1>1, Finish_Inv
<1>3. \A r \in Session : /\ reaper'[r] = IF r = s THEN "none" ELSE reaper[r]
                         /\ targets'[r] = IF r = s THEN {} ELSE targets[r]
  BY <1>0 DEF GateType
<1>4. GateType'
  BY <1>0, <1>2 DEF GateType, Turning, gateVars, runVars
<1>5. NothingRuns' /\ OnlyMinted' /\ InUse'
  BY <1>0, <1>1, <1>2, <1>3 DEF NothingRuns, Sessionless, OnlyMinted, InUse, gateVars, runVars,
     GateType
<1>6. Window'
  <2>1. \A r \in Session : Destroys(r)' <=> Destroys(r) /\ r # s
    BY <1>0, <1>3 DEF Destroys, OnlyMinted, gateVars
  <2> QED BY <1>2, <1>3, <2>1 DEF Window, JobsOf, JobsKept
<1>7. Marked'
  BY <1>0, <1>2 DEF Marked, JobsKept, JobsOf, gateVars
<1>8. MutationIsIdle'  BY <1>0, <1>2, IdleKept DEF gateVars
<1> QED BY <1>2, <1>4, <1>5, <1>6, <1>7, <1>8

LEMMA Boot_IInv == ASSUME IInv, NEW ss \in SUBSET Session, Boot(ss) PROVE IInv'
<1> USE DEF IInv
<1>0. /\ Sessionless /\ Sessionless' /\ phase' = "starting"
      /\ ss \subseteq marker /\ processes' = processes + 1 /\ processes < MaxProcess
      /\ RemoveFiles(ss)
      /\ UNCHANGED <<job, unwritten, completed, destroying, loaded, told, gateVars, reapVars,
                     cleared, busy, sessionPath, minted>>
  BY DEF Boot, Sessionless
<1>1. /\ meta' \in [Job -> Status \cup {"none"}]
      /\ \A j \in Job : meta'[j] = IF job[j].owner \in ss THEN "none" ELSE meta[j]
      /\ marker' = marker \ ss /\ removed' = removed \cup ss
  BY <1>0, Remove_Inv
<1>2. JobsInv' /\ JobsKept
  BY <1>0, <1>1 DEF JobsInv, JobsKept, UnfinishedIsTarget, OutcomeDecided, Unfinished, Writing
<1>3. /\ ~ Turning /\ rotating = "no" /\ completed = {} /\ destroying = {}
      /\ sessionPath = NoSession /\ \A j \in Job : ~ Unfinished(j)
  BY <1>0 DEF NothingRuns
<1>4. GateType'
  BY <1>0, <1>1, ProcessAssumption DEF GateType, Turning, gateVars, reapVars
<1>5. NothingRuns' /\ OnlyMinted' /\ InUse'
  BY <1>0, <1>1, <1>2, <1>3, SessionAssumption
     DEF NothingRuns, OnlyMinted, InUse, gateVars, reapVars, JobsKept, Turning, GateType
<1>6. Window'  BY <1>0, <1>2, WindowKept DEF gateVars, reapVars
<1>7. Quiet'  BY <1>0, <1>1, <1>2, <1>3 DEF Quiet, JobsKept
<1>8. Marked' /\ MutationIsIdle'
  BY <1>0, <1>1, <1>3 DEF Marked, MutationIsIdle, gateVars
<1> QED BY <1>2, <1>4, <1>5, <1>6, <1>7, <1>8

LEMMA Exit_IInv == ASSUME IInv, Exit PROVE IInv'
<1> USE DEF IInv
<1>0. /\ phase' = "down" /\ Sessionless' /\ turnSession' = NoSession /\ rotating' = "no"
      /\ clearing' = NoSession /\ reservedFor' = NoSession /\ sessionPath' = NoSession
      /\ reaper' = [s \in Session |-> "none"] /\ targets' = [s \in Session |-> {}]
      /\ JobsDie /\ UNCHANGED <<meta, marker, clearVars, processes, minted>>
  BY DEF Exit, JobsDie, Sessionless
<1>1. /\ JobsInv' /\ JobsKept /\ completed' = {} /\ destroying' = {}
      /\ \A j \in Job : ~ Unfinished(j)' /\ job'[j].status = "none"
  BY <1>0, Die_Inv
<1>2. GateType'  BY <1>0 DEF GateType, Turning, clearVars
<1>3. NothingRuns' /\ OnlyMinted'
  BY <1>0, <1>1 DEF NothingRuns, Turning, OnlyMinted, clearVars
<1>4. InUse'  BY <1>0, SessionAssumption DEF InUse, GateType, clearVars
<1>5. Window'  BY <1>0, <1>1 DEF Window, Destroys
<1>6. Quiet'  BY <1>0, <1>1 DEF Quiet, JobsKept, clearVars
<1>7. Marked' /\ MutationIsIdle'  BY <1>0 DEF Marked, MutationIsIdle, clearVars
<1> QED BY <1>1, <1>2, <1>3, <1>4, <1>5, <1>6, <1>7

-----------------------------------------------------------------------------
LEMMA Init_IInv == ASSUME Init PROVE IInv
<1>1. JobsInv  BY JobsInit_Inv DEF Init
<1>2. /\ \A j \in Job : job[j] = Unused
      /\ destroying = {} /\ completed = {} /\ meta = [j \in Job |-> "none"]
  BY DEF Init, JobsInit
<1>3. \A j \in Job : ~ Unfinished(j) /\ job[j].status = "none"
  BY <1>2 DEF Unused, Blank, Unfinished, Writing
<1>4. GateType /\ NothingRuns /\ OnlyMinted /\ InUse /\ Marked /\ MutationIsIdle
  BY <1>2, <1>3, SessionAssumption, ProcessAssumption
     DEF Init, IdleGate, GateType, Turning, NothingRuns, Sessionless, OnlyMinted, InUse, Marked,
         MutationIsIdle
<1>5. Window /\ Quiet
  BY <1>2, <1>3 DEF Init, IdleGate, Window, Destroys, Quiet
<1> QED BY <1>1, <1>4, <1>5 DEF IInv

LEMMA Next_IInv == ASSUME IInv, [Next]_vars PROVE IInv'
<1>1. CASE Turn
  BY <1>1, Compose_IInv, EndTurn_IInv, KillShell_IInv, StartJob_IInv, CommitRecovered_IInv DEF Turn
<1>2. CASE Rotation
  BY <1>2, Gate_IInv, ClearMark_IInv, ClearDestroy_IInv, ClearRemove_IInv, NewSession_IInv,
     ClearSwap_IInv DEF Rotation
<1>3. CASE \E j \in Job : JobMoves(j)
  BY <1>3, JobMoves_IInv
<1>4. CASE \E s \in Session : Resume(s) \/ ReapTimeout(s) \/ Reap(s)
  BY <1>4, Resume_IInv, ReapTimeout_IInv, Reap_IInv
<1>5. CASE \E ss \in SUBSET Session : Boot(ss)
  BY <1>5, Boot_IInv
<1>6. CASE \E s \in Session : Open(s)
  BY <1>6, Open_IInv
<1>7. CASE Close \/ Exit
  BY <1>7, Close_IInv, Exit_IInv
<1>8. CASE UNCHANGED vars
  <2>1. JobsInv' /\ JobsKept  BY <1>8, JobsSame DEF IInv, vars
  <2>2. GateType' /\ NothingRuns' /\ OnlyMinted' /\ InUse'
    BY <1>8 DEF IInv, vars, jobVars, gateVars, reapVars, clearVars, runVars, GateType, Turning,
       NothingRuns, Sessionless, OnlyMinted, InUse, Unfinished, Writing
  <2>3. Window' /\ Marked' /\ MutationIsIdle'
    BY <1>8, <2>1, WindowKept, MarkedKept, IdleKept
       DEF IInv, vars, jobVars, gateVars, reapVars, clearVars
  <2>4. Quiet'
    BY <1>8 DEF IInv, vars, Quiet, jobVars, clearVars, Unfinished, Writing
  <2> QED BY <2>1, <2>2, <2>3, <2>4 DEF IInv
<1> QED BY <1>1, <1>2, <1>3, <1>4, <1>5, <1>6, <1>7, <1>8 DEF Next

(* IInv is an invariant: what the gate, the jobs, the reapers and the      *)
(* markers are to each other, so that each theorem below follows from it.  *)
THEOREM Invariance == Spec => []IInv
<1>1. Init => IInv  BY Init_IInv
<1>2. IInv /\ [Next]_vars => IInv'  BY Next_IInv
<1> QED BY <1>1, <1>2, PTL DEF Spec

(* Type correctness, and that a turn never runs while the gate is held     *)
(* (runGuarded and beginRotation).                                         *)
THEOREM TypeCorrect == Spec => []TypeOK
<1>1. IInv => TypeOK  BY DEF IInv, JobsInv, GateType, TypeOK
<1> QED BY <1>1, Invariance, PTL

(* What ClearSession removes stays removed: a session cleared while a job  *)
(* of it was unfinished is never visible again, in this or a later process,*)
(* and nothing of a removed session is left that could write its files or  *)
(* report to a turn.                                                       *)
THEOREM ClearedStaysGone == Spec => []ClearedIsGone
<1>1. IInv => BusyIsHidden
  BY DEF IInv, Marked, BusyIsHidden, Visible
<1>2. IInv => RemovedIsQuiet
  BY DEF IInv, Quiet, RemovedIsQuiet, JobsOf, Unfinished
<1>3. IInv => ClearedIsGone  BY <1>1, <1>2 DEF ClearedIsGone
<1> QED BY <1>3, Invariance, PTL

(* BeginRuntimeMutation, once it has succeeded, keeps turns and the jobs of*)
(* the session it looked at away until its release.                        *)
THEOREM MutationStaysIdle == Spec => []MutationIsIdle
<1>1. IInv => MutationIsIdle  BY DEF IInv
<1> QED BY <1>1, Invariance, PTL
-----------------------------------------------------------------------------
(* What turns are told of a job: its ending is on its way to the next turn *)
(* before it is published, and the record on disk, where it was written,   *)
(* says the same as what a turn was told.                                  *)
Heard(j, x) == x \in told[j] \/ [job |-> j, status |-> x] \in completed

Ending(j) ==
    /\ job[j].pc \in {"unused", "gone"} => job[j].status = "none"
    /\ job[j].pc \in {"run", "stored", "noted"} => job[j].status # "done"
    /\ job[j].pc \in {"unused", "run", "stored"} => \A x \in Status : ~ Heard(j, x)
    /\ job[j].pc \in {"noted", "closed"} /\ job[j].status # "none" =>
            (\E x \in Status : Heard(j, x)) \/ job[j].owner \in destroying
    /\ ~ Heard(j, "running")
    /\ j \notin unwritten =>
        /\ job[j].pc = "stored" /\ meta[j] # "none" => meta[j] = job[j].outcome
        /\ \A x \in Status : Heard(j, x) /\ meta[j] # "none" => meta[j] = x
        /\ \A x, y \in Status : Heard(j, x) /\ Heard(j, y) => x = y

Endings == \A j \in Job : Ending(j)

(* A job that does not move, and of which nothing new is told.             *)
Stays(j) ==
    /\ job'[j].pc = job[j].pc /\ job'[j].owner = job[j].owner
    /\ job'[j].outcome = job[j].outcome
    /\ \/ job'[j].status \in {job[j].status, "none"}
       \/ job[j].status = "running" /\ job'[j].status = "killed"
    /\ meta'[j] \in {meta[j], "none"} /\ unwritten' = unwritten
    /\ \A x \in Status : Heard(j, x)' => Heard(j, x)
    /\ (\A x \in Status : Heard(j, x) => Heard(j, x)') \/ job[j].owner \in destroying'
    /\ job[j].owner \in destroying => job[j].owner \in destroying' \/ job'[j].status = "none"

LEMMA StaysEnding == ASSUME NEW j \in Job, Ending(j), Stays(j) PROVE Ending(j)'
<1> HIDE DEF Heard
<1>1. \A x \in Status : Heard(j, x)' => Heard(j, x)  BY DEF Stays
<1>2. "running" \in Status  BY DEF Status
<1>3. /\ job'[j].pc \in {"unused", "gone"} => job'[j].status = "none"
      /\ job'[j].pc \in {"run", "stored", "noted"} => job'[j].status # "done"
  BY DEF Stays, Ending
<1>4. job'[j].pc \in {"unused", "run", "stored"} => \A x \in Status : ~ Heard(j, x)'
  BY <1>1 DEF Stays, Ending
<1>5. job'[j].pc \in {"noted", "closed"} /\ job'[j].status # "none" =>
            (\E x \in Status : Heard(j, x)') \/ job'[j].owner \in destroying'
  BY DEF Stays, Ending
<1>6. ~ Heard(j, "running")'  BY <1>1, <1>2 DEF Ending
<1>7. j \notin unwritten' =>
        /\ job'[j].pc = "stored" /\ meta'[j] # "none" => meta'[j] = job'[j].outcome
        /\ \A x \in Status : Heard(j, x)' /\ meta'[j] # "none" => meta'[j] = x
        /\ \A x, y \in Status : Heard(j, x)' /\ Heard(j, y)' => x = y
  BY <1>1 DEF Stays, Ending
<1> QED BY <1>3, <1>4, <1>5, <1>6, <1>7 DEF Ending

LEMMA AllStay == ASSUME Endings, \A j \in Job : Stays(j) PROVE Endings'
BY StaysEnding DEF Endings

(* One job moves.                                                          *)
LEMMA OneMoves ==
  ASSUME Endings, NEW i \in Job, Ending(i)', \A j \in Job \ {i} : Stays(j)
  PROVE  Endings'
<1>1. \A j \in Job \ {i} : Ending(j)'  BY StaysEnding DEF Endings
<1> QED BY <1>1 DEF Endings

LEMMA Start_Endings ==
  ASSUME JobsInv, Endings, NEW s, NEW j \in Job, NEW root, StartForSession(s, j, root)
  PROVE  Endings'
<1>1. /\ job' = [job EXCEPT ![j] = [owner |-> s, pc |-> "run", status |-> "running",
                                    outcome |-> "none", canceled |-> root]]
      /\ job[j].pc = "unused"
  BY DEF StartForSession, Blank, Unused
<1>2. \A i \in Job : \A x \in Status : Heard(i, x)' <=> Heard(i, x)
  BY DEF StartForSession, Heard
<1>3. job'[j].pc = "run" /\ job'[j].status = "running"  BY <1>1 DEF JobsInv
<1>4. \A x \in Status : ~ Heard(j, x)'  BY <1>1, <1>2 DEF Endings, Ending
<1>5. Ending(j)'  BY <1>3, <1>4 DEF Ending, Status
<1>6. ASSUME NEW i \in Job \ {j} PROVE Stays(i)
  <2>1. job'[i] = job[i] /\ meta'[i] = meta[i]
    BY <1>1 DEF StartForSession, JobsInv
  <2> QED BY <1>2, <2>1 DEF StartForSession, Stays
<1> QED BY <1>5, <1>6, OneMoves

LEMMA Return_Endings ==
  ASSUME JobsInv, Endings, NEW j \in Job, Return(j)
  PROVE  Endings'
<1>1. PICK st \in {"killed", "done"} :
        /\ job' = [job EXCEPT ![j].pc = "stored", ![j].outcome = st]
        /\ \/ meta' = [meta EXCEPT ![j] = st] /\ UNCHANGED unwritten
           \/ /\ unwritten' = IF meta[j] = "none" THEN unwritten ELSE unwritten \cup {j}
              /\ UNCHANGED meta
  BY DEF Return
<1>2. \A i \in Job : \A x \in Status : Heard(i, x)' <=> Heard(i, x)
  BY DEF Return, Heard
<1>t. job[j] \in JobRecord  BY DEF JobsInv
<1>3. job'[j].pc = "stored" /\ job'[j].outcome = st /\ job'[j].status = job[j].status
  BY <1>1, <1>t DEF JobsInv, JobRecord
<1>4. \A x \in Status : ~ Heard(j, x)'  BY <1>2 DEF Return, Endings, Ending
<1>7. job[j].status # "done"  BY DEF Return, Endings, Ending
<1>8. j \notin unwritten' => meta'[j] \in {"none", st}
  BY <1>1 DEF JobsInv
<1>5. Ending(j)'  BY <1>3, <1>4, <1>7, <1>8 DEF Ending, Status
<1>6. ASSUME NEW i \in Job \ {j} PROVE Ending(i)'
  <2>1. job'[i] = job[i] /\ meta'[i] = meta[i] /\ (i \in unwritten' <=> i \in unwritten)
    BY <1>1 DEF JobsInv
  <2>2. Ending(i) /\ destroying' = destroying  BY DEF Endings, Return
  <2> HIDE DEF Heard
  <2> QED BY <1>2, <2>1, <2>2 DEF Ending, Status
<1> QED BY <1>5, <1>6 DEF Endings

LEMMA Record_Endings ==
  ASSUME JobsInv, Endings, NEW j \in Job, RecordCompletion(j)
  PROVE  Endings'
<1>t. job[j] \in JobRecord /\ job[j].pc = "stored" /\ job[j].outcome \in {"done", "killed"}
  BY DEF JobsInv, RecordCompletion, JobRecord, OutcomeDecided
<1>1. /\ job'[j].pc = "noted" /\ job'[j].status = job[j].status /\ job'[j].owner = job[j].owner
      /\ \A i \in Job \ {j} : job'[i] = job[i]
  BY <1>t DEF RecordCompletion, JobsInv, JobRecord
<1>2. \A i \in Job \ {j} : \A x \in Status : Heard(i, x)' <=> Heard(i, x)
  BY DEF RecordCompletion, Heard
<1>3. \A x \in Status : Heard(j, x)' =>
          x = job[j].outcome /\ job[j].owner \notin destroying
  <2>1. \A x \in Status : ~ Heard(j, x)  BY <1>t DEF Endings, Ending
  <2> QED BY <2>1 DEF RecordCompletion, Heard
<1>4. \A x \in Status : job[j].owner \notin destroying /\ x = job[j].outcome => Heard(j, x)'
  BY DEF RecordCompletion, Heard
<1>o. job[j].outcome \in Status /\ "running" \in Status  BY <1>t DEF Status
<1>5. Ending(j)'
  <2>1. Ending(j) /\ UNCHANGED <<meta, unwritten, destroying>>  BY DEF Endings, RecordCompletion
  <2>2. ~ Heard(j, "running")'  BY <1>3, <1>t, <1>o
  <2>3. (\E x \in Status : Heard(j, x)') \/ job'[j].owner \in destroying'
    BY <1>4, <1>o, <1>1, <2>1
  <2>4. j \notin unwritten' =>
          /\ \A x \in Status : Heard(j, x)' /\ meta'[j] # "none" => meta'[j] = x
          /\ \A x, y \in Status : Heard(j, x)' /\ Heard(j, y)' => x = y
    BY <1>3, <1>t, <2>1 DEF Ending
  <2>5. job'[j].status # "done"  BY <1>1, <1>t, <2>1 DEF Ending
  <2> QED BY <1>1, <2>2, <2>3, <2>4, <2>5 DEF Ending
<1>6. \A i \in Job \ {j} : Stays(i)
  BY <1>1, <1>2 DEF RecordCompletion, Stays
<1> QED BY <1>5, <1>6, OneMoves

LEMMA Publish_Endings ==
  ASSUME JobsInv, Endings, NEW j \in Job, Publish(j)
  PROVE  Endings'
<1>1. /\ job'[j].pc = "closed" /\ job'[j].owner = job[j].owner
      /\ \A i \in Job \ {j} : job'[i] = job[i]
  BY DEF Publish, Blank, JobsInv
<1>2. \A i \in Job : \A x \in Status : Heard(i, x)' <=> Heard(i, x)
  BY DEF Publish, Heard
<1>3. job[j].pc = "noted" /\ job[j].status # "none" /\ UNCHANGED <<meta, unwritten, destroying>>
  BY DEF Publish, JobsInv, UnfinishedIsTarget, Unfinished
<1>5. Ending(j)'
  <2>1. Ending(j)  BY DEF Endings
  <2> HIDE DEF Heard
  <2> QED BY <1>1, <1>2, <1>3, <2>1 DEF Ending, Status
<1>6. \A i \in Job \ {j} : Stays(i)
  BY <1>1, <1>2, <1>3 DEF Stays
<1> QED BY <1>5, <1>6, OneMoves

LEMMA JobStep_Endings ==
  ASSUME JobsInv, Endings, NEW j \in Job, JobStep(j)
  PROVE  Endings'
BY Return_Endings, Record_Endings, Publish_Endings DEF JobStep

LEMMA Killing_Stays ==
  ASSUME JobsInv, NEW js \in SUBSET Job, job' = Killing(js), \A i \in js : job[i].status = "running",
         NEW j \in Job, UNCHANGED <<meta, unwritten>>,
         \A x \in Status : Heard(j, x)' => Heard(j, x),
         (\A x \in Status : Heard(j, x) => Heard(j, x)') \/ job[j].owner \in destroying',
         destroying \subseteq destroying'
  PROVE  Stays(j)
<1>1. job[j] \in JobRecord  BY DEF JobsInv
<1>2. /\ job'[j].pc = job[j].pc /\ job'[j].owner = job[j].owner
      /\ job'[j].outcome = job[j].outcome
      /\ \/ job'[j].status = job[j].status
         \/ job[j].status = "running" /\ job'[j].status = "killed"
  BY <1>1 DEF Killing, JobRecord
<1> HIDE DEF Heard
<1> QED BY <1>2 DEF Stays

LEMMA Kill_Endings ==
  ASSUME JobsInv, Endings, NEW s, NEW i \in Job, KillForSession(s, i)
  PROVE  Endings'
<1>1. job' = Killing({i}) /\ {i} \in SUBSET Job /\ job[i].status = "running"
      /\ UNCHANGED <<meta, unwritten, completed, destroying, told>>
  BY DEF KillForSession, Running
<1>2. \A j \in Job : Stays(j)  BY <1>1, Killing_Stays DEF Heard
<1> QED BY <1>2, AllStay

LEMMA Close_Endings ==
  ASSUME JobsInv, Endings, CancelRoot \/ CloseTargets
  PROVE  Endings'
<1>1. CASE CloseTargets
  <2>1. \A j \in Job : Stays(j)  BY <1>1, Killing_Stays DEF Heard, CloseTargets
  <2> QED BY <2>1, AllStay
<1>2. CASE CancelRoot
  <2>1. ASSUME NEW j \in Job PROVE Stays(j)
    <3>1. job[j] \in JobRecord  BY DEF JobsInv
    <3>2. /\ job'[j].pc = job[j].pc /\ job'[j].owner = job[j].owner
          /\ job'[j].outcome = job[j].outcome /\ job'[j].status = job[j].status
      BY <1>2, <3>1 DEF CancelRoot, JobRecord
    <3> QED BY <1>2, <3>2 DEF Stays, CancelRoot, Heard
  <2> QED BY <2>1, AllStay
<1> QED BY <1>1, <1>2

LEMMA BeginDestroy_Endings ==
  ASSUME JobsInv, Endings, NEW s \in Session, BeginDestroy(s)
  PROVE  Endings'
<1>1. job' = Killing(Running(s)) /\ Running(s) \in SUBSET Job
      /\ destroying' = destroying \cup {s} /\ UNCHANGED <<meta, unwritten, told>>
      /\ \A i \in Running(s) : job[i].status = "running"
  BY DEF BeginDestroy, Running, JobsOf
<1>2. \A j \in Job : \A x \in Status : Heard(j, x)' => Heard(j, x)
  BY DEF BeginDestroy, Heard
<1>3. \A j \in Job : job[j].owner # s => \A x \in Status : Heard(j, x) => Heard(j, x)'
  BY DEF BeginDestroy, Heard, NotesOf
<1>4. \A j \in Job : Stays(j)
  BY <1>1, <1>2, <1>3, Killing_Stays
<1> QED BY <1>4, AllStay

LEMMA Drain_Endings ==
  ASSUME JobsInv, Endings, NEW s, DrainCompleted(s)
  PROVE  Endings'
<1>1. \A j \in Job : \A x \in Status : Heard(j, x)' <=> Heard(j, x)
  <2> SUFFICES ASSUME NEW j \in Job, NEW x \in Status PROVE Heard(j, x)' <=> Heard(j, x)
    OBVIOUS
  <2> DEFINE n == [job |-> j, status |-> x]
  <2>1. told'[j] = told[j] \cup {m.status : m \in {k \in NotesOf(s) : k.job = j}}
    BY DEF DrainCompleted
  <2>2. \A k \in completed : k.job = j /\ k.status = x => k = n
    BY DEF JobsInv
  <2>3. x \in told'[j] <=> x \in told[j] \/ n \in NotesOf(s)
    BY <2>1, <2>2 DEF NotesOf
  <2>4. n \in completed' <=> n \in completed /\ n \notin NotesOf(s)
    BY DEF DrainCompleted
  <2>5. n \in NotesOf(s) => n \in completed  BY DEF NotesOf
  <2> QED BY <2>3, <2>4, <2>5 DEF Heard
<1>2. \A j \in Job : Stays(j)
  BY <1>1 DEF Stays, DrainCompleted
<1> QED BY <1>2, AllStay

(* The record that is loaded says what a turn was told before, if it was   *)
(* written; one that still says "running" was told to nobody.              *)
LEMMA SetActive_Endings ==
  ASSUME JobsInv, Endings, NEW s, SetActiveSession(s)
  PROVE  Endings'
<1> SUFFICES ASSUME NEW j \in Job PROVE Ending(j)'
  BY DEF Endings
<1>e. Ending(j) /\ UNCHANGED <<unwritten, destroying, told>>  BY DEF Endings, SetActiveSession
<1>t. job[j] \in JobRecord /\ meta[j] \in Status \cup {"none"}  BY DEF JobsInv
<1>1. meta'[j] \in {meta[j], LoadedStatus(j)}  BY DEF SetActiveSession
<1>2. LoadedStatus(j) = meta[j] \/ (meta[j] = "running" /\ LoadedStatus(j) = "interrupted")
  BY DEF LoadedStatus
<1>3. CASE j \in Absent(s)
  <2>1. job'[j].pc = "tombstone"  BY <1>3, <1>t DEF SetActiveSession, JobRecord
  <2>2. meta'[j] = LoadedStatus(j) /\ meta[j] # "none"
    BY <1>3 DEF SetActiveSession, Absent
  <2>3. \A x \in Status : Heard(j, x)' => Heard(j, x) \/ (x = "interrupted" /\ LoadedStatus(j) = x)
    BY DEF SetActiveSession, Heard
  <2>4. ~ Heard(j, "running") /\ "running" \in Status  BY <1>e DEF Ending, Status
  <2>5. j \notin unwritten => \A x \in Status : Heard(j, x)' => x = LoadedStatus(j)
    BY <1>e, <1>2, <2>2, <2>3, <2>4 DEF Ending
  <2>6. ~ Heard(j, "running")'  BY <2>3, <2>4
  <2> HIDE DEF Heard
  <2> QED BY <1>e, <2>1, <2>2, <2>5, <2>6 DEF Ending
<1>4. CASE j \notin Absent(s)
  <2>1. job'[j] = job[j]  BY <1>4 DEF SetActiveSession
  <2>2. \A x \in Status : Heard(j, x)' <=> Heard(j, x)
    BY <1>4 DEF SetActiveSession, Heard
  <2>3. ~ Heard(j, "running") /\ "running" \in Status  BY <1>e DEF Ending, Status
  <2>4. job[j].pc = "stored" => job[j].outcome # "running"  BY <1>t DEF JobRecord
  <2>5. j \notin unwritten =>
          /\ job[j].pc = "stored" /\ meta'[j] # "none" => meta'[j] = job[j].outcome
          /\ \A x \in Status : Heard(j, x) /\ meta'[j] # "none" => meta'[j] = x
    BY <1>e, <1>1, <1>2, <2>3, <2>4 DEF Ending
  <2> HIDE DEF Heard
  <2> QED BY <1>e, <2>1, <2>2, <2>3, <2>5 DEF Ending
<1> QED BY <1>3, <1>4

LEMMA Die_Endings ==
  ASSUME JobsInv, Endings, JobsDie
  PROVE  Endings'
<1> SUFFICES ASSUME NEW j \in Job PROVE Ending(j)'
  BY DEF Endings
<1>e. Ending(j) /\ UNCHANGED <<meta, unwritten, told>>  BY DEF Endings, JobsDie
<1>1. \A x \in Status : Heard(j, x)' => Heard(j, x)  BY DEF JobsDie, Heard
<1>r. "running" \in Status  BY DEF Status
<1>2. \/ job'[j].pc = "unused" /\ job'[j].status = "none" /\ job[j].pc = "unused"
      \/ job'[j].pc = "gone" /\ job'[j].status = "none"
  BY DEF JobsDie, Blank, Unused
<1> HIDE DEF Heard
<1> QED BY <1>e, <1>1, <1>2, <1>r DEF Ending

(* The files go with the session, or only its jobs are forgotten.          *)
LEMMA Finish_Endings ==
  ASSUME JobsInv, Endings, NEW s, FinishDestroy(s),
         (\E ss : RemoveFiles(ss)) \/ UNCHANGED meta
  PROVE  Endings'
<1>1. ASSUME NEW j \in Job PROVE Stays(j)
  <2>1. job[j] \in JobRecord /\ meta'[j] \in {meta[j], "none"}
    BY DEF JobsInv, RemoveFiles
  <2>2. /\ job'[j].pc = job[j].pc /\ job'[j].owner = job[j].owner
        /\ job'[j].outcome = job[j].outcome
        /\ job'[j].status \in {job[j].status, "none"}
        /\ job[j].owner = s => job'[j].status = "none"
    BY <2>1 DEF FinishDestroy, Purged, JobsOf, JobRecord
  <2> QED BY <2>1, <2>2 DEF Stays, FinishDestroy, Heard
<1> QED BY <1>1, AllStay

LEMMA Boot_Endings ==
  ASSUME JobsInv, Endings, NEW ss, Boot(ss)
  PROVE  Endings'
<1>1. \A j \in Job : Stays(j)
  BY DEF Boot, RemoveFiles, Stays, Heard
<1> QED BY <1>1, AllStay

LEMMA Same_Endings == ASSUME Endings, UNCHANGED jobVars PROVE Endings'
BY DEF Endings, Ending, Heard, jobVars

LEMMA Next_Endings == ASSUME IInv, Endings, [Next]_vars PROVE Endings'
<1>0. JobsInv  BY DEF IInv
<1>1. CASE Turn
  BY <1>0, <1>1, Same_Endings, Drain_Endings, Kill_Endings, Start_Endings, SetActive_Endings
     DEF Turn, Compose, EndTurn, KillShell, StartJob, CommitRecovered
<1>2. CASE ClaimGate \/ Reserve \/ Release \/ ClearMark
  BY <1>2, Same_Endings DEF ClaimGate, Reserve, Release, ClearMark
<1>3. CASE ClearDestroy
  <2>1. clearing \in Session
    BY <1>3 DEF IInv, ClearDestroy, OnlyMinted, GateType
  <2> QED BY <1>0, <1>3, <2>1, BeginDestroy_Endings DEF ClearDestroy
<1>4. CASE ClearRemove
  BY <1>0, <1>4, Finish_Endings DEF ClearRemove
<1>5. CASE \E s \in Session : NewSession(s) \/ ClearSwap(s) \/ Resume(s) \/ Open(s)
  BY <1>0, <1>5, SetActive_Endings DEF NewSession, ClearSwap, Resume, Open
<1>6. CASE \E j \in Job : JobMoves(j)
  BY <1>0, <1>6, JobStep_Endings DEF JobMoves
<1>7. CASE \E s \in Session : ReapTimeout(s)
  BY <1>7, Same_Endings DEF ReapTimeout
<1>8. CASE \E s \in Session : Reap(s)
  BY <1>0, <1>8, Finish_Endings DEF Reap
<1>9. CASE \E ss \in SUBSET Session : Boot(ss)
  BY <1>0, <1>9, Boot_Endings
<1>10. CASE Close
  BY <1>0, <1>10, Close_Endings DEF Close
<1>11. CASE Exit
  BY <1>0, <1>11, Die_Endings DEF Exit
<1>12. CASE UNCHANGED vars
  BY <1>12, Same_Endings DEF vars
<1> QED
  BY <1>1, <1>2, <1>3, <1>4, <1>5, <1>6, <1>7, <1>8, <1>9, <1>10, <1>11, <1>12
     DEF Next, Rotation

LEMMA Init_Endings == Init => Endings
BY DEF Init, JobsInit, Endings, Ending, Heard, Unused, Blank, Status

(* Whoever sees a job finished finds that its ending is told or on its way *)
(* to the next turn, and no turn of any process is told two endings of a   *)
(* job whose final record was written (recordCompletion before the status  *)
(* is published; loadSessionArtifacts after a restart).                    *)
THEOREM EndingsAreTold == Spec => []CompletionsTold
<1>1. Init => Endings  BY Init_Endings
<1>2. IInv /\ Endings /\ [Next]_vars => Endings'  BY Next_Endings
<1>3. IInv /\ Endings => CompletionsTold
  <2> SUFFICES ASSUME IInv, Endings, NEW j \in Job
               PROVE  /\ /\ job[j].status = "done" \/ (job[j].pc = "closed" /\ job[j].status # "none")
                         /\ job[j].pc # "tombstone"
                         => NotedAs(j) # {} \/ job[j].owner \in destroying
                      /\ j \notin unwritten => Cardinality(NotedAs(j)) <= 1
    BY DEF CompletionsTold
  <2>1. Ending(j) /\ JobsInv  BY DEF Endings, IInv
  <2>2. NotedAs(j) \subseteq Status /\ \A x \in Status : x \in NotedAs(j) <=> Heard(j, x)
    <3>1. told[j] \subseteq Status  BY <2>1 DEF JobsInv
    <3>2. \A n \in completed : n.status \in Status /\ n = [job |-> n.job, status |-> n.status]
      BY <2>1 DEF JobsInv
    <3> QED BY <3>1, <3>2 DEF NotedAs, Heard
  <2>3. ASSUME /\ job[j].status = "done" \/ (job[j].pc = "closed" /\ job[j].status # "none")
               /\ job[j].pc # "tombstone"
        PROVE  NotedAs(j) # {} \/ job[j].owner \in destroying
    <3>1. job[j].pc \in Pc  BY <2>1 DEF JobsInv, JobRecord
    <3>2. job[j].pc = "closed" /\ job[j].status # "none"
      BY <2>1, <2>3, <3>1 DEF Ending, Pc
    <3> QED BY <2>1, <2>2, <3>2 DEF Ending
  <2>4. ASSUME j \notin unwritten PROVE Cardinality(NotedAs(j)) <= 1
    <3>1. \A x, y \in NotedAs(j) : x = y  BY <2>1, <2>2, <2>4 DEF Ending
    <3>2. CASE NotedAs(j) = {}  BY <3>2, FS_EmptySet
    <3>3. CASE \E x : NotedAs(j) = {x}  
      <4>1. PICK x : NotedAs(j) = {x}  BY <3>3
      <4>2. Cardinality({x}) = 1  BY FS_Singleton
      <4> QED BY <4>1, <4>2
    <3> QED BY <3>1, <3>2, <3>3
  <2> QED BY <2>3, <2>4
<1> QED BY <1>1, <1>2, <1>3, Invariance, PTL DEF Spec
===============================================================================
