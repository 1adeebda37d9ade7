---------------------------------- MODULE Jobs ----------------------------------
(***************************************************************************)
(* The registry of background jobs, Manager of src/internal/jobs/jobs.go.  *)
(*                                                                         *)
(* A job belongs to a session and outlives the turn that starts it.  Its   *)
(* goroutine runs, writes the final record of the job beside the transcript*)
(* of its session, queues a completion for the next turn, publishes the    *)
(* status and closes done.  Meanwhile it can be killed, its session        *)
(* destroyed, the manager closed, and the process may die: a record that   *)
(* still says "running" is then loaded as an interrupted job.              *)
(*                                                                         *)
(* Output, labels, the stalled warning and the move of artifacts from the  *)
(* temporary directory of a session without a file are left out: a session *)
(* here has its file from the start.  This module has the operations of the*)
(* manager, each under its lock m.mu; SessionJobs has the controller that  *)
(* calls them.                                                             *)
(***************************************************************************)
EXTENDS Naturals, FiniteSets

CONSTANTS
    Session, NoSession,
    Job,
    Recoverable         \* the jobs started by StartRecoverableForSession

ASSUME SessionAssumption == NoSession \notin Session /\ Recoverable \subseteq Job

VARIABLES
    job,            \* job[j]: the Job of this process, and its goroutine
    meta,           \* meta[j]: the status in the record of j on disk
    unwritten,      \* jobs whose record is out of date: its end could not be written
    completed,      \* m.completed: what the next turns are to be told
    destroying,     \* m.destroying
    loaded,         \* m.loaded: sessions whose records were read
    told            \* told[j]: what turns were told of j so far

jobVars == <<job, meta, unwritten, completed, destroying, loaded, told>>

Blank(s, pc, st, canceled) == [owner |-> s, pc |-> pc, status |-> st,
                               outcome |-> "none", canceled |-> canceled]
Unused == Blank(NoSession, "unused", "none", FALSE)

(* The goroutine of j still has something to write, or has not closed done.*)
Writing(j) == job[j].pc \in {"run", "stored"}
Unfinished(j) == Writing(j) \/ job[j].pc = "noted"

JobsOf(s) == {j \in Job : job[j].owner = s}
Known(s) == {j \in JobsOf(s) : job[j].status # "none"}
Running(s) == {j \in JobsOf(s) : job[j].status = "running"}
HasUnfinished(s) == \E j \in Known(s) : Unfinished(j)

JobsInit == /\ job = [j \in Job |-> Unused]
            /\ meta = [j \in Job |-> "none"]
            /\ unwritten = {} /\ completed = {} /\ destroying = {} /\ loaded = {}
            /\ told = [j \in Job |-> {}]

-----------------------------------------------------------------------------
(* A recoverable task is recorded as running before it starts.  root says  *)
(* whether the context of the manager is canceled already.                 *)
StartForSession(s, j, root) ==
    /\ job[j] = Unused
    /\ job' = [job EXCEPT ![j] = Blank(s, "run", "running", root)]
    /\ meta' = IF j \in Recoverable THEN [meta EXCEPT ![j] = "running"] ELSE meta
    /\ UNCHANGED <<unwritten, completed, destroying, loaded, told>>

(* The function of the job returns, its outcome is decided and its final   *)
(* record is written, if that succeeds.  Done and Failed are one status    *)
(* here, "done".                                                           *)
Return(j) ==
    /\ job[j].pc = "run"
    /\ \E st \in IF job[j].canceled THEN {"killed"} ELSE {"done"} :
        /\ job' = [job EXCEPT ![j].pc = "stored", ![j].outcome = st]
        /\ \/ meta' = [meta EXCEPT ![j] = st] /\ UNCHANGED unwritten
           \/ /\ unwritten' = IF meta[j] = "none" THEN unwritten ELSE unwritten \cup {j}
              /\ UNCHANGED meta
    /\ UNCHANGED <<completed, destroying, loaded, told>>

RecordCompletion(j) ==
    /\ job[j].pc = "stored"
    /\ job' = [job EXCEPT ![j].pc = "noted"]
    /\ completed' = IF job[j].owner \in destroying THEN completed
                    ELSE completed \cup {[job |-> j, status |-> job[j].outcome]}
    /\ UNCHANGED <<meta, unwritten, destroying, loaded, told>>

(* Mutant of Publish: the status is published before the completion is     *)
(* queued.                                                                 *)
PublishMutant(j) ==
    /\ job[j].pc \in {"stored", "noted"}
    /\ job' = [job EXCEPT ![j].pc = "closed", ![j].status = IF @ = "running" THEN "done" ELSE @]
    /\ UNCHANGED <<meta, unwritten, completed, destroying, loaded, told>>

(* The status is published and done closed, and the goroutine ends.  A     *)
(* status Killed that somebody has set meanwhile is kept; a job that was   *)
(* purged is published to nobody.                                          *)
Publish(j) ==
    /\ job[j].pc = "noted"
    /\ LET st == IF job[j].status = "running" THEN job[j].outcome ELSE job[j].status
       IN  job' = [job EXCEPT ![j] = Blank(job[j].owner, "closed", st, FALSE)]
    /\ UNCHANGED <<meta, unwritten, completed, destroying, loaded, told>>

JobStep(j) == Return(j) \/ RecordCompletion(j) \/ Publish(j)

-----------------------------------------------------------------------------
Killing(js) == [j \in Job |-> IF j \in js
                              THEN [job[j] EXCEPT !.status = "killed", !.canceled = TRUE]
                              ELSE job[j]]

KillForSession(s, j) ==
    /\ j \in Running(s)
    /\ job' = Killing({j})
    /\ UNCHANGED <<meta, unwritten, completed, destroying, loaded, told>>

NotesOf(s) == {n \in completed : job[n.job].owner = s}

DrainCompleted(s) ==
    /\ told' = [j \in Job |-> told[j] \cup {n.status : n \in {m \in NotesOf(s) : m.job = j}}]
    /\ completed' = completed \ NotesOf(s)
    /\ UNCHANGED <<job, meta, unwritten, destroying, loaded>>

(* Mutant of TeardownTargets: a job killed before is not waited for.       *)
TeardownTargetsMutant(s) == Running(s)

(* The jobs a destroyed session waits for: those it kills, and those killed*)
(* before, even when they have ended.                                      *)
TeardownTargets(s) == {j \in JobsOf(s) : job[j].status \in {"running", "killed"}}

BeginDestroy(s) ==
    /\ destroying' = destroying \cup {s}
    /\ completed' = completed \ NotesOf(s)
    /\ job' = Killing(Running(s))
    /\ UNCHANGED <<meta, unwritten, loaded, told>>

(* FinishDestroySession with purgeSessionLocked.                           *)
Purged(s) == [j \in Job |-> IF j \in JobsOf(s) THEN [job[j] EXCEPT !.status = "none"]
                                               ELSE job[j]]

(* loadSessionArtifacts, once per session: every record becomes a job that *)
(* has ended, and one that says "running" an interrupted one, also on disk.*)
(* It is an operator on the table, to follow Purged in one step.           *)
Absent(s) == IF s \in loaded THEN {}
             ELSE {j \in JobsOf(s) : meta[j] # "none" /\ job[j].status = "none"}
LoadedStatus(j) == IF meta[j] = "running" THEN "interrupted" ELSE meta[j]

SetActiveSession(s) ==
    /\ loaded' = loaded \cup {s}
    /\ job' = [j \in Job |-> IF j \in Absent(s)
                             THEN [job[j] EXCEPT !.pc = "tombstone", !.status = LoadedStatus(j)]
                             ELSE job[j]]
    /\ meta' = [j \in Job |-> IF s \notin loaded /\ j \in JobsOf(s) THEN LoadedStatus(j)
                                                                    ELSE meta[j]]
    /\ completed' = completed \cup
            {[job |-> j, status |-> "interrupted"] :
                j \in {i \in Absent(s) : LoadedStatus(i) = "interrupted"}}
    /\ UNCHANGED <<unwritten, destroying, told>>

(* CloseWithGrace cancels the root context first, and then turns the jobs  *)
(* that have not closed done into killed ones.                             *)
CancelRoot ==
    /\ job' = [j \in Job |-> IF job[j].pc = "run" THEN [job[j] EXCEPT !.canceled = TRUE]
                                                  ELSE job[j]]
    /\ UNCHANGED <<meta, unwritten, completed, destroying, loaded, told>>

CloseTargets ==
    /\ job' = Killing({j \in Job : job[j].status = "running"})
    /\ UNCHANGED <<meta, unwritten, completed, destroying, loaded, told>>

(* The process is gone, and with it everything but the records on disk.    *)
JobsDie ==
    /\ job' = [j \in Job |-> IF job[j] = Unused THEN Unused
                             ELSE Blank(job[j].owner, "gone", "none", FALSE)]
    /\ completed' = {} /\ destroying' = {} /\ loaded' = {}
    /\ UNCHANGED <<meta, unwritten, told>>
===============================================================================
