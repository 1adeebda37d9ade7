--------------------------------- MODULE Rewind ---------------------------------
(***************************************************************************)
(* Turns that are whole or undone, and rewinds that are finished once they *)
(* are begun (src/internal/control: turn_orchestrator.go, controller.go and*)
(* checkpoint.go, over the markers of src/internal/agent/branch.go).       *)
(*                                                                         *)
(* A turn changes files and adds to the conversation; the process may die, *)
(* and a write may fail, between any two of its steps.  A marker tells a   *)
(* later process of the turn that was running, and after it was saved also *)
(* what was to be found; a journal tells of a rewind.  Before anything else*)
(* a resumed session, a turn and a rewind go through both.                 *)
(*                                                                         *)
(* One runtime and one session; a conversation is a sequence of prompts and*)
(* answers, and an anchor is the conversation it is computed from.  The    *)
(* goal, plan and todo state, synthetic turns, forks and summaries are left*)
(* out.                                                                    *)
(***************************************************************************)
EXTENDS CheckpointStore, SequencesExt

CONSTANTS
    MaxRewind,          \* bound: rewinds asked for
    MaxFault            \* bound: deaths of the process and failed writes

ASSUME BoundAssumption == MaxRewind \in Nat /\ MaxFault \in Nat

VARIABLES
    text, saved,        \* the conversation, in memory and in its file
    runtime,            \* the anchor in the runtime sidecar
    marker,             \* InFlightTurn of the session's meta
    journal,            \* Rewind of the session's meta
    pc, op,             \* what the controller does, and for what
    rewinds, faults,    \* counters for the bounds
    start,              \* start[t, f]: what f held when turn t began, while only
                        \* turns whose records remain have changed it since
    retired,            \* turns retired so far
    wrote               \* files the last turn has written

convVars == <<text, saved, runtime>>
metaVars == <<marker, journal>>
ghostVars == <<start, retired, wrote>>
bounds == <<rewinds, faults>>
vars == <<storeVars, convVars, metaVars, pc, op, bounds, ghostVars>>

Prompt(t) == <<t, "prompt">>
Answer(t) == <<t, "answer">>

NoMarker == [turn |-> NoTurn, commit |-> <<>>]
NoJournal == [turn |-> NoTurn, text |-> <<>>, code |-> FALSE, phase |-> "none"]

(* What the controller was asked for, and the restore it is in.            *)
Open == [kind |-> "open", turn |-> NoTurn, code |-> FALSE, conversation |-> FALSE]
Idle == [request |-> Open, turn |-> NoTurn, todo |-> {}, before |-> <<>>, doomed |-> {}]

Init == /\ StoreInit
        /\ text = <<>> /\ saved = <<>> /\ runtime = <<>>
        /\ marker = NoMarker /\ journal = NoJournal
        /\ pc = "down" /\ op = Idle
        /\ rewinds = 0 /\ faults = 0
        /\ start = <<>> /\ retired = {} /\ wrote = {}

Go(p) == pc' = p /\ op' = op
Rest == pc' = "idle" /\ op' = Idle

(* What the controller goes on with: it recovers a turn, then a rewind, and*)
(* then does what it was asked for.                                        *)
Doing == [open |-> "idle", turn |-> "allocate", compact |-> "compact", rewind |-> "preflight"]

Enter(interrupted, pending, request) ==
    /\ pc' = IF interrupted THEN "recover" ELSE IF pending THEN "publish" ELSE Doing[request.kind]
    /\ op' = IF pc' = "idle" THEN Idle ELSE [Idle EXCEPT !.request = request]

Interrupted == marker # NoMarker
Pending == journal # NoJournal

(* RestoreCode looks at the files first, and puts them back if it fails.   *)
BeginRestoreMutant(p, t) ==
    /\ pc' = p
    /\ op' = [op EXCEPT !.turn = t, !.todo = {f \in File : t \in ChangedBy(f)}, !.before = file]

BeginRestore(p, t) ==
    /\ pc' = p
    /\ op' = [op EXCEPT !.turn = t, !.todo = ChangedFrom(t), !.before = file]

-----------------------------------------------------------------------------
(* Resume, with what is on the disk.                                       *)
Resume == /\ pc = "down"
          /\ Load
          /\ text' = saved
          /\ Enter(Interrupted, Pending, Open)
          /\ UNCHANGED <<saved, runtime, metaVars, bounds, ghostVars>>

Crash == /\ pc # "down" /\ faults < MaxFault
         /\ faults' = faults + 1
         /\ pc' = "down" /\ op' = Idle
         /\ text' = <<>> /\ live' = {} /\ cur' = NoTurn
         /\ UNCHANGED <<file, diskVars, saved, runtime, metaVars, rewinds, ghostVars>>

AskTurn == /\ pc = "idle" /\ manifest.next < MaxTurn
           /\ Enter(Interrupted, Pending, [Open EXCEPT !.kind = "turn"])
           /\ UNCHANGED <<storeVars, convVars, metaVars, bounds, ghostVars>>

AskCompact == /\ pc = "idle" /\ Len(text) > 1
              /\ Enter(Interrupted, Pending, [Open EXCEPT !.kind = "compact"])
              /\ UNCHANGED <<storeVars, convVars, metaVars, bounds, ghostVars>>

AskRewind(t, code, conversation) ==
    /\ pc = "idle" /\ rewinds < MaxRewind /\ t < manifest.next
    /\ code \/ conversation
    /\ rewinds' = rewinds + 1
    /\ Enter(Interrupted, Pending, [kind |-> "rewind", turn |-> t, code |-> code,
                                    conversation |-> conversation])
    /\ UNCHANGED <<storeVars, convVars, metaVars, faults, ghostVars>>

-----------------------------------------------------------------------------
(* recoverInterruptedTurnState: the turn was saved wholly, or it is undone *)
(* with its files first, then the conversation, and then the marker.       *)
CommittedMutant == Contains(text, Answer(marker.turn))

Committed == /\ marker.commit # <<>>
             /\ text = marker.commit /\ runtime = marker.commit

RecoverTurn ==
    /\ pc = "recover"
    /\ \/ Committed /\ Go("unmark")
       \/ /\ ~ Committed
          /\ IF marker.turn \in live THEN BeginRestore("undo", marker.turn) ELSE Rest
    /\ UNCHANGED <<storeVars, convVars, metaVars, bounds, ghostVars>>

(* What is left of an interrupted turn: the prompt, if it came that far.   *)
Stripped(t) == IF Contains(text, Prompt(t))
               THEN SubSeq(text, 1, CHOOSE i \in DOMAIN text : text[i] = Prompt(t))
               ELSE text

Strip == /\ pc = "strip" /\ Go("anchor")
         /\ text' = Stripped(marker.turn)
         /\ saved' = IF Contains(text, Prompt(marker.turn)) THEN text' ELSE saved
         /\ UNCHANGED <<storeVars, runtime, metaVars, bounds, ghostVars>>

Anchor == /\ pc = "anchor" /\ Go("unmark")
          /\ runtime' = text
          /\ UNCHANGED <<storeVars, text, saved, metaVars, bounds, ghostVars>>

Unmark == /\ pc = "unmark" /\ Enter(FALSE, Pending, op.request)
          /\ marker' = NoMarker
          /\ UNCHANGED <<storeVars, convVars, journal, bounds, ghostVars>>

-----------------------------------------------------------------------------
(* Rewind: all conditions are looked at before anything is changed.  The   *)
(* boundary of a turn in memory is good while the conversation still begins*)
(* with what it was at the start of the turn.                              *)
Rewindable(t) == t \in live /\ IsPrefix(record[t].text, text)

Preflight ==
    LET r == op.request IN
    /\ pc = "preflight"
    /\ \/ /\ ~ r.conversation
          /\ BeginRestore("code", r.turn) /\ UNCHANGED journal
       \/ /\ r.conversation /\ ~ Rewindable(r.turn)
          /\ Rest /\ UNCHANGED journal
       \/ /\ r.conversation /\ Rewindable(r.turn)
          /\ journal' = [turn |-> r.turn, text |-> record[r.turn].text, code |-> r.code,
                         phase |-> "prepared"]
          /\ pc' = "publish" /\ op' = Idle
    /\ wrote' = {}
    /\ UNCHANGED <<storeVars, convVars, marker, bounds, start, retired>>

(* finishRewindTransaction: conversation, files, barrier, checkpoints.     *)
Publishable == /\ IsPrefix(journal.text, text)
               /\ journal.phase = "prepared" /\ journal.code => journal.turn \in live

Publish == /\ pc = "publish"
           /\ IF Publishable
              THEN Go("republish") /\ text' = journal.text /\ saved' = journal.text
              ELSE Rest /\ UNCHANGED <<text, saved>>
           /\ UNCHANGED <<storeVars, runtime, metaVars, bounds, ghostVars>>

GoRetire(t) == pc' = "retire" /\ op' = [op EXCEPT !.turn = t]

AfterFiles == IF journal.phase = "prepared" THEN Go("advance") ELSE GoRetire(journal.turn)

Republish == /\ pc = "republish"
             /\ runtime' = text
             /\ IF journal.code /\ journal.turn \in live
                THEN BeginRestore("rewind", journal.turn)
                ELSE AfterFiles
             /\ UNCHANGED <<storeVars, text, saved, metaVars, bounds, ghostVars>>

Advance == /\ pc = "advance" /\ GoRetire(journal.turn)
           /\ journal' = [journal EXCEPT !.phase = "applied"]
           /\ UNCHANGED <<storeVars, convVars, marker, bounds, ghostVars>>

(* Turns the range of the manifest hides although no rewind retired them.  *)
Hidden == (DOMAIN record \cap manifest.retired) \ retired
HiddenFrom(t, f) == \E v \in Hidden : v >= t /\ f \in DOMAIN record[v].files

(* What a conversation rewind retires is lost to the earlier turns, and so *)
(* is what any rewind retires unseen: it does not restore hidden turns.    *)
Forgotten(t) ==
    {p \in DOMAIN start :
        \/ p[1] <= t /\ HiddenFrom(t, p[2])
        \/ /\ p[1] < t /\ ~ journal.code
           /\ \E v \in DOMAIN record \ retired : v >= t /\ p[2] \in DOMAIN record[v].files}

RetireTurns ==
    /\ pc = "retire" /\ Retire(op.turn)
    /\ pc' = "collect" /\ op' = [op EXCEPT !.doomed = From(op.turn)]
    /\ retired' = retired \cup (op.turn..(manifest.next - 1))
    /\ start' = Restrict(start, DOMAIN start \ Forgotten(op.turn))
    /\ UNCHANGED <<convVars, metaVars, bounds, wrote>>

(* Records that cannot be deleted are left where they are.                 *)
Collect == /\ pc = "collect"
           /\ \E left \in SUBSET op.doomed :
                 /\ left = {} \/ faults < MaxFault
                 /\ Delete(op.doomed \ left)
                 /\ faults' = IF left = {} THEN faults ELSE faults + 1
           /\ IF journal = NoJournal THEN Rest ELSE Go("clear")
           /\ UNCHANGED <<file, manifest, live, cur, convVars, metaVars, rewinds, ghostVars>>

Clear == /\ pc = "clear" /\ Enter(Interrupted, FALSE, op.request)
         /\ journal' = NoJournal
         /\ start' = Restrict(start, DOMAIN start \ (retired \X File))
         /\ UNCHANGED <<storeVars, convVars, marker, bounds, retired, wrote>>

(* One file of a RestoreCode, and what comes after the last.               *)
RestoreFile(f) ==
    /\ pc \in {"undo", "rewind", "code"} /\ f \in op.todo
    /\ Restore(op.turn, f)
    /\ op' = [op EXCEPT !.todo = @ \ {f}]
    /\ start' = Restrict(start, {p \in DOMAIN start : p[2] = f => p[1] <= op.turn})
    /\ UNCHANGED <<convVars, metaVars, pc, bounds, retired, wrote>>

FinishRestore ==
    /\ op.todo = {}
    /\ \/ pc = "undo" /\ Go("strip")
       \/ pc = "rewind" /\ AfterFiles
       \/ pc = "code" /\ Rest
    /\ UNCHANGED <<storeVars, convVars, metaVars, bounds, ghostVars>>

(* /compact: the conversation has a new beginning; a failed save is only   *)
(* told.                                                                   *)
Compact == /\ pc = "compact" /\ Rest
           /\ text' = << <<manifest.next, "summary">> >>
           /\ saved' = text'
           /\ wrote' = {}
           /\ UNCHANGED <<storeVars, runtime, metaVars, bounds, start, retired>>

-----------------------------------------------------------------------------
(* runOrchestratedTurn: the checkpoint, the marker, the turn, the commit.  *)
AllocateTurn == /\ pc = "allocate" /\ Allocate
                /\ pc' = "register" /\ op' = Idle
                /\ wrote' = {}
                /\ UNCHANGED <<convVars, metaVars, bounds, start, retired>>

RegisterTurn == /\ pc = "register" /\ Register(text) /\ Go("arm")
                /\ start' = [p \in DOMAIN start \cup ({Allocated} \X File) |->
                                IF p[1] = Allocated THEN file[p[2]] ELSE start[p]]
                /\ UNCHANGED <<convVars, metaVars, bounds, retired, wrote>>

(* A hook refuses the prompt, or the marker is set.                        *)
Arm == /\ pc = "arm"
       /\ \/ Rest /\ UNCHANGED marker
          \/ Go("running") /\ marker' = [turn |-> cur, commit |-> <<>>]
       /\ UNCHANGED <<storeVars, convVars, journal, bounds, ghostVars>>

Say == /\ pc = "running" /\ ~ Contains(text, Prompt(cur)) /\ Go("running")
       /\ text' = Append(text, Prompt(cur))
       /\ UNCHANGED <<storeVars, saved, runtime, metaVars, bounds, ghostVars>>

(* persistWriterRecoveryState, and after it the edit.  The sidecar is not  *)
(* looked at before the turn is committed, so that the record and it are   *)
(* written in one step.                                                    *)
Touch(f) == /\ pc = "running" /\ Contains(text, Prompt(cur))
            /\ Snapshot(f)
            /\ runtime' = text
            /\ pc' = "editing" /\ op' = [op EXCEPT !.todo = {f}]
            /\ UNCHANGED <<text, saved, metaVars, bounds, ghostVars>>

Edit(f) == /\ pc = "editing" /\ f \in op.todo
           /\ pc' = "running" /\ op' = [op EXCEPT !.todo = {}]
           /\ file' = [file EXCEPT ![f] = cur]
           /\ wrote' = wrote \cup {f}
           /\ UNCHANGED <<diskVars, live, cur, convVars, metaVars, bounds, start, retired>>

(* autosaveWhileRunning.                                                   *)
Autosave == /\ pc = "running" /\ saved # text
            /\ saved' = text
            /\ UNCHANGED <<storeVars, text, runtime, metaVars, pc, op, bounds, ghostVars>>

(* The turn ends with an answer, or with what a cancel leaves of it; or it *)
(* fails and is undone.                                                    *)
EndTurn == /\ pc = "running" /\ Contains(text, Prompt(cur))
           /\ text' = Append(text, Answer(cur)) /\ Go("save")
           /\ UNCHANGED <<storeVars, saved, runtime, metaVars, bounds, ghostVars>>

FailTurn == /\ pc = "running" /\ Go("recover")
            /\ UNCHANGED <<storeVars, convVars, metaVars, bounds, ghostVars>>

(* commitInFlightTurn.                                                     *)
Save == /\ pc = "save" /\ Go("saveAnchor")
        /\ saved' = text
        /\ UNCHANGED <<storeVars, text, runtime, metaVars, bounds, ghostVars>>

SaveAnchor == /\ pc = "saveAnchor" /\ Go("commit")
              /\ runtime' = text
              /\ UNCHANGED <<storeVars, text, saved, metaVars, bounds, ghostVars>>

Commit == /\ pc = "commit" /\ Go("finish")
          /\ marker' = [marker EXCEPT !.commit = text]
          /\ UNCHANGED <<storeVars, convVars, journal, bounds, ghostVars>>

Finish == /\ pc = "finish" /\ Rest
          /\ marker' = NoMarker
          /\ UNCHANGED <<storeVars, convVars, journal, bounds, ghostVars>>

-----------------------------------------------------------------------------
(* A write fails.  A step of the recovery or of a rewind is given up; a    *)
(* commit is undone; a turn that cannot be marked retires its checkpoint.  *)
Fails == faults < MaxFault /\ faults' = faults + 1

StepFails ==
    /\ pc \in {"anchor", "unmark", "preflight", "republish", "advance", "retire", "clear",
               "allocate", "register"}
    /\ pc = "preflight" => op.request.conversation /\ Rewindable(op.request.turn)
    /\ pc = "retire" => From(op.turn) # {}
    /\ Rest
    /\ cur' = IF pc = "allocate" THEN NoTurn ELSE cur
    /\ UNCHANGED <<text, file, diskVars, live>>

RewriteFails ==
    /\ \/ pc = "strip" /\ Contains(text, Prompt(marker.turn)) /\ text' = Stripped(marker.turn)
       \/ pc = "publish" /\ Publishable /\ text' = journal.text
       \/ pc = "compact" /\ text' = << <<manifest.next, "summary">> >>
    /\ Rest
    /\ UNCHANGED storeVars

CommitFails == /\ pc \in {"save", "saveAnchor", "commit", "finish"}
               /\ Go("recover") /\ UNCHANGED <<text, storeVars>>

MarkFails == pc = "arm" /\ GoRetire(cur) /\ UNCHANGED <<text, storeVars>>

RestoreFails == /\ pc \in {"undo", "rewind", "code"} /\ op.todo # {}
                /\ Rest
                /\ file' = op.before
                /\ UNCHANGED <<text, diskVars, live, cur>>

(* The edit is refused; the file may be recorded all the same.             *)
TouchFails(f) == /\ pc = "running" /\ Contains(text, Prompt(cur)) /\ Go("running")
                 /\ Snapshot(f) /\ UNCHANGED text

WriteFails == /\ Fails
              /\ \/ StepFails \/ RewriteFails \/ CommitFails \/ MarkFails \/ RestoreFails
                 \/ \E f \in File : TouchFails(f)
              /\ wrote' = IF pc = "compact" THEN {} ELSE wrote
              /\ UNCHANGED <<saved, runtime, metaVars, rewinds, start, retired>>

Next == \/ Resume \/ Crash \/ AskTurn \/ AskCompact
        \/ \E t \in Turn, code, conversation \in BOOLEAN : AskRewind(t, code, conversation)
        \/ RecoverTurn \/ Strip \/ Anchor \/ Unmark
        \/ Preflight \/ Publish \/ Republish \/ Advance
        \/ RetireTurns \/ Collect \/ Clear \/ FinishRestore \/ Compact
        \/ AllocateTurn \/ RegisterTurn \/ Arm \/ Say \/ Autosave \/ EndTurn \/ FailTurn
        \/ \E f \in File : RestoreFile(f) \/ Touch(f) \/ Edit(f)
        \/ Save \/ SaveAnchor \/ Commit \/ Finish
        \/ WriteFails

Spec == Init /\ [][Next]_vars

-----------------------------------------------------------------------------
(* A rewind to a turn finds, for every file that only turns of the session *)
(* have changed since, what was in it when that turn began: whatever was   *)
(* undone, restored half or retired in between, and after every restart.   *)
RestoreExact ==
    \A t \in live, f \in File :
        <<t, f>> \in DOMAIN start /\ ~ HiddenFrom(t, f) => AtStart(t, f) = start[t, f]

(* A retired turn is not offered again, nor is its number.                 *)
RetiredStaysGone == live \cap retired = {}

(* Between turns, and after every recovery, the last turn is there as a    *)
(* whole, or none of it but the prompt: no file of a turn whose answer is  *)
(* lost, and no answer whose files are undone.                             *)
LastTurn == manifest.next - 1
TurnIsWhole ==
    pc = "idle" /\ marker = NoMarker =>
        \A f \in wrote :
            IF Contains(saved, Answer(LastTurn)) THEN file[f] = LastTurn
            ELSE ~ Contains(text, Answer(LastTurn)) /\ file[f] = start[LastTurn, f]

(* A rewind that has been prepared is only done with when the conversation *)
(* and, if it was asked for, the files are where they were, however often  *)
(* the process dies on the way.  Files of hidden turns are excepted.       *)
RewindIsWhole ==
    [][journal # NoJournal /\ journal' = NoJournal =>
          /\ text = journal.text /\ saved = journal.text /\ runtime = journal.text
          /\ live \cap (journal.turn..MaxTurn) = {}
          /\ journal.code => \A f \in File :
                <<journal.turn, f>> \in DOMAIN start => file[f] = start[journal.turn, f]]_vars
=============================================================================
