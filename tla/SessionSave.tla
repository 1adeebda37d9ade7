------------------------------ MODULE SessionSave ------------------------------
(***************************************************************************)
(* The transcript store of src/internal/agent/save.go, with the snapshots  *)
(* of src/internal/control/controller.go that use it.                      *)
(*                                                                         *)
(* Runtimes, in one process or several, have the transcript of a session in*)
(* memory and save it to a file: an event log that is appended to, an      *)
(* anchor file with the transcript as a whole, and a ledger of revisions.  *)
(* A save holds the lock of the file; it decides between an append, a      *)
(* rewrite and a conflict, and then writes the files one after another.  A *)
(* runtime in conflict adopts what the file holds, or makes a copy of its  *)
(* own and goes on there.  Turns and compactions change the transcript in  *)
(* memory at any time; a write may fail or tear, and a process may die.    *)
(*                                                                         *)
(* A message is a number, new when it is added.  The leading system        *)
(* message and the repair of tool calls on load are left out, and a digest *)
(* is the transcript it is computed from.                                  *)
(***************************************************************************)
EXTENDS Naturals, FiniteSets, Sequences, SequencesExt

CONSTANTS
    Runtime, NoRuntime,
    MaxEdit,            \* bound: messages added, compactions, rewinds
    MaxDepth,           \* SessionRecoveryMaxDepth
    MaxStart,           \* bound: runtimes that are started
    MaxFault,           \* bound: crashes and failed writes
    MaxRevision         \* bound: revisions of a file after which no save starts

ASSUME BoundAssumption == /\ NoRuntime \notin Runtime
                          /\ MaxEdit \in Nat \ {0} /\ MaxStart \in Nat \ {0}
                          /\ MaxDepth \in Nat \ {0}
                          /\ MaxFault \in Nat /\ MaxRevision \in Nat

VARIABLES
    disk,               \* disk[p]: event log and anchor of path p
    ledger,             \* ledger[p]: the digests recorded, one per revision
    mem,                \* mem[r]: Messages of Session
    edited, rewritten,  \* since when version and rewriteVersion have moved:
                        \* since the last save, and since the last capture
    persisted,          \* persisted[r]: the persistence baseline of Session
    matching,           \* runtimes whose file stamps still match the files
    compacting,         \* runtimes between Replace and IncrementRewrite
    path,               \* path[r]: sessionPath of the controller
    stage, job,         \* where the snapshot of r is, and what it works on
    edits, started, faults      \* counters for the bounds

sessionVars == <<mem, edited, rewritten, compacting>>
baseVars == <<persisted, path>>
storeVars == <<disk, ledger, matching>>
saveVars == <<sessionVars, baseVars, storeVars, stage, job, edits, started, faults>>

(* The session file, and the copies made of it: a copy is named after the  *)
(* path it comes from, its digest, and at a shutdown its writer.           *)
main == <<>>
RecoveryPath(p, t, w) == Append(p, [digest |-> t, writer |-> w])

NoTranscript == <<0>>
EmptyFile == [head |-> "none", log |-> <<>>, torn |-> FALSE, anchor |-> NoTranscript]
NoBase == [ok |-> FALSE, path |-> main, digest |-> NoTranscript, revision |-> 0,
           verified |-> FALSE]
NoJob == [mode |-> "none", caller |-> "none", shutdown |-> FALSE, path |-> main,
          kind |-> "none", msgs |-> <<>>, todo |-> <<>>]

Files(p) == IF p \in DOMAIN disk THEN disk[p] ELSE EmptyFile

(* loadSessionMessages: the log, if it is ours, else the anchor.           *)
Stored(p) == IF Files(p).head = "native" THEN Files(p).log ELSE Files(p).anchor

(* sessionContentRevision: the revision and the digest of the sidecar.     *)
Digests(p) == IF p \in DOMAIN ledger THEN ledger[p] ELSE <<>>
Revision(p) == Len(Digests(p))
LedgerDigest(p) == IF Digests(p) = <<>> THEN NoTranscript ELSE Last(Digests(p))

(* The moments version and rewriteVersion are compared with.               *)
Moments == {"saved", "captured"}

NeedsRewriteSave(r) == "saved" \in rewritten[r]

(* lockSessionSavePath and lockSessionFile: held while a save writes.      *)
Holders(p) == {r \in Runtime : stage[r] = "writing" /\ job[r].path = p}

SaveInit ==
    /\ \E file \in {EmptyFile,
                    [EmptyFile EXCEPT !.anchor = <<1>>],
                    [EmptyFile EXCEPT !.head = "native", !.log = <<1>>, !.anchor = <<1>>]} :
          /\ disk = [p \in {main} |-> file]
          /\ ledger = [p \in {main} |-> IF file = EmptyFile THEN <<>> ELSE <<(<<1>>)>>]
          /\ edits = IF file = EmptyFile THEN 0 ELSE 1
    /\ mem = [r \in Runtime |-> <<>>]
    /\ edited = [r \in Runtime |-> {}]
    /\ rewritten = [r \in Runtime |-> {}]
    /\ persisted = [r \in Runtime |-> NoBase]
    /\ path = [r \in Runtime |-> main]
    /\ matching = {} /\ compacting = {}
    /\ stage = [r \in Runtime |-> "off"]
    /\ job = [r \in Runtime |-> NoJob]
    /\ started = 0 /\ faults = 0

-----------------------------------------------------------------------------
(* The end of a snapshot: the runtime goes on, or the process exits.       *)
Stop(r) ==
    /\ stage' = [stage EXCEPT ![r] = "off"]
    /\ job' = [job EXCEPT ![r] = NoJob]
    /\ mem' = [mem EXCEPT ![r] = <<>>]
    /\ edited' = [edited EXCEPT ![r] = {}]
    /\ rewritten' = [rewritten EXCEPT ![r] = {}]
    /\ persisted' = [persisted EXCEPT ![r] = NoBase]
    /\ path' = [path EXCEPT ![r] = main]
    /\ compacting' = compacting \ {r}

(* Mutant of Idle: the job of the snapshot is left behind.                 *)
IdleMutant(r) == stage' = [stage EXCEPT ![r] = "idle"] /\ UNCHANGED job

Idle(r) == stage' = [stage EXCEPT ![r] = "idle"] /\ job' = [job EXCEPT ![r] = NoJob]

Enter(r, where, j) == stage' = [stage EXCEPT ![r] = where] /\ job' = [job EXCEPT ![r] = j]

(* A runtime opens the session, or a session that has no file yet.         *)
NewSession(r) ==
    /\ stage[r] = "off" /\ Stored(main) = NoTranscript
    /\ started = 0 /\ started' = 1
    /\ Idle(r)
    /\ UNCHANGED <<sessionVars, baseVars, storeVars, edits, faults>>

(* LoadSession reads the transcript ...                                    *)
ReadTranscript(r, p, j) == Enter(r, "loading", [j EXCEPT !.path = p, !.msgs = Stored(p)])

OpenSession(r, p) ==
    /\ stage[r] = "off" /\ Stored(p) # NoTranscript
    /\ started < MaxStart /\ started' = started + 1
    /\ ReadTranscript(r, p, [NoJob EXCEPT !.caller = "open"])
    /\ UNCHANGED <<sessionVars, baseVars, storeVars, edits, faults>>

(* ... and then the revision: no lock is held, and nobody waits for them.  *)
(* The session of the runtime is replaced, whatever it holds by now.       *)
FinishLoad(r) ==
    /\ stage[r] = "loading"
    /\ LET j == job[r] IN
       IF j.shutdown THEN Stop(r) ELSE
       /\ Idle(r)
       /\ mem' = [mem EXCEPT ![r] = j.msgs]
       /\ edited' = [edited EXCEPT ![r] = {}]
       /\ rewritten' = [rewritten EXCEPT ![r] = {}]
       /\ persisted' = [persisted EXCEPT ![r] =
             [ok |-> TRUE, path |-> j.path, digest |-> j.msgs,
              revision |-> Revision(j.path), verified |-> FALSE]]
       /\ path' = [path EXCEPT ![r] = j.path]
       /\ UNCHANGED compacting
    /\ matching' = matching \ {r}
    /\ UNCHANGED <<disk, ledger, edits, started, faults>>

-----------------------------------------------------------------------------
(* A turn runs beside the snapshots, but not beside a rewind, the clean-up *)
(* of a canceled turn or a shutdown.                                       *)
TurnRuns(r) == stage[r] # "off" /\ job[r].caller \in {"none", "snapshot"} /\ ~ job[r].shutdown

Add(r) ==
    /\ TurnRuns(r) /\ r \notin compacting /\ edits < MaxEdit
    /\ edits' = edits + 1
    /\ mem' = [mem EXCEPT ![r] = Append(@, edits + 1)]
    /\ edited' = [edited EXCEPT ![r] = Moments]
    /\ UNCHANGED <<rewritten, compacting, baseVars, storeVars, stage, job, started, faults>>

(* Compaction folds the first k messages into a summary: Replace, and then *)
(* IncrementRewrite.                                                       *)
Compact(r, k) ==
    /\ TurnRuns(r) /\ r \notin compacting /\ edits < MaxEdit
    /\ k \in 1..Len(mem[r])
    /\ edits' = edits + 1
    /\ mem' = [mem EXCEPT ![r] = <<edits + 1>> \o SubSeq(@, k + 1, Len(@))]
    /\ edited' = [edited EXCEPT ![r] = Moments]
    /\ compacting' = compacting \cup {r}
    /\ UNCHANGED <<rewritten, baseVars, storeVars, stage, job, started, faults>>

IncrementRewrite(r) ==
    /\ r \in compacting
    /\ rewritten' = [rewritten EXCEPT ![r] = Moments]
    /\ edited' = [edited EXCEPT ![r] = Moments]
    /\ compacting' = compacting \ {r}
    /\ UNCHANGED <<mem, baseVars, storeVars, stage, job, edits, started, faults>>

(* Controller.snapshot: the mode is chosen before the save takes its locks.*)
Snapshot(r, shutdown) ==
    /\ stage[r] = "idle" /\ mem[r] # <<>> /\ Revision(path[r]) < MaxRevision
    /\ shutdown => r \notin compacting
    /\ Enter(r, "save", [NoJob EXCEPT !.caller = "snapshot", !.path = path[r],
          !.shutdown = shutdown,
          !.mode = IF NeedsRewriteSave(r) THEN "rewrite" ELSE "snapshot"])
    /\ UNCHANGED <<sessionVars, baseVars, storeVars, edits, started, faults>>

(* persistRewindConversation and replaceSessionAfterCancel: the transcript *)
(* is cut in memory, and saved as a rewrite under the same snapshotMu.     *)
Cut(r, k, caller) ==
    /\ stage[r] = "idle" /\ r \notin compacting /\ Revision(path[r]) < MaxRevision
    /\ edits < MaxEdit /\ edits' = edits + 1
    /\ k \in 0..(Len(mem[r]) - 1)
    /\ mem' = [mem EXCEPT ![r] = SubSeq(@, 1, k)]
    /\ edited' = [edited EXCEPT ![r] = Moments]
    /\ Enter(r, "save", [NoJob EXCEPT !.caller = caller, !.path = path[r], !.mode = "rewrite"])
    /\ UNCHANGED <<rewritten, compacting, baseVars, storeVars, started, faults>>

-----------------------------------------------------------------------------
(* persistState: the baseline, if it is that of the path.                  *)
Base(r, p) == IF persisted[r].ok /\ persisted[r].path = p THEN persisted[r] ELSE NoBase

(* Mutant of UpToDate: the stamps of the files are not compared.           *)
UpToDateMutant(r) ==
    LET p == path[r]
        b == Base(r, p)
    IN /\ b.ok /\ b.verified /\ "saved" \notin edited[r] /\ ~ NeedsRewriteSave(r)
       /\ b.revision = Revision(p) /\ LedgerDigest(p) = b.digest

(* snapshotUpToDate                                                        *)
UpToDate(r) ==
    LET p == path[r]
        b == Base(r, p)
    IN /\ b.ok /\ b.verified /\ "saved" \notin edited[r] /\ ~ NeedsRewriteSave(r)
       /\ r \in matching
       /\ b.revision = Revision(p) /\ LedgerDigest(p) = b.digest

(* Mutants of Owns: the transcript is not compared; a revision the ledger  *)
(* has missed is not made up for.                                          *)
OwnsMutant(r, p) == Base(r, p).ok
OwnsByRevisionMutant(r, p) ==
    LET b == Base(r, p) IN b.ok /\ b.digest = Stored(p) /\ Revision(p) \in {0, b.revision}

(* ownsPersistedState                                                      *)
Owns(r, p) ==
    LET b == Base(r, p) IN
    /\ b.ok /\ b.digest = Stored(p)
    /\ Revision(p) \in {0, b.revision} \/ LedgerDigest(p) = Stored(p)

(* appendCoversPersistedBaseline                                           *)
CoversBase(next, existing, digest) == IsPrefix(digest, next) /\ Len(existing) >= Len(digest)

(* Mutant of Resurrects: every append may go on.                           *)
ResurrectsMutant(r, p) == FALSE

(* The compare-and-swap of an append: a removed suffix is not brought back.*)
Resurrects(r, p) ==
    LET b == Base(r, p) IN
    /\ b.ok /\ b.revision # Revision(p) /\ mem[r] # Stored(p)
    /\ ~ CoversBase(mem[r], Stored(p), b.digest)

Kind(next, existing) == IF IsPrefix(next, existing) THEN "stale prefix" ELSE "diverged"

(* The files a full rewrite writes; an oversized log is compacted.         *)
FullRewrite(p) ==
    CASE Files(p).head = "foreign" -> {<<"anchor", "record">>}
      [] Files(p).head = "none" -> {<<"append", "anchor", "record">>}
      [] OTHER -> {<<"append", "anchor", "record">>, <<"compact", "anchor", "record">>}

(* The files an append writes.                                             *)
Appending(p) ==
    CASE Files(p).head = "foreign" -> FullRewrite(p)
      [] Files(p).head = "none" -> {<<"append", "record">>}
      [] OTHER -> {<<"append", "record">>, <<"compact", "anchor", "record">>}

(* checkSnapshotWrite and the shapes of save: what is to be written, empty *)
(* when there is a conflict; "mark" when the file is up to date.           *)
Plans(r, p, mode) ==
    LET next == mem[r]
        existing == Stored(p)
    IN CASE mode = "force" ->
              {IF Files(p).head = "native" THEN <<"compact", "anchor", "record">>
                                           ELSE <<"anchor", "record">>}
         [] mode # "force" /\ existing = NoTranscript -> FullRewrite(p)
         [] mode # "force" /\ existing = next ->
              {IF LedgerDigest(p) \in {NoTranscript, next} THEN <<"mark">> ELSE <<"record">>}
         [] mode # "force" /\ existing # next /\ IsPrefix(existing, next) ->
              IF Resurrects(r, p) THEN {} ELSE Appending(p)
         [] OTHER -> IF mode = "rewrite" /\ Owns(r, p) THEN FullRewrite(p) ELSE {}

(* Whoever has a baseline of p no longer finds its stamps on the files.     *)
Unstamped(p) == matching \ {q \in Runtime : persisted[q].path = p}

(* snapshotWithVersion                                                     *)
Capture(r) == /\ edited' = [edited EXCEPT ![r] = @ \ {"captured"}]
              /\ rewritten' = [rewritten EXCEPT ![r] = @ \ {"captured"}]

(* Mutant of Repaired: the torn tail stays.                                *)
RepairedMutant(file) == file

(* The tail a torn append left is cut off before anything is written.      *)
Repaired(file) == [file EXCEPT !.torn = FALSE]

Return(r) ==
    IF job[r].shutdown THEN Stop(r)
    ELSE Idle(r) /\ UNCHANGED <<sessionVars, persisted, path>>

FastPath(r) ==
    /\ stage[r] = "save" /\ Holders(path[r]) = {}
    /\ job[r].mode = "snapshot" /\ UpToDate(r)
    /\ Return(r)
    /\ UNCHANGED <<storeVars, edits, started, faults>>

(* The locks are taken, the transcript is captured, and the check decides: *)
(* the file is up to date, or files are to be written, or a conflict.      *)
BeginSave(r) ==
    LET p == path[r]
        captured == [job[r] EXCEPT !.msgs = mem[r]]
    IN /\ stage[r] = "save" /\ Holders(p) = {}
       /\ ~ (job[r].mode = "snapshot" /\ UpToDate(r))
       /\ Capture(r)
       /\ disk' = [disk EXCEPT ![p] = Repaired(@)]
       /\ matching' = IF Repaired(disk[p]) = disk[p] THEN matching ELSE Unstamped(p)
       /\ \/ \E todo \in Plans(r, p, job[r].mode) :
                Enter(r, "writing", [captured EXCEPT !.todo = todo])
          \/ /\ Plans(r, p, job[r].mode) = {} /\ job[r].caller = "rewind"
             /\ Idle(r)
          \/ /\ Plans(r, p, job[r].mode) = {} /\ job[r].caller # "rewind"
             /\ Enter(r, "conflict", [captured EXCEPT !.kind = Kind(mem[r], Stored(p))])
       /\ UNCHANGED <<mem, compacting, baseVars, ledger, edits, started, faults>>

-----------------------------------------------------------------------------
(* What a write leaves in the files.  A record after a torn one is never   *)
(* replayed, and a log whose first record is torn is no longer ours.       *)
Written(file, write, t) ==
    CASE write = "append" -> IF file.torn THEN file
                             ELSE [file EXCEPT !.head = "native", !.log = t]
      [] write = "compact" -> [file EXCEPT !.head = "native", !.log = t, !.torn = FALSE]
      [] write = "anchor" -> [file EXCEPT !.anchor = t]

Torn(file) == IF file.head = "native" THEN [file EXCEPT !.torn = TRUE]
                                      ELSE [file EXCEPT !.head = "foreign"]

WriteTo(p, file) ==
    /\ disk' = [q \in DOMAIN disk \cup {p} |-> IF q = p THEN file ELSE disk[q]]
    /\ matching' = Unstamped(p)

WriteFile(r) ==
    LET j == job[r] IN
    /\ stage[r] = "writing" /\ Head(j.todo) \in {"append", "compact", "anchor"}
    /\ WriteTo(j.path, Written(Files(j.path), Head(j.todo), j.msgs))
    /\ job' = [job EXCEPT ![r].todo = Tail(@)]
    /\ UNCHANGED <<sessionVars, baseVars, ledger, stage, edits, started, faults>>

(* recordSessionContentRevision, or the sidecar of a copy.                 *)
Recorded(digests, what, t) ==
    CASE what = "mark" -> digests
      [] what = "record" -> Append(digests, t)
      [] what = "meta" -> IF Len(digests) > 1 THEN digests ELSE <<t>>

Record(p, digests) ==
    ledger' = [q \in DOMAIN ledger \cup {p} |-> IF q = p THEN digests ELSE ledger[q]]

(* markPersisted: what was captured is the new baseline, and what moved    *)
(* since the capture has moved since the save.                             *)
SinceCapture(moments) == IF "captured" \in moments THEN Moments ELSE {}

MarkPersisted(r, revision) ==
    LET j == job[r] IN
    /\ persisted' = [persisted EXCEPT ![r] =
          [ok |-> TRUE, path |-> j.path, digest |-> j.msgs,
           revision |-> revision, verified |-> TRUE]]
    /\ edited' = [edited EXCEPT ![r] = SinceCapture(@)]
    /\ rewritten' = [rewritten EXCEPT ![r] = SinceCapture(@)]
    /\ matching' = matching \cup {r}

(* The save is done; commitRecoveredSession moves the runtime to its copy. *)
FinishSave(r) ==
    LET j == job[r]
        digests == Recorded(Digests(j.path), Head(j.todo), j.msgs)
    IN /\ stage[r] = "writing" /\ Head(j.todo) \in {"mark", "record", "meta"}
       /\ Record(j.path, digests)
       /\ IF j.shutdown THEN Stop(r) /\ matching' = matching \ {r} ELSE
          /\ MarkPersisted(r, Len(digests))
          /\ path' = [path EXCEPT ![r] = j.path]
          /\ Idle(r)
          /\ UNCHANGED <<mem, compacting>>
       /\ UNCHANGED <<disk, edits, started, faults>>

(* The host refuses the move to the copy.                                  *)
CommitFails(r) ==
    LET j == job[r]
        digests == Recorded(Digests(j.path), "meta", j.msgs)
    IN /\ stage[r] = "writing" /\ j.todo = <<"meta">> /\ faults < MaxFault
       /\ Record(j.path, digests)
       /\ MarkPersisted(r, Len(digests))
       /\ Idle(r)
       /\ faults' = faults + 1
       /\ UNCHANGED <<mem, compacting, path, disk, edits, started>>

(* A write fails: nothing is written, or part of a record, or all of it.   *)
WriteFails(r) ==
    LET j == job[r] IN
    /\ stage[r] = "writing" /\ Head(j.todo) # "mark" /\ faults < MaxFault
    /\ faults' = faults + 1
    /\ Idle(r)
    /\ \/ UNCHANGED storeVars
       \/ /\ Head(j.todo) = "append"
          /\ \/ WriteTo(j.path, Torn(Files(j.path)))
             \/ WriteTo(j.path, Written(Files(j.path), "append", j.msgs))
          /\ UNCHANGED ledger
       \/ /\ Head(j.todo) \in {"record", "meta"}
          /\ Record(j.path, Recorded(Digests(j.path), Head(j.todo), j.msgs))
          /\ UNCHANGED <<disk, matching>>
    /\ UNCHANGED <<sessionVars, baseVars, edits, started>>

(* The process dies, perhaps in the middle of an append.                   *)
Die(r) ==
    LET j == job[r] IN
    /\ stage[r] # "off" /\ faults < MaxFault
    /\ faults' = faults + 1
    /\ Stop(r)
    /\ \/ disk' = disk /\ matching' = matching \ {r}
       \/ /\ stage[r] = "writing" /\ Head(j.todo) = "append"
          /\ disk' = [q \in DOMAIN disk \cup {j.path} |->
                         IF q = j.path THEN Torn(Files(q)) ELSE disk[q]]
          /\ matching' = Unstamped(j.path) \ {r}
    /\ UNCHANGED <<ledger, edits, started>>

-----------------------------------------------------------------------------
(* A conflict: the history was rewritten since the mode was chosen, and the*)
(* save is tried once more ...                                             *)
Retry(r) ==
    /\ stage[r] = "conflict" /\ job[r].mode = "snapshot" /\ NeedsRewriteSave(r)
    /\ Enter(r, "save", [job[r] EXCEPT !.mode = "rewrite"])
    /\ UNCHANGED <<sessionVars, baseVars, storeVars, edits, started, faults>>

(* ... or the file is ahead, and the runtime adopts it (adoptDiskSession)  *)
Adopt(r) ==
    /\ \/ stage[r] = "adopt"
       \/ /\ stage[r] = "conflict" /\ job[r].kind = "stale prefix"
          /\ ~ (job[r].mode = "snapshot" /\ NeedsRewriteSave(r))
    /\ ReadTranscript(r, path[r], job[r])
    /\ UNCHANGED <<sessionVars, baseVars, storeVars, edits, started, faults>>

(* ... or saveRecoveryBranch: the file holds all there is in memory, or the*)
(* branch is as deep as it may get and is overwritten, or a copy is made.  *)
Recover(r) ==
    LET p == path[r]
        captured == [job[r] EXCEPT !.msgs = mem[r]]
    IN /\ stage[r] = "conflict" /\ job[r].kind = "diverged" /\ Holders(p) = {}
       /\ ~ (job[r].mode = "snapshot" /\ NeedsRewriteSave(r))
       /\ Capture(r)
       /\ \/ IsPrefix(mem[r], Stored(p)) /\ Enter(r, "adopt", job[r])
          \/ /\ ~ IsPrefix(mem[r], Stored(p)) /\ Len(p) >= MaxDepth
             /\ Enter(r, "save", [job[r] EXCEPT !.mode = "force"])
          \/ /\ ~ IsPrefix(mem[r], Stored(p)) /\ Len(p) < MaxDepth
             /\ Enter(r, "copy", [captured EXCEPT !.path = RecoveryPath(p, mem[r], NoRuntime)])
       /\ UNCHANGED <<mem, compacting, baseVars, storeVars, edits, started, faults>>

(* The copy is made, or it is there already.                               *)
BeginCopy(r) ==
    LET j == job[r] IN
    /\ stage[r] = "copy" /\ Holders(j.path) = {}
    /\ Enter(r, "writing", [j EXCEPT !.todo =
          CASE Stored(j.path) = j.msgs -> <<"meta">>
            [] Stored(j.path) # j.msgs /\ Files(j.path).head = "foreign" -> <<"anchor", "meta">>
            [] OTHER -> <<"append", "anchor", "meta">>])
    /\ UNCHANGED <<sessionVars, baseVars, storeVars, edits, started, faults>>

(* ErrSessionFileLockHeld: another process writes the file for too long. A *)
(* shutdown makes a copy of its own then, anything else is an error.       *)
LockTimeout(r) ==
    LET p == path[r] IN
    /\ \/ stage[r] = "save" /\ Holders(p) # {}
       \/ stage[r] = "conflict" /\ job[r].kind = "diverged" /\ Holders(p) # {}
       \/ stage[r] = "copy" /\ Holders(job[r].path) # {}
    /\ \/ ~ job[r].shutdown /\ Idle(r)
       \/ /\ job[r].shutdown
          /\ Enter(r, "copy", [job[r] EXCEPT !.path = RecoveryPath(p, mem[r], r), !.msgs = mem[r]])
    /\ Capture(r)
    /\ UNCHANGED <<mem, compacting, baseVars, storeVars, edits, started, faults>>

SaveNext == \E r \in Runtime :
    \/ NewSession(r)
    \/ \E p \in DOMAIN disk : OpenSession(r, p)
    \/ FinishLoad(r)
    \/ Add(r)
    \/ \E k \in 1..MaxEdit : Compact(r, k)
    \/ IncrementRewrite(r)
    \/ \E shutdown \in BOOLEAN : Snapshot(r, shutdown)
    \/ \E k \in 0..MaxEdit, caller \in {"rewind", "cancel"} : Cut(r, k, caller)
    \/ FastPath(r) \/ BeginSave(r) \/ WriteFile(r) \/ FinishSave(r)
    \/ CommitFails(r) \/ WriteFails(r) \/ Die(r)
    \/ Retry(r) \/ Adopt(r) \/ Recover(r) \/ BeginCopy(r) \/ LockTimeout(r)

SaveSpec == SaveInit /\ [][SaveNext]_saveVars

-----------------------------------------------------------------------------
Text == Seq(1..MaxEdit)

BaseOf == [ok : BOOLEAN, path : DOMAIN disk, digest : Text \cup {NoTranscript},
           revision : Nat, verified : BOOLEAN]

(* The types of the variables; a path in use has files, and only a runtime *)
(* that saves works on a transcript.                                       *)
SaveTypeOK ==
    /\ \A p \in DOMAIN disk :
          /\ disk[p].head \in {"none", "native", "foreign"} /\ disk[p].torn \in BOOLEAN
          /\ disk[p].log \in Text /\ disk[p].anchor \in Text \cup {NoTranscript}
    /\ \A p \in DOMAIN ledger : ledger[p] \in Seq(Text)
    /\ mem \in [Runtime -> Text]
    /\ edited \in [Runtime -> SUBSET Moments] /\ rewritten \in [Runtime -> SUBSET Moments]
    /\ persisted \in [Runtime -> BaseOf] /\ path \in [Runtime -> DOMAIN disk]
    /\ matching \subseteq Runtime /\ compacting \subseteq Runtime
    /\ stage \in [Runtime -> {"off", "loading", "idle", "save", "writing", "conflict",
                             "adopt", "copy"}]
    /\ \A r \in Runtime : stage[r] \in {"off", "idle"} <=> job[r] = NoJob
    /\ edits \in 0..MaxEdit /\ started \in 0..MaxStart /\ faults \in 0..MaxFault

(* A save that reports success has left what it captured in the file, and  *)
(* for the session file itself in the ledger too, whichever files it wrote;*)
(* one that is skipped finds in the file what the runtime has in memory    *)
(* (snapshotUpToDate never hides a needed save).                           *)
(* Of a copy less is true: its sidecar keeps the digest it was made with,  *)
(* and the log of a copy that is made again is not repaired first, so that *)
(* what is appended to a torn one is not replayed (Readable).              *)
Readable(p) == p = main \/ ~ Files(p).torn

BaseIsStored(r) == LET b == persisted[r] IN
    /\ Readable(b.path) => Stored(b.path) = b.digest
    /\ Revision(b.path) = b.revision
    /\ b.path = main => LedgerDigest(main) \in {NoTranscript, b.digest}

SavedIsStored ==
    [][\A r \in Runtime :
          /\ persisted'[r] # persisted[r] /\ persisted'[r].verified => BaseIsStored(r)'
          /\ stage[r] = "save" /\ UpToDate(r) /\ Readable(path[r])
                => Stored(path[r]) = mem[r]]_saveVars

(* A save is in conflict only when another runtime has written since: the  *)
(* file is not what this one last read or wrote, or the ledger tells of a  *)
(* save that did not come to its end.  The exception is a history cut      *)
(* without a rewrite being noted: in the middle of a compaction, or after  *)
(* the save of a rewind or a clean-up has failed.                          *)
ConflictIsForeign ==
    [][\A r \in Runtime :
          LET p == path[r] IN
          stage[r] = "save" /\ stage'[r] = "conflict" =>
             \/ Stored(p) # Base(r, p).digest
             \/ Revision(p) # Base(r, p).revision /\ LedgerDigest(p) # Stored(p)
             \/ job[r].mode = "snapshot" /\ ~ IsPrefix(Base(r, p).digest, mem[r])]_saveVars

(* The messages a recorded rewrite has removed from a file.                *)
Messages(t) == {t[i] : i \in DOMAIN t}
Recalled(p) == UNION {Messages(Digests(p)[i]) : i \in DOMAIN Digests(p)}
Removed(p) == Recalled(p) \ Messages(LedgerDigest(p))

(* A baseline whose revision was recorded with its digest; LoadSession may *)
(* read a transcript and the revision of the next one.                     *)
Sound(b) == b.revision \in DOMAIN Digests(b.path) /\ Digests(b.path)[b.revision] = b.digest

(* What a runtime knows to have been in a file, and a recorded rewind or   *)
(* compaction of another one has removed since, it does not bring back     *)
(* with an append.                                                         *)
RemovedStays ==
    [][\A r \in Runtime, p \in DOMAIN disk :
          r \in Holders(p) /\ persisted[r].path = p /\ Sound(persisted[r])
          /\ job[r].mode # "force" /\ Last(job[r].todo) = "record" =>
             Removed(p) \cap Messages(persisted[r].digest) \cap Messages(Stored(p)')
                \subseteq Messages(Stored(p))]_saveVars

(* The store implements what it promises of a session file.                *)
KnownTo(r) ==
    CASE stage[r] = "loading" /\ job[r].path = main -> job[r].msgs
      [] stage[r] # "loading" /\ persisted[r].ok /\ persisted[r].path = main -> persisted[r].digest
      [] OTHER -> NoTranscript

Promise == INSTANCE SessionFile WITH
    Transcript <- Text, NoFile <- NoTranscript,
    stored <- Stored(main), known <- [r \in Runtime |-> KnownTo(r)]

ImplementsPromise == Promise!Spec
================================================================================
