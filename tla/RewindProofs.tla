------------------------------ MODULE RewindProofs ------------------------------
(***************************************************************************)
(* What is proved of Rewind for any files and number of turns, rewinds and *)
(* faults.                                                                 *)
(***************************************************************************)
EXTENDS Rewind, TLAPS, WellFoundedInduction

(* Records are of turns that were begun, and a turn in memory has one.     *)
Numbered ==
    /\ manifest \in [next : 0..MaxTurn, retired : SUBSET Turn]
    /\ live \subseteq DOMAIN record
    /\ \A t \in DOMAIN record : t \in Nat /\ t < manifest.next
    /\ \A t \in retired : t \in Int /\ t < manifest.next

(* While a store is loaded, the records it does not show are retired.      *)
Shown == IF pc = "down" THEN live = {} ELSE DOMAIN record \ live \subseteq manifest.retired

(* A record that lies about after its turn was retired is in the range.    *)
Tombstones == DOMAIN record \cap retired \subseteq manifest.retired

(* The number given out last is new.                                       *)
Fresh == pc = "register" => manifest.next > 0 /\ Allocated \notin retired

(* What the controller was asked for is one of the things it can do.       *)
Kind == {"open", "turn", "compact", "rewind"}
Asked ==
    /\ op = [request |-> op.request, turn |-> op.turn, todo |-> op.todo,
             before |-> op.before, doomed |-> op.doomed]
    /\ op.request.kind \in Kind

(* The records that are about to be deleted are not shown.                 *)
Doomed == pc = "collect" => op.doomed \cap live = {}

IInv == Asked /\ Doomed /\ Numbered /\ Shown /\ Tombstones /\ Fresh /\ RetiredStaysGone

-----------------------------------------------------------------------------
LEMMA Init_IInv == Init => IInv
BY TurnAssumption
   DEF Init, StoreInit, Idle, Open, IInv, Asked, Kind, Numbered, Shown, Tombstones, Fresh, Doomed, RetiredStaysGone, Turn

(* Most steps leave the store and its numbers alone.                       *)
LEMMA Elsewhere ==
    ASSUME IInv, UNCHANGED <<record, manifest, live, retired>>, Asked',
           pc' \notin {"register", "collect", "down"}, pc # "down"
    PROVE  IInv'
BY DEF IInv, Numbered, Shown, Tombstones, Fresh, Doomed, RetiredStaysGone

(* Where the controller goes, and that it still knows what it was asked.   *)
LEMMA EnterAsked ==
    ASSUME NEW interrupted, NEW pending, NEW request, request.kind \in Kind,
           Enter(interrupted, pending, request)
    PROVE  Asked' /\ pc' \notin {"register", "collect"} /\ pc' # "down"
<1>1. pc' \in {"recover", "publish", "idle", "allocate", "compact", "preflight"}
  BY DEF Enter, Doing, Kind
<1>2. op' = Idle \/ op' = [Idle EXCEPT !.request = request]  BY DEF Enter
<1>3. Idle.request.kind \in Kind /\ [Idle EXCEPT !.request = request].request = request
  BY DEF Idle, Open, Kind
<1>4. op'.request.kind \in Kind  BY <1>2, <1>3
<1>5. op' = [request |-> op'.request, turn |-> op'.turn, todo |-> op'.todo,
             before |-> op'.before, doomed |-> op'.doomed]
  BY <1>2 DEF Idle
<1> QED BY <1>1, <1>4, <1>5 DEF Asked

LEMMA GoAsked == ASSUME Asked, NEW p, Go(p) PROVE Asked' /\ pc' = p
BY DEF Go, Asked

LEMMA RestAsked == Rest => Asked' /\ pc' = "idle"
BY DEF Rest, Asked, Idle, Open, Kind

LEMMA RestoreAsked == ASSUME Asked, NEW p, NEW t, BeginRestore(p, t) PROVE Asked' /\ pc' = p
BY DEF BeginRestore, Asked

LEMMA RetireAsked == ASSUME Asked, NEW t, GoRetire(t) PROVE Asked' /\ pc' = "retire"
BY DEF GoRetire, Asked

LEMMA FilesAsked == ASSUME Asked, AfterFiles PROVE Asked' /\ pc' \in {"advance", "retire"}
BY GoAsked, RetireAsked DEF AfterFiles

(* The range of a retirement holds what it held, and every turn it retires.*)
LEMMA RangeCovers ==
    ASSUME Numbered, NEW t
    PROVE  /\ RetiredRange(t) \subseteq Turn
           /\ manifest.retired \subseteq RetiredRange(t)
           /\ From(t) \subseteq RetiredRange(t)
BY TurnAssumption DEF Numbered, RetiredRange, From, Turn

-----------------------------------------------------------------------------
(* The steps of the controller that do not write the store.                *)
Asking == \/ AskTurn \/ AskCompact
          \/ \E t \in Turn, code, conversation \in BOOLEAN : AskRewind(t, code, conversation)
Recovering == RecoverTurn \/ Strip \/ Anchor \/ Unmark
Rewinding == Preflight \/ Publish \/ Republish \/ Advance \/ Clear \/ FinishRestore \/ Compact
Turning == \/ Arm \/ Say \/ Autosave \/ EndTurn \/ FailTurn
           \/ Save \/ SaveAnchor \/ Commit \/ Finish

LEMMA Asking_IInv == IInv /\ Asking => IInv'
<1> SUFFICES ASSUME IInv, Asking PROVE IInv'  OBVIOUS
<1>1. CASE AskTurn
  <2>1. Enter(Interrupted, Pending, [Open EXCEPT !.kind = "turn"])  BY <1>1 DEF AskTurn
  <2>2. [Open EXCEPT !.kind = "turn"].kind \in Kind  BY DEF Open, Kind
  <2>3. Asked' /\ pc' \notin {"register", "collect", "down"}  BY <2>1, <2>2, EnterAsked
  <2> QED BY <1>1, <2>3, Elsewhere DEF AskTurn, storeVars, diskVars, ghostVars
<1>2. CASE AskCompact
  <2>1. Enter(Interrupted, Pending, [Open EXCEPT !.kind = "compact"])  BY <1>2 DEF AskCompact
  <2>2. [Open EXCEPT !.kind = "compact"].kind \in Kind  BY DEF Open, Kind
  <2>3. Asked' /\ pc' \notin {"register", "collect", "down"}  BY <2>1, <2>2, EnterAsked
  <2> QED BY <1>2, <2>3, Elsewhere DEF AskCompact, storeVars, diskVars, ghostVars
<1>3. ASSUME NEW t \in Turn, NEW code \in BOOLEAN, NEW conversation \in BOOLEAN,
             AskRewind(t, code, conversation)
      PROVE  IInv'
  <2> DEFINE r == [kind |-> "rewind", turn |-> t, code |-> code, conversation |-> conversation]
  <2>1. Enter(Interrupted, Pending, r)  BY <1>3 DEF AskRewind
  <2>2. r.kind \in Kind  BY DEF Kind
  <2>3. Asked' /\ pc' \notin {"register", "collect", "down"}
    <3> HIDE DEF r
    <3> QED BY <2>1, <2>2, EnterAsked
  <2> QED BY <1>3, <2>3, Elsewhere DEF AskRewind, storeVars, diskVars, ghostVars
<1> QED BY <1>1, <1>2, <1>3 DEF Asking

LEMMA Recovering_IInv == IInv /\ Recovering => IInv'
<1> SUFFICES ASSUME IInv, Recovering PROVE IInv'  OBVIOUS
<1>1. Asked /\ op.request.kind \in Kind  BY DEF IInv, Asked
<1>2. UNCHANGED <<record, manifest, live, retired>>
  BY DEF Recovering, RecoverTurn, Strip, Anchor, Unmark, storeVars, diskVars, ghostVars
<1>3. Asked' /\ pc' \notin {"register", "collect", "down"} /\ pc # "down"
  <2>1. CASE RecoverTurn
    BY <2>1, <1>1, GoAsked, RestAsked, RestoreAsked DEF RecoverTurn
  <2>2. CASE Strip \/ Anchor
    BY <2>2, <1>1, GoAsked DEF Strip, Anchor
  <2>3. CASE Unmark
    BY <2>3, <1>1, EnterAsked DEF Unmark
  <2> QED BY <2>1, <2>2, <2>3 DEF Recovering
<1> QED BY <1>2, <1>3, Elsewhere

LEMMA Rewinding_IInv == IInv /\ Rewinding => IInv'
<1> SUFFICES ASSUME IInv, Rewinding PROVE IInv'  OBVIOUS
<1>1. Asked /\ op.request.kind \in Kind  BY DEF IInv, Asked
<1>2. UNCHANGED <<record, manifest, live, retired>>
  BY DEF Rewinding, Preflight, Publish, Republish, Advance, Clear, FinishRestore, Compact,
         storeVars, diskVars, ghostVars
<1>3. Asked' /\ pc' \notin {"register", "collect", "down"} /\ pc # "down"
  <2>1. CASE Preflight
    <3>1. CASE BeginRestore("code", op.request.turn) \/ Rest
      BY <2>1, <3>1, <1>1, RestAsked, RestoreAsked DEF Preflight
    <3>2. CASE pc' = "publish" /\ op' = Idle
      BY <2>1, <3>2 DEF Preflight, Asked, Idle, Open, Kind
    <3> QED BY <2>1, <3>1, <3>2 DEF Preflight
  <2>2. CASE Publish \/ Advance \/ Compact
    BY <2>2, <1>1, GoAsked, RestAsked, RetireAsked DEF Publish, Advance, Compact
  <2>3. CASE Republish \/ FinishRestore
    BY <2>3, <1>1, GoAsked, RestAsked, RestoreAsked, FilesAsked DEF Republish, FinishRestore
  <2>4. CASE Clear
    BY <2>4, <1>1, EnterAsked DEF Clear
  <2> QED BY <2>1, <2>2, <2>3, <2>4 DEF Rewinding
<1> QED BY <1>2, <1>3, Elsewhere

LEMMA Turning_IInv == IInv /\ Turning => IInv'
<1> SUFFICES ASSUME IInv, Turning PROVE IInv'  OBVIOUS
<1>1. UNCHANGED <<record, manifest, live, retired>>
  BY DEF Turning, Arm, Say, Autosave, EndTurn, FailTurn, Save, SaveAnchor, Commit, Finish,
         storeVars, diskVars, ghostVars
<1>2. Asked' /\ pc' \notin {"register", "collect", "down"} /\ pc # "down"
  <2>1. CASE Autosave  BY <2>1 DEF Autosave, IInv, Asked
  <2>2. CASE ~ Autosave
    BY <2>2, GoAsked, RestAsked
       DEF IInv, Turning, Arm, Say, EndTurn, FailTurn, Save, SaveAnchor, Commit, Finish
  <2> QED BY <2>1, <2>2
<1> QED BY <1>1, <1>2, Elsewhere

-----------------------------------------------------------------------------
(* Loading shows what is not retired; a death shows nothing.               *)
LEMMA Resume_IInv == IInv /\ (Resume \/ Crash) => IInv'
<1> SUFFICES ASSUME IInv, Resume \/ Crash PROVE IInv'  OBVIOUS
<1> USE DEF storeVars, diskVars, ghostVars
<1>1. CASE Resume
  <2>1. Open.kind \in Kind  BY DEF Open, Kind
  <2>2. Asked' /\ pc' \notin {"register", "collect", "down"}  BY <1>1, <2>1, EnterAsked DEF Resume
  <2>3. live' = DOMAIN record \ manifest.retired /\ UNCHANGED <<record, manifest, retired>>
    BY <1>1 DEF Resume, Load
  <2> QED BY <2>2, <2>3 DEF IInv, Numbered, Shown, Tombstones, Fresh, Doomed, RetiredStaysGone
<1>2. CASE Crash
  <2>1. Asked'  BY <1>2 DEF Crash, Asked, Idle, Open, Kind
  <2>2. live' = {} /\ pc' = "down" /\ UNCHANGED <<record, manifest, retired>>  BY <1>2 DEF Crash
  <2> QED BY <2>1, <2>2 DEF IInv, Numbered, Shown, Tombstones, Fresh, Doomed, RetiredStaysGone
<1> QED BY <1>1, <1>2

(* A number is above all those retired until its record is there.          *)
LEMMA Allocate_IInv == IInv /\ AllocateTurn => IInv'
<1> SUFFICES ASSUME IInv, AllocateTurn PROVE IInv'  OBVIOUS
<1> USE DEF storeVars, diskVars, ghostVars
<1>1. Asked'  BY DEF AllocateTurn, Asked, Idle, Open, Kind
<1>2. /\ manifest' = [manifest EXCEPT !.next = @ + 1] /\ manifest.next < MaxTurn
      /\ UNCHANGED <<record, live, retired>> /\ pc = "allocate" /\ pc' = "register"
  BY DEF AllocateTurn, Allocate
<1>3. /\ manifest'.next = manifest.next + 1 /\ manifest'.retired = manifest.retired
      /\ manifest' \in [next : 0..MaxTurn, retired : SUBSET Turn]
  BY <1>2, TurnAssumption DEF IInv, Numbered
<1>4. Numbered'  BY <1>2, <1>3, TurnAssumption DEF IInv, Numbered
<1>5. manifest.next \in Nat /\ manifest.next \notin retired  BY TurnAssumption DEF IInv, Numbered
<1>6. Fresh'  BY <1>2, <1>3, <1>5 DEF Fresh, Allocated
<1> QED BY <1>1, <1>2, <1>3, <1>4, <1>6 DEF IInv, Shown, Tombstones, Doomed, RetiredStaysGone

LEMMA Register_IInv == IInv /\ RegisterTurn => IInv'
<1> SUFFICES ASSUME IInv, RegisterTurn PROVE IInv'  OBVIOUS
<1>1. Asked' /\ pc' = "arm" /\ pc = "register"  BY GoAsked DEF RegisterTurn, IInv
<1>2. /\ DOMAIN record' = DOMAIN record \cup {Allocated}
      /\ live' = live \cup {Allocated} /\ UNCHANGED <<manifest, retired>>
  BY DEF RegisterTurn, Register
<1>3. Allocated \in Nat /\ Allocated < manifest.next /\ Allocated \notin retired
  BY <1>1, TurnAssumption DEF IInv, Numbered, Fresh, Allocated
<1>4. Numbered'  BY <1>2, <1>3 DEF IInv, Numbered
<1> QED BY <1>1, <1>2, <1>3, <1>4 DEF IInv, Shown, Tombstones, Fresh, Doomed, RetiredStaysGone

(* Files are recorded and written.                                         *)
LEMMA Files_IInv ==
    ASSUME IInv, NEW f \in File, RestoreFile(f) \/ Touch(f) \/ Edit(f)
    PROVE  IInv'
<1> USE DEF storeVars, diskVars, ghostVars
<1>1. /\ DOMAIN record' = DOMAIN record /\ UNCHANGED <<manifest, live, retired>>
      /\ pc \notin {"down", "register"} /\ pc' \notin {"down", "register", "collect"}
  BY DEF RestoreFile, Touch, Edit, Snapshot, Restore
<1>2. Asked'  BY DEF IInv, RestoreFile, Touch, Edit, Asked
<1> QED BY <1>1, <1>2 DEF IInv, Numbered, Shown, Tombstones, Fresh, Doomed, RetiredStaysGone

(* The manifest has every turn that goes, and whose record may stay.       *)
LEMMA RetireTurns_IInv == IInv /\ RetireTurns => IInv'
<1> SUFFICES ASSUME IInv, RetireTurns PROVE IInv'  OBVIOUS
<1> DEFINE t == op.turn
<1> USE DEF storeVars, diskVars, ghostVars
<1>1. /\ Retire(t) /\ pc = "retire" /\ pc' = "collect"
      /\ retired' = retired \cup (t..(manifest.next - 1))
      /\ op' = [op EXCEPT !.doomed = From(t)]
  BY DEF RetireTurns
<1>2. Asked'  BY <1>1 DEF IInv, Asked
<1> HIDE DEF t
<1>3. /\ record' = record /\ live' = live \ From(t) /\ manifest'.next = manifest.next
      /\ manifest' \in [next : 0..MaxTurn, retired : SUBSET Turn]
      /\ manifest.retired \subseteq manifest'.retired /\ From(t) \subseteq manifest'.retired
  <2>1. Numbered  BY DEF IInv
  <2>2. CASE From(t) = {}  BY <1>1, <2>1, <2>2 DEF Retire, Numbered
  <2>3. CASE From(t) # {}
    BY <1>1, <2>1, <2>3, RangeCovers DEF Retire, Numbered
  <2> QED BY <2>2, <2>3
<1>4. manifest.next \in Nat /\ \A u \in DOMAIN record : u \in Nat /\ u < manifest.next
  BY TurnAssumption DEF IInv, Numbered
<1>5. \A u \in t..(manifest.next - 1) : u \in Int /\ u < manifest.next /\ u >= t
  BY <1>4
<1>6. Numbered'  BY <1>1, <1>3, <1>5 DEF IInv, Numbered
<1>7. \A u \in live \ From(t) : ~ (u >= t)  BY DEF From
<1>8. RetiredStaysGone'  BY <1>1, <1>3, <1>5, <1>7 DEF IInv, RetiredStaysGone
<1>9. Tombstones'
  <2> SUFFICES ASSUME NEW u \in DOMAIN record, u \in retired \/ u >= t
               PROVE  u \in manifest'.retired
    BY <1>1, <1>3, <1>5 DEF Tombstones
  <2>1. CASE u \in retired  BY <2>1, <1>3 DEF IInv, Tombstones
  <2>2. CASE u >= t /\ u \in live  BY <2>2, <1>3 DEF From
  <2>3. CASE u \notin live  BY <2>3, <1>1, <1>3 DEF IInv, Shown
  <2> QED BY <2>1, <2>2, <2>3
<1>10. Doomed'  BY <1>1, <1>2, <1>3 DEF Doomed, Asked, IInv
<1> QED BY <1>1, <1>2, <1>3, <1>6, <1>8, <1>9, <1>10 DEF IInv, Shown, Fresh

(* Only records that are not shown are deleted.                            *)
LEMMA Collect_IInv == IInv /\ Collect => IInv'
<1> SUFFICES ASSUME IInv, Collect PROVE IInv'  OBVIOUS
<1>1. PICK left \in SUBSET op.doomed : Delete(op.doomed \ left)  BY DEF Collect
<1>2. UNCHANGED <<manifest, live, retired>> /\ pc = "collect"
  BY DEF Collect, ghostVars
<1>3. DOMAIN record' = DOMAIN record \ (op.doomed \ left)  BY <1>1 DEF Delete
<1>4. Asked' /\ pc' \in {"idle", "clear"}  BY RestAsked, GoAsked DEF Collect, IInv
<1> QED BY <1>2, <1>3, <1>4
        DEF IInv, Numbered, Shown, Tombstones, Fresh, Doomed, RetiredStaysGone

(* A write that fails leaves the numbers and the records known.            *)
LEMMA Fails_IInv == IInv /\ WriteFails => IInv'
<1> SUFFICES ASSUME IInv, WriteFails PROVE IInv'  OBVIOUS
<1> USE DEF storeVars, diskVars, ghostVars
<1>1. UNCHANGED retired  BY DEF WriteFails
<1>2. CASE StepFails \/ RewriteFails \/ RestoreFails
  <2>1. UNCHANGED <<record, manifest, live>> /\ pc # "down"
    BY <1>2 DEF StepFails, RewriteFails, RestoreFails
  <2>2. Asked' /\ pc' = "idle"
    BY <1>2, RestAsked DEF StepFails, RewriteFails, RestoreFails
  <2> QED BY <1>1, <2>1, <2>2, Elsewhere
<1>3. CASE CommitFails \/ MarkFails
  <2>1. UNCHANGED <<record, manifest, live>> /\ pc # "down"
    BY <1>3 DEF CommitFails, MarkFails
  <2>2. Asked' /\ pc' \in {"recover", "retire"}
    BY <1>3, GoAsked, RetireAsked DEF IInv, CommitFails, MarkFails
  <2> QED BY <1>1, <2>1, <2>2, Elsewhere
<1>4. ASSUME NEW f \in File, TouchFails(f) PROVE IInv'
  <2>1. /\ DOMAIN record' = DOMAIN record /\ UNCHANGED <<manifest, live>>
        /\ pc = "running" /\ pc' = "running"
    BY <1>4 DEF TouchFails, Snapshot, Go
  <2>2. Asked'  BY <1>4, GoAsked DEF IInv, TouchFails
  <2> QED BY <1>1, <2>1, <2>2
          DEF IInv, Numbered, Shown, Tombstones, Fresh, Doomed, RetiredStaysGone
<1> QED BY <1>2, <1>3, <1>4 DEF WriteFails

LEMMA Next_IInv == IInv /\ [Next]_vars => IInv'
<1> SUFFICES ASSUME IInv, [Next]_vars PROVE IInv'  OBVIOUS
<1>1. CASE UNCHANGED vars
  BY <1>1 DEF vars, storeVars, diskVars, ghostVars, IInv, Asked, Numbered, Shown, Tombstones,
              Fresh, Doomed, RetiredStaysGone, Allocated
<1>2. CASE Resume \/ Crash  BY <1>2, Resume_IInv
<1>3. CASE Asking  BY <1>3, Asking_IInv
<1>4. CASE Recovering  BY <1>4, Recovering_IInv
<1>5. CASE Rewinding  BY <1>5, Rewinding_IInv
<1>6. CASE RetireTurns \/ Collect  BY <1>6, RetireTurns_IInv, Collect_IInv
<1>7. CASE AllocateTurn \/ RegisterTurn  BY <1>7, Allocate_IInv, Register_IInv
<1>8. CASE Turning  BY <1>8, Turning_IInv
<1>9. CASE \E f \in File : RestoreFile(f) \/ Touch(f) \/ Edit(f)  BY <1>9, Files_IInv
<1>10. CASE WriteFails  BY <1>10, Fails_IInv
<1> QED
  BY <1>1, <1>2, <1>3, <1>4, <1>5, <1>6, <1>7, <1>8, <1>9, <1>10
     DEF Next, Asking, Recovering, Rewinding, Turning

(* The numbers of the turns, the range of the manifest, what is shown and  *)
(* what is retired fit together in every state.                            *)
THEOREM Invariance == Spec => []IInv
BY Init_IInv, Next_IInv, PTL DEF Spec

(* No turn that a rewind has retired is offered again, whenever the process*)
(* dies and whichever records could not be deleted (TruncateFrom, load).   *)
THEOREM RetiredTurnsStayGone == Spec => []RetiredStaysGone
<1>1. IInv => RetiredStaysGone  BY DEF IInv
<1> QED BY <1>1, Invariance, PTL

-----------------------------------------------------------------------------
(* The rest builds on this invariant in layers.  First, what the variables *)
(* look like, and who does what when.                                      *)
Line == Nat \X {"prompt", "answer", "summary"}

InRestore == {"undo", "rewind", "code"}
FileMap(m) == m = [f \in File |-> m[f]]
RecordMap ==
    /\ record = [t \in DOMAIN record |-> record[t]]
    /\ \A t \in DOMAIN record : /\ record[t] = [text |-> record[t].text, files |-> record[t].files]
                                /\ record[t].text \in Seq(Line)
StartMap ==
    \A p \in DOMAIN start : p \in Nat \X File /\ p[1] < manifest.next
Shapes ==
    /\ FileMap(file) /\ (pc \in InRestore => FileMap(op.before))
    /\ RecordMap
    /\ text \in Seq(Line) /\ saved \in Seq(Line)
    /\ marker = [turn |-> marker.turn, commit |-> marker.commit]
    /\ journal = [turn |-> journal.turn, text |-> journal.text, code |-> journal.code,
                  phase |-> journal.phase]
    /\ journal.text \in Seq(Line)
    /\ journal.phase \in {"none", "prepared", "applied"}
    /\ StartMap
    /\ wrote \subseteq File
    /\ \A t \in manifest.retired : t < manifest.next

(* A turn is marked while it runs or is undone; a rewind is journaled; the *)
(* two never at the same time.                                             *)
InTurn == {"running", "editing", "save", "saveAnchor", "commit", "finish"}
InRecovery == {"recover", "undo", "strip", "anchor", "unmark"}
InStart == {"allocate", "register", "arm", "compact", "preflight", "code"}
InRewind == {"publish", "republish", "rewind", "advance", "clear"}
InRetirement == {"retire", "collect"}
Where ==
    /\ pc \in InTurn \cup InRecovery \cup InStart \cup InRewind \cup InRetirement \cup {"down", "idle"}
    /\ pc \in InTurn \cup InRecovery => marker # NoMarker
    /\ pc \in InStart => marker = NoMarker /\ journal = NoJournal
    /\ pc \in InRewind => journal # NoJournal
    /\ pc \in InRetirement => marker = NoMarker
    /\ marker # NoMarker => marker.turn = LastTurn /\ journal = NoJournal
    /\ journal # NoJournal =>
          /\ journal.phase # "none"
          /\ journal.turn \in Nat /\ journal.turn < manifest.next
          /\ pc \in InRewind \cup InRetirement \cup {"down", "idle"}
    /\ op.request.kind = "rewind" => op.request.turn \in Nat /\ op.request.turn < manifest.next
    /\ pc = "preflight" => op.request.kind = "rewind"
    /\ pc = "retire" => op.turn \in Nat /\ op.turn < manifest.next

(* The number of the turn that runs or is to be undone is no tombstone.    *)
Current ==
    /\ pc = "register" => Allocated \notin DOMAIN record
    /\ pc \in {"register", "arm"} \/ marker # NoMarker =>
          LastTurn \in Nat /\ LastTurn \notin retired /\ LastTurn \notin manifest.retired
    /\ pc = "arm" \/ marker # NoMarker => LastTurn \in DOMAIN record
    /\ pc \in {"arm"} \cup InTurn => cur = LastTurn /\ cur \in live

Framed == Shapes /\ Where /\ Current

LEMMA Init_Framed == Init => Framed
<1> SUFFICES ASSUME Init PROVE Framed  OBVIOUS
<1> USE DEF Init, StoreInit, Idle, Open, NoJournal, NoMarker
<1>1. Shapes
  BY DEF Shapes, FileMap, RecordMap, StartMap, InRestore
<1>2. Where
  BY DEF Where, InTurn, InRecovery, InStart, InRewind, InRetirement
<1>3. Current
  BY DEF Current, InTurn
<1> QED BY <1>1, <1>2, <1>3 DEF Framed

-----------------------------------------------------------------------------
(* Who does what when.                                                     *)
LEMMA EnterWhere ==
    ASSUME NEW interrupted, NEW pending, NEW request, request.kind \in Kind,
           Enter(interrupted, pending, request)
    PROVE  /\ interrupted => pc' = "recover"
           /\ ~ interrupted /\ pending => pc' = "publish"
           /\ ~ interrupted /\ ~ pending => pc' = Doing[request.kind]
           /\ pc' = "preflight" => request.kind = "rewind"
           /\ Doing[request.kind] \in {"idle", "allocate", "compact", "preflight"}
           /\ op'.request \in {request, Open}
BY DEF Enter, Doing, Kind, Idle, Open

LEMMA Asking_Where == IInv /\ Where /\ (Asking \/ Resume \/ Crash) => Where'
<1> SUFFICES ASSUME IInv, Where, Asking \/ Resume \/ Crash PROVE Where'  OBVIOUS
<1> USE DEF InTurn, InRecovery, InStart, InRewind, InRetirement, storeVars, diskVars, metaVars
<1>1. CASE AskTurn
  <2> DEFINE r == [Open EXCEPT !.kind = "turn"]
  <2>1. r.kind \in Kind /\ r.kind = "turn" /\ Open.kind = "open"  BY DEF Open, Kind
  <2>2. Enter(Interrupted, Pending, r)  BY <1>1 DEF AskTurn
  <2> HIDE DEF r
  <2> QED BY <1>1, <2>1, <2>2, EnterWhere DEF AskTurn, Where, Interrupted, Pending, LastTurn
<1>2. CASE AskCompact
  <2> DEFINE r == [Open EXCEPT !.kind = "compact"]
  <2>1. r.kind \in Kind /\ r.kind = "compact" /\ Open.kind = "open"  BY DEF Open, Kind
  <2>2. Enter(Interrupted, Pending, r)  BY <1>2 DEF AskCompact
  <2> HIDE DEF r
  <2> QED BY <1>2, <2>1, <2>2, EnterWhere DEF AskCompact, Where, Interrupted, Pending, LastTurn
<1>3. ASSUME NEW t \in Turn, NEW code \in BOOLEAN, NEW conversation \in BOOLEAN,
             AskRewind(t, code, conversation)
      PROVE  Where'
  <2> DEFINE r == [kind |-> "rewind", turn |-> t, code |-> code, conversation |-> conversation]
  <2>1. r.kind = "rewind" /\ r.kind \in Kind /\ r.turn = t /\ Open.kind = "open"
    BY DEF Open, Kind
  <2>2. Enter(Interrupted, Pending, r) /\ t \in Nat /\ t < manifest.next
    BY <1>3, TurnAssumption DEF AskRewind, Turn
  <2> HIDE DEF r
  <2>3. UNCHANGED <<manifest, marker, journal>>  BY <1>3 DEF AskRewind
  <2>4. op'.request.kind = "rewind" => op'.request.turn = t  BY <2>1, <2>2, EnterWhere
  <2>5. pc' \in {"recover", "publish", "preflight"}
        /\ (pc' = "recover" <=> Interrupted) /\ (pc' = "publish" <=> ~ Interrupted /\ Pending)
        /\ (pc' = "preflight" => op'.request.kind = "rewind")
    BY <2>1, <2>2 DEF Enter, Doing, Idle
  <2> QED BY <1>3, <2>2, <2>3, <2>4, <2>5 DEF AskRewind, Where, Interrupted, Pending, LastTurn
<1>4. CASE Resume
  <2>1. Open.kind \in Kind /\ Open.kind = "open"  BY DEF Open, Kind
  <2>2. Enter(Interrupted, Pending, Open)  BY <1>4 DEF Resume
  <2> QED BY <1>4, <2>1, <2>2, EnterWhere DEF Resume, Load, Where, Interrupted, Pending, LastTurn
<1>5. CASE Crash
  BY <1>5 DEF Crash, Where, Idle, Open, LastTurn
<1> QED BY <1>1, <1>2, <1>3, <1>4, <1>5 DEF Asking

LEMMA RequestKept ==
    ASSUME Asked, NEW p, NEW t, BeginRestore(p, t)
    PROVE  pc' = p /\ op'.request = op.request /\ op'.turn = t
                   /\ op'.todo = ChangedFrom(t) /\ op'.before = file
BY DEF BeginRestore, Asked

LEMMA RestRequest == Rest => pc' = "idle" /\ op'.request = Open
BY DEF Rest, Idle

LEMMA Recovering_Where == IInv /\ Framed /\ Recovering => Where'
<1> SUFFICES ASSUME IInv, Framed, Recovering PROVE Where'  OBVIOUS
<1> USE DEF InTurn, InRecovery, InStart, InRewind, InRetirement, storeVars, diskVars, metaVars
<1>1. Where /\ Asked  BY DEF Framed, IInv
<1>2. CASE RecoverTurn
  <2>1. op'.request \in {op.request, Open}
    BY <1>1, <1>2, RequestKept, RestRequest DEF RecoverTurn, Go
  <2>2. pc' \in {"unmark", "undo", "idle"} /\ pc = "recover"
        /\ UNCHANGED <<manifest, marker, journal>>
    BY <1>2 DEF RecoverTurn, Go, Rest, BeginRestore
  <2> QED BY <1>1, <2>1, <2>2 DEF Where, LastTurn, Open
<1>3. CASE Strip \/ Anchor
  BY <1>1, <1>3 DEF Strip, Anchor, Go, Where, LastTurn
<1>4. CASE Unmark
  <2>1. op.request.kind \in Kind /\ Open.kind = "open"  BY <1>1 DEF Asked, Open
  <2>2. Enter(FALSE, Pending, op.request)  BY <1>4 DEF Unmark
  <2>3. journal = NoJournal  BY <1>1, <1>4 DEF Where, Unmark
  <2>4. pc' = Doing[op.request.kind] /\ pc' \in {"idle", "allocate", "compact", "preflight"}
    BY <2>1, <2>2, <2>3, EnterWhere DEF Pending
  <2>5. pc' = "preflight" => op'.request.kind = "rewind"
    BY <2>1, <2>2, <2>4 DEF Enter, Idle, Doing, Kind
  <2>6. op'.request \in {op.request, Open}  BY <2>1, <2>2, EnterWhere
  <2>7. UNCHANGED <<manifest, journal>> /\ marker' = NoMarker  BY <1>4 DEF Unmark
  <2> QED BY <1>1, <2>1, <2>3, <2>4, <2>5, <2>6, <2>7 DEF Where, LastTurn
<1> QED BY <1>2, <1>3, <1>4 DEF Recovering

(* A step that only goes on elsewhere.                                     *)
LEMMA MoveWhere ==
    ASSUME Where, UNCHANGED <<manifest, marker, journal>>, op'.request \in {op.request, Open},
           pc' \in InTurn \cup InRecovery \cup InStart \cup InRewind \cup InRetirement \cup {"down", "idle"},
           pc' \in InTurn \cup InRecovery => marker # NoMarker,
           pc' \in InStart => marker = NoMarker /\ journal = NoJournal,
           pc' \in InRewind => journal # NoJournal,
           pc' \in InRetirement => marker = NoMarker,
           journal # NoJournal => pc' \in InRewind \cup InRetirement \cup {"down", "idle"},
           pc' = "preflight" => pc = "preflight" /\ op'.request = op.request,
           pc' = "retire" => op'.turn \in Nat /\ op'.turn < manifest.next
    PROVE  Where'
<1>1. op'.request.kind = "rewind" => op'.request.turn \in Nat /\ op'.request.turn < manifest.next
  BY DEF Where, Open
<1>2. LastTurn' = LastTurn  BY DEF LastTurn
<1> QED BY <1>1, <1>2 DEF Where

LEMMA Rewinding_Where == IInv /\ Framed /\ Rewinding => Where'
<1> SUFFICES ASSUME IInv, Framed, Rewinding PROVE Where'  OBVIOUS
<1> USE DEF InTurn, InRecovery, InStart, InRewind, InRetirement, storeVars, diskVars, metaVars
<1>1. Where /\ Asked /\ Shapes  BY DEF Framed, IInv
<1>2. CASE Preflight
  <2>1. op.request.turn \in Nat /\ op.request.turn < manifest.next
    BY <1>1, <1>2 DEF Where, Preflight
  <2>2. CASE journal' = journal
    <3>1. op'.request \in {op.request, Open} /\ pc' \in {"code", "idle"} /\ pc = "preflight"
      <4>1. CASE BeginRestore("code", op.request.turn)
        BY <1>1, <1>2, <4>1, RequestKept DEF Preflight
      <4>2. CASE Rest
        BY <1>2, <4>2, RestRequest DEF Preflight
      <4>3. op.request.conversation /\ Rewindable(op.request.turn) => FALSE
        BY <1>1, <1>2, <2>2 DEF Preflight, Where, NoJournal
      <4> QED BY <1>2, <4>1, <4>2, <4>3 DEF Preflight
    <3>2. UNCHANGED <<manifest, marker, journal>>  BY <1>2, <2>2 DEF Preflight
    <3> QED BY <1>1, <3>1, <3>2, MoveWhere DEF Where
  <2>3. CASE journal' # journal
    <3>1. /\ journal' = [turn |-> op.request.turn, text |-> record[op.request.turn].text,
                         code |-> op.request.code, phase |-> "prepared"]
          /\ pc' = "publish" /\ op' = Idle /\ UNCHANGED <<manifest, marker>>
      BY <1>2, <2>3 DEF Preflight
    <3>2. journal'.phase = "prepared" /\ journal'.turn = op.request.turn /\ journal' # NoJournal
      BY <3>1 DEF NoJournal
    <3>3. op'.request.kind = "open"  BY <3>1 DEF Idle, Open
    <3>4. marker = NoMarker  BY <1>1, <1>2 DEF Where, Preflight
    <3> QED BY <2>1, <3>1, <3>2, <3>3, <3>4 DEF Where
  <2> QED BY <2>2, <2>3
<1>3. CASE Publish \/ FinishRestore \/ Compact
  <2>1. CASE Publish \/ Compact
    BY <1>1, <2>1, MoveWhere DEF Publish, Compact, Go, Rest, Idle, Where
  <2>2. CASE FinishRestore
    <3>1. op'.request \in {op.request, Open} /\ UNCHANGED <<manifest, marker, journal>>
      BY <1>1, <2>2 DEF FinishRestore, Go, Rest, AfterFiles, GoRetire, Asked, Idle
    <3>2. CASE pc = "rewind"
      <4>1. pc' = "advance" \/ (pc' = "retire" /\ op'.turn = journal.turn)
        BY <1>1, <2>2, <3>2 DEF FinishRestore, AfterFiles, Go, GoRetire, Asked
      <4> QED BY <1>1, <3>1, <3>2, <4>1, MoveWhere DEF Where
    <3>3. CASE pc # "rewind"
      BY <1>1, <2>2, <3>1, <3>3, MoveWhere DEF FinishRestore, Go, Rest, Where
    <3> QED BY <3>2, <3>3
  <2> QED BY <1>3, <2>1, <2>2
<1>4. CASE Republish
  <2>1. op'.request = op.request /\ UNCHANGED <<manifest, marker, journal>>
    BY <1>1, <1>4 DEF Republish, BeginRestore, AfterFiles, Go, GoRetire, Asked
  <2>2. pc' \in {"rewind", "advance"} \/ (pc' = "retire" /\ op'.turn = journal.turn)
    BY <1>1, <1>4 DEF Republish, BeginRestore, AfterFiles, Go, GoRetire, Asked
  <2> QED BY <1>1, <1>4, <2>1, <2>2, MoveWhere DEF Republish, Where
<1>5. CASE Advance
  <2>1. /\ journal'.turn = journal.turn /\ journal'.phase = "applied"
        /\ journal # NoJournal /\ journal' # NoJournal /\ pc' = "retire"
    BY <1>1, <1>5 DEF Shapes, Advance, GoRetire, NoJournal, Where
  <2>2. op'.request = op.request /\ op'.turn = journal.turn /\ UNCHANGED <<manifest, marker>>
    BY <1>1, <1>5 DEF Advance, GoRetire, Asked
  <2> QED BY <1>1, <2>1, <2>2 DEF Where, LastTurn
<1>6. CASE Clear
  <2>1. op.request.kind \in Kind  BY <1>1 DEF Asked
  <2>2. Enter(Interrupted, FALSE, op.request)  BY <1>6 DEF Clear
  <2>3. marker = NoMarker /\ ~ Interrupted  BY <1>1, <1>6 DEF Where, Clear, Interrupted
  <2>4. pc' = Doing[op.request.kind] /\ pc' \in {"idle", "allocate", "compact", "preflight"}
    BY <2>1, <2>2, <2>3 DEF Enter, Doing, Kind
  <2>5. pc' = "preflight" => op'.request.kind = "rewind"
    BY <2>1, <2>2, <2>4 DEF Enter, Idle, Doing, Kind
  <2>6. op'.request \in {op.request, Open} /\ Open.kind = "open"  BY <2>1, <2>2, EnterWhere DEF Open
  <2>7. UNCHANGED <<manifest, marker>> /\ journal' = NoJournal  BY <1>6 DEF Clear
  <2> QED BY <1>1, <2>3, <2>4, <2>5, <2>6, <2>7 DEF Where, LastTurn
<1> QED BY <1>2, <1>3, <1>4, <1>5, <1>6 DEF Rewinding

LEMMA Turning_Where == IInv /\ Framed /\ (Turning \/ AllocateTurn \/ RegisterTurn) => Where'
<1> SUFFICES ASSUME IInv, Framed, Turning \/ AllocateTurn \/ RegisterTurn PROVE Where'  OBVIOUS
<1> USE DEF InTurn, InRecovery, InStart, InRewind, InRetirement, storeVars, diskVars, metaVars
<1>1. Where /\ Asked /\ Shapes /\ Current /\ Numbered  BY DEF Framed, IInv
<1>2. CASE Arm
  <2>1. CASE UNCHANGED marker
    <3>1. CASE Rest
      BY <1>1, <1>2, <2>1, <3>1, MoveWhere, RestRequest DEF Arm, Where
    <3>2. CASE Go("running")
      <4>1. marker = NoMarker /\ cur # NoTurn
        BY <1>1, <1>2, TurnAssumption DEF Arm, Where, Current
      <4> QED BY <1>2, <2>1, <3>2, <4>1 DEF Arm, NoMarker, Go, Rest
    <3> QED BY <1>2, <3>1, <3>2 DEF Arm
  <2>2. CASE marker' = [turn |-> cur, commit |-> <<>>] /\ Go("running")
    <3>1. cur = LastTurn /\ journal = NoJournal /\ UNCHANGED <<manifest, journal>> /\ marker' # NoMarker
      BY <1>1, <1>2, <2>2, TurnAssumption DEF Arm, Where, Current, NoMarker
    <3> QED BY <1>1, <2>2, <3>1 DEF Where, Go, LastTurn
  <2> QED BY <1>2, <2>1, <2>2 DEF Arm
<1>3. CASE Say \/ Autosave \/ EndTurn \/ FailTurn \/ Save \/ SaveAnchor
  <2>1. op' = op /\ UNCHANGED <<manifest, marker, journal>>
    BY <1>3 DEF Say, Autosave, EndTurn, FailTurn, Save, SaveAnchor, Go
  <2>2. pc \in InTurn /\ pc' \in InTurn \cup {"recover"}
    BY <1>3 DEF Say, Autosave, EndTurn, FailTurn, Save, SaveAnchor, Go
  <2> QED BY <1>1, <2>1, <2>2, MoveWhere DEF Where
<1>4. CASE Commit
  <2>1. marker'.turn = marker.turn /\ marker # NoMarker /\ journal = NoJournal
    BY <1>1, <1>4 DEF Shapes, Where, Commit
  <2>2. marker' # NoMarker
    BY <1>1, <2>1, TurnAssumption DEF Where, Current, NoMarker
  <2> QED BY <1>1, <1>4, <2>1, <2>2 DEF Commit, Go, Where, LastTurn
<1>5. CASE Finish
  BY <1>1, <1>5 DEF Finish, Rest, Idle, Open, Where
<1>6. CASE AllocateTurn
  <2>1. manifest'.next = manifest.next + 1 /\ manifest.next \in Nat
    BY <1>1, <1>6, TurnAssumption DEF AllocateTurn, Allocate, Numbered
  <2>2. marker = NoMarker /\ journal = NoJournal /\ UNCHANGED <<marker, journal>>
    BY <1>1, <1>6 DEF AllocateTurn, Where
  <2> QED BY <1>1, <1>6, <2>1, <2>2 DEF AllocateTurn, Idle, Open, Where
<1>7. CASE RegisterTurn
  BY <1>1, <1>7, MoveWhere DEF RegisterTurn, Register, Go, Where
<1> QED BY <1>2, <1>3, <1>4, <1>5, <1>6, <1>7 DEF Turning

LEMMA Retiring_Where == IInv /\ Framed /\ (RetireTurns \/ Collect) => Where'
<1> SUFFICES ASSUME IInv, Framed, RetireTurns \/ Collect PROVE Where'  OBVIOUS
<1> USE DEF InTurn, InRecovery, InStart, InRewind, InRetirement, storeVars, diskVars, metaVars
<1>1. Where /\ Asked /\ Numbered  BY DEF Framed, IInv
<1>2. CASE RetireTurns
  <2>1. manifest'.next = manifest.next
    <3>1. CASE From(op.turn) = {}  BY <1>2, <3>1 DEF RetireTurns, Retire
    <3>2. CASE From(op.turn) # {}  BY <1>1, <1>2, <3>2 DEF RetireTurns, Retire, Numbered
    <3> QED BY <3>1, <3>2
  <2>2. pc = "retire" /\ pc' = "collect" /\ UNCHANGED <<marker, journal>>
        /\ op'.request = op.request
    BY <1>1, <1>2 DEF RetireTurns, Asked
  <2> QED BY <1>1, <2>1, <2>2 DEF Where, LastTurn
<1>3. CASE Collect
  <2>1. UNCHANGED <<manifest, marker, journal>> /\ pc = "collect"  BY <1>3 DEF Collect
  <2>2. CASE journal = NoJournal
    BY <1>1, <1>3, <2>1, <2>2, MoveWhere, RestRequest DEF Collect, Where
  <2>3. CASE journal # NoJournal
    BY <1>1, <1>3, <2>1, <2>3, MoveWhere DEF Collect, Go, Where
  <2> QED BY <2>2, <2>3
<1> QED BY <1>2, <1>3

LEMMA Files_Where ==
    ASSUME IInv, Framed, NEW f \in File, RestoreFile(f) \/ Touch(f) \/ Edit(f)
    PROVE  Where'
<1> USE DEF InTurn, InRecovery, InStart, InRewind, InRetirement, storeVars, diskVars, metaVars
<1>1. Where /\ Asked  BY DEF Framed, IInv
<1>2. op'.request = op.request
  BY <1>1 DEF RestoreFile, Touch, Edit, Asked
<1>3. UNCHANGED <<manifest, marker, journal>>
  BY DEF RestoreFile, Touch, Edit, Restore, Snapshot
<1>4. \/ pc' = pc /\ pc \in InRestore
      \/ pc \in InTurn /\ pc' \in InTurn
  BY DEF RestoreFile, Touch, Edit, InRestore
<1> QED BY <1>1, <1>2, <1>3, <1>4, MoveWhere DEF Where, InRestore

LEMMA Fails_Where == IInv /\ Framed /\ WriteFails => Where'
<1> SUFFICES ASSUME IInv, Framed, WriteFails PROVE Where'  OBVIOUS
<1> USE DEF InTurn, InRecovery, InStart, InRewind, InRetirement, storeVars, diskVars, metaVars
<1>1. Where /\ Asked /\ Current /\ Numbered  BY DEF Framed, IInv
<1>2. UNCHANGED <<marker, journal>>  BY DEF WriteFails
<1>3. CASE StepFails \/ RewriteFails \/ RestoreFails
  <2>1. pc' = "idle" /\ op'.request = Open /\ UNCHANGED manifest
    BY <1>3, RestRequest DEF StepFails, RewriteFails, RestoreFails
  <2> QED BY <1>1, <1>2, <2>1, MoveWhere DEF Where
<1>4. CASE CommitFails
  BY <1>1, <1>2, <1>4, MoveWhere DEF CommitFails, Go, Where
<1>5. CASE MarkFails
  <2>1. pc = "arm" /\ pc' = "retire" /\ op'.request = op.request /\ op'.turn = cur
        /\ UNCHANGED manifest
    BY <1>1, <1>5 DEF MarkFails, GoRetire, Asked
  <2>2. cur \in Nat /\ cur < manifest.next
    BY <1>1, <2>1 DEF Current, Numbered
  <2> QED BY <1>1, <1>2, <2>1, <2>2, MoveWhere DEF Where
<1>6. ASSUME NEW f \in File, TouchFails(f) PROVE Where'
  BY <1>1, <1>2, <1>6, MoveWhere DEF TouchFails, Snapshot, Go, Where
<1> QED BY <1>3, <1>4, <1>5, <1>6 DEF WriteFails

LEMMA Next_Where == IInv /\ Framed /\ [Next]_vars => Where'
<1> SUFFICES ASSUME IInv, Framed, [Next]_vars PROVE Where'  OBVIOUS
<1>1. CASE UNCHANGED vars
  BY <1>1 DEF vars, storeVars, diskVars, metaVars, Framed, Where, LastTurn
<1> QED
  BY <1>1, Asking_Where, Recovering_Where, Rewinding_Where, Turning_Where, Retiring_Where,
     Files_Where, Fails_Where
     DEF Next, Asking, Recovering, Rewinding, Turning, Framed

-----------------------------------------------------------------------------
(* The numbers of turns.                                                   *)
LEMMA StayCurrent ==
    ASSUME Framed, UNCHANGED <<manifest, live, retired, marker, cur>>, DOMAIN record' = DOMAIN record,
           pc' \notin {"register", "arm"}, pc' \in InTurn => pc \in InTurn \cup {"arm"}
    PROVE  Current'
BY DEF Framed, Current, LastTurn

LEMMA Next_Current == IInv /\ Framed /\ [Next]_vars => Current'
<1> SUFFICES ASSUME IInv, Framed, [Next]_vars PROVE Current'  OBVIOUS
<1> USE DEF storeVars, diskVars, metaVars, ghostVars
<1>1. Where /\ Asked /\ Current /\ Numbered /\ Fresh /\ Shapes  BY DEF Framed, IInv
<1>2. CASE UNCHANGED vars
  BY <1>1, <1>2 DEF vars, Current, LastTurn, Allocated
<1>3. CASE Asking
  <2>1. pc' \notin InTurn \cup {"register", "arm"}
    BY <1>1, <1>3 DEF Asking, AskTurn, AskCompact, AskRewind, Enter, Doing, Open, InTurn
  <2> QED BY <1>3, <2>1, StayCurrent DEF Asking, AskTurn, AskCompact, AskRewind
<1>4. CASE Resume \/ Crash
  <2>1. pc' \notin InTurn \cup {"register", "arm"}
    BY <1>4 DEF Resume, Crash, Enter, Doing, Open, InTurn
  <2>2. UNCHANGED <<manifest, record, retired, marker>>  BY <1>4 DEF Resume, Load, Crash
  <2> QED BY <1>1, <2>1, <2>2 DEF Current, LastTurn
<1>5. CASE Recovering
  <2>1. pc' \notin InTurn \cup {"register", "arm"}
    BY <1>1, <1>5 DEF Recovering, RecoverTurn, Strip, Anchor, Unmark, Enter, Doing, Asked, Kind, InTurn,
                      Go, Rest, BeginRestore
  <2>2. UNCHANGED <<manifest, record, retired>> /\ marker' \in {marker, NoMarker}
    BY <1>5 DEF Recovering, RecoverTurn, Strip, Anchor, Unmark
  <2> QED BY <1>1, <2>1, <2>2 DEF Current, LastTurn
<1>6. CASE Rewinding
  <2>1. pc' \notin InTurn \cup {"register", "arm"}
    BY <1>1, <1>6 DEF Rewinding, Preflight, Publish, Republish, Advance, Clear, FinishRestore, Compact,
                      Enter, Doing, Asked, Kind, InTurn, Go, Rest, GoRetire, AfterFiles, BeginRestore
  <2> QED BY <1>6, <2>1, StayCurrent
          DEF Rewinding, Preflight, Publish, Republish, Advance, Clear, FinishRestore, Compact
<1>7. CASE Turning
  <2>1. UNCHANGED <<manifest, live, record, retired, cur>>
        /\ pc' \notin {"register", "arm"} /\ pc \in InTurn \cup {"arm"}
    BY <1>7 DEF Turning, Arm, Say, Autosave, EndTurn, FailTurn, Save, SaveAnchor, Commit, Finish,
                Go, Rest, InTurn
  <2>2. marker # NoMarker \/ pc = "arm"  BY <1>1, <2>1 DEF Where
  <2> QED BY <1>1, <2>1, <2>2 DEF Current, LastTurn
<1>8. CASE AllocateTurn
  <2>1. /\ manifest'.next = manifest.next + 1 /\ manifest'.retired = manifest.retired
        /\ manifest.next \in Nat /\ pc' = "register" /\ UNCHANGED <<record, retired, marker>>
    BY <1>1, <1>8, TurnAssumption DEF AllocateTurn, Allocate, Numbered
  <2>2. marker = NoMarker  BY <1>1, <1>8 DEF AllocateTurn, Where, InStart
  <2>3. Allocated' = manifest.next /\ LastTurn' = manifest.next  BY <2>1 DEF Allocated, LastTurn
  <2>4. manifest.next \notin DOMAIN record /\ manifest.next \notin retired
        /\ manifest.next \notin manifest.retired
    BY <1>1, <2>1 DEF Numbered, Shapes
  <2> QED BY <2>1, <2>2, <2>3, <2>4 DEF Current, InTurn
<1>9. CASE RegisterTurn
  <2>1. /\ DOMAIN record' = DOMAIN record \cup {Allocated} /\ live' = live \cup {Allocated}
        /\ cur' = Allocated /\ pc = "register" /\ pc' = "arm" /\ UNCHANGED <<manifest, retired, marker>>
    BY <1>9 DEF RegisterTurn, Register, Go
  <2> QED BY <1>1, <2>1 DEF Current, LastTurn, Allocated, InTurn
<1>10. CASE RetireTurns \/ Collect
  <2>1. marker = NoMarker /\ marker' = marker /\ pc' \notin InTurn \cup {"register", "arm"}
    BY <1>1, <1>10 DEF RetireTurns, Collect, Go, Rest, InTurn, Where, InRetirement
  <2> QED BY <2>1 DEF Current
<1>11. ASSUME NEW f \in File, RestoreFile(f) \/ Touch(f) \/ Edit(f) PROVE Current'
  <2>1. /\ DOMAIN record' = DOMAIN record /\ UNCHANGED <<manifest, live, retired, marker, cur>>
        /\ pc' \notin {"register", "arm"} /\ (pc' \in InTurn => pc \in InTurn)
    BY <1>11 DEF RestoreFile, Touch, Edit, Snapshot, Restore, InTurn
  <2> QED BY <2>1, StayCurrent
<1>12. CASE WriteFails
  <2>1. CASE \E f \in File : TouchFails(f)
    <3>1. DOMAIN record' = DOMAIN record /\ UNCHANGED <<manifest, live, retired, marker, cur>>
          /\ pc = "running" /\ pc' = "running"
      BY <1>12, <2>1 DEF WriteFails, TouchFails, Snapshot, Go
    <3> QED BY <3>1, StayCurrent DEF InTurn
  <2>2. CASE ~ \E f \in File : TouchFails(f)
    <3>1. UNCHANGED <<record, manifest, retired, marker>> /\ pc' \notin InTurn \cup {"register", "arm"}
      BY <1>12, <2>2 DEF WriteFails, StepFails, RewriteFails, CommitFails, MarkFails, RestoreFails,
                         Go, Rest, GoRetire, InTurn
    <3> QED BY <1>1, <3>1 DEF Current, LastTurn
  <2> QED BY <2>1, <2>2
<1> QED BY <1>2, <1>3, <1>4, <1>5, <1>6, <1>7, <1>8, <1>9, <1>10, <1>11, <1>12
        DEF Next, Asking, Recovering, Rewinding, Turning

-----------------------------------------------------------------------------
(* Shapes.                                                                 *)
LEMMA StrippedIs ==
    ASSUME text \in Seq(Line), NEW t, Contains(text, Prompt(t))
    PROVE  \E n \in 1..Len(text) : text[n] = Prompt(t) /\ Stripped(t) = SubSeq(text, 1, n)
<1> DEFINE n == CHOOSE i \in DOMAIN text : text[i] = Prompt(t)
<1>1. \E i \in DOMAIN text : text[i] = Prompt(t)  BY DEF Contains
<1>2. n \in DOMAIN text /\ text[n] = Prompt(t)  BY <1>1
<1>3. Stripped(t) = SubSeq(text, 1, n)  BY DEF Stripped
<1> HIDE DEF n
<1> QED BY <1>2, <1>3

LEMMA StrippedSeq == ASSUME text \in Seq(Line), NEW t PROVE Stripped(t) \in Seq(Line)
<1>1. CASE Contains(text, Prompt(t))
  <2>1. PICK n \in 1..Len(text) : Stripped(t) = SubSeq(text, 1, n)  BY <1>1, StrippedIs
  <2> QED BY <2>1
<1>2. CASE ~ Contains(text, Prompt(t))  BY <1>2 DEF Stripped
<1> QED BY <1>1, <1>2

LEMMA SpokenSeq ==
    ASSUME NEW s \in Seq(Line), NEW t \in Nat
    PROVE  /\ Append(s, Prompt(t)) \in Seq(Line) /\ Append(s, Answer(t)) \in Seq(Line)
           /\ << <<t, "summary">> >> \in Seq(Line) /\ <<>> \in Seq(Line)
<1>1. Prompt(t) \in Line /\ Answer(t) \in Line /\ <<t, "summary">> \in Line
  BY DEF Prompt, Answer, Line
<1> QED BY <1>1

(* A step that leaves the files, the records and the sidecar alone.        *)
LEMMA StayShaped ==
    ASSUME Shapes, UNCHANGED <<file, record, manifest, marker, journal>>,
           text' \in Seq(Line), saved' \in Seq(Line),
           UNCHANGED start, wrote' \in {wrote, {}},
           pc' \in InRestore => op'.before = file \/ (pc \in InRestore /\ op'.before = op.before)
    PROVE  Shapes'
<1>1. wrote' \subseteq File  BY DEF Shapes
<1>2. pc' \in InRestore => FileMap(op.before)' /\ FileMap(file)'
  BY DEF Shapes, FileMap
<1> QED BY <1>1, <1>2 DEF Shapes, FileMap, RecordMap, StartMap

LEMMA Asking_Shapes == Shapes /\ (Asking \/ Resume \/ Crash) => Shapes'
<1> SUFFICES ASSUME Shapes, Asking \/ Resume \/ Crash PROVE Shapes'  OBVIOUS
<1> USE DEF storeVars, diskVars, metaVars, convVars, ghostVars
<1>1. UNCHANGED <<file, record, manifest, marker, journal, start, wrote, saved>>
  BY DEF Asking, AskTurn, AskCompact, AskRewind, Resume, Load, Crash
<1>2. text' \in {text, saved, <<>>}
  BY DEF Asking, AskTurn, AskCompact, AskRewind, Resume, Crash
<1>3. text' \in Seq(Line) /\ saved' \in Seq(Line)
  <2>1. <<>> \in Seq(Line)  OBVIOUS
  <2> QED BY <1>1, <1>2, <2>1 DEF Shapes
<1>4. pc' \notin InRestore
  BY DEF Asking, AskTurn, AskCompact, AskRewind, Resume, Crash, Enter, Doing, Open, InRestore
<1> QED BY <1>1, <1>3, <1>4, StayShaped

LEMMA Recovering_Shapes == IInv /\ Framed /\ Recovering => Shapes'
<1> SUFFICES ASSUME IInv, Framed, Recovering PROVE Shapes'  OBVIOUS
<1> USE DEF storeVars, diskVars, metaVars, convVars, ghostVars
<1>1. Shapes /\ Asked  BY DEF Framed, IInv
<1>2. UNCHANGED <<file, record, manifest, journal, start, wrote>>
  BY DEF Recovering, RecoverTurn, Strip, Anchor, Unmark
<1>3. Stripped(marker.turn) \in Seq(Line)  BY <1>1, StrippedSeq DEF Shapes
<1>4. text' \in Seq(Line) /\ saved' \in Seq(Line)
  BY <1>1, <1>3 DEF Recovering, RecoverTurn, Strip, Anchor, Unmark, Shapes
<1>5. pc' \in InRestore => op'.before = file
  BY <1>1, RequestKept
     DEF Recovering, RecoverTurn, Strip, Anchor, Unmark, Go, Rest, Enter, Doing, Asked, Kind, InRestore
<1>6. CASE ~ Unmark
  <2>1. UNCHANGED marker  BY <1>6 DEF Recovering, RecoverTurn, Strip, Anchor
  <2> QED BY <1>1, <1>2, <1>4, <1>5, <2>1, StayShaped
<1>7. CASE Unmark
  <2>1. marker' = NoMarker /\ pc' \notin InRestore
    BY <1>1, <1>7 DEF Unmark, Enter, Doing, Asked, Kind, InRestore
  <2> QED BY <1>1, <1>2, <1>4, <2>1 DEF Shapes, FileMap, RecordMap, StartMap, NoMarker
<1> QED BY <1>6, <1>7

LEMMA Rewinding_Shapes == IInv /\ Framed /\ Rewinding => Shapes'
<1> SUFFICES ASSUME IInv, Framed, Rewinding PROVE Shapes'  OBVIOUS
<1> USE DEF storeVars, diskVars, metaVars, convVars, ghostVars
<1>1. Shapes /\ Asked /\ Numbered  BY DEF Framed, IInv
<1>2. UNCHANGED <<file, record, manifest, marker>>
  BY DEF Rewinding, Preflight, Publish, Republish, Advance, Clear, FinishRestore, Compact
<1>3. text' \in Seq(Line) /\ saved' \in Seq(Line)
  <2>1. CASE ~ Compact
    BY <1>1, <2>1 DEF Rewinding, Preflight, Publish, Republish, Advance, Clear, FinishRestore, Shapes
  <2>2. CASE Compact
    BY <1>1, <2>2, SpokenSeq, TurnAssumption DEF Compact, Shapes, Numbered
  <2> QED BY <2>1, <2>2
<1>4. wrote' \in {wrote, {}}
  BY DEF Rewinding, Preflight, Publish, Republish, Advance, Clear, FinishRestore, Compact
<1>5. CASE Publish \/ Republish \/ FinishRestore \/ Compact
  <2>1. pc' \in InRestore => op'.before = file
    BY <1>1, <1>5, RequestKept
       DEF Publish, Republish, FinishRestore, Compact, Go, Rest, AfterFiles, GoRetire, InRestore
  <2> QED BY <1>1, <1>2, <1>3, <1>4, <1>5, <2>1, StayShaped
          DEF Publish, Republish, FinishRestore, Compact
<1>6. CASE Preflight
  <2>1. CASE journal' = journal
    <3>1. pc' \in InRestore => op'.before = file
      BY <1>1, <1>6, RequestKept DEF Preflight, Rest, InRestore
    <3> QED BY <1>1, <1>2, <1>3, <1>4, <1>6, <2>1, <3>1, StayShaped DEF Preflight
  <2>2. CASE journal' # journal
    <3>1. /\ Rewindable(op.request.turn) /\ pc' = "publish"
          /\ journal' = [turn |-> op.request.turn, text |-> record[op.request.turn].text,
                         code |-> op.request.code, phase |-> "prepared"]
      BY <1>6, <2>2 DEF Preflight
    <3>2. record[op.request.turn].text \in Seq(Line)
      BY <1>1, <3>1 DEF Rewindable, Numbered, Shapes, RecordMap
    <3>3. /\ journal' = [turn |-> journal'.turn, text |-> journal'.text, code |-> journal'.code,
                         phase |-> journal'.phase]
          /\ journal'.text \in Seq(Line) /\ journal'.phase \in {"none", "prepared", "applied"}
      BY <3>1, <3>2
    <3> QED BY <1>1, <1>2, <1>3, <1>4, <1>6, <3>1, <3>3
            DEF Preflight, Shapes, FileMap, RecordMap, StartMap, InRestore
  <2> QED BY <2>1, <2>2
<1>7. CASE Advance
  <2>1. /\ journal' = [turn |-> journal'.turn, text |-> journal'.text, code |-> journal'.code,
                       phase |-> journal'.phase]
        /\ journal'.text = journal.text /\ journal'.phase = "applied"
    BY <1>1, <1>7 DEF Shapes, Advance
  <2>2. pc' \notin InRestore  BY <1>7 DEF Advance, GoRetire, InRestore
  <2>3. UNCHANGED <<start, wrote>>  BY <1>7 DEF Advance
  <2> QED BY <1>1, <1>2, <1>3, <2>1, <2>2, <2>3 DEF Shapes, FileMap, RecordMap, StartMap
<1>8. CASE Clear
  <2>1. journal' = NoJournal /\ pc' \notin InRestore /\ UNCHANGED wrote
    BY <1>1, <1>8 DEF Clear, Enter, Doing, Asked, Kind, InRestore
  <2>2. DOMAIN start' \subseteq DOMAIN start  BY <1>8 DEF Clear, Restrict
  <2>3. StartMap'  BY <1>1, <1>2, <2>2 DEF Shapes, StartMap
  <2>4. <<>> \in Seq(Line)  OBVIOUS
  <2> QED BY <1>1, <1>2, <1>3, <2>1, <2>3, <2>4 DEF Shapes, FileMap, RecordMap, NoJournal
<1> QED BY <1>5, <1>6, <1>7, <1>8 DEF Rewinding

LEMMA Turning_Shapes == IInv /\ Framed /\ (Turning \/ AllocateTurn \/ RegisterTurn) => Shapes'
<1> SUFFICES ASSUME IInv, Framed, Turning \/ AllocateTurn \/ RegisterTurn PROVE Shapes'  OBVIOUS
<1> USE DEF storeVars, diskVars, metaVars, convVars, ghostVars
<1>1. Shapes /\ Asked /\ Numbered /\ Where /\ Current  BY DEF Framed, IInv
<1>2. CASE Say \/ Autosave \/ EndTurn \/ FailTurn \/ Save \/ SaveAnchor
  <2>1. pc \in InTurn /\ pc' \notin InRestore
    BY <1>2 DEF Say, Autosave, EndTurn, FailTurn, Save, SaveAnchor, Go, InTurn, InRestore
  <2>2. cur \in Nat  BY <1>1, <2>1 DEF Where, Current
  <2>3. Append(text, Prompt(cur)) \in Seq(Line) /\ Append(text, Answer(cur)) \in Seq(Line)
    BY <1>1, <2>2, SpokenSeq DEF Shapes
  <2>4. text' \in Seq(Line) /\ saved' \in Seq(Line)
    BY <1>1, <1>2, <2>3 DEF Say, Autosave, EndTurn, FailTurn, Save, SaveAnchor, Shapes
  <2> QED BY <1>1, <1>2, <2>1, <2>4, StayShaped
          DEF Say, Autosave, EndTurn, FailTurn, Save, SaveAnchor
<1>3. CASE Arm \/ Commit \/ Finish
  <2>1. marker' = [turn |-> marker'.turn, commit |-> marker'.commit]
    BY <1>1, <1>3 DEF Arm, Commit, Finish, Shapes, NoMarker
  <2>2. pc' \notin InRestore
    BY <1>3 DEF Arm, Commit, Finish, Go, Rest, InRestore
  <2>3. UNCHANGED <<file, record, manifest, text, saved, journal, start, wrote>>
    BY <1>3 DEF Arm, Commit, Finish
  <2> QED BY <1>1, <2>1, <2>2, <2>3 DEF Shapes, FileMap, RecordMap, StartMap
<1>4. CASE AllocateTurn
  <2>1. /\ manifest'.next = manifest.next + 1 /\ manifest'.retired = manifest.retired
        /\ manifest.next \in Nat /\ manifest.retired \subseteq Nat
    BY <1>1, <1>4, TurnAssumption DEF AllocateTurn, Allocate, Numbered, Turn
  <2>2. StartMap'
    BY <1>1, <1>4, <2>1 DEF AllocateTurn, Shapes, StartMap
  <2>3. \A t \in manifest'.retired : t < manifest'.next
    BY <1>1, <2>1 DEF Shapes
  <2>4. pc' \notin InRestore /\ UNCHANGED <<file, record, text, saved, marker, journal>> /\ wrote' = {}
    BY <1>4 DEF AllocateTurn, Allocate, InRestore
  <2> QED BY <1>1, <2>2, <2>3, <2>4 DEF Shapes, FileMap, RecordMap
<1>5. CASE RegisterTurn
  <2>1. /\ record' = [t \in DOMAIN record \cup {Allocated} |->
                        IF t = Allocated THEN [text |-> text, files |-> <<>>] ELSE record[t]]
        /\ start' = [p \in DOMAIN start \cup ({Allocated} \X File) |->
                        IF p[1] = Allocated THEN file[p[2]] ELSE start[p]]
        /\ pc' \notin InRestore /\ pc = "register"
        /\ UNCHANGED <<file, manifest, text, saved, marker, journal, wrote>>
    BY <1>5 DEF RegisterTurn, Register, Go, InRestore
  <2>2. RecordMap'
    BY <1>1, <2>1 DEF Shapes, RecordMap
  <2>3. DOMAIN start' = DOMAIN start \cup ({Allocated} \X File)  BY <2>1
  <2>4. Allocated \in Nat /\ Allocated < manifest.next
    BY <1>1, <2>1 DEF Numbered, Current, LastTurn, Allocated
  <2>5. StartMap'
    BY <1>1, <2>1, <2>3, <2>4 DEF Shapes, StartMap
  <2> QED BY <1>1, <2>1, <2>2, <2>5 DEF Shapes, FileMap
<1> QED BY <1>2, <1>3, <1>4, <1>5 DEF Turning

(* The first touch of a file counts.                                       *)
SnapshotFiles(t, f) ==
    IF t = cur /\ f \notin DOMAIN record[cur].files
    THEN [g \in DOMAIN record[cur].files \cup {f} |-> IF g = f THEN file[f] ELSE record[cur].files[g]]
    ELSE record[t].files

LEMMA SnapshotShape ==
    ASSUME RecordMap, NEW f \in File, Snapshot(f)
    PROVE  /\ DOMAIN record' = DOMAIN record
           /\ \A t \in DOMAIN record : /\ record'[t].text = record[t].text
                                       /\ record'[t].files = SnapshotFiles(t, f)
           /\ RecordMap'
<1>1. CASE f \in DOMAIN record[cur].files
  <2>1. record' = record  BY <1>1 DEF Snapshot
  <2> QED BY <1>1, <2>1 DEF SnapshotFiles, RecordMap
<1>2. CASE f \notin DOMAIN record[cur].files
  <2> DEFINE h == [g \in DOMAIN record[cur].files \cup {f} |->
                     IF g = f THEN file[f] ELSE record[cur].files[g]]
  <2>1. record' = [record EXCEPT ![cur].files = h]  BY <1>2 DEF Snapshot
  <2>2. \A t : SnapshotFiles(t, f) = IF t = cur THEN h ELSE record[t].files
    BY <1>2 DEF SnapshotFiles
  <2> HIDE DEF h
  <2>3. /\ DOMAIN record' = DOMAIN record /\ record' = [t \in DOMAIN record |-> record'[t]]
        /\ \A t \in DOMAIN record :
              record'[t] = IF t = cur THEN [record[t] EXCEPT !.files = h] ELSE record[t]
    BY <2>1
  <2>4. \A t \in DOMAIN record :
           record'[t] = [text |-> record[t].text,
                         files |-> IF t = cur THEN h ELSE record[t].files]
    BY <2>3 DEF RecordMap
  <2>5. \A t \in DOMAIN record :
           /\ record'[t].text = record[t].text
           /\ record'[t].files = IF t = cur THEN h ELSE record[t].files
    <3> TAKE t \in DOMAIN record
    <3> DEFINE g == IF t = cur THEN h ELSE record[t].files
    <3>1. record'[t] = [text |-> record[t].text, files |-> g]  BY <2>4
    <3> HIDE DEF g
    <3>2. record'[t].text = record[t].text /\ record'[t].files = g  BY <3>1
    <3> QED BY <3>2 DEF g
  <2>6. RecordMap'
    BY <2>3, <2>4, <2>5 DEF RecordMap
  <2> QED BY <2>2, <2>3, <2>5, <2>6
<1> QED BY <1>1, <1>2

LEMMA Files_Shapes ==
    ASSUME IInv, Framed, NEW f \in File, RestoreFile(f) \/ Touch(f) \/ Edit(f)
    PROVE  Shapes'
<1> USE DEF storeVars, diskVars, metaVars, convVars, ghostVars
<1>1. Shapes /\ Asked  BY DEF Framed, IInv
<1>2. CASE RestoreFile(f)
  <2>1. /\ file' = [file EXCEPT ![f] = AtStart(op.turn, f)] /\ op'.before = op.before
        /\ pc' = pc /\ pc \in InRestore /\ DOMAIN start' \subseteq DOMAIN start
        /\ UNCHANGED <<record, manifest, text, saved, marker, journal, wrote>>
    BY <1>1, <1>2 DEF RestoreFile, Restore, Asked, InRestore, Restrict
  <2>2. FileMap(file)'  BY <1>1, <2>1 DEF Shapes, FileMap
  <2>3. StartMap'  BY <1>1, <2>1 DEF Shapes, StartMap
  <2> QED BY <1>1, <2>1, <2>2, <2>3 DEF Shapes, RecordMap, FileMap
<1>3. CASE Touch(f)
  <2>1. RecordMap'  BY <1>1, <1>3, SnapshotShape DEF Touch, Shapes
  <2>2. UNCHANGED <<file, manifest, text, saved, marker, journal, start, wrote>> /\ pc' \notin InRestore
    BY <1>3 DEF Touch, Snapshot, InRestore
  <2> QED BY <1>1, <2>1, <2>2 DEF Shapes, StartMap, FileMap
<1>4. CASE Edit(f)
  <2>1. FileMap(file)'  BY <1>1, <1>4 DEF Edit, Shapes, FileMap
  <2>2. UNCHANGED <<record, manifest, text, saved, marker, journal, start>> /\ pc' \notin InRestore
        /\ wrote' = wrote \cup {f}
    BY <1>4 DEF Edit, InRestore
  <2> QED BY <1>1, <2>1, <2>2 DEF Shapes, StartMap, RecordMap, FileMap
<1> QED BY <1>2, <1>3, <1>4

LEMMA Retiring_Shapes == IInv /\ Framed /\ (RetireTurns \/ Collect) => Shapes'
<1> SUFFICES ASSUME IInv, Framed, RetireTurns \/ Collect PROVE Shapes'  OBVIOUS
<1> USE DEF storeVars, diskVars, metaVars, convVars, ghostVars
<1>1. Shapes /\ Where /\ Numbered  BY DEF Framed, IInv
<1>2. CASE RetireTurns
  <2>1. /\ Retire(op.turn) /\ pc' \notin InRestore /\ pc = "retire"
        /\ start' = Restrict(start, DOMAIN start \ Forgotten(op.turn))
        /\ UNCHANGED <<text, saved, marker, journal, wrote>>
    BY <1>2 DEF RetireTurns, InRestore
  <2>2. op.turn \in Nat /\ op.turn < manifest.next  BY <1>1, <2>1 DEF Where
  <2>3. UNCHANGED <<file, record>>  BY <2>1 DEF Retire
  <2>4. /\ manifest'.next = manifest.next
        /\ \A t \in manifest'.retired : t < manifest.next
    <3>1. CASE From(op.turn) = {}  BY <1>1, <2>1, <3>1 DEF Retire, Shapes
    <3>2. CASE From(op.turn) # {}
      <4>1. manifest' = [manifest EXCEPT !.retired = RetiredRange(op.turn)]
        BY <2>1, <3>2 DEF Retire
      <4>2. manifest'.next = manifest.next /\ manifest'.retired = RetiredRange(op.turn)
        BY <1>1, <4>1 DEF Numbered
      <4>3. \A t \in manifest.retired \cup {op.turn} \cup From(op.turn) :
               t \in Nat /\ t < manifest.next
        BY <1>1, <2>2, TurnAssumption DEF Numbered, Shapes, Turn, From
      <4>4. manifest.next \in Nat  BY <1>1, TurnAssumption DEF Numbered
      <4>5. \A t \in RetiredRange(op.turn) :
               t \in Nat /\ \E b \in manifest.retired \cup {op.turn} \cup From(op.turn) : t <= b
        BY TurnAssumption DEF RetiredRange, Turn
      <4> QED BY <4>2, <4>3, <4>4, <4>5
    <3> QED BY <3>1, <3>2
  <2>5. StartMap'
    <3>1. DOMAIN start' \subseteq DOMAIN start  BY <2>1 DEF Restrict
    <3> QED BY <1>1, <2>4, <3>1 DEF Shapes, StartMap
  <2> QED BY <1>1, <2>1, <2>3, <2>4, <2>5 DEF Shapes, RecordMap, FileMap
<1>3. CASE Collect
  <2>1. PICK left \in SUBSET op.doomed : Delete(op.doomed \ left)  BY <1>3 DEF Collect
  <2>2. RecordMap'  BY <1>1, <2>1 DEF Shapes, RecordMap, Delete
  <2>3. pc' \notin InRestore
        /\ UNCHANGED <<file, manifest, text, saved, marker, journal, start, wrote>>
    BY <1>3 DEF Collect, Go, Rest, InRestore
  <2> QED BY <1>1, <2>2, <2>3 DEF Shapes, StartMap, FileMap
<1> QED BY <1>2, <1>3

LEMMA Fails_Shapes == IInv /\ Framed /\ WriteFails => Shapes'
<1> SUFFICES ASSUME IInv, Framed, WriteFails PROVE Shapes'  OBVIOUS
<1> USE DEF storeVars, diskVars, metaVars, convVars, ghostVars
<1>1. Shapes /\ Numbered  BY DEF Framed, IInv
<1>2. UNCHANGED <<saved, marker, journal, start>> /\ wrote' \in {wrote, {}}  BY DEF WriteFails
<1>3. CASE StepFails \/ RewriteFails \/ CommitFails \/ MarkFails
  <2>1. UNCHANGED <<file, record, manifest>> /\ pc' \notin InRestore
    BY <1>3 DEF StepFails, RewriteFails, CommitFails, MarkFails, Go, Rest, GoRetire, InRestore
  <2>2. text' \in {text, Stripped(marker.turn), journal.text, << <<manifest.next, "summary">> >>}
    BY <1>3 DEF StepFails, RewriteFails, CommitFails, MarkFails
  <2>3. manifest.next \in Nat  BY <1>1, TurnAssumption DEF Numbered
  <2>4. << <<manifest.next, "summary">> >> \in Seq(Line)  BY <1>1, <2>3, SpokenSeq DEF Shapes
  <2>5. Stripped(marker.turn) \in Seq(Line)  BY <1>1, StrippedSeq DEF Shapes
  <2>6. text' \in Seq(Line)  BY <1>1, <2>2, <2>4, <2>5 DEF Shapes
  <2> QED BY <1>1, <1>2, <2>1, <2>6, StayShaped DEF Shapes
<1>4. CASE RestoreFails
  <2>1. file' = op.before /\ pc \in InRestore /\ pc' = "idle" /\ UNCHANGED <<record, manifest, text>>
    BY <1>4 DEF RestoreFails, Rest, InRestore
  <2>2. FileMap(file)'  BY <1>1, <2>1 DEF Shapes, FileMap
  <2> QED BY <1>1, <1>2, <2>1, <2>2 DEF Shapes, RecordMap, StartMap, FileMap, InRestore
<1>5. ASSUME NEW f \in File, TouchFails(f) PROVE Shapes'
  <2>1. RecordMap'  BY <1>1, <1>5, SnapshotShape DEF TouchFails, Shapes
  <2>2. UNCHANGED <<file, manifest, text>> /\ pc' \notin InRestore
    BY <1>5 DEF TouchFails, Snapshot, Go, InRestore
  <2> QED BY <1>1, <1>2, <2>1, <2>2 DEF Shapes, StartMap, FileMap
<1> QED BY <1>3, <1>4, <1>5 DEF WriteFails

LEMMA Next_Framed == IInv /\ Framed /\ [Next]_vars => Framed'
<1> SUFFICES ASSUME IInv, Framed, [Next]_vars PROVE Framed'  OBVIOUS
<1>1. Shapes'
  <2>1. CASE UNCHANGED vars
    BY <2>1 DEF vars, storeVars, diskVars, metaVars, convVars, ghostVars, Framed, Shapes, FileMap,
                RecordMap, StartMap
  <2> QED
    BY <2>1, Asking_Shapes, Recovering_Shapes, Rewinding_Shapes, Turning_Shapes, Retiring_Shapes,
       Files_Shapes, Fails_Shapes
       DEF Next, Asking, Recovering, Rewinding, Turning, Framed
<1> QED BY <1>1, Next_Where, Next_Current DEF Framed

-----------------------------------------------------------------------------
(* Files.  The unretired turns from t on that have changed f, and what f   *)
(* held before the first of them.                                          *)
Changers(t, f) == {v \in DOMAIN record \ retired : v >= t /\ f \in DOMAIN record[v].files}
Was(t, f) == IF Changers(t, f) = {} THEN file[f] ELSE record[Min(Changers(t, f))].files[f]
Undone(t) == \A f \in File : ~ HiddenFrom(t, f) => file[f] = Was(t, f)

(* A rewind to an unretired turn finds what the turn found.                *)
Exact ==
    \A t \in Nat, f \in File :
        <<t, f>> \in DOMAIN start /\ t \notin retired /\ ~ HiddenFrom(t, f) => Was(t, f) = start[<<t, f>>]

(* While files are restored to turn t: those that are done, and those that *)
(* a failure puts back.                                                    *)
Restored(t) ==
    /\ op.todo \subseteq ChangedFrom(t)
    /\ \A f \in File : \/ file[f] = op.before[f]
                       \/ /\ Changers(t, f) # {}
                          /\ \A p \in DOMAIN start : p[2] = f => p[1] <= t
    /\ \A f \in File : f \notin op.todo /\ ~ HiddenFrom(t, f) => file[f] = Was(t, f)

Restoring ==
    /\ pc \in InRestore => op.turn \in Nat
    /\ \A t \in Nat : pc \in InRestore /\ op.turn = t => Restored(t)
    /\ pc = "undo" => op.turn = LastTurn
    /\ pc = "editing" => op.todo \subseteq DOMAIN record[cur].files

(* What the phases of the journal of a rewind to turn t stand for: the     *)
(* files of an applied rewind are restored, and remain so when the records *)
(* that tell it are gone.                                                  *)
Prepared == journal.phase = "prepared"
Applied == journal.phase = "applied"
Settled(t) ==
    /\ Prepared => t \notin retired
    /\ Applied /\ journal.code /\ t \notin retired => Undone(t)
    /\ Applied /\ journal.code /\ t \in retired =>
          \A f \in File : <<t, f>> \in DOMAIN start => file[f] = start[<<t, f>>]
    /\ Applied /\ t \in retired => t .. LastTurn \subseteq retired

(* What is known of the rewind at each of its steps.                       *)
AtWork(t) ==
    /\ pc = "republish" /\ Prepared /\ journal.code => t \in live
    /\ pc = "rewind" => op.turn = t /\ journal.code /\ t \in live
    /\ pc = "rewind" /\ Applied => \A f \in File : ~ HiddenFrom(t, f) => file[f] = op.before[f]
    /\ pc = "advance" => Prepared /\ (journal.code => Undone(t))
    /\ pc \in {"retire", "collect", "clear"} => Applied
    /\ pc = "retire" => op.turn = t
    /\ pc \in {"collect", "clear"} => t \in retired

JournalOf(t) == Settled(t) /\ AtWork(t)

Journaled ==
    /\ \A t \in Nat : journal # NoJournal /\ journal.turn = t => JournalOf(t)
    /\ pc = "collect" => op.doomed \subseteq retired

LEMMA Least ==
    ASSUME NEW S, S \subseteq Nat, S # {}
    PROVE  Min(S) \in S /\ \A y \in S : Min(S) <= y
<1> DEFINE R == OpToRel(<, Nat)
<1>1. R = {ss \in Nat \X Nat : ss[1] < ss[2]}  BY DEF OpToRel
<1>2. IsWellFoundedOn(R, Nat)  BY NatLessThanWellFounded
<1> HIDE DEF R
<1>3. PICK x \in S : \A y \in S : ~ (<<y, x>> \in R)  BY <1>2, WFMin
<1>4. \A y \in S : x <= y
  <2> TAKE y \in S
  <2>1. ~ (y < x)  BY <1>1, <1>3
  <2> QED BY <2>1
<1> QED BY <1>4 DEF Min

(* The least is the same of a set and of its beginning.                    *)
LEMMA LeastOfPart ==
    ASSUME NEW S, S \subseteq Nat, NEW T, T \subseteq S, T # {}, \A x \in T, y \in S \ T : x <= y
    PROVE  Min(T) = Min(S)
<1>1. Min(T) \in T /\ \A y \in T : Min(T) <= y  BY Least
<1>2. Min(S) \in S /\ \A y \in S : Min(S) <= y  BY Least
<1>3. Min(T) <= Min(S)
  <2>1. CASE Min(S) \in T  BY <1>1, <2>1
  <2>2. CASE Min(S) \notin T  BY <1>1, <1>2, <2>2
  <2> QED BY <2>1, <2>2
<1>4. Min(S) <= Min(T)  BY <1>1, <1>2
<1>5. Min(S) \in Nat /\ Min(T) \in Nat  BY <1>1, <1>2
<1> HIDE DEF Min
<1> QED BY <1>3, <1>4, <1>5

LEMMA ChangersIn ==
    ASSUME IInv, NEW t, NEW f
    PROVE  /\ Changers(t, f) \subseteq Nat
           /\ \A v \in Changers(t, f) :
                 v \in DOMAIN record /\ v \notin retired /\ v < manifest.next /\ v >= t
                   /\ f \in DOMAIN record[v].files
           /\ Changers(t, f) # {} => Min(Changers(t, f)) \in Changers(t, f)
<1>1. Changers(t, f) \subseteq Nat /\ \A v \in Changers(t, f) : v < manifest.next
  BY DEF IInv, Numbered, Changers
<1>2. Changers(t, f) # {} => Min(Changers(t, f)) \in Changers(t, f)  BY <1>1, Least
<1> QED BY <1>1, <1>2 DEF Changers

(* What memory shows are the turns that count, but for the hidden ones.    *)
LEMMA Seen ==
    ASSUME IInv, NEW t, NEW f \in File
    PROVE  /\ ChangedBy(f) \cap From(t) \subseteq Changers(t, f)
           /\ pc # "down" /\ ~ HiddenFrom(t, f) => ChangedBy(f) \cap From(t) = Changers(t, f)
<1>1. ChangedBy(f) \cap From(t) \subseteq Changers(t, f)
  BY DEF IInv, Numbered, RetiredStaysGone, ChangedBy, From, Changers
<1>2. ASSUME pc # "down", ~ HiddenFrom(t, f), NEW v \in Changers(t, f) PROVE v \in ChangedBy(f) \cap From(t)
  BY <1>2 DEF IInv, Shown, HiddenFrom, Hidden, ChangedBy, From, Changers
<1> QED BY <1>1, <1>2

LEMMA AtStartIs ==
    ASSUME IInv, NEW t, NEW f \in File, pc # "down", ~ HiddenFrom(t, f)
    PROVE  AtStart(t, f) = Was(t, f) /\ (f \in ChangedFrom(t) <=> Changers(t, f) # {})
<1>1. ChangedBy(f) \cap From(t) = Changers(t, f)  BY Seen
<1> QED BY <1>1 DEF AtStart, ChangedFrom, Was

LEMMA TouchedHas ==
    ASSUME IInv, NEW t, NEW f \in ChangedFrom(t)
    PROVE  f \in File /\ Changers(t, f) # {}
BY Seen DEF ChangedFrom

(* Steps that leave the survivors alone.                                   *)
SameTurns ==
    /\ DOMAIN record' \ retired' = DOMAIN record \ retired
    /\ \A v \in DOMAIN record \ retired : record'[v].files = record[v].files
    /\ manifest'.retired = manifest.retired

LEMMA SameSeen ==
    ASSUME SameTurns, NEW t, NEW f
    PROVE  Changers(t, f)' = Changers(t, f) /\ (HiddenFrom(t, f)' <=> HiddenFrom(t, f))
<1>1. Changers(t, f)' = Changers(t, f)  BY DEF SameTurns, Changers
<1>2. Hidden' = Hidden /\ \A v \in Hidden : record'[v].files = record[v].files
  BY DEF SameTurns, Hidden
<1> QED BY <1>1, <1>2 DEF HiddenFrom

LEMMA SameWas ==
    ASSUME IInv, SameTurns, NEW t, NEW f, file'[f] = file[f] \/ Changers(t, f) # {}
    PROVE  Was(t, f)' = Was(t, f)
<1>1. Changers(t, f)' = Changers(t, f)  BY SameSeen
<1>2. Min(Changers(t, f))' = Min(Changers(t, f))  BY <1>1
<1>3. CASE Changers(t, f) = {}  BY <1>1, <1>3 DEF Was
<1>4. CASE Changers(t, f) # {}
  <2>1. Min(Changers(t, f)) \in DOMAIN record \ retired  BY <1>4, ChangersIn
  <2>2. record'[Min(Changers(t, f))].files = record[Min(Changers(t, f))].files
    BY <2>1 DEF SameTurns
  <2> QED BY <1>1, <1>2, <1>4, <2>2 DEF Was
<1> QED BY <1>3, <1>4

LEMMA SameUndone ==
    ASSUME IInv, SameTurns, NEW t, Undone(t), file' = file
    PROVE  Undone(t)'
<1> SUFFICES ASSUME NEW f \in File, ~ HiddenFrom(t, f)' PROVE file'[f] = Was(t, f)'
  BY DEF Undone
<1>1. ~ HiddenFrom(t, f) /\ Was(t, f)' = Was(t, f)  BY SameSeen, SameWas
<1> QED BY <1>1 DEF Undone

LEMMA UnchangedTurns == UNCHANGED <<record, manifest, retired>> => SameTurns
BY DEF SameTurns

-----------------------------------------------------------------------------
(* What a rewind finds.                                                    *)
FilesInv == Exact /\ Restoring /\ Journaled

LEMMA Present ==
    ASSUME Framed, FilesInv
    PROVE  /\ pc \in InRestore => op.turn \in Nat /\ Restored(op.turn)
           /\ journal # NoJournal => journal.turn \in Nat /\ JournalOf(journal.turn)
BY DEF Framed, Where, FilesInv, Restoring, Journaled

LEMMA StartSame ==
    ASSUME IInv, Exact, SameTurns, UNCHANGED <<file, retired>>, DOMAIN start' \subseteq DOMAIN start,
           \A p \in DOMAIN start' : start'[p] = start[p]
    PROVE  Exact'
<1> SUFFICES ASSUME NEW t \in Nat, NEW f \in File, <<t, f>> \in DOMAIN start', t \notin retired',
                    ~ HiddenFrom(t, f)'
             PROVE  Was(t, f)' = start'[<<t, f>>]
  BY DEF Exact
<1>1. ~ HiddenFrom(t, f) /\ Was(t, f)' = Was(t, f)  BY SameSeen, SameWas
<1>2. start'[<<t, f>>] = start[<<t, f>>]  OBVIOUS
<1> QED BY <1>1, <1>2 DEF Exact

LEMMA Register_Exact == IInv /\ Framed /\ Exact /\ RegisterTurn => Exact'
<1> SUFFICES ASSUME IInv, Framed, Exact, RegisterTurn PROVE Exact'  OBVIOUS
<1>1. Shapes /\ Current /\ Numbered  BY DEF Framed, IInv
<1>2. /\ record' = [t \in DOMAIN record \cup {Allocated} |->
                      IF t = Allocated THEN [text |-> text, files |-> <<>>] ELSE record[t]]
      /\ start' = [p \in DOMAIN start \cup ({Allocated} \X File) |->
                      IF p[1] = Allocated THEN file[p[2]] ELSE start[p]]
      /\ UNCHANGED <<file, manifest, retired>> /\ pc = "register"
  BY DEF RegisterTurn, Register
<1>3. Allocated \notin DOMAIN record /\ Allocated \in Nat /\ Allocated \notin retired
  BY <1>1, <1>2 DEF Current, LastTurn, Allocated
<1>4. record'[Allocated].files = <<>> /\ \A v \in DOMAIN record : record'[v] = record[v]
  BY <1>2, <1>3
<1>5. ASSUME NEW t, NEW f PROVE Changers(t, f)' = Changers(t, f)
  <2>1. f \notin DOMAIN record'[Allocated].files  BY <1>4
  <2> QED BY <1>2, <1>4, <2>1 DEF Changers
<1>6. ASSUME NEW t, NEW f, HiddenFrom(t, f) PROVE HiddenFrom(t, f)'
  BY <1>2, <1>4, <1>6 DEF HiddenFrom, Hidden
<1> SUFFICES ASSUME NEW t \in Nat, NEW f \in File, <<t, f>> \in DOMAIN start', t \notin retired,
                    ~ HiddenFrom(t, f)'
             PROVE  Was(t, f)' = start'[<<t, f>>]
  BY <1>2 DEF Exact
<1>7. CASE t = Allocated
  <2>1. start'[<<t, f>>] = file[f]  BY <1>2, <1>7
  <2>2. Changers(t, f) = {}
    <3>1. \A v \in Changers(t, f) : v \in DOMAIN record /\ v < manifest.next /\ v >= t /\ v \in Nat
      BY ChangersIn
    <3>2. manifest.next \in Nat  BY <1>1, TurnAssumption DEF Numbered
    <3>3. \A v \in Changers(t, f) : v = Allocated
      BY <1>7, <3>1, <3>2 DEF Allocated
    <3> QED BY <1>3, <3>1, <3>3
  <2> QED BY <1>2, <1>5, <2>1, <2>2 DEF Was
<1>8. CASE t # Allocated
  <2>1. start'[<<t, f>>] = start[<<t, f>>] /\ <<t, f>> \in DOMAIN start  BY <1>2, <1>8
  <2>2. ~ HiddenFrom(t, f)  BY <1>6
  <2>3. Was(t, f) = start[<<t, f>>]  BY <2>1, <2>2 DEF Exact
  <2>4. Was(t, f)' = Was(t, f)
    <3>1. CASE Changers(t, f) = {}  BY <1>2, <1>5, <3>1 DEF Was
    <3>2. CASE Changers(t, f) # {}
      <4>1. Min(Changers(t, f)) \in DOMAIN record /\ Min(Changers(t, f))' = Min(Changers(t, f))
        BY <1>5, <3>2, ChangersIn
      <4> QED BY <1>4, <1>5, <3>2, <4>1 DEF Was
    <3> QED BY <3>1, <3>2
  <2> QED BY <2>1, <2>3, <2>4
<1> QED BY <1>7, <1>8

(* The first change of a file by the current turn, which is the last one.  *)
LEMMA Snapshot_Exact ==
    ASSUME IInv, Framed, Exact, NEW f \in File, Snapshot(f), pc = "running",
           UNCHANGED <<start, retired>>
    PROVE  Exact'
<1>1. Shapes /\ Current /\ Numbered /\ Where  BY DEF Framed, IInv
<1>2. cur \in DOMAIN record /\ cur \in Nat /\ cur = manifest.next - 1 /\ cur \notin retired
  BY <1>1 DEF Current, Where, InTurn, LastTurn
<1>3. /\ DOMAIN record' = DOMAIN record
      /\ \A t \in DOMAIN record : record'[t].files = SnapshotFiles(t, f)
      /\ UNCHANGED <<file, manifest>>
  BY <1>1, SnapshotShape DEF Shapes, Snapshot
<1>4. \A t \in DOMAIN record : \A g : g \in DOMAIN record[t].files =>
         g \in DOMAIN record'[t].files /\ record'[t].files[g] = record[t].files[g]
  BY <1>3 DEF SnapshotFiles
<1>5. \A t \in DOMAIN record : \A g : g \in DOMAIN record'[t].files /\ g \notin DOMAIN record[t].files =>
         t = cur /\ g = f /\ record'[t].files[g] = file[f]
  BY <1>3 DEF SnapshotFiles
<1> SUFFICES ASSUME NEW t \in Nat, NEW g \in File, <<t, g>> \in DOMAIN start, t \notin retired,
                    ~ HiddenFrom(t, g)'
             PROVE  Was(t, g)' = start[<<t, g>>]
  BY DEF Exact
<1>6. ~ HiddenFrom(t, g)  BY <1>3, <1>4 DEF HiddenFrom, Hidden
<1>7. Was(t, g) = start[<<t, g>>]  BY <1>6 DEF Exact
<1>8. Changers(t, g) \subseteq Changers(t, g)' /\ Changers(t, g)' \subseteq Changers(t, g) \cup {cur}
  BY <1>3, <1>4, <1>5 DEF Changers
<1>9. Changers(t, g) \subseteq Nat /\ \A v \in Changers(t, g) : v <= cur /\ v \in DOMAIN record
                                                  /\ g \in DOMAIN record[v].files
  BY <1>1, <1>2, ChangersIn, TurnAssumption DEF Numbered
<1>10. CASE Changers(t, g) # {}
  <2>1. Min(Changers(t, g)) = Min(Changers(t, g)')
    BY <1>2, <1>8, <1>9, <1>10, LeastOfPart
  <2>2. Min(Changers(t, g)) \in Changers(t, g)  BY <1>9, <1>10, Least
  <2>3. record'[Min(Changers(t, g))].files[g] = record[Min(Changers(t, g))].files[g]
    BY <1>4, <1>9, <2>2
  <2>4. Changers(t, g)' # {} /\ Min(Changers(t, g))' = Min(Changers(t, g)')  BY <1>8, <1>10
  <2> QED BY <1>7, <1>10, <2>1, <2>3, <2>4 DEF Was
<1>11. CASE Changers(t, g) = {} /\ Changers(t, g)' # {}
  <2>1. Changers(t, g)' = {cur}  BY <1>8, <1>11
  <2>2. Min(Changers(t, g)') \in Changers(t, g)'  BY <1>2, <2>1, Least
  <2>3. Min(Changers(t, g))' = cur  BY <2>1, <2>2
  <2>4. g \in DOMAIN record'[cur].files /\ g \notin DOMAIN record[cur].files
    <3>1. cur \in Changers(t, g)' /\ cur \notin Changers(t, g)  BY <1>11, <2>1
    <3> QED BY <1>2, <1>3, <3>1 DEF Changers
  <2>5. record'[cur].files[g] = file[g]  BY <1>2, <1>5, <2>4
  <2> QED BY <1>7, <1>11, <2>3, <2>5 DEF Was
<1>12. CASE Changers(t, g) = {} /\ Changers(t, g)' = {}
  BY <1>3, <1>7, <1>12 DEF Was
<1> QED BY <1>10, <1>11, <1>12

LEMMA Edit_Exact ==
    ASSUME IInv, Framed, FilesInv, NEW f \in File, Edit(f)
    PROVE  Exact'
<1>1. Shapes /\ Current /\ Numbered /\ Where  BY DEF Framed, IInv
<1>2. /\ file' = [file EXCEPT ![f] = cur] /\ pc = "editing" /\ f \in op.todo
      /\ UNCHANGED <<record, manifest, start, retired>>
  BY DEF Edit, diskVars
<1>3. cur \in DOMAIN record /\ cur \in Nat /\ cur = manifest.next - 1 /\ cur \notin retired
      /\ f \in DOMAIN record[cur].files
  BY <1>1, <1>2 DEF Current, Where, InTurn, LastTurn, FilesInv, Restoring
<1>4. SameTurns  BY <1>2, UnchangedTurns
<1> SUFFICES ASSUME NEW t \in Nat, NEW g \in File, <<t, g>> \in DOMAIN start, t \notin retired,
                    ~ HiddenFrom(t, g)'
             PROVE  Was(t, g)' = start[<<t, g>>]
  BY <1>2 DEF Exact
<1>5. ~ HiddenFrom(t, g)  BY <1>4, SameSeen
<1>6. g = f => Changers(t, g) # {}
  <2>1. <<t, g>>[1] < manifest.next  BY <1>1 DEF Shapes, StartMap
  <2>2. t <= cur  BY <1>1, <1>3, <2>1, TurnAssumption DEF Numbered
  <2> QED BY <1>3, <2>2 DEF Changers
<1>7. file'[g] = file[g] \/ Changers(t, g) # {}
  BY <1>1, <1>2, <1>6 DEF Shapes, FileMap
<1>8. Was(t, g)' = Was(t, g)  BY <1>4, <1>7, SameWas
<1> QED BY <1>5, <1>8 DEF FilesInv, Exact

LEMMA RestoreFile_Exact ==
    ASSUME IInv, Framed, FilesInv, NEW f \in File, RestoreFile(f)
    PROVE  Exact'
<1>1. Shapes  BY DEF Framed
<1>2. /\ file' = [file EXCEPT ![f] = AtStart(op.turn, f)] /\ pc \in InRestore /\ f \in op.todo
      /\ start' = Restrict(start, {p \in DOMAIN start : p[2] = f => p[1] <= op.turn})
      /\ UNCHANGED <<record, manifest, retired>>
  BY DEF RestoreFile, Restore, diskVars, InRestore
<1>3. SameTurns  BY <1>2, UnchangedTurns
<1> SUFFICES ASSUME NEW t \in Nat, NEW g \in File, <<t, g>> \in DOMAIN start', t \notin retired,
                    ~ HiddenFrom(t, g)'
             PROVE  Was(t, g)' = start'[<<t, g>>]
  BY <1>2 DEF Exact
<1>4. <<t, g>> \in DOMAIN start /\ start'[<<t, g>>] = start[<<t, g>>] /\ (g = f => t <= op.turn)
  BY <1>2 DEF Restrict
<1>5. ~ HiddenFrom(t, g)  BY <1>3, SameSeen
<1>6. g = f => Changers(t, g) # {}
  <2>1. Changers(op.turn, f) # {} /\ op.turn \in Nat
    BY <1>2, TouchedHas, Present DEF Restored
  <2>2. Changers(op.turn, f) \subseteq Nat  BY ChangersIn
  <2>3. t <= op.turn => Changers(op.turn, f) \subseteq Changers(t, f)
    BY <2>1, <2>2 DEF Changers
  <2> QED BY <1>4, <2>1, <2>3
<1>7. file'[g] = file[g] \/ Changers(t, g) # {}
  BY <1>1, <1>2, <1>6 DEF Shapes, FileMap
<1>8. Was(t, g)' = Was(t, g)  BY <1>3, <1>7, SameWas
<1> QED BY <1>4, <1>5, <1>8 DEF FilesInv, Exact

LEMMA RestoreFails_Exact ==
    ASSUME IInv, Framed, FilesInv, RestoreFails, UNCHANGED <<start, retired>>
    PROVE  Exact'
<1>1. file' = op.before /\ pc \in InRestore /\ UNCHANGED <<record, manifest>>
  BY DEF RestoreFails, diskVars, InRestore
<1>2. SameTurns  BY <1>1, UnchangedTurns
<1> SUFFICES ASSUME NEW t \in Nat, NEW g \in File, <<t, g>> \in DOMAIN start, t \notin retired,
                    ~ HiddenFrom(t, g)'
             PROVE  Was(t, g)' = start[<<t, g>>]
  BY DEF Exact
<1>3. ~ HiddenFrom(t, g)  BY <1>2, SameSeen
<1>4. file'[g] = file[g] \/ Changers(t, g) # {}
  <2>1. \/ file[g] = op.before[g]
        \/ Changers(op.turn, g) # {} /\ \A p \in DOMAIN start : p[2] = g => p[1] <= op.turn
    BY <1>1, Present DEF Restored
  <2>2. CASE file[g] = op.before[g]  BY <1>1, <2>2
  <2>3. CASE Changers(op.turn, g) # {} /\ \A p \in DOMAIN start : p[2] = g => p[1] <= op.turn
    <3>1. t <= op.turn /\ op.turn \in Nat  BY <1>1, <2>3, Present
    <3>2. Changers(op.turn, g) \subseteq Nat  BY ChangersIn
    <3>3. Changers(op.turn, g) \subseteq Changers(t, g)  BY <3>1, <3>2 DEF Changers
    <3> QED BY <2>3, <3>3
  <2> QED BY <2>1, <2>2, <2>3
<1>5. Was(t, g)' = Was(t, g)  BY <1>2, <1>4, SameWas
<1> QED BY <1>3, <1>5 DEF FilesInv, Exact

(* A retirement takes the turns from its own on, and hides no less.        *)
LEMMA RetireKeeps ==
    ASSUME IInv, Framed, RetireTurns
    PROVE  /\ op.turn \in Nat /\ op.turn < manifest.next
           /\ UNCHANGED <<file, record, marker, journal>> /\ manifest'.next = manifest.next
           /\ retired' = retired \cup (op.turn..(manifest.next - 1))
           /\ manifest.retired \subseteq manifest'.retired
           /\ \A v \in DOMAIN record : v \in Nat /\ v < manifest.next
           /\ \A t, f : Changers(t, f)' = {v \in Changers(t, f) : v < op.turn}
           /\ \A t, f, v : /\ v \in Hidden /\ v < op.turn /\ v >= t /\ f \in DOMAIN record[v].files
                           => HiddenFrom(t, f)'
<1> DEFINE t == op.turn
<1>1. /\ Retire(t) /\ pc = "retire" /\ UNCHANGED <<marker, journal>>
      /\ retired' = retired \cup (t..(manifest.next - 1))
  BY DEF RetireTurns, metaVars
<1>2. Numbered /\ Where  BY DEF IInv, Framed
<1>3. t \in Nat /\ t < manifest.next  BY <1>1, <1>2 DEF Where
<1> HIDE DEF t
<1>4. UNCHANGED <<file, record>> /\ manifest'.next = manifest.next
      /\ manifest.retired \subseteq manifest'.retired
  <2>1. CASE From(t) = {}  BY <1>1, <2>1 DEF Retire, storeVars, diskVars
  <2>2. CASE From(t) # {}
    BY <1>1, <1>2, <2>2, RangeCovers DEF Retire, Numbered
  <2> QED BY <2>1, <2>2
<1>5. manifest.next \in Nat /\ \A v \in DOMAIN record : v \in Nat /\ v < manifest.next
  BY <1>2, TurnAssumption DEF Numbered
<1>6. \A v \in DOMAIN record : v \in t..(manifest.next - 1) <=> v >= t
  BY <1>3, <1>5
<1>7. ASSUME NEW u, NEW f PROVE Changers(u, f)' = {v \in Changers(u, f) : v < t}
  <2>1. \A v \in DOMAIN record : v \notin retired' <=> v \notin retired /\ v < t
    BY <1>1, <1>3, <1>5, <1>6
  <2> QED BY <1>4, <2>1 DEF Changers
<1>8. ASSUME NEW u, NEW f, NEW v \in Hidden, v < t, v >= u, f \in DOMAIN record[v].files
      PROVE  HiddenFrom(u, f)'
  <2>1. v \in DOMAIN record /\ v \in manifest.retired /\ v \notin retired  BY DEF Hidden
  <2>2. v \in Hidden'  BY <1>1, <1>3, <1>4, <1>5, <1>6, <1>8, <2>1 DEF Hidden
  <2> QED BY <1>4, <1>8, <2>2 DEF HiddenFrom
<1> QED BY <1>1, <1>3, <1>4, <1>5, <1>7, <1>8 DEF t

(* What start keeps over a retirement.                                     *)
LEMMA RetireForgets ==
    ASSUME RetireTurns, NEW p \in DOMAIN start'
    PROVE  /\ p \in DOMAIN start /\ start'[p] = start[p]
           /\ p[1] <= op.turn => ~ HiddenFrom(op.turn, p[2])
           /\ p[1] < op.turn /\ ~ journal.code =>
                ~ \E v \in DOMAIN record \ retired : v >= op.turn /\ p[2] \in DOMAIN record[v].files
<1>1. start' = Restrict(start, DOMAIN start \ Forgotten(op.turn))  BY DEF RetireTurns
<1>2. p \in DOMAIN start \ Forgotten(op.turn) /\ start'[p] = start[p]  BY <1>1 DEF Restrict
<1> QED BY <1>2 DEF Forgotten

LEMMA Retire_Exact == IInv /\ Framed /\ FilesInv /\ RetireTurns => Exact'
<1> SUFFICES ASSUME IInv, Framed, FilesInv, RetireTurns,
                    NEW u \in Nat, NEW f \in File, <<u, f>> \in DOMAIN start', u \notin retired',
                    ~ HiddenFrom(u, f)'
             PROVE  Was(u, f)' = start'[<<u, f>>]
  BY DEF Exact
<1> DEFINE t == op.turn
<1>1. Shapes /\ Where /\ Journaled /\ Exact /\ pc = "retire"  BY DEF Framed, FilesInv, RetireTurns
<1>2. /\ t \in Nat /\ t < manifest.next /\ UNCHANGED <<file, record, journal>>
      /\ retired' = retired \cup (t..(manifest.next - 1))
      /\ Changers(u, f)' = {v \in Changers(u, f) : v < t}
  BY RetireKeeps
<1>3. /\ <<u, f>> \in DOMAIN start /\ start'[<<u, f>>] = start[<<u, f>>]
      /\ u <= t => ~ HiddenFrom(t, f)
      /\ u < t /\ ~ journal.code =>
           ~ \E v \in DOMAIN record \ retired : v >= t /\ f \in DOMAIN record[v].files
  BY RetireForgets
<1>4. u \notin retired /\ u < t
  <2>1. u < manifest.next  BY <1>1, <1>3 DEF Shapes, StartMap
  <2>2. manifest.next \in Nat  BY TurnAssumption DEF IInv, Numbered
  <2> QED BY <1>2, <2>1, <2>2
<1>5. ~ HiddenFrom(u, f)
  <2> SUFFICES ASSUME HiddenFrom(u, f) PROVE FALSE  OBVIOUS
  <2>1. PICK v \in Hidden : v >= u /\ f \in DOMAIN record[v].files  BY DEF HiddenFrom
  <2>2. v \in Nat  BY <2>1, RetireKeeps DEF Hidden
  <2>3. CASE v < t  BY <2>1, <2>3, RetireKeeps
  <2>4. CASE v >= t  BY <1>2, <1>3, <1>4, <2>1, <2>4 DEF HiddenFrom
  <2> QED BY <1>2, <2>2, <2>3, <2>4
<1>6. Was(u, f) = start[<<u, f>>]  BY <1>1, <1>3, <1>4, <1>5 DEF Exact
<1>7. Changers(u, f) \subseteq Nat  BY ChangersIn
<1>8. CASE Changers(u, f)' # {}
  <2>1. Min(Changers(u, f)) = Min(Changers(u, f)')
    BY <1>2, <1>7, <1>8, LeastOfPart
  <2> QED BY <1>2, <1>3, <1>6, <1>8, <2>1 DEF Was
<1>9. CASE Changers(u, f)' = {}
  <2>1. Was(u, f)' = file[f]  BY <1>2, <1>9 DEF Was
  <2>2. Changers(u, f) = Changers(t, f)
    <3>1. \A v \in Changers(u, f) : v >= t  BY <1>2, <1>7, <1>9
    <3>2. Changers(t, f) \subseteq Nat  BY ChangersIn
    <3> QED BY <1>2, <1>4, <1>7, <3>1, <3>2 DEF Changers
  <2>3. CASE Changers(u, f) = {}  BY <1>3, <1>6, <2>1, <2>3 DEF Was
  <2>4. CASE Changers(u, f) # {}
    <3>1. journal.code
      <4>1. PICK v : v \in Changers(t, f)  BY <2>2, <2>4
      <4> QED BY <1>3, <1>4, <4>1 DEF Changers
    <3>2. journal # NoJournal /\ Applied /\ t = journal.turn
      BY <1>1, <3>1, Present DEF JournalOf, Settled, AtWork, NoJournal
    <3>3. t \notin retired
      <4>1. PICK v : v \in Changers(t, f)  BY <2>2, <2>4
      <4>2. v \in Nat /\ v < manifest.next /\ v >= t /\ v \notin retired
        BY <4>1, ChangersIn
      <4>3. manifest.next \in Nat  BY TurnAssumption DEF IInv, Numbered
      <4>4. v \in t..LastTurn  BY <1>2, <4>2, <4>3 DEF LastTurn
      <4> QED BY <1>1, <3>2, <4>2, <4>4, Present DEF JournalOf, Settled, AtWork
    <3>4. file[f] = Was(t, f)
      <4>1. ~ HiddenFrom(t, f)  BY <1>2, <1>3, <1>4
      <4>2. Undone(t)  BY <1>1, <3>1, <3>2, <3>3, Present DEF JournalOf, Settled, AtWork
      <4> QED BY <4>1, <4>2 DEF Undone
    <3>5. Was(t, f) = Was(u, f)  BY <2>2, <2>4 DEF Was
    <3> QED BY <1>3, <1>6, <2>1, <3>4, <3>5
  <2> QED BY <2>3, <2>4
<1> QED BY <1>8, <1>9

LEMMA Collect_Same ==
    ASSUME FilesInv, Collect
    PROVE  SameTurns /\ UNCHANGED <<file, manifest, retired, live, journal, start>>
<1>1. PICK left \in SUBSET op.doomed : Delete(op.doomed \ left)  BY DEF Collect
<1>2. op.doomed \subseteq retired  BY DEF Collect, FilesInv, Journaled
<1>3. UNCHANGED <<file, manifest, retired, live, journal, start>>
  BY DEF Collect, metaVars, ghostVars
<1> QED BY <1>1, <1>2, <1>3 DEF Delete, SameTurns

(* Where the survivors and the files stay, and what start loses.           *)
Aside == \/ Asking \/ Resume \/ Crash \/ Recovering \/ Rewinding \/ Turning \/ AllocateTurn
              \/ Collect \/ UNCHANGED vars

LEMMA Same_Exact == IInv /\ Framed /\ FilesInv /\ Aside => Exact' /\ SameTurns
<1> SUFFICES ASSUME IInv, Framed, FilesInv, Aside PROVE Exact' /\ SameTurns  OBVIOUS
<1> USE DEF storeVars, diskVars, metaVars, convVars, ghostVars
<1>1. SameTurns /\ UNCHANGED <<file, retired>>
  <2>1. CASE Asking \/ Resume \/ Crash \/ Recovering \/ UNCHANGED vars
    BY <2>1, UnchangedTurns
       DEF Asking, AskTurn, AskCompact, AskRewind, Resume, Load, Crash, vars,
           Recovering, RecoverTurn, Strip, Anchor, Unmark
  <2>2. CASE Rewinding
    BY <2>2, UnchangedTurns
       DEF Rewinding, Preflight, Publish, Republish, Advance, Clear, FinishRestore, Compact
  <2>3. CASE Turning
    BY <2>3, UnchangedTurns
       DEF Turning, Arm, Say, Autosave, EndTurn, FailTurn, Save, SaveAnchor, Commit, Finish
  <2>4. CASE AllocateTurn
    <3>1. manifest'.retired = manifest.retired /\ UNCHANGED <<record, retired, file>>
      BY <2>4 DEF AllocateTurn, Allocate, IInv, Numbered
    <3> QED BY <3>1 DEF SameTurns
  <2>5. CASE Collect  BY <2>5, Collect_Same
  <2> QED BY <2>1, <2>2, <2>3, <2>4, <2>5 DEF Aside
<1>2. CASE ~ Clear
  <2>1. UNCHANGED start
    BY <1>2 DEF Aside, Asking, AskTurn, AskCompact, AskRewind, Resume, Crash, vars,
                Recovering, RecoverTurn, Strip, Anchor, Unmark, Rewinding, Preflight, Publish, Republish,
                Advance, FinishRestore, Compact, Turning, Arm, Say, Autosave, EndTurn, FailTurn, Save,
                SaveAnchor, Commit, Finish, AllocateTurn, Collect
  <2> QED BY <1>1, <2>1, StartSame DEF FilesInv
<1>3. CASE Clear
  <2>1. start' = Restrict(start, DOMAIN start \ (retired \X File))  BY <1>3 DEF Clear
  <2>2. DOMAIN start' \subseteq DOMAIN start /\ \A p \in DOMAIN start' : start'[p] = start[p]
    BY <2>1 DEF Restrict
  <2> QED BY <1>1, <2>2, StartSame DEF FilesInv
<1> QED BY <1>2, <1>3

LEMMA Fails_Exact == IInv /\ Framed /\ FilesInv /\ WriteFails => Exact'
<1> SUFFICES ASSUME IInv, Framed, FilesInv, WriteFails PROVE Exact'  OBVIOUS
<1> USE DEF storeVars, diskVars, ghostVars
<1>1. UNCHANGED <<start, retired>>  BY DEF WriteFails
<1>2. CASE StepFails \/ RewriteFails \/ CommitFails \/ MarkFails
  <2>1. UNCHANGED <<file, record, manifest>>
    BY <1>2 DEF StepFails, RewriteFails, CommitFails, MarkFails
  <2> QED BY <1>1, <2>1, UnchangedTurns, StartSame DEF FilesInv
<1>3. CASE RestoreFails  BY <1>1, <1>3, RestoreFails_Exact
<1>4. ASSUME NEW f \in File, TouchFails(f) PROVE Exact'
  BY <1>1, <1>4, Snapshot_Exact DEF TouchFails, FilesInv
<1> QED BY <1>2, <1>3, <1>4 DEF WriteFails

LEMMA Next_Exact == IInv /\ Framed /\ FilesInv /\ [Next]_vars => Exact'
<1> SUFFICES ASSUME IInv, Framed, FilesInv, [Next]_vars PROVE Exact'  OBVIOUS
<1>1. CASE Aside  BY <1>1, Same_Exact
<1>2. CASE RegisterTurn  BY <1>2, Register_Exact DEF FilesInv
<1>3. CASE RetireTurns  BY <1>3, Retire_Exact
<1>4. ASSUME NEW f \in File, RestoreFile(f) \/ Touch(f) \/ Edit(f) PROVE Exact'
  <2>1. CASE RestoreFile(f)  BY <2>1, RestoreFile_Exact
  <2>2. CASE Touch(f)  BY <2>2, Snapshot_Exact DEF Touch, ghostVars, FilesInv
  <2>3. CASE Edit(f)  BY <2>3, Edit_Exact
  <2> QED BY <1>4, <2>1, <2>2, <2>3
<1>5. CASE WriteFails  BY <1>5, Fails_Exact
<1> QED BY <1>1, <1>2, <1>3, <1>4, <1>5
        DEF Next, Aside, Asking, Recovering, Rewinding, Turning

-----------------------------------------------------------------------------
(* The restore of files.                                                   *)
LEMMA BeginRestoring ==
    ASSUME IInv, Framed, NEW t \in Nat, NEW p, BeginRestore(p, t), pc # "down", p \in InRestore,
           UNCHANGED <<storeVars, start, retired>>, p = "undo" => t = LastTurn
    PROVE  Restoring' /\ pc' = p /\ op'.turn = t /\ op'.before = file
<1>1. Asked  BY DEF IInv
<1>2. pc' = p /\ op'.turn = t /\ op'.todo = ChangedFrom(t) /\ op'.before = file
  BY <1>1, RequestKept
<1>3. UNCHANGED <<file, record, manifest, retired, live, start>>  BY DEF storeVars, diskVars
<1>4. SameTurns  BY <1>3, UnchangedTurns
<1>5. ChangedFrom(t)' = ChangedFrom(t)  BY <1>3 DEF ChangedFrom, ChangedBy, From
<1>6. ASSUME NEW f \in File, f \notin op'.todo, ~ HiddenFrom(t, f)' PROVE file'[f] = Was(t, f)'
  <2>1. ~ HiddenFrom(t, f)  BY <1>4, <1>6, SameSeen
  <2>2. file'[f] = file[f]  BY <1>3
  <2>3. Was(t, f)' = Was(t, f)  BY <1>4, <2>2, SameWas
  <2>4. Changers(t, f) = {}  BY <1>2, <1>6, <2>1, AtStartIs
  <2> QED BY <2>2, <2>3, <2>4 DEF Was
<1>7. LastTurn' = LastTurn  BY <1>3 DEF LastTurn
<1>8. pc' # "editing"  BY <1>2 DEF InRestore
<1>9. Restored(t)'  BY <1>2, <1>3, <1>5, <1>6 DEF Restored
<1> QED BY <1>2, <1>7, <1>8, <1>9 DEF Restoring

LEMMA RestoreFile_Restored ==
    ASSUME IInv, Framed, FilesInv, NEW f \in File, RestoreFile(f)
    PROVE  /\ Restoring' /\ SameTurns /\ pc \in InRestore
           /\ op'.turn = op.turn /\ op'.before = op.before
           /\ \A g \in File : g # f => file'[g] = file[g]
           /\ file'[f] = AtStart(op.turn, f)
<1>0. pc \in InRestore  BY DEF RestoreFile, InRestore
<1> PICK t \in Nat : t = op.turn /\ Restored(t)  BY <1>0, Present
<1>1. Shapes /\ Asked  BY DEF Framed, IInv
<1>2. /\ file' = [file EXCEPT ![f] = AtStart(t, f)] /\ pc' = pc /\ pc \in InRestore /\ f \in op.todo
      /\ op' = [op EXCEPT !.todo = @ \ {f}]
      /\ start' = Restrict(start, {p \in DOMAIN start : p[2] = f => p[1] <= t})
      /\ UNCHANGED <<record, manifest, retired, live>>
  BY DEF RestoreFile, Restore, diskVars, InRestore
<1>3. op'.turn = t /\ op'.before = op.before /\ op'.todo = op.todo \ {f}
  BY <1>1, <1>2 DEF Asked
<1>5. SameTurns  BY <1>2, UnchangedTurns
<1>6. file'[f] = AtStart(t, f) /\ \A g \in File : g # f => file'[g] = file[g]
  BY <1>1, <1>2 DEF Shapes, FileMap
<1>7. ChangedFrom(t)' = ChangedFrom(t)  BY <1>2 DEF ChangedFrom, ChangedBy, From
<1>8. Changers(t, f) # {}  BY <1>2, TouchedHas DEF Restored
<1>9. \A p \in DOMAIN start' : p \in DOMAIN start /\ (p[2] = f => p[1] <= t)
  BY <1>2 DEF Restrict
<1>10. ASSUME NEW g \in File
       PROVE  \/ file'[g] = op'.before[g]
              \/ Changers(t, g)' # {} /\ \A p \in DOMAIN start' : p[2] = g => p[1] <= t
  <2>1. Changers(t, g)' = Changers(t, g)  BY <1>5, SameSeen
  <2>2. CASE g = f  BY <1>8, <1>9, <2>1, <2>2
  <2>3. CASE g # f  BY <1>3, <1>6, <1>9, <2>1, <2>3 DEF Restored
  <2> QED BY <2>2, <2>3
<1>11. ASSUME NEW g \in File, g \notin op'.todo, ~ HiddenFrom(t, g)'
       PROVE  file'[g] = Was(t, g)'
  <2>1. ~ HiddenFrom(t, g)  BY <1>5, <1>11, SameSeen
  <2>2. Was(t, g)' = Was(t, g)  BY <1>5, <1>6, <1>8, SameWas
  <2>3. CASE g = f
    <3>1. pc # "down"  BY <1>2 DEF InRestore
    <3> QED BY <1>6, <2>1, <2>2, <2>3, <3>1, AtStartIs
  <2>4. CASE g # f  BY <1>3, <1>6, <1>11, <2>1, <2>2, <2>4 DEF Restored
  <2> QED BY <2>3, <2>4
<1>12. Restored(t)'  BY <1>3, <1>7, <1>10, <1>11 DEF Restored
<1>13. pc' # "editing" /\ (pc' = "undo" => op'.turn = LastTurn')
  BY <1>2, <1>3 DEF FilesInv, Restoring, InRestore, LastTurn
<1>14. Restoring'  BY <1>2, <1>3, <1>12, <1>13 DEF Restoring
<1> QED BY <1>2, <1>3, <1>5, <1>6, <1>14

(* Nothing is restored or about to be edited.                              *)
LEMMA NotRestoring == pc' \notin InRestore \cup {"editing"} => Restoring'
BY DEF Restoring, InRestore

LEMMA Aside_Restoring == IInv /\ Framed /\ FilesInv /\ Aside => Restoring'
<1> SUFFICES ASSUME IInv, Framed, FilesInv, Aside PROVE Restoring'  OBVIOUS
<1> USE DEF storeVars, diskVars, metaVars, convVars, ghostVars
<1>1. Asked /\ Where /\ Current  BY DEF IInv, Framed
<1>2. CASE UNCHANGED vars
  <2>1. UNCHANGED <<record, manifest, retired, live, cur, file, start, pc, op>>  BY <1>2 DEF vars
  <2>2. \A t, f : (HiddenFrom(t, f)' <=> HiddenFrom(t, f)) /\ Changers(t, f)' = Changers(t, f)
    BY <2>1, UnchangedTurns, SameSeen
  <2>3. \A t, f : Was(t, f)' = Was(t, f)
    <3> TAKE t, f
    <3>1. file'[f] = file[f]  BY <2>1
    <3> QED BY <2>1, <3>1, UnchangedTurns, SameWas
  <2>4. \A t : ChangedFrom(t)' = ChangedFrom(t)  BY <2>1 DEF ChangedFrom, ChangedBy, From
  <2>5. \A t \in Nat : Restored(t) => Restored(t)'  BY <2>1, <2>2, <2>3, <2>4 DEF Restored
  <2> QED BY <2>1, <2>5 DEF FilesInv, Restoring, LastTurn
<1>3. CASE Recovering /\ ~ UNCHANGED vars
  <2>1. CASE RecoverTurn
    <3>1. CASE BeginRestore("undo", marker.turn) /\ marker.turn \in live
      <4>1. marker.turn = LastTurn /\ LastTurn \in Nat /\ pc # "down"
        BY <1>1, <2>1 DEF Where, Current, RecoverTurn, InRecovery
      <4>2. "undo" \in InRestore  BY DEF InRestore
      <4>3. UNCHANGED <<storeVars, start, retired>>  BY <2>1 DEF RecoverTurn
      <4> QED BY <3>1, <4>1, <4>2, <4>3, BeginRestoring
    <3>2. CASE Go("unmark") \/ Rest
      BY <3>2, NotRestoring DEF Go, Rest, InRestore
    <3> QED BY <2>1, <3>1, <3>2 DEF RecoverTurn
  <2>2. CASE ~ RecoverTurn
    <3>1. pc' \notin InRestore \cup {"editing"}
      BY <1>1, <1>3, <2>2 DEF Recovering, Strip, Anchor, Unmark, Go, Enter, Doing, Asked, Kind, InRestore
    <3> QED BY <3>1, NotRestoring
  <2> QED BY <2>1, <2>2
<1>4. CASE Rewinding /\ ~ UNCHANGED vars
  <2>1. CASE Preflight
    <3>1. CASE BeginRestore("code", op.request.turn)
      <4>1. op.request.turn \in Nat /\ pc # "down"  BY <1>1, <2>1 DEF Where, Preflight
      <4>2. "code" \in InRestore  BY DEF InRestore
      <4>3. UNCHANGED <<storeVars, start, retired>>  BY <2>1 DEF Preflight
      <4> QED BY <3>1, <4>1, <4>2, <4>3, BeginRestoring
    <3>2. CASE ~ BeginRestore("code", op.request.turn)
      BY <2>1, <3>2, NotRestoring DEF Preflight, Rest, InRestore
    <3> QED BY <3>1, <3>2
  <2>2. CASE Republish
    <3>1. CASE BeginRestore("rewind", journal.turn)
      <4>1. journal.turn \in Nat /\ pc # "down"  BY <1>1, <2>2 DEF Where, InRewind, Republish
      <4>2. "rewind" \in InRestore  BY DEF InRestore
      <4>3. UNCHANGED <<storeVars, start, retired>>  BY <2>2 DEF Republish
      <4> QED BY <3>1, <4>1, <4>2, <4>3, BeginRestoring
    <3>2. CASE ~ BeginRestore("rewind", journal.turn)
      BY <2>2, <3>2, NotRestoring DEF Republish, AfterFiles, Go, GoRetire, InRestore
    <3> QED BY <3>1, <3>2
  <2>3. CASE ~ Preflight /\ ~ Republish
    <3>1. pc' \notin InRestore \cup {"editing"}
      BY <1>1, <1>4, <2>3
         DEF Rewinding, Publish, Advance, Clear, FinishRestore, Compact, Go, Rest, GoRetire, AfterFiles,
             Enter, Doing, Asked, Kind, InRestore
    <3> QED BY <3>1, NotRestoring
  <2> QED BY <2>1, <2>2, <2>3
<1>5. CASE Asking \/ Resume \/ Crash
  <2>1. pc' \notin InRestore \cup {"editing"}
    BY <1>5 DEF Asking, AskTurn, AskCompact, AskRewind, Resume, Crash, Enter, Doing, Open, InRestore
  <2> QED BY <2>1, NotRestoring
<1>6. CASE Turning \/ AllocateTurn \/ Collect
  <2>1. pc' \notin InRestore \cup {"editing"}
    BY <1>6 DEF Turning, Arm, Say, Autosave, EndTurn, FailTurn, Save, SaveAnchor, Commit, Finish,
                AllocateTurn, Collect, Go, Rest, InRestore
  <2> QED BY <2>1, NotRestoring
<1> QED BY <1>2, <1>3, <1>4, <1>5, <1>6 DEF Aside

LEMMA Next_Restoring == IInv /\ Framed /\ FilesInv /\ [Next]_vars => Restoring'
<1> SUFFICES ASSUME IInv, Framed, FilesInv, [Next]_vars PROVE Restoring'  OBVIOUS
<1>1. CASE Aside  BY <1>1, Aside_Restoring
<1>2. CASE RegisterTurn \/ RetireTurns
  BY <1>2, NotRestoring DEF RegisterTurn, RetireTurns, Go, InRestore
<1>3. ASSUME NEW f \in File, RestoreFile(f) \/ Touch(f) \/ Edit(f) PROVE Restoring'
  <2>1. CASE RestoreFile(f)  BY <2>1, RestoreFile_Restored
  <2>2. CASE Touch(f)
    <3>1. pc' = "editing" /\ op' = [op EXCEPT !.todo = {f}] /\ Snapshot(f) /\ cur' = cur
          /\ pc = "running"
      BY <2>2 DEF Touch, Snapshot
    <3>2. op'.todo = {f}  BY <3>1 DEF IInv, Asked
    <3>3. cur \in DOMAIN record  BY <3>1 DEF Framed, Where, Current, InTurn
    <3>4. f \in DOMAIN record'[cur].files
      BY <3>1, <3>3, SnapshotShape DEF Framed, Shapes, SnapshotFiles
    <3>5. pc' \notin InRestore  BY <3>1 DEF InRestore
    <3> QED BY <3>1, <3>2, <3>4, <3>5 DEF Restoring
  <2>3. CASE Edit(f)  BY <2>3, NotRestoring DEF Edit, InRestore
  <2> QED BY <1>3, <2>1, <2>2, <2>3
<1>4. CASE WriteFails
  BY <1>4, NotRestoring
     DEF WriteFails, StepFails, RewriteFails, CommitFails, MarkFails, RestoreFails, TouchFails,
         Go, Rest, GoRetire, InRestore
<1> QED BY <1>1, <1>2, <1>3, <1>4 DEF Next, Aside, Asking, Recovering, Rewinding, Turning

-----------------------------------------------------------------------------
(* The phases of the journal.                                              *)
LEMMA NoJournalLeft ==
    ASSUME journal' = NoJournal, pc' = "collect" => op'.doomed \subseteq retired'
    PROVE  Journaled'
BY DEF Journaled

LEMMA AtRest ==
    ASSUME pc' \in {"down", "idle", "publish"}, NEW t
    PROVE  AtWork(t)'
BY DEF AtWork

(* One rewind goes on.                                                     *)
LEMMA JournalStays ==
    ASSUME Framed, FilesInv, journal' = journal, pc' # "collect",
           \A t \in Nat : journal # NoJournal /\ journal.turn = t /\ JournalOf(t) => JournalOf(t)'
    PROVE  Journaled'
BY DEF FilesInv, Journaled

LEMMA StaysSettled ==
    ASSUME IInv, SameTurns, NEW t, Settled(t), UNCHANGED <<file, journal, retired>>,
           manifest'.next = manifest.next, DOMAIN start' \subseteq DOMAIN start,
           \A p \in DOMAIN start' : start'[p] = start[p]
    PROVE  Settled(t)'
<1>1. Undone(t) => Undone(t)'  BY SameUndone
<1>2. LastTurn' = LastTurn  BY DEF LastTurn
<1>3. \A f \in File : <<t, f>> \in DOMAIN start' =>
         <<t, f>> \in DOMAIN start /\ start'[<<t, f>>] = start[<<t, f>>]
  OBVIOUS
<1> QED BY <1>1, <1>2, <1>3 DEF Settled, Prepared, Applied

LEMMA Entering_Journaled == IInv /\ Framed /\ FilesInv /\ (Asking \/ Resume \/ Crash) => Journaled'
<1> SUFFICES ASSUME IInv, Framed, FilesInv, Asking \/ Resume \/ Crash PROVE Journaled'  OBVIOUS
<1> USE DEF storeVars, diskVars, metaVars, convVars, ghostVars
<1>1. Where  BY DEF Framed
<1>2. UNCHANGED <<file, record, manifest, retired, start, journal>>
  BY DEF Asking, AskTurn, AskCompact, AskRewind, Resume, Load, Crash
<1>3. pc' # "collect"
  BY DEF Asking, AskTurn, AskCompact, AskRewind, Resume, Crash, Enter, Doing, Open
<1>4. journal # NoJournal => pc' \in {"publish", "down"}
  BY <1>1 DEF Asking, AskTurn, AskCompact, AskRewind, Resume, Crash, Enter, Interrupted, Pending, Where
<1>5. ASSUME NEW t \in Nat, journal # NoJournal, JournalOf(t) PROVE JournalOf(t)'
  <2>1. Settled(t)'  BY <1>2, <1>5, UnchangedTurns, StaysSettled DEF JournalOf
  <2> QED BY <1>4, <1>5, <2>1, AtRest DEF JournalOf
<1> QED BY <1>2, <1>3, <1>5, JournalStays

LEMMA Rewinding_Journaled == IInv /\ Framed /\ FilesInv /\ Rewinding => Journaled'
<1> SUFFICES ASSUME IInv, Framed, FilesInv, Rewinding PROVE Journaled'  OBVIOUS
<1> USE DEF storeVars, diskVars, metaVars, convVars, ghostVars
<1>1. Where /\ Asked /\ Shapes  BY DEF Framed, IInv
<1>2. UNCHANGED <<file, record, manifest, retired, live>>
  BY DEF Rewinding, Preflight, Publish, Republish, Advance, Clear, FinishRestore, Compact
<1>3. pc' # "collect"
  <2>1. CASE Clear
    BY <1>1, <2>1 DEF Clear, Enter, Doing, Asked, Kind
  <2>2. CASE ~ Clear
    BY <2>2 DEF Rewinding, Preflight, Publish, Republish, Advance, FinishRestore, Compact,
                Go, Rest, GoRetire, AfterFiles, BeginRestore
  <2> QED BY <2>1, <2>2
<1>4. CASE Preflight
  <2>1. journal = NoJournal  BY <1>1, <1>4 DEF Where, InStart, Preflight
  <2>2. CASE journal' = journal  BY <1>3, <2>1, <2>2, NoJournalLeft
  <2>3. CASE journal' # journal
    <3>1. /\ Rewindable(op.request.turn) /\ pc' = "publish"
          /\ journal' = [turn |-> op.request.turn, text |-> record[op.request.turn].text,
                         code |-> op.request.code, phase |-> "prepared"]
      BY <1>4, <2>3 DEF Preflight
    <3>2. journal'.turn = op.request.turn /\ journal'.phase = "prepared"  BY <3>1
    <3>3. op.request.turn \notin retired  BY <3>1 DEF Rewindable, IInv, RetiredStaysGone
    <3>4. \A t \in Nat : journal'.turn = t => JournalOf(t)'
      BY <1>2, <3>1, <3>2, <3>3, AtRest DEF JournalOf, Settled, Prepared, Applied
    <3> QED BY <1>3, <3>4 DEF Journaled
  <2> QED BY <2>2, <2>3
<1>5. CASE Publish
  <2>1. UNCHANGED <<journal, start>>  BY <1>5 DEF Publish
  <2>2. ASSUME NEW t \in Nat, journal # NoJournal, journal.turn = t, JournalOf(t) PROVE JournalOf(t)'
    <3>1. Settled(t)'  BY <1>2, <2>1, <2>2, UnchangedTurns, StaysSettled DEF JournalOf
    <3>2. CASE Rest  BY <2>2, <3>1, <3>2, AtRest DEF Rest, JournalOf
    <3>3. CASE Publishable /\ Go("republish")
      BY <1>2, <2>1, <2>2, <3>1, <3>3 DEF Go, JournalOf, AtWork, Publishable, Prepared
    <3> QED BY <1>5, <3>2, <3>3 DEF Publish
  <2> QED BY <1>3, <2>1, <2>2, JournalStays
<1>6. CASE Republish
  <2>1. UNCHANGED <<journal, start>> /\ pc = "republish"  BY <1>6 DEF Republish
  <2>2. ASSUME NEW t \in Nat, journal # NoJournal, journal.turn = t, JournalOf(t) PROVE JournalOf(t)'
    <3>1. Settled(t)'  BY <1>2, <2>1, <2>2, UnchangedTurns, StaysSettled DEF JournalOf
    <3>2. CASE journal.code /\ t \in live
      <4>1. pc' = "rewind" /\ op'.turn = t /\ op'.before = file
        BY <1>1, <1>6, <2>2, <3>2, RequestKept DEF Republish
      <4> QED BY <1>2, <2>1, <3>1, <3>2, <4>1 DEF JournalOf, AtWork
    <3>3. CASE ~ (journal.code /\ t \in live)
      <4>1. AfterFiles  BY <1>6, <2>2, <3>3 DEF Republish
      <4>2. CASE Prepared
        <5>1. pc' = "advance" /\ ~ journal.code
          BY <2>1, <2>2, <3>3, <4>1, <4>2 DEF AfterFiles, Go, Prepared, JournalOf, AtWork
        <5> QED BY <2>1, <3>1, <4>2, <5>1 DEF JournalOf, AtWork, Prepared
      <4>3. CASE ~ Prepared
        <5>1. pc' = "retire" /\ op'.turn = t /\ Applied
          BY <1>1, <2>2, <4>1, <4>3
             DEF AfterFiles, GoRetire, Prepared, Applied, Asked, Shapes, Where
        <5> QED BY <2>1, <3>1, <5>1 DEF JournalOf, AtWork, Applied
      <4> QED BY <4>2, <4>3
    <3> QED BY <3>2, <3>3
  <2> QED BY <1>3, <2>1, <2>2, JournalStays
<1>7. CASE Advance
  <2>1. /\ journal'.turn = journal.turn /\ journal'.phase = "applied" /\ journal'.code = journal.code
        /\ journal # NoJournal /\ pc' = "retire" /\ op'.turn = journal.turn /\ pc = "advance"
        /\ UNCHANGED start
    BY <1>1, <1>7 DEF Shapes, Advance, GoRetire, Asked, Where, InRewind
  <2>2. PICK t \in Nat : journal.turn = t /\ JournalOf(t)  BY <2>1, Present
  <2>3. t \notin retired /\ (journal.code => Undone(t))
    BY <2>1, <2>2 DEF JournalOf, Settled, AtWork
  <2>4. Undone(t) => Undone(t)'  BY <1>2, UnchangedTurns, SameUndone
  <2>5. JournalOf(t)'
    BY <1>2, <2>1, <2>2, <2>3, <2>4 DEF JournalOf, Settled, AtWork, Prepared, Applied
  <2> QED BY <1>3, <2>1, <2>2, <2>5 DEF Journaled
<1>8. CASE Clear
  BY <1>3, <1>8, NoJournalLeft DEF Clear
<1>9. CASE FinishRestore
  <2>1. UNCHANGED <<journal, start>> /\ op.todo = {}  BY <1>9 DEF FinishRestore
  <2>2. CASE pc = "rewind"
    <3> SUFFICES ASSUME NEW t \in Nat, journal # NoJournal, journal.turn = t, JournalOf(t)
                 PROVE  JournalOf(t)'
      BY <1>3, <2>1, JournalStays
    <3>1. Settled(t)'  BY <1>2, <2>1, UnchangedTurns, StaysSettled DEF JournalOf
    <3>2. AfterFiles  BY <1>9, <2>2 DEF FinishRestore
    <3>3. CASE Prepared
      <4>1. pc' = "advance"  BY <3>2, <3>3 DEF AfterFiles, Go, Prepared
      <4>2. op.turn = t  BY <2>2 DEF JournalOf, AtWork
      <4>3. Restored(t)  BY <2>2, <4>2, Present DEF InRestore
      <4>4. Undone(t)  BY <2>1, <4>3 DEF Restored, Undone
      <4>5. Undone(t)'  BY <1>2, <4>4, UnchangedTurns, SameUndone
      <4> QED BY <2>1, <3>1, <3>3, <4>1, <4>5 DEF JournalOf, AtWork, Prepared
    <3>4. CASE ~ Prepared
      <4>1. pc' = "retire" /\ op'.turn = t /\ Applied
        BY <1>1, <3>2, <3>4 DEF AfterFiles, GoRetire, Prepared, Applied, Asked, Shapes, Where
      <4> QED BY <2>1, <3>1, <4>1 DEF JournalOf, AtWork, Applied
    <3> QED BY <3>3, <3>4
  <2>3. CASE pc # "rewind"
    <3>1. journal = NoJournal
      BY <1>1, <1>9, <2>3 DEF FinishRestore, Where, InRewind, InRetirement
    <3> QED BY <1>3, <2>1, <3>1, NoJournalLeft
  <2> QED BY <2>2, <2>3
<1>10. CASE Compact
  <2>1. journal = NoJournal /\ journal' = journal  BY <1>1, <1>10 DEF Where, InStart, Compact
  <2> QED BY <1>3, <2>1, NoJournalLeft
<1> QED BY <1>4, <1>5, <1>6, <1>7, <1>8, <1>9, <1>10 DEF Rewinding

LEMMA Retire_Journaled == IInv /\ Framed /\ FilesInv /\ RetireTurns => Journaled'
<1> SUFFICES ASSUME IInv, Framed, FilesInv, RetireTurns PROVE Journaled'  OBVIOUS
<1>1. Shapes /\ Asked /\ Numbered  BY DEF Framed, IInv
<1>2. /\ op.turn \in Nat /\ op.turn < manifest.next /\ UNCHANGED <<file, record, journal>>
      /\ manifest'.next = manifest.next /\ retired' = retired \cup (op.turn..(manifest.next - 1))
      /\ \A v \in DOMAIN record : v \in Nat /\ v < manifest.next
  BY RetireKeeps
<1>3. manifest.next \in Nat  BY <1>1, TurnAssumption DEF Numbered
<1>4. pc = "retire" /\ pc' = "collect" /\ op'.doomed = From(op.turn)
  BY <1>1 DEF RetireTurns, Asked
<1>5. op'.doomed \subseteq retired'
  BY <1>1, <1>2, <1>3, <1>4 DEF From, Numbered
<1> SUFFICES ASSUME NEW t \in Nat, journal # NoJournal, journal.turn = t, JournalOf(t)
             PROVE  JournalOf(t)'
  BY <1>2, <1>5 DEF FilesInv, Journaled
<1>6. Applied /\ op.turn = t  BY <1>4 DEF JournalOf, AtWork
<1>7. t \in retired' /\ t .. LastTurn' \subseteq retired'
  BY <1>2, <1>3, <1>6 DEF LastTurn
<1>8. ASSUME journal.code, NEW f \in File, <<t, f>> \in DOMAIN start' PROVE file'[f] = start'[<<t, f>>]
  <2>1. /\ <<t, f>> \in DOMAIN start /\ start'[<<t, f>>] = start[<<t, f>>]
        /\ ~ HiddenFrom(t, f)
    BY <1>6, <1>8, RetireForgets
  <2>2. CASE t \in retired
    BY <1>2, <1>6, <1>8, <2>1, <2>2 DEF JournalOf, Settled
  <2>3. CASE t \notin retired
    <3>1. file[f] = Was(t, f)  BY <1>6, <1>8, <2>1, <2>3 DEF JournalOf, Settled, Undone
    <3>2. Was(t, f) = start[<<t, f>>]  BY <2>1, <2>3 DEF FilesInv, Exact
    <3> QED BY <1>2, <2>1, <3>1, <3>2
  <2> QED BY <2>2, <2>3
<1>9. Applied' /\ ~ Prepared' /\ journal'.code = journal.code  BY <1>2, <1>6 DEF Applied, Prepared
<1> QED BY <1>4, <1>7, <1>8, <1>9 DEF JournalOf, Settled, AtWork

LEMMA Collect_Journaled == IInv /\ Framed /\ FilesInv /\ Collect => Journaled'
<1> SUFFICES ASSUME IInv, Framed, FilesInv, Collect PROVE Journaled'  OBVIOUS
<1>1. SameTurns /\ UNCHANGED <<file, manifest, retired, live, journal, start>>  BY Collect_Same
<1>2. pc = "collect" /\ pc' # "collect" /\ (journal # NoJournal => pc' = "clear")
  BY DEF Collect, Go, Rest
<1> SUFFICES ASSUME NEW t \in Nat, journal # NoJournal, journal.turn = t, JournalOf(t)
             PROVE  JournalOf(t)'
  BY <1>1, <1>2, JournalStays
<1>3. Settled(t)'  BY <1>1, StaysSettled DEF JournalOf
<1> QED BY <1>1, <1>2, <1>3 DEF JournalOf, AtWork, Applied

(* Going on with the files of an applied rewind changes none of them.      *)
LEMMA RestoreFile_Journaled ==
    ASSUME IInv, Framed, FilesInv, NEW f \in File, RestoreFile(f)
    PROVE  Journaled'
<1>1. /\ SameTurns /\ pc \in InRestore /\ op'.turn = op.turn /\ op'.before = op.before
      /\ \A g \in File : g # f => file'[g] = file[g]
      /\ file'[f] = AtStart(op.turn, f)
  BY RestoreFile_Restored
<1>2. f \in op.todo /\ pc' = pc /\ UNCHANGED <<journal, retired, live, manifest>>
  BY DEF RestoreFile, Restore, diskVars, metaVars
<1> SUFFICES ASSUME NEW t \in Nat, journal # NoJournal, journal.turn = t, JournalOf(t)
             PROVE  JournalOf(t)'
  BY <1>1, <1>2, JournalStays DEF InRestore
<1>3. pc = "rewind"  BY <1>1 DEF Framed, Where, InRestore, InRewind, InRetirement
<1>4. op.turn = t /\ journal.code /\ t \in live /\ t \notin retired
  BY <1>3 DEF JournalOf, AtWork, IInv, RetiredStaysGone
<1>5. Changers(t, f) # {}  BY <1>1, <1>2, <1>4, Present, TouchedHas DEF Restored
<1>6. ASSUME NEW g \in File, ~ HiddenFrom(t, g)', Applied PROVE file'[g] = Was(t, g)' /\ file'[g] = file[g]
  <2>1. ~ HiddenFrom(t, g)  BY <1>1, <1>6, SameSeen
  <2>2. file[g] = Was(t, g)  BY <1>4, <1>6, <2>1 DEF JournalOf, Settled, Undone
  <2>3. file'[g] = file[g]
    <3>1. CASE g = f
      <4>1. AtStart(t, f) = Was(t, f)  BY <1>3, <2>1, <3>1, AtStartIs
      <4> QED BY <1>1, <1>4, <2>2, <3>1, <4>1
    <3>2. CASE g # f  BY <1>1, <3>2
    <3> QED BY <3>1, <3>2
  <2>4. Was(t, g)' = Was(t, g)  BY <1>1, <2>3, SameWas
  <2> QED BY <2>2, <2>3, <2>4
<1>7. Applied => Undone(t)'  BY <1>6 DEF Undone
<1>8. (Applied' <=> Applied) /\ (Prepared' <=> Prepared) /\ journal' = journal
  BY <1>2 DEF Applied, Prepared
<1>9. Settled(t)'  BY <1>2, <1>4, <1>7, <1>8 DEF Settled
<1>10. ASSUME NEW g \in File, ~ HiddenFrom(t, g)', Applied PROVE file'[g] = op'.before[g]
  <2>1. ~ HiddenFrom(t, g)  BY <1>1, <1>10, SameSeen
  <2>2. file'[g] = file[g]  BY <1>6, <1>10
  <2>3. file[g] = op.before[g]  BY <1>3, <1>10, <2>1 DEF JournalOf, AtWork
  <2> QED BY <1>1, <2>2, <2>3
<1> QED BY <1>1, <1>2, <1>3, <1>4, <1>8, <1>9, <1>10 DEF JournalOf, AtWork

LEMMA RestoreFails_Journaled ==
    ASSUME IInv, Framed, FilesInv, RestoreFails, UNCHANGED <<start, retired, journal>>
    PROVE  Journaled'
<1>1. file' = op.before /\ pc \in InRestore /\ pc' = "idle" /\ UNCHANGED <<record, manifest, live>>
  BY DEF RestoreFails, Rest, diskVars, InRestore
<1>2. SameTurns  BY <1>1, UnchangedTurns
<1> SUFFICES ASSUME NEW t \in Nat, journal # NoJournal, journal.turn = t, JournalOf(t)
             PROVE  JournalOf(t)'
  BY <1>1, JournalStays
<1>3. pc = "rewind"  BY <1>1 DEF Framed, Where, InRestore, InRewind, InRetirement
<1>4. t \in live /\ t \notin retired /\ journal.code
  BY <1>3 DEF JournalOf, AtWork, IInv, RetiredStaysGone
<1>5. ASSUME NEW f \in File, ~ HiddenFrom(t, f)', Applied PROVE file'[f] = Was(t, f)'
  <2>1. ~ HiddenFrom(t, f)  BY <1>2, <1>5, SameSeen
  <2>2. file[f] = Was(t, f)  BY <1>4, <1>5, <2>1 DEF JournalOf, Settled, Undone
  <2>3. file'[f] = file[f]  BY <1>1, <1>3, <1>5, <2>1 DEF JournalOf, AtWork
  <2>4. Was(t, f)' = Was(t, f)  BY <1>2, <2>3, SameWas
  <2> QED BY <2>2, <2>3, <2>4
<1>6. Applied => Undone(t)'  BY <1>5 DEF Undone
<1>7. (Applied' <=> Applied) /\ (Prepared' <=> Prepared)  BY DEF Applied, Prepared
<1>8. Settled(t)'  BY <1>4, <1>6, <1>7 DEF Settled
<1> QED BY <1>1, <1>8, AtRest DEF JournalOf

LEMMA Next_Journaled == IInv /\ Framed /\ FilesInv /\ [Next]_vars => Journaled'
<1> SUFFICES ASSUME IInv, Framed, FilesInv, [Next]_vars PROVE Journaled'  OBVIOUS
<1> USE DEF storeVars, diskVars, metaVars, convVars, ghostVars
<1>1. Where  BY DEF Framed
<1>2. CASE UNCHANGED vars
  <2>1. UNCHANGED <<file, record, manifest, retired, start, journal, live, pc, op>>  BY <1>2 DEF vars
  <2>2. ASSUME NEW t \in Nat, JournalOf(t) PROVE JournalOf(t)'
    <3>1. Settled(t)'  BY <2>1, <2>2, UnchangedTurns, StaysSettled DEF JournalOf
    <3>2. \A f \in File : HiddenFrom(t, f)' <=> HiddenFrom(t, f)  BY <2>1, UnchangedTurns, SameSeen
    <3>3. Undone(t) => Undone(t)'  BY <2>1, UnchangedTurns, SameUndone
    <3> QED BY <2>1, <2>2, <3>1, <3>2, <3>3 DEF JournalOf, AtWork, Applied, Prepared
  <2> QED BY <2>1, <2>2 DEF FilesInv, Journaled
<1>3. CASE Asking \/ Resume \/ Crash  BY <1>3, Entering_Journaled
<1>4. CASE Rewinding  BY <1>4, Rewinding_Journaled
<1>5. CASE RetireTurns \/ Collect  BY <1>5, Retire_Journaled, Collect_Journaled
<1>6. CASE Recovering \/ Turning \/ AllocateTurn \/ RegisterTurn
  <2>1. journal' = journal /\ pc \in InRecovery \cup InTurn \cup InStart
    BY <1>6 DEF Recovering, RecoverTurn, Strip, Anchor, Unmark, Turning, Arm, Say, Autosave, EndTurn,
                FailTurn, Save, SaveAnchor, Commit, Finish, AllocateTurn, RegisterTurn,
                InRecovery, InTurn, InStart
  <2>2. journal = NoJournal
    BY <1>1, <2>1 DEF Where
  <2>3. pc' # "collect"
    <3>1. Unmark => pc' # "collect"  BY DEF Unmark, Enter, Doing, IInv, Asked, Kind
    <3>2. ~ Unmark => pc' # "collect"
      BY <1>6 DEF Recovering, RecoverTurn, Strip, Anchor, Turning, Arm, Say, Autosave, EndTurn,
                  FailTurn, Save, SaveAnchor, Commit, Finish, AllocateTurn, RegisterTurn,
                  Go, Rest, BeginRestore
    <3> QED BY <3>1, <3>2
  <2> QED BY <2>1, <2>2, <2>3, NoJournalLeft
<1>7. ASSUME NEW f \in File, RestoreFile(f) \/ Touch(f) \/ Edit(f) PROVE Journaled'
  <2>1. CASE RestoreFile(f)  BY <2>1, RestoreFile_Journaled
  <2>2. CASE Touch(f) \/ Edit(f)
    <3>1. journal' = journal /\ pc \in InTurn /\ pc' # "collect"
      BY <2>2 DEF Touch, Edit, InTurn
    <3> QED BY <1>1, <3>1, NoJournalLeft DEF Where
  <2> QED BY <1>7, <2>1, <2>2
<1>8. CASE WriteFails
  <2>1. UNCHANGED <<start, retired, journal>>  BY <1>8 DEF WriteFails
  <2>2. CASE RestoreFails  BY <2>1, <2>2, RestoreFails_Journaled
  <2>3. CASE StepFails \/ RewriteFails
    <3>1. pc' = "idle" /\ UNCHANGED <<file, record, manifest>>
      BY <2>3 DEF StepFails, RewriteFails, Rest
    <3>2. ASSUME NEW t \in Nat, JournalOf(t) PROVE JournalOf(t)'
      BY <2>1, <3>1, <3>2, UnchangedTurns, StaysSettled, AtRest DEF JournalOf
    <3> QED BY <2>1, <3>1, <3>2, JournalStays
  <2>4. CASE CommitFails \/ MarkFails \/ \E f \in File : TouchFails(f)
    <3>1. pc \in InTurn \cup InStart /\ pc' # "collect"
      BY <2>4 DEF CommitFails, MarkFails, TouchFails, Go, GoRetire, InTurn, InStart
    <3> QED BY <1>1, <2>1, <3>1, NoJournalLeft DEF Where
  <2> QED BY <1>8, <2>2, <2>3, <2>4 DEF WriteFails
<1> QED BY <1>2, <1>3, <1>4, <1>5, <1>6, <1>7, <1>8 DEF Next, Asking, Recovering, Rewinding, Turning

LEMMA Init_FilesInv == Init => FilesInv
<1> SUFFICES ASSUME Init PROVE FilesInv  OBVIOUS
<1>1. DOMAIN start = {} /\ pc = "down" /\ journal = NoJournal  BY DEF Init
<1>2. Exact  BY <1>1 DEF Exact
<1>3. Restoring  BY <1>1 DEF Restoring, InRestore
<1>4. Journaled  BY <1>1 DEF Journaled
<1> QED BY <1>2, <1>3, <1>4 DEF FilesInv

THEOREM FilesInvariance == Spec => [](IInv /\ Framed /\ FilesInv)
<1>1. Init => IInv /\ Framed /\ FilesInv  BY Init_IInv, Init_Framed, Init_FilesInv
<1>2. IInv /\ Framed /\ FilesInv /\ [Next]_vars => (IInv /\ Framed /\ FilesInv)'
  BY Next_IInv, Next_Framed, Next_Exact, Next_Restoring, Next_Journaled DEF FilesInv
<1> QED BY <1>1, <1>2, PTL DEF Spec

(* A rewind to a turn finds in every file what was in it when that turn    *)
(* began, whatever was undone, restored half or retired in between and     *)
(* after every restart, if only turns of the session have changed it and   *)
(* none of them is hidden (RestoreCode over the records of Snapshot).      *)
THEOREM RestoresAreExact == Spec => []RestoreExact
<1>1. IInv /\ Framed /\ FilesInv => RestoreExact
  <2> SUFFICES ASSUME IInv, Framed, FilesInv, NEW t \in live, NEW f \in File,
                      <<t, f>> \in DOMAIN start, ~ HiddenFrom(t, f)
               PROVE  AtStart(t, f) = start[<<t, f>>]
    BY Zenon DEF RestoreExact
  <2>1. t \in Nat /\ t \notin retired /\ t \in live  BY DEF IInv, Numbered, RetiredStaysGone
  <2>2. Was(t, f) = start[<<t, f>>]  BY <2>1 DEF FilesInv, Exact
  <2>3. ChangedBy(f) \cap From(t) = Changers(t, f)
    <3>1. pc # "down"  BY DEF IInv, Shown
    <3> QED BY <3>1, Seen
  <2> QED BY <2>2, <2>3 DEF AtStart, ChangedFrom, Was
<1> QED BY <1>1, FilesInvariance, PTL

-----------------------------------------------------------------------------
(* While files and checkpoints are rewound the conversation already is.    *)
Told ==
    journal # NoJournal =>
        /\ pc \in {"republish", "rewind", "advance", "retire", "collect", "clear"} =>
              text = journal.text /\ saved = journal.text
        /\ pc \in {"rewind", "advance", "retire", "collect", "clear"} => runtime = journal.text

LEMMA Next_Told == IInv /\ Framed /\ Told /\ [Next]_vars => Told'
<1> SUFFICES ASSUME IInv, Framed, Told, [Next]_vars PROVE Told'  OBVIOUS
<1> USE DEF convVars, metaVars
<1>1. Where /\ Shapes  BY DEF Framed
<1>2. CASE UNCHANGED vars  BY <1>2 DEF vars, Told
<1>3. CASE Asking \/ Resume \/ Crash
  <2>1. journal' = journal
    BY <1>3 DEF Asking, AskTurn, AskCompact, AskRewind, Resume, Crash
  <2>2. journal # NoJournal => pc' \in {"publish", "down"}
    BY <1>1, <1>3 DEF Asking, AskTurn, AskCompact, AskRewind, Resume, Crash, Enter, Interrupted, Pending,
                      Where
  <2> QED BY <2>1, <2>2 DEF Told
<1>4. CASE Recovering \/ Turning \/ AllocateTurn \/ RegisterTurn \/ Compact
  <2>1. journal' = journal /\ pc \in InRecovery \cup InTurn \cup InStart
    BY <1>4 DEF Recovering, RecoverTurn, Strip, Anchor, Unmark, Turning, Arm, Say, Autosave, EndTurn,
                FailTurn, Save, SaveAnchor, Commit, Finish, AllocateTurn, RegisterTurn, Compact,
                InRecovery, InTurn, InStart
  <2> QED BY <1>1, <2>1 DEF Where, Told
<1>5. CASE Preflight
  <2>1. journal = NoJournal  BY <1>1, <1>5 DEF Where, InStart, Preflight
  <2> QED BY <1>5, <2>1 DEF Preflight, Told
<1>6. CASE Publish  BY <1>6 DEF Publish, Go, Rest, Told
<1>7. CASE Republish \/ FinishRestore \/ Collect
  <2>1. /\ UNCHANGED <<text, saved, journal>>
        /\ runtime' = IF pc = "republish" THEN text ELSE runtime
    BY <1>7 DEF Republish, FinishRestore, Collect
  <2>2. CASE pc \in {"republish", "rewind", "collect"}
    BY <2>1, <2>2 DEF Told
  <2>3. CASE pc \notin {"republish", "rewind", "collect"}
    BY <1>1, <1>7, <2>1, <2>3 DEF Republish, FinishRestore, Collect, Where, InRewind, InRetirement, Told
  <2> QED BY <2>2, <2>3
<1>8. CASE Advance
  <2>1. journal'.text = journal.text /\ journal # NoJournal
    BY <1>1, <1>8 DEF Shapes, Advance, Where, InRewind
  <2> QED BY <1>8, <2>1 DEF Advance, GoRetire, Told
<1>9. CASE RetireTurns  BY <1>9 DEF RetireTurns, Told
<1>10. CASE Clear  BY <1>10 DEF Clear, Told
<1>11. ASSUME NEW f \in File, RestoreFile(f) \/ Touch(f) \/ Edit(f) PROVE Told'
  <2>1. journal' = journal  BY <1>11 DEF RestoreFile, Touch, Edit
  <2>2. CASE RestoreFile(f)  BY <2>2 DEF RestoreFile, Told
  <2>3. CASE Touch(f) \/ Edit(f)
    BY <1>1, <2>1, <2>3 DEF Touch, Edit, Where, InTurn, Told
  <2> QED BY <1>11, <2>2, <2>3
<1>12. CASE WriteFails
  <2>1. journal' = journal  BY <1>12 DEF WriteFails
  <2>2. CASE StepFails \/ RewriteFails \/ RestoreFails
    BY <2>1, <2>2 DEF StepFails, RewriteFails, RestoreFails, Rest, Told
  <2>3. CASE CommitFails \/ MarkFails \/ \E f \in File : TouchFails(f)
    BY <1>1, <2>1, <2>3 DEF CommitFails, MarkFails, TouchFails, Where, InTurn, InStart, Told
  <2> QED BY <1>12, <2>2, <2>3 DEF WriteFails
<1> QED BY <1>2, <1>3, <1>4, <1>5, <1>6, <1>7, <1>8, <1>9, <1>10, <1>11, <1>12
        DEF Next, Asking, Recovering, Turning

THEOREM ToldInvariance == Spec => []Told
<1>1. Init => Told  BY DEF Init, Told
<1> QED BY <1>1, Next_Told, FilesInvariance, PTL DEF Spec

(* A rewind that was prepared is only done with when the conversation is   *)
(* where it was, in memory, in its file and for the sidecar, its turns are *)
(* gone and, if that was asked for, so are their changes of files: however *)
(* often the process died and writes failed on the way                     *)
(* (finishRewindTransaction).                                              *)
THEOREM RewindsAreWhole == Spec => RewindIsWhole
<1>1. IInv /\ Framed /\ FilesInv /\ Told /\ [Next]_vars =>
        [journal # NoJournal /\ journal' = NoJournal =>
          /\ text = journal.text /\ saved = journal.text /\ runtime = journal.text
          /\ live \cap (journal.turn..MaxTurn) = {}
          /\ journal.code => \A f \in File :
                <<journal.turn, f>> \in DOMAIN start => file[f] = start[journal.turn, f]]_vars
  <2> SUFFICES ASSUME IInv, Framed, FilesInv, Told, [Next]_vars,
                      journal # NoJournal, journal' = NoJournal
               PROVE  /\ text = journal.text /\ saved = journal.text /\ runtime = journal.text
                      /\ live \cap (journal.turn..MaxTurn) = {}
                      /\ journal.code => \A f \in File :
                            <<journal.turn, f>> \in DOMAIN start => file[f] = start[<<journal.turn, f>>]
    BY Zenon
  <2>1. Clear
    <3> USE DEF metaVars
    <3>1. ~ UNCHANGED vars  BY DEF vars
    <3>2. ~ Advance
      BY DEF Advance, Framed, Shapes, NoJournal
    <3>3. ~ Preflight  BY DEF Preflight, Framed, Where, InStart
    <3> QED
      BY <3>1, <3>2, <3>3
         DEF Next, Resume, Crash, AskTurn, AskCompact, AskRewind, RecoverTurn, Strip, Anchor, Unmark,
             Publish, Republish, RetireTurns, Collect, FinishRestore, Compact,
             AllocateTurn, RegisterTurn, Arm, Say, Autosave, EndTurn, FailTurn, RestoreFile, Touch, Edit,
             Save, SaveAnchor, Commit, Finish, WriteFails
  <2>2. pc = "clear"  BY <2>1 DEF Clear
  <2>3. PICK t \in Nat : journal.turn = t /\ JournalOf(t)  BY Present
  <2>4. Applied /\ t \in retired  BY <2>2, <2>3 DEF JournalOf, AtWork
  <2>5. live \cap (t..MaxTurn) = {}
    <3>1. t .. LastTurn \subseteq retired  BY <2>3, <2>4 DEF JournalOf, Settled
    <3>2. \A u \in live : u \in Nat /\ u < manifest.next /\ u \notin retired
      BY DEF IInv, Numbered, RetiredStaysGone
    <3>3. manifest.next \in Nat  BY TurnAssumption DEF IInv, Numbered
    <3> QED BY <3>1, <3>2, <3>3 DEF LastTurn
  <2>6. journal.code => \A f \in File : <<t, f>> \in DOMAIN start => file[f] = start[<<t, f>>]
    BY <2>3, <2>4 DEF JournalOf, Settled
  <2>7. text = journal.text /\ saved = journal.text /\ runtime = journal.text
    BY <2>2 DEF Told
  <2> QED BY <2>3, <2>5, <2>6, <2>7
<1> QED BY <1>1, FilesInvariance, ToldInvariance, PTL DEF Spec, RewindIsWhole

-----------------------------------------------------------------------------
(* The conversation.  Its lines are of turns that were begun; the answer of*)
(* the turn that runs or is interrupted stands after its prompt; and while *)
(* that turn is dealt with, its prompt is not saved without being there.   *)
Known(s, n) == \A i \in 1..Len(s) : s[i][2] # "summary" => s[i][1] < n
Unsaid(s, t) == ~ Contains(s, Prompt(t)) /\ ~ Contains(s, Answer(t))
Orderly(s, t) ==
    /\ Contains(s, Answer(t)) => Contains(s, Prompt(t))
    /\ \A i, k \in 1..Len(s) : s[i] = Prompt(t) /\ s[k] = Answer(t) => i < k

AllKnown ==
    /\ Known(text, manifest.next) /\ Known(saved, manifest.next) /\ Known(journal.text, manifest.next)
    /\ \A t \in DOMAIN record : Known(record[t].text, manifest.next)
Talk ==
    /\ AllKnown
    /\ pc \in {"register", "arm"} => Unsaid(text, LastTurn) /\ Unsaid(saved, LastTurn)
    /\ marker # NoMarker => Orderly(text, LastTurn) /\ Orderly(saved, LastTurn)
    /\ marker # NoMarker /\ pc # "down" /\ Contains(saved, Prompt(LastTurn)) => Contains(text, Prompt(LastTurn))

(* The files that the last turn wrote: what they hold while it runs, after *)
(* it was undone, and once its commit is in the marker.                    *)
Blank == pc \in {"register", "arm", "retire", "collect", "code"} \/ journal # NoJournal => wrote = {}
Noted ==
    /\ \A f \in wrote : <<LastTurn, f>> \in DOMAIN start
    /\ pc = "arm" \/ marker # NoMarker => \A f \in File : <<LastTurn, f>> \in DOMAIN start
AllWritten == \A f \in wrote : file[f] = LastTurn
AllUndone == \A f \in wrote : file[f] = start[<<LastTurn, f>>]

Stages ==
    /\ pc \in InTurn => AllWritten
    /\ pc \in {"running", "editing"} => ~ Contains(text, Answer(LastTurn)) /\ ~ Contains(saved, Answer(LastTurn))
    /\ pc \in {"save", "saveAnchor", "commit", "finish"} => Contains(text, Answer(LastTurn))
    /\ pc \in {"saveAnchor", "commit", "finish"} => saved = text
    /\ pc \in {"commit", "finish"} => runtime = text
    /\ pc = "finish" => marker.commit = text
    /\ pc \in (InTurn \ {"finish"}) \cup {"undo", "strip", "anchor"} => marker.commit = <<>>
Taken ==
    /\ pc \in {"strip", "anchor"} \/ (pc = "unmark" /\ marker.commit = <<>>) => AllUndone
    /\ pc = "anchor" \/ (pc = "unmark" /\ marker.commit = <<>>) =>
          ~ Contains(text, Answer(LastTurn)) /\ ~ Contains(saved, Answer(LastTurn))
Sealed ==
    marker # NoMarker /\ marker.commit # <<>> =>
        /\ saved = marker.commit /\ runtime = marker.commit /\ (pc # "down" => text = marker.commit)
        /\ Contains(saved, Answer(LastTurn)) /\ AllWritten
Whole ==
    marker = NoMarker =>
        IF Contains(saved, Answer(LastTurn)) THEN AllWritten
        ELSE wrote # {} => ~ Contains(text, Answer(LastTurn)) /\ AllUndone
Written == Blank /\ Noted /\ Stages /\ Taken /\ Sealed /\ Whole

LEMMA AppendHas ==
    ASSUME NEW s \in Seq(Line), NEW e, NEW x
    PROVE  Contains(Append(s, e), x) <=> Contains(s, x) \/ x = e
<1>1. /\ Len(Append(s, e)) = Len(s) + 1 /\ Append(s, e)[Len(s) + 1] = e /\ Len(s) \in Nat
      /\ \A i \in 1..Len(s) : Append(s, e)[i] = s[i]
  OBVIOUS
<1> QED BY <1>1 DEF Contains

LEMMA Lines ==
    ASSUME NEW t, NEW u
    PROVE  /\ Prompt(t) # Answer(u) /\ (Prompt(t) = Prompt(u) <=> t = u)
           /\ (Answer(t) = Answer(u) <=> t = u)
           /\ Prompt(t)[1] = t /\ Prompt(t)[2] = "prompt" /\ Answer(t)[1] = t /\ Answer(t)[2] = "answer"
BY DEF Prompt, Answer

LEMMA KnownLess ==
    ASSUME NEW s \in Seq(Line), NEW n \in Nat, Known(s, n)
    PROVE  Unsaid(s, n) /\ Known(s, n + 1)
<1>1. ASSUME NEW i \in 1..Len(s), s[i] = Prompt(n) \/ s[i] = Answer(n) PROVE FALSE
  <2>1. s[i][1] = n /\ s[i][2] # "summary"  BY <1>1, Lines
  <2> QED BY <2>1 DEF Known
<1>2. ASSUME NEW i \in 1..Len(s), s[i][2] # "summary" PROVE s[i][1] < n + 1
  <2>1. s[i][1] < n  BY <1>2 DEF Known
  <2>2. s[i][1] \in Nat
    <3>1. s[i] \in Nat \X {"prompt", "answer", "summary"}  BY DEF Line
    <3> QED BY <3>1
  <2> QED BY <2>1, <2>2
<1> QED BY <1>1, <1>2 DEF Unsaid, Contains, Known

LEMMA KnownAppend ==
    ASSUME NEW s \in Seq(Line), NEW n \in Nat, NEW t \in Nat, t < n, Known(s, n)
    PROVE  Known(Append(s, Prompt(t)), n) /\ Known(Append(s, Answer(t)), n)
<1>1. ASSUME NEW e, e[1] = t PROVE Known(Append(s, e), n)
  <2>1. /\ Len(Append(s, e)) = Len(s) + 1 /\ Append(s, e)[Len(s) + 1] = e /\ Len(s) \in Nat
        /\ \A i \in 1..Len(s) : Append(s, e)[i] = s[i]
    OBVIOUS
  <2> QED BY <1>1, <2>1 DEF Known
<1> QED BY <1>1, Lines

LEMMA KnownNew ==
    ASSUME NEW n \in Nat
    PROVE  Known(<<>>, n) /\ Known(<< <<n, "summary">> >>, n)
BY DEF Known

LEMMA StrippedKnown ==
    ASSUME NEW n, NEW t, text \in Seq(Line), Known(text, n), Orderly(text, t)
    PROVE  /\ Known(Stripped(t), n) /\ Orderly(Stripped(t), t)
           /\ ~ Contains(Stripped(t), Answer(t))
           /\ Contains(text, Prompt(t)) => Contains(Stripped(t), Prompt(t))
<1>1. CASE Contains(text, Prompt(t))
  <2>1. PICK m \in 1..Len(text) : text[m] = Prompt(t) /\ Stripped(t) = SubSeq(text, 1, m)
    BY <1>1, StrippedIs
  <2>2. Len(Stripped(t)) = m /\ \A i \in 1..m : Stripped(t)[i] = text[i] /\ i \in 1..Len(text)
    BY <2>1
  <2>3. Known(Stripped(t), n)  BY <2>2 DEF Known
  <2>4. ASSUME NEW k \in 1..m, text[k] = Answer(t) PROVE FALSE
    <3>1. m < k  BY <2>1, <2>2, <2>4 DEF Orderly
    <3> QED BY <3>1
  <2>5. ~ Contains(Stripped(t), Answer(t))  BY <2>2, <2>4 DEF Contains
  <2>6. Contains(Stripped(t), Prompt(t))  BY <2>1, <2>2 DEF Contains
  <2> QED BY <2>2, <2>3, <2>4, <2>5, <2>6 DEF Orderly
<1>2. CASE ~ Contains(text, Prompt(t))
  <2>1. Stripped(t) = text  BY <1>2 DEF Stripped
  <2> QED BY <1>2, <2>1 DEF Orderly
<1> QED BY <1>1, <1>2

LEMMA OrderlySaid ==
    ASSUME NEW s \in Seq(Line), NEW t, ~ Contains(s, Answer(t))
    PROVE  /\ Orderly(s, t) /\ Orderly(Append(s, Prompt(t)), t)
           /\ Contains(s, Prompt(t)) => Orderly(Append(s, Answer(t)), t)
<1>1. Orderly(s, t)  BY DEF Orderly, Contains
<1>2. ~ Contains(Append(s, Prompt(t)), Answer(t))  BY AppendHas, Lines
<1>3. Orderly(Append(s, Prompt(t)), t)  BY <1>2 DEF Orderly, Contains
<1>4. ASSUME Contains(s, Prompt(t)) PROVE Orderly(Append(s, Answer(t)), t)
  <2> DEFINE z == Append(s, Answer(t))
  <2>1. /\ Len(z) = Len(s) + 1 /\ z[Len(s) + 1] = Answer(t) /\ Len(s) \in Nat
        /\ \A i \in 1..Len(s) : z[i] = s[i]
    OBVIOUS
  <2>2. Contains(z, Prompt(t))  BY <1>4, AppendHas
  <2> HIDE DEF z
  <2>3. ASSUME NEW i \in 1..Len(z), NEW k \in 1..Len(z), z[i] = Prompt(t), z[k] = Answer(t) PROVE i < k
    <3>1. k = Len(s) + 1  BY <2>1, <2>3 DEF Contains
    <3>2. i # Len(s) + 1  BY <2>1, <2>3, Lines
    <3> QED BY <2>1, <3>1, <3>2
  <2> QED BY <2>2, <2>3 DEF Orderly, z
<1> QED BY <1>1, <1>3, <1>4

LEMMA Turns ==
    ASSUME IInv, Framed
    PROVE  /\ manifest.next \in Nat /\ text \in Seq(Line) /\ saved \in Seq(Line) /\ journal.text \in Seq(Line)
           /\ marker # NoMarker => LastTurn \in Nat /\ LastTurn < manifest.next /\ marker.turn = LastTurn
           /\ pc \in InTurn => marker # NoMarker /\ cur = LastTurn /\ cur \in Nat
BY TurnAssumption DEF IInv, Numbered, Framed, Shapes, Where, Current, InTurn, LastTurn

LEMMA StayKnown ==
    ASSUME AllKnown, manifest'.next = manifest.next,
           text' \in {text, saved, journal.text, <<>>} \/ Known(text', manifest.next),
           saved' \in {saved, text, journal.text} \/ Known(saved', manifest.next),
           journal'.text = journal.text,
           \A t \in DOMAIN record' : t \in DOMAIN record /\ record'[t].text = record[t].text
    PROVE  AllKnown'
<1>1. Known(<<>>, manifest.next)  BY DEF Known
<1>2. Known(text', manifest.next) /\ Known(saved', manifest.next)  BY <1>1 DEF AllKnown
<1> QED BY <1>2 DEF AllKnown

LEMMA StayTalk ==
    ASSUME Talk, AllKnown', UNCHANGED <<text, saved>>, manifest'.next = manifest.next,
           pc' \notin {"register", "arm"}, marker' # NoMarker => marker # NoMarker,
           pc # "down"
    PROVE  Talk'
<1>1. LastTurn' = LastTurn  BY DEF LastTurn
<1> QED BY <1>1 DEF Talk

LEMMA Entering_Talk == IInv /\ Framed /\ Talk /\ (Asking \/ Resume \/ Crash) => Talk'
<1> SUFFICES ASSUME IInv, Framed, Talk, Asking \/ Resume \/ Crash PROVE Talk'  OBVIOUS
<1> USE DEF storeVars, diskVars, metaVars, convVars, ghostVars
<1>1. UNCHANGED <<saved, manifest, record, marker, journal>> /\ text' \in {text, saved, <<>>}
      /\ pc' \notin {"register", "arm"}
  BY DEF Asking, AskTurn, AskCompact, AskRewind, Resume, Load, Crash, Enter, Doing, Open
<1>2. AllKnown'  BY <1>1, StayKnown DEF Talk
<1>3. LastTurn' = LastTurn  BY <1>1 DEF LastTurn
<1>4. CASE Asking
  <2>1. text' = text /\ pc # "down"  BY <1>4 DEF Asking, AskTurn, AskCompact, AskRewind
  <2> QED BY <1>1, <1>2, <2>1, StayTalk
<1>5. CASE Resume
  <2>1. text' = saved  BY <1>5 DEF Resume
  <2> QED BY <1>1, <1>2, <1>3, <2>1 DEF Talk
<1>6. CASE Crash
  <2>1. text' = <<>> /\ pc' = "down"  BY <1>6 DEF Crash
  <2>2. Orderly(<<>>, LastTurn)  BY DEF Orderly, Contains
  <2> QED BY <1>1, <1>2, <1>3, <2>1, <2>2 DEF Talk
<1> QED BY <1>4, <1>5, <1>6

LEMMA Strip_Talk ==
    ASSUME IInv, Framed, Talk, pc = "strip", text' = Stripped(marker.turn),
           saved' \in {saved, IF Contains(text, Prompt(marker.turn)) THEN text' ELSE saved},
           pc' \notin {"register", "arm"}, UNCHANGED <<manifest, record, marker, journal>>
    PROVE  Talk' /\ ~ Contains(text', Answer(LastTurn))
           /\ ~ Contains(IF Contains(text, Prompt(marker.turn)) THEN text' ELSE saved, Answer(LastTurn))
<1>1. marker # NoMarker /\ marker.turn = LastTurn  BY DEF Framed, Where, InRecovery
<1>2. /\ Known(text', manifest.next) /\ Orderly(text', LastTurn) /\ ~ Contains(text', Answer(LastTurn))
      /\ Contains(text, Prompt(LastTurn)) => Contains(text', Prompt(LastTurn))
  BY <1>1, StrippedKnown, Turns DEF Talk, AllKnown
<1>3. Known(saved', manifest.next)  BY <1>2 DEF Talk, AllKnown
<1>4. AllKnown'  BY <1>2, <1>3, StayKnown DEF Talk
<1>5. LastTurn' = LastTurn  BY DEF LastTurn
<1>6. Orderly(saved', LastTurn) /\ (Contains(saved', Prompt(LastTurn)) => Contains(text', Prompt(LastTurn)))
  BY <1>1, <1>2 DEF Talk
<1>7. ~ Contains(text, Prompt(LastTurn)) => ~ Contains(saved, Answer(LastTurn))
  BY <1>1 DEF Talk, Orderly
<1> QED BY <1>1, <1>2, <1>4, <1>5, <1>6, <1>7 DEF Talk

(* Without a marker, nothing but what is known is said of a conversation.  *)
LEMMA FreeTalk ==
    ASSUME AllKnown', marker' = NoMarker, pc' \notin {"register", "arm"}
    PROVE  Talk'
BY DEF Talk

LEMMA Rewinding_Talk == IInv /\ Framed /\ Talk /\ Rewinding => Talk'
<1> SUFFICES ASSUME IInv, Framed, Talk, Rewinding PROVE Talk'  OBVIOUS
<1> USE DEF storeVars, diskVars, metaVars, convVars, ghostVars
<1>1. Where /\ Asked /\ Shapes  BY DEF Framed, IInv
<1>2. UNCHANGED <<manifest, record, marker>>
  BY DEF Rewinding, Preflight, Publish, Republish, Advance, Clear, FinishRestore, Compact
<1>3. pc' \notin {"register", "arm"}
  <2>1. CASE Clear
    BY <1>1, <2>1 DEF Clear, Enter, Doing, Asked, Kind
  <2>2. CASE ~ Clear
    BY <2>2 DEF Rewinding, Preflight, Publish, Republish, Advance, FinishRestore, Compact,
                Go, Rest, GoRetire, AfterFiles, BeginRestore
  <2> QED BY <2>1, <2>2
<1>4. CASE Republish \/ FinishRestore
  <2>1. UNCHANGED <<text, saved, journal>> /\ pc # "down"  BY <1>4 DEF Republish, FinishRestore
  <2>2. AllKnown'  BY <1>2, <2>1, StayKnown DEF Talk
  <2> QED BY <1>2, <1>3, <2>1, <2>2, StayTalk
<1>5. CASE Preflight \/ Publish \/ Advance \/ Clear \/ Compact
  <2>1. marker = NoMarker
    BY <1>1, <1>5 DEF Preflight, Publish, Advance, Clear, Compact, Where, InStart, InRewind
  <2>2. AllKnown'
    <3>1. CASE Preflight /\ journal' # journal
      <4>1. /\ Rewindable(op.request.turn)
            /\ journal' = [turn |-> op.request.turn, text |-> record[op.request.turn].text,
                           code |-> op.request.code, phase |-> "prepared"]
        BY <3>1 DEF Preflight
      <4>2. journal'.text = record[op.request.turn].text /\ op.request.turn \in DOMAIN record
        BY <4>1 DEF Rewindable, IInv, Numbered
      <4>3. UNCHANGED <<text, saved>>  BY <3>1 DEF Preflight
      <4> QED BY <1>2, <4>2, <4>3 DEF Talk, AllKnown
    <3>2. CASE Preflight /\ journal' = journal
      BY <1>2, <3>2, StayKnown DEF Preflight, Talk
    <3>3. CASE Publish
      BY <1>2, <3>3, StayKnown DEF Publish, Talk
    <3>4. CASE Advance
      <4>1. journal'.text = journal.text /\ UNCHANGED <<text, saved>>  BY <1>1, <3>4 DEF Advance, Shapes
      <4> QED BY <1>2, <4>1, StayKnown DEF Talk
    <3>5. CASE Clear
      <4>1. journal'.text = <<>> /\ UNCHANGED <<text, saved>>  BY <3>5 DEF Clear, NoJournal
      <4>2. Known(<<>>, manifest.next)  BY KnownNew, Turns
      <4> QED BY <1>2, <4>1, <4>2 DEF Talk, AllKnown
    <3>6. CASE Compact
      <4>1. text' = << <<manifest.next, "summary">> >> /\ saved' = text' /\ journal' = journal
        BY <3>6 DEF Compact
      <4>2. Known(text', manifest.next)  BY <4>1, KnownNew, Turns
      <4> QED BY <1>2, <4>1, <4>2, StayKnown DEF Talk
    <3> QED BY <1>5, <3>1, <3>2, <3>3, <3>4, <3>5, <3>6
  <2> QED BY <1>2, <1>3, <2>1, <2>2, FreeTalk
<1> QED BY <1>4, <1>5 DEF Rewinding

LEMMA Begin_Talk == IInv /\ Framed /\ Talk /\ (AllocateTurn \/ RegisterTurn \/ Arm) => Talk'
<1> SUFFICES ASSUME IInv, Framed, Talk, AllocateTurn \/ RegisterTurn \/ Arm PROVE Talk'  OBVIOUS
<1> USE DEF storeVars, diskVars, metaVars, convVars, ghostVars
<1>1. marker = NoMarker /\ UNCHANGED <<text, saved, journal>>
  BY DEF AllocateTurn, RegisterTurn, Arm, Framed, Where, InStart
<1>2. manifest.next \in Nat /\ text \in Seq(Line) /\ saved \in Seq(Line)  BY Turns
<1>3. CASE AllocateTurn
  <2>1. manifest'.next = manifest.next + 1 /\ UNCHANGED <<record, marker>> /\ pc' = "register"
    BY <1>3 DEF AllocateTurn, Allocate, IInv, Numbered
  <2>2. LastTurn' = manifest.next  BY <1>2, <2>1 DEF LastTurn
  <2>3. AllKnown'
    <3>1. \A t \in DOMAIN record : record[t].text \in Seq(Line)  BY DEF Framed, Shapes, RecordMap
    <3>2. journal.text \in Seq(Line)  BY Turns
    <3>3. \A t \in DOMAIN record : Known(record[t].text, manifest.next + 1)
      BY <1>2, <3>1, KnownLess DEF Talk, AllKnown
    <3> QED BY <1>1, <1>2, <2>1, <3>2, <3>3, KnownLess DEF Talk, AllKnown
  <2>4. Unsaid(text, manifest.next) /\ Unsaid(saved, manifest.next)
    BY <1>2, KnownLess DEF Talk, AllKnown
  <2> QED BY <1>1, <2>1, <2>2, <2>3, <2>4 DEF Talk
<1>4. CASE RegisterTurn
  <2>1. /\ record' = [t \in DOMAIN record \cup {Allocated} |->
                        IF t = Allocated THEN [text |-> text, files |-> <<>>] ELSE record[t]]
        /\ UNCHANGED <<manifest, marker>> /\ pc = "register" /\ pc' = "arm"
    BY <1>4 DEF RegisterTurn, Register, Go
  <2>2. \A t \in DOMAIN record' : record'[t].text = text \/ (t \in DOMAIN record /\ record'[t] = record[t])
    BY <2>1
  <2>3. AllKnown'  BY <1>1, <2>1, <2>2 DEF Talk, AllKnown
  <2> QED BY <1>1, <2>1, <2>3 DEF Talk, LastTurn
<1>5. CASE Arm
  <2>1. UNCHANGED <<manifest, record>> /\ pc = "arm" /\ pc' \notin {"register", "arm"}
    BY <1>5 DEF Arm, Go, Rest
  <2>2. AllKnown'  BY <1>1, <2>1, StayKnown DEF Talk
  <2>3. Orderly(text, LastTurn) /\ Orderly(saved, LastTurn) /\ ~ Contains(saved, Prompt(LastTurn))
    BY <1>2, <2>1, OrderlySaid DEF Talk, Unsaid
  <2> QED BY <1>1, <2>1, <2>2, <2>3 DEF Talk, LastTurn
<1> QED BY <1>3, <1>4, <1>5

LEMMA Turning_Talk == IInv /\ Framed /\ Talk /\ Written /\ Turning => Talk'
<1> SUFFICES ASSUME IInv, Framed, Talk, Written, Turning PROVE Talk'  OBVIOUS
<1> USE DEF storeVars, diskVars, metaVars, convVars, ghostVars
<1>1. CASE Arm  BY <1>1, Begin_Talk
<1>2. CASE ~ Arm
  <2>1. /\ UNCHANGED <<manifest, record, journal>> /\ pc' \notin {"register", "arm"} /\ pc \in InTurn
        /\ marker' # NoMarker => marker # NoMarker
    BY <1>2, Turns DEF Turning, Say, Autosave, EndTurn, FailTurn, Save, SaveAnchor, Commit, Finish, Go, Rest, InTurn
  <2>2. /\ manifest.next \in Nat /\ text \in Seq(Line) /\ saved \in Seq(Line) /\ marker # NoMarker
        /\ LastTurn \in Nat /\ LastTurn < manifest.next /\ cur = LastTurn /\ pc # "down"
    BY <2>1, Turns DEF InTurn
  <2>3. LastTurn' = LastTurn  BY <2>1 DEF LastTurn
  <2>4. CASE FailTurn \/ SaveAnchor \/ Commit \/ Finish
    <3>1. UNCHANGED <<text, saved>>  BY <2>4 DEF FailTurn, SaveAnchor, Commit, Finish
    <3>2. AllKnown'  BY <2>1, <3>1, StayKnown DEF Talk
    <3> QED BY <2>1, <2>2, <3>1, <3>2, StayTalk
  <2>5. CASE Autosave \/ Save
    <3>1. text' = text /\ saved' = text  BY <2>5 DEF Autosave, Save
    <3>2. AllKnown'  BY <2>1, <3>1, StayKnown DEF Talk
    <3> QED BY <2>1, <2>2, <2>3, <3>1, <3>2 DEF Talk
  <2>6. CASE Say \/ EndTurn
    <3>1. ~ Contains(text, Answer(LastTurn)) /\ saved' = saved
      BY <2>6 DEF Say, EndTurn, Written, Stages
    <3>2. text' = Append(text, Prompt(LastTurn))
          \/ (text' = Append(text, Answer(LastTurn)) /\ Contains(text, Prompt(LastTurn)))
      BY <2>2, <2>6 DEF Say, EndTurn
    <3>3. Known(text', manifest.next) /\ Orderly(text', LastTurn) /\ Contains(text', Prompt(LastTurn))
      <4> DEFINE said == Append(text, Prompt(LastTurn))
                 answered == Append(text, Answer(LastTurn))
      <4>1. Known(said, manifest.next) /\ Known(answered, manifest.next)
        BY <2>2, KnownAppend DEF Talk, AllKnown
      <4>2. Orderly(said, LastTurn) /\ (Contains(text, Prompt(LastTurn)) => Orderly(answered, LastTurn))
        BY <2>2, <3>1, OrderlySaid
      <4>3. /\ Contains(said, Prompt(LastTurn))
            /\ Contains(text, Prompt(LastTurn)) => Contains(answered, Prompt(LastTurn))
        BY <2>2, AppendHas
      <4> HIDE DEF said, answered
      <4> QED BY <3>2, <4>1, <4>2, <4>3 DEF said, answered
    <3>4. AllKnown'  BY <2>1, <3>1, <3>3, StayKnown DEF Talk
    <3> QED BY <2>1, <2>2, <2>3, <3>1, <3>3, <3>4 DEF Talk
  <2> QED BY <1>2, <2>4, <2>5, <2>6 DEF Turning
<1> QED BY <1>1, <1>2

LEMMA Next_Talk == IInv /\ Framed /\ Talk /\ Written /\ [Next]_vars => Talk'
<1> SUFFICES ASSUME IInv, Framed, Talk, Written, [Next]_vars PROVE Talk'  OBVIOUS
<1> USE DEF storeVars, diskVars, metaVars, convVars, ghostVars
<1>1. Where /\ Asked /\ Shapes  BY DEF Framed, IInv
<1>2. CASE UNCHANGED vars
  BY <1>2 DEF vars, Talk, AllKnown, LastTurn
<1>3. CASE Asking \/ Resume \/ Crash  BY <1>3, Entering_Talk
<1>4. CASE Rewinding  BY <1>4, Rewinding_Talk
<1>5. CASE AllocateTurn \/ RegisterTurn  BY <1>5, Begin_Talk
<1>6. CASE Turning  BY <1>6, Turning_Talk
<1>7. CASE Strip
  BY <1>7, Strip_Talk DEF Strip, Go
<1>8. CASE RecoverTurn \/ Anchor \/ Unmark
  <2>1. /\ UNCHANGED <<text, saved, manifest, record, journal>> /\ pc # "down"
        /\ marker' # NoMarker => marker # NoMarker
    BY <1>8 DEF RecoverTurn, Anchor, Unmark
  <2>2. pc' \notin {"register", "arm"}
    BY <1>1, <1>8 DEF RecoverTurn, Anchor, Unmark, Go, Rest, BeginRestore, Enter, Doing, Asked, Kind
  <2>3. AllKnown'  BY <2>1, StayKnown DEF Talk
  <2> QED BY <2>1, <2>2, <2>3, StayTalk
<1>9. CASE RetireTurns \/ Collect
  <2>1. UNCHANGED <<text, saved, journal, marker>> /\ pc # "down" /\ pc' \notin {"register", "arm"}
    BY <1>9 DEF RetireTurns, Collect, Go, Rest
  <2>2. /\ manifest'.next = manifest.next
        /\ \A t \in DOMAIN record' : t \in DOMAIN record /\ record'[t].text = record[t].text
    <3>1. CASE RetireTurns  BY <3>1, RetireKeeps
    <3>2. CASE Collect  BY <3>2 DEF Collect, Delete
    <3> QED BY <1>9, <3>1, <3>2
  <2>3. AllKnown'  BY <2>1, <2>2, StayKnown DEF Talk
  <2> QED BY <2>1, <2>2, <2>3, StayTalk
<1>10. ASSUME NEW f \in File, RestoreFile(f) \/ Touch(f) \/ Edit(f) \/ TouchFails(f),
              UNCHANGED <<saved, marker, journal>>
       PROVE  Talk'
  <2>1. UNCHANGED <<text, manifest>> /\ pc # "down" /\ pc' \notin {"register", "arm"}
    BY <1>10 DEF RestoreFile, Restore, Touch, Edit, TouchFails, Snapshot, Go
  <2>2. \A t \in DOMAIN record' : t \in DOMAIN record /\ record'[t].text = record[t].text
    <3>1. CASE RestoreFile(f) \/ Edit(f)  BY <3>1 DEF RestoreFile, Restore, Edit
    <3>2. CASE Touch(f) \/ TouchFails(f)
      BY <1>1, <3>2, SnapshotShape DEF Touch, TouchFails, Shapes
    <3> QED BY <1>10, <3>1, <3>2
  <2>3. AllKnown'  BY <1>10, <2>1, <2>2, StayKnown DEF Talk
  <2> QED BY <1>10, <2>1, <2>3, StayTalk
<1>11. CASE WriteFails
  <2>1. UNCHANGED <<saved, marker, journal>>  BY <1>11 DEF WriteFails
  <2>2. CASE \E f \in File : TouchFails(f)  BY <1>10, <2>1, <2>2
  <2>3. CASE RewriteFails
    <3>1. UNCHANGED <<manifest, record>> /\ pc' = "idle"  BY <2>3 DEF RewriteFails, Rest
    <3>2. CASE pc = "strip"
      BY <2>1, <2>3, <3>1, <3>2, Strip_Talk DEF RewriteFails
    <3>3. CASE pc # "strip"
      <4>1. marker = NoMarker
        BY <1>1, <2>3, <3>3 DEF RewriteFails, Where, InStart, InRewind
      <4>2. text' \in {journal.text, << <<manifest.next, "summary">> >>}
        BY <2>3, <3>3 DEF RewriteFails
      <4>3. Known(<< <<manifest.next, "summary">> >>, manifest.next)  BY KnownNew, Turns
      <4>4. AllKnown'  BY <2>1, <3>1, <4>2, <4>3, StayKnown DEF Talk
      <4> QED BY <2>1, <3>1, <4>1, <4>4, FreeTalk
    <3> QED BY <3>2, <3>3
  <2>4. CASE StepFails \/ CommitFails \/ MarkFails \/ RestoreFails
    <3>1. UNCHANGED <<text, manifest, record>> /\ pc # "down" /\ pc' \notin {"register", "arm"}
      BY <2>4 DEF StepFails, CommitFails, MarkFails, RestoreFails, Rest, Go, GoRetire
    <3>2. AllKnown'  BY <2>1, <3>1, StayKnown DEF Talk
    <3> QED BY <2>1, <3>1, <3>2, StayTalk
  <2> QED BY <1>11, <2>2, <2>3, <2>4 DEF WriteFails
<1>12. CASE \E f \in File : RestoreFile(f) \/ Touch(f) \/ Edit(f)
  <2>1. UNCHANGED <<saved, marker, journal>>  BY <1>12 DEF RestoreFile, Touch, Edit
  <2> QED BY <1>10, <1>12, <2>1
<1> QED BY <1>2, <1>3, <1>4, <1>5, <1>6, <1>7, <1>8, <1>9, <1>11, <1>12
        DEF Next, Asking, Rewinding, Turning

-----------------------------------------------------------------------------
(* The files of the last turn.                                             *)
LEMMA WroteNothing ==
    ASSUME wrote' = {}, marker' = NoMarker, pc' \notin InTurn \cup InRecovery \cup {"arm"}
    PROVE  Written'
BY DEF Written, Blank, Noted, Stages, Taken, Sealed, Whole, AllWritten, InTurn, InRecovery

LEMMA StayWritten ==
    ASSUME Written, UNCHANGED <<file, saved, runtime, marker, journal, start, wrote>>,
           manifest'.next = manifest.next,
           pc' \notin InTurn \cup {"undo", "strip", "anchor", "unmark", "register", "arm", "retire", "collect", "code"},
           \/ text' = text /\ pc # "down"
           \/ text' = saved
           \/ text' = <<>> /\ pc' = "down"
    PROVE  Written'
<1>1. LastTurn' = LastTurn  BY DEF LastTurn
<1>2. ~ Contains(<<>>, Answer(LastTurn))  BY DEF Contains
<1>3. Blank' /\ Noted' /\ Stages' /\ Taken'
  BY <1>1 DEF Written, Blank, Noted, Stages, Taken, InTurn
<1>4. (AllWritten => AllWritten') /\ (AllUndone => AllUndone')
  BY <1>1 DEF AllWritten, AllUndone
<1>5. Sealed'
  BY <1>1, <1>4 DEF Written, Sealed
<1>6. Whole'
  <2>1. CASE Contains(saved, Answer(LastTurn))  BY <1>1, <1>4, <2>1 DEF Written, Whole
  <2>2. CASE ~ Contains(saved, Answer(LastTurn))
    <3>1. Contains(text', Answer(LastTurn)) => Contains(text, Answer(LastTurn))
      BY <1>2, <2>2
    <3> QED BY <1>1, <1>4, <2>2, <3>1 DEF Written, Whole
  <2> QED BY <2>1, <2>2
<1> QED BY <1>3, <1>5, <1>6 DEF Written

LEMMA Entering_Written == IInv /\ Framed /\ Written /\ (Asking \/ Resume \/ Crash) => Written'
<1> SUFFICES ASSUME IInv, Framed, Written, Asking \/ Resume \/ Crash PROVE Written'  OBVIOUS
<1> USE DEF storeVars, diskVars, metaVars, convVars, ghostVars
<1>1. /\ UNCHANGED <<file, saved, runtime, marker, journal, start, wrote, manifest>>
      /\ \/ text' = text /\ pc # "down"
         \/ text' = saved
         \/ text' = <<>> /\ pc' = "down"
  BY DEF Asking, AskTurn, AskCompact, AskRewind, Resume, Load, Crash
<1>2. pc' \in {"recover", "publish", "idle", "allocate", "compact", "preflight", "down"}
  BY DEF Asking, AskTurn, AskCompact, AskRewind, Resume, Crash, Enter, Doing, Open
<1> QED BY <1>1, <1>2, StayWritten DEF InTurn

(* An undone turn has left its files as it found them.                     *)
LEMMA UndoneTurn ==
    ASSUME IInv, Framed, FilesInv, Written, pc = "undo", op.todo = {}
    PROVE  AllUndone
<1>1. marker # NoMarker  BY DEF Framed, Where, InRecovery
<1>2. LastTurn \in Nat /\ LastTurn \notin retired /\ LastTurn \notin manifest.retired
  BY <1>1 DEF Framed, Current
<1>3. op.turn = LastTurn /\ Restored(LastTurn)
  BY Present DEF FilesInv, Restoring, InRestore
<1>4. ASSUME NEW f \in wrote PROVE file[f] = start[<<LastTurn, f>>]
  <2>1. f \in File /\ <<LastTurn, f>> \in DOMAIN start  BY DEF Framed, Shapes, Written, Noted
  <2>2. ~ HiddenFrom(LastTurn, f)
    <3> SUFFICES ASSUME NEW v \in Hidden, v >= LastTurn PROVE FALSE  BY DEF HiddenFrom
    <3>1. v \in Nat /\ v < manifest.next /\ v \in manifest.retired /\ manifest.next \in Nat
      BY Turns DEF Hidden, IInv, Numbered
    <3>2. v = LastTurn  BY <3>1 DEF LastTurn
    <3> QED BY <1>2, <3>1, <3>2
  <2>3. file[f] = Was(LastTurn, f)  BY <1>3, <2>1, <2>2 DEF Restored
  <2> QED BY <1>2, <2>1, <2>2, <2>3 DEF FilesInv, Exact
<1> QED BY <1>4 DEF AllUndone

LEMMA Recovering_Written == IInv /\ Framed /\ FilesInv /\ Talk /\ Written /\ Recovering => Written'
<1> SUFFICES ASSUME IInv, Framed, FilesInv, Talk, Written, Recovering PROVE Written'  OBVIOUS
<1> USE DEF storeVars, diskVars, metaVars, convVars, ghostVars
<1>1. UNCHANGED <<file, manifest, journal, start, wrote>> /\ LastTurn' = LastTurn
  BY DEF Recovering, RecoverTurn, Strip, Anchor, Unmark, LastTurn
<1>2. /\ marker # NoMarker /\ marker.turn = LastTurn /\ journal = NoJournal
  BY DEF Recovering, RecoverTurn, Strip, Anchor, Unmark, Framed, Where, InRecovery
<1>3. (AllWritten => AllWritten') /\ (AllUndone => AllUndone')
  BY <1>1 DEF AllWritten, AllUndone
<1>4. CASE RecoverTurn
  <2>1. UNCHANGED <<text, saved, runtime, marker>> /\ pc = "recover" /\ pc' \in {"unmark", "undo", "idle"}
    BY <1>4 DEF RecoverTurn, Go, Rest, BeginRestore
  <2>2. pc' = "unmark" => marker.commit # <<>>
    BY <1>4 DEF RecoverTurn, Committed, Go, Rest, BeginRestore
  <2>3. pc' = "undo" => marker.commit = <<>>
    BY <1>2, <1>4, <2>1 DEF RecoverTurn, Committed, Go, Rest, BeginRestore, Written, Sealed
  <2> QED BY <1>1, <1>2, <1>3, <2>1, <2>2, <2>3
          DEF Written, Blank, Noted, Stages, Taken, Sealed, Whole, InTurn
<1>5. CASE Strip
  <2>1. /\ ~ Contains(text', Answer(LastTurn))
        /\ ~ Contains(IF Contains(text, Prompt(marker.turn)) THEN text' ELSE saved, Answer(LastTurn))
    BY <1>5, Strip_Talk DEF Strip, Go
  <2>2. /\ saved' = (IF Contains(text, Prompt(marker.turn)) THEN text' ELSE saved)
        /\ UNCHANGED <<runtime, marker>> /\ pc = "strip" /\ pc' = "anchor"
    BY <1>5 DEF Strip, Go
  <2>3. ~ Contains(saved', Answer(LastTurn))  BY <2>1, <2>2
  <2>4. marker.commit = <<>> /\ AllUndone  BY <2>2 DEF Written, Stages, Taken
  <2> QED BY <1>1, <1>2, <1>3, <2>1, <2>2, <2>3, <2>4
          DEF Written, Blank, Noted, Stages, Taken, Sealed, Whole, InTurn
<1>6. CASE Anchor
  <2>1. UNCHANGED <<text, saved, marker>> /\ pc = "anchor" /\ pc' = "unmark"
    BY <1>6 DEF Anchor, Go
  <2> QED BY <1>1, <1>2, <1>3, <2>1
          DEF Written, Blank, Noted, Stages, Taken, Sealed, Whole, InTurn
<1>7. CASE Unmark
  <2>1. UNCHANGED <<text, saved, runtime>> /\ marker' = NoMarker /\ pc = "unmark"  BY <1>7 DEF Unmark
  <2>2. pc' \in {"publish", "idle", "allocate", "compact", "preflight"}
    BY <1>7 DEF Unmark, Enter, Doing, IInv, Asked, Kind
  <2>3. Whole'
    <3>1. CASE marker.commit = <<>>  BY <1>1, <1>3, <2>1, <3>1 DEF Written, Taken, Whole
    <3>2. CASE marker.commit # <<>>  BY <1>1, <1>2, <1>3, <2>1, <3>2 DEF Written, Sealed, Whole
    <3> QED BY <3>1, <3>2
  <2> QED BY <1>1, <1>2, <2>1, <2>2, <2>3
          DEF Written, Blank, Noted, Stages, Taken, Sealed, InTurn
<1> QED BY <1>4, <1>5, <1>6, <1>7 DEF Recovering

LEMMA Rewinding_Written == IInv /\ Framed /\ FilesInv /\ Written /\ Rewinding => Written'
<1> SUFFICES ASSUME IInv, Framed, FilesInv, Written, Rewinding PROVE Written'  OBVIOUS
<1> USE DEF storeVars, diskVars, metaVars, convVars, ghostVars
<1>1. Where /\ Asked  BY DEF Framed, IInv
<1>2. CASE FinishRestore /\ pc = "undo"
  <2>1. UNCHANGED <<file, manifest, journal, start, wrote, text, saved, runtime, marker>>
        /\ pc' = "strip" /\ op.todo = {}
    BY <1>2 DEF FinishRestore, Go
  <2>2. AllUndone  BY <1>2, <2>1, UndoneTurn
  <2>3. LastTurn' = LastTurn /\ AllUndone'  BY <2>1, <2>2 DEF LastTurn, AllUndone
  <2>4. marker # NoMarker /\ journal = NoJournal /\ marker.commit = <<>>
    BY <1>1, <1>2 DEF Where, InRecovery, Written, Stages
  <2> QED BY <2>1, <2>3, <2>4 DEF Written, Blank, Noted, Stages, Taken, Sealed, Whole, InTurn
<1>3. CASE ~ (FinishRestore /\ pc = "undo")
  <2>1. marker = NoMarker /\ marker' = marker
    BY <1>1, <1>3 DEF Rewinding, Preflight, Publish, Republish, Advance, Clear, FinishRestore, Compact, Where,
                      InStart, InRewind
  <2>2. wrote' = {}
    <3>1. CASE Preflight \/ Compact  BY <3>1 DEF Preflight, Compact
    <3>2. CASE Publish \/ Republish \/ Advance \/ Clear \/ FinishRestore
      <4>1. wrote' = wrote  BY <3>2 DEF Publish, Republish, Advance, Clear, FinishRestore
      <4>2. journal # NoJournal \/ pc = "code"
        BY <1>1, <1>3, <3>2 DEF Publish, Republish, Advance, Clear, FinishRestore, Where, InRewind
      <4> QED BY <4>1, <4>2 DEF Written, Blank
    <3> QED BY <3>1, <3>2 DEF Rewinding
  <2>3. pc' \notin InTurn \cup InRecovery \cup {"arm"}
    <3>1. CASE Clear
      BY <1>1, <2>1, <3>1 DEF Clear, Enter, Interrupted, Doing, Asked, Kind, InTurn, InRecovery
    <3>2. CASE ~ Clear
      BY <1>3, <3>2 DEF Rewinding, Preflight, Publish, Republish, Advance, FinishRestore, Compact,
                  Go, Rest, GoRetire, AfterFiles, BeginRestore, InTurn, InRecovery
    <3> QED BY <3>1, <3>2
  <2> QED BY <2>1, <2>2, <2>3, WroteNothing
<1> QED BY <1>2, <1>3

LEMMA Begin_Written == IInv /\ Framed /\ Talk /\ Written /\ (AllocateTurn \/ RegisterTurn \/ Arm) => Written'
<1> SUFFICES ASSUME IInv, Framed, Talk, Written, AllocateTurn \/ RegisterTurn \/ Arm PROVE Written'  OBVIOUS
<1> USE DEF storeVars, diskVars, metaVars, convVars, ghostVars
<1>1. marker = NoMarker /\ journal = NoJournal
  BY DEF AllocateTurn, RegisterTurn, Arm, Framed, Where, InStart
<1>2. CASE AllocateTurn
  BY <1>1, <1>2, WroteNothing DEF AllocateTurn, InTurn, InRecovery
<1>3. CASE RegisterTurn
  <2>1. /\ start' = [p \in DOMAIN start \cup ({Allocated} \X File) |->
                        IF p[1] = Allocated THEN file[p[2]] ELSE start[p]]
        /\ UNCHANGED <<manifest, marker, wrote>> /\ pc = "register" /\ pc' = "arm"
    BY <1>3 DEF RegisterTurn, Register, Go
  <2>2. wrote' = {} /\ LastTurn' = Allocated
    BY <2>1 DEF Written, Blank, LastTurn, Allocated
  <2>3. \A f \in File : <<Allocated, f>> \in DOMAIN start'  BY <2>1
  <2> QED BY <1>1, <2>1, <2>2, <2>3
          DEF Written, Blank, Noted, Stages, Taken, Sealed, Whole, AllWritten, InTurn
<1>4. CASE Arm
  <2>1. UNCHANGED <<manifest, wrote, start, text, saved, journal>> /\ pc = "arm"  BY <1>4 DEF Arm
  <2>2. wrote' = {} /\ LastTurn' = LastTurn  BY <2>1 DEF Written, Blank, LastTurn
  <2>3. CASE Rest /\ UNCHANGED marker
    BY <1>1, <2>2, <2>3, WroteNothing DEF Rest, InTurn, InRecovery
  <2>4. CASE Go("running") /\ marker' = [turn |-> cur, commit |-> <<>>]
    <3>1. pc' = "running" /\ marker'.commit = <<>>  BY <2>4 DEF Go
    <3>2. marker' # NoMarker
      BY <2>1, <2>4, TurnAssumption DEF Framed, Current, NoMarker
    <3>3. ~ Contains(text, Answer(LastTurn)) /\ ~ Contains(saved, Answer(LastTurn))
      BY <2>1 DEF Talk, Unsaid
    <3> QED BY <1>1, <2>1, <2>2, <3>1, <3>2, <3>3
            DEF Written, Blank, Noted, Stages, Taken, Sealed, Whole, AllWritten, InTurn
  <2> QED BY <1>4, <2>3, <2>4 DEF Arm
<1> QED BY <1>2, <1>3, <1>4

LEMMA Turning_Written == IInv /\ Framed /\ Talk /\ Written /\ Turning => Written'
<1> SUFFICES ASSUME IInv, Framed, Talk, Written, Turning PROVE Written'  OBVIOUS
<1> USE DEF storeVars, diskVars, metaVars, convVars, ghostVars
<1>1. CASE Arm  BY <1>1, Begin_Written
<1>2. CASE ~ Arm
  <2>1. /\ UNCHANGED <<file, manifest, journal, start, wrote>> /\ pc \in InTurn
        /\ LastTurn' = LastTurn
    BY <1>2 DEF Turning, Say, Autosave, EndTurn, FailTurn, Save, SaveAnchor, Commit, Finish, InTurn, LastTurn
  <2>2. /\ text \in Seq(Line) /\ marker # NoMarker /\ cur = LastTurn /\ LastTurn \in Nat
        /\ journal = NoJournal
    BY <2>1, Turns DEF Framed, Where
  <2>3. AllWritten /\ AllWritten'
    BY <2>1 DEF Written, Stages, AllWritten
  <2>4. CASE Say \/ Autosave
    <3>1. UNCHANGED <<runtime, marker>> /\ pc = "running" /\ pc' = "running" /\ saved' \in {saved, text}
      BY <2>4 DEF Say, Autosave, Go
    <3>2. marker.commit = <<>> /\ ~ Contains(text, Answer(LastTurn)) /\ ~ Contains(saved, Answer(LastTurn))
      BY <3>1 DEF Written, Stages, InTurn
    <3>3. ~ Contains(text', Answer(LastTurn))
      <4>1. CASE Say
        <5>1. text' = Append(text, Prompt(LastTurn))  BY <2>2, <4>1 DEF Say
        <5>2. ~ Contains(Append(text, Prompt(LastTurn)), Answer(LastTurn))
          BY <2>2, <3>2, AppendHas, Lines
        <5> QED BY <5>1, <5>2
      <4>2. CASE Autosave  BY <3>2, <4>2 DEF Autosave
      <4> QED BY <2>4, <4>1, <4>2
    <3>4. ~ Contains(saved', Answer(LastTurn))  BY <3>1, <3>2
    <3> QED BY <2>1, <2>2, <2>3, <3>1, <3>2, <3>3, <3>4
            DEF Written, Blank, Noted, Stages, Taken, Sealed, Whole, InTurn
  <2>5. CASE EndTurn
    <3>1. UNCHANGED <<saved, runtime, marker>> /\ pc = "running" /\ pc' = "save"  BY <2>5 DEF EndTurn, Go
    <3>2. marker.commit = <<>>  BY <3>1 DEF Written, Stages, InTurn
    <3>3. Contains(text', Answer(LastTurn))
      <4>1. text' = Append(text, Answer(LastTurn))  BY <2>2, <2>5 DEF EndTurn
      <4>2. Contains(Append(text, Answer(LastTurn)), Answer(LastTurn))  BY <2>2, AppendHas
      <4> QED BY <4>1, <4>2
    <3> QED BY <2>1, <2>2, <2>3, <3>1, <3>2, <3>3
            DEF Written, Blank, Noted, Stages, Taken, Sealed, Whole, InTurn
  <2>6. CASE FailTurn
    BY <2>1, <2>2, <2>3, <2>6 DEF FailTurn, Go, Written, Blank, Noted, Stages, Taken, Sealed, Whole, InTurn
  <2>7. CASE Save \/ SaveAnchor
    <3>1. /\ UNCHANGED <<text, marker>> /\ saved' \in {saved, text}
          /\ \/ pc = "save" /\ pc' = "saveAnchor" /\ saved' = text
             \/ pc = "saveAnchor" /\ pc' = "commit" /\ saved' = saved /\ runtime' = text
      BY <2>7 DEF Save, SaveAnchor, Go
    <3>2. marker.commit = <<>> /\ Contains(text, Answer(LastTurn)) /\ (pc = "saveAnchor" => saved = text)
      BY <3>1 DEF Written, Stages, InTurn
    <3> QED BY <2>1, <2>2, <2>3, <3>1, <3>2
            DEF Written, Blank, Noted, Stages, Taken, Sealed, Whole, InTurn
  <2>8. CASE Commit
    <3>1. /\ UNCHANGED <<text, saved, runtime>> /\ pc = "commit" /\ pc' = "finish"
          /\ marker'.commit = text
      BY <2>8 DEF Commit, Go, Framed, Shapes
    <3>2. /\ Contains(text, Answer(LastTurn)) /\ saved = text /\ runtime = text
      BY <3>1 DEF Written, Stages
    <3>3. marker' # NoMarker
      BY <2>2, <2>8, TurnAssumption DEF Commit, Framed, Shapes, Where, NoMarker
    <3> QED BY <2>1, <2>2, <2>3, <3>1, <3>2, <3>3
            DEF Written, Blank, Noted, Stages, Taken, Sealed, Whole, InTurn
  <2>9. CASE Finish
    <3>1. UNCHANGED <<text, saved, runtime>> /\ pc = "finish" /\ pc' = "idle" /\ marker' = NoMarker
      BY <2>9 DEF Finish, Rest
    <3>2. Contains(saved, Answer(LastTurn))  BY <3>1 DEF Written, Stages
    <3> QED BY <2>1, <2>2, <2>3, <3>1, <3>2
            DEF Written, Blank, Noted, Stages, Taken, Sealed, Whole, InTurn
  <2> QED BY <1>2, <2>4, <2>5, <2>6, <2>7, <2>8, <2>9 DEF Turning
<1> QED BY <1>1, <1>2

LEMMA Files_Written ==
    ASSUME IInv, Framed, FilesInv, Written, NEW f \in File, RestoreFile(f) \/ Touch(f) \/ Edit(f)
    PROVE  Written'
<1> USE DEF storeVars, diskVars, metaVars, convVars, ghostVars
<1>1. Where /\ Shapes  BY DEF Framed
<1>2. CASE RestoreFile(f)
  <2>1. UNCHANGED <<text, saved, runtime, marker, journal, manifest, wrote, pc>> /\ pc \in InRestore
    BY <1>2 DEF RestoreFile, Restore, InRestore
  <2>2. CASE pc = "undo"
    <3>1. start' = Restrict(start, {p \in DOMAIN start : p[2] = f => p[1] <= LastTurn})
      BY <1>2, <2>2 DEF RestoreFile, FilesInv, Restoring
    <3>2. marker # NoMarker /\ journal = NoJournal /\ marker.commit = <<>> /\ LastTurn \in Nat
      BY <1>1, <2>2, Turns DEF Where, InRecovery, Written, Stages
    <3>3. \A g \in File : <<LastTurn, g>> \in DOMAIN start => <<LastTurn, g>> \in DOMAIN start'
      BY <3>1, <3>2 DEF Restrict
    <3>4. LastTurn' = LastTurn /\ wrote \subseteq File  BY <1>1, <2>1 DEF LastTurn, Shapes
    <3> QED BY <2>1, <2>2, <3>2, <3>3, <3>4
            DEF Written, Blank, Noted, Stages, Taken, Sealed, Whole, InTurn
  <2>3. CASE pc # "undo"
    <3>1. marker = NoMarker /\ (pc = "code" \/ journal # NoJournal)
      BY <1>1, <2>1, <2>3 DEF Where, InRestore, InStart, InRewind
    <3>2. wrote = {}  BY <3>1 DEF Written, Blank
    <3> QED BY <2>1, <2>3, <3>1, <3>2, WroteNothing DEF InRestore, InTurn, InRecovery
  <2> QED BY <2>2, <2>3
<1>3. CASE Touch(f)
  <2>1. /\ UNCHANGED <<file, text, saved, marker, journal, manifest, wrote, start>>
        /\ pc = "running" /\ pc' = "editing"
    BY <1>3 DEF Touch, Snapshot
  <2>2. marker # NoMarker /\ marker.commit = <<>>
    BY <1>1, <2>1 DEF Where, Written, Stages, InTurn
  <2>3. LastTurn' = LastTurn /\ (AllWritten => AllWritten')  BY <2>1 DEF LastTurn, AllWritten
  <2> QED BY <2>1, <2>2, <2>3 DEF Written, Blank, Noted, Stages, Taken, Sealed, Whole, InTurn
<1>4. CASE Edit(f)
  <2>1. /\ UNCHANGED <<text, saved, runtime, marker, journal, manifest, start>> /\ wrote' = wrote \cup {f}
        /\ file' = [file EXCEPT ![f] = cur] /\ pc = "editing" /\ pc' = "running"
    BY <1>4 DEF Edit
  <2>2. marker # NoMarker /\ marker.commit = <<>> /\ journal = NoJournal /\ cur = LastTurn
    BY <1>1, <2>1, Turns DEF Where, Written, Stages, InTurn
  <2>3. LastTurn' = LastTurn  BY <2>1 DEF LastTurn
  <2>4. AllWritten'
    <3>1. AllWritten  BY <2>1 DEF Written, Stages, InTurn
    <3>2. \A g \in File : file'[g] = IF g = f THEN cur ELSE file[g]
      BY <1>1, <2>1 DEF Shapes, FileMap
    <3> QED BY <1>1, <2>1, <2>2, <2>3, <3>1, <3>2 DEF AllWritten, Shapes
  <2>5. Noted'  BY <2>1, <2>2, <2>3 DEF Written, Noted
  <2> QED BY <2>1, <2>2, <2>3, <2>4, <2>5 DEF Written, Blank, Stages, Taken, Sealed, Whole, InTurn
<1> QED BY <1>2, <1>3, <1>4

LEMMA Fails_Written == IInv /\ Framed /\ FilesInv /\ Talk /\ Written /\ WriteFails => Written'
<1> SUFFICES ASSUME IInv, Framed, FilesInv, Talk, Written, WriteFails PROVE Written'  OBVIOUS
<1> USE DEF storeVars, diskVars, metaVars, convVars, ghostVars
<1>1. Where /\ Shapes  BY DEF Framed
<1>2. UNCHANGED <<saved, runtime, marker, journal, start>> /\ (wrote' = IF pc = "compact" THEN {} ELSE wrote)
  BY DEF WriteFails
<1>3. CASE StepFails
  <2>1. UNCHANGED <<file, text, manifest, wrote>> /\ pc' = "idle" /\ pc # "down"
    BY <1>2, <1>3 DEF StepFails, Rest
  <2> QED BY <1>2, <2>1, StayWritten DEF InTurn
<1>4. CASE RewriteFails
  <2>1. UNCHANGED <<file, manifest>> /\ pc' = "idle"  BY <1>4 DEF RewriteFails, Rest
  <2>2. CASE pc = "strip"
    <3>1. marker # NoMarker /\ marker.commit = <<>>
      BY <1>1, <2>2 DEF Where, InRecovery, Written, Stages
    <3>2. LastTurn' = LastTurn  BY <2>1 DEF LastTurn
    <3> QED BY <1>2, <2>1, <2>2, <3>1, <3>2
            DEF Written, Blank, Noted, Stages, Taken, Sealed, Whole, InTurn
  <2>3. CASE pc # "strip"
    <3>1. marker = NoMarker /\ (pc = "compact" \/ journal # NoJournal)
      BY <1>1, <1>4, <2>3 DEF RewriteFails, Where, InStart, InRewind
    <3>2. wrote' = {}  BY <1>2, <3>1 DEF Written, Blank
    <3> QED BY <1>2, <2>1, <3>1, <3>2, WroteNothing DEF InTurn, InRecovery
  <2> QED BY <2>2, <2>3
<1>5. CASE CommitFails
  <2>1. UNCHANGED <<file, text, manifest, wrote>> /\ pc' = "recover" /\ pc # "down"
    BY <1>2, <1>5 DEF CommitFails, Go
  <2> QED BY <1>2, <2>1, StayWritten DEF InTurn
<1>6. CASE MarkFails
  <2>1. pc = "arm" /\ pc' = "retire"  BY <1>6 DEF MarkFails, GoRetire
  <2>2. wrote' = {} /\ marker' = NoMarker
    BY <1>1, <1>2, <2>1 DEF Written, Blank, Where, InStart
  <2> QED BY <2>1, <2>2, WroteNothing DEF InTurn, InRecovery
<1>7. CASE RestoreFails
  <2>1. UNCHANGED <<text, manifest, wrote>> /\ pc \in InRestore /\ pc' = "idle"
    BY <1>2, <1>7 DEF RestoreFails, Rest, InRestore
  <2>2. CASE pc = "undo"
    <3>1. marker # NoMarker /\ marker.commit = <<>>
      BY <1>1, <2>2 DEF Where, InRecovery, Written, Stages
    <3>2. LastTurn' = LastTurn  BY <2>1 DEF LastTurn
    <3> QED BY <1>2, <2>1, <2>2, <3>1, <3>2
            DEF Written, Blank, Noted, Stages, Taken, Sealed, Whole, InTurn
  <2>3. CASE pc # "undo"
    <3>1. marker = NoMarker /\ (pc = "code" \/ journal # NoJournal)
      BY <1>1, <2>1, <2>3 DEF Where, InRestore, InStart, InRewind
    <3>2. wrote' = {}  BY <2>1, <3>1 DEF Written, Blank
    <3> QED BY <1>2, <2>1, <3>1, <3>2, WroteNothing DEF InTurn, InRecovery
  <2> QED BY <2>2, <2>3
<1>8. ASSUME NEW f \in File, TouchFails(f) PROVE Written'
  <2>1. UNCHANGED <<file, text, manifest, wrote>> /\ pc = "running" /\ pc' = "running"
    BY <1>2, <1>8 DEF TouchFails, Snapshot, Go
  <2>2. LastTurn' = LastTurn /\ (AllWritten => AllWritten')  BY <2>1 DEF LastTurn, AllWritten
  <2>3. marker # NoMarker /\ marker.commit = <<>>  BY <1>1, <2>1 DEF Where, Written, Stages, InTurn
  <2> QED BY <1>2, <2>1, <2>2, <2>3 DEF Written, Blank, Noted, Stages, Taken, Sealed, Whole, InTurn
<1> QED BY <1>3, <1>4, <1>5, <1>6, <1>7, <1>8 DEF WriteFails

LEMMA Next_Written == IInv /\ Framed /\ FilesInv /\ Talk /\ Written /\ [Next]_vars => Written'
<1> SUFFICES ASSUME IInv, Framed, FilesInv, Talk, Written, [Next]_vars PROVE Written'  OBVIOUS
<1> USE DEF storeVars, diskVars, metaVars, convVars, ghostVars
<1>1. CASE UNCHANGED vars
  <2>1. LastTurn' = LastTurn  BY <1>1 DEF vars, LastTurn
  <2> QED BY <1>1, <2>1
          DEF vars, Written, Blank, Noted, Stages, Taken, Sealed, Whole, AllWritten, AllUndone
<1>2. CASE Asking \/ Resume \/ Crash  BY <1>2, Entering_Written
<1>3. CASE Recovering  BY <1>3, Recovering_Written
<1>4. CASE Rewinding  BY <1>4, Rewinding_Written
<1>5. CASE RetireTurns \/ Collect
  <2>1. pc \in InRetirement /\ pc' \notin InTurn \cup InRecovery \cup {"arm"} /\ UNCHANGED <<marker, wrote>>
    BY <1>5 DEF RetireTurns, Collect, Go, Rest, InTurn, InRecovery, InRetirement
  <2>2. marker = NoMarker /\ wrote = {}
    BY <2>1 DEF Framed, Where, InRetirement, Written, Blank
  <2> QED BY <2>1, <2>2, WroteNothing
<1>6. CASE AllocateTurn \/ RegisterTurn  BY <1>6, Begin_Written
<1>7. CASE Turning  BY <1>7, Turning_Written
<1>8. CASE \E f \in File : RestoreFile(f) \/ Touch(f) \/ Edit(f)  BY <1>8, Files_Written
<1>9. CASE WriteFails  BY <1>9, Fails_Written
<1> QED BY <1>1, <1>2, <1>3, <1>4, <1>5, <1>6, <1>7, <1>8, <1>9
        DEF Next, Asking, Recovering, Rewinding, Turning

THEOREM TurnInvariance == Spec => [](Talk /\ Written)
<1>1. Init => Talk
  <2>1. Known(<<>>, 0)  BY KnownNew
  <2> QED BY <2>1 DEF Init, StoreInit, Talk, AllKnown, NoJournal
<1>2. Init => Written
  BY DEF Init, Written, Blank, Noted, Stages, Taken, Sealed, Whole, AllWritten, InTurn
<1> QED BY <1>1, <1>2, Next_Talk, Next_Written, FilesInvariance, PTL DEF Spec

(* Between turns, and after every recovery, the last turn is there as a    *)
(* whole, or none of it but the prompt (recoverInterruptedTurnState,       *)
(* commitInFlightTurn).                                                    *)
THEOREM TurnsAreWhole == Spec => []TurnIsWhole
<1>1. Written => TurnIsWhole
  <2> SUFFICES ASSUME Written, marker = NoMarker, NEW f \in wrote
               PROVE  IF Contains(saved, Answer(LastTurn)) THEN file[f] = LastTurn
                      ELSE ~ Contains(text, Answer(LastTurn)) /\ file[f] = start[<<LastTurn, f>>]
    BY Zenon DEF TurnIsWhole
  <2> QED BY DEF Written, Whole, AllWritten, AllUndone
<1> QED BY <1>1, TurnInvariance, PTL
===============================================================================
