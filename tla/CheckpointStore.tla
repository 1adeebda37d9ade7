---------------------------- MODULE CheckpointStore ----------------------------
(***************************************************************************)
(* The checkpoints of a session (src/internal/checkpoint/checkpoint.go).   *)
(*                                                                         *)
(* Each turn has a record beside the session: where the conversation was   *)
(* when it began, and of every file it has changed what the file held      *)
(* before.  A manifest has the number of the next turn and the range of the*)
(* turns that were retired by a rewind; their records may still lie about. *)
(* The records of the turns in memory are the ones on the disk: a record   *)
(* that cannot be written is taken back.  The same holds for the manifest. *)
(*                                                                         *)
(* A file holds the work of the turn that wrote it last.  Encodings, modes,*)
(* links and other names of a file, records and manifests that cannot be   *)
(* read, and changes by others than edit tools are left out.               *)
(***************************************************************************)
EXTENDS Naturals, FiniteSetsExt, TLC

CONSTANTS
    File,               \* files of the workspace
    NoTurn,
    MaxTurn             \* bound: turns begun

ASSUME TurnAssumption == MaxTurn \in Nat /\ NoTurn \notin Nat

Turn == 0..(MaxTurn - 1)
Content == Turn \cup {NoTurn}

VARIABLES
    file,               \* file[f]: the turn that wrote what f holds
    record,             \* record[t]: the record of turn t, if there is a file of it
    manifest,           \* the next turn, and the retired range
    live,               \* turns in memory: done, and cur
    cur                 \* the turn that edits are recorded for

diskVars == <<record, manifest>>
storeVars == <<file, record, manifest, live, cur>>

StoreInit == /\ file = [f \in File |-> NoTurn]
             /\ record = <<>>
             /\ manifest = [next |-> 0, retired |-> {}]
             /\ live = {} /\ cur = NoTurn

(* load: whatever the manifest does not call retired.                      *)
LoadMutant == /\ live' = DOMAIN record
              /\ cur' = NoTurn
              /\ UNCHANGED <<file, diskVars>>

Load == /\ live' = DOMAIN record \ manifest.retired
        /\ cur' = NoTurn
        /\ UNCHANGED <<file, diskVars>>

(* Begin, in two writes.  The number is given to no other turn, whatever   *)
(* becomes of the record.                                                  *)
Allocate == /\ manifest.next < MaxTurn
            /\ manifest' = [manifest EXCEPT !.next = @ + 1]
            /\ cur' = NoTurn
            /\ UNCHANGED <<file, record, live>>

Allocated == manifest.next - 1

Register(text) ==
    /\ record' = [t \in DOMAIN record \cup {Allocated} |->
                    IF t = Allocated THEN [text |-> text, files |-> <<>>] ELSE record[t]]
    /\ live' = live \cup {Allocated}
    /\ cur' = Allocated
    /\ UNCHANGED <<file, manifest>>

(* Snapshot: the first touch of a file counts.                             *)
Snapshot(f) ==
    LET files == record[cur].files IN
    /\ cur # NoTurn
    /\ record' = IF f \in DOMAIN files THEN record
                 ELSE [record EXCEPT ![cur].files =
                          [g \in DOMAIN files \cup {f} |-> IF g = f THEN file[f] ELSE files[g]]]
    /\ UNCHANGED <<file, manifest, live, cur>>

(* TruncateFrom: the manifest decides, the records are deleted after it.   *)
(* The range is a single one and closes over what is between.              *)
From(t) == {u \in live : u >= t}

RetiredRange(t) == LET all == manifest.retired \cup {t} \cup From(t)
                   IN {u \in Turn : \E a, b \in all : a <= u /\ u <= b}

Retire(t) ==
    IF From(t) = {} THEN UNCHANGED storeVars
    ELSE /\ manifest' = [manifest EXCEPT !.retired = RetiredRange(t)]
         /\ live' = live \ From(t)
         /\ cur' = IF cur \in From(t) THEN NoTurn ELSE cur
         /\ UNCHANGED <<file, record>>

Delete(turns) == record' = [t \in DOMAIN record \ turns |-> record[t]]

(* RestoreCode: what a file had in it before the first turn from t on that *)
(* has changed it.                                                         *)
ChangedBy(f) == {t \in live : f \in DOMAIN record[t].files}
ChangedFrom(t) == {f \in File : ChangedBy(f) \cap From(t) # {}}

AtStartMutant(t, f) == IF f \in ChangedFrom(t)
                       THEN record[Max(ChangedBy(f) \cap From(t))].files[f]
                       ELSE file[f]

AtStart(t, f) == IF f \in ChangedFrom(t)
                 THEN record[Min(ChangedBy(f) \cap From(t))].files[f]
                 ELSE file[f]

Restore(t, f) == /\ file' = [file EXCEPT ![f] = AtStart(t, f)]
                 /\ UNCHANGED <<diskVars, live, cur>>
================================================================================
