------------------------ MODULE DeliveryLedgerProofs ------------------------
(***************************************************************************)
(* Proofs about DeliveryLedger, for any messages, channels, sessions and   *)
(* limits.  CheckpointExact is not inductive as it stands: that the walk of*)
(* advanceRecoveryCheckpoint is right needs unique sequence numbers, and   *)
(* that an answer's claims are still open when its last chunk is           *)
(* acknowledged needs the obligations to be sound and disjoint.  IInv adds *)
(* those facts.  A step either claims a message, or changes the status of  *)
(* open records, or settles open records and lets their channels advance:  *)
(* one lemma each says that the cursor facts survive.                      *)
(***************************************************************************)
EXTENDS DeliveryLedger, FiniteSetTheorems, TLAPS

(* The facts about records, sequences and checkpoints.                     *)
CursorInv == /\ SequenceUnique /\ WithinSequence /\ AbsentIsBlank
             /\ CheckpointCovers /\ NoHole /\ CheckpointTight

(* The facts about stored answers.                                         *)
AnswerInv == ObligationSound /\ BlankObligation /\ SingleOwner

IInv == TypeOK /\ CursorInv /\ AnswerInv

-----------------------------------------------------------------------------
(* Marking records changes statuses and nothing else.                      *)
LEMMA MarkedRecords ==
    ASSUME TypeOK, NEW S \in SUBSET Message, NEW st \in RecordStatus
    PROVE  /\ Marked(S, st) \in [Message -> Record]
           /\ \A m \in Message :
                /\ Marked(S, st)[m].seq = records[m].seq
                /\ m \in S => Marked(S, st)[m].status = st
                /\ m \notin S => Marked(S, st)[m] = records[m]
  BY DEF TypeOK, Marked, Record

(* An open record that is marked, but not as delivered, disturbs no cursor *)
(* fact.                                                                   *)
LEMMA MarkOpen ==
    ASSUME TypeOK, CursorInv, NEW S \in SUBSET Message,
           NEW st \in {"processing", "interrupted", "failed"},
           \A m \in S : Open(m),
           records' = Marked(S, st), UNCHANGED <<sequences, checkpoints>>
    PROVE  CursorInv'
<1>1. /\ records' \in [Message -> Record]
      /\ \A m \in Message : /\ records'[m].seq = records[m].seq
                            /\ m \in S => records'[m].status = st
                            /\ m \notin S => records'[m] = records[m]
  BY MarkedRecords, st \in RecordStatus DEF RecordStatus
<1>2. \A m \in Message :
        /\ records'[m].status = "delivered" <=> records[m].status = "delivered"
        /\ records'[m].status = "absent" <=> records[m].status = "absent"
  BY <1>1 DEF Open
<1>3. SequenceUnique' /\ WithinSequence' /\ AbsentIsBlank'
  BY <1>1, <1>2, MappingAssumption
     DEF CursorInv, SequenceUnique, WithinSequence, AbsentIsBlank, Present
<1>4. CheckpointCovers'
  BY <1>1, <1>2, MappingAssumption DEF CursorInv, CheckpointCovers, Present
<1>5. NoHole'
  BY <1>1 DEF CursorInv, NoHole
<1>6. CheckpointTight'
  BY <1>1, <1>2 DEF CursorInv, CheckpointTight, AnsweredAt
<1> QED BY <1>3, <1>4, <1>5, <1>6 DEF CursorInv

(* Settling open records keeps the cursor facts: the walk covers every     *)
(* number it passes and stops only at one that is not answered.            *)
LEMMA MarkDelivered ==
    ASSUME TypeOK, CursorInv, NEW S \in SUBSET Message,
           \A m \in S : Open(m),
           records' = Marked(S, "delivered"), Advance(Marked(S, "delivered"), S),
           UNCHANGED sequences
    PROVE  /\ checkpoints' \in [Channel -> Nat]
           /\ CursorInv'
<1> DEFINE walked == {ChannelOf[m] : m \in {x \in S : records'[x].seq > 0}}
<1>1. /\ records' \in [Message -> Record]
      /\ \A m \in Message : /\ records'[m].seq = records[m].seq
                            /\ m \in S => records'[m].status = "delivered"
                            /\ m \notin S => records'[m] = records[m]
  BY MarkedRecords, "delivered" \in RecordStatus DEF RecordStatus
<1>2. \A m \in Message :
        /\ records[m].status = "delivered" => records'[m].status = "delivered"
        /\ records'[m].status = "absent" <=> records[m].status = "absent"
        /\ records[m].seq \in Nat
  BY <1>1 DEF Open, TypeOK, Record
<1>3. \A c \in Channel : sequences[c] \in Nat /\ checkpoints[c] \in Nat
  BY DEF TypeOK
<1>4. checkpoints' \in [Channel -> Nat]
  BY <1>3 DEF Advance
<1>5. \A c \in Channel : IF c \in walked THEN WalkEndsAt(records', c, checkpoints'[c])
                                        ELSE checkpoints'[c] = checkpoints[c]
  BY DEF Advance
<1>6. \A c \in Channel : /\ checkpoints'[c] \in Nat
                         /\ checkpoints'[c] >= checkpoints[c]
                         /\ \A i \in (checkpoints[c] + 1)..checkpoints'[c] :
                               AnsweredAt(records', c, i)
  BY <1>3, <1>4, <1>5 DEF WalkEndsAt
<1>7. SequenceUnique' /\ AbsentIsBlank'
  BY <1>1, <1>2, MappingAssumption DEF CursorInv, SequenceUnique, AbsentIsBlank, Present
<1>8. WithinSequence'
  <2>1. \A m \in Message : records'[m].seq <= sequences[ChannelOf[m]]
    BY <1>1 DEF CursorInv, WithinSequence
  <2>2. ASSUME NEW c \in Channel PROVE checkpoints'[c] <= sequences[c]
    <3>1. CASE checkpoints'[c] = checkpoints[c]
      BY <3>1 DEF CursorInv, WithinSequence
    <3>2. CASE checkpoints'[c] > checkpoints[c]
      <4>1. AnsweredAt(records', c, checkpoints'[c])
        BY <3>2, <1>3, <1>6
      <4> QED BY <4>1, <2>1 DEF AnsweredAt
    <3> QED BY <3>1, <3>2, <1>3, <1>6
  <2> QED BY <2>1, <2>2 DEF WithinSequence
<1>9. CheckpointCovers'
  <2> SUFFICES ASSUME NEW m \in Message, Present(m)',
                      records'[m].seq \in 1..checkpoints'[ChannelOf[m]]
               PROVE  records'[m].status = "delivered"
    BY DEF CheckpointCovers
  <2>1. ChannelOf[m] \in Channel
    BY MappingAssumption
  <2>2. CASE records[m].seq <= checkpoints[ChannelOf[m]]
    BY <2>1, <2>2, <1>1, <1>2, <1>3 DEF CursorInv, CheckpointCovers, Present
  <2>3. CASE records[m].seq > checkpoints[ChannelOf[m]]
    <3>1. AnsweredAt(records', ChannelOf[m], records'[m].seq)
      BY <2>1, <2>3, <1>1, <1>2, <1>3, <1>6
    <3> QED BY <3>1, <1>7, <1>1, <1>2 DEF AnsweredAt, SequenceUnique
  <2> QED BY <2>1, <2>2, <2>3, <1>2, <1>3
<1>10. NoHole'
  <2> SUFFICES ASSUME NEW c \in Channel, NEW i \in (checkpoints'[c] + 1)..sequences[c]
               PROVE  \E m \in Message : ChannelOf[m] = c /\ records'[m].seq = i
    BY DEF NoHole
  <2>1. i \in (checkpoints[c] + 1)..sequences[c]
    BY <1>3, <1>6
  <2> QED BY <2>1, <1>1 DEF CursorInv, NoHole
<1>11. CheckpointTight'
  <2> SUFFICES ASSUME NEW c \in Channel
               PROVE  ~ AnsweredAt(records', c, checkpoints'[c] + 1)
    BY DEF CheckpointTight, AnsweredAt
  <2>1. CASE c \in walked
    BY <2>1, <1>5 DEF WalkEndsAt
  <2>2. CASE c \notin walked
    <3>1. checkpoints'[c] = checkpoints[c]
      BY <2>2, <1>5
    <3>2. ASSUME NEW m \in Message, ChannelOf[m] = c, records'[m].seq = checkpoints[c] + 1,
                 records'[m].status = "delivered"
          PROVE  FALSE
      <4>1. m \notin S
        BY <3>2, <2>2, <1>3
      <4>2. AnsweredAt(records, c, checkpoints[c] + 1)
        BY <4>1, <3>2, <1>1 DEF AnsweredAt
      <4> QED BY <4>2 DEF CursorInv, CheckpointTight
    <3> QED BY <3>1, <3>2 DEF AnsweredAt
  <2> QED BY <2>1, <2>2
<1> QED BY <1>4, <1>7, <1>8, <1>9, <1>10, <1>11 DEF CursorInv

(* A claim hands out the next number of its channel and may forget only    *)
(* records below their checkpoint, so no hole opens above one.             *)
LEMMA ClaimStep ==
    ASSUME IInv, NEW m \in Message, NEW cursor \in BOOLEAN, Claim(m, cursor)
    PROVE  IInv'
<1> DEFINE c == ChannelOf[m]
           assigns == cursor /\ records[m].seq = 0
<1>1. PICK gone \in SUBSET Removable :
        records' = [x \in Message |->
            IF x = m THEN [status |-> "processing",
                           seq |-> IF assigns THEN sequences[c] + 1 ELSE records[m].seq]
            ELSE IF x \in gone THEN AbsentRecord ELSE records[x]]
  BY DEF Claim
<1>2. /\ sequences' = [sequences EXCEPT ![c] = IF assigns THEN @ + 1 ELSE @]
      /\ checkpoints' = checkpoints /\ obligations' = obligations
      /\ ~ Owned(m)
      /\ records[m].status \notin {"delivered", "processing"}
  BY DEF Claim, MayClaim
<1>3. /\ c \in Channel
      /\ \A x \in Message : ChannelOf[x] \in Channel
      /\ \A d \in Channel : sequences[d] \in Nat /\ checkpoints[d] \in Nat
      /\ \A x \in Message : records[x].seq \in Nat /\ records[x] \in Record
  BY MappingAssumption DEF IInv, TypeOK, Record
<1>4. TypeOK'
  BY <1>1, <1>2, <1>3 DEF IInv, TypeOK, Record, RecordStatus, AbsentRecord
<1>5. /\ sequences'[c] = IF assigns THEN sequences[c] + 1 ELSE sequences[c]
      /\ \A d \in Channel : d # c => sequences'[d] = sequences[d]
      /\ records'[m].status = "processing"
      /\ records'[m].seq = IF assigns THEN sequences[c] + 1 ELSE records[m].seq
      /\ \A x \in Message : x # m => records'[x] = records[x]
                                     \/ (x \in gone /\ records'[x] = AbsentRecord)
  BY <1>1, <1>2, <1>3 DEF IInv, TypeOK
<1>6. \A x \in gone : /\ Present(x) /\ ~ Owned(x)
                      /\ records[x].seq <= checkpoints[ChannelOf[x]]
  BY DEF Removable
<1>7. WithinSequence'
  BY <1>2, <1>3, <1>5 DEF IInv, CursorInv, WithinSequence, AbsentRecord
<1>8. SequenceUnique'
  BY <1>3, <1>5 DEF IInv, CursorInv, SequenceUnique, WithinSequence, AbsentRecord
<1>9. AbsentIsBlank'
  BY <1>5 DEF IInv, CursorInv, AbsentIsBlank, Present, AbsentRecord
<1>10. CheckpointCovers'
  BY <1>2, <1>3, <1>5
     DEF IInv, CursorInv, CheckpointCovers, WithinSequence, AbsentIsBlank, Present,
         AbsentRecord
<1>11. NoHole'
  <2> SUFFICES ASSUME NEW d \in Channel, NEW i \in (checkpoints[d] + 1)..sequences'[d]
               PROVE  \E x \in Message : ChannelOf[x] = d /\ records'[x].seq = i
    BY <1>2 DEF NoHole
  <2>1. CASE d = c /\ assigns /\ i = sequences[c] + 1
    BY <2>1, <1>5
  <2>2. CASE i \in (checkpoints[d] + 1)..sequences[d]
    <3>1. PICK x \in Message : ChannelOf[x] = d /\ records[x].seq = i
      BY <2>2 DEF IInv, CursorInv, NoHole
    <3>2. x \notin gone
      BY <3>1, <2>2, <1>3, <1>6
    <3>3. records'[x].seq = i
      BY <3>1, <3>2, <2>2, <1>3, <1>5
    <3> QED BY <3>1, <3>3
  <2> QED BY <2>1, <2>2, <1>3, <1>5
<1>12. CheckpointTight'
  BY <1>2, <1>5 DEF IInv, CursorInv, CheckpointTight, AnsweredAt, AbsentRecord
<1>13. AnswerInv'
  <2>1. \A x \in Message : Owned(x) => records'[x] = records[x]
    BY <1>2, <1>5, <1>6
  <2>2. \A k \in Message : \A x \in obligations[k].claims : x \in Message
    BY DEF IInv, TypeOK, Obligation
  <2>3. ObligationSound'
    BY <2>1, <2>2, <1>2 DEF IInv, AnswerInv, ObligationSound, Owed, Owned, Open
  <2> QED BY <2>3, <1>2 DEF IInv, AnswerInv, BlankObligation, SingleOwner, Owed
<1> QED BY <1>4, <1>7, <1>8, <1>9, <1>10, <1>11, <1>12, <1>13 DEF IInv, CursorInv

-----------------------------------------------------------------------------
(* Storing an answer: its claims are open and nobody else's.               *)
LEMMA PrepareStep ==
    ASSUME IInv, NEW k \in Message, NEW claims \in SUBSET Message, NEW n \in 1..MaxChunks,
           Prepare(k, claims, n)
    PROVE  IInv'
<1>1. /\ obligations' = [obligations EXCEPT ![k] =
             [status |-> "pending", claims |-> claims, chunks |-> n, next |-> 0,
              attempts |-> 0]]
      /\ UNCHANGED <<records, sequences, checkpoints>>
      /\ k \in claims
      /\ \A m \in claims : Open(m) /\ ~ Owned(m)
  BY DEF Prepare, MayPrepare
<1>2. /\ obligations'[k] = [status |-> "pending", claims |-> claims, chunks |-> n,
                            next |-> 0, attempts |-> 0]
      /\ \A j \in Message : j # k => obligations'[j] = obligations[j]
  BY <1>1 DEF IInv, TypeOK
<1>3. TypeOK'
  BY <1>1, <1>2, LimitAssumption DEF IInv, TypeOK, Obligation, ObligationStatus
<1>4. CursorInv'
  BY <1>1 DEF IInv, CursorInv, SequenceUnique, WithinSequence, AbsentIsBlank,
              CheckpointCovers, NoHole, CheckpointTight, AnsweredAt, Present
<1>5. ObligationSound'
  BY <1>1, <1>2 DEF IInv, AnswerInv, ObligationSound, Owed, Open
<1>6. BlankObligation'
  BY <1>1, <1>2 DEF IInv, AnswerInv, BlankObligation, Owed
<1>7. SingleOwner'
  <2>1. \A j \in Message : obligations[j].claims \cap claims = {}
    BY <1>1 DEF IInv, AnswerInv, BlankObligation, Owed, Owned
  <2> QED BY <2>1, <1>1, <1>2 DEF IInv, AnswerInv, SingleOwner
<1> QED BY <1>3, <1>4, <1>5, <1>6, <1>7 DEF IInv, AnswerInv

(* A step that changes statuses of open records, and of one stored answer  *)
(* at most its status, attempt flag and progress.                          *)
LEMMA StatusStep ==
    ASSUME IInv, NEW S \in SUBSET Message,
           NEW st \in {"processing", "interrupted", "failed"},
           \A m \in S : Open(m),
           records' = Marked(S, st), UNCHANGED <<sequences, checkpoints>>,
           obligations' \in [Message -> Obligation],
           \A k \in Message :
               /\ Owed(k)' <=> Owed(k)
               /\ obligations'[k].claims = obligations[k].claims
               /\ Owed(k) => /\ obligations'[k].next < obligations'[k].chunks
                             /\ obligations'[k].status # "pending"
                                  => obligations'[k].attempts > 0
    PROVE  IInv'
<1>1. /\ records' \in [Message -> Record]
      /\ \A m \in Message : /\ m \in S => records'[m].status = st
                            /\ m \notin S => records'[m] = records[m]
  BY MarkedRecords, st \in RecordStatus DEF IInv, RecordStatus
<1>2. TypeOK'
  BY <1>1 DEF IInv, TypeOK
<1>3. CursorInv'
  BY MarkOpen DEF IInv
<1>4. ObligationSound'
  <2>1. \A m \in Message : Open(m) => Open(m)'
    BY <1>1 DEF Open
  <2>2. \A k \in Message : \A m \in obligations[k].claims : m \in Message
    BY DEF IInv, TypeOK, Obligation
  <2> QED BY <2>1, <2>2 DEF IInv, AnswerInv, ObligationSound
<1>5. BlankObligation' /\ SingleOwner'
  BY DEF IInv, AnswerInv, BlankObligation, SingleOwner
<1> QED BY <1>2, <1>3, <1>4, <1>5 DEF IInv, AnswerInv

(* A step that settles open records: every stored answer that covers one   *)
(* of them is dropped, and the others are kept or dropped.                 *)
LEMMA SettleStep ==
    ASSUME IInv, NEW S \in SUBSET Message,
           \A m \in S : Open(m),
           records' = Marked(S, "delivered"), Advance(Marked(S, "delivered"), S),
           UNCHANGED sequences,
           obligations' \in [Message -> Obligation],
           \A k \in Message :
               \/ obligations'[k] = NoObligation
               \/ obligations'[k] = obligations[k] /\ obligations[k].claims \cap S = {}
    PROVE  IInv'
<1>1. /\ records' \in [Message -> Record]
      /\ \A m \in Message : m \notin S => records'[m] = records[m]
  BY MarkedRecords, "delivered" \in RecordStatus DEF IInv, RecordStatus
<1>2. checkpoints' \in [Channel -> Nat] /\ CursorInv'
  BY MarkDelivered DEF IInv
<1>3. TypeOK'
  BY <1>1, <1>2 DEF IInv, TypeOK
<1>4. \A k \in Message : Owed(k)' => /\ Owed(k)
                                     /\ obligations'[k] = obligations[k]
                                     /\ \A m \in obligations[k].claims :
                                          m \in Message /\ records'[m] = records[m]
  BY <1>1 DEF IInv, TypeOK, Obligation, Owed, NoObligation
<1>5. ObligationSound'
  BY <1>4 DEF IInv, AnswerInv, ObligationSound, Open
<1>6. BlankObligation'
  BY DEF IInv, AnswerInv, BlankObligation, Owed, NoObligation
<1>7. SingleOwner'
  BY DEF IInv, AnswerInv, SingleOwner, NoObligation
<1> QED BY <1>2, <1>3, <1>5, <1>6, <1>7 DEF IInv, AnswerInv

-----------------------------------------------------------------------------
(* One step per operation.                                                 *)
LEMMA InvariantStep == IInv /\ [Next]_ledgerVars => IInv'
<1> SUFFICES ASSUME IInv, [Next]_ledgerVars PROVE IInv'
  OBVIOUS
<1>0. /\ obligations \in [Message -> Obligation]
      /\ \A k \in Message : obligations[k].claims \in SUBSET Message
  BY DEF IInv, TypeOK, Obligation
<1>1. ASSUME NEW m \in Message, NEW cursor \in BOOLEAN, Claim(m, cursor) PROVE IInv'
  BY <1>1, ClaimStep
<1>2. ASSUME NEW k \in Message, NEW claims \in Merges, NEW n \in 1..MaxChunks,
             Prepare(k, claims, n)
      PROVE  IInv'
  BY <1>2, PrepareStep DEF Merges
<1>3. ASSUME NEW k \in Message, BeginAttempt(k) PROVE IInv'
  <2> DEFINE begun == [obligations[k] EXCEPT !.status = "attempting", !.attempts = 1]
  <2>1. \A j \in Message : obligations'[j] = IF j = k THEN begun ELSE obligations[j]
    BY <1>3, <1>0 DEF BeginAttempt
  <2>2. obligations' \in [Message -> Obligation]
    <3>1. begun \in Obligation
      <4>1. [obligations[k] EXCEPT !.status = "attempting"] \in Obligation
        BY <1>0 DEF Obligation, ObligationStatus
      <4>2. ASSUME NEW o \in Obligation PROVE [o EXCEPT !.attempts = 1] \in Obligation
        BY DEF Obligation
      <4> QED BY <4>1, <4>2
    <3> HIDE DEF begun
    <3>2. obligations' = [obligations EXCEPT ![k] = begun]
      BY <1>3 DEF BeginAttempt, begun
    <3> QED BY <3>1, <3>2, <1>0
  <2>3. \A j \in Message :
          /\ Owed(j)' <=> Owed(j)
          /\ obligations'[j].claims = obligations[j].claims
          /\ Owed(j) => /\ obligations'[j].next < obligations'[j].chunks
                        /\ obligations'[j].status # "pending" => obligations'[j].attempts > 0
    BY <1>3, <1>0, <2>1 DEF BeginAttempt, Owed, Obligation, IInv, AnswerInv, ObligationSound
  <2> QED BY <1>0, <1>3, <2>2, <2>3, StatusStep DEF BeginAttempt
<1>4. ASSUME NEW k \in Message, FailAttempt(k) PROVE IInv'
  <2>1. \A j \in Message :
          obligations'[j] = IF j = k THEN [obligations[k] EXCEPT !.status = "failed"]
                            ELSE obligations[j]
    BY <1>4, <1>0 DEF FailAttempt
  <2>2. obligations' \in [Message -> Obligation]
    BY <1>4, <1>0 DEF FailAttempt, Obligation, ObligationStatus
  <2>3. \A j \in Message :
          /\ Owed(j)' <=> Owed(j)
          /\ obligations'[j].claims = obligations[j].claims
          /\ Owed(j) => /\ obligations'[j].next < obligations'[j].chunks
                        /\ obligations'[j].status # "pending" => obligations'[j].attempts > 0
    BY <1>4, <1>0, <2>1 DEF FailAttempt, Owed, Obligation, IInv, AnswerInv, ObligationSound
  <2>4. {m \in obligations[k].claims : Open(m)} \in SUBSET Message
    BY <1>0
  <2> QED BY <1>4, <2>2, <2>3, <2>4, StatusStep DEF FailAttempt
<1>5. ASSUME NEW k \in Message, AckChunk(k) PROVE IInv'
  <2>1. \A j \in Message :
          obligations'[j] = IF j = k THEN [obligations[k] EXCEPT !.status = "pending",
                                             !.next = obligations[k].next + 1]
                            ELSE obligations[j]
    BY <1>5, <1>0 DEF AckChunk
  <2>2. obligations' \in [Message -> Obligation]
    BY <1>5, <1>0, LimitAssumption DEF AckChunk, MoreChunks, Obligation, ObligationStatus
  <2>3. \A j \in Message :
          /\ Owed(j)' <=> Owed(j)
          /\ obligations'[j].claims = obligations[j].claims
          /\ Owed(j) => /\ obligations'[j].next < obligations'[j].chunks
                        /\ obligations'[j].status # "pending" => obligations'[j].attempts > 0
    BY <1>5, <1>0, <2>1, LimitAssumption
       DEF AckChunk, MoreChunks, Owed, Obligation, IInv, AnswerInv, ObligationSound
  <2>4. records' = Marked({}, "failed")
    BY <1>5 DEF AckChunk, Marked, IInv, TypeOK
  <2> QED BY <1>5, <2>2, <2>3, <2>4, StatusStep DEF AckChunk
<1>6. ASSUME NEW k \in Message, AckLast(k) PROVE IInv'
  <2>1. \A j \in Message : obligations'[j] = IF j = k THEN NoObligation ELSE obligations[j]
    BY <1>6, <1>0 DEF AckLast
  <2>2. obligations' \in [Message -> Obligation]
    BY <1>6, <1>0, LimitAssumption
       DEF AckLast, NoObligation, Obligation, ObligationStatus
  <2>3. \A m \in obligations[k].claims : Open(m)
    BY <1>6 DEF AckLast, Owed, IInv, AnswerInv, ObligationSound
  <2>4. \A j \in Message :
          \/ obligations'[j] = NoObligation
          \/ /\ obligations'[j] = obligations[j]
             /\ obligations[j].claims \cap obligations[k].claims = {}
    BY <2>1 DEF IInv, AnswerInv, SingleOwner
  <2> QED BY <1>0, <1>6, <2>2, <2>3, <2>4, SettleStep DEF AckLast
<1>7. ASSUME NEW claims \in SUBSET Message, Fail(claims) PROVE IInv'
  <2>1. {m \in claims : Open(m)} \in SUBSET Message
    OBVIOUS
  <2> QED BY <1>0, <1>7, <2>1, StatusStep DEF Fail, IInv, AnswerInv, ObligationSound, Owed
<1>8. ASSUME NEW claims \in SUBSET Message, Delivered(claims) PROVE IInv'
  <2>1. obligations' \in [Message -> Obligation]
    BY <1>8, <1>0, LimitAssumption
       DEF Delivered, WithoutAnswersTo, NoObligation, Obligation, ObligationStatus
  <2>2. \A j \in Message :
          \/ obligations'[j] = NoObligation
          \/ /\ obligations'[j] = obligations[j]
             /\ obligations[j].claims \cap {m \in claims : Open(m)} = {}
    BY <1>8 DEF Delivered, WithoutAnswersTo
  <2>3. {m \in claims : Open(m)} \in SUBSET Message
    OBVIOUS
  <2> QED BY <1>8, <2>1, <2>2, <2>3, SettleStep DEF Delivered
<1>9. ASSUME NEW s \in Session, NEW x \in Message, DeliveredSession(s, {x}) PROVE IInv'
  <2> DEFINE done == {m \in InSession(s, {x}) : Open(m)}
  <2>1. obligations' \in [Message -> Obligation]
    BY <1>9, <1>0, LimitAssumption
       DEF DeliveredSession, WithoutAnswersTo, NoObligation, Obligation, ObligationStatus
  <2>2. \A j \in Message :
          \/ obligations'[j] = NoObligation
          \/ obligations'[j] = obligations[j] /\ obligations[j].claims \cap done = {}
    BY <1>9 DEF DeliveredSession, WithoutAnswersTo
  <2>3. done \in SUBSET Message
    BY DEF InSession
  <2> QED BY <1>9, <2>1, <2>2, <2>3, SettleStep DEF DeliveredSession
<1>10. ASSUME NEW s \in Session, NEW x \in Message, FailSession(s, {x}) PROVE IInv'
  BY <1>10, <1>7 DEF FailSession, InSession
<1>11. CASE Reopen
  <2>1. {m \in Message : records[m].status = "processing"} \in SUBSET Message
    OBVIOUS
  <2>2. \A m \in {m \in Message : records[m].status = "processing"} : Open(m)
    BY DEF Open
  <2> QED BY <1>0, <1>11, <2>1, <2>2, StatusStep
          DEF Reopen, IInv, AnswerInv, ObligationSound, Owed
<1>12. CASE UNCHANGED ledgerVars
  BY <1>12 DEF ledgerVars, IInv, TypeOK, CursorInv, AnswerInv, SequenceUnique,
               WithinSequence, AbsentIsBlank, CheckpointCovers, NoHole, CheckpointTight,
               AnsweredAt, Present, Open, Owed, ObligationSound, BlankObligation, SingleOwner
<1> QED BY <1>1, <1>2, <1>3, <1>4, <1>5, <1>6, <1>7, <1>8, <1>9, <1>10, <1>11, <1>12
        DEF Next, Merges

LEMMA InitialState == Init => IInv
<1> SUFFICES ASSUME Init PROVE IInv
  OBVIOUS
<1>1. TypeOK
  BY LimitAssumption
     DEF Init, TypeOK, AbsentRecord, NoObligation, Record, RecordStatus, Obligation,
         ObligationStatus
<1>2. SequenceUnique /\ WithinSequence /\ AbsentIsBlank
  BY MappingAssumption
     DEF Init, SequenceUnique, WithinSequence, AbsentIsBlank, AbsentRecord
<1>3. CheckpointCovers /\ NoHole /\ CheckpointTight
  BY MappingAssumption
     DEF Init, CheckpointCovers, NoHole, CheckpointTight, AnsweredAt, Present, AbsentRecord
<1>4. AnswerInv
  BY DEF Init, AnswerInv, ObligationSound, BlankObligation, SingleOwner, Owed, NoObligation
<1> QED BY <1>1, <1>2, <1>3, <1>4 DEF IInv, CursorInv

(* The strengthened invariant holds in every reachable state.              *)
THEOREM Invariance == Spec => []IInv
  BY InitialState, InvariantStep, PTL DEF Spec

(* Every ledger the gateway can write has the shape of TypeOK.             *)
THEOREM TypeCorrect == Spec => []TypeOK
<1>1. IInv => TypeOK
  BY DEF IInv
<1> QED BY <1>1, Invariance, PTL

(* Resuming from a checkpoint skips no unanswered message, and no answered *)
(* one holds the checkpoint back: advanceRecoveryCheckpoint and            *)
(* pruneDeliveryRecords are right together.                                *)
THEOREM CheckpointsAreExact == Spec => []CheckpointExact
<1>1. IInv => CheckpointExact
  BY DEF IInv, CursorInv, CheckpointExact
<1> QED BY <1>1, Invariance, PTL

-----------------------------------------------------------------------------
(* No operation takes back that a message was answered, nor forgets it     *)
(* while a replay from the checkpoint could reach it.                      *)
THEOREM AnswersAreFinal == Spec => AnsweredIsFinal
<1> DEFINE Final == \A m \in Message : records[m].status = "delivered" =>
                       \/ records'[m] = records[m]
                       \/ /\ records'[m].status = "absent"
                          /\ records[m].seq <= checkpoints[ChannelOf[m]]
<1>1. IInv /\ [Next]_ledgerVars => Final
  <2> SUFFICES ASSUME IInv, [Next]_ledgerVars, NEW m \in Message,
                      records[m].status = "delivered"
               PROVE  \/ records'[m] = records[m]
                      \/ /\ records'[m].status = "absent"
                         /\ records[m].seq <= checkpoints[ChannelOf[m]]
    OBVIOUS
  <2>0. TypeOK /\ (\A k \in Message : obligations[k].claims \in SUBSET Message)
    BY DEF IInv, TypeOK, Obligation
  <2>1. ASSUME NEW S \in SUBSET Message, NEW st, \A x \in S : Open(x),
               records' = Marked(S, st)
        PROVE  records'[m] = records[m]
    BY <2>1 DEF Marked, Open
  <2>2. ASSUME NEW x \in Message, NEW cursor \in BOOLEAN, Claim(x, cursor)
        PROVE  \/ records'[m] = records[m]
               \/ /\ records'[m].status = "absent"
                  /\ records[m].seq <= checkpoints[ChannelOf[m]]
    BY <2>2 DEF Claim, MayClaim, Removable, AbsentRecord
  <2>3. ASSUME NEW k \in Message, BeginAttempt(k) PROVE records'[m] = records[m]
    BY <2>0, <2>1, <2>3 DEF BeginAttempt
  <2>4. ASSUME NEW k \in Message, FailAttempt(k) PROVE records'[m] = records[m]
    <3>1. {x \in obligations[k].claims : Open(x)} \in SUBSET Message
      BY <2>0
    <3> QED BY <2>1, <2>4, <3>1 DEF FailAttempt
  <2>5. ASSUME NEW k \in Message, AckLast(k) PROVE records'[m] = records[m]
    <3>1. \A x \in obligations[k].claims : Open(x)
      BY <2>5 DEF AckLast, Owed, IInv, AnswerInv, ObligationSound
    <3> QED BY <2>0, <2>1, <2>5, <3>1 DEF AckLast
  <2>6. ASSUME NEW claims \in SUBSET Message, Fail(claims) \/ Delivered(claims)
        PROVE  records'[m] = records[m]
    <3>1. {x \in claims : Open(x)} \in SUBSET Message
      OBVIOUS
    <3> QED BY <2>1, <2>6, <3>1 DEF Fail, Delivered
  <2>7. ASSUME NEW s \in Session, NEW x \in Message,
               DeliveredSession(s, {x}) \/ FailSession(s, {x})
        PROVE  records'[m] = records[m]
    <3>1. {y \in InSession(s, {x}) : Open(y)} \in SUBSET Message
      BY DEF InSession
    <3> QED BY <2>1, <2>7, <3>1 DEF DeliveredSession, FailSession, Fail
  <2>8. CASE Reopen
    BY <2>0, <2>8 DEF Reopen, Marked
  <2>9. CASE UNCHANGED records
    BY <2>9
  <2> QED BY <2>2, <2>3, <2>4, <2>5, <2>6, <2>7, <2>8, <2>9
          DEF Next, Merges, Prepare, AckChunk, ledgerVars
<1> QED BY <1>1, Invariance, PTL DEF Spec, AnsweredIsFinal

(* A stored answer stays, with the chunks already confirmed, until one of  *)
(* the messages it answers is settled.                                     *)
THEOREM AnswersAreKept == Spec => AnswerIsKept
<1> DEFINE Kept(k) == /\ Owed(k)'
                      /\ obligations'[k].claims = obligations[k].claims
                      /\ obligations'[k].chunks = obligations[k].chunks
                      /\ obligations'[k].next >= obligations[k].next
           Settled(k) == \E m \in obligations[k].claims : records'[m].status = "delivered"
<1>1. IInv /\ [Next]_ledgerVars => \A k \in Message : Owed(k) => Kept(k) \/ Settled(k)
  <2> SUFFICES ASSUME IInv, [Next]_ledgerVars, NEW k \in Message, Owed(k)
               PROVE  Kept(k) \/ Settled(k)
    OBVIOUS
  <2>0. /\ TypeOK /\ obligations \in [Message -> Obligation]
        /\ k \in obligations[k].claims
        /\ obligations[k].claims \in SUBSET Message
        /\ obligations[k].next \in Nat
        /\ \A m \in obligations[k].claims : Open(m)
    BY DEF IInv, TypeOK, Obligation, AnswerInv, ObligationSound
  <2>1. CASE UNCHANGED obligations
    BY <2>0, <2>1 DEF Owed
  <2>2. ASSUME NEW j \in Message, NEW claims \in SUBSET Message, NEW n \in 1..MaxChunks,
               Prepare(j, claims, n)
        PROVE  Kept(k)
    BY <2>0, <2>2 DEF Prepare, MayPrepare, Owed
  <2>3. ASSUME NEW j \in Message, BeginAttempt(j) \/ FailAttempt(j) \/ AckChunk(j)
        PROVE  Kept(k)
    <3>1. CASE BeginAttempt(j)
      BY <2>0, <3>1 DEF BeginAttempt, Owed, Obligation
    <3>2. CASE FailAttempt(j)
      BY <2>0, <3>2 DEF FailAttempt, Owed, Obligation
    <3>3. CASE AckChunk(j)
      BY <2>0, <3>3 DEF AckChunk, Owed, Obligation
    <3> QED BY <2>3, <3>1, <3>2, <3>3
  <2>4. ASSUME NEW done \in SUBSET Message, NEW m \in obligations[k].claims, m \in done,
               records' = Marked(done, "delivered")
        PROVE  Settled(k)
    BY <2>0, <2>4, MarkedRecords, "delivered" \in RecordStatus DEF RecordStatus
  <2>5. ASSUME NEW j \in Message, AckLast(j) PROVE Kept(k) \/ Settled(k)
    <3>1. CASE j = k
      BY <2>0, <2>4, <2>5, <3>1 DEF AckLast
    <3>2. CASE j # k
      BY <2>0, <2>5, <3>2 DEF AckLast, Owed
    <3> QED BY <3>1, <3>2
  <2>6. ASSUME NEW claims \in SUBSET Message, Delivered(claims) PROVE Kept(k) \/ Settled(k)
    <3>1. CASE obligations[k].claims \cap claims = {}
      BY <2>0, <2>6, <3>1 DEF Delivered, WithoutAnswersTo, Owed
    <3>2. ASSUME NEW m \in obligations[k].claims \cap claims PROVE Settled(k)
      <4>1. m \in {x \in claims : Open(x)} /\ {x \in claims : Open(x)} \in SUBSET Message
        BY <2>0
      <4> QED BY <2>4, <2>6, <4>1 DEF Delivered
    <3> QED BY <3>1, <3>2
  <2>7. ASSUME NEW s \in Session, NEW x \in Message, DeliveredSession(s, {x})
        PROVE  Kept(k) \/ Settled(k)
    <3> DEFINE done == {y \in InSession(s, {x}) : Open(y)}
    <3>1. CASE obligations[k].claims \cap done = {}
      <4>1. obligations' = WithoutAnswersTo(done)
        BY <2>7 DEF DeliveredSession
      <4>2. obligations'[k] = obligations[k]
        BY <3>1, <4>1 DEF WithoutAnswersTo
      <4> QED BY <2>0, <4>2 DEF Owed
    <3>2. ASSUME NEW m \in obligations[k].claims \cap done PROVE Settled(k)
      <4>1. done \in SUBSET Message
        BY DEF InSession
      <4> QED BY <2>4, <2>7, <4>1 DEF DeliveredSession
    <3> QED BY <3>1, <3>2
  <2>8. ASSUME NEW s \in Session, NEW x \in Message, FailSession(s, {x})
        PROVE  UNCHANGED obligations
    BY <2>8 DEF FailSession, Fail
  <2> QED BY <2>1, <2>2, <2>3, <2>5, <2>6, <2>7, <2>8
          DEF Next, Merges, Claim, Fail, Reopen, ledgerVars
<1>2. IInv /\ [Next]_ledgerVars =>
        \A k \in Message : Owed(k) =>
          \/ /\ Owed(k)'
             /\ obligations'[k].claims = obligations[k].claims
             /\ obligations'[k].chunks = obligations[k].chunks
             /\ obligations'[k].next >= obligations[k].next
          \/ \E m \in obligations[k].claims : records'[m].status = "delivered"
  BY <1>1
<1> QED BY <1>2, Invariance, PTL DEF Spec, AnswerIsKept

-----------------------------------------------------------------------------
(* The refinement.  In every reachable state the checkpoint is the end of  *)
(* the settled prefix, which also says that it cannot move by itself.      *)
LEMMA CheckpointIsPrefixEnd ==
    IInv => \A c \in Channel : Cursor!IsPrefixEnd(checkpoints[c], SettledSequences[c])
<1> SUFFICES ASSUME IInv, NEW c \in Channel
             PROVE  Cursor!IsPrefixEnd(checkpoints[c], SettledSequences[c])
  OBVIOUS
<1>1. /\ sequences[c] \in Nat /\ checkpoints[c] \in Nat /\ checkpoints[c] <= sequences[c]
      /\ SettledSequences[c] = {i \in 1..sequences[c] : SettledAt(c, i)}
  BY DEF IInv, TypeOK, CursorInv, WithinSequence, SettledSequences
<1>2. ASSUME NEW i \in 1..checkpoints[c] PROVE i \in SettledSequences[c]
  <2>1. ASSUME NEW m \in Message, ChannelOf[m] = c, records[m].seq = i
        PROVE  records[m].status = "delivered"
    BY <1>1, <2>1 DEF IInv, CursorInv, CheckpointCovers, AbsentIsBlank
  <2>2. SettledAt(c, i)
    BY <1>1, <2>1 DEF SettledAt, AnsweredAt
  <2> QED BY <1>1, <2>2
<1>3. checkpoints[c] + 1 \notin SettledSequences[c]
  BY <1>1 DEF IInv, CursorInv, CheckpointTight, SettledAt
<1> QED BY <1>2, <1>3 DEF Cursor!IsPrefixEnd

(* Two ends of the settled prefix of one set are the same.                 *)
LEMMA PrefixEndUnique ==
    ASSUME NEW f \in Nat, NEW g \in Nat, NEW S,
           Cursor!IsPrefixEnd(f, S), Cursor!IsPrefixEnd(g, S)
    PROVE  f = g
<1>1. f + 1 \notin 1..g /\ g + 1 \notin 1..f
  BY DEF Cursor!IsPrefixEnd
<1> QED BY <1>1

(* A step that keeps every sequence number, every answer and every absence *)
(* and moves no checkpoint back is a Settle step or a stutter.             *)
LEMMA SettledGrow ==
    ASSUME IInv, IInv', UNCHANGED sequences,
           \A m \in Message :
               /\ records'[m].seq = records[m].seq
               /\ records[m].status = "delivered" => records'[m].status = "delivered",
           \A c \in Channel : checkpoints'[c] >= checkpoints[c]
    PROVE  [Cursor!Next]_(Cursor!cursorVars)
<1>1. \A c \in Channel : /\ sequences[c] \in Nat
                         /\ checkpoints[c] \in Nat /\ checkpoints'[c] \in Nat
                         /\ checkpoints'[c] <= sequences[c]
  BY DEF IInv, TypeOK, CursorInv, WithinSequence
<1>2. \A c \in Channel : SettledSequences[c] \subseteq SettledSequences'[c]
  BY <1>1 DEF SettledSequences, SettledAt, AnsweredAt
<1>3. \A c \in Channel : Cursor!IsPrefixEnd(checkpoints[c], SettledSequences[c])
  BY CheckpointIsPrefixEnd
<1>4. (\A c \in Channel : Cursor!IsPrefixEnd(checkpoints[c], SettledSequences[c]))'
  <2>1. IInv' => (\A c \in Channel : Cursor!IsPrefixEnd(checkpoints[c], SettledSequences[c]))'
    BY CheckpointIsPrefixEnd, PTL
  <2> QED BY <2>1
<1>5. \A c \in Channel : Cursor!IsPrefixEnd(checkpoints'[c], SettledSequences'[c])
  BY <1>4 DEF Cursor!IsPrefixEnd
<1>6. /\ SettledSequences' = [c \in Channel |-> {i \in 1..sequences[c] : SettledAt(c, i)'}]
      /\ SettledSequences = [c \in Channel |-> {i \in 1..sequences[c] : SettledAt(c, i)}]
  BY DEF SettledSequences
<1>7. CASE \A c \in Channel : SettledSequences'[c] = SettledSequences[c]
  <2>1. SettledSequences' = SettledSequences
    BY <1>6, <1>7
  <2>2. \A c \in Channel : checkpoints'[c] = checkpoints[c]
    BY <1>1, <1>3, <1>5, <1>7, PrefixEndUnique
  <2>3. checkpoints' = checkpoints
    BY <2>2 DEF IInv, TypeOK
  <2> QED BY <2>1, <2>3 DEF Cursor!cursorVars
<1>8. CASE \E c \in Channel : SettledSequences'[c] # SettledSequences[c]
  <2>1. SettledSequences' \in [Channel -> SUBSET UNION {1..sequences[c] : c \in Channel}]
    BY <1>6
  <2>2. \A c \in Channel : SettledSequences'[c] \subseteq 1..sequences[c]
    BY <1>6
  <2>3. checkpoints' \in [Channel -> UNION {0..sequences[c] : c \in Channel}]
    BY <1>1 DEF IInv, TypeOK
  <2> QED BY <1>2, <1>5, <1>8, <2>1, <2>2, <2>3 DEF Cursor!Settle, Cursor!Next
<1> QED BY <1>7, <1>8

(* A claim that takes a number is an Issue step, any other a stutter: the  *)
(* evicted records were settled and stay settled.                          *)
LEMMA ClaimIssues ==
    ASSUME IInv, IInv', NEW m \in Message, NEW cursor \in BOOLEAN, Claim(m, cursor)
    PROVE  [Cursor!Next]_(Cursor!cursorVars)
<1> DEFINE assigns == cursor /\ records[m].seq = 0
<1>1. PICK gone \in SUBSET Removable :
        records' = [x \in Message |->
            IF x = m THEN [status |-> "processing",
                           seq |-> IF assigns THEN sequences[ChannelOf[m]] + 1
                                              ELSE records[m].seq]
            ELSE IF x \in gone THEN AbsentRecord ELSE records[x]]
  BY DEF Claim
<1>2. /\ sequences' = [sequences EXCEPT ![ChannelOf[m]] = IF assigns THEN @ + 1 ELSE @]
      /\ checkpoints' = checkpoints
      /\ records[m].status # "delivered"
  BY DEF Claim, MayClaim
<1>3. /\ \A x \in Message : ChannelOf[x] \in Channel /\ records[x].seq \in Nat
      /\ \A c \in Channel : /\ sequences[c] \in Nat /\ checkpoints[c] \in Nat
                            /\ checkpoints[c] <= sequences[c]
      /\ sequences \in [Channel -> Nat]
  BY MappingAssumption DEF IInv, TypeOK, Record, CursorInv, WithinSequence
<1>4. \A x \in gone : /\ Present(x)
                      /\ records[x].seq <= checkpoints[ChannelOf[x]]
  BY DEF Removable
<1>5. \A x \in gone : records[x].seq = 0 \/ records[x].status = "delivered"
  BY <1>3, <1>4 DEF IInv, CursorInv, CheckpointCovers, Removable
<1>6. records[m].seq = 0 \/ records[m].seq > checkpoints[ChannelOf[m]]
  BY <1>2, <1>3 DEF IInv, CursorInv, CheckpointCovers, AbsentIsBlank
<1>7. ASSUME NEW c \in Channel, NEW i \in 1..sequences[c]
      PROVE  SettledAt(c, i)' <=> SettledAt(c, i)
  <2>1. \A x \in Message :
          /\ x = m => /\ records'[x].status = "processing"
                      /\ records'[x].seq = IF assigns THEN sequences[ChannelOf[m]] + 1
                                                      ELSE records[x].seq
          /\ x # m /\ x \in gone => records'[x].status = "absent" /\ records'[x].seq = 0
          /\ x # m /\ x \notin gone => records'[x] = records[x]
    BY <1>1 DEF AbsentRecord
  <2>2. ASSUME SettledAt(c, i) PROVE SettledAt(c, i)'
    <3>1. CASE \E x \in Message : x \in gone /\ ChannelOf[x] = c /\ records[x].seq = i
      <4>1. PICK x \in Message : x \in gone /\ ChannelOf[x] = c /\ records[x].seq = i
        BY <3>1
      <4>2. i <= checkpoints[c] /\ x # m
        BY <4>1, <1>2, <1>4, <1>5, <1>3
      <4>3. \A y \in Message : y # x /\ ChannelOf[y] = c => records[y].seq # i
        BY <4>1 DEF IInv, CursorInv, SequenceUnique
      <4>4. \A y \in Message : ChannelOf[y] = c => records'[y].seq # i
        BY <4>1, <4>2, <4>3, <2>1, <1>3
      <4> QED BY <4>2, <4>4, <1>2 DEF SettledAt
    <3>2. CASE ~ \E x \in Message : x \in gone /\ ChannelOf[x] = c /\ records[x].seq = i
      BY <3>2, <2>1, <2>2, <1>2, <1>3, <1>6 DEF SettledAt, AnsweredAt
    <3> QED BY <3>1, <3>2
  <2>3. ASSUME SettledAt(c, i)' PROVE SettledAt(c, i)
    <3>1. CASE AnsweredAt(records', c, i)
      BY <3>1, <2>1 DEF SettledAt, AnsweredAt
    <3>2. CASE /\ i <= checkpoints[c]
               /\ ~ \E x \in Message : ChannelOf[x] = c /\ records'[x].seq = i
      <4>1. ASSUME NEW x \in Message, ChannelOf[x] = c, records[x].seq = i
            PROVE  x \in gone
        BY <4>1, <3>2, <2>1, <1>3, <1>6
      <4> QED BY <4>1, <3>2, <1>5 DEF SettledAt, AnsweredAt
    <3> QED BY <2>3, <3>1, <3>2, <1>2 DEF SettledAt
  <2> QED BY <2>2, <2>3
<1>8. CASE ~ assigns
  <2>1. sequences' = sequences
    BY <1>2, <1>3, <1>8
  <2>2. SettledSequences' = SettledSequences
    BY <2>1, <1>7 DEF SettledSequences
  <2> QED BY <2>1, <2>2, <1>2 DEF Cursor!cursorVars
<1>9. CASE assigns
  <2> DEFINE c == ChannelOf[m]
  <2>1. sequences' = [sequences EXCEPT ![c] = @ + 1]
    BY <1>2, <1>9
  <2>2. ASSUME NEW i \in Nat, i = sequences[c] + 1 PROVE ~ SettledAt(c, i)'
    <3>1. records'[m].status = "processing" /\ records'[m].seq = i
      BY <2>2, <1>1, <1>9
    <3>2. ~ AnsweredAt(records', c, i)
      <4>1. i # 0
        BY <2>2, <1>3
      <4>2. \A x \in Message : ChannelOf[x] = c /\ records'[x].seq = i => x = m
        BY <4>1, <3>1 DEF IInv, CursorInv, SequenceUnique
      <4> QED BY <4>2, <3>1 DEF AnsweredAt
    <3> QED BY <2>2, <3>1, <3>2, <1>2, <1>3 DEF SettledAt
  <2>3. ASSUME NEW d \in Channel
        PROVE  {i \in 1..sequences'[d] : SettledAt(d, i)'}
                   = {i \in 1..sequences[d] : SettledAt(d, i)}
    <3>1. CASE d # c
      BY <3>1, <2>1, <1>3, <1>7
    <3>2. CASE d = c
      <4>1. sequences'[d] = sequences[d] + 1 /\ sequences[d] \in Nat
        BY <3>2, <2>1, <1>3
      <4>2. \A i \in 1..sequences'[d] :
              IF i \in 1..sequences[d] THEN SettledAt(d, i)' <=> SettledAt(d, i)
                                       ELSE ~ SettledAt(d, i)'
        BY <4>1, <3>2, <2>2, <1>7
      <4>3. 1..sequences[d] \subseteq 1..sequences'[d]
        BY <4>1
      <4> QED BY <4>2, <4>3
    <3> QED BY <3>1, <3>2
  <2>4. SettledSequences' = SettledSequences
    BY <2>3 DEF SettledSequences
  <2> QED BY <2>1, <2>4, <1>2, <1>3 DEF Cursor!Issue, Cursor!Next
<1> QED BY <1>8, <1>9

LEMMA CursorInit == Init => Cursor!Init
<1> SUFFICES ASSUME Init PROVE Cursor!Init
  OBVIOUS
<1>1. \A c \in Channel : SettledSequences[c] = {}
  BY DEF Init, SettledSequences
<1>2. SettledSequences = [c \in Channel |-> {}]
  BY <1>1 DEF SettledSequences
<1> QED BY <1>2 DEF Init, Cursor!Init

LEMMA CursorStep == IInv /\ IInv' /\ [Next]_ledgerVars => [Cursor!Next]_(Cursor!cursorVars)
<1> SUFFICES ASSUME IInv, IInv', [Next]_ledgerVars
             PROVE  [Cursor!Next]_(Cursor!cursorVars)
  OBVIOUS
<1>0. /\ TypeOK
      /\ \A c \in Channel : checkpoints[c] \in Nat
      /\ \A k \in Message : obligations[k].claims \in SUBSET Message
  BY DEF IInv, TypeOK, Obligation
<1>1. ASSUME NEW m \in Message, NEW cursor \in BOOLEAN, Claim(m, cursor)
      PROVE  [Cursor!Next]_(Cursor!cursorVars)
  BY <1>1, ClaimIssues
<1>2. ASSUME UNCHANGED records, UNCHANGED <<sequences, checkpoints>>
      PROVE  [Cursor!Next]_(Cursor!cursorVars)
  BY <1>0, <1>2, SettledGrow
<1>3. ASSUME NEW S \in SUBSET Message, NEW st \in RecordStatus, \A m \in S : Open(m),
             records' = Marked(S, st), UNCHANGED <<sequences, checkpoints>>
      PROVE  [Cursor!Next]_(Cursor!cursorVars)
  <2>1. \A m \in Message :
          /\ records'[m].seq = records[m].seq
          /\ records[m].status = "delivered" => records'[m].status = "delivered"
    BY <1>0, <1>3, MarkedRecords DEF Open
  <2> QED BY <1>0, <1>3, <2>1, SettledGrow
<1>4. ASSUME NEW S \in SUBSET Message, records' = Marked(S, "delivered"),
             Advance(Marked(S, "delivered"), S), UNCHANGED sequences
      PROVE  [Cursor!Next]_(Cursor!cursorVars)
  <2>1. \A m \in Message :
          /\ records'[m].seq = records[m].seq
          /\ records[m].status = "delivered" => records'[m].status = "delivered"
    BY <1>0, <1>4, MarkedRecords, "delivered" \in RecordStatus DEF RecordStatus
  <2>2. \A c \in Channel : checkpoints'[c] >= checkpoints[c]
    BY <1>0, <1>4 DEF Advance, WalkEndsAt
  <2> QED BY <1>4, <2>1, <2>2, SettledGrow
<1>5. ASSUME NEW k \in Message, BeginAttempt(k) PROVE [Cursor!Next]_(Cursor!cursorVars)
  BY <1>0, <1>3, <1>5, "processing" \in RecordStatus DEF BeginAttempt, RecordStatus
<1>6. ASSUME NEW k \in Message, FailAttempt(k) PROVE [Cursor!Next]_(Cursor!cursorVars)
  <2>1. {m \in obligations[k].claims : Open(m)} \in SUBSET Message
    BY <1>0
  <2> QED BY <1>3, <1>6, <2>1, "failed" \in RecordStatus DEF FailAttempt, RecordStatus
<1>7. ASSUME NEW k \in Message, AckLast(k) PROVE [Cursor!Next]_(Cursor!cursorVars)
  BY <1>0, <1>4, <1>7 DEF AckLast
<1>8. ASSUME NEW claims \in SUBSET Message, Fail(claims)
      PROVE  [Cursor!Next]_(Cursor!cursorVars)
  <2>1. {m \in claims : Open(m)} \in SUBSET Message
    OBVIOUS
  <2> QED BY <1>3, <1>8, <2>1, "failed" \in RecordStatus DEF Fail, RecordStatus
<1>9. ASSUME NEW claims \in SUBSET Message, Delivered(claims)
      PROVE  [Cursor!Next]_(Cursor!cursorVars)
  <2>1. {m \in claims : Open(m)} \in SUBSET Message
    OBVIOUS
  <2> QED BY <1>4, <1>9, <2>1 DEF Delivered
<1>10. ASSUME NEW s \in Session, NEW x \in Message, DeliveredSession(s, {x})
       PROVE  [Cursor!Next]_(Cursor!cursorVars)
  <2>1. {m \in InSession(s, {x}) : Open(m)} \in SUBSET Message
    BY DEF InSession
  <2> QED BY <1>4, <1>10, <2>1 DEF DeliveredSession
<1>11. ASSUME NEW s \in Session, NEW x \in Message, FailSession(s, {x})
       PROVE  [Cursor!Next]_(Cursor!cursorVars)
  BY <1>8, <1>11 DEF FailSession, InSession
<1>12. CASE Reopen
  <2>1. {m \in Message : records[m].status = "processing"} \in SUBSET Message
    OBVIOUS
  <2>2. \A m \in {x \in Message : records[x].status = "processing"} : Open(m)
    BY DEF Open
  <2> QED BY <1>3, <1>12, <2>1, <2>2, "interrupted" \in RecordStatus DEF Reopen, RecordStatus
<1> QED BY <1>1, <1>2, <1>5, <1>6, <1>7, <1>8, <1>9, <1>10, <1>11, <1>12
        DEF Next, Merges, Prepare, AckChunk, ledgerVars

(* The ledger implements RecoveryCursor: a platform that resumes from the  *)
(* checkpoint sees every number settled once and for all, and the          *)
(* checkpoint at the end of the settled prefix.                            *)
THEOREM LedgerImplementsCursor == Spec => ImplementsCursor
  BY CursorInit, CursorStep, Invariance, PTL DEF Spec, ImplementsCursor, Cursor!Spec

-----------------------------------------------------------------------------
(* The caps.  Eviction makes exactly the room a new claim needs; everything*)
(* else adds no record, answer or channel, except that an answer is stored *)
(* only below the cap.                                                     *)
Recorded == {m \in Message : Present(m)}
Answers == {k \in Message : Owed(k)}
Started == {c \in Channel : sequences[c] > 0}

LimitInv == /\ IsFiniteSet(Recorded) /\ IsFiniteSet(Answers) /\ IsFiniteSet(Started)
            /\ WithinLimits

LEMMA LimitsShrink ==
    ASSUME LimitInv, Recorded' \subseteq Recorded, Answers' \subseteq Answers,
           Started' \subseteq Started
    PROVE  LimitInv'
<1>1. /\ IsFiniteSet(Recorded') /\ Cardinality(Recorded') <= Cardinality(Recorded)
      /\ IsFiniteSet(Answers') /\ Cardinality(Answers') <= Cardinality(Answers)
      /\ IsFiniteSet(Started') /\ Cardinality(Started') <= Cardinality(Started)
  BY FS_Subset DEF LimitInv
<1>2. /\ Cardinality(Recorded) \in Nat /\ Cardinality(Recorded') \in Nat
      /\ Cardinality(Answers) \in Nat /\ Cardinality(Answers') \in Nat
      /\ Cardinality(Started) \in Nat /\ Cardinality(Started') \in Nat
  BY <1>1, FS_CardinalityType DEF LimitInv
<1>3. /\ Cardinality(Recorded) <= RecordLimit /\ Cardinality(Answers) <= RecordLimit
      /\ Cardinality(Started) <= RecordLimit
  BY DEF LimitInv, WithinLimits, Recorded, Answers, Started
<1>4. /\ Cardinality(Recorded') <= RecordLimit /\ Cardinality(Answers') <= RecordLimit
      /\ Cardinality(Started') <= RecordLimit
  BY <1>1, <1>2, <1>3, LimitAssumption
<1> QED BY <1>1, <1>4 DEF LimitInv, WithinLimits, Recorded, Answers, Started

(* A set that grows by one element from below the cap stays within it.     *)
LEMMA GrowByOne ==
    ASSUME NEW S, IsFiniteSet(S), Cardinality(S) < RecordLimit, NEW x, NEW T \in SUBSET (S \cup {x})
    PROVE  IsFiniteSet(T) /\ Cardinality(T) <= RecordLimit
<1>1. IsFiniteSet(S \cup {x}) /\ Cardinality(S \cup {x}) <= Cardinality(S) + 1
  <2>1. Cardinality(S) \in Nat
    BY FS_CardinalityType
  <2>2. /\ IsFiniteSet(S \cup {x})
        /\ Cardinality(S \cup {x}) = IF x \in S THEN Cardinality(S) ELSE Cardinality(S) + 1
    BY FS_AddElement, Zenon
  <2> QED BY <2>1, <2>2
<1>2. IsFiniteSet(T) /\ Cardinality(T) <= Cardinality(S \cup {x})
  BY <1>1, FS_Subset
<1>3. /\ Cardinality(S) \in Nat /\ Cardinality(T) \in Nat
      /\ Cardinality(S \cup {x}) \in Nat
  BY <1>1, <1>2, FS_CardinalityType
<1> QED BY <1>1, <1>2, <1>3, LimitAssumption

LEMMA ClaimLimits ==
    ASSUME IInv, LimitInv, NEW m \in Message, NEW cursor \in BOOLEAN, Claim(m, cursor)
    PROVE  LimitInv'
<1> DEFINE c == ChannelOf[m]
           assigns == cursor /\ records[m].seq = 0
<1>1. PICK gone \in SUBSET Removable :
        /\ Cardinality(gone) = Overflow(m)
        /\ records' = [x \in Message |->
              IF x = m THEN [status |-> "processing",
                             seq |-> IF assigns THEN sequences[c] + 1 ELSE records[m].seq]
              ELSE IF x \in gone THEN AbsentRecord ELSE records[x]]
  BY DEF Claim
<1>2. Cardinality(Recorded) \in Nat /\ Cardinality(Recorded) <= RecordLimit
  BY FS_CardinalityType DEF LimitInv, WithinLimits, Recorded
<1>3. gone \subseteq Recorded /\ IsFiniteSet(gone)
  BY FS_Subset DEF Removable, Recorded, LimitInv
<1>4. Recorded' \subseteq (Recorded \ gone) \cup {m}
  BY <1>1 DEF Recorded, Present, AbsentRecord
<1>5. IsFiniteSet(Recorded') /\ Cardinality(Recorded') <= RecordLimit
  <2>1. CASE Present(m)
    <3>1. Recorded' \subseteq Recorded
      BY <2>1, <1>4 DEF Recorded
    <3>2. IsFiniteSet(Recorded') /\ Cardinality(Recorded') <= Cardinality(Recorded)
      BY <3>1, FS_Subset DEF LimitInv
    <3> QED BY <3>2, <1>2, FS_CardinalityType, LimitAssumption
  <2>2. CASE ~ Present(m) /\ Cardinality(Recorded) < RecordLimit
    BY <2>2, <1>4, GrowByOne DEF LimitInv
  <2>3. CASE ~ Present(m) /\ ~ Cardinality(Recorded) < RecordLimit
    <3>1. Cardinality(Recorded) = RecordLimit
      BY <2>3, <1>2, LimitAssumption
    <3>2. Cardinality(gone) = 1
      BY <2>3, <3>1, <1>1, LimitAssumption DEF Overflow, Recorded
    <3>3. PICK x : gone = {x}
      BY <3>2, <1>3, FS_Singleton
    <3>4. /\ IsFiniteSet(Recorded \ {x})
          /\ Cardinality(Recorded \ {x}) = Cardinality(Recorded) - 1
      BY <3>3, <1>3, FS_RemoveElement DEF LimitInv
    <3>5. Cardinality(Recorded \ {x}) < RecordLimit
      BY <3>1, <3>4, LimitAssumption
    <3> QED BY <3>3, <3>4, <3>5, <1>4, GrowByOne
  <2> QED BY <2>1, <2>2, <2>3
<1>6. Answers' = Answers
  BY DEF Claim, Answers, Owed
<1>7. IsFiniteSet(Started') /\ Cardinality(Started') <= RecordLimit
  <2>1. /\ sequences' = [sequences EXCEPT ![c] = IF assigns THEN @ + 1 ELSE @]
        /\ assigns => ChannelHasRoom(c)
        /\ c \in Channel /\ \A d \in Channel : sequences[d] \in Nat
    BY MappingAssumption DEF Claim, IInv, TypeOK
  <2>2. Started' \subseteq Started \cup {c}
    BY <2>1 DEF Started, IInv, TypeOK
  <2>3. CASE assigns /\ sequences[c] = 0
    <3>1. Cardinality(Started) < RecordLimit
      BY <2>1, <2>3 DEF ChannelHasRoom, Started
    <3> QED BY <3>1, <2>2, GrowByOne DEF LimitInv
  <2>4. CASE ~ (assigns /\ sequences[c] = 0)
    <3>1. Started' \subseteq Started
      BY <2>1, <2>2, <2>4 DEF Started, IInv, TypeOK
    <3>2. IsFiniteSet(Started') /\ Cardinality(Started') <= Cardinality(Started)
      BY <3>1, FS_Subset DEF LimitInv
    <3>3. Cardinality(Started) <= RecordLimit
      BY DEF LimitInv, WithinLimits, Started
    <3> QED BY <3>2, <3>3, FS_CardinalityType, LimitAssumption DEF LimitInv
  <2> QED BY <2>3, <2>4
<1> QED BY <1>5, <1>6, <1>7 DEF LimitInv, WithinLimits, Recorded, Answers, Started

LEMMA LimitStep == IInv /\ LimitInv /\ [Next]_ledgerVars => LimitInv'
<1> SUFFICES ASSUME IInv, LimitInv, [Next]_ledgerVars PROVE LimitInv'
  OBVIOUS
<1>0. /\ TypeOK
      /\ \A k \in Message : obligations[k].claims \in SUBSET Message
  BY DEF IInv, TypeOK, Obligation
<1>1. ASSUME NEW S \in SUBSET Message, NEW st \in RecordStatus, \A m \in S : Present(m),
             records' = Marked(S, st), Answers' \subseteq Answers, UNCHANGED sequences
      PROVE  LimitInv'
  <2>1. Recorded' \subseteq Recorded
    BY <1>0, <1>1, MarkedRecords DEF Recorded, Present
  <2>2. Started' \subseteq Started
    BY <1>1 DEF Started
  <2> QED BY <1>1, <2>1, <2>2, LimitsShrink
<1>2. \A m \in Message : Open(m) => Present(m)
  BY DEF Open, Present
<1>3. ASSUME NEW m \in Message, NEW cursor \in BOOLEAN, Claim(m, cursor) PROVE LimitInv'
  BY <1>3, ClaimLimits
<1>4. ASSUME NEW k \in Message, NEW claims \in Merges, NEW n \in 1..MaxChunks,
             Prepare(k, claims, n)
      PROVE  LimitInv'
  <2>1. Answers' \subseteq Answers \cup {k} /\ Cardinality(Answers) < RecordLimit
    BY <1>0, <1>4 DEF Prepare, MayPrepare, Answers, Owed, TypeOK
  <2>2. IsFiniteSet(Answers') /\ Cardinality(Answers') <= RecordLimit
    BY <2>1, GrowByOne DEF LimitInv
  <2>3. Recorded' = Recorded /\ Started' = Started
    BY <1>4 DEF Prepare, Recorded, Started, Present
  <2> QED BY <2>2, <2>3 DEF LimitInv, WithinLimits, Recorded, Answers, Started
<1>5. ASSUME NEW k \in Message, BeginAttempt(k) PROVE LimitInv'
  <2>1. Answers' \subseteq Answers
    BY <1>0, <1>5 DEF BeginAttempt, Answers, Owed, TypeOK
  <2> QED BY <1>0, <1>1, <1>2, <1>5, <2>1 DEF BeginAttempt, RecordStatus
<1>6. ASSUME NEW k \in Message, FailAttempt(k) PROVE LimitInv'
  <2>1. Answers' \subseteq Answers
    BY <1>0, <1>6 DEF FailAttempt, Answers, Owed, TypeOK
  <2>2. {m \in obligations[k].claims : Open(m)} \in SUBSET Message
    BY <1>0
  <2> QED BY <1>1, <1>2, <1>6, <2>1, <2>2 DEF FailAttempt, RecordStatus
<1>7. ASSUME NEW k \in Message, AckChunk(k) PROVE LimitInv'
  <2>1. Answers' \subseteq Answers
    BY <1>0, <1>7 DEF AckChunk, Answers, Owed, TypeOK
  <2> QED BY <1>7, <2>1, LimitsShrink DEF AckChunk, Recorded, Started, Present
<1>8. ASSUME NEW k \in Message, AckLast(k) PROVE LimitInv'
  <2>1. Answers' \subseteq Answers
    BY <1>0, <1>8 DEF AckLast, Answers, Owed, NoObligation, TypeOK
  <2> QED BY <1>0, <1>1, <1>8, <2>1 DEF AckLast, RecordStatus
<1>9. ASSUME NEW claims \in SUBSET Message, Fail(claims) PROVE LimitInv'
  <2>1. Answers' \subseteq Answers
    BY <1>9 DEF Fail, Answers, Owed
  <2>2. {m \in claims : Open(m)} \in SUBSET Message
    OBVIOUS
  <2> QED BY <1>1, <1>2, <1>9, <2>1, <2>2 DEF Fail, RecordStatus
<1>10. ASSUME NEW claims \in SUBSET Message, Delivered(claims) PROVE LimitInv'
  <2>1. Answers' \subseteq Answers
    BY <1>10 DEF Delivered, WithoutAnswersTo, Answers, Owed, NoObligation
  <2>2. {m \in claims : Open(m)} \in SUBSET Message
    OBVIOUS
  <2> QED BY <1>1, <1>2, <1>10, <2>1, <2>2 DEF Delivered, RecordStatus
<1>11. ASSUME NEW s \in Session, NEW x \in Message, DeliveredSession(s, {x}) PROVE LimitInv'
  <2>1. Answers' \subseteq Answers
    BY <1>11 DEF DeliveredSession, WithoutAnswersTo, Answers, Owed, NoObligation
  <2>2. {m \in InSession(s, {x}) : Open(m)} \in SUBSET Message
    BY DEF InSession
  <2> QED BY <1>1, <1>2, <1>11, <2>1, <2>2 DEF DeliveredSession, RecordStatus
<1>12. ASSUME NEW s \in Session, NEW x \in Message, FailSession(s, {x}) PROVE LimitInv'
  BY <1>9, <1>12 DEF FailSession, InSession
<1>13. CASE Reopen
  <2>1. Answers' \subseteq Answers
    BY <1>13 DEF Reopen, Answers, Owed
  <2>2. {m \in Message : records[m].status = "processing"} \in SUBSET Message
    OBVIOUS
  <2>3. \A m \in {x \in Message : records[x].status = "processing"} : Present(m)
    BY DEF Present
  <2> QED BY <1>1, <1>13, <2>1, <2>2, <2>3 DEF Reopen, RecordStatus
<1>14. CASE UNCHANGED ledgerVars
  BY <1>14, LimitsShrink DEF ledgerVars, Recorded, Answers, Started, Present, Owed
<1> QED BY <1>3, <1>4, <1>5, <1>6, <1>7, <1>8, <1>9, <1>10, <1>11, <1>12, <1>13, <1>14
        DEF Next, Merges

(* openDeliveryLedger never refuses a file that the ledger itself wrote.   *)
THEOREM LedgerAlwaysReopens == Spec => []LedgerReopens
<1>1. Init => LimitInv
  <2> SUFFICES ASSUME Init PROVE LimitInv
    OBVIOUS
  <2>1. Recorded = {} /\ Answers = {} /\ Started = {}
    BY DEF Init, Recorded, Answers, Started, Present, Owed, AbsentRecord, NoObligation
  <2>2. Cardinality({}) <= RecordLimit /\ IsFiniteSet({})
    BY FS_EmptySet, LimitAssumption
  <2> QED BY <2>1, <2>2 DEF LimitInv, WithinLimits, Recorded, Answers, Started
<1>2. IInv /\ LimitInv => LedgerReopens
  BY DEF IInv, LimitInv, CursorInv, AnswerInv, LedgerReopens
<1> QED BY <1>1, <1>2, InitialState, InvariantStep, LimitStep, PTL DEF Spec
=============================================================================
