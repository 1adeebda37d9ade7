--------------------------- MODULE DeliveryLedger ---------------------------
(***************************************************************************)
(* The durable delivery ledger of the bot gateway                          *)
(* (src/internal/bot/recovery.go).  It remembers which inbound messages    *)
(* were claimed and answered, the final answers still owed to a platform   *)
(* (outbound obligations), and per channel the checkpoint from which an    *)
(* adapter replays missed messages.                                        *)
(*                                                                         *)
(* Every method takes the ledger mutex, changes a clone, replaces the file *)
(* atomically and only then publishes the clone, so one method is one      *)
(* step and memory always equals the file: a failed write is no step here. *)
(* Texts, digests, attempt counters and timestamps are abstracted; a       *)
(* record is keyed by its message, an obligation by its primary message.   *)
(* BotDelivery composes these operations into the gateway's handlers; this *)
(* module lets any caller use them in any order.                           *)
(***************************************************************************)
EXTENDS Naturals, FiniteSets

CONSTANTS
    Message,            \* durable inbound identities (source, message_id)
    Channel,            \* remote delivery streams owning a recovery cursor
    Session,            \* agent sessions
    ChannelOf,          \* recoveryChannelKey of a message's source
    SessionOf,          \* BuildSessionKey of a message's source
    RecordLimit,        \* cap on records, channels and obligations
    MaxChunks,          \* cap on the chunks of one answer
    MaxSequence         \* bound on the sequences a channel hands out

ASSUME MappingAssumption == /\ ChannelOf \in [Message -> Channel]
                            /\ SessionOf \in [Message -> Session]
ASSUME LimitAssumption == /\ RecordLimit \in Nat \ {0}
                          /\ MaxChunks \in Nat \ {0}
                          /\ MaxSequence \in Nat

VARIABLES
    records,            \* records[m]: status and sequence (0: no cursor)
    sequences,          \* sequences[c]: last sequence handed out (0: none)
    checkpoints,        \* checkpoints[c]: last contiguous settled sequence
    obligations         \* obligations[k]: the answer owed to primary k

ledgerVars == <<records, sequences, checkpoints, obligations>>

RecordStatus == {"absent", "processing", "interrupted", "failed", "delivered"}
ObligationStatus == {"none", "pending", "attempting", "failed"}

Record == [status : RecordStatus, seq : Nat]
Obligation == [status : ObligationStatus, claims : SUBSET Message,
               chunks : 0..MaxChunks, next : 0..MaxChunks, attempts : 0..1]

AbsentRecord == [status |-> "absent", seq |-> 0]
NoObligation == [status |-> "none", claims |-> {}, chunks |-> 0, next |-> 0,
                 attempts |-> 0]

-----------------------------------------------------------------------------
Present(m) == records[m].status # "absent"
Open(m) == records[m].status \notin {"absent", "delivered"}
Owed(k) == obligations[k].status # "none"
(* findOutboundObligationForClaim: some stored answer covers message m.    *)
Owned(m) == \E k \in Message : Owed(k) /\ m \in obligations[k].claims

(* The record at sequence i of channel c is present and answered in recs.  *)
AnsweredAt(recs, c, i) ==
    \E m \in Message : /\ ChannelOf[m] = c
                       /\ recs[m].seq = i
                       /\ recs[m].status = "delivered"

(* advanceRecoveryCheckpoint walks from the checkpoint over answered       *)
(* records and stops at the first sequence that is not: the walk ends at n.*)
WalkEndsAt(recs, c, n) ==
    /\ n >= checkpoints[c]
    /\ \A i \in (checkpoints[c] + 1)..n : AnsweredAt(recs, c, i)
    /\ ~ AnsweredAt(recs, c, n + 1)

(* A bug to catch: the checkpoint jumps to the newest sequence.             *)
AdvanceToNewest(recs, done) ==
    checkpoints' = [c \in Channel |-> IF \E m \in done : ChannelOf[m] = c /\ recs[m].seq > 0
                                      THEN sequences[c] ELSE checkpoints[c]]

(* The checkpoints after walking the channels of the cursor-bearing        *)
(* messages in done; the walk is deterministic, \in only finds its end.    *)
Advance(recs, done) ==
    LET walked == {ChannelOf[m] : m \in {x \in done : recs[x].seq > 0}} IN
    /\ checkpoints' \in [Channel -> UNION {0..sequences[c] : c \in Channel}]
    /\ \A c \in Channel : IF c \in walked
                          THEN WalkEndsAt(recs, c, checkpoints'[c])
                          ELSE checkpoints'[c] = checkpoints[c]

Marked(done, status) ==
    [m \in Message |-> IF m \in done THEN [records[m] EXCEPT !.status = status]
                                     ELSE records[m]]

(* A bug to catch: a settled claim leaves its stored answer behind.        *)
(* Removing every answer that covers one of the messages in done.          *)
WithoutAnswersTo(done) ==
    [k \in Message |-> IF obligations[k].claims \cap done # {}
                       THEN NoObligation ELSE obligations[k]]

(* A bug to catch: eviction looks at the status and not at the checkpoint. *)
RemovableAnswered == {m \in Message : records[m].status = "delivered"}

(* pruneDeliveryRecords: what a full ledger may forget - not a running     *)
(* turn, not a claim of a stored answer, nothing above its checkpoint.     *)
Removable ==
    {m \in Message : /\ Present(m)
                     /\ records[m].status # "processing"
                     /\ ~ Owned(m)
                     /\ records[m].seq <= checkpoints[ChannelOf[m]]}

(* How many records a claim of m must evict: a new key needs a free slot.  *)
Overflow(m) == LET used == Cardinality({x \in Message : Present(x)}) IN
               IF Present(m) \/ used < RecordLimit THEN 0
               ELSE used - (RecordLimit - 1)

ChannelHasRoom(c) ==
    \/ sequences[c] > 0
    \/ Cardinality({d \in Channel : sequences[d] > 0}) < RecordLimit

-----------------------------------------------------------------------------
Init == /\ records = [m \in Message |-> AbsentRecord]
        /\ sequences = [c \in Channel |-> 0]
        /\ checkpoints = [c \in Channel |-> 0]
        /\ obligations = [k \in Message |-> NoObligation]

(* What makes a claim a duplicate: the message has a stored answer, was    *)
(* answered, or is being worked on.                                        *)
(* Two bugs to catch: only running and owned messages are duplicates, or   *)
(* stored answers are not looked at.                                       *)
MayClaimAnswered(m) == ~ Owned(m) /\ records[m].status # "processing"
MayClaimOwned(m) == records[m].status \notin {"delivered", "processing"}

MayClaim(m) == ~ Owned(m) /\ records[m].status \notin {"delivered", "processing"}

(* claim takes responsibility for m, once; cursor says whether the adapter *)
(* supplied a recovery cursor.  Which removable records are the oldest is  *)
(* abstracted to any choice of the right number.                           *)
Claim(m, cursor) ==
    LET c == ChannelOf[m]
        assigns == cursor /\ records[m].seq = 0
    IN  /\ MayClaim(m)
        /\ assigns => ChannelHasRoom(c) /\ sequences[c] < MaxSequence
        /\ sequences' = [sequences EXCEPT ![c] = IF assigns THEN @ + 1 ELSE @]
        /\ \E gone \in SUBSET Removable :
             /\ Cardinality(gone) = Overflow(m)
             /\ records' = [x \in Message |->
                  IF x = m THEN [status |-> "processing",
                                 seq |-> IF assigns THEN sequences[c] + 1
                                                    ELSE records[m].seq]
                  ELSE IF x \in gone THEN AbsentRecord ELSE records[x]]
        /\ UNCHANGED <<checkpoints, obligations>>

(* A bug to catch: only the primary is checked for another stored answer.  *)
MayPrepareShared(k, claims) ==
    /\ k \in claims /\ ~ Owned(k)
    /\ Cardinality({x \in Message : Owed(x)}) < RecordLimit
    /\ \A m \in claims : Open(m)

(* prepareOutboundObligation stores an answer of n chunks to the primary k *)
(* and the claims merged into it, before anything is sent.                 *)
MayPrepare(k, claims) ==
    /\ k \in claims
    /\ ~ Owed(k)
    /\ Cardinality({x \in Message : Owed(x)}) < RecordLimit
    /\ \A m \in claims : Open(m) /\ ~ Owned(m)

Prepare(k, claims, n) ==
    /\ MayPrepare(k, claims)
    /\ obligations' = [obligations EXCEPT ![k] =
           [status |-> "pending", claims |-> claims, chunks |-> n, next |-> 0,
            attempts |-> 0]]
    /\ UNCHANGED <<records, sequences, checkpoints>>

(* beginOutboundAttempt makes the attempt durable before the platform call.*)
BeginAttempt(k) ==
    /\ Owed(k)
    /\ \A m \in obligations[k].claims : Open(m)
    /\ obligations' = [obligations EXCEPT ![k] =
           [@ EXCEPT !.status = "attempting", !.attempts = 1]]
    /\ records' = Marked(obligations[k].claims, "processing")
    /\ UNCHANGED <<sequences, checkpoints>>

(* A bug to catch: a failed attempt starts the answer over.                *)
FailAttemptRewinds(k) ==
    /\ Owed(k) /\ obligations[k].attempts > 0
    /\ obligations' = [obligations EXCEPT ![k].status = "failed", ![k].next = 0]
    /\ records' = Marked({m \in obligations[k].claims : Open(m)}, "failed")
    /\ UNCHANGED <<sequences, checkpoints>>

(* failOutboundAttempt: the platform did not confirm.                      *)
FailAttempt(k) ==
    /\ Owed(k)
    /\ obligations[k].attempts > 0
    /\ obligations' = [obligations EXCEPT ![k].status = "failed"]
    /\ records' = Marked({m \in obligations[k].claims : Open(m)}, "failed")
    /\ UNCHANGED <<sequences, checkpoints>>

(* A bug to catch: every chunk counts as the last.                         *)
NoChunkRemains(k) == FALSE

MoreChunks(k) == obligations[k].next + 1 < obligations[k].chunks

(* acknowledgeOutboundChunk, one of several chunks: progress is durable.   *)
AckChunk(k) ==
    /\ obligations[k].status = "attempting"
    /\ MoreChunks(k)
    /\ obligations' = [obligations EXCEPT ![k].status = "pending", ![k].next = @ + 1]
    /\ UNCHANGED <<records, sequences, checkpoints>>

(* acknowledgeOutboundChunk, the last chunk: the answer is removed, all    *)
(* its claims are settled and their channels advance in one write.         *)
AckLast(k) ==
    LET done == obligations[k].claims IN
    /\ obligations[k].status = "attempting"
    /\ ~ MoreChunks(k)
    /\ \A m \in done : Present(m)
    /\ records' = Marked(done, "delivered")
    /\ obligations' = [obligations EXCEPT ![k] = NoObligation]
    /\ Advance(Marked(done, "delivered"), done)
    /\ UNCHANGED sequences

(* fail and failSession mark unanswered claims retryable.                  *)
Fail(claims) ==
    /\ records' = Marked({m \in claims : Open(m)}, "failed")
    /\ UNCHANGED <<sequences, checkpoints, obligations>>

(* delivered settles claims answered without a stored obligation (command  *)
(* replies, cancellations) and drops any answer that was still owed.       *)
Delivered(claims) ==
    LET done == {m \in claims : Open(m)} IN
    /\ \A m \in claims : Present(m)
    /\ done # {}
    /\ records' = Marked(done, "delivered")
    /\ obligations' = WithoutAnswersTo(claims)
    /\ Advance(Marked(done, "delivered"), done)
    /\ UNCHANGED sequences

InSession(s, excluded) == {m \in Message : SessionOf[m] = s /\ m \notin excluded}

(* deliveredSession and failSession: what /stop, /new and /reset settle,   *)
(* the command itself excluded.                                            *)
DeliveredSession(s, excluded) ==
    LET done == {m \in InSession(s, excluded) : Open(m)} IN
    /\ done # {}
    /\ records' = Marked(done, "delivered")
    /\ obligations' = WithoutAnswersTo(done)
    /\ Advance(Marked(done, "delivered"), done)
    /\ UNCHANGED sequences

FailSession(s, excluded) == Fail(InSession(s, excluded))

(* openDeliveryLedger after a crash or a shutdown.                         *)
Reopen ==
    /\ records' = Marked({m \in Message : records[m].status = "processing"},
                         "interrupted")
    /\ UNCHANGED <<sequences, checkpoints, obligations>>

Merges == {claims \in SUBSET Message : \A a, b \in claims : SessionOf[a] = SessionOf[b]}

Next ==
    \/ \E m \in Message, cursor \in BOOLEAN : Claim(m, cursor)
    \/ \E k \in Message, claims \in Merges, n \in 1..MaxChunks : Prepare(k, claims, n)
    \/ \E k \in Message : BeginAttempt(k) \/ FailAttempt(k) \/ AckChunk(k) \/ AckLast(k)
    \/ \E claims \in Merges : Fail(claims) \/ Delivered(claims)
    \/ \E s \in Session, x \in Message :
         DeliveredSession(s, {x}) \/ FailSession(s, {x})
    \/ Reopen

Spec == Init /\ [][Next]_ledgerVars

-----------------------------------------------------------------------------
(* Every variable stays within the shape the ledger file encodes.          *)
TypeOK == /\ records \in [Message -> Record]
          /\ sequences \in [Channel -> Nat]
          /\ checkpoints \in [Channel -> Nat]
          /\ obligations \in [Message -> Obligation]

(* One message per sequence: two claims of a channel never share a number. *)
SequenceUnique ==
    \A a, b \in Message :
        (a # b /\ ChannelOf[a] = ChannelOf[b] /\ records[a].seq = records[b].seq)
            => records[a].seq = 0

(* No record or checkpoint runs ahead of its channel's counter.            *)
WithinSequence ==
    /\ \A m \in Message : records[m].seq <= sequences[ChannelOf[m]]
    /\ \A c \in Channel : checkpoints[c] <= sequences[c]

AbsentIsBlank == \A m \in Message : ~ Present(m) => records[m].seq = 0

(* A stored answer refers to unanswered claims of its own, has a chunk     *)
(* left to send, and was attempted if its status says so.                  *)
ObligationSound ==
    \A k \in Message : Owed(k) =>
        /\ k \in obligations[k].claims
        /\ obligations[k].next < obligations[k].chunks
        /\ obligations[k].status # "pending" => obligations[k].attempts > 0
        /\ \A m \in obligations[k].claims : Open(m)

BlankObligation == \A k \in Message : ~ Owed(k) => obligations[k].claims = {}

SingleOwner ==
    \A j, k \in Message : j # k => obligations[j].claims \cap obligations[k].claims = {}

WithinLimits ==
    /\ Cardinality({m \in Message : Present(m)}) <= RecordLimit
    /\ Cardinality({k \in Message : Owed(k)}) <= RecordLimit
    /\ Cardinality({c \in Channel : sequences[c] > 0}) <= RecordLimit

(* What openDeliveryLedger demands of the file (validateDeliveryLedgerState):*)
(* a ledger that no longer validates can never be opened again, and the    *)
(* gateway would not start.  claim, fail, delivered, deliveredSession and  *)
(* failSession write without validating.                                   *)
LedgerReopens == /\ SequenceUnique /\ WithinSequence
                 /\ ObligationSound /\ SingleOwner /\ WithinLimits

(* Nothing at or below a checkpoint is still owed an answer: resuming from *)
(* the checkpoint skips no unanswered message.                             *)
CheckpointCovers ==
    \A m \in Message : Present(m) /\ records[m].seq \in 1..checkpoints[ChannelOf[m]]
        => records[m].status = "delivered"

(* Above the checkpoint every sequence still has its record, so the walk   *)
(* of advanceRecoveryCheckpoint can never be blocked by a forgotten one.   *)
NoHole ==
    \A c \in Channel : \A i \in (checkpoints[c] + 1)..sequences[c] :
        \E m \in Message : ChannelOf[m] = c /\ records[m].seq = i

(* The checkpoint never waits at an answered message.                      *)
CheckpointTight == \A c \in Channel : ~ AnsweredAt(records, c, checkpoints[c] + 1)

(* The checkpoint is exactly the end of the answered prefix.               *)
CheckpointExact == CheckpointCovers /\ NoHole /\ CheckpointTight

(* An answered message stays answered until it is forgotten, and that only *)
(* when no replay from the checkpoint reaches it: its sequence is covered, *)
(* or it never had one.                                                    *)
AnsweredIsFinal ==
    [][\A m \in Message : records[m].status = "delivered" =>
          \/ records'[m] = records[m]
          \/ /\ records'[m].status = "absent"
             /\ records[m].seq <= checkpoints[ChannelOf[m]]]_ledgerVars

(* A stored answer survives, with its progress, until one of its claims is *)
(* settled; no step rewinds it to an acknowledged chunk or replaces it.    *)
AnswerIsKept ==
    [][\A k \in Message : Owed(k) =>
          \/ /\ Owed(k)'
             /\ obligations'[k].claims = obligations[k].claims
             /\ obligations'[k].chunks = obligations[k].chunks
             /\ obligations'[k].next >= obligations[k].next
          \/ \E m \in obligations[k].claims : records'[m].status = "delivered"]_ledgerVars

(* A channel's sequence i was settled: its record says so, or was forgotten*)
(* below the checkpoint.                                                   *)
SettledAt(c, i) ==
    \/ AnsweredAt(records, c, i)
    \/ /\ i <= checkpoints[c]
       /\ ~ \E m \in Message : ChannelOf[m] = c /\ records[m].seq = i

SettledSequences == [c \in Channel |-> {i \in 1..sequences[c] : SettledAt(c, i)}]

(* The ledger implements RecoveryCursor: whatever the handlers, evictions  *)
(* and restarts do, a number handed out is settled once and for all, and   *)
(* the checkpoint is always the end of the settled prefix.                 *)
Cursor == INSTANCE RecoveryCursor WITH
              issued <- sequences, settled <- SettledSequences, frontier <- checkpoints
ImplementsCursor == Cursor!Spec
=============================================================================
