-------------------------- MODULE BotDeliveryProofs --------------------------
(***************************************************************************)
(* Proofs about BotDelivery, for any messages, queue policies, chunk       *)
(* counts, turn slots and numbers of faults and runs.                      *)
(*                                                                         *)
(* The gateway uses the ledger only through its operations, so that what   *)
(* DeliveryLedgerProofs shows of the ledger holds below the gateway.  On   *)
(* that rests what concerns the user: a sender that has begun an attempt   *)
(* is at the chunk the ledger has next, everything before it is on the     *)
(* screen, and a stored answer goes away only together with its message -  *)
(* which needs, when claims are merged, that a claim is in one place of    *)
(* the gateway at a time.                                                  *)
(*                                                                         *)
(* The end of the module is about the other side of the same promise: the  *)
(* Telegram adapter (TelegramPolling) lets the server forget an update     *)
(* only when the gateway has answered it.                                  *)
(***************************************************************************)
EXTENDS BotDelivery, TelegramPolling, FiniteSetTheorems, SequenceTheorems, WellFoundedInduction, TLAPS

LP == INSTANCE DeliveryLedgerProofs WITH
         Channel <- {"channel"}, Session <- {"session"},
         ChannelOf <- [m \in Message |-> "channel"],
         SessionOf <- [m \in Message |-> "session"],
         RecordLimit <- Cardinality(Message) + 1, MaxSequence <- Cardinality(Message)

-----------------------------------------------------------------------------
(* The shape of the gateway's own state.  The dispatch loop has a message  *)
(* while it routes one; a turn, and an entry of the queue, have a task     *)
(* among their claims.                                                     *)
TurnPC == {"idle", "setup", "running", "answered", "erred", "sending", "ending", "releasing"}
TurnSet == {x \in [pc : TurnPC, msg : Message \cup {NoMessage}, claims : SUBSET Message,
                   run : Nat, canceled : BOOLEAN] :
              x.pc # "idle" => x.msg \in Message /\ kind[x.msg] = "task" /\ x.msg \in x.claims}
SenderPC == {"idle", "read", "begin", "post", "fail", "ack"}
SenderSet == [pc : SenderPC, by : {"none", "dispatch", "turn", "start"},
              turn : Turn \cup {NoTurn}, marked : BOOLEAN, chunk : Nat, claims : SUBSET Message]
DispPC == {"idle", "route", "settle", "replace", "stopped", "sending"}
DispSet == {d \in [pc : DispPC, msg : Message \cup {NoMessage},
                   settle : SUBSET SUBSET Message, ok : BOOLEAN] :
              /\ d.pc \notin {"idle", "sending"} => d.msg \in Message
              /\ d.pc = "stopped" => kind[d.msg] = "stop"
              /\ d.pc = "replace" => kind[d.msg] = "task" /\ policy.mode = "interrupt"}
Entry == {e \in [msg : Message, claims : SUBSET Message] :
              kind[e.msg] = "task" /\ e.msg \in e.claims}
InboundSet == [msg : Message \cup {NoMessage}, claims : SUBSET Message]

ChatType == /\ inbox \in SUBSET Message
            /\ run \in [Message -> Nat] /\ answerRun \in [Message -> Nat]
            /\ faults \in 0..MaxFaults /\ writeFailed \in BOOLEAN
            /\ phase \in {"down", "recovering", "up"} /\ recover \in SUBSET Message
FixedType == kind \in Kinds /\ policy \in Policies
SessionType == /\ active \in BOOLEAN
               /\ pending \in Seq(Entry) /\ Len(pending) <= policy.cap
               /\ cancelOf \in Turn \cup {NoTurn} /\ ctrl \in Turn \cup {NoTurn}
               /\ activeInbound \in InboundSet
TurnsType == turns \in [Turn -> TurnSet]
SendersType == sender \in [Message -> SenderSet]
DispType == disp \in DispSet

(* The turn that a sender reports to waits for it.                         *)
Reported == \A k \in Message : sender[k].pc # "idle" /\ sender[k].by = "turn" =>
               /\ sender[k].turn \in Turn
               /\ turns[sender[k].turn].pc = "sending" /\ turns[sender[k].turn].msg = k

TypeInv == /\ ChatType /\ FixedType /\ SessionType /\ TurnsType /\ SendersType /\ DispType
           /\ Reported

-----------------------------------------------------------------------------
(* What has reached the screen of an answer, against what the ledger and   *)
(* the sender say of it.                                                   *)
Post == [chunk : Nat, run : Nat, marked : BOOLEAN]
Posting(k) == sender[k].pc \in {"post", "fail", "ack"}
ProgressOf(k) ==
    /\ L!Owed(k) => /\ obligations[k].chunks = ChunksOf[k]
                    /\ \A c \in Nat : c < obligations[k].next => c \in Shown(k)
    /\ Shown(k) \subseteq 0..(ChunksOf[k] - 1)
    /\ Posting(k) => /\ sender[k].chunk < ChunksOf[k]
                     /\ obligations[k].status = "attempting" => sender[k].chunk = obligations[k].next
    /\ sender[k].pc = "ack" => sender[k].chunk \in Shown(k)
Progress == screen \in [Message -> Seq(Post)] /\ \A k \in Message : ProgressOf(k)

-----------------------------------------------------------------------------
(* Merged claims.                                                          *)
Live(t) == turns[t].pc \in {"setup", "running", "answered", "erred"}
DispHolds(m) == disp.pc \in {"route", "settle"} /\ disp.msg = m
TurnHolds(t, m) == Live(t) /\ m \in turns[t].claims
QueueHolds(i, m) == m \in pending[i].claims
Held(m) == \/ DispHolds(m) \/ (\E t \in Turn : TurnHolds(t, m))
           \/ (\E i \in DOMAIN pending : QueueHolds(i, m))

(* While nothing is canceled a claim without an outcome is in one place -  *)
(* the dispatch loop, a turn or an entry of the queue -, it is being worked*)
(* on according to the ledger, so that a duplicate is not claimed, and no  *)
(* stored answer covers it.                                                *)
Undisturbed == policy.mode # "interrupt" /\ ~ Stoppable
HeldOnce ==
    \A m \in Message :
      /\ DispHolds(m) => /\ \A t \in Turn : ~ TurnHolds(t, m)
                         /\ \A i \in DOMAIN pending : ~ QueueHolds(i, m)
      /\ \A t \in Turn : TurnHolds(t, m) =>
            /\ \A u \in Turn : TurnHolds(u, m) => u = t
            /\ \A i \in DOMAIN pending : ~ QueueHolds(i, m)
      /\ \A i, j \in DOMAIN pending : QueueHolds(i, m) /\ QueueHolds(j, m) => i = j
HeldIsOpen == \A m \in Message : Held(m) => records[m].status = "processing" /\ ~ L!Owned(m)
Asleep == phase # "up" => /\ disp = IdleDisp /\ pending = <<>>
                          /\ \A t \in Turn : turns[t] = IdleTurn
Custody == Undisturbed =>
              /\ HeldOnce /\ HeldIsOpen
              /\ disp.pc = "settle" => disp.settle = {{disp.msg}}
              /\ disp.pc \notin {"replace", "stopped"}

(* Without merging, a claim is its own primary.                            *)
Unmerged ==
    ~ Merging =>
      /\ \A k \in Message : L!Owed(k) => obligations[k].claims = {k}
      /\ \A t \in Turn : turns[t].pc # "idle" => turns[t].claims = {turns[t].msg}
      /\ \A i \in DOMAIN pending : pending[i].claims = {pending[i].msg}

-----------------------------------------------------------------------------
(* One answer per message.  As long as one of its chunks may have been     *)
(* seen, the answer is stored or its message settled; the ledger's progress*)
(* and the sender's mark agree with the screen.                            *)
Begun(k) == screen[k] # <<>> \/ Posting(k)
OneAnswerOf(k) ==
    /\ Begun(k) => L!Owed(k) \/ records[k].status = "delivered"
    /\ \A i \in DOMAIN screen[k] : screen[k][i].run = answerRun[k]
    /\ L!Owed(k) => \A c \in Shown(k) : c <= obligations[k].next
    /\ L!Owed(k) /\ Posting(k) => obligations[k].status = "attempting"
    /\ obligations[k].status = "pending" => obligations[k].next \notin Shown(k)
    /\ sender[k].pc = "begin" /\ L!Owed(k) /\ Ambiguous(k) => sender[k].marked
    /\ sender[k].pc = "post" => /\ \A c \in Shown(k) : c <= sender[k].chunk
                                /\ sender[k].chunk \in Shown(k) => sender[k].marked
InOrder(k) ==
    \A i, j \in DOMAIN screen[k] : i < j =>
        /\ screen[k][i].chunk <= screen[k][j].chunk
        /\ screen[k][i].chunk = screen[k][j].chunk => screen[k][j].marked
Answered == Uncrossed => \A k \in Message : OneAnswerOf(k) /\ InOrder(k)

IInv == /\ LP!IInv
        /\ TypeInv /\ Asleep /\ Progress /\ Custody /\ Unmerged /\ Answered

-----------------------------------------------------------------------------
(* The ledger below the gateway.                                           *)

(* The gateway gives the ledger parameters that it may have.               *)
LEMMA LedgerParameters ==
    /\ [m \in Message |-> "channel"] \in [Message -> {"channel"}]
    /\ [m \in Message |-> "session"] \in [Message -> {"session"}]
    /\ Cardinality(Message) + 1 \in Nat \ {0}
    /\ MaxChunks \in Nat \ {0}
    /\ Cardinality(Message) \in Nat
<1>1. Cardinality(Message) \in Nat
  BY GatewayAssumption, FS_CardinalityType
<1> QED BY <1>1, GatewayAssumption

(* What the ledger's own invariant says of records and stored answers.     *)
LEMMA LedgerFacts ==
    ASSUME LP!IInv
    PROVE  /\ records \in [Message -> L!Record]
           /\ obligations \in [Message -> L!Obligation]
           /\ \A k \in Message : L!Owed(k) =>
                 /\ k \in obligations[k].claims
                 /\ obligations[k].next < obligations[k].chunks
                 /\ \A m \in obligations[k].claims : L!Open(m)
           /\ \A k \in Message : ~ L!Owed(k) => obligations[k].claims = {}
<1>1. /\ records \in [Message -> L!Record] /\ obligations \in [Message -> L!Obligation]
  BY DEF LP!IInv, LP!TypeOK, LP!Record, L!Record, LP!Obligation, L!Obligation,
         LP!RecordStatus, L!RecordStatus, LP!ObligationStatus, L!ObligationStatus
<1>2. \A k \in Message : L!Owed(k) =>
         /\ k \in obligations[k].claims
         /\ obligations[k].next < obligations[k].chunks
         /\ \A m \in obligations[k].claims : L!Open(m)
  BY DEF LP!IInv, LP!AnswerInv, LP!ObligationSound, LP!Owed, L!Owed, LP!Open, L!Open
<1>3. \A k \in Message : ~ L!Owed(k) => obligations[k].claims = {}
  BY DEF LP!IInv, LP!AnswerInv, LP!BlankObligation, LP!Owed, L!Owed
<1> QED BY <1>1, <1>2, <1>3

(* The invariant holds of an empty ledger and is kept by its operations.   *)
LEMMA LedgerStarts == L!Init => LP!IInv
<1>1. L!Init => LP!Init
  BY DEF L!Init, LP!Init, L!AbsentRecord, LP!AbsentRecord, L!NoObligation, LP!NoObligation
<1> QED BY <1>1, LP!InitialState, LedgerParameters

(* Every instance of FiniteSets means the same cardinality.                *)
LEMMA SameCardinality ==
    \A S : L!Cardinality(S) = Cardinality(S) /\ LP!Cardinality(S) = Cardinality(S)
  BY DEF L!Cardinality, LP!Cardinality, Cardinality

(* Both instances of the ledger mean the same operations.                  *)
LEMMA SameOperations == L!Next => LP!Next
<1>0. /\ \A m \in Message : /\ L!Present(m) <=> LP!Present(m)
                            /\ L!Open(m) <=> LP!Open(m)
                            /\ L!Owed(m) <=> LP!Owed(m)
                            /\ L!Owned(m) <=> LP!Owned(m)
                            /\ L!MayClaim(m) <=> LP!MayClaim(m)
  BY DEF L!Present, LP!Present, L!Open, LP!Open, L!Owed, LP!Owed, L!Owned, LP!Owned,
         L!MayClaim, LP!MayClaim
<1>1. ASSUME NEW m \in Message, NEW cursor \in BOOLEAN, L!Claim(m, cursor)
      PROVE  LP!Claim(m, cursor)
  <2>1. L!Removable = LP!Removable
    BY <1>0 DEF L!Removable, LP!Removable
  <2>2. {x \in Message : L!Present(x)} = {x \in Message : LP!Present(x)}
    BY <1>0
  <2>3. L!Overflow(m) = LP!Overflow(m)
    BY <1>0, <2>2, SameCardinality DEF L!Overflow, LP!Overflow
  <2>4. \A c \in {"channel"} : L!ChannelHasRoom(c) <=> LP!ChannelHasRoom(c)
    BY SameCardinality DEF L!ChannelHasRoom, LP!ChannelHasRoom
  <2> QED BY <1>0, <1>1, <2>1, <2>3, <2>4, SameCardinality DEF L!Claim, LP!Claim, L!AbsentRecord, LP!AbsentRecord
<1>2. ASSUME NEW k \in Message, NEW claims \in L!Merges, NEW n \in 1..MaxChunks,
             L!Prepare(k, claims, n)
      PROVE  LP!Prepare(k, claims, n)
  <2>1. {x \in Message : L!Owed(x)} = {x \in Message : LP!Owed(x)}
    BY <1>0
  <2>2. claims \in SUBSET Message
    BY DEF L!Merges
  <2>3. L!MayPrepare(k, claims) <=> LP!MayPrepare(k, claims)
    BY <1>0, <2>1, <2>2, SameCardinality DEF L!MayPrepare, LP!MayPrepare
  <2> QED BY <1>2, <2>3 DEF L!Prepare, LP!Prepare
<1>3. ASSUME NEW k \in Message, L!BeginAttempt(k) PROVE LP!BeginAttempt(k)
  BY <1>3 DEF L!BeginAttempt, LP!BeginAttempt, L!Owed, LP!Owed, L!Open, LP!Open,
         L!Marked, LP!Marked
<1>4. ASSUME NEW k \in Message, L!FailAttempt(k) PROVE LP!FailAttempt(k)
  BY <1>4 DEF L!FailAttempt, LP!FailAttempt, L!Owed, LP!Owed, L!Open, LP!Open,
         L!Marked, LP!Marked
<1>5. ASSUME NEW k \in Message, L!AckChunk(k) PROVE LP!AckChunk(k)
  BY <1>5 DEF L!AckChunk, LP!AckChunk, L!MoreChunks, LP!MoreChunks
<1>6. ASSUME NEW k \in Message, L!AckLast(k) PROVE LP!AckLast(k)
  BY <1>6 DEF L!AckLast, LP!AckLast, L!MoreChunks, LP!MoreChunks, L!Present, LP!Present,
         L!Marked, LP!Marked, L!NoObligation, LP!NoObligation, L!Advance, LP!Advance,
         L!WalkEndsAt, LP!WalkEndsAt, L!AnsweredAt, LP!AnsweredAt
<1>7. ASSUME NEW claims \in L!Merges, L!Fail(claims) PROVE LP!Fail(claims)
  BY <1>7 DEF L!Fail, LP!Fail, L!Marked, LP!Marked, L!Open, LP!Open
<1>8. ASSUME NEW claims \in L!Merges, L!Delivered(claims) PROVE LP!Delivered(claims)
  BY <1>8 DEF L!Delivered, LP!Delivered, L!Open, LP!Open, L!Present, LP!Present,
         L!Marked, LP!Marked, L!WithoutAnswersTo, LP!WithoutAnswersTo,
         L!NoObligation, LP!NoObligation, L!Advance, LP!Advance,
         L!WalkEndsAt, LP!WalkEndsAt, L!AnsweredAt, LP!AnsweredAt
<1>9. ASSUME NEW s \in {"session"}, NEW x \in Message, L!DeliveredSession(s, {x}) PROVE LP!DeliveredSession(s, {x})
  BY <1>9 DEF L!DeliveredSession, LP!DeliveredSession, L!InSession, LP!InSession,
         L!Open, LP!Open, L!Marked, LP!Marked,
         L!WithoutAnswersTo, LP!WithoutAnswersTo, L!NoObligation, LP!NoObligation,
         L!Advance, LP!Advance, L!WalkEndsAt, LP!WalkEndsAt,
         L!AnsweredAt, LP!AnsweredAt
<1>10. ASSUME NEW s \in {"session"}, NEW x \in Message, L!FailSession(s, {x}) PROVE LP!FailSession(s, {x})
  BY <1>10 DEF L!FailSession, LP!FailSession, L!InSession, LP!InSession, L!Fail, LP!Fail,
         L!Marked, LP!Marked, L!Open, LP!Open
<1>11. ASSUME L!Reopen PROVE LP!Reopen
  BY <1>11 DEF L!Reopen, LP!Reopen, L!Marked, LP!Marked
<1>12. L!Merges = LP!Merges
  BY DEF L!Merges, LP!Merges
<1> QED BY <1>1, <1>2, <1>3, <1>4, <1>5, <1>6, <1>7, <1>8, <1>9, <1>10, <1>11, <1>12
       DEF L!Next, LP!Next

(* A step of the ledger keeps its invariant.                               *)
LEMMA LedgerKept ==
    ASSUME LP!IInv, [L!Next]_ledgerVars
    PROVE  LP!IInv'
<1>1. CASE L!Next
  <2>1. LP!Next
    BY <1>1, SameOperations
  <2> QED BY <2>1, LP!InvariantStep, LedgerParameters
<1>2. CASE UNCHANGED ledgerVars
  <2>1. UNCHANGED LP!ledgerVars
    BY <1>2 DEF ledgerVars, LP!ledgerVars
  <2> QED BY <2>1, LP!InvariantStep, LedgerParameters
<1> QED BY <1>1, <1>2

-----------------------------------------------------------------------------
(* How the parts of the gateway's state change.                            *)

(* The blank values have the shapes.                                       *)
LEMMA BlankShapes == /\ IdleTurn \in TurnSet /\ IdleSender \in SenderSet
                     /\ IdleDisp \in DispSet /\ NoInbound \in InboundSet
  BY DEF IdleTurn, TurnSet, TurnPC, IdleSender, SenderSet, SenderPC, IdleDisp, DispSet, DispPC,
         NoInbound, InboundSet

(* What the shapes say of their members.                                   *)
LEMMA Shapes ==
    /\ \A x \in TurnSet : /\ x.pc \in TurnPC /\ x.claims \in SUBSET Message /\ x.run \in Nat
                          /\ x.pc # "idle" => /\ x.msg \in Message /\ x.msg \in x.claims
                                              /\ kind[x.msg] = "task"
    /\ \A x \in SenderSet : x.pc \in SenderPC /\ x.chunk \in Nat /\ x.claims \in SUBSET Message
    /\ \A d \in DispSet : /\ d.pc \in DispPC /\ d.settle \in SUBSET SUBSET Message
                          /\ d.pc \notin {"idle", "sending"} => d.msg \in Message
                          /\ d.pc = "stopped" => kind[d.msg] = "stop"
                          /\ d.pc = "replace" => kind[d.msg] = "task" /\ policy.mode = "interrupt"
    /\ \A e \in Entry : /\ e.msg \in Message /\ e.claims \in SUBSET Message
                        /\ e.msg \in e.claims /\ kind[e.msg] = "task"
  BY DEF TurnSet, SenderSet, DispSet, Entry

(* A turn goroutine goes on to another place.                              *)
LEMMA TurnMoves ==
    ASSUME TurnsType, NEW t \in Turn, NEW pc \in TurnPC, turns[t].pc # "idle",
           GoTo(t, pc), UNCHANGED kind
    PROVE  /\ TurnsType'
           /\ turns'[t].pc = pc /\ turns'[t].msg = turns[t].msg
           /\ turns'[t].claims = turns[t].claims /\ turns'[t].run = turns[t].run
           /\ \A u \in Turn : u # t => turns'[u] = turns[u]
<1>1. turns[t] \in TurnSet
  BY DEF TurnsType
<1>2. [turns[t] EXCEPT !.pc = pc] \in TurnSet
  BY <1>1 DEF TurnSet
<1>3. turns' = [turns EXCEPT ![t] = [turns[t] EXCEPT !.pc = pc]]
  BY DEF GoTo, TurnsType
<1>4. TurnSet' = TurnSet
  BY DEF TurnSet
<1>5. TurnsType' /\ turns'[t] = [turns[t] EXCEPT !.pc = pc]
  BY <1>2, <1>3, <1>4 DEF TurnsType
<1>6. \A u \in Turn : u # t => turns'[u] = turns[u]
  BY <1>3 DEF TurnsType
<1>7. /\ turns'[t].pc = pc /\ turns'[t].msg = turns[t].msg
      /\ turns'[t].claims = turns[t].claims /\ turns'[t].run = turns[t].run
  BY <1>1, <1>5 DEF TurnSet
<1> QED BY <1>5, <1>6, <1>7

(* A turn goroutine starts on a message.                                   *)
LEMMA TurnSpawns ==
    ASSUME TurnsType, NEW t \in Turn, NEW m \in Message, NEW C \in SUBSET Message,
           kind[m] = "task", m \in C, Spawn(t, m, C), UNCHANGED kind
    PROVE  /\ TurnsType'
           /\ turns'[t].pc = "setup" /\ turns'[t].msg = m /\ turns'[t].claims = C
           /\ \A u \in Turn : u # t => turns'[u] = turns[u]
<1> DEFINE x == [IdleTurn EXCEPT !.pc = "setup", !.msg = m, !.claims = C]
<1>1. x \in TurnSet /\ x.pc = "setup" /\ x.msg = m /\ x.claims = C
  BY DEF IdleTurn, TurnSet, TurnPC
<1>2. turns' = [turns EXCEPT ![t] = x]
  BY DEF Spawn
<1>3. TurnSet' = TurnSet
  BY DEF TurnSet
<1> HIDE DEF x
<1> QED BY <1>1, <1>2, <1>3 DEF TurnsType

(* Turns that are only canceled stay where they are.                       *)
LEMMA TurnsCanceled ==
    ASSUME TurnsType, UNCHANGED kind, CancelTurn \/ StopCommand
    PROVE  /\ TurnsType'
           /\ \A u \in Turn : /\ turns'[u].pc = turns[u].pc /\ turns'[u].msg = turns[u].msg
                              /\ turns'[u].claims = turns[u].claims
<1>1. \A u \in Turn : turns[u] \in TurnSet
  BY DEF TurnsType
<1>2. PICK b : turns' = [u \in Turn |-> IF b[u] THEN [turns[u] EXCEPT !.canceled = TRUE]
                                                ELSE turns[u]]
  <2>1. CASE CancelTurn
    <3>1. turns' = [u \in Turn |-> IF [v \in Turn |-> v = cancelOf][u]
                                   THEN [turns[u] EXCEPT !.canceled = TRUE] ELSE turns[u]]
      BY <2>1 DEF CancelTurn
    <3> QED BY <3>1
  <2>2. CASE StopCommand
    <3>1. \A u \in Turn : [turns[u] EXCEPT !.canceled = turns[u].canceled \/ u = cancelOf]
                          = IF u = cancelOf THEN [turns[u] EXCEPT !.canceled = TRUE]
                                            ELSE turns[u]
      BY <1>1 DEF TurnSet
    <3>2. turns' = [u \in Turn |-> IF [v \in Turn |-> v = cancelOf][u]
                                   THEN [turns[u] EXCEPT !.canceled = TRUE] ELSE turns[u]]
      BY <2>2, <3>1 DEF StopCommand
    <3> QED BY <3>2
  <2> QED BY <2>1, <2>2
<1>3. \A u \in Turn : [turns[u] EXCEPT !.canceled = TRUE] \in TurnSet
  BY <1>1 DEF TurnSet
<1>4. TurnSet' = TurnSet
  BY DEF TurnSet
<1>5. TurnsType'
  BY <1>1, <1>2, <1>3, <1>4 DEF TurnsType
<1>6. \A u \in Turn : /\ turns'[u].pc = turns[u].pc /\ turns'[u].msg = turns[u].msg
                      /\ turns'[u].claims = turns[u].claims
  BY <1>1, <1>2 DEF TurnSet
<1> QED BY <1>5, <1>6

(* A turn that waits for its sender is not disturbed.                      *)
LEMMA StillReported ==
    ASSUME Reported, UNCHANGED sender,
           \A u \in Turn : turns[u].pc = "sending" =>
              turns'[u].pc = "sending" /\ turns'[u].msg = turns[u].msg
    PROVE  Reported'
  BY DEF Reported

(* A sender starts.                                                        *)
LEMMA SenderStarts ==
    ASSUME SendersType, NEW k \in Message, NEW by \in {"dispatch", "turn", "start"},
           NEW t \in Turn \cup {NoTurn}, StartSender(k, by, t)
    PROVE  /\ SendersType'
           /\ sender[k].pc = "idle"
           /\ sender'[k].pc = "read" /\ sender'[k].by = by /\ sender'[k].turn = t
           /\ \A j \in Message : j # k => sender'[j] = sender[j]
<1> DEFINE x == [IdleSender EXCEPT !.pc = "read", !.by = by, !.turn = t]
<1>1. x \in SenderSet /\ x.pc = "read" /\ x.by = by /\ x.turn = t
  BY DEF IdleSender, SenderSet, SenderPC
<1>2. sender' = [sender EXCEPT ![k] = x]
  BY DEF StartSender
<1> HIDE DEF x
<1>3. SenderSet' = SenderSet
  BY DEF SenderSet
<1> QED BY <1>1, <1>2, <1>3 DEF SendersType, StartSender

(* A sender returns to its caller.                                         *)
LEMMA SenderEnds ==
    ASSUME TurnsType, SendersType, DispType, Reported, NEW k \in Message, sender[k].pc # "idle",
           SenderReturns(k), UNCHANGED fixedVars
    PROVE  /\ TurnsType' /\ SendersType' /\ DispType' /\ Reported'
           /\ recover' \in SUBSET recover
           /\ sender'[k].pc = "idle"
           /\ \A j \in Message : j # k => sender'[j] = sender[j]
           /\ disp' \in {disp, IdleDisp}
           /\ \A u \in Turn : \/ turns'[u] = turns[u]
                              \/ /\ turns[u].pc = "sending" /\ turns'[u].pc = "ending"
                                 /\ turns'[u].msg = turns[u].msg
                                 /\ turns'[u].claims = turns[u].claims
<1>1. sender' = [sender EXCEPT ![k] = IdleSender] /\ SenderSet' = SenderSet
  BY DEF SenderReturns, SenderSet
<1>2. SendersType' /\ sender'[k] = IdleSender /\ \A j \in Message : j # k => sender'[j] = sender[j]
  BY <1>1, BlankShapes DEF SendersType
<1>3. DispType' /\ disp' \in {disp, IdleDisp}
  <2>1. DispSet' = DispSet
    BY DEF DispSet, fixedVars
  <2> QED BY <2>1, BlankShapes DEF DispType, SenderReturns
<1>4. recover' \in SUBSET recover
  BY DEF SenderReturns
<1>5. /\ TurnsType'
      /\ \A u \in Turn : \/ turns'[u] = turns[u]
                         \/ /\ turns[u].pc = "sending" /\ turns'[u].pc = "ending"
                            /\ turns'[u].msg = turns[u].msg
                            /\ turns'[u].claims = turns[u].claims
                            /\ sender[k].by = "turn" /\ u = sender[k].turn
  <2>1. CASE sender[k].by = "turn"
    <3> DEFINE t == sender[k].turn
    <3>1. t \in Turn /\ turns[t].pc = "sending"
      BY <2>1 DEF Reported
    <3>2. GoTo(t, "ending") /\ UNCHANGED kind /\ "ending" \in TurnPC
      BY <2>1 DEF SenderReturns, GoTo, fixedVars, TurnPC
    <3> QED BY <2>1, <3>1, <3>2, TurnMoves
  <2>2. CASE sender[k].by # "turn"
    <3>1. turns' = turns /\ TurnSet' = TurnSet
      BY <2>2 DEF SenderReturns, TurnSet, fixedVars
    <3> QED BY <3>1 DEF TurnsType
  <2> QED BY <2>1, <2>2
<1>6. Reported'
  <2> SUFFICES ASSUME NEW j \in Message, sender'[j].pc # "idle", sender'[j].by = "turn"
               PROVE  /\ sender'[j].turn \in Turn
                      /\ turns'[sender'[j].turn].pc = "sending" /\ turns'[sender'[j].turn].msg = j
    BY DEF Reported
  <2>1. j # k /\ sender'[j] = sender[j]
    BY <1>2 DEF IdleSender
  <2>2. sender[j].turn \in Turn /\ turns[sender[j].turn].pc = "sending" /\ turns[sender[j].turn].msg = j
    BY <2>1 DEF Reported
  <2>3. sender[k].by = "turn" => turns[sender[k].turn].msg = k
    BY DEF Reported
  <2> QED BY <1>5, <2>1, <2>2, <2>3
<1>7. sender'[k].pc = "idle"
  BY <1>2 DEF IdleSender
<1> QED BY <1>2, <1>3, <1>4, <1>5, <1>6, <1>7

(* What a step leaves alone keeps its shape.                               *)
LEMMA TypeFrame ==
    ASSUME TypeInv, UNCHANGED fixedVars
    PROVE  /\ FixedType'
           /\ UNCHANGED <<chatVars, faults, writeFailed, phase, recover>> => ChatType'
           /\ UNCHANGED sessionVars => SessionType'
           /\ UNCHANGED turns => TurnsType'
           /\ UNCHANGED sender => SendersType'
           /\ UNCHANGED disp => DispType'
           /\ UNCHANGED <<turns, sender>> => Reported'
           /\ DispSet' = DispSet /\ Entry' = Entry
<1>1. /\ DispSet' = DispSet /\ Entry' = Entry /\ TurnSet' = TurnSet /\ SenderSet' = SenderSet
      /\ InboundSet' = InboundSet /\ FixedType'
  BY DEF fixedVars, DispSet, Entry, TurnSet, SenderSet, InboundSet, FixedType, TypeInv
<1>2. UNCHANGED <<chatVars, faults, writeFailed, phase, recover>> => ChatType'
  BY DEF TypeInv, ChatType, chatVars
<1>3. UNCHANGED sessionVars => SessionType'
  BY <1>1 DEF TypeInv, SessionType, sessionVars, fixedVars
<1>4. /\ UNCHANGED turns => TurnsType'
      /\ UNCHANGED sender => SendersType'
      /\ UNCHANGED disp => DispType'
  BY <1>1 DEF TypeInv, TurnsType, SendersType, DispType
<1>5. UNCHANGED <<turns, sender>> => Reported'
  BY DEF TypeInv, Reported
<1> QED BY <1>1, <1>2, <1>3, <1>4, <1>5

(* A fault is counted.                                                     *)
LEMMA FaultsCounted ==
    ASSUME faults \in 0..MaxFaults
    PROVE  /\ Fault => faults' \in 0..MaxFaults
           /\ NoFault => faults' \in 0..MaxFaults
           /\ WriteFails => faults' \in 0..MaxFaults
           /\ \A op \in BOOLEAN : Written(op) => faults' = faults
  BY GatewayAssumption DEF Fault, NoFault, WriteFails, Written

(* The dispatch loop claims a message.                                     *)
LEMMA DispatchType ==
    ASSUME TypeInv, NEW m \in Message, Dispatch(m) \/ DispatchClaimFails(m)
    PROVE  TypeInv'
<1>1. UNCHANGED fixedVars /\ UNCHANGED sessionVars /\ UNCHANGED <<turns, sender>>
  BY DEF Dispatch, DispatchClaimFails
<1>2. ChatType'
  BY FaultsCounted DEF TypeInv, ChatType, Dispatch, DispatchClaimFails, Written, WriteFails, chatVars
<1>3. DispType'
  <2>1. [IdleDisp EXCEPT !.pc = "route", !.msg = m] \in DispSet
    BY DEF IdleDisp, DispSet, DispPC
  <2>2. CASE Dispatch(m)
    BY <1>1, <2>1, <2>2, TypeFrame DEF Dispatch, DispType
  <2>3. CASE DispatchClaimFails(m)
    BY <1>1, <2>3, TypeFrame DEF DispatchClaimFails
  <2> QED BY <2>2, <2>3
<1> QED BY <1>1, <1>2, <1>3, TypeFrame DEF TypeInv

(* A duplicate starts the sender of its stored answer.                     *)
LEMMA DuplicateClaimType ==
    ASSUME TypeInv, NEW m \in Message, DispatchDuplicate(m)
    PROVE  TypeInv'
<1>1. UNCHANGED fixedVars /\ UNCHANGED sessionVars /\ UNCHANGED turns
  BY DEF DispatchDuplicate
<1>2. ChatType'
  BY DEF TypeInv, ChatType, DispatchDuplicate, NoWrite
<1>3. CASE UNCHANGED <<sender, disp>>
  BY <1>1, <1>2, <1>3, TypeFrame DEF TypeInv
<1>4. CASE \E k \in Message : StartSender(k, "dispatch", NoTurn)
            /\ disp' = [IdleDisp EXCEPT !.pc = "sending", !.msg = m]
  <2> PICK k \in Message : StartSender(k, "dispatch", NoTurn)
                           /\ disp' = [IdleDisp EXCEPT !.pc = "sending", !.msg = m]
    BY <1>4
  <2>1. /\ SendersType' /\ sender'[k].by = "dispatch"
        /\ \A j \in Message : j # k => sender'[j] = sender[j]
    BY SenderStarts DEF TypeInv
  <2>2. DispType'
    <3>1. [IdleDisp EXCEPT !.pc = "sending", !.msg = m] \in DispSet
      BY DEF IdleDisp, DispSet, DispPC
    <3> QED BY <1>1, <3>1, TypeFrame DEF DispType
  <2>3. Reported'
    BY <1>1, <2>1 DEF TypeInv, Reported
  <2> QED BY <1>1, <1>2, <2>1, <2>2, <2>3, TypeFrame DEF TypeInv
<1> QED BY <1>3, <1>4 DEF DispatchDuplicate

(* The dispatch loop answers at once, or records the outcome.              *)
LEMMA ReplyType ==
    ASSUME TypeInv, ReplyAtOnce
    PROVE  TypeInv'
<1>1. /\ UNCHANGED fixedVars /\ UNCHANGED sessionVars /\ UNCHANGED <<turns, sender>>
  BY DEF ReplyAtOnce
<1>2. ChatType'
  BY FaultsCounted DEF TypeInv, ChatType, ReplyAtOnce, chatVars
<1>3. DispType'
  <2>1. disp \in DispSet /\ disp.msg \in Message
    BY Shapes DEF TypeInv, DispType, ReplyAtOnce
  <2>2. \A ok \in BOOLEAN : [disp EXCEPT !.pc = "settle", !.settle = {{disp.msg}}, !.ok = ok] \in DispSet
    BY <2>1 DEF DispSet, DispPC
  <2> QED BY <1>1, <2>2, TypeFrame DEF DispType, ReplyAtOnce
<1> QED BY <1>1, <1>2, <1>3, TypeFrame DEF TypeInv

LEMMA SettleType ==
    ASSUME TypeInv, Settle
    PROVE  TypeInv'
<1>1. /\ UNCHANGED fixedVars /\ UNCHANGED sessionVars /\ UNCHANGED <<turns, sender>>
  BY DEF Settle
<1>2. disp \in DispSet /\ disp.settle \in SUBSET SUBSET Message /\ disp.pc = "settle"
  BY Shapes DEF TypeInv, DispType, Settle
<1>3. ChatType'
  <2>1. inbox' \in SUBSET Message
    BY <1>2 DEF TypeInv, ChatType, Settle, Retell
  <2>2. faults' \in 0..MaxFaults /\ writeFailed' \in BOOLEAN
    BY FaultsCounted DEF TypeInv, ChatType, Settle, Written, WriteFails
  <2> QED BY <2>1, <2>2 DEF TypeInv, ChatType, Settle
<1>4. DispType'
  <2>1. \A claims : [disp EXCEPT !.settle = @ \ {claims}] \in DispSet
    BY <1>2 DEF DispSet
  <2> QED BY <1>1, <2>1, BlankShapes, TypeFrame DEF DispType, Settle
<1> QED BY <1>1, <1>3, <1>4, TypeFrame DEF TypeInv

(* A task starts a turn or waits in the queue.                             *)
LEMMA StartTurnType ==
    ASSUME TypeInv, StartTurn
    PROVE  TypeInv'
<1>1. UNCHANGED fixedVars /\ UNCHANGED sender
  BY DEF StartTurn
<1>2. disp.msg \in Message /\ kind[disp.msg] = "task"
  BY Shapes DEF TypeInv, DispType, StartTurn
<1> PICK t \in Turn : turns[t].pc = "idle" /\ Spawn(t, disp.msg, {disp.msg})
  BY DEF StartTurn
<1>3. TurnsType' /\ \A u \in Turn : u # t => turns'[u] = turns[u]
  BY <1>1, <1>2, TurnSpawns DEF TypeInv, fixedVars
<1>4. ChatType'
  BY DEF TypeInv, ChatType, StartTurn, NoWrite, chatVars
<1>5. SessionType'
  BY <1>1, TypeFrame DEF TypeInv, SessionType, StartTurn, InboundSet, fixedVars
<1>6. DispType'
  BY <1>1, BlankShapes, TypeFrame DEF StartTurn, DispType
<1>7. Reported'
  BY <1>1, <1>3, StillReported DEF TypeInv
<1> QED BY <1>1, <1>3, <1>4, <1>5, <1>6, <1>7, TypeFrame DEF TypeInv

(* Queueing keeps the queue within its capacity.                           *)
LEMMA EnqueueType ==
    ASSUME TypeInv, Enqueue
    PROVE  TypeInv'
<1>1. UNCHANGED fixedVars /\ UNCHANGED <<turns, sender>>
  BY DEF Enqueue
<1>2. disp.msg \in Message /\ kind[disp.msg] = "task"
  BY Shapes DEF TypeInv, DispType, Enqueue
<1>3. ChatType'
  BY DEF TypeInv, ChatType, Enqueue, NoWrite, chatVars
<1>4. DispType'
  BY <1>1, BlankShapes, TypeFrame DEF Enqueue, DispType
<1>5. pending' \in Seq(Entry) /\ Len(pending') <= policy.cap
  <2> DEFINE m == disp.msg
             rest == IF QueueFull THEN Tail(pending) ELSE pending
             claims == {m} \cup IF QueueFull THEN Head(pending).claims ELSE {}
             last == Len(rest)
  <2>1. pending \in Seq(Entry) /\ Len(pending) <= policy.cap /\ policy.cap \in Nat \ {0}
    BY GatewayAssumption DEF TypeInv, SessionType, FixedType
  <2>2. QueueFull => pending # <<>> /\ Head(pending) \in Entry /\ Tail(pending) \in Seq(Entry)
                     /\ Len(Tail(pending)) = Len(pending) - 1
    BY <2>1 DEF QueueFull
  <2>3. rest \in Seq(Entry) /\ Len(rest) < policy.cap
    BY <2>1, <2>2 DEF QueueFull
  <2>4. claims \in SUBSET Message /\ m \in claims
    BY <1>2, <2>2, Shapes
  <2>5. \/ pending' = Append(rest, [msg |-> m, claims |-> claims])
        \/ rest # <<>> /\ pending' = [rest EXCEPT ![last].claims = @ \cup claims]
    BY DEF Enqueue
  <2> HIDE DEF rest, claims
  <2>6. CASE pending' = Append(rest, [msg |-> m, claims |-> claims])
    <3>1. [msg |-> m, claims |-> claims] \in Entry
      BY <1>2, <2>4 DEF Entry
    <3> QED BY <2>1, <2>3, <2>6, <3>1
  <2>7. CASE rest # <<>> /\ pending' = [rest EXCEPT ![last].claims = @ \cup claims]
    <3> DEFINE e == [rest[last] EXCEPT !.claims = @ \cup claims]
    <3>1. last \in 1..Len(rest) /\ rest[last] \in Entry
      BY <2>3, <2>7
    <3>2. e \in Entry
      BY <2>4, <3>1 DEF Entry
    <3>3. pending' = [rest EXCEPT ![last] = e]
      BY <2>7
    <3> HIDE DEF e
    <3>4. pending' \in Seq(Entry) /\ Len(pending') = Len(rest)
      BY <2>3, <3>1, <3>2, <3>3
    <3> QED BY <2>1, <2>3, <3>4
  <2> QED BY <2>5, <2>6, <2>7
<1>6. SessionType'
  BY <1>1, <1>5, TypeFrame DEF TypeInv, SessionType, Enqueue, InboundSet, fixedVars
<1> QED BY <1>1, <1>3, <1>4, <1>6, TypeFrame DEF TypeInv

(* Interrupt mode, /stop, /new and /reset.                                 *)
LEMMA InterruptType ==
    ASSUME TypeInv, Interrupt
    PROVE  TypeInv'
<1>1. UNCHANGED fixedVars /\ UNCHANGED sender /\ UNCHANGED sessionVars
  BY DEF Interrupt
<1>2. ChatType'
  BY DEF TypeInv, ChatType, Interrupt, NoWrite, chatVars
<1>3. DispType'
  <2>1. disp \in DispSet /\ disp.msg \in Message /\ activeInbound.claims \in SUBSET Message
    BY Shapes DEF TypeInv, DispType, Interrupt, SessionType, InboundSet
  <2>2. kind[disp.msg] = "task" /\ policy.mode = "interrupt"
    BY DEF Interrupt
  <2> PICK S \in SUBSET SUBSET Message : disp' = [disp EXCEPT !.pc = "replace", !.settle = S]
    BY <2>1 DEF Interrupt
  <2>3. disp' \in DispSet
    BY <2>1, <2>2 DEF DispSet, DispPC
  <2> QED BY <1>1, <2>3, TypeFrame DEF DispType
<1>4. /\ TurnsType'
      /\ \A u \in Turn : turns'[u].pc = turns[u].pc /\ turns'[u].msg = turns[u].msg
  BY <1>1, TurnsCanceled DEF TypeInv, Interrupt, fixedVars
<1>5. Reported'
  BY <1>1, <1>4, StillReported DEF TypeInv
<1> QED BY <1>1, <1>2, <1>3, <1>4, <1>5, TypeFrame DEF TypeInv

LEMMA ReplaceType ==
    ASSUME TypeInv, ReplacePending
    PROVE  TypeInv'
<1>1. UNCHANGED fixedVars /\ UNCHANGED <<turns, sender>>
  BY DEF ReplacePending
<1>2. /\ disp \in DispSet /\ disp.msg \in Message /\ kind[disp.msg] = "task"
      /\ disp.settle \in SUBSET SUBSET Message
  BY Shapes DEF TypeInv, DispType, ReplacePending
<1>3. pending \in Seq(Entry) /\ Len(pending) <= policy.cap /\ policy.cap \in Nat \ {0}
  BY GatewayAssumption DEF TypeInv, SessionType, FixedType
<1>4. ChatType'
  BY FaultsCounted DEF TypeInv, ChatType, ReplacePending, chatVars
<1>5. DispType'
  <2>1. {e.claims : e \in ToSet(pending)} \in SUBSET SUBSET Message
    BY <1>3, Shapes DEF ToSet
  <2> PICK S \in SUBSET SUBSET Message, ok \in BOOLEAN :
           disp' = IdleDisp \/ disp' = [disp EXCEPT !.pc = "settle", !.settle = S, !.ok = ok]
    BY <1>2, <2>1 DEF ReplacePending
  <2>2. [disp EXCEPT !.pc = "settle", !.settle = S, !.ok = ok] \in DispSet
    BY <1>2 DEF DispSet, DispPC
  <2>3. disp' \in DispSet
    BY <2>2, BlankShapes
  <2> QED BY <1>1, <2>3, TypeFrame DEF DispType
<1>6. SessionType'
  <2>1. [msg |-> disp.msg, claims |-> {disp.msg}] \in Entry
    BY <1>2 DEF Entry
  <2>2. pending' \in Seq(Entry) /\ Len(pending') <= policy.cap
    BY <1>3, <2>1 DEF ReplacePending
  <2> QED BY <1>1, <2>2, TypeFrame DEF TypeInv, SessionType, ReplacePending, InboundSet, fixedVars
<1> QED BY <1>1, <1>4, <1>5, <1>6, TypeFrame DEF TypeInv

LEMMA StopType ==
    ASSUME TypeInv, StopCommand
    PROVE  TypeInv'
<1>1. UNCHANGED fixedVars /\ UNCHANGED sender
  BY DEF StopCommand
<1>2. ChatType'
  BY FaultsCounted DEF TypeInv, ChatType, StopCommand, chatVars
<1>3. DispType'
  <2>1. disp \in DispSet /\ disp.msg \in Message
    BY Shapes DEF TypeInv, DispType, StopCommand
  <2>2. kind[disp.msg] = "stop"
    BY DEF StopCommand
  <2> PICK ok \in BOOLEAN : disp' = [disp EXCEPT !.pc = "stopped", !.ok = ok]
    BY DEF StopCommand
  <2>3. disp' \in DispSet
    BY <2>1, <2>2 DEF DispSet, DispPC
  <2> QED BY <1>1, <2>3, TypeFrame DEF DispType
<1>4. /\ TurnsType'
      /\ \A u \in Turn : turns'[u].pc = turns[u].pc /\ turns'[u].msg = turns[u].msg
  BY <1>1, TurnsCanceled DEF TypeInv, fixedVars
<1>5. Reported'
  BY <1>1, <1>4, StillReported DEF TypeInv
<1>6. SessionType'
  <2>1. pending' = <<>> /\ active' = FALSE /\ policy.cap \in Nat
    BY GatewayAssumption DEF TypeInv, FixedType, StopCommand
  <2>2. pending' \in Seq(Entry) /\ Len(pending') <= policy.cap
    BY <2>1
  <2> QED BY <1>1, <2>1, <2>2, TypeFrame DEF TypeInv, SessionType, StopCommand, InboundSet, fixedVars
<1> QED BY <1>1, <1>2, <1>3, <1>4, <1>5, <1>6, TypeFrame DEF TypeInv

LEMMA StopSettlesType ==
    ASSUME TypeInv, StopSettles
    PROVE  TypeInv'
<1>1. UNCHANGED fixedVars /\ UNCHANGED sessionVars /\ UNCHANGED <<turns, sender>>
  BY DEF StopSettles
<1>2. disp \in DispSet /\ disp.msg \in Message
  BY Shapes DEF TypeInv, DispType, StopSettles
<1>3. ChatType'
  <2>1. inbox' \in SUBSET Message
    BY <1>2 DEF TypeInv, ChatType, StopSettles, Retell
  <2>2. faults' \in 0..MaxFaults /\ writeFailed' \in BOOLEAN
    BY FaultsCounted DEF TypeInv, ChatType, StopSettles, Written, WriteFails
  <2> QED BY <2>1, <2>2 DEF TypeInv, ChatType, StopSettles
<1>4. DispType'
  <2>1. \/ disp' = [disp EXCEPT !.pc = "settle", !.settle = {{disp.msg}}]
        \/ disp' = [disp EXCEPT !.pc = "settle", !.settle = {{disp.msg}}, !.ok = FALSE]
    BY DEF StopSettles
  <2>2. [disp EXCEPT !.pc = "settle", !.settle = {{disp.msg}}] \in DispSet
    BY <1>2 DEF DispSet, DispPC
  <2>3. [disp EXCEPT !.pc = "settle", !.settle = {{disp.msg}}, !.ok = FALSE] \in DispSet
    BY <1>2 DEF DispSet, DispPC
  <2> QED BY <1>1, <2>1, <2>2, <2>3, TypeFrame DEF DispType
<1> QED BY <1>1, <1>3, <1>4, TypeFrame DEF TypeInv

-----------------------------------------------------------------------------
(* The turn goroutines.                                                    *)
LEMMA TurnBeginsType ==
    ASSUME TypeInv, NEW t \in Turn, TurnBegins(t)
    PROVE  TypeInv'
<1>1. UNCHANGED fixedVars /\ UNCHANGED <<sender, disp>>
  BY DEF TurnBegins
<1>2. turns[t] \in TurnSet /\ turns[t].pc = "setup" /\ turns[t].msg \in Message
      /\ turns[t].claims \in SUBSET Message
  BY Shapes DEF TypeInv, TurnsType, TurnBegins
<1>3. ChatType'
  <2>1. run' \in [Message -> Nat]
    BY <1>2 DEF TypeInv, ChatType, TurnBegins
  <2>2. faults' \in 0..MaxFaults
    BY FaultsCounted DEF TypeInv, ChatType, TurnBegins
  <2> QED BY <2>1, <2>2 DEF TypeInv, ChatType, TurnBegins
<1>4. SessionType'
  BY <1>1, <1>2, TypeFrame DEF TypeInv, SessionType, TurnBegins, InboundSet, fixedVars
<1>5. TurnsType' /\ \A u \in Turn : turns[u].pc = "sending" => turns'[u] = turns[u]
  <2>1. CASE GoTo(t, "erred")
    <3>1. "erred" \in TurnPC /\ UNCHANGED kind
      BY <1>1 DEF TurnPC, fixedVars
    <3> QED BY <1>2, <2>1, <3>1, TurnMoves DEF TypeInv
  <2>2. CASE turns' = [turns EXCEPT ![t].pc = "running", ![t].run = run[turns[t].msg] + 1]
    <3>1. run[turns[t].msg] + 1 \in Nat
      BY <1>2 DEF TypeInv, ChatType
    <3> DEFINE x == [turns[t] EXCEPT !.pc = "running", !.run = run[turns[t].msg] + 1]
    <3>2. x \in TurnSet
      BY <1>2, <3>1 DEF TurnSet, TurnPC
    <3>3. turns' = [turns EXCEPT ![t] = x]
      BY <2>2 DEF TypeInv, TurnsType
    <3>4. TurnSet' = TurnSet
      BY <1>1 DEF TurnSet, fixedVars
    <3> HIDE DEF x
    <3> QED BY <1>2, <3>2, <3>3, <3>4 DEF TypeInv, TurnsType
  <2> QED BY <2>1, <2>2 DEF TurnBegins
<1>6. Reported'
  BY <1>1, <1>5, StillReported DEF TypeInv
<1> QED BY <1>1, <1>3, <1>4, <1>5, <1>6, TypeFrame DEF TypeInv

LEMMA TurnGoesOnType ==
    ASSUME TypeInv, NEW t \in Turn, TurnReturns(t) \/ TurnFails(t) \/ TurnEnds(t)
    PROVE  TypeInv'
<1>1. UNCHANGED fixedVars /\ UNCHANGED <<sender, disp>>
  BY DEF TurnReturns, TurnFails, TurnEnds
<1>2. /\ turns[t].pc \notin {"idle", "sending"} /\ turns[t].claims \in SUBSET Message
      /\ \E pc \in {"answered", "erred", "ending", "releasing"} : GoTo(t, pc)
  BY Shapes DEF TypeInv, TurnsType, TurnReturns, TurnFails, TurnEnds
<1>3. TurnsType' /\ \A u \in Turn : turns[u].pc = "sending" => turns'[u] = turns[u]
  <2> PICK pc \in {"answered", "erred", "ending", "releasing"} : GoTo(t, pc)
    BY <1>2
  <2>1. pc \in TurnPC /\ UNCHANGED kind
    BY <1>1 DEF TurnPC, fixedVars
  <2> QED BY <1>2, <2>1, TurnMoves DEF TypeInv
<1>4. Reported'
  BY <1>1, <1>3, StillReported DEF TypeInv
<1>5. ChatType'
  <2>1. inbox' \in SUBSET Message /\ UNCHANGED <<run, answerRun, phase, recover>>
    BY <1>2 DEF TypeInv, ChatType, TurnReturns, TurnFails, TurnEnds, Retell, chatVars
  <2>2. faults' \in 0..MaxFaults /\ writeFailed' \in BOOLEAN
    BY FaultsCounted DEF TypeInv, ChatType, TurnReturns, TurnFails, TurnEnds, Written, WriteFails, NoWrite
  <2> QED BY <2>1, <2>2 DEF TypeInv, ChatType
<1>6. SessionType'
  <2>1. NoInbound \in InboundSet
    BY BlankShapes
  <2> QED BY <1>1, <2>1, TypeFrame DEF TypeInv, SessionType, TurnReturns, TurnFails, TurnEnds, InboundSet,
             sessionVars, fixedVars
<1> QED BY <1>1, <1>3, <1>4, <1>5, <1>6, TypeFrame DEF TypeInv

LEMMA TurnPreparesType ==
    ASSUME TypeInv, NEW t \in Turn, TurnPrepares(t)
    PROVE  TypeInv'
<1>1. UNCHANGED fixedVars /\ UNCHANGED disp /\ UNCHANGED sessionVars
  BY DEF TurnPrepares
<1>2. turns[t] \in TurnSet /\ turns[t].pc = "answered" /\ turns[t].msg \in Message
  BY Shapes DEF TypeInv, TurnsType, TurnPrepares
<1>3. ChatType'
  <2>1. answerRun' \in [Message -> Nat]
    BY <1>2 DEF TypeInv, ChatType, TurnPrepares, TurnSet
  <2>2. faults' \in 0..MaxFaults /\ writeFailed' \in BOOLEAN
    BY FaultsCounted DEF TypeInv, ChatType, TurnPrepares, Written, WriteFails, NoWrite
  <2> QED BY <2>1, <2>2 DEF TypeInv, ChatType, TurnPrepares
<1>4. \A pc \in {"ending", "erred", "sending"} : GoTo(t, pc) =>
         /\ TurnsType' /\ turns'[t].pc = pc /\ turns'[t].msg = turns[t].msg
         /\ \A u \in Turn : u # t => turns'[u] = turns[u]
  <2> SUFFICES ASSUME NEW pc \in {"ending", "erred", "sending"}, GoTo(t, pc)
               PROVE  /\ TurnsType' /\ turns'[t].pc = pc /\ turns'[t].msg = turns[t].msg
                      /\ \A u \in Turn : u # t => turns'[u] = turns[u]
    OBVIOUS
  <2>1. pc \in TurnPC /\ UNCHANGED kind
    BY <1>1 DEF TurnPC, fixedVars
  <2> QED BY <1>2, <2>1, TurnMoves DEF TypeInv
<1>5. TurnsType' /\ SendersType' /\ Reported'
  <2>1. CASE StartSender(turns[t].msg, "turn", t) /\ GoTo(t, "sending")
    <3>1. /\ SendersType'
          /\ sender'[turns[t].msg].pc = "read" /\ sender'[turns[t].msg].by = "turn"
          /\ sender'[turns[t].msg].turn = t
          /\ \A j \in Message : j # turns[t].msg => sender'[j] = sender[j]
      BY <1>2, <2>1, SenderStarts DEF TypeInv
    <3>2. Reported'
      BY <1>2, <1>4, <2>1, <3>1 DEF TypeInv, Reported
    <3> QED BY <1>4, <2>1, <3>1, <3>2
  <2>2. CASE UNCHANGED sender /\ \E pc \in {"ending", "erred"} : GoTo(t, pc)
    <3>1. TurnsType' /\ \A u \in Turn : turns[u].pc = "sending" => turns'[u] = turns[u]
      BY <1>2, <1>4, <2>2
    <3>2. Reported'
      BY <2>2, <3>1, StillReported DEF TypeInv
    <3>3. SendersType'
      BY <1>1, <2>2, TypeFrame
    <3> QED BY <3>1, <3>2, <3>3
  <2> QED BY <2>1, <2>2 DEF TurnPrepares
<1> QED BY <1>1, <1>3, <1>5, TypeFrame DEF TypeInv

LEMMA TurnReleasesType ==
    ASSUME TypeInv, NEW t \in Turn, TurnReleases(t)
    PROVE  TypeInv'
<1>1. UNCHANGED fixedVars /\ UNCHANGED <<sender, disp>>
  BY DEF TurnReleases
<1>2. turns[t].pc = "releasing"
  BY DEF TurnReleases
<1>3. ChatType'
  BY DEF TypeInv, ChatType, TurnReleases, NoWrite, chatVars
<1>4. pending \in Seq(Entry) /\ Len(pending) <= policy.cap /\ policy.cap \in Nat \ {0}
  BY GatewayAssumption DEF TypeInv, SessionType, FixedType
<1>5. /\ TurnsType' /\ \A u \in Turn : turns[u].pc = "sending" => turns'[u] = turns[u]
      /\ pending' \in Seq(Entry) /\ Len(pending') <= policy.cap
  <2>1. CASE pending = <<>>
    <3>1. turns' = [turns EXCEPT ![t] = IdleTurn] /\ UNCHANGED pending
      BY <2>1 DEF TurnReleases, Release
    <3>2. TurnSet' = TurnSet
      BY <1>1 DEF TurnSet, fixedVars
    <3> QED BY <1>2, <1>4, <3>1, <3>2, BlankShapes DEF TypeInv, TurnsType
  <2>2. CASE pending # <<>>
    <3> DEFINE e == Head(pending)
               collected == UNION {x.claims : x \in ToSet(pending)}
    <3>1. e \in Entry /\ Tail(pending) \in Seq(Entry) /\ Len(Tail(pending)) = Len(pending) - 1
          /\ e = pending[1] /\ 1 \in 1..Len(pending)
      BY <1>4, <2>2
    <3>2. e.msg \in Message /\ kind[e.msg] = "task" /\ e.claims \in SUBSET Message /\ e.msg \in e.claims
      BY <3>1, Shapes
    <3>3. collected \in SUBSET Message /\ e.claims \in SUBSET collected
      BY <1>4, <3>1, Shapes DEF ToSet
    <3>4. \E C \in SUBSET Message : e.msg \in C /\ Spawn(t, e.msg, C)
      BY <2>2, <3>2, <3>3 DEF TurnReleases, Release
    <3>5. pending' \in {<<>>, Tail(pending)}
      BY <2>2 DEF TurnReleases, Release
    <3> HIDE DEF e, collected
    <3>6. TurnsType' /\ \A u \in Turn : u # t => turns'[u] = turns[u]
      BY <1>1, <3>2, <3>4, TurnSpawns DEF TypeInv, fixedVars
    <3>7. pending' \in Seq(Entry) /\ Len(pending') <= policy.cap
      <4>1. CASE pending' = <<>>
        BY <1>4, <4>1
      <4>2. CASE pending' = Tail(pending)
        BY <1>4, <3>1, <4>2
      <4> QED BY <3>5, <4>1, <4>2
    <3> QED BY <1>2, <3>6, <3>7
  <2> QED BY <2>1, <2>2
<1>6. SessionType'
  BY <1>1, <1>5, TypeFrame DEF TypeInv, SessionType, TurnReleases, Release, InboundSet, fixedVars
<1>7. Reported'
  BY <1>1, <1>5, StillReported DEF TypeInv
<1> QED BY <1>1, <1>3, <1>5, <1>6, <1>7, TypeFrame DEF TypeInv

-----------------------------------------------------------------------------
(* The senders, and the process.                                           *)

(* A sender goes on to another place.                                      *)
LEMMA SenderMoves ==
    ASSUME SendersType, Reported, NEW k \in Message, NEW x \in SenderSet,
           sender' = [sender EXCEPT ![k] = x], UNCHANGED turns,
           sender[k].pc # "idle", x.by = sender[k].by, x.turn = sender[k].turn
    PROVE  /\ SendersType' /\ Reported' /\ sender'[k] = x
           /\ \A j \in Message : j # k => sender'[j] = sender[j]
<1>1. SenderSet' = SenderSet
  BY DEF SenderSet
<1>2. SendersType' /\ sender'[k] = x /\ \A j \in Message : j # k => sender'[j] = sender[j]
  BY <1>1 DEF SendersType
<1> QED BY <1>2 DEF Reported

(* The places of a sender, one by one.                                     *)
LEMMA SenderPlaces ==
    ASSUME TypeInv, LP!IInv, NEW k \in Message
    PROVE  /\ \A b \in BOOLEAN : [sender[k] EXCEPT !.pc = "begin", !.marked = b] \in SenderSet
           /\ [sender[k] EXCEPT !.pc = "post", !.chunk = obligations[k].next,
                                !.claims = obligations[k].claims] \in SenderSet
           /\ \A pc \in {"read", "ack", "fail"} : [sender[k] EXCEPT !.pc = pc] \in SenderSet
<1>1. sender[k] \in SenderSet
  BY DEF TypeInv, SendersType
<1>2. obligations[k].next \in Nat /\ obligations[k].claims \in SUBSET Message
  <2>1. obligations[k] \in L!Obligation
    BY LedgerFacts
  <2> QED BY <2>1, GatewayAssumption DEF L!Obligation
<1> QED BY <1>1, <1>2 DEF SenderSet, SenderPC

LEMMA SendReadType ==
    ASSUME LP!IInv, TypeInv, NEW k \in Message, SendRead(k)
    PROVE  TypeInv'
<1>1. UNCHANGED fixedVars /\ UNCHANGED <<chatVars, faults, writeFailed, phase>> /\ UNCHANGED sessionVars
  BY DEF SendRead, NoWrite
<1>2. CASE SenderReturns(k)
  <2>1. /\ TurnsType' /\ SendersType' /\ DispType' /\ Reported' /\ recover' \in SUBSET recover
    BY <1>1, <1>2, SenderEnds DEF SendRead, TypeInv
  <2>2. ChatType'
    BY <1>1, <2>1 DEF TypeInv, ChatType, chatVars
  <2> QED BY <1>1, <2>1, <2>2, TypeFrame DEF TypeInv
<1>3. CASE ~ SenderReturns(k)
  <2>1. UNCHANGED <<disp, turns, recover>>
        /\ sender' = [sender EXCEPT ![k].pc = "begin", ![k].marked = Ambiguous(k)]
    BY <1>3 DEF SendRead
  <2> DEFINE x == [sender[k] EXCEPT !.pc = "begin", !.marked = Ambiguous(k)]
  <2>2. x \in SenderSet /\ x.by = sender[k].by /\ x.turn = sender[k].turn
    <3>1. Ambiguous(k) \in BOOLEAN
      BY DEF Ambiguous
    <3>2. sender[k] \in SenderSet
      BY DEF TypeInv, SendersType
    <3> QED BY <3>1, <3>2, SenderPlaces DEF SenderSet
  <2>3. sender' = [sender EXCEPT ![k] = x]
    BY <2>1 DEF TypeInv, SendersType
  <2> HIDE DEF x
  <2>4. SendersType' /\ Reported'
    BY <2>1, <2>2, <2>3, SenderMoves DEF TypeInv, SendRead
  <2> QED BY <1>1, <2>1, <2>4, TypeFrame DEF TypeInv
<1> QED BY <1>2, <1>3

LEMMA SendBeginType ==
    ASSUME LP!IInv, TypeInv, NEW k \in Message, SendBegin(k)
    PROVE  TypeInv'
<1>1. UNCHANGED fixedVars /\ UNCHANGED <<chatVars, phase>> /\ UNCHANGED sessionVars
  BY DEF SendBegin
<1>2. faults' \in 0..MaxFaults /\ writeFailed' \in BOOLEAN
  BY FaultsCounted DEF TypeInv, ChatType, SendBegin, Written, WriteFails, NoWrite
<1>3. CASE SenderReturns(k)
  <2>1. /\ TurnsType' /\ SendersType' /\ DispType' /\ Reported' /\ recover' \in SUBSET recover
    BY <1>1, <1>3, SenderEnds DEF SendBegin, TypeInv
  <2>2. ChatType'
    BY <1>1, <1>2, <2>1 DEF TypeInv, ChatType, chatVars
  <2> QED BY <1>1, <2>1, <2>2, TypeFrame DEF TypeInv
<1>4. CASE ~ SenderReturns(k)
  <2>1. UNCHANGED <<disp, turns, recover>>
        /\ sender' = [sender EXCEPT ![k].pc = "post", ![k].chunk = obligations[k].next,
                                    ![k].claims = obligations[k].claims]
    BY <1>4 DEF SendBegin
  <2> DEFINE x == [sender[k] EXCEPT !.pc = "post", !.chunk = obligations[k].next,
                                    !.claims = obligations[k].claims]
  <2>2. x \in SenderSet /\ x.by = sender[k].by /\ x.turn = sender[k].turn
    <3>1. sender[k] \in SenderSet
      BY DEF TypeInv, SendersType
    <3> QED BY <3>1, SenderPlaces DEF SenderSet
  <2>3. sender' = [sender EXCEPT ![k] = x]
    BY <2>1 DEF TypeInv, SendersType
  <2> HIDE DEF x
  <2>4. SendersType' /\ Reported'
    BY <2>1, <2>2, <2>3, SenderMoves DEF TypeInv, SendBegin
  <2>5. ChatType'
    BY <1>1, <1>2, <2>1 DEF TypeInv, ChatType, chatVars
  <2> QED BY <1>1, <2>1, <2>4, <2>5, TypeFrame DEF TypeInv
<1> QED BY <1>3, <1>4

LEMMA SendPostType ==
    ASSUME LP!IInv, TypeInv, NEW k \in Message, SendPost(k)
    PROVE  TypeInv'
<1>1. UNCHANGED fixedVars /\ UNCHANGED <<turns, disp>> /\ UNCHANGED sessionVars
  BY DEF SendPost
<1> PICK pc \in {"ack", "fail"} : sender' = [sender EXCEPT ![k].pc = pc]
  BY DEF SendPost
<1> DEFINE x == [sender[k] EXCEPT !.pc = pc]
<1>2. x \in SenderSet /\ x.by = sender[k].by /\ x.turn = sender[k].turn
  <2>1. sender[k] \in SenderSet
    BY DEF TypeInv, SendersType
  <2> QED BY <2>1, SenderPlaces DEF SenderSet
<1>3. sender' = [sender EXCEPT ![k] = x]
  BY DEF TypeInv, SendersType
<1> HIDE DEF x
<1>4. SendersType' /\ Reported'
  BY <1>1, <1>2, <1>3, SenderMoves DEF TypeInv, SendPost
<1>5. ChatType'
  <2>1. faults' \in 0..MaxFaults
    BY FaultsCounted DEF TypeInv, ChatType, SendPost
  <2> QED BY <2>1 DEF TypeInv, ChatType, SendPost
<1> QED BY <1>1, <1>4, <1>5, TypeFrame DEF TypeInv

LEMMA SendFailType ==
    ASSUME LP!IInv, TypeInv, NEW k \in Message, SendFail(k)
    PROVE  TypeInv'
<1>1. UNCHANGED fixedVars /\ UNCHANGED sessionVars
  BY DEF SendFail
<1>2. /\ TurnsType' /\ SendersType' /\ DispType' /\ Reported' /\ recover' \in SUBSET recover
  BY <1>1, SenderEnds DEF SendFail, TypeInv
<1>3. ChatType'
  <2>1. faults' \in 0..MaxFaults /\ writeFailed' \in BOOLEAN
    BY FaultsCounted DEF TypeInv, ChatType, SendFail, Written, WriteFails, NoWrite
  <2>2. sender[k].claims \in SUBSET Message
    BY Shapes DEF TypeInv, SendersType
  <2>3. inbox' \in SUBSET Message
    BY <2>2 DEF TypeInv, ChatType, SendFail, Retell
  <2> QED BY <1>2, <2>1, <2>3 DEF TypeInv, ChatType, SendFail
<1> QED BY <1>1, <1>2, <1>3, TypeFrame DEF TypeInv

LEMMA SendAckType ==
    ASSUME LP!IInv, TypeInv, NEW k \in Message, SendAck(k)
    PROVE  TypeInv'
<1>1. UNCHANGED fixedVars /\ UNCHANGED <<chatVars, phase>> /\ UNCHANGED sessionVars
  BY DEF SendAck
<1>2. faults' \in 0..MaxFaults /\ writeFailed' \in BOOLEAN
  BY FaultsCounted DEF TypeInv, ChatType, SendAck, Written, WriteFails, NoWrite
<1>3. CASE SenderReturns(k)
  <2>1. /\ TurnsType' /\ SendersType' /\ DispType' /\ Reported' /\ recover' \in SUBSET recover
    BY <1>1, <1>3, SenderEnds DEF SendAck, TypeInv
  <2>2. ChatType'
    BY <1>1, <1>2, <2>1 DEF TypeInv, ChatType, chatVars
  <2> QED BY <1>1, <2>1, <2>2, TypeFrame DEF TypeInv
<1>4. CASE ~ SenderReturns(k)
  <2>1. UNCHANGED <<disp, turns, recover>> /\ sender' = [sender EXCEPT ![k].pc = "read"]
    BY <1>4 DEF SendAck
  <2> DEFINE x == [sender[k] EXCEPT !.pc = "read"]
  <2>2. x \in SenderSet /\ x.by = sender[k].by /\ x.turn = sender[k].turn
    <3>1. sender[k] \in SenderSet
      BY DEF TypeInv, SendersType
    <3> QED BY <3>1, SenderPlaces DEF SenderSet
  <2>3. sender' = [sender EXCEPT ![k] = x]
    BY <2>1 DEF TypeInv, SendersType
  <2> HIDE DEF x
  <2>4. SendersType' /\ Reported'
    BY <2>1, <2>2, <2>3, SenderMoves DEF TypeInv, SendAck
  <2>5. ChatType'
    BY <1>1, <1>2, <2>1 DEF TypeInv, ChatType, chatVars
  <2> QED BY <1>1, <2>1, <2>4, <2>5, TypeFrame DEF TypeInv
<1> QED BY <1>3, <1>4

(* Crash, restart, recovery and duplicate events.                          *)
LEMMA CrashType ==
    ASSUME TypeInv, Crash
    PROVE  TypeInv'
<1>1. UNCHANGED fixedVars
  BY DEF Crash
<1>2. ChatType'
  BY FaultsCounted DEF TypeInv, ChatType, Crash
<1>3. SessionType'
  <2>1. policy.cap \in Nat /\ pending' = <<>>
    BY GatewayAssumption DEF TypeInv, FixedType, Crash
  <2>2. pending' \in Seq(Entry) /\ Len(pending') <= policy.cap
    BY <2>1
  <2> QED BY <1>1, <2>2, BlankShapes, TypeFrame DEF SessionType, Crash, InboundSet, fixedVars
<1>4. TurnsType' /\ SendersType' /\ DispType'
  <2>1. TurnSet' = TurnSet /\ SenderSet' = SenderSet
    BY <1>1 DEF TurnSet, SenderSet, fixedVars
  <2> QED BY <1>1, <2>1, BlankShapes, TypeFrame DEF TurnsType, SendersType, DispType, Crash
<1>5. Reported'
  BY DEF Reported, Crash, IdleSender
<1> QED BY <1>1, <1>2, <1>3, <1>4, <1>5, TypeFrame DEF TypeInv

LEMMA RestartType ==
    ASSUME TypeInv, Restart \/ Started \/ (\E m \in Message : Duplicate(m))
    PROVE  TypeInv'
<1>1. /\ UNCHANGED fixedVars /\ UNCHANGED sessionVars /\ UNCHANGED <<turns, sender, disp>>
  BY DEF Restart, Started, Duplicate
<1>2. ChatType'
  <2>1. faults' \in 0..MaxFaults /\ writeFailed' \in BOOLEAN
    BY FaultsCounted DEF TypeInv, ChatType, Restart, Started, Duplicate, Written, WriteFails, NoWrite
  <2>2. inbox' \in SUBSET Message /\ UNCHANGED <<run, answerRun>>
    BY DEF TypeInv, ChatType, Restart, Started, Duplicate, chatVars
  <2>3. phase' \in {"down", "recovering", "up"} /\ recover' \in SUBSET Message
    BY DEF TypeInv, ChatType, Restart, Started, Duplicate
  <2> QED BY <2>1, <2>2, <2>3 DEF TypeInv, ChatType
<1> QED BY <1>1, <1>2, TypeFrame DEF TypeInv

LEMMA RecoverType ==
    ASSUME TypeInv, NEW k \in Message, RecoverNext(k)
    PROVE  TypeInv'
<1>1. /\ UNCHANGED fixedVars /\ UNCHANGED sessionVars /\ UNCHANGED <<turns, disp>>
      /\ UNCHANGED <<chatVars, faults, writeFailed, phase, recover>>
  BY DEF RecoverNext, NoWrite
<1>2. /\ SendersType' /\ sender'[k].by = "start"
      /\ \A j \in Message : j # k => sender'[j] = sender[j]
  BY SenderStarts DEF TypeInv, RecoverNext
<1>3. Reported'
  BY <1>1, <1>2 DEF TypeInv, Reported
<1> QED BY <1>1, <1>2, <1>3, TypeFrame DEF TypeInv

(* Every step of the gateway keeps the shapes.                             *)
LEMMA TypeStep ==
    ASSUME LP!IInv, TypeInv, [Next]_vars
    PROVE  TypeInv'
<1>1. CASE DispatchLoop
  BY <1>1, DispatchType, DuplicateClaimType, ReplyType, SettleType, StartTurnType, EnqueueType,
     InterruptType, ReplaceType, StopType, StopSettlesType DEF DispatchLoop
<1>2. CASE \E t \in Turn : RunTurn(t)
  BY <1>2, TurnBeginsType, TurnGoesOnType, TurnPreparesType, TurnReleasesType DEF RunTurn
<1>3. CASE \E k \in Message : Send(k)
  BY <1>3, SendReadType, SendBeginType, SendPostType, SendFailType, SendAckType DEF Send
<1>4. CASE Start \/ Crash \/ \E m \in Message : Duplicate(m)
  BY <1>4, RestartType, RecoverType, CrashType DEF Start
<1>5. CASE UNCHANGED vars
  BY <1>5, TypeFrame DEF vars, TypeInv
<1> QED BY <1>1, <1>2, <1>3, <1>4, <1>5 DEF Next, Waiting

LEMMA TypeStart ==
    ASSUME Init
    PROVE  TypeInv
<1>1. ChatType /\ FixedType
  <2>1. inbox = Message /\ run = [m \in Message |-> 0] /\ answerRun = [k \in Message |-> 0]
        /\ faults = 0 /\ writeFailed = FALSE /\ phase = "up" /\ recover = {}
    BY DEF Init
  <2>2. ChatType
    <3>1. MaxFaults \in Nat
      BY GatewayAssumption
    <3>2. faults \in 0..MaxFaults
      BY <2>1, <3>1
    <3>3. inbox \in SUBSET Message /\ recover \in SUBSET Message
      BY <2>1
    <3> QED BY <2>1, <3>2, <3>3 DEF ChatType
  <2>3. FixedType
    BY DEF Init, FixedType
  <2> QED BY <2>2, <2>3
<1>2. SessionType
  <2>1. policy.cap \in Nat
    BY <1>1, GatewayAssumption DEF FixedType
  <2>2. pending = <<>> /\ active = FALSE /\ cancelOf = NoTurn /\ ctrl = NoTurn
        /\ activeInbound = NoInbound
    BY DEF Init
  <2>3. pending \in Seq(Entry) /\ Len(pending) <= policy.cap
    BY <2>1, <2>2
  <2> QED BY <2>2, <2>3, BlankShapes DEF SessionType
<1>3. TurnsType /\ SendersType /\ DispType
  BY BlankShapes DEF Init, TurnsType, SendersType, DispType
<1>4. Reported
  BY DEF Init, Reported, IdleSender
<1> QED BY <1>1, <1>2, <1>3, <1>4 DEF TypeInv

-----------------------------------------------------------------------------
(* The gateway changes the ledger by the operations of the ledger only.    *)
LEMMA LedgerStep ==
    ASSUME TypeInv, [Next]_vars
    PROVE  [L!Next]_ledgerVars
<1>1. \A claims \in SUBSET Message : claims \in L!Merges
  BY DEF L!Merges
<1>2. ASSUME NEW m \in Message, Dispatch(m) PROVE L!Next
  BY <1>2 DEF Dispatch, Written, L!Next
<1>3. ASSUME Settle PROVE [L!Next]_ledgerVars
  <2> PICK claims \in disp.settle :
        \/ Written(L!Delivered(claims) \/ (UNCHANGED ledgerVars /\ \A m \in claims : ~ L!Open(m)))
        \/ Written(L!Fail(claims)) \/ WriteFails
    BY <1>3 DEF Settle
  <2>1. claims \in L!Merges
    BY <1>1, Shapes DEF TypeInv, DispType
  <2> QED BY <2>1 DEF Written, WriteFails, L!Next
<1>4. ASSUME StopSettles PROVE [L!Next]_ledgerVars
  <2>1. disp.msg \in Message
    BY <1>4, Shapes DEF TypeInv, DispType, StopSettles
  <2>2. L!DeliveredSession("session", {disp.msg}) \/ L!FailSession("session", {disp.msg})
           \/ UNCHANGED ledgerVars
    BY <1>4 DEF StopSettles, Written, WriteFails
  <2> QED BY <2>1, <2>2 DEF L!Next
<1>5. ASSUME NEW t \in Turn, TurnFails(t) PROVE [L!Next]_ledgerVars
  <2>1. turns[t].claims \in L!Merges
    BY <1>1, <1>5, Shapes DEF TypeInv, TurnsType
  <2>2. L!Fail(turns[t].claims) \/ UNCHANGED ledgerVars
    BY <1>5 DEF TurnFails, Written, WriteFails
  <2> QED BY <2>1, <2>2 DEF L!Next
<1>6. ASSUME NEW t \in Turn, TurnPrepares(t) PROVE [L!Next]_ledgerVars
  <2>1. turns[t].claims \in L!Merges /\ turns[t].msg \in Message
    BY <1>1, <1>6, Shapes DEF TypeInv, TurnsType, TurnPrepares
  <2>2. ChunksOf[turns[t].msg] \in 1..MaxChunks
    BY <2>1, GatewayAssumption
  <2>3. L!Prepare(turns[t].msg, turns[t].claims, ChunksOf[turns[t].msg]) \/ UNCHANGED ledgerVars
    BY <1>6 DEF TurnPrepares, Written, WriteFails, NoWrite
  <2> QED BY <2>1, <2>2, <2>3 DEF L!Next
<1>7. ASSUME NEW k \in Message, Send(k) PROVE [L!Next]_ledgerVars
  <2>1. \/ L!BeginAttempt(k) \/ L!FailAttempt(k) \/ L!AckChunk(k) \/ L!AckLast(k)
        \/ UNCHANGED ledgerVars
    BY <1>7 DEF Send, SendRead, SendBegin, SendPost, SendFail, SendAck, Written, WriteFails, NoWrite
  <2> QED BY <2>1 DEF L!Next
<1>8. ASSUME Start PROVE [L!Next]_ledgerVars
  BY <1>8 DEF Start, Restart, RecoverNext, Started, Written, WriteFails, NoWrite, L!Next
<1>9. CASE DispatchLoop
  <2>1. CASE \E m \in Message : DispatchClaimFails(m) \/ DispatchDuplicate(m)
    BY <2>1 DEF DispatchClaimFails, DispatchDuplicate, WriteFails, NoWrite
  <2>2. CASE ReplyAtOnce \/ StartTurn \/ Enqueue \/ Interrupt \/ ReplacePending \/ StopCommand
    BY <2>2 DEF ReplyAtOnce, StartTurn, Enqueue, Interrupt, ReplacePending, StopCommand, NoWrite
  <2> QED BY <1>2, <1>3, <1>4, <1>9, <2>1, <2>2 DEF DispatchLoop
<1>10. CASE \E t \in Turn : RunTurn(t)
  <2>1. CASE \E t \in Turn : TurnBegins(t) \/ TurnReturns(t) \/ TurnEnds(t) \/ TurnReleases(t)
    BY <2>1 DEF TurnBegins, TurnReturns, TurnEnds, TurnReleases, NoWrite
  <2> QED BY <1>5, <1>6, <1>10, <2>1 DEF RunTurn
<1>11. CASE Crash \/ (\E m \in Message : Duplicate(m)) \/ UNCHANGED vars
  BY <1>11 DEF Crash, Duplicate, vars, ledgerVars
<1> QED BY <1>7, <1>8, <1>9, <1>10, <1>11 DEF Next, Waiting

(* The gateway implements the ledger, whose theorems then hold of it: the  *)
(* checkpoint covers exactly the answered prefix, an answer is final, the  *)
(* file opens again (deliveryLedger below handleMessage, runTurn and       *)
(* sendOutboundObligation).                                                *)
THEOREM GatewayImplementsLedger == Spec => L!Spec
<1> DEFINE J == LP!IInv /\ TypeInv
<1>1. Init => J
  BY LedgerStarts, TypeStart DEF Init
<1>2. J /\ [Next]_vars => J' /\ [L!Next]_L!ledgerVars
  BY TypeStep, LedgerStep, LedgerKept DEF ledgerVars, L!ledgerVars
<1>3. Init => L!Init
  BY DEF Init
<1> QED BY <1>1, <1>2, <1>3, PTL DEF Spec, L!Spec

-----------------------------------------------------------------------------
(* What the operations of the ledger do to the statuses and the answers.   *)
LEMMA MarkedAt ==
    ASSUME LP!IInv, NEW S, NEW st
    PROVE  \A m \in Message : L!Marked(S, st)[m].status = IF m \in S THEN st ELSE records[m].status
<1>1. \A m \in Message : records[m] \in L!Record
  BY LedgerFacts
<1> QED BY <1>1 DEF L!Marked, L!Record

(* The ledger of the gateway is never full: nothing is forgotten.          *)
LEMMA ClaimEffect ==
    ASSUME LP!IInv, NEW m \in Message, L!Claim(m, TRUE)
    PROVE  /\ ~ L!Owned(m) /\ records[m].status \notin {"delivered", "processing"}
           /\ obligations' = obligations
           /\ \A x \in Message : records'[x].status = IF x = m THEN "processing" ELSE records[x].status
<1>1. /\ ~ L!Owned(m) /\ records[m].status \notin {"delivered", "processing"}
      /\ obligations' = obligations
  BY DEF L!Claim, L!MayClaim
<1> DEFINE P == {x \in Message : L!Present(x)}
<1>2. IsFiniteSet(P) /\ Cardinality(P) \in Nat /\ Cardinality(P) <= Cardinality(Message)
  BY GatewayAssumption, FS_Subset, FS_CardinalityType
<1>3. Cardinality(Message) \in Nat
  BY GatewayAssumption, FS_CardinalityType
<1>4. L!Overflow(m) = 0
  BY <1>2, <1>3, SameCardinality DEF L!Overflow
<1> PICK gone \in SUBSET L!Removable :
        /\ L!Cardinality(gone) = L!Overflow(m)
        /\ \A x \in Message : x # m /\ x \notin gone => records'[x] = records[x]
        /\ records'[m].status = "processing"
  BY DEF L!Claim
<1>5. IsFiniteSet(gone)
  BY GatewayAssumption, FS_Subset DEF L!Removable
<1>6. gone = {}
  BY <1>4, <1>5, SameCardinality, FS_EmptySet
<1> QED BY <1>1, <1>6

LEMMA PrepareEffect ==
    ASSUME LP!IInv, NEW k \in Message, NEW C \in SUBSET Message, NEW n \in Nat, L!Prepare(k, C, n)
    PROVE  /\ ~ L!Owed(k) /\ k \in C /\ \A m \in C : L!Open(m) /\ ~ L!Owned(m)
           /\ records' = records
           /\ \A j \in Message : j # k => obligations'[j] = obligations[j]
           /\ obligations'[k].status = "pending" /\ obligations'[k].claims = C
           /\ obligations'[k].chunks = n /\ obligations'[k].next = 0
<1>1. obligations' = [obligations EXCEPT ![k] =
           [status |-> "pending", claims |-> C, chunks |-> n, next |-> 0, attempts |-> 0]]
  BY DEF L!Prepare
<1>2. DOMAIN obligations = Message
  BY LedgerFacts
<1> QED BY <1>1, <1>2 DEF L!Prepare, L!MayPrepare

LEMMA BeginEffect ==
    ASSUME LP!IInv, NEW k \in Message, L!BeginAttempt(k)
    PROVE  /\ L!Owed(k)
           /\ \A j \in Message : j # k => obligations'[j] = obligations[j]
           /\ obligations'[k].status = "attempting"
           /\ obligations'[k].claims = obligations[k].claims
           /\ obligations'[k].chunks = obligations[k].chunks
           /\ obligations'[k].next = obligations[k].next
           /\ \A m \in Message : records'[m].status = IF m \in obligations[k].claims THEN "processing"
                                                      ELSE records[m].status
<1>1. obligations \in [Message -> L!Obligation]
  BY LedgerFacts
<1>2. obligations[k] \in L!Obligation
  BY <1>1
<1>3. obligations' = [obligations EXCEPT ![k] = [obligations[k] EXCEPT !.status = "attempting", !.attempts = 1]]
  BY DEF L!BeginAttempt
<1> DEFINE x == [obligations[k] EXCEPT !.status = "attempting", !.attempts = 1]
<1>4. /\ x.status = "attempting" /\ x.claims = obligations[k].claims
      /\ x.chunks = obligations[k].chunks /\ x.next = obligations[k].next
  BY <1>2 DEF L!Obligation
<1> HIDE DEF x
<1>5. obligations'[k] = x /\ \A j \in Message : j # k => obligations'[j] = obligations[j]
  BY <1>1, <1>3 DEF x
<1>6. L!Owed(k) /\ records' = L!Marked(obligations[k].claims, "processing")
  BY DEF L!BeginAttempt
<1> QED BY <1>4, <1>5, <1>6, MarkedAt

LEMMA FailAttemptEffect ==
    ASSUME LP!IInv, NEW k \in Message, L!FailAttempt(k)
    PROVE  /\ L!Owed(k)
           /\ \A j \in Message : j # k => obligations'[j] = obligations[j]
           /\ obligations'[k].status = "failed"
           /\ obligations'[k].claims = obligations[k].claims
           /\ obligations'[k].chunks = obligations[k].chunks
           /\ obligations'[k].next = obligations[k].next
           /\ \A m \in Message : records'[m].status = IF m \in obligations[k].claims THEN "failed"
                                                      ELSE records[m].status
<1>1. obligations \in [Message -> L!Obligation] /\ L!Owed(k)
  BY LedgerFacts DEF L!FailAttempt
<1>2. obligations[k] \in L!Obligation /\ {m \in obligations[k].claims : L!Open(m)} = obligations[k].claims
  BY <1>1, LedgerFacts
<1>3. obligations' = [obligations EXCEPT ![k] = [obligations[k] EXCEPT !.status = "failed"]]
  BY <1>1 DEF L!FailAttempt
<1> DEFINE x == [obligations[k] EXCEPT !.status = "failed"]
<1>4. /\ x.status = "failed" /\ x.claims = obligations[k].claims
      /\ x.chunks = obligations[k].chunks /\ x.next = obligations[k].next
  BY <1>2 DEF L!Obligation
<1> HIDE DEF x
<1>5. obligations'[k] = x /\ \A j \in Message : j # k => obligations'[j] = obligations[j]
  BY <1>1, <1>3 DEF x
<1>6. records' = L!Marked(obligations[k].claims, "failed")
  BY <1>2 DEF L!FailAttempt
<1> QED BY <1>1, <1>4, <1>5, <1>6, MarkedAt

LEMMA AckChunkEffect ==
    ASSUME LP!IInv, NEW k \in Message, L!AckChunk(k)
    PROVE  /\ obligations[k].status = "attempting" /\ L!Owed(k)
           /\ records' = records
           /\ \A j \in Message : j # k => obligations'[j] = obligations[j]
           /\ obligations'[k].status = "pending"
           /\ obligations'[k].claims = obligations[k].claims
           /\ obligations'[k].chunks = obligations[k].chunks
           /\ obligations'[k].next = obligations[k].next + 1
<1>1. obligations \in [Message -> L!Obligation] /\ obligations[k].status = "attempting"
      /\ records' = records
  BY LedgerFacts DEF L!AckChunk
<1>2. obligations[k] \in L!Obligation
  BY <1>1
<1> DEFINE x == [obligations[k] EXCEPT !.status = "pending", !.next = @ + 1]
<1>3. obligations' = [obligations EXCEPT ![k] = x]
  BY <1>1 DEF L!AckChunk
<1>4. /\ x.status = "pending" /\ x.claims = obligations[k].claims
      /\ x.chunks = obligations[k].chunks /\ x.next = obligations[k].next + 1
  BY <1>2 DEF L!Obligation
<1> HIDE DEF x
<1>5. obligations'[k] = x /\ \A j \in Message : j # k => obligations'[j] = obligations[j]
  BY <1>1, <1>3
<1> QED BY <1>1, <1>4, <1>5 DEF L!Owed

LEMMA AckLastEffect ==
    ASSUME LP!IInv, NEW k \in Message, L!AckLast(k)
    PROVE  /\ obligations[k].status = "attempting" /\ L!Owed(k)
           /\ obligations[k].next + 1 = obligations[k].chunks
           /\ \A j \in Message : j # k => obligations'[j] = obligations[j]
           /\ obligations'[k] = L!NoObligation
           /\ \A m \in Message : records'[m].status = IF m \in obligations[k].claims THEN "delivered"
                                                      ELSE records[m].status
<1>1. obligations \in [Message -> L!Obligation] /\ obligations[k].status = "attempting"
      /\ L!Owed(k) /\ ~ L!MoreChunks(k)
  BY LedgerFacts DEF L!AckLast, L!Owed
<1>2. obligations[k].next < obligations[k].chunks /\ obligations[k] \in L!Obligation
  BY <1>1, LedgerFacts
<1>3. obligations[k].next \in Nat /\ obligations[k].chunks \in Nat
  BY <1>2, GatewayAssumption DEF L!Obligation
<1>4. obligations[k].next + 1 = obligations[k].chunks
  BY <1>1, <1>2, <1>3 DEF L!MoreChunks
<1>5. /\ obligations' = [obligations EXCEPT ![k] = L!NoObligation]
      /\ records' = L!Marked(obligations[k].claims, "delivered")
  BY DEF L!AckLast
<1> QED BY <1>1, <1>4, <1>5, MarkedAt

LEMMA FailEffect ==
    ASSUME LP!IInv, NEW C \in SUBSET Message, L!Fail(C)
    PROVE  /\ obligations' = obligations
           /\ \A m \in Message : records'[m].status = IF m \in C /\ L!Open(m) THEN "failed"
                                                      ELSE records[m].status
<1>1. obligations' = obligations /\ records' = L!Marked({m \in C : L!Open(m)}, "failed")
  BY DEF L!Fail
<1> QED BY <1>1, MarkedAt

LEMMA DeliveredEffect ==
    ASSUME LP!IInv, NEW C \in SUBSET Message, L!Delivered(C)
    PROVE  /\ \A m \in Message : records'[m].status = IF m \in C THEN "delivered"
                                                      ELSE records[m].status
           /\ \A k \in Message : obligations'[k] = IF obligations[k].claims \cap C # {}
                                                   THEN L!NoObligation ELSE obligations[k]
<1>1. /\ \A m \in C : L!Present(m)
      /\ records' = L!Marked({m \in C : L!Open(m)}, "delivered")
      /\ obligations' = L!WithoutAnswersTo(C)
  BY DEF L!Delivered
<1>2. \A m \in C : L!Open(m) \/ records[m].status = "delivered"
  BY <1>1 DEF L!Present, L!Open
<1> QED BY <1>1, <1>2, MarkedAt DEF L!WithoutAnswersTo

LEMMA SessionEffect ==
    ASSUME LP!IInv, NEW x \in Message, L!DeliveredSession("session", {x})
    PROVE  /\ \A m \in Message : records'[m].status = IF m # x /\ L!Open(m) THEN "delivered"
                                                      ELSE records[m].status
           /\ \A k \in Message : obligations'[k] =
                 IF obligations[k].claims \cap {m \in Message \ {x} : L!Open(m)} # {}
                 THEN L!NoObligation ELSE obligations[k]
<1> DEFINE done == {m \in L!InSession("session", {x}) : L!Open(m)}
<1>1. done = {m \in Message \ {x} : L!Open(m)}
  BY DEF L!InSession
<1>2. /\ records' = L!Marked(done, "delivered")
      /\ obligations' = L!WithoutAnswersTo(done)
  BY DEF L!DeliveredSession
<1> HIDE DEF done
<1> QED BY <1>1, <1>2, MarkedAt DEF L!WithoutAnswersTo

LEMMA ReopenEffect ==
    ASSUME LP!IInv, L!Reopen
    PROVE  /\ obligations' = obligations
           /\ \A m \in Message : records'[m].status = IF records[m].status = "processing"
                                                      THEN "interrupted" ELSE records[m].status
<1>1. /\ obligations' = obligations
      /\ records' = L!Marked({m \in Message : records[m].status = "processing"}, "interrupted")
  BY DEF L!Reopen
<1> QED BY <1>1, MarkedAt

-----------------------------------------------------------------------------
(* The steps of the gateway by what they do to the stored answers, to the  *)
(* senders and to the screen.                                              *)
SenderRests(k) == sender'[k] = sender[k] \/ sender'[k].pc \in {"idle", "read"}
SameSettled == \A m \in Message : records'[m].status = "delivered" <=> records[m].status = "delivered"

(* Most steps do nothing to any of them.                                   *)
Quiet == /\ UNCHANGED <<obligations, screen, answerRun>>
         /\ SameSettled
         /\ \A k \in Message : SenderRests(k)

(* A reply or an acknowledgement settles claims; their answers are dropped.*)
Settles(C) ==
    /\ disp.ok /\ disp' # disp
    /\ \/ disp.pc = "settle" /\ C \in disp.settle
       \/ disp.pc = "stopped"
    /\ UNCHANGED <<screen, answerRun, sender>>
    /\ \A m \in Message : records'[m].status = "delivered" <=> records[m].status = "delivered" \/ m \in C
    /\ \A k \in Message : obligations'[k] = IF obligations[k].claims \cap C # {} THEN L!NoObligation
                                            ELSE obligations[k]

(* A turn stores its answer.                                               *)
Stores(t) ==
    /\ TurnPrepares(t) /\ turns[t].pc = "answered"
    /\ L!Prepare(turns[t].msg, turns[t].claims, ChunksOf[turns[t].msg])
    /\ answerRun' = [answerRun EXCEPT ![turns[t].msg] = turns[t].run]
    /\ UNCHANGED screen
    /\ \A k \in Message : SenderRests(k)

(* The sender of k reads, begins, fails, acknowledges a chunk, finishes.   *)
Others(k) == \A j \in Message : j # k => sender'[j] = sender[j]
Reads(k) ==
    /\ sender[k].pc = "read" /\ L!Owed(k)
    /\ sender'[k].pc = "begin" /\ sender'[k].marked = Ambiguous(k) /\ Others(k)
    /\ UNCHANGED <<ledgerVars, screen, answerRun>>
Begins(k) ==
    /\ sender[k].pc = "begin" /\ L!BeginAttempt(k)
    /\ sender'[k].pc = "post" /\ sender'[k].marked = sender[k].marked
    /\ sender'[k].chunk = obligations[k].next /\ Others(k)
    /\ UNCHANGED <<screen, answerRun>>
Posts(k) == SendPost(k) /\ Others(k)
Fails(k) ==
    /\ sender[k].pc = "fail" /\ L!FailAttempt(k)
    /\ sender'[k].pc = "idle" /\ Others(k)
    /\ UNCHANGED <<screen, answerRun>>
Acks(k) ==
    /\ sender[k].pc = "ack" /\ L!AckChunk(k)
    /\ sender'[k].pc = "read" /\ Others(k)
    /\ UNCHANGED <<screen, answerRun>>
Finishes(k) ==
    /\ sender[k].pc = "ack" /\ L!AckLast(k)
    /\ sender'[k].pc = "idle" /\ Others(k)
    /\ UNCHANGED <<screen, answerRun>>

(* Failing claims and reopening the ledger settle nothing.                 *)
LEMMA NothingSettled ==
    ASSUME LP!IInv
    PROVE  /\ \A C \in SUBSET Message : L!Fail(C) => SameSettled /\ UNCHANGED obligations
           /\ \A m \in Message : L!Claim(m, TRUE) => SameSettled /\ UNCHANGED obligations
           /\ L!Reopen => SameSettled /\ UNCHANGED obligations
           /\ UNCHANGED ledgerVars => SameSettled /\ UNCHANGED obligations
<1>1. ASSUME NEW C \in SUBSET Message, L!Fail(C)
      PROVE  SameSettled /\ UNCHANGED obligations
  BY <1>1, FailEffect DEF SameSettled, L!Open
<1>2. ASSUME NEW m \in Message, L!Claim(m, TRUE)
      PROVE  SameSettled /\ UNCHANGED obligations
  BY <1>2, ClaimEffect DEF SameSettled
<1>3. ASSUME L!Reopen
      PROVE  SameSettled /\ UNCHANGED obligations
  BY <1>3, ReopenEffect DEF SameSettled
<1>4. UNCHANGED ledgerVars => SameSettled /\ UNCHANGED obligations
  BY DEF ledgerVars, SameSettled
<1> QED BY <1>1, <1>2, <1>3, <1>4

(* A sender that returns leaves the others alone.                          *)
LEMMA ReturnRests ==
    ASSUME TypeInv, NEW k \in Message, SenderReturns(k)
    PROVE  sender'[k].pc = "idle" /\ Others(k) /\ \A j \in Message : SenderRests(j)
<1>1. sender' = [sender EXCEPT ![k] = IdleSender]
  BY DEF SenderReturns
<1>2. sender'[k] = IdleSender /\ \A j \in Message : j # k => sender'[j] = sender[j]
  BY <1>1 DEF TypeInv, SendersType
<1> QED BY <1>2 DEF Others, SenderRests, IdleSender

(* What the dispatch loop does.                                            *)
LEMMA DispatchSteps ==
    ASSUME LP!IInv, TypeInv, DispatchLoop
    PROVE  Quiet \/ \E C \in SUBSET Message : Settles(C)
<1>1. ASSUME NEW m \in Message, Dispatch(m) \/ DispatchClaimFails(m)
      PROVE  Quiet
  <2>1. UNCHANGED <<screen, answerRun, sender>>
    BY <1>1 DEF Dispatch, DispatchClaimFails, chatVars
  <2>2. L!Claim(m, TRUE) \/ UNCHANGED ledgerVars
    BY <1>1 DEF Dispatch, DispatchClaimFails, Written, WriteFails
  <2> QED BY <2>1, <2>2, NothingSettled DEF Quiet, SenderRests
<1>2. ASSUME NEW m \in Message, DispatchDuplicate(m)
      PROVE  Quiet
  <2>1. UNCHANGED <<screen, answerRun>> /\ UNCHANGED ledgerVars
    BY <1>2 DEF DispatchDuplicate, NoWrite
  <2>2. \A k \in Message : SenderRests(k)
    <3>1. CASE UNCHANGED sender
      BY <3>1 DEF SenderRests
    <3>2. CASE \E k \in Message : StartSender(k, "dispatch", NoTurn)
      BY <3>2, SenderStarts DEF SenderRests, TypeInv
    <3> QED BY <1>2, <3>1, <3>2 DEF DispatchDuplicate
  <2> QED BY <2>1, <2>2, NothingSettled DEF Quiet
<1>3. ASSUME Settle
      PROVE  Quiet \/ \E C \in SUBSET Message : Settles(C)
  <2> PICK C \in disp.settle :
         /\ disp' = IF disp.settle = {C} THEN IdleDisp ELSE [disp EXCEPT !.settle = @ \ {C}]
         /\ \/ /\ disp.ok
               /\ Written(L!Delivered(C) \/ (UNCHANGED ledgerVars /\ \A m \in C : ~ L!Open(m)))
            \/ Written(L!Fail(C)) \/ WriteFails
    BY <1>3 DEF Settle
  <2>1. disp \in DispSet /\ disp.pc = "settle" /\ C \in SUBSET Message
    BY <1>3, Shapes DEF TypeInv, DispType, Settle
  <2>2. UNCHANGED <<screen, answerRun, sender>>
    BY <1>3 DEF Settle
  <2>3. CASE L!Fail(C) \/ UNCHANGED ledgerVars
    BY <2>1, <2>2, <2>3, NothingSettled DEF Quiet, SenderRests
  <2>4. CASE disp.ok /\ L!Delivered(C)
    <3>1. disp' # disp
      <4>1. CASE disp.settle = {C}
        BY <2>1, <4>1 DEF IdleDisp
      <4>2. CASE disp.settle # {C}
        <5>1. disp'.settle = disp.settle \ {C}
          BY <2>1, <4>2 DEF DispSet
        <5> QED BY <5>1
      <4> QED BY <4>1, <4>2
    <3>2. Settles(C)
      BY <2>1, <2>2, <2>4, <3>1, DeliveredEffect DEF Settles
    <3> QED BY <2>1, <3>2
  <2> QED BY <2>3, <2>4 DEF Written, WriteFails
<1>4. ASSUME StopSettles
      PROVE  Quiet \/ \E C \in SUBSET Message : Settles(C)
  <2> DEFINE C == {m \in Message \ {disp.msg} : L!Open(m)}
  <2>1. disp \in DispSet /\ disp.pc = "stopped" /\ disp.msg \in Message
    BY <1>4, Shapes DEF TypeInv, DispType, StopSettles
  <2>2. UNCHANGED <<screen, answerRun, sender>>
    BY <1>4 DEF StopSettles
  <2>3. CASE L!FailSession("session", {disp.msg}) \/ UNCHANGED ledgerVars
    <3>1. L!InSession("session", {disp.msg}) \in SUBSET Message
      BY DEF L!InSession
    <3> QED BY <2>2, <2>3, <3>1, NothingSettled DEF Quiet, SenderRests, L!FailSession
  <2>4. CASE disp.ok /\ L!DeliveredSession("session", {disp.msg})
                     /\ disp' = [disp EXCEPT !.pc = "settle", !.settle = {{disp.msg}}]
    <3>1. disp' # disp
      <4>1. disp'.pc = "settle"
        BY <2>1, <2>4 DEF DispSet
      <4> QED BY <2>1, <4>1
    <3>2. \A m \in Message : (m # disp.msg /\ L!Open(m)) <=> m \in C
      OBVIOUS
    <3>3. C = {m \in Message \ {disp.msg} : L!Open(m)}
      OBVIOUS
    <3> HIDE DEF C
    <3>4. /\ \A m \in Message : records'[m].status = IF m \in C THEN "delivered" ELSE records[m].status
          /\ \A k \in Message : obligations'[k] = IF obligations[k].claims \cap C # {} THEN L!NoObligation
                                                  ELSE obligations[k]
      BY <2>1, <2>4, <3>2, <3>3, SessionEffect
    <3>5. Settles(C)
      BY <2>1, <2>2, <2>4, <3>1, <3>4 DEF Settles
    <3> QED BY <3>3, <3>5
  <2> QED BY <1>4, <2>3, <2>4 DEF StopSettles, Written, WriteFails
<1>5. ASSUME ReplyAtOnce \/ StartTurn \/ Enqueue \/ Interrupt \/ ReplacePending \/ StopCommand
      PROVE  Quiet
  <2>1. UNCHANGED <<screen, answerRun, sender>> /\ UNCHANGED ledgerVars
    BY <1>5 DEF ReplyAtOnce, StartTurn, Enqueue, Interrupt, ReplacePending, StopCommand, NoWrite, chatVars
  <2> QED BY <2>1, NothingSettled DEF Quiet, SenderRests
<1> QED BY <1>1, <1>2, <1>3, <1>4, <1>5 DEF DispatchLoop

(* What a turn goroutine does.                                             *)
LEMMA TurnSteps ==
    ASSUME LP!IInv, TypeInv, NEW t \in Turn, RunTurn(t)
    PROVE  Quiet \/ Stores(t)
<1>1. CASE TurnBegins(t) \/ TurnReturns(t) \/ TurnEnds(t) \/ TurnReleases(t)
  <2>1. UNCHANGED <<screen, answerRun, sender>> /\ UNCHANGED ledgerVars
    BY <1>1 DEF TurnBegins, TurnReturns, TurnEnds, TurnReleases, NoWrite, chatVars
  <2> QED BY <2>1, NothingSettled DEF Quiet, SenderRests
<1>2. CASE TurnFails(t)
  <2>1. UNCHANGED <<screen, answerRun, sender>> /\ (L!Fail(turns[t].claims) \/ UNCHANGED ledgerVars)
    BY <1>2 DEF TurnFails, Written, WriteFails
  <2>2. turns[t].claims \in SUBSET Message
    BY Shapes DEF TypeInv, TurnsType
  <2> QED BY <2>1, <2>2, NothingSettled DEF Quiet, SenderRests
<1>3. CASE TurnPrepares(t)
  <2>1. turns[t].msg \in Message /\ turns[t].pc = "answered"
    BY <1>3, Shapes DEF TypeInv, TurnsType, TurnPrepares
  <2>2. CASE UNCHANGED <<ledgerVars, answerRun, sender>>
    BY <1>3, <2>2, NothingSettled DEF Quiet, SenderRests, TurnPrepares
  <2>3. CASE ~ UNCHANGED <<ledgerVars, answerRun, sender>>
    <3>1. /\ L!Prepare(turns[t].msg, turns[t].claims, ChunksOf[turns[t].msg])
          /\ answerRun' = [answerRun EXCEPT ![turns[t].msg] = turns[t].run]
          /\ StartSender(turns[t].msg, "turn", t) \/ UNCHANGED sender
      BY <1>3, <2>3 DEF TurnPrepares, Written, WriteFails, NoWrite
    <3>2. \A k \in Message : SenderRests(k)
      BY <2>1, <3>1, SenderStarts DEF SenderRests, TypeInv
    <3> QED BY <1>3, <2>1, <3>1, <3>2 DEF Stores, TurnPrepares
  <2> QED BY <2>2, <2>3
<1> QED BY <1>1, <1>2, <1>3 DEF RunTurn

(* What a sender does.                                                     *)
LEMMA SendSteps ==
    ASSUME LP!IInv, TypeInv, NEW k \in Message, Send(k)
    PROVE  Quiet \/ Reads(k) \/ Begins(k) \/ Posts(k) \/ Fails(k) \/ Acks(k) \/ Finishes(k)
<1>0. sender \in [Message -> SenderSet] /\ sender[k] \in SenderSet
  BY DEF TypeInv, SendersType
<1>1. CASE SendRead(k)
  <2>1. UNCHANGED <<ledgerVars, screen, answerRun>>
    BY <1>1 DEF SendRead, NoWrite, chatVars
  <2>2. CASE SenderReturns(k)
    BY <2>1, <2>2, ReturnRests, NothingSettled DEF Quiet
  <2>3. CASE ~ SenderReturns(k)
    <3>1. /\ sender[k].pc = "read" /\ L!Owed(k)
          /\ sender' = [sender EXCEPT ![k].pc = "begin", ![k].marked = Ambiguous(k)]
      BY <1>1, <2>3 DEF SendRead
    <3>2. sender'[k].pc = "begin" /\ sender'[k].marked = Ambiguous(k) /\ Others(k)
      BY <1>0, <3>1 DEF Others, SenderSet
    <3> QED BY <2>1, <3>1, <3>2 DEF Reads
  <2> QED BY <2>2, <2>3
<1>2. CASE SendBegin(k)
  <2>1. UNCHANGED <<screen, answerRun>>
    BY <1>2 DEF SendBegin, chatVars
  <2>2. CASE UNCHANGED ledgerVars /\ SenderReturns(k)
    BY <2>1, <2>2, ReturnRests, NothingSettled DEF Quiet
  <2>3. CASE ~ (UNCHANGED ledgerVars /\ SenderReturns(k))
    <3>1. /\ sender[k].pc = "begin" /\ L!BeginAttempt(k)
          /\ sender' = [sender EXCEPT ![k].pc = "post", ![k].chunk = obligations[k].next,
                                      ![k].claims = obligations[k].claims]
      BY <1>2, <2>3 DEF SendBegin, Written, WriteFails, NoWrite
    <3>2. /\ sender'[k].pc = "post" /\ sender'[k].marked = sender[k].marked
          /\ sender'[k].chunk = obligations[k].next /\ Others(k)
      BY <1>0, <3>1 DEF Others, SenderSet
    <3> QED BY <2>1, <3>1, <3>2 DEF Begins
  <2> QED BY <2>2, <2>3
<1>3. CASE SendPost(k)
  <2> PICK pc \in {"ack", "fail"} : sender' = [sender EXCEPT ![k].pc = pc]
    BY <1>3 DEF SendPost
  <2> QED BY <1>0, <1>3 DEF Posts, Others
<1>4. CASE SendFail(k)
  <2>1. UNCHANGED <<screen, answerRun>> /\ SenderReturns(k)
    BY <1>4 DEF SendFail
  <2>2. CASE UNCHANGED ledgerVars
    BY <2>1, <2>2, ReturnRests, NothingSettled DEF Quiet
  <2>3. CASE L!FailAttempt(k)
    BY <1>4, <2>1, <2>3, ReturnRests DEF Fails, SendFail
  <2> QED BY <1>4, <2>2, <2>3 DEF SendFail, Written, WriteFails, NoWrite
<1>5. CASE SendAck(k)
  <2>1. UNCHANGED <<screen, answerRun>> /\ sender[k].pc = "ack"
    BY <1>5 DEF SendAck, chatVars
  <2>2. CASE UNCHANGED ledgerVars /\ SenderReturns(k)
    BY <2>1, <2>2, ReturnRests, NothingSettled DEF Quiet
  <2>3. CASE L!AckLast(k) /\ SenderReturns(k)
    BY <2>1, <2>3, ReturnRests DEF Finishes
  <2>4. CASE L!AckChunk(k) /\ sender' = [sender EXCEPT ![k].pc = "read"]
    <3>1. sender'[k].pc = "read" /\ Others(k)
      BY <1>0, <2>4 DEF Others, SenderSet
    <3> QED BY <2>1, <2>4, <3>1 DEF Acks
  <2> QED BY <1>5, <2>2, <2>3, <2>4 DEF SendAck, Written, WriteFails, NoWrite
<1> QED BY <1>1, <1>2, <1>3, <1>4, <1>5 DEF Send

(* The steps of the gateway.                                               *)
LEMMA Steps ==
    ASSUME LP!IInv, TypeInv, [Next]_vars
    PROVE  \/ Quiet
           \/ \E C \in SUBSET Message : Settles(C)
           \/ \E t \in Turn : Stores(t)
           \/ \E k \in Message : Reads(k) \/ Begins(k) \/ Posts(k) \/ Fails(k) \/ Acks(k) \/ Finishes(k)
<1>1. CASE DispatchLoop
  BY <1>1, DispatchSteps
<1>2. CASE \E t \in Turn : RunTurn(t)
  BY <1>2, TurnSteps
<1>3. CASE \E k \in Message : Send(k)
  BY <1>3, SendSteps
<1>4. CASE Crash
  BY <1>4, NothingSettled DEF Crash, Quiet, SenderRests, IdleSender
<1>5. CASE \E k \in Message : RecoverNext(k)
  <2> PICK k \in Message : RecoverNext(k)
    BY <1>5
  <2>1. UNCHANGED <<screen, answerRun, ledgerVars>>
    BY DEF RecoverNext, NoWrite, chatVars
  <2>2. \A j \in Message : SenderRests(j)
    BY SenderStarts DEF RecoverNext, TypeInv, SenderRests
  <2> QED BY <2>1, <2>2, NothingSettled DEF Quiet
<1>6. CASE Restart \/ Started \/ (\E m \in Message : Duplicate(m)) \/ UNCHANGED vars
  <2>1. UNCHANGED <<screen, answerRun, sender>>
    BY <1>6 DEF Restart, Started, Duplicate, vars, chatVars
  <2>2. L!Reopen \/ UNCHANGED ledgerVars
    BY <1>6 DEF Restart, Started, Duplicate, vars, Written, WriteFails, NoWrite
  <2> QED BY <2>1, <2>2, NothingSettled DEF Quiet, SenderRests
<1> QED BY <1>1, <1>2, <1>3, <1>4, <1>5, <1>6 DEF Next, Waiting, Start

-----------------------------------------------------------------------------
(* Progress.                                                               *)

(* A post adds its chunk to those the user has seen.                       *)
LEMMA OneMoreShown ==
    ASSUME NEW s \in Seq(Post), NEW p \in Post
    PROVE  /\ Append(s, p) \in Seq(Post)
           /\ {Append(s, p)[i].chunk : i \in DOMAIN Append(s, p)} = {s[i].chunk : i \in DOMAIN s} \cup {p.chunk}
<1> DEFINE a == Append(s, p)
<1>1. /\ a \in Seq(Post) /\ Len(s) \in Nat
      /\ DOMAIN a = 1..(Len(s) + 1) /\ DOMAIN s = 1..Len(s)
      /\ a[Len(s) + 1] = p /\ \A i \in 1..Len(s) : a[i] = s[i]
  OBVIOUS
<1> HIDE DEF a
<1>2. \A i \in DOMAIN a : i = Len(s) + 1 \/ i \in DOMAIN s
  BY <1>1
<1>3. DOMAIN s \subseteq DOMAIN a /\ Len(s) + 1 \in DOMAIN a
  BY <1>1
<1>4. \A i \in DOMAIN s : a[i] = s[i]
  BY <1>1
<1>5. {a[i].chunk : i \in DOMAIN a} = {s[i].chunk : i \in DOMAIN s} \cup {p.chunk}
  BY <1>1, <1>2, <1>3, <1>4
<1> QED BY <1>1, <1>5 DEF a

(* What SendPost shows.                                                    *)
LEMMA PostEffect ==
    ASSUME LP!IInv, TypeInv, Progress, NEW k \in Message, Posts(k)
    PROVE  /\ UNCHANGED <<ledgerVars, answerRun>>
           /\ sender[k].pc = "post" /\ sender'[k].pc \in {"ack", "fail"}
           /\ sender'[k].chunk = sender[k].chunk /\ sender'[k].marked = sender[k].marked
           /\ screen' \in [Message -> Seq(Post)]
           /\ \A j \in Message : j # k => screen'[j] = screen[j]
           /\ \/ screen'[k] = screen[k] /\ Shown(k)' = Shown(k) /\ sender'[k].pc = "fail"
              \/ /\ screen'[k] = Append(screen[k], [chunk |-> sender[k].chunk, run |-> answerRun[k],
                                                    marked |-> sender[k].marked])
                 /\ Shown(k)' = Shown(k) \cup {sender[k].chunk}
<1> DEFINE p == [chunk |-> sender[k].chunk, run |-> answerRun[k], marked |-> sender[k].marked]
<1>1. sender[k] \in SenderSet /\ sender \in [Message -> SenderSet]
  BY DEF TypeInv, SendersType
<1>2. p \in Post
  BY <1>1 DEF Post, SenderSet, TypeInv, ChatType
<1>3. /\ UNCHANGED <<ledgerVars, answerRun>> /\ sender[k].pc = "post"
  BY DEF Posts, SendPost
<1>4. /\ sender'[k].pc \in {"ack", "fail"}
      /\ sender'[k].chunk = sender[k].chunk /\ sender'[k].marked = sender[k].marked
  <2> PICK pc \in {"ack", "fail"} : sender' = [sender EXCEPT ![k].pc = pc]
    BY DEF Posts, SendPost
  <2> QED BY <1>1 DEF SenderSet
<1>5. \/ screen' = screen /\ sender'[k].pc = "fail"
      \/ screen' = [screen EXCEPT ![k] = Append(screen[k], p)]
  <2> PICK shown \in BOOLEAN, known \in BOOLEAN :
        /\ known => shown
        /\ screen' = IF ~ shown THEN screen ELSE [screen EXCEPT ![k] = Append(@, p)]
        /\ sender' = [sender EXCEPT ![k].pc = IF known THEN "ack" ELSE "fail"]
    BY DEF Posts, SendPost
  <2> QED BY <1>1 DEF SenderSet, Progress
<1>6. screen \in [Message -> Seq(Post)] /\ screen[k] \in Seq(Post)
  BY DEF Progress
<1>7. CASE screen' = screen /\ sender'[k].pc = "fail"
  BY <1>3, <1>4, <1>6, <1>7 DEF Shown
<1>8. CASE screen' = [screen EXCEPT ![k] = Append(screen[k], p)]
  <2> DEFINE a == Append(screen[k], p)
  <2>1. /\ a \in Seq(Post)
        /\ {a[i].chunk : i \in DOMAIN a} = {screen[k][i].chunk : i \in DOMAIN screen[k]} \cup {p.chunk}
    BY <1>2, <1>6, OneMoreShown
  <2> HIDE DEF a
  <2>2. screen' \in [Message -> Seq(Post)] /\ screen'[k] = a /\ \A j \in Message : j # k => screen'[j] = screen[j]
    BY <1>6, <1>8, <2>1 DEF a
  <2>3. Shown(k)' = Shown(k) \cup {sender[k].chunk}
    BY <2>1, <2>2 DEF Shown
  <2> QED BY <1>3, <1>4, <2>2, <2>3 DEF a
<1> QED BY <1>5, <1>7, <1>8

(* Dropping an answer, and a sender that rests, keep what is on the screen.*)
LEMMA ProgressFrame ==
    ASSUME NEW k \in Message, ProgressOf(k), SenderRests(k), screen'[k] = screen[k],
           obligations'[k] = obligations[k] \/ obligations'[k] = L!NoObligation
    PROVE  ProgressOf(k)'
<1>1. Shown(k)' = Shown(k)
  BY DEF Shown
<1>2. L!Owed(k)' \/ obligations'[k].status = "attempting" => obligations'[k] = obligations[k] /\ (L!Owed(k)' => L!Owed(k))
  BY DEF L!Owed, L!NoObligation
<1>3. sender'[k].pc \in {"post", "fail", "ack"} => sender'[k] = sender[k]
  BY DEF SenderRests
<1> QED BY <1>1, <1>2, <1>3 DEF ProgressOf, Posting

(* What the chunk counters of an answer are.                               *)
LEMMA Counters ==
    ASSUME LP!IInv, TypeInv, NEW k \in Message
    PROVE  /\ obligations[k].next \in Nat /\ obligations[k].chunks \in Nat
           /\ sender[k].chunk \in Nat /\ ChunksOf[k] \in Nat \ {0} /\ ChunksOf[k] <= MaxChunks
           /\ MaxChunks \in Nat \ {0}
<1>1. MaxChunks \in Nat \ {0} /\ ChunksOf \in [Message -> 1..MaxChunks]
  BY GatewayAssumption
<1>2. obligations[k] \in L!Obligation
  BY LedgerFacts
<1>3. obligations[k].next \in Nat /\ obligations[k].chunks \in Nat
  BY <1>1, <1>2 DEF L!Obligation
<1>4. sender[k].chunk \in Nat
  BY Shapes DEF TypeInv, SendersType
<1>5. ChunksOf[k] \in 1..MaxChunks
  BY <1>1
<1> QED BY <1>1, <1>3, <1>4, <1>5

(* A step of the gateway keeps the progress.                               *)
LEMMA ProgressStep ==
    ASSUME LP!IInv, TypeInv, Progress, [Next]_vars
    PROVE  Progress'
<1>1. CASE Quiet
  BY <1>1, ProgressFrame DEF Quiet, Progress
<1>2. CASE \E C \in SUBSET Message : Settles(C)
  BY <1>2, ProgressFrame DEF Settles, Progress, SenderRests
<1>3. CASE \E t \in Turn : Stores(t)
  <2> PICK t \in Turn : Stores(t)
    BY <1>3
  <2>0. turns[t].msg \in Message /\ turns[t].claims \in SUBSET Message
    BY Shapes DEF TypeInv, TurnsType, Stores
  <2> PICK p \in Message : p = turns[t].msg
    BY <2>0
  <2>1. p = turns[t].msg /\ turns[t].claims \in SUBSET Message
    BY <2>0
  <2>2. ChunksOf[p] \in Nat
    BY <2>1, Counters
  <2>3. /\ \A j \in Message : j # p => obligations'[j] = obligations[j]
        /\ obligations'[p].status = "pending" /\ obligations'[p].chunks = ChunksOf[p]
        /\ obligations'[p].next = 0
    BY <2>1, <2>2, PrepareEffect DEF Stores
  <2>4. screen' = screen /\ \A k \in Message : SenderRests(k)
    BY DEF Stores
  <2>5. ProgressOf(p)'
    <3>1. ProgressOf(p) /\ Shown(p)' = Shown(p)
      BY <2>1, <2>4 DEF Progress, Shown
    <3>2. sender'[p].pc \in {"post", "fail", "ack"} => sender'[p] = sender[p]
      BY <2>1, <2>4 DEF SenderRests
    <3>3. \A c \in Nat : ~ c < 0
      OBVIOUS
    <3> QED BY <2>3, <3>1, <3>2, <3>3 DEF ProgressOf, Posting
  <2>6. \A j \in Message : j # p => ProgressOf(j)'
    BY <2>3, <2>4, ProgressFrame DEF Progress
  <2> QED BY <2>4, <2>5, <2>6 DEF Progress
<1>4. ASSUME NEW k \in Message, Reads(k) \/ Begins(k) \/ Posts(k) \/ Fails(k) \/ Acks(k) \/ Finishes(k)
      PROVE  Progress'
  <2>1. ProgressOf(k)
    BY DEF Progress
  <2>2. \A j \in Message : j # k => obligations'[j] = obligations[j] /\ sender'[j] = sender[j]
                                    /\ screen'[j] = screen[j]
    <3>1. CASE Reads(k)
      BY <3>1 DEF Reads, Others, ledgerVars
    <3>2. CASE Begins(k)
      BY <3>2, BeginEffect DEF Begins, Others
    <3>3. CASE Posts(k)
      BY <3>3, PostEffect DEF Posts, Others, ledgerVars
    <3>4. CASE Fails(k)
      BY <3>4, FailAttemptEffect DEF Fails, Others
    <3>5. CASE Acks(k)
      BY <3>5, AckChunkEffect DEF Acks, Others
    <3>6. CASE Finishes(k)
      BY <3>6, AckLastEffect DEF Finishes, Others
    <3> QED BY <1>4, <3>1, <3>2, <3>3, <3>4, <3>5, <3>6
  <2>3. \A j \in Message : j # k => ProgressOf(j)'
    BY <2>2, ProgressFrame DEF Progress, SenderRests
  <2>4. screen' \in [Message -> Seq(Post)]
    <3>1. CASE Posts(k)
      BY <3>1, PostEffect
    <3>2. CASE ~ Posts(k)
      BY <1>4, <3>2 DEF Reads, Begins, Fails, Acks, Finishes, Progress
    <3> QED BY <3>1, <3>2
  <2>5. ProgressOf(k)'
    <3>1. CASE Reads(k)
      <4>1. Shown(k)' = Shown(k) /\ obligations'[k] = obligations[k] /\ sender'[k].pc = "begin"
        BY <3>1 DEF Reads, Shown, ledgerVars
      <4> QED BY <2>1, <4>1 DEF ProgressOf, Posting, L!Owed
    <3>2. CASE Begins(k)
      <4>1. /\ Shown(k)' = Shown(k) /\ L!Owed(k) /\ sender'[k].pc = "post"
            /\ sender'[k].chunk = obligations[k].next
            /\ obligations'[k].chunks = obligations[k].chunks
            /\ obligations'[k].next = obligations[k].next
            /\ obligations[k].next < obligations[k].chunks
        BY <3>2, BeginEffect, LedgerFacts DEF Begins, Shown
      <4> QED BY <2>1, <4>1 DEF ProgressOf, Posting
    <3>3. CASE Posts(k)
      <4>1. /\ obligations'[k] = obligations[k] /\ sender[k].pc = "post"
            /\ sender'[k].pc \in {"ack", "fail"} /\ sender'[k].chunk = sender[k].chunk
            /\ \/ Shown(k)' = Shown(k) /\ sender'[k].pc = "fail"
               \/ Shown(k)' = Shown(k) \cup {sender[k].chunk}
        BY <3>3, PostEffect DEF ledgerVars
      <4>2. Posting(k)
        BY <4>1 DEF Posting
      <4>3. sender[k].chunk < ChunksOf[k] /\ Shown(k) \subseteq 0..(ChunksOf[k] - 1)
        BY <2>1, <4>2 DEF ProgressOf
      <4>4. sender[k].chunk \in 0..(ChunksOf[k] - 1)
        BY <4>3, Counters
      <4>5. Shown(k)' \subseteq 0..(ChunksOf[k] - 1) /\ Shown(k) \subseteq Shown(k)'
            /\ (sender'[k].pc = "ack" => sender[k].chunk \in Shown(k)')
        BY <4>1, <4>3, <4>4
      <4>6. L!Owed(k)' <=> L!Owed(k)
        BY <4>1 DEF L!Owed
      <4> QED BY <2>1, <4>1, <4>2, <4>5, <4>6 DEF ProgressOf, Posting
    <3>4. CASE Fails(k)
      <4>1. /\ Shown(k)' = Shown(k) /\ L!Owed(k) /\ sender'[k].pc = "idle"
            /\ obligations'[k].chunks = obligations[k].chunks
            /\ obligations'[k].next = obligations[k].next
        BY <3>4, FailAttemptEffect DEF Fails, Shown
      <4> QED BY <2>1, <4>1 DEF ProgressOf, Posting
    <3>5. CASE Acks(k)
      <4>1. /\ Shown(k)' = Shown(k) /\ L!Owed(k) /\ sender[k].pc = "ack" /\ sender'[k].pc = "read"
            /\ obligations[k].status = "attempting"
            /\ obligations'[k].chunks = obligations[k].chunks
            /\ obligations'[k].next = obligations[k].next + 1
        BY <3>5, AckChunkEffect DEF Acks, Shown
      <4>2. obligations[k].next \in Shown(k) /\ \A c \in Nat : c < obligations[k].next => c \in Shown(k)
        BY <2>1, <4>1 DEF ProgressOf, Posting
      <4>3. \A c \in Nat : c < obligations[k].next + 1 => c \in Shown(k)
        <5>1. obligations[k].next \in Nat
          BY Counters
        <5>2. \A c \in Nat : c < obligations[k].next + 1 => c < obligations[k].next \/ c = obligations[k].next
          BY <5>1
        <5> QED BY <4>2, <5>2
      <4> QED BY <2>1, <4>1, <4>3 DEF ProgressOf, Posting
    <3>6. CASE Finishes(k)
      <4>1. /\ screen'[k] = screen[k] /\ obligations'[k] = L!NoObligation /\ SenderRests(k)
        BY <3>6, AckLastEffect DEF Finishes, SenderRests
      <4> QED BY <2>1, <4>1, ProgressFrame
    <3> QED BY <1>4, <3>1, <3>2, <3>3, <3>4, <3>5, <3>6
  <2> QED BY <2>3, <2>4, <2>5 DEF Progress
<1> QED BY <1>1, <1>2, <1>3, <1>4, Steps

LEMMA ProgressStarts ==
    ASSUME Init
    PROVE  Progress
<1>1. \A k \in Message : obligations[k] = L!NoObligation /\ screen[k] = <<>> /\ sender[k] = IdleSender
  BY DEF Init, L!Init
<1>2. screen \in [Message -> Seq(Post)]
  BY DEF Init
<1>3. \A k \in Message : Shown(k) = {}
  BY <1>1 DEF Shown
<1>4. \A k \in Message : ~ L!Owed(k) /\ ~ Posting(k) /\ sender[k].pc # "ack"
  BY <1>1 DEF L!Owed, L!NoObligation, Posting, IdleSender
<1> QED BY <1>2, <1>3, <1>4 DEF Progress, ProgressOf

(* A claim is settled by its whole answer, or by a reply that was sent.    *)
LEMMA SettledStep ==
    ASSUME LP!IInv, TypeInv, Progress, [Next]_vars,
           NEW m \in Message, L!Open(m), records'[m].status = "delivered"
    PROVE  \/ disp.pc \in {"settle", "stopped"} /\ disp.ok /\ disp' # disp
           \/ \E k \in Message : m \in obligations[k].claims /\ Shown(k) = 0..(obligations[k].chunks - 1)
<1>0. records[m].status # "delivered"
  BY DEF L!Open
<1>1. CASE Quiet
  BY <1>0, <1>1 DEF Quiet, SameSettled
<1>2. CASE \E C \in SUBSET Message : Settles(C)
  BY <1>2 DEF Settles
<1>3. CASE \E t \in Turn : Stores(t)
  BY <1>0, <1>3 DEF Stores, L!Prepare
<1>4. ASSUME NEW k \in Message, Reads(k) \/ Begins(k) \/ Posts(k) \/ Fails(k) \/ Acks(k)
      PROVE  FALSE
  <2>1. records'[m].status # "delivered"
    <3>1. CASE Reads(k) \/ Posts(k)
      BY <1>0, <3>1, PostEffect DEF Reads, ledgerVars
    <3>2. CASE Begins(k)
      BY <1>0, <3>2, BeginEffect DEF Begins
    <3>3. CASE Fails(k)
      BY <1>0, <3>3, FailAttemptEffect DEF Fails
    <3>4. CASE Acks(k)
      BY <1>0, <3>4, AckChunkEffect DEF Acks
    <3> QED BY <1>4, <3>1, <3>2, <3>3, <3>4
  <2> QED BY <2>1
<1>5. ASSUME NEW k \in Message, Finishes(k)
      PROVE  m \in obligations[k].claims /\ Shown(k) = 0..(obligations[k].chunks - 1)
  <2>1. /\ obligations[k].status = "attempting" /\ L!Owed(k) /\ sender[k].pc = "ack"
        /\ obligations[k].next + 1 = obligations[k].chunks
        /\ m \in obligations[k].claims
    BY <1>0, <1>5, AckLastEffect DEF Finishes
  <2>2. ProgressOf(k)
    BY DEF Progress
  <2>3. /\ obligations[k].chunks = ChunksOf[k] /\ Shown(k) \subseteq 0..(ChunksOf[k] - 1)
        /\ obligations[k].next \in Shown(k)
        /\ \A c \in Nat : c < obligations[k].next => c \in Shown(k)
    BY <2>1, <2>2 DEF ProgressOf, Posting
  <2>4. \A c \in 0..(obligations[k].chunks - 1) : c \in Nat /\ (c < obligations[k].next \/ c = obligations[k].next)
    BY <2>1, Counters
  <2>5. Shown(k) \subseteq 0..(obligations[k].chunks - 1)
    BY <2>3
  <2>6. \A c \in 0..(obligations[k].chunks - 1) : c \in Shown(k)
    BY <2>3, <2>4
  <2> QED BY <2>1, <2>5, <2>6
<1> QED BY <1>1, <1>2, <1>3, <1>4, <1>5, Steps

(* A claim is settled only when the whole answer that covers it is on the  *)
(* user's screen, or when a reply or the acknowledgement of its cancelation*)
(* was sent (acknowledgeOutboundChunk, settleInbound), whatever is merged, *)
(* canceled, lost or repeated.                                             *)
THEOREM SettledAreTold == Spec => SettledMeansTold
<1> DEFINE J == LP!IInv /\ TypeInv /\ Progress
           Told == \A m \in Message : L!Open(m) /\ records'[m].status = "delivered" =>
                      \/ disp.pc \in {"settle", "stopped"} /\ disp.ok /\ disp' # disp
                      \/ \E k \in Message : /\ m \in obligations[k].claims
                                           /\ Shown(k) = 0..(obligations[k].chunks - 1)
<1>1. Init => J
  BY LedgerStarts, TypeStart, ProgressStarts DEF Init
<1>2. J /\ [Next]_vars => J' /\ [Told]_vars
  BY TypeStep, LedgerStep, LedgerKept, ProgressStep, SettledStep
<1> QED BY <1>1, <1>2, PTL DEF Spec, SettledMeansTold

-----------------------------------------------------------------------------
(* Who holds a claim.                                                      *)
LEMMA FixedStays ==
    ASSUME [Next]_vars
    PROVE  UNCHANGED <<kind, policy>>
<1>1. CASE DispatchLoop
  BY <1>1 DEF DispatchLoop, Dispatch, DispatchClaimFails, DispatchDuplicate, ReplyAtOnce, Settle,
              StartTurn, Enqueue, Interrupt, ReplacePending, StopCommand, StopSettles, fixedVars
<1>2. CASE \E t \in Turn : RunTurn(t)
  BY <1>2 DEF RunTurn, TurnBegins, TurnReturns, TurnFails, TurnPrepares, TurnEnds, TurnReleases, fixedVars
<1>3. CASE \E k \in Message : Send(k)
  BY <1>3 DEF Send, SendRead, SendBegin, SendPost, SendFail, SendAck, fixedVars
<1>4. CASE Start \/ Crash \/ (\E m \in Message : Duplicate(m)) \/ UNCHANGED vars
  BY <1>4 DEF Start, Restart, RecoverNext, Started, Crash, Duplicate, vars, fixedVars
<1> QED BY <1>1, <1>2, <1>3, <1>4 DEF Next, Waiting

(* Only a turn that stores its answer makes a message owned.               *)
LEMMA OwnersStay ==
    ASSUME LP!IInv, TypeInv, [Next]_vars, \A t \in Turn : ~ Stores(t)
    PROVE  \A k \in Message : L!Owed(k)' => L!Owed(k) /\ obligations'[k].claims = obligations[k].claims
<1>0. L!NoObligation.status = "none"
  BY DEF L!NoObligation
<1>1. CASE Quiet
  BY <1>1 DEF Quiet, L!Owed
<1>2. CASE \E C \in SUBSET Message : Settles(C)
  BY <1>0, <1>2 DEF Settles, L!Owed
<1>3. ASSUME NEW k \in Message, Reads(k) \/ Begins(k) \/ Posts(k) \/ Fails(k) \/ Acks(k) \/ Finishes(k)
      PROVE  \A j \in Message : L!Owed(j)' => L!Owed(j) /\ obligations'[j].claims = obligations[j].claims
  <2>1. CASE Reads(k)
    BY <2>1 DEF Reads, ledgerVars, L!Owed
  <2>2. CASE Posts(k)
    BY <2>2 DEF Posts, SendPost, ledgerVars, L!Owed
  <2>3. CASE Begins(k)
    BY <2>3, BeginEffect DEF Begins, L!Owed
  <2>4. CASE Fails(k)
    BY <2>4, FailAttemptEffect DEF Fails, L!Owed
  <2>5. CASE Acks(k)
    BY <2>5, AckChunkEffect DEF Acks, L!Owed
  <2>6. CASE Finishes(k)
    BY <1>0, <2>6, AckLastEffect DEF Finishes, L!Owed
  <2> QED BY <1>3, <2>1, <2>2, <2>3, <2>4, <2>5, <2>6
<1> QED BY <1>1, <1>2, <1>3, Steps

(* The owner that a storing turn adds.                                     *)
LEMMA StoreOwns ==
    ASSUME LP!IInv, TypeInv, NEW t \in Turn, Stores(t)
    PROVE  /\ turns[t].msg \in Message
           /\ \A m \in turns[t].claims : L!Open(m) /\ ~ L!Owned(m)
           /\ \A k \in Message : L!Owed(k)' =>
                 \/ k = turns[t].msg /\ obligations'[k].claims = turns[t].claims
                 \/ L!Owed(k) /\ obligations'[k].claims = obligations[k].claims
<1>1. turns[t].msg \in Message /\ turns[t].claims \in SUBSET Message
  BY Shapes DEF TypeInv, TurnsType, Stores
<1>2. ChunksOf[turns[t].msg] \in Nat
  BY <1>1, Counters
<1>3. L!Prepare(turns[t].msg, turns[t].claims, ChunksOf[turns[t].msg])
  BY DEF Stores
<1> QED BY <1>1, <1>2, <1>3, PrepareEffect DEF L!Owed

(* Before the dispatch loops run no turn does.                             *)
LEMMA AsleepStep ==
    ASSUME TypeInv, Asleep, [Next]_vars
    PROVE  Asleep'
<1>1. CASE phase = "up" /\ phase' = "up"
  BY <1>1 DEF Asleep
<1>2. CASE Crash
  BY <1>2 DEF Crash, Asleep
<1>3. CASE phase # "up"
  <2>1. disp = IdleDisp /\ disp.pc = "idle" /\ pending = <<>> /\ \A t \in Turn : turns[t] = IdleTurn /\ turns[t].pc = "idle"
    <3>1. disp = IdleDisp /\ pending = <<>> /\ \A t \in Turn : turns[t] = IdleTurn
      BY <1>3 DEF Asleep
    <3>2. IdleDisp.pc = "idle" /\ IdleTurn.pc = "idle"
      BY DEF IdleDisp, IdleTurn
    <3> QED BY <3>1, <3>2
  <2>2. CASE DispatchLoop
    BY <1>3, <2>1, <2>2 DEF DispatchLoop, Dispatch, DispatchClaimFails, DispatchDuplicate, ReplyAtOnce, Settle,
            StartTurn, Enqueue, Interrupt, ReplacePending, StopCommand, StopSettles
  <2>3. CASE \E t \in Turn : RunTurn(t)
    BY <2>1, <2>3 DEF RunTurn, TurnBegins, TurnReturns, TurnFails, TurnPrepares, TurnEnds, TurnReleases
  <2>4. ASSUME NEW k \in Message, Send(k)
        PROVE  Asleep'
    <3>1. sender[k].pc # "idle" /\ UNCHANGED <<pending, phase>>
      BY <2>4 DEF Send, SendRead, SendBegin, SendPost, SendFail, SendAck, sessionVars
    <3>2. sender[k].by # "turn"
      BY <2>1, <3>1 DEF TypeInv, Reported
    <3>3. turns' = turns /\ disp' \in {disp, IdleDisp}
      BY <2>4, <3>2 DEF Send, SendRead, SendBegin, SendPost, SendFail, SendAck, SenderReturns
    <3> QED BY <2>1, <3>1, <3>3 DEF Asleep
  <2>5. CASE Start \/ (\E m \in Message : Duplicate(m)) \/ UNCHANGED vars
    <3>1. UNCHANGED <<disp, pending, turns>>
      BY <2>5 DEF Start, Restart, RecoverNext, Started, Duplicate, vars, sessionVars
    <3> QED BY <2>1, <3>1 DEF Asleep
  <2> QED BY <1>2, <2>2, <2>3, <2>4, <2>5 DEF Next, Waiting
<1>4. phase' = "up" \/ phase # "up" \/ Crash
  <2>1. CASE DispatchLoop
    BY <2>1 DEF DispatchLoop, Dispatch, DispatchClaimFails, DispatchDuplicate, ReplyAtOnce, Settle,
                StartTurn, Enqueue, Interrupt, ReplacePending, StopCommand, StopSettles
  <2>2. CASE \E t \in Turn : RunTurn(t)
    BY <2>2 DEF RunTurn, TurnBegins, TurnReturns, TurnFails, TurnPrepares, TurnEnds, TurnReleases
  <2>3. CASE \E k \in Message : Send(k)
    BY <2>3 DEF Send, SendRead, SendBegin, SendPost, SendFail, SendAck
  <2>4. CASE Start \/ (\E m \in Message : Duplicate(m)) \/ UNCHANGED vars
    BY <2>4 DEF Start, Restart, RecoverNext, Started, Duplicate, vars
  <2> QED BY <2>1, <2>2, <2>3, <2>4 DEF Next, Waiting
<1> QED BY <1>1, <1>2, <1>3, <1>4

(* A turn keeps its message and its claims until it is released, a waiting *)
(* message its place, and the loop its message.                            *)
TurnKeeps(t) == turns'[t].pc # "idle" =>
                   /\ turns[t].pc # "idle" /\ turns'[t].msg = turns[t].msg
                   /\ turns'[t].claims = turns[t].claims
                   /\ Live(t)' => Live(t)

LEMMA TurnsKept ==
    ASSUME TypeInv, [Next]_vars, ~ StartTurn, \A t \in Turn : ~ TurnReleases(t)
    PROVE  \A t \in Turn : TurnKeeps(t)
<1>0. UNCHANGED kind
  BY FixedStays
<1>1. CASE UNCHANGED turns
  BY <1>1 DEF TurnKeeps, Live
<1>2. CASE DispatchLoop
  <2>1. CASE Interrupt \/ StopCommand
    <3>1. CancelTurn \/ StopCommand
      BY <2>1 DEF Interrupt
    <3> QED BY <1>0, <3>1, TurnsCanceled DEF TypeInv, TurnKeeps, Live
  <2>2. CASE ~ (Interrupt \/ StopCommand)
    BY <1>1, <1>2, <2>2 DEF DispatchLoop, Dispatch, DispatchClaimFails, DispatchDuplicate, ReplyAtOnce, Settle,
                Enqueue, ReplacePending, StopSettles
  <2> QED BY <2>1, <2>2
<1>3. ASSUME NEW t \in Turn, RunTurn(t)
      PROVE  \A u \in Turn : TurnKeeps(u)
  <2>0. turns[t] \in TurnSet /\ turns \in [Turn -> TurnSet] /\ turns[t].pc # "idle"
    BY <1>3 DEF TypeInv, TurnsType, RunTurn, TurnBegins, TurnReturns, TurnFails, TurnPrepares, TurnEnds,
                TurnReleases
  <2>1. CASE \E pc \in {"answered", "erred", "sending", "ending", "releasing"} :
               GoTo(t, pc) /\ (pc \in {"answered", "erred"} => Live(t))
    <3> PICK pc \in {"answered", "erred", "sending", "ending", "releasing"} :
               GoTo(t, pc) /\ (pc \in {"answered", "erred"} => Live(t))
      BY <2>1
    <3>1. pc \in TurnPC
      BY DEF TurnPC
    <3>2. /\ turns'[t].pc = pc /\ turns'[t].msg = turns[t].msg /\ turns'[t].claims = turns[t].claims
          /\ \A u \in Turn : u # t => turns'[u] = turns[u]
      BY <1>0, <2>0, <3>1, TurnMoves DEF TypeInv
    <3> QED BY <2>0, <3>2 DEF TurnKeeps, Live
  <2>2. CASE turns[t].pc = "setup"
             /\ turns' = [turns EXCEPT ![t].pc = "running", ![t].run = run[turns[t].msg] + 1]
    <3>1. /\ turns'[t].msg = turns[t].msg /\ turns'[t].claims = turns[t].claims
          /\ \A u \in Turn : u # t => turns'[u] = turns[u]
      BY <2>0, <2>2 DEF TurnSet
    <3> QED BY <2>2, <3>1 DEF TurnKeeps, Live
  <2>3. CASE TurnBegins(t)
    BY <2>1, <2>2, <2>3 DEF TurnBegins, Live
  <2>4. CASE TurnReturns(t)
    BY <2>1, <2>4 DEF TurnReturns, Live
  <2>5. CASE TurnFails(t) \/ TurnEnds(t)
    BY <2>1, <2>5 DEF TurnFails, TurnEnds
  <2>6. CASE TurnPrepares(t)
    BY <2>1, <2>6 DEF TurnPrepares, Live
  <2> QED BY <1>3, <2>3, <2>4, <2>5, <2>6 DEF RunTurn
<1>4. ASSUME NEW k \in Message, Send(k)
      PROVE  \A u \in Turn : TurnKeeps(u)
  <2>1. CASE SenderReturns(k)
    <3>1. sender[k].pc # "idle" /\ UNCHANGED fixedVars
      BY <1>4 DEF Send, SendRead, SendBegin, SendPost, SendFail, SendAck
    <3>2. \A u \in Turn : \/ turns'[u] = turns[u]
                          \/ /\ turns[u].pc = "sending" /\ turns'[u].pc = "ending"
                             /\ turns'[u].msg = turns[u].msg
                             /\ turns'[u].claims = turns[u].claims
      BY <2>1, <3>1, SenderEnds DEF TypeInv
    <3> QED BY <3>2 DEF TurnKeeps, Live
  <2>2. CASE ~ SenderReturns(k)
    BY <1>1, <1>4, <2>2 DEF Send, SendRead, SendBegin, SendPost, SendFail, SendAck
  <2> QED BY <2>1, <2>2
<1>5. CASE Crash
  BY <1>5 DEF Crash, TurnKeeps, IdleTurn
<1>6. CASE Start \/ (\E m \in Message : Duplicate(m)) \/ UNCHANGED vars
  BY <1>1, <1>6 DEF Start, Restart, RecoverNext, Started, Duplicate, vars
<1> QED BY <1>2, <1>3, <1>4, <1>5, <1>6 DEF Next, Waiting

LEMMA QueueKept ==
    ASSUME [Next]_vars, ~ Enqueue, ~ ReplacePending, \A t \in Turn : ~ TurnReleases(t)
    PROVE  pending' \in {pending, <<>>}
<1>1. CASE DispatchLoop
  BY <1>1 DEF DispatchLoop, Dispatch, DispatchClaimFails, DispatchDuplicate, ReplyAtOnce, Settle,
              StartTurn, Interrupt, StopCommand, StopSettles, sessionVars
<1>2. CASE \E t \in Turn : RunTurn(t)
  BY <1>2 DEF RunTurn, TurnBegins, TurnReturns, TurnFails, TurnPrepares, TurnEnds, sessionVars
<1>3. CASE \E k \in Message : Send(k)
  BY <1>3 DEF Send, SendRead, SendBegin, SendPost, SendFail, SendAck, sessionVars
<1>4. CASE Start \/ Crash \/ (\E m \in Message : Duplicate(m)) \/ UNCHANGED vars
  BY <1>4 DEF Start, Restart, RecoverNext, Started, Crash, Duplicate, vars, sessionVars
<1> QED BY <1>1, <1>2, <1>3, <1>4 DEF Next, Waiting

(* The messages that a queue hands to a turn.                              *)
LEMMA QueueFacts ==
    ASSUME TypeInv
    PROVE  /\ pending \in Seq(Entry) /\ policy.cap \in Nat \ {0} /\ Len(pending) \in Nat
           /\ DOMAIN pending = 1..Len(pending)
           /\ \A i \in DOMAIN pending : pending[i].msg \in Message /\ pending[i].claims \in SUBSET Message
           /\ pending # <<>> => /\ Head(pending) = pending[1] /\ 1 \in DOMAIN pending
                                /\ Tail(pending) \in Seq(Entry) /\ Len(Tail(pending)) = Len(pending) - 1
                                /\ \A i \in DOMAIN Tail(pending) :
                                      i + 1 \in DOMAIN pending /\ Tail(pending)[i] = pending[i + 1]
<1>1. pending \in Seq(Entry) /\ policy.cap \in Nat \ {0}
  BY GatewayAssumption DEF TypeInv, SessionType, FixedType
<1>2. \A i \in DOMAIN pending : pending[i] \in Entry
  BY <1>1
<1>3. \A i \in DOMAIN pending : pending[i].msg \in Message /\ pending[i].claims \in SUBSET Message
  BY <1>2, Shapes
<1>4. pending # <<>> => /\ Head(pending) = pending[1] /\ 1 \in DOMAIN pending
                        /\ Tail(pending) \in Seq(Entry) /\ Len(Tail(pending)) = Len(pending) - 1
                        /\ \A i \in DOMAIN Tail(pending) :
                              i + 1 \in DOMAIN pending /\ Tail(pending)[i] = pending[i + 1]
  BY <1>1
<1> QED BY <1>1, <1>3, <1>4

(* What a released turn becomes.                                           *)
LEMMA ReleaseEffect ==
    ASSUME TypeInv, NEW t \in Turn, TurnReleases(t)
    PROVE  /\ turns[t].pc = "releasing"
           /\ \A u \in Turn : u # t => turns'[u] = turns[u]
           /\ \/ turns'[t].pc = "idle" /\ pending' = pending
              \/ /\ pending # <<>> /\ turns'[t].pc = "setup" /\ turns'[t].msg = pending[1].msg
                 /\ \/ /\ policy.mode = "collect" /\ pending' = <<>>
                       /\ \A m \in turns'[t].claims : \E i \in DOMAIN pending : QueueHolds(i, m)
                    \/ turns'[t].claims = pending[1].claims /\ pending' = Tail(pending)
<1>1. turns \in [Turn -> TurnSet] /\ turns[t].pc = "releasing"
  BY DEF TypeInv, TurnsType, TurnReleases
<1>2. CASE pending = <<>>
  <2>1. turns' = [turns EXCEPT ![t] = IdleTurn] /\ pending' = pending
    BY <1>2 DEF TurnReleases, Release
  <2> QED BY <1>1, <2>1 DEF IdleTurn
<1>3. CASE pending # <<>>
  <2> DEFINE collected == UNION {e.claims : e \in ToSet(pending)}
  <2>1. \A m \in collected : \E i \in DOMAIN pending : QueueHolds(i, m)
    BY DEF ToSet, QueueHolds
  <2>2. \E C : /\ Spawn(t, Head(pending).msg, C)
               /\ \/ policy.mode = "collect" /\ pending' = <<>> /\ C = collected
                  \/ C = Head(pending).claims /\ pending' = Tail(pending)
    BY <1>3 DEF TurnReleases, Release
  <2> PICK C : /\ Spawn(t, Head(pending).msg, C)
               /\ \/ policy.mode = "collect" /\ pending' = <<>> /\ C = collected
                  \/ C = Head(pending).claims /\ pending' = Tail(pending)
    BY <2>2
  <2> HIDE DEF collected
  <2>3. /\ turns'[t].pc = "setup" /\ turns'[t].msg = Head(pending).msg /\ turns'[t].claims = C
        /\ \A u \in Turn : u # t => turns'[u] = turns[u]
    BY <1>1 DEF Spawn, IdleTurn
  <2> QED BY <1>1, <1>3, <2>1, <2>3, QueueFacts
<1> QED BY <1>2, <1>3

(* What a started turn is.                                                 *)
LEMMA StartEffect ==
    ASSUME TypeInv, StartTurn
    PROVE  /\ disp.pc = "route" /\ disp.msg \in Message /\ disp' = IdleDisp /\ pending' = pending
           /\ UNCHANGED ledgerVars
           /\ \E t \in Turn : /\ turns[t].pc = "idle" /\ turns'[t].pc = "setup"
                              /\ turns'[t].msg = disp.msg /\ turns'[t].claims = {disp.msg}
                              /\ \A u \in Turn : u # t => turns'[u] = turns[u]
<1>1. turns \in [Turn -> TurnSet] /\ disp.msg \in Message /\ disp.pc = "route"
  BY Shapes DEF TypeInv, TurnsType, DispType, StartTurn
<1> PICK t \in Turn : turns[t].pc = "idle" /\ Spawn(t, disp.msg, {disp.msg})
  BY DEF StartTurn
<1>2. /\ turns'[t].pc = "setup" /\ turns'[t].msg = disp.msg /\ turns'[t].claims = {disp.msg}
      /\ \A u \in Turn : u # t => turns'[u] = turns[u]
  BY <1>1 DEF Spawn, IdleTurn
<1> QED BY <1>1, <1>2 DEF StartTurn, NoWrite

(* Where a waiting claim goes when another message is queued: the claims of*)
(* the oldest entry of a full queue to the newest, the others one up.      *)
Place(p) == IF QueueFull THEN IF p = 1 THEN Len(pending') ELSE p - 1 ELSE p

LEMMA EnqueueEffect ==
    ASSUME TypeInv, Enqueue
    PROVE  /\ disp.pc = "route" /\ disp.msg \in Message /\ disp' = IdleDisp
           /\ UNCHANGED ledgerVars /\ UNCHANGED turns /\ policy.mode # "interrupt"
           /\ policy.mode # "collect" /\ policy.drop # "old" =>
                 pending' = Append(pending, [msg |-> disp.msg, claims |-> {disp.msg}])
           /\ \A i \in DOMAIN pending' : \A m \in pending'[i].claims :
                 \/ m = disp.msg /\ i = Len(pending')
                 \/ \E p \in DOMAIN pending : QueueHolds(p, m) /\ i = Place(p)
<1> DEFINE m0 == disp.msg
           rest == IF QueueFull THEN Tail(pending) ELSE pending
           claims == {m0} \cup IF QueueFull THEN Head(pending).claims ELSE {}
           last == Len(rest)
<1>1. /\ disp.pc = "route" /\ disp.msg \in Message /\ disp' = IdleDisp
      /\ UNCHANGED ledgerVars /\ UNCHANGED turns /\ policy.mode # "interrupt"
  BY Shapes DEF TypeInv, DispType, Enqueue, NoWrite
<1>2. /\ QueueFull => policy.drop = "old"
      /\ \/ pending' = Append(rest, [msg |-> m0, claims |-> claims])
         \/ /\ policy.mode = "collect" /\ rest # <<>>
            /\ pending' = [rest EXCEPT ![last].claims = @ \cup claims]
  BY DEF Enqueue
<1>3. QueueFull => pending # <<>>
  BY QueueFacts DEF QueueFull
<1>4. policy.mode # "collect" /\ policy.drop # "old" =>
                 pending' = Append(pending, [msg |-> disp.msg, claims |-> {disp.msg}])
  <2> SUFFICES ASSUME policy.mode # "collect", policy.drop # "old"
               PROVE  pending' = Append(pending, [msg |-> disp.msg, claims |-> {disp.msg}])
    OBVIOUS
  <2>1. ~ QueueFull
    BY <1>2
  <2>2. rest = pending /\ claims = {disp.msg}
    BY <2>1
  <2> QED BY <1>2, <2>2
<1>5. rest \in Seq(Entry) /\ Len(rest) \in Nat /\ DOMAIN rest = 1..Len(rest)
  BY <1>3, QueueFacts
<1>6. \A i \in DOMAIN rest : \A m \in rest[i].claims : \E p \in DOMAIN pending : QueueHolds(p, m) /\ i = Place(p)
  <2> SUFFICES ASSUME NEW i \in DOMAIN rest, NEW m \in rest[i].claims
               PROVE  \E p \in DOMAIN pending : QueueHolds(p, m) /\ i = Place(p)
    OBVIOUS
  <2>1. CASE QueueFull
    <3>1. i \in Nat \ {0} /\ i + 1 \in DOMAIN pending /\ rest[i] = pending[i + 1]
      BY <1>3, <1>5, <2>1, QueueFacts
    <3>2. i + 1 # 1 /\ (i + 1) - 1 = i
      BY <3>1
    <3>3. Place(i + 1) = i
      BY <2>1, <3>2 DEF Place
    <3> QED BY <3>1, <3>3 DEF QueueHolds
  <2>2. CASE ~ QueueFull
    BY <2>2 DEF QueueHolds, Place
  <2> QED BY <2>1, <2>2
<1>7. \A m \in claims : m = m0 \/ (QueueFull /\ 1 \in DOMAIN pending /\ QueueHolds(1, m))
  BY <1>3, QueueFacts DEF QueueHolds
<1>8. QueueFull => Place(1) = Len(pending')
  BY DEF Place
<1> HIDE DEF rest, claims
<1>9. \A i \in DOMAIN pending' : \A m \in pending'[i].claims :
         \/ m = disp.msg /\ i = Len(pending')
         \/ \E p \in DOMAIN pending : QueueHolds(p, m) /\ i = Place(p)
  <2>1. CASE pending' = Append(rest, [msg |-> m0, claims |-> claims])
    <3> DEFINE e == [msg |-> m0, claims |-> claims]
    <3>0. e.claims = claims
      OBVIOUS
    <3> HIDE DEF e
    <3>1. /\ DOMAIN pending' = 1..(last + 1) /\ Len(pending') = last + 1
          /\ pending'[last + 1] = e
          /\ \A i \in 1..last : pending'[i] = rest[i]
      BY <1>5, <2>1 DEF e
    <3>2. \A i \in DOMAIN pending' : i = Len(pending') \/ i \in DOMAIN rest
      BY <1>5, <3>1
    <3> QED BY <1>5, <1>6, <1>7, <1>8, <3>0, <3>1, <3>2
  <2>2. CASE rest # <<>> /\ pending' = [rest EXCEPT ![last].claims = @ \cup claims]
    <3>1. last \in DOMAIN rest /\ rest[last] \in Entry
      BY <1>5, <2>2
    <3> DEFINE e == [rest[last] EXCEPT !.claims = @ \cup claims]
    <3>2. e.claims = rest[last].claims \cup claims
      BY <3>1 DEF Entry
    <3>3. pending' = [rest EXCEPT ![last] = e]
      BY <2>2
    <3> HIDE DEF e
    <3>4. /\ DOMAIN pending' = DOMAIN rest /\ pending'[last] = e
          /\ \A i \in DOMAIN rest : i # last => pending'[i] = rest[i]
      BY <3>1, <3>3
    <3>5. Len(pending') = last
      BY <1>5, <3>3
    <3> QED BY <1>6, <1>7, <1>8, <3>2, <3>4, <3>5
  <2> QED BY <1>2, <2>1, <2>2
<1> QED BY <1>1, <1>4, <1>9

(* The only one of a queue that a new task replaces.                       *)
LEMMA ReplaceEffect ==
    ASSUME TypeInv, ReplacePending
    PROVE  \A i \in DOMAIN pending' : \/ pending' = pending
                                     \/ pending'[i].claims = {pending'[i].msg}
<1>1. pending' = pending \/ pending' = <<[msg |-> disp.msg, claims |-> {disp.msg}]>>
  BY DEF ReplacePending
<1>2. CASE pending' = <<[msg |-> disp.msg, claims |-> {disp.msg}]>>
  <2>1. DOMAIN pending' = {1} /\ pending'[1] = [msg |-> disp.msg, claims |-> {disp.msg}]
    BY <1>2
  <2> QED BY <2>1
<1> QED BY <1>1, <1>2

-----------------------------------------------------------------------------
(* Without merging every claim stays its own primary.                      *)
LEMMA UnmergedStep ==
    ASSUME LP!IInv, TypeInv, Unmerged, [Next]_vars
    PROVE  Unmerged'
<1>0. UNCHANGED policy
  BY FixedStays
<1> SUFFICES ASSUME ~ Merging
             PROVE  /\ \A k \in Message : L!Owed(k)' => obligations'[k].claims = {k}
                    /\ \A t \in Turn : turns'[t].pc # "idle" => turns'[t].claims = {turns'[t].msg}
                    /\ \A i \in DOMAIN pending' : pending'[i].claims = {pending'[i].msg}
  BY <1>0 DEF Unmerged, Merging
<1>1. /\ \A k \in Message : L!Owed(k) => obligations[k].claims = {k}
      /\ \A t \in Turn : turns[t].pc # "idle" => turns[t].claims = {turns[t].msg}
      /\ \A i \in DOMAIN pending : pending[i].claims = {pending[i].msg}
  BY DEF Unmerged
<1>2. policy.mode = "interrupt" \/ (policy.mode # "collect" /\ policy.drop # "old")
  BY DEF Merging
<1>3. \A k \in Message : L!Owed(k)' => obligations'[k].claims = {k}
  <2>1. CASE \A t \in Turn : ~ Stores(t)
    BY <1>1, <2>1, OwnersStay
  <2>2. ASSUME NEW t \in Turn, Stores(t)
        PROVE  \A k \in Message : L!Owed(k)' => obligations'[k].claims = {k}
    <3>1. turns[t].claims = {turns[t].msg}
      BY <1>1, <2>2 DEF Stores
    <3> QED BY <1>1, <2>2, <3>1, StoreOwns
  <2> QED BY <2>1, <2>2
<1>4. \A t \in Turn : turns'[t].pc # "idle" => turns'[t].claims = {turns'[t].msg}
  <2>1. CASE StartTurn
    <3> PICK t \in Turn : /\ turns'[t].msg = disp.msg /\ turns'[t].claims = {disp.msg}
                          /\ \A u \in Turn : u # t => turns'[u] = turns[u]
      BY <2>1, StartEffect
    <3> QED BY <1>1
  <2>2. ASSUME NEW t \in Turn, TurnReleases(t)
        PROVE  \A u \in Turn : turns'[u].pc # "idle" => turns'[u].claims = {turns'[u].msg}
    <3>1. turns'[t].pc # "idle" => turns'[t].claims = {turns'[t].msg}
      BY <1>1, <1>2, <2>2, ReleaseEffect, QueueFacts
    <3> QED BY <1>1, <2>2, <3>1, ReleaseEffect
  <2>3. CASE ~ StartTurn /\ \A t \in Turn : ~ TurnReleases(t)
    BY <1>1, <2>3, TurnsKept DEF TurnKeeps
  <2> QED BY <2>1, <2>2, <2>3
<1>5. \A i \in DOMAIN pending' : pending'[i].claims = {pending'[i].msg}
  <2>1. CASE Enqueue
    <3>1. pending' = Append(pending, [msg |-> disp.msg, claims |-> {disp.msg}])
      BY <1>2, <2>1, EnqueueEffect
    <3> DEFINE e == [msg |-> disp.msg, claims |-> {disp.msg}]
    <3>2. e.claims = {e.msg}
      OBVIOUS
    <3> HIDE DEF e
    <3>3. pending \in Seq(Entry) /\ pending' = Append(pending, e)
      BY <3>1, QueueFacts DEF e
    <3>4. \A i \in DOMAIN pending' : pending'[i] = e \/ (i \in DOMAIN pending /\ pending'[i] = pending[i])
      BY <3>3
    <3> QED BY <1>1, <3>2, <3>4
  <2>2. ASSUME NEW t \in Turn, TurnReleases(t)
        PROVE  \A i \in DOMAIN pending' : pending'[i].claims = {pending'[i].msg}
    <3>1. CASE pending' = pending
      BY <1>1, <3>1
    <3>2. CASE pending' = <<>>
      <4>1. DOMAIN pending' = {}
        BY <3>2
      <4> QED BY <4>1
    <3>3. CASE pending' = Tail(pending) /\ pending # <<>>
      BY <1>1, <3>3, QueueFacts
    <3> QED BY <2>2, <3>1, <3>2, <3>3, ReleaseEffect
  <2>3. CASE ReplacePending
    BY <1>1, <2>3, ReplaceEffect
  <2>4. CASE ~ Enqueue /\ ~ ReplacePending /\ \A t \in Turn : ~ TurnReleases(t)
    <3>1. CASE pending' = <<>>
      <4>1. DOMAIN pending' = {}
        BY <3>1
      <4> QED BY <4>1
    <3> QED BY <1>1, <2>4, <3>1, QueueKept
  <2> QED BY <2>1, <2>2, <2>3, <2>4
<1> QED BY <1>3, <1>4, <1>5

-----------------------------------------------------------------------------
(* While nothing is canceled, custody is kept.                             *)

(* No command and no newer message takes claims from their holders.        *)
LEMMA Uncanceled ==
    ASSUME TypeInv, Undisturbed, Custody
    PROVE  ~ Interrupt /\ ~ ReplacePending /\ ~ StopCommand /\ ~ StopSettles
<1>1. ~ Interrupt
  BY DEF Undisturbed, Interrupt
<1>2. ~ ReplacePending /\ ~ StopSettles
  BY DEF Custody, ReplacePending, StopSettles
<1>3. ~ StopCommand
  <2>1. StopCommand => disp.msg \in Message
    BY Shapes DEF TypeInv, DispType, StopCommand
  <2> QED BY <2>1 DEF Undisturbed, Stoppable, StopCommand
<1> QED BY <1>1, <1>2, <1>3

LEMMA LoopKept ==
    ASSUME TypeInv, Undisturbed, Custody, [Next]_vars, \A m \in Message : ~ Dispatch(m)
    PROVE  /\ \A m : DispHolds(m)' => DispHolds(m)
           /\ disp'.pc = "settle" => disp'.settle = {{disp'.msg}}
           /\ disp'.pc \notin {"replace", "stopped"}
<1>0. /\ IdleDisp.pc = "idle" /\ disp \in DispSet
      /\ disp.pc = "settle" => disp.settle = {{disp.msg}}
      /\ disp.pc \notin {"replace", "stopped"}
  BY DEF IdleDisp, TypeInv, DispType, Custody
<1>1. CASE disp' \in {disp, IdleDisp}
  BY <1>0, <1>1 DEF DispHolds
<1>2. CASE DispatchLoop
  <2>1. ASSUME NEW m \in Message, DispatchClaimFails(m)
        PROVE  disp' = disp
    BY <2>1 DEF DispatchClaimFails
  <2>2. ASSUME NEW m \in Message, DispatchDuplicate(m)
        PROVE  disp' = disp \/ disp'.pc = "sending"
    BY <2>2 DEF DispatchDuplicate, IdleDisp
  <2>3. CASE ReplyAtOnce
    <3> PICK ok \in BOOLEAN : disp' = [disp EXCEPT !.pc = "settle", !.settle = {{disp.msg}}, !.ok = ok]
      BY <2>3 DEF ReplyAtOnce
    <3>1. disp'.pc = "settle" /\ disp'.msg = disp.msg /\ disp'.settle = {{disp.msg}}
      BY <1>0 DEF DispSet
    <3> QED BY <2>3, <3>1 DEF DispHolds, ReplyAtOnce
  <2>4. CASE Settle
    <3>1. disp.settle = {{disp.msg}}
      BY <1>0, <2>4 DEF Settle
    <3>2. disp' = IdleDisp
      BY <2>4, <3>1 DEF Settle
    <3> QED BY <1>1, <3>2
  <2>5. CASE StartTurn \/ Enqueue
    BY <1>1, <2>5 DEF StartTurn, Enqueue
  <2> QED BY <1>1, <1>0, <1>2, <2>1, <2>2, <2>3, <2>4, <2>5, Uncanceled DEF DispatchLoop, DispHolds
<1>3. CASE \E t \in Turn : RunTurn(t)
  BY <1>1, <1>3 DEF RunTurn, TurnBegins, TurnReturns, TurnFails, TurnPrepares, TurnEnds, TurnReleases
<1>4. CASE \E k \in Message : Send(k)
  BY <1>1, <1>4 DEF Send, SendRead, SendBegin, SendPost, SendFail, SendAck, SenderReturns
<1>5. CASE Start \/ Crash \/ (\E m \in Message : Duplicate(m)) \/ UNCHANGED vars
  BY <1>1, <1>5 DEF Start, Restart, RecoverNext, Started, Crash, Duplicate, vars
<1> QED BY <1>2, <1>3, <1>4, <1>5 DEF Next, Waiting

(* Holders that only let go.                                               *)
LEMMA HoldersLetGo ==
    ASSUME HeldOnce, \A m \in Message : DispHolds(m)' => DispHolds(m),
           \A t \in Turn, m \in Message : TurnHolds(t, m)' => TurnHolds(t, m),
           pending' \in {pending, <<>>}
    PROVE  HeldOnce' /\ \A m \in Message : Held(m)' => Held(m)
<1>1. \A i \in DOMAIN pending', m \in Message : QueueHolds(i, m)' => i \in DOMAIN pending /\ QueueHolds(i, m)
  <2>1. CASE pending' = pending
    BY <2>1 DEF QueueHolds
  <2>2. CASE pending' = <<>>
    <3>1. DOMAIN pending' = {}
      BY <2>2
    <3> QED BY <3>1
  <2> QED BY <2>1, <2>2
<1>2. HeldOnce'
  BY <1>1 DEF HeldOnce
<1>3. \A m \in Message : Held(m)' => Held(m)
  BY <1>1 DEF Held
<1> QED BY <1>2, <1>3

(* A claim that is being worked on and that no answer covers stays so      *)
(* until its holder gives it up.                                           *)
LEMMA StaysOpen ==
    ASSUME LP!IInv, TypeInv, [Next]_vars, NEW m \in Message,
           records[m].status = "processing", ~ L!Owned(m)
    PROVE  \/ records'[m].status = "processing" /\ ~ L!Owned(m)'
           \/ Settle /\ \E C \in disp.settle : m \in C
           \/ \E t \in Turn : TurnFails(t) /\ m \in turns[t].claims
           \/ \E t \in Turn : Stores(t) /\ m \in turns[t].claims
           \/ StopSettles \/ Restart
<1>1. CASE \A t \in Turn : ~ Stores(t)
  <2>1. ~ L!Owned(m)'
    BY <1>1, OwnersStay DEF L!Owned
  <2>2. ASSUME NEW x \in Message, Dispatch(x)
        PROVE  records'[m].status = "processing"
    <3>1. L!Claim(x, TRUE)
      BY <2>2 DEF Dispatch, Written
    <3> QED BY <3>1, ClaimEffect
  <2>3. ASSUME Settle, \A C \in disp.settle : m \notin C
        PROVE  records'[m].status = "processing"
    <3> PICK C \in disp.settle : L!Delivered(C) \/ L!Fail(C) \/ UNCHANGED ledgerVars
      BY <2>3 DEF Settle, Written, WriteFails
    <3>1. C \in SUBSET Message
      BY Shapes DEF TypeInv, DispType
    <3> QED BY <2>3, <3>1, DeliveredEffect, FailEffect DEF ledgerVars
  <2>4. ASSUME NEW t \in Turn, TurnFails(t), m \notin turns[t].claims
        PROVE  records'[m].status = "processing"
    <3>1. turns[t].claims \in SUBSET Message /\ (L!Fail(turns[t].claims) \/ UNCHANGED ledgerVars)
      BY <2>4, Shapes DEF TypeInv, TurnsType, TurnFails, Written, WriteFails
    <3> QED BY <2>4, <3>1, FailEffect DEF ledgerVars
  <2>5. ASSUME NEW k \in Message, Send(k)
        PROVE  records'[m].status = "processing"
    <3>0. \A x \in obligations[k].claims : L!Owed(k) => L!Owned(x)
      BY DEF L!Owned
    <3>1. CASE UNCHANGED ledgerVars
      BY <3>1 DEF ledgerVars
    <3>2. CASE L!BeginAttempt(k)
      BY <3>2, BeginEffect
    <3>3. CASE L!FailAttempt(k)
      BY <3>0, <3>3, FailAttemptEffect
    <3>4. CASE L!AckChunk(k)
      BY <3>4, AckChunkEffect
    <3>5. CASE L!AckLast(k)
      BY <3>0, <3>5, AckLastEffect
    <3> QED BY <2>5, <3>1, <3>2, <3>3, <3>4, <3>5 DEF Send, SendRead, SendBegin, SendPost, SendFail, SendAck,
               Written, WriteFails, NoWrite
  <2>6. CASE UNCHANGED ledgerVars
    BY <2>1, <2>6 DEF ledgerVars
  <2>7. CASE DispatchLoop
    <3>1. CASE \E x \in Message : DispatchClaimFails(x) \/ DispatchDuplicate(x)
      BY <2>1, <2>6, <3>1 DEF DispatchClaimFails, DispatchDuplicate, WriteFails, NoWrite
    <3>2. CASE ReplyAtOnce \/ StartTurn \/ Enqueue \/ Interrupt \/ ReplacePending \/ StopCommand
      BY <2>1, <2>6, <3>2 DEF ReplyAtOnce, StartTurn, Enqueue, Interrupt, ReplacePending, StopCommand, NoWrite
    <3> QED BY <2>1, <2>2, <2>3, <2>7, <3>1, <3>2 DEF DispatchLoop
  <2>8. ASSUME NEW t \in Turn, RunTurn(t)
        PROVE  records'[m].status = "processing" \/ (TurnFails(t) /\ m \in turns[t].claims)
    <3>1. CASE TurnBegins(t) \/ TurnReturns(t) \/ TurnEnds(t) \/ TurnReleases(t)
      BY <3>1 DEF TurnBegins, TurnReturns, TurnEnds, TurnReleases, NoWrite, ledgerVars
    <3>2. CASE TurnPrepares(t)
      <4>1. L!Prepare(turns[t].msg, turns[t].claims, ChunksOf[turns[t].msg]) \/ UNCHANGED ledgerVars
        BY <3>2 DEF TurnPrepares, Written, WriteFails, NoWrite
      <4> QED BY <4>1 DEF L!Prepare, ledgerVars
    <3> QED BY <2>4, <2>8, <3>1, <3>2 DEF RunTurn
  <2>9. CASE Start \/ Crash \/ (\E x \in Message : Duplicate(x)) \/ UNCHANGED vars
    <3>1. Restart \/ UNCHANGED ledgerVars
      BY <2>9 DEF Start, RecoverNext, Started, Crash, Duplicate, vars, NoWrite
    <3> QED BY <2>1, <2>6, <3>1
  <2> QED BY <2>1, <2>5, <2>7, <2>8, <2>9 DEF Next, Waiting
<1>2. ASSUME NEW t \in Turn, Stores(t)
      PROVE  (records'[m].status = "processing" /\ ~ L!Owned(m)') \/ m \in turns[t].claims
  <2>1. records' = records
    BY <1>2 DEF Stores, L!Prepare
  <2> QED BY <1>2, <2>1, StoreOwns DEF L!Owned
<1> QED BY <1>1, <1>2

(* Claims that pass from the loop or the queue to another holder.          *)
LEMMA HoldersPass ==
    ASSUME LP!IInv, TypeInv, Undisturbed, Custody, StartTurn \/ Enqueue \/ \E t \in Turn : TurnReleases(t)
    PROVE  HeldOnce' /\ \A m \in Message : Held(m)' => Held(m)
<1>0. HeldOnce /\ pending \in Seq(Entry)
  BY QueueFacts DEF Custody
<1>1. CASE StartTurn
  <2> PICK t \in Turn : /\ turns[t].pc = "idle" /\ turns'[t].pc = "setup"
                        /\ turns'[t].msg = disp.msg /\ turns'[t].claims = {disp.msg}
                        /\ \A u \in Turn : u # t => turns'[u] = turns[u]
    BY <1>1, StartEffect
  <2>1. disp.pc = "route" /\ disp.msg \in Message /\ disp'.pc = "idle" /\ pending' = pending
    BY <1>1, StartEffect DEF IdleDisp
  <2>2. \A m \in Message : ~ DispHolds(m)'
    BY <2>1 DEF DispHolds
  <2>3. \A u \in Turn, m \in Message : TurnHolds(u, m)' => TurnHolds(u, m) \/ (u = t /\ m = disp.msg)
    BY DEF TurnHolds, Live
  <2>4. \A m \in Message : ~ TurnHolds(t, m)
    BY DEF TurnHolds, Live
  <2>5. DispHolds(disp.msg)
    BY <2>1 DEF DispHolds
  <2>6. \A i, m : QueueHolds(i, m)' <=> QueueHolds(i, m)
    BY <2>1 DEF QueueHolds
  <2>7. HeldOnce'
    BY <1>0, <2>1, <2>2, <2>3, <2>4, <2>5, <2>6 DEF HeldOnce
  <2>8. \A m \in Message : Held(m)' => Held(m)
    BY <2>1, <2>2, <2>3, <2>5, <2>6 DEF Held
  <2> QED BY <2>7, <2>8
<1>2. CASE Enqueue
  <2>1. /\ disp.pc = "route" /\ disp.msg \in Message /\ disp'.pc = "idle" /\ turns' = turns
    BY <1>2, EnqueueEffect DEF IdleDisp
  <2>2. \A i \in DOMAIN pending', m \in Message : QueueHolds(i, m)' =>
           \/ m = disp.msg /\ i = Len(pending')
           \/ \E p \in DOMAIN pending : QueueHolds(p, m) /\ i = Place(p)
    BY <1>2, EnqueueEffect DEF QueueHolds
  <2>3. \A m \in Message : ~ DispHolds(m)'
    BY <2>1 DEF DispHolds
  <2>4. \A u \in Turn, m \in Message : TurnHolds(u, m)' <=> TurnHolds(u, m)
    BY <2>1 DEF TurnHolds, Live
  <2>5. DispHolds(disp.msg)
    BY <2>1 DEF DispHolds
  <2>6. \A i, j \in DOMAIN pending', m \in Message : QueueHolds(i, m)' /\ QueueHolds(j, m)' => i = j
    BY <1>0, <2>1, <2>2, <2>5 DEF HeldOnce
  <2>7. HeldOnce'
    BY <1>0, <2>1, <2>2, <2>3, <2>4, <2>5, <2>6 DEF HeldOnce
  <2>8. \A m \in Message : Held(m)' => Held(m)
    BY <2>1, <2>2, <2>3, <2>4, <2>5 DEF Held
  <2> QED BY <2>7, <2>8
<1>3. ASSUME NEW t \in Turn, TurnReleases(t)
      PROVE  HeldOnce' /\ \A m \in Message : Held(m)' => Held(m)
  <2>1. turns[t].pc = "releasing" /\ disp' = disp /\ \A u \in Turn : u # t => turns'[u] = turns[u]
    BY <1>3, ReleaseEffect DEF TurnReleases
  <2>2. \A m \in Message : DispHolds(m)' <=> DispHolds(m)
    BY <2>1 DEF DispHolds
  <2>3. \A u \in Turn, m \in Message : TurnHolds(u, m)' /\ u # t => TurnHolds(u, m)
    BY <2>1 DEF TurnHolds, Live
  <2>4. \A m \in Message : ~ TurnHolds(t, m)
    BY <2>1 DEF TurnHolds, Live
  <2>5. CASE turns'[t].pc = "idle" /\ pending' = pending
    <3>1. \A u \in Turn, m \in Message : TurnHolds(u, m)' => TurnHolds(u, m)
      BY <2>3, <2>5 DEF TurnHolds, Live
    <3> QED BY <1>0, <2>2, <2>5, <3>1, HoldersLetGo
  <2>6. CASE pending' = <<>> /\ \A m \in turns'[t].claims : \E i \in DOMAIN pending : QueueHolds(i, m)
    <3>1. DOMAIN pending' = {}
      BY <2>6
    <3>2. \A u \in Turn, m \in Message : TurnHolds(u, m)' =>
             TurnHolds(u, m) \/ (u = t /\ \E i \in DOMAIN pending : QueueHolds(i, m))
      BY <2>3, <2>6 DEF TurnHolds
    <3>3. HeldOnce'
      BY <1>0, <2>2, <2>4, <3>1, <3>2 DEF HeldOnce
    <3>4. \A m \in Message : Held(m)' => Held(m)
      BY <2>2, <3>1, <3>2 DEF Held
    <3> QED BY <3>3, <3>4
  <2>7. CASE pending # <<>> /\ turns'[t].claims = pending[1].claims /\ pending' = Tail(pending)
    <3>1. 1 \in DOMAIN pending /\ \A i \in DOMAIN pending' : i + 1 \in DOMAIN pending /\ pending'[i] = pending[i + 1]
      BY <2>7, QueueFacts
    <3>2. \A i \in DOMAIN pending' : i \in Nat \ {0}
      BY <2>7, QueueFacts
    <3>3. \A i \in DOMAIN pending', m \in Message : QueueHolds(i, m)' => QueueHolds(i + 1, m)
      BY <3>1 DEF QueueHolds
    <3>4. \A u \in Turn, m \in Message : TurnHolds(u, m)' =>
             TurnHolds(u, m) \/ (u = t /\ QueueHolds(1, m))
      BY <2>3, <2>7 DEF TurnHolds, QueueHolds
    <3>5. \A i \in DOMAIN pending' : i + 1 # 1 /\ \A j \in DOMAIN pending' : i + 1 = j + 1 => i = j
      BY <3>2
    <3>6. HeldOnce'
      BY <1>0, <2>2, <2>4, <3>1, <3>3, <3>4, <3>5 DEF HeldOnce
    <3>7. \A m \in Message : Held(m)' => Held(m)
      BY <2>2, <3>1, <3>3, <3>4 DEF Held
    <3> QED BY <3>6, <3>7
  <2> QED BY <1>3, <2>5, <2>6, <2>7, ReleaseEffect
<1> QED BY <1>1, <1>2, <1>3

(* A claim is taken by the loop, which nobody held.                        *)
LEMMA HolderComes ==
    ASSUME LP!IInv, TypeInv, Undisturbed, Custody, NEW x \in Message, Dispatch(x)
    PROVE  /\ HeldOnce' /\ HeldIsOpen'
           /\ disp'.pc = "route"
<1>1. HeldOnce /\ HeldIsOpen /\ disp.pc = "idle" /\ UNCHANGED <<turns, pending>>
      /\ disp' = [IdleDisp EXCEPT !.pc = "route", !.msg = x] /\ L!Claim(x, TRUE)
  BY DEF Custody, Dispatch, Written, sessionVars
<1>2. disp'.pc = "route" /\ disp'.msg = x
  BY <1>1 DEF IdleDisp
<1>3. /\ ~ L!Owned(x) /\ records[x].status # "processing" /\ obligations' = obligations
      /\ records'[x].status = "processing"
      /\ \A m \in Message : m # x => records'[m].status = records[m].status
  BY <1>1, ClaimEffect
<1>4. ~ Held(x)
  BY <1>1, <1>3 DEF HeldIsOpen
<1>5. \A m \in Message : DispHolds(m)' => m = x
  BY <1>2 DEF DispHolds
<1>6. \A t, i, m : (TurnHolds(t, m)' <=> TurnHolds(t, m)) /\ (QueueHolds(i, m)' <=> QueueHolds(i, m))
  BY <1>1 DEF TurnHolds, QueueHolds, Live
<1>7. HeldOnce'
  BY <1>1, <1>4, <1>5, <1>6 DEF HeldOnce, Held
<1>8. \A m \in Message : Held(m)' => Held(m) \/ m = x
  BY <1>1, <1>5, <1>6 DEF Held
<1>9. \A m \in Message : L!Owned(m)' <=> L!Owned(m)
  BY <1>3 DEF L!Owned, L!Owed
<1>10. HeldIsOpen'
  BY <1>1, <1>3, <1>8, <1>9 DEF HeldIsOpen
<1> QED BY <1>2, <1>7, <1>10

(* A holder gives a claim up when it has an outcome.                       *)
LEMMA CustodyStep ==
    ASSUME LP!IInv, TypeInv, Asleep, Custody, [Next]_vars
    PROVE  Custody'
<1>0. UNCHANGED <<kind, policy>>
  BY FixedStays
<1> SUFFICES ASSUME Undisturbed
             PROVE  /\ HeldOnce' /\ HeldIsOpen'
                    /\ disp'.pc = "settle" => disp'.settle = {{disp'.msg}}
                    /\ disp'.pc \notin {"replace", "stopped"}
  BY <1>0 DEF Custody, Undisturbed, Stoppable
<1>1. HeldOnce /\ HeldIsOpen /\ (disp.pc = "settle" => disp.settle = {{disp.msg}})
  BY DEF Custody
<1>2. ASSUME NEW x \in Message, Dispatch(x)
      PROVE  /\ HeldOnce' /\ HeldIsOpen'
             /\ disp'.pc = "settle" => disp'.settle = {{disp'.msg}}
             /\ disp'.pc \notin {"replace", "stopped"}
  BY <1>2, HolderComes
<1>3. ASSUME \A x \in Message : ~ Dispatch(x)
      PROVE  /\ HeldOnce' /\ HeldIsOpen'
             /\ disp'.pc = "settle" => disp'.settle = {{disp'.msg}}
             /\ disp'.pc \notin {"replace", "stopped"}
  <2>1. /\ \A m : DispHolds(m)' => DispHolds(m)
        /\ disp'.pc = "settle" => disp'.settle = {{disp'.msg}}
        /\ disp'.pc \notin {"replace", "stopped"}
    BY <1>3, LoopKept
  <2>2. HeldOnce' /\ \A m \in Message : Held(m)' => Held(m)
    <3>1. CASE StartTurn \/ Enqueue \/ \E t \in Turn : TurnReleases(t)
      BY <3>1, HoldersPass
    <3>2. CASE ~ (StartTurn \/ Enqueue \/ \E t \in Turn : TurnReleases(t))
      <4>1. \A t \in Turn, m \in Message : TurnHolds(t, m)' => TurnHolds(t, m)
        <5>1. \A t \in Turn : TurnKeeps(t)
          BY <3>2, TurnsKept
        <5> QED BY <5>1 DEF TurnKeeps, TurnHolds, Live
      <4>2. pending' \in {pending, <<>>}
        BY <3>2, QueueKept, Uncanceled
      <4> QED BY <1>1, <2>1, <4>1, <4>2, HoldersLetGo
    <3> QED BY <3>1, <3>2
  <2>3. ASSUME NEW m \in Message, Held(m)'
        PROVE  records'[m].status = "processing" /\ ~ L!Owned(m)'
    <3>1. Held(m) /\ records[m].status = "processing" /\ ~ L!Owned(m)
      BY <1>1, <2>2, <2>3 DEF HeldIsOpen
    <3>2. ASSUME Settle, NEW C \in disp.settle, m \in C
          PROVE  FALSE
      <4>1. disp.pc = "settle" /\ m = disp.msg /\ disp.settle = {{disp.msg}}
        BY <1>1, <3>2 DEF Settle
      <4>2. disp' = IdleDisp /\ UNCHANGED <<turns, pending>>
        BY <3>2, <4>1 DEF Settle, sessionVars
      <4>3. DispHolds(m) /\ ~ DispHolds(m)'
        BY <4>1, <4>2 DEF DispHolds, IdleDisp
      <4>4. /\ \A t \in Turn : ~ TurnHolds(t, m)'
            /\ \A i \in DOMAIN pending' : ~ QueueHolds(i, m)'
        BY <1>1, <4>2, <4>3 DEF HeldOnce, TurnHolds, QueueHolds, Live
      <4> QED BY <2>3, <4>3, <4>4 DEF Held
    <3>3. ASSUME NEW t \in Turn, TurnFails(t) \/ TurnPrepares(t), Live(t), m \in turns[t].claims, ~ Live(t)'
          PROVE  FALSE
      <4>1. TurnHolds(t, m) /\ ~ TurnHolds(t, m)'
        BY <3>3 DEF TurnHolds
      <4>2. UNCHANGED <<disp, pending>>
        BY <3>3 DEF TurnFails, TurnPrepares, sessionVars
      <4>3. \A u \in Turn : u # t => turns'[u] = turns[u]
        BY <3>3 DEF TurnFails, TurnPrepares, GoTo, TypeInv, TurnsType
      <4>4. ~ DispHolds(m)'
        BY <1>1, <4>1, <4>2 DEF HeldOnce, DispHolds
      <4>5. \A i \in DOMAIN pending' : ~ QueueHolds(i, m)'
        BY <1>1, <4>1, <4>2 DEF HeldOnce, QueueHolds
      <4>6. \A u \in Turn : ~ TurnHolds(u, m)'
        BY <1>1, <4>1, <4>3 DEF HeldOnce, TurnHolds, Live
      <4> QED BY <2>3, <4>4, <4>5, <4>6 DEF Held
    <3>4. ASSUME NEW t \in Turn, TurnFails(t), m \in turns[t].claims
          PROVE  FALSE
      <4>1. turns \in [Turn -> TurnSet] /\ GoTo(t, "ending") /\ turns[t].pc = "erred"
        BY <3>4 DEF TypeInv, TurnsType, TurnFails
      <4>2. turns'[t].pc = "ending"
        BY <4>1 DEF GoTo, TurnSet
      <4> QED BY <3>3, <3>4, <4>1, <4>2 DEF Live
    <3>5. ASSUME NEW t \in Turn, Stores(t), m \in turns[t].claims
          PROVE  FALSE
      <4>1. turns \in [Turn -> TurnSet] /\ TurnPrepares(t) /\ turns[t].pc = "answered"
        BY <3>5 DEF TypeInv, TurnsType, Stores
      <4>2. L!Prepare(turns[t].msg, turns[t].claims, ChunksOf[turns[t].msg]) /\ turns[t].msg \in Message
        BY <3>5, StoreOwns DEF Stores
      <4>3. ~ UNCHANGED ledgerVars /\ L!MayPrepare(turns[t].msg, turns[t].claims)
        <5> PICK k \in Message : k = turns[t].msg
          BY <4>2
        <5>1. ChunksOf[k] \in Nat /\ turns[t].claims \in SUBSET Message
          BY Counters, Shapes DEF TypeInv, TurnsType
        <5>2. ~ L!Owed(k) /\ obligations'[k].status = "pending"
          BY <4>2, <5>1, PrepareEffect
        <5>3. obligations' # obligations
          BY <5>2 DEF L!Owed
        <5> QED BY <4>2, <5>3 DEF ledgerVars, L!Prepare
      <4>4. GoTo(t, "sending") \/ GoTo(t, "ending")
        BY <4>1, <4>3 DEF TurnPrepares, WriteFails, NoWrite
      <4>5. turns'[t].pc \in {"sending", "ending"}
        BY <4>1, <4>4 DEF GoTo, TurnSet
      <4> QED BY <3>3, <3>5, <4>1, <4>5 DEF Live
    <3>6. ~ Restart
      <4> SUFFICES ASSUME Restart PROVE FALSE
        OBVIOUS
      <4>1. disp = IdleDisp /\ pending = <<>> /\ \A t \in Turn : turns[t] = IdleTurn
        BY DEF Asleep, Restart
      <4>2. DOMAIN pending = {} /\ ~ DispHolds(m) /\ \A t \in Turn : ~ TurnHolds(t, m)
        BY <4>1 DEF DispHolds, IdleDisp, TurnHolds, Live, IdleTurn
      <4> QED BY <3>1, <4>2 DEF Held
    <3> QED BY <3>1, <3>2, <3>4, <3>5, <3>6, StaysOpen, Uncanceled
  <2> QED BY <2>1, <2>2, <2>3 DEF HeldIsOpen
<1> QED BY <1>2, <1>3

-----------------------------------------------------------------------------
(* One answer per message.                                                 *)

(* What a step that does nothing to an answer keeps of it.                 *)
LEMMA AnsweredFrame ==
    ASSUME NEW k \in Message, OneAnswerOf(k), InOrder(k), SenderRests(k),
           obligations'[k] = obligations[k], screen'[k] = screen[k], answerRun'[k] = answerRun[k],
           records[k].status = "delivered" => records'[k].status = "delivered"
    PROVE  OneAnswerOf(k)' /\ InOrder(k)'
<1>1. Shown(k)' = Shown(k) /\ (L!Owed(k)' <=> L!Owed(k)) /\ (Ambiguous(k)' <=> Ambiguous(k))
  BY DEF Shown, L!Owed, Ambiguous
<1>2. sender'[k].pc \in {"begin", "post", "fail", "ack"} => sender'[k] = sender[k]
  BY DEF SenderRests
<1>3. Begun(k)' => Begun(k)
  BY <1>2 DEF Begun, Posting
<1>4. InOrder(k)'
  BY DEF InOrder
<1> QED BY <1>1, <1>2, <1>3, <1>4 DEF OneAnswerOf, Posting

(* An answer that goes away with its message.                              *)
LEMMA AnsweredDrop ==
    ASSUME NEW k \in Message, OneAnswerOf(k), InOrder(k), SenderRests(k),
           obligations'[k] = L!NoObligation, screen'[k] = screen[k], answerRun'[k] = answerRun[k],
           records'[k].status = "delivered"
    PROVE  OneAnswerOf(k)' /\ InOrder(k)'
<1>1. Shown(k)' = Shown(k) /\ ~ L!Owed(k)' /\ obligations'[k].status # "pending"
  BY DEF Shown, L!Owed, L!NoObligation
<1>2. sender'[k].pc \in {"begin", "post", "fail", "ack"} => sender'[k] = sender[k]
  BY DEF SenderRests
<1>3. InOrder(k)'
  BY DEF InOrder
<1> QED BY <1>1, <1>2, <1>3 DEF OneAnswerOf, Posting

(* A settlement drops only answers whose own message it settles.           *)
LEMMA DropsItsOwn ==
    ASSUME LP!IInv, Custody, Unmerged, Uncrossed, NEW C \in SUBSET Message, Settles(C),
           NEW k \in Message, obligations[k].claims \cap C # {}
    PROVE  k \in C
<1>1. L!Owed(k)
  BY LedgerFacts
<1>2. CASE ~ Merging
  BY <1>1, <1>2 DEF Unmerged
<1>3. CASE Merging
  <2>1. HeldIsOpen /\ disp.pc # "stopped" /\ (disp.pc = "settle" => disp.settle = {{disp.msg}})
    BY <1>3 DEF Merging, Uncrossed, Undisturbed, Custody
  <2>2. disp.pc = "settle" /\ C = {disp.msg}
    BY <2>1 DEF Settles
  <2>3. disp.msg \in Message /\ disp.msg \in obligations[k].claims
    BY <2>2
  <2>4. L!Owned(disp.msg) /\ Held(disp.msg)
    BY <1>1, <2>2, <2>3 DEF L!Owned, Held, DispHolds
  <2> QED BY <2>1, <2>3, <2>4 DEF HeldIsOpen
<1> QED BY <1>2, <1>3

(* Another post keeps the order and repeats nothing unmarked.              *)
LEMMA InOrderPost ==
    ASSUME NEW s \in Seq(Post), NEW p \in Post,
           \A i, j \in DOMAIN s : i < j => /\ s[i].chunk <= s[j].chunk
                                           /\ s[i].chunk = s[j].chunk => s[j].marked,
           \A i \in DOMAIN s : s[i].chunk <= p.chunk /\ s[i].run = p.run
                               /\ (s[i].chunk = p.chunk => p.marked)
    PROVE  /\ \A i, j \in DOMAIN Append(s, p) : i < j =>
                /\ Append(s, p)[i].chunk <= Append(s, p)[j].chunk
                /\ Append(s, p)[i].chunk = Append(s, p)[j].chunk => Append(s, p)[j].marked
           /\ \A i \in DOMAIN Append(s, p) : Append(s, p)[i].run = p.run
<1> DEFINE a == Append(s, p)
<1>1. /\ Len(s) \in Nat /\ DOMAIN a = 1..(Len(s) + 1) /\ DOMAIN s = 1..Len(s)
      /\ a[Len(s) + 1] = p /\ \A i \in 1..Len(s) : a[i] = s[i]
  OBVIOUS
<1> HIDE DEF a
<1>2. \A i \in DOMAIN a : i \in Nat /\ (i = Len(s) + 1 \/ i \in DOMAIN s)
  BY <1>1
<1>3. \A i, j \in DOMAIN a : i < j => i \in DOMAIN s
  BY <1>1
<1>4. \A i \in DOMAIN s : a[i] = s[i]
  BY <1>1
<1>5. \A i, j \in DOMAIN a : i < j => /\ a[i].chunk <= a[j].chunk
                                      /\ a[i].chunk = a[j].chunk => a[j].marked
  BY <1>1, <1>2, <1>3, <1>4
<1>6. \A i \in DOMAIN a : a[i].run = p.run
  BY <1>1, <1>2, <1>4
<1> QED BY <1>5, <1>6 DEF a

(* A step keeps one answer per message.                                    *)
LEMMA AnsweredStep ==
    ASSUME LP!IInv, TypeInv, Progress, Custody, Unmerged, Answered, [Next]_vars
    PROVE  Answered'
<1>0. UNCHANGED <<kind, policy>>
  BY FixedStays
<1> SUFFICES ASSUME Uncrossed
             PROVE  \A k \in Message : OneAnswerOf(k)' /\ InOrder(k)'
  BY <1>0 DEF Answered, Uncrossed, Merging, Stoppable
<1>1. \A k \in Message : OneAnswerOf(k) /\ InOrder(k)
  BY DEF Answered
<1>2. CASE Quiet
  BY <1>1, <1>2, AnsweredFrame DEF Quiet, SameSettled
<1>3. ASSUME NEW C \in SUBSET Message, Settles(C)
      PROVE  \A k \in Message : OneAnswerOf(k)' /\ InOrder(k)'
  <2> SUFFICES ASSUME NEW k \in Message PROVE OneAnswerOf(k)' /\ InOrder(k)'
    OBVIOUS
  <2>1. /\ screen'[k] = screen[k] /\ answerRun'[k] = answerRun[k] /\ SenderRests(k)
        /\ records'[k].status = "delivered" <=> records[k].status = "delivered" \/ k \in C
        /\ obligations'[k] = IF obligations[k].claims \cap C # {} THEN L!NoObligation ELSE obligations[k]
    BY <1>3 DEF Settles, SenderRests
  <2>2. CASE obligations[k].claims \cap C # {}
    BY <1>1, <1>3, <2>1, <2>2, DropsItsOwn, AnsweredDrop
  <2>3. CASE obligations[k].claims \cap C = {}
    BY <1>1, <2>1, <2>3, AnsweredFrame
  <2> QED BY <2>2, <2>3
<1>4. ASSUME NEW t \in Turn, Stores(t)
      PROVE  \A k \in Message : OneAnswerOf(k)' /\ InOrder(k)'
  <2>0. turns[t].msg \in Message /\ turns[t].claims \in SUBSET Message
    BY <1>4, Shapes DEF TypeInv, TurnsType, Stores
  <2> PICK p \in Message : p = turns[t].msg
    BY <2>0
  <2>1. ChunksOf[p] \in Nat /\ L!Prepare(p, turns[t].claims, ChunksOf[p])
    BY <1>4, Counters DEF Stores
  <2>2. /\ ~ L!Owed(p) /\ L!Open(p) /\ records' = records
        /\ \A j \in Message : j # p => obligations'[j] = obligations[j]
        /\ obligations'[p].status = "pending"
    BY <2>0, <2>1, PrepareEffect
  <2>3. screen' = screen /\ answerRun' = [answerRun EXCEPT ![p] = turns[t].run]
        /\ \A k \in Message : SenderRests(k)
    BY <1>4 DEF Stores
  <2>4. \A j \in Message : j # p => OneAnswerOf(j)' /\ InOrder(j)'
    <3>1. \A j \in Message : j # p => answerRun'[j] = answerRun[j]
      BY <2>3 DEF TypeInv, ChatType
    <3> QED BY <1>1, <2>2, <2>3, <3>1, AnsweredFrame
  <2>5. OneAnswerOf(p)' /\ InOrder(p)'
    <3>1. screen[p] = <<>> /\ ~ Posting(p)
      BY <1>1, <2>2 DEF OneAnswerOf, Begun, L!Open
    <3>2. DOMAIN screen'[p] = {} /\ Shown(p)' = {}
      BY <2>3, <3>1 DEF Shown
    <3>3. ~ Posting(p)' /\ sender'[p].pc # "post"
      BY <2>3, <3>1 DEF SenderRests, Posting
    <3>4. ~ Ambiguous(p)' /\ L!Owed(p)'
      BY <2>2 DEF Ambiguous, L!Owed
    <3>5. InOrder(p)'
      BY <3>2 DEF InOrder
    <3> QED BY <3>2, <3>3, <3>4, <3>5 DEF OneAnswerOf
  <2> QED BY <2>4, <2>5
<1>5. ASSUME NEW k \in Message, Reads(k) \/ Begins(k) \/ Posts(k) \/ Fails(k) \/ Acks(k) \/ Finishes(k)
      PROVE  \A j \in Message : OneAnswerOf(j)' /\ InOrder(j)'
  <2>1. \A j \in Message : j # k =>
           /\ obligations'[j] = obligations[j] /\ sender'[j] = sender[j]
           /\ screen'[j] = screen[j] /\ answerRun'[j] = answerRun[j]
           /\ records[j].status = "delivered" => records'[j].status = "delivered"
    <3>0. \A x \in Message : L!Owed(x) => \A m \in obligations[x].claims : records[m].status # "delivered"
      BY LedgerFacts DEF L!Open
    <3>1. CASE Reads(k)
      BY <3>1 DEF Reads, Others, ledgerVars
    <3>2. CASE Begins(k)
      BY <3>0, <3>2, BeginEffect DEF Begins, Others
    <3>3. CASE Posts(k)
      BY <3>3, PostEffect DEF Posts, Others, ledgerVars
    <3>4. CASE Fails(k)
      BY <3>0, <3>4, FailAttemptEffect DEF Fails, Others
    <3>5. CASE Acks(k)
      BY <3>5, AckChunkEffect DEF Acks, Others
    <3>6. CASE Finishes(k)
      BY <3>6, AckLastEffect DEF Finishes, Others
    <3> QED BY <1>5, <3>1, <3>2, <3>3, <3>4, <3>5, <3>6
  <2>2. \A j \in Message : j # k => OneAnswerOf(j)' /\ InOrder(j)'
    BY <1>1, <2>1, AnsweredFrame DEF SenderRests
  <2>3. OneAnswerOf(k) /\ InOrder(k) /\ ProgressOf(k)
    BY <1>1 DEF Progress
  <2>4. OneAnswerOf(k)' /\ InOrder(k)'
    <3>1. CASE Reads(k)
      <4>1. /\ Shown(k)' = Shown(k) /\ screen'[k] = screen[k] /\ answerRun'[k] = answerRun[k]
            /\ obligations'[k] = obligations[k] /\ records' = records
            /\ sender'[k].pc = "begin" /\ sender'[k].marked = Ambiguous(k) /\ L!Owed(k)
        BY <3>1 DEF Reads, Shown, ledgerVars
      <4>2. (L!Owed(k)' <=> L!Owed(k)) /\ (Ambiguous(k)' <=> Ambiguous(k)) /\ InOrder(k)'
        BY <2>3, <4>1 DEF L!Owed, Ambiguous, InOrder
      <4>3. ~ Posting(k)'
        BY <4>1 DEF Posting
      <4>4. sender'[k].marked <=> Ambiguous(k)
        BY <4>1
      <4> QED BY <2>3, <4>1, <4>2, <4>3, <4>4 DEF OneAnswerOf
    <3>2. CASE Begins(k)
      <4>1. /\ Shown(k)' = Shown(k) /\ screen'[k] = screen[k] /\ answerRun'[k] = answerRun[k]
            /\ L!Owed(k) /\ obligations'[k].status = "attempting" /\ obligations'[k].next = obligations[k].next
            /\ sender[k].pc = "begin" /\ sender'[k].pc = "post" /\ sender'[k].chunk = obligations[k].next
            /\ sender'[k].marked = sender[k].marked
        BY <3>2, BeginEffect DEF Begins, Shown
      <4>2. L!Owed(k)' /\ InOrder(k)'
        BY <2>3, <4>1 DEF L!Owed, InOrder
      <4>3. obligations[k].status = "pending" \/ Ambiguous(k)
        <5>1. obligations[k] \in L!Obligation
          BY LedgerFacts
        <5> QED BY <4>1, <5>1 DEF L!Owed, Ambiguous, L!Obligation, L!ObligationStatus
      <4>4. obligations[k].next \in Shown(k) => sender[k].marked
        BY <2>3, <4>1, <4>3 DEF OneAnswerOf
      <4>5. \A c \in Shown(k) : c <= obligations[k].next
        BY <2>3, <4>1 DEF OneAnswerOf
      <4> QED BY <2>3, <4>1, <4>2, <4>4, <4>5 DEF OneAnswerOf
    <3>3. CASE Posts(k)
      <4> DEFINE p == [chunk |-> sender[k].chunk, run |-> answerRun[k], marked |-> sender[k].marked]
      <4>1. /\ UNCHANGED <<ledgerVars, answerRun>>
            /\ sender[k].pc = "post" /\ sender'[k].pc \in {"ack", "fail"}
            /\ \/ screen'[k] = screen[k] /\ Shown(k)' = Shown(k)
               \/ screen'[k] = Append(screen[k], p) /\ Shown(k)' = Shown(k) \cup {sender[k].chunk}
        BY <3>3, PostEffect
      <4>2. Posting(k) /\ Posting(k)' /\ sender'[k].pc \notin {"begin", "post"}
        BY <4>1 DEF Posting
      <4>3. /\ obligations' = obligations /\ records' = records
            /\ L!Owed(k)' <=> L!Owed(k)
        BY <4>1 DEF ledgerVars, L!Owed
      <4>4. L!Owed(k) => obligations[k].status = "attempting" /\ sender[k].chunk = obligations[k].next
        BY <2>3, <4>2 DEF OneAnswerOf, ProgressOf
      <4>5. obligations[k].status # "pending"
        BY <4>4 DEF L!Owed
      <4>6. CASE screen'[k] = screen[k] /\ Shown(k)' = Shown(k)
        <5>1. InOrder(k)'
          BY <2>3, <4>6 DEF InOrder
        <5> QED BY <2>3, <4>1, <4>2, <4>3, <4>4, <4>5, <4>6, <5>1 DEF OneAnswerOf, Begun
      <4>7. CASE screen'[k] = Append(screen[k], p) /\ Shown(k)' = Shown(k) \cup {sender[k].chunk}
        <5>1. p \in Post /\ screen[k] \in Seq(Post)
          <6>1. sender[k] \in SenderSet
            BY DEF TypeInv, SendersType
          <6> QED BY <6>1 DEF Post, SenderSet, TypeInv, ChatType, Progress
        <5>2. p.chunk = sender[k].chunk /\ p.run = answerRun[k] /\ p.marked = sender[k].marked
          OBVIOUS
        <5> HIDE DEF p
        <5>3. \A i \in DOMAIN screen[k] : screen[k][i].chunk <= p.chunk /\ screen[k][i].run = p.run
                               /\ (screen[k][i].chunk = p.chunk => p.marked)
          <6>1. \A i \in DOMAIN screen[k] : screen[k][i].chunk \in Shown(k)
            BY DEF Shown
          <6> QED BY <2>3, <4>1, <5>2, <6>1 DEF OneAnswerOf
        <5>4. /\ \A i, j \in DOMAIN screen'[k] : i < j =>
                   /\ screen'[k][i].chunk <= screen'[k][j].chunk
                   /\ screen'[k][i].chunk = screen'[k][j].chunk => screen'[k][j].marked
              /\ \A i \in DOMAIN screen'[k] : screen'[k][i].run = p.run
          BY <2>3, <4>7, <5>1, <5>3, InOrderPost DEF InOrder
        <5>5. InOrder(k)'
          BY <5>4 DEF InOrder
        <5>6. L!Owed(k) => \A c \in Shown(k)' : c <= obligations[k].next
          BY <2>3, <4>4, <4>7, Counters DEF OneAnswerOf
        <5> QED BY <2>3, <4>1, <4>2, <4>3, <4>4, <4>5, <5>2, <5>4, <5>5, <5>6 DEF OneAnswerOf, Begun
      <4> QED BY <4>1, <4>6, <4>7
    <3>4. CASE Fails(k)
      <4>1. /\ Shown(k)' = Shown(k) /\ screen'[k] = screen[k] /\ answerRun'[k] = answerRun[k]
            /\ L!Owed(k) /\ obligations'[k].status = "failed" /\ obligations'[k].next = obligations[k].next
            /\ sender'[k].pc = "idle"
        BY <3>4, FailAttemptEffect DEF Fails, Shown
      <4>2. L!Owed(k)' /\ InOrder(k)' /\ ~ Posting(k)'
        BY <2>3, <4>1 DEF L!Owed, InOrder, Posting
      <4> QED BY <2>3, <4>1, <4>2 DEF OneAnswerOf
    <3>5. CASE Acks(k)
      <4>1. /\ Shown(k)' = Shown(k) /\ screen'[k] = screen[k] /\ answerRun'[k] = answerRun[k]
            /\ L!Owed(k) /\ obligations'[k].status = "pending"
            /\ obligations'[k].next = obligations[k].next + 1
            /\ sender'[k].pc = "read"
        BY <3>5, AckChunkEffect DEF Acks, Shown
      <4>2. L!Owed(k)' /\ InOrder(k)' /\ ~ Posting(k)'
        BY <2>3, <4>1 DEF L!Owed, InOrder, Posting
      <4>3. \A c \in Shown(k) : c <= obligations[k].next + 1 /\ c # obligations[k].next + 1
        <5>1. \A c \in Shown(k) : c <= obligations[k].next /\ c \in Nat
          BY <2>3, <4>1, Counters DEF OneAnswerOf, ProgressOf
        <5> QED BY <5>1, Counters
      <4> QED BY <2>3, <4>1, <4>2, <4>3 DEF OneAnswerOf
    <3>6. CASE Finishes(k)
      <4>1. /\ screen'[k] = screen[k] /\ answerRun'[k] = answerRun[k] /\ SenderRests(k)
            /\ obligations'[k] = L!NoObligation /\ records'[k].status = "delivered"
        BY <3>6, AckLastEffect, LedgerFacts DEF Finishes, SenderRests
      <4> QED BY <2>3, <4>1, AnsweredDrop
    <3> QED BY <1>5, <3>1, <3>2, <3>3, <3>4, <3>5, <3>6
  <2> QED BY <2>2, <2>4
<1> QED BY <1>2, <1>3, <1>4, <1>5, Steps

-----------------------------------------------------------------------------
(* The inductive invariant, and what follows from it.                      *)
LEMMA Starts ==
    ASSUME Init
    PROVE  IInv
<1>1. LP!IInv /\ TypeInv /\ Progress
  BY LedgerStarts, TypeStart, ProgressStarts DEF Init
<1>2. /\ disp = IdleDisp /\ pending = <<>> /\ turns = [t \in Turn |-> IdleTurn] /\ phase = "up"
      /\ \A k \in Message : obligations[k] = L!NoObligation /\ screen[k] = <<>> /\ sender[k] = IdleSender
  BY DEF Init, L!Init
<1>3. \A t \in Turn : turns[t].pc = "idle"
  BY <1>2 DEF IdleTurn
<1>4. DOMAIN pending = {} /\ disp.pc = "idle"
  BY <1>2 DEF IdleDisp
<1>5. \A k \in Message : ~ L!Owed(k) /\ sender[k].pc = "idle" /\ DOMAIN screen[k] = {}
                         /\ obligations[k].status = "none"
  BY <1>2 DEF L!Owed, L!NoObligation, IdleSender
<1>6. Asleep /\ Unmerged
  BY <1>2, <1>3, <1>4, <1>5 DEF Asleep, Unmerged
<1>7. Custody
  <2>1. \A m \in Message : ~ DispHolds(m) /\ \A t \in Turn : ~ TurnHolds(t, m)
    BY <1>3, <1>4 DEF DispHolds, TurnHolds, Live
  <2> QED BY <1>4, <2>1 DEF Custody, HeldOnce, HeldIsOpen, Held
<1>8. Answered
  <2>1. \A k \in Message : Shown(k) = {} /\ ~ Begun(k)
    BY <1>2, <1>5 DEF Shown, Begun, Posting
  <2> QED BY <1>5, <2>1 DEF Answered, OneAnswerOf, InOrder
<1> QED BY <1>1, <1>6, <1>7, <1>8 DEF IInv

LEMMA InvariantStep ==
    ASSUME IInv, [Next]_vars
    PROVE  IInv'
  BY TypeStep, LedgerStep, LedgerKept, AsleepStep, ProgressStep, CustodyStep, UnmergedStep, AnsweredStep
     DEF IInv

(* Whatever fails, crashes or comes twice, the ledger is sound, the screen *)
(* agrees with it, every claim has one holder and every message one answer *)
(* (handleMessage, runTurn, sendOutboundObligation and the restart).       *)
THEOREM Invariance == Spec => []IInv
  BY Starts, InvariantStep, PTL DEF Spec

(* Every variable keeps its shape: the queue stays within queue_cap and    *)
(* what is posted is a chunk of an answer (TryAcquireWithQueue and         *)
(* sendOutboundObligation).                                                *)
THEOREM TypeCorrect == Spec => []TypeOK
<1>1. IInv => TypeOK
  <2> SUFFICES ASSUME IInv PROVE TypeOK
    OBVIOUS
  <2>1. L!TypeOK
    <3>1. sequences \in [{"channel"} -> Nat] /\ checkpoints \in [{"channel"} -> Nat]
      BY DEF IInv, LP!IInv, LP!TypeOK
    <3> QED BY <3>1, LedgerFacts DEF L!TypeOK, IInv
  <2>2. \A k \in Message : \A i \in DOMAIN screen[k] :
           screen[k][i] \in [chunk : 0..(MaxChunks - 1), run : Nat, marked : BOOLEAN]
    <3> SUFFICES ASSUME NEW k \in Message, NEW i \in DOMAIN screen[k]
                 PROVE  screen[k][i] \in [chunk : 0..(MaxChunks - 1), run : Nat, marked : BOOLEAN]
      OBVIOUS
    <3>1. screen[k] \in Seq(Post) /\ Shown(k) \subseteq 0..(ChunksOf[k] - 1)
      BY DEF IInv, Progress, ProgressOf
    <3>2. screen[k][i] \in Post /\ screen[k][i].chunk \in Shown(k)
      BY <3>1 DEF Shown
    <3>3. ChunksOf[k] \in Nat /\ ChunksOf[k] <= MaxChunks /\ MaxChunks \in Nat
      BY Counters DEF IInv
    <3>4. screen[k][i].chunk \in 0..(MaxChunks - 1)
      BY <3>1, <3>2, <3>3
    <3> QED BY <3>2, <3>4 DEF Post
  <2>3. TypeInv
    BY DEF IInv
  <2>4. /\ inbox \subseteq Message /\ recover \subseteq Message
        /\ run \in [Message -> Nat] /\ answerRun \in [Message -> Nat]
        /\ faults \in 0..MaxFaults /\ writeFailed \in BOOLEAN
        /\ phase \in {"down", "recovering", "up"}
        /\ active \in BOOLEAN /\ Len(pending) <= policy.cap
        /\ cancelOf \in Turn \cup {NoTurn} /\ ctrl \in Turn \cup {NoTurn}
    BY <2>3 DEF TypeInv, ChatType, SessionType
  <2>5. disp.msg \in Message \cup {NoMessage} /\ disp.settle \subseteq SUBSET Message
    BY <2>3 DEF TypeInv, DispType, DispSet
  <2>6. turns \in [Turn -> [pc : {"idle", "setup", "running", "answered", "erred",
                                  "sending", "ending", "releasing"},
                            msg : Message \cup {NoMessage}, claims : SUBSET Message,
                            run : Nat, canceled : BOOLEAN]]
    BY <2>3 DEF TypeInv, TurnsType, TurnSet, TurnPC
  <2>7. \A k \in Message : sender[k].pc \in {"idle", "read", "begin", "post", "fail", "ack"}
    BY <2>3, Shapes DEF TypeInv, SendersType, SenderPC
  <2> QED BY <2>1, <2>2, <2>4, <2>5, <2>6, <2>7 DEF TypeOK
<1> QED BY <1>1, Invariance, PTL

(* Where no command can cancel merged claims, the user sees one answer to  *)
(* each message, chunk after chunk: once an answer is stored no other run  *)
(* replaces it and no acknowledged chunk is sent again                     *)
(* (prepareOutboundObligation, acknowledgeOutboundChunk).                  *)
THEOREM OneAnswerEach == Spec => []OneAnswerInOrder
<1>1. IInv => OneAnswerInOrder
  <2> SUFFICES ASSUME IInv, Uncrossed, NEW k \in Message,
                      NEW i \in DOMAIN screen[k], NEW j \in DOMAIN screen[k], i < j
               PROVE  screen[k][i].run = screen[k][j].run /\ screen[k][i].chunk <= screen[k][j].chunk
    BY DEF OneAnswerInOrder
  <2> QED BY DEF IInv, Answered, OneAnswerOf, InOrder
<1> QED BY <1>1, Invariance, PTL

(* There, a chunk is posted twice only with the mark that warns of it,     *)
(* across crashes, failed writes and lost confirmations                    *)
(* (recoveredReplyMarker in sendOutboundObligation).                       *)
THEOREM RepeatsAreMarked == Spec => []NoSilentRepeat
<1>1. IInv => NoSilentRepeat
  <2> SUFFICES ASSUME IInv, Uncrossed, NEW k \in Message,
                      NEW i \in DOMAIN screen[k], NEW j \in DOMAIN screen[k],
                      i < j, screen[k][i].chunk = screen[k][j].chunk
               PROVE  screen[k][j].marked
    BY DEF NoSilentRepeat
  <2> QED BY DEF IInv, Answered, InOrder
<1> QED BY <1>1, Invariance, PTL

(* Where nothing is canceled, the model never runs for a message that is   *)
(* answered or has an answer stored (claim, and the duplicate branch of    *)
(* handleMessage).                                                         *)
THEOREM RunsAreNeeded == Spec => RunOnlyUnanswered
<1> DEFINE Needed == policy.mode # "interrupt" /\ ~ Stoppable =>
                        \A m \in Message : run'[m] # run[m] => L!Open(m) /\ ~ L!Owned(m)
<1>1. IInv /\ [Next]_vars => [Needed]_vars
  <2> SUFFICES ASSUME IInv, [Next]_vars, Undisturbed, NEW m \in Message, run'[m] # run[m]
               PROVE  L!Open(m) /\ ~ L!Owned(m)
    BY DEF Undisturbed
  <2>1. \E t \in Turn : TurnBegins(t)
    <3>1. CASE DispatchLoop
      BY <3>1 DEF DispatchLoop, Dispatch, DispatchClaimFails, DispatchDuplicate, ReplyAtOnce, Settle,
                  StartTurn, Enqueue, Interrupt, ReplacePending, StopCommand, StopSettles, chatVars
    <3>2. CASE \E t \in Turn : RunTurn(t)
      BY <3>2 DEF RunTurn, TurnReturns, TurnFails, TurnPrepares, TurnEnds, TurnReleases, chatVars
    <3>3. CASE \E k \in Message : Send(k)
      BY <3>3 DEF Send, SendRead, SendBegin, SendPost, SendFail, SendAck, chatVars
    <3>4. CASE Start \/ Crash \/ (\E x \in Message : Duplicate(x)) \/ UNCHANGED vars
      BY <3>4 DEF Start, Restart, RecoverNext, Started, Crash, Duplicate, vars, chatVars
    <3> QED BY <3>1, <3>2, <3>3, <3>4 DEF Next, Waiting
  <2> PICK t \in Turn : TurnBegins(t)
    BY <2>1
  <2>2. turns[t].msg \in Message /\ turns[t].msg \in turns[t].claims /\ turns[t].pc = "setup"
    BY Shapes DEF IInv, TypeInv, TurnsType, TurnBegins
  <2>3. m = turns[t].msg
    <3>1. run \in [Message -> Nat]
      BY DEF IInv, TypeInv, ChatType
    <3> QED BY <2>2, <3>1 DEF TurnBegins
  <2>4. Held(m)
    BY <2>2, <2>3 DEF Held, TurnHolds, Live
  <2>5. records[m].status = "processing" /\ ~ L!Owned(m)
    BY <2>4 DEF IInv, Custody, HeldIsOpen
  <2> QED BY <2>5 DEF L!Open
<1> QED BY <1>1, Invariance, PTL DEF Spec, RunOnlyUnanswered
-----------------------------------------------------------------------------
(* The Telegram adapter in front of the gateway: users send any number of  *)
(* updates of any kind.                                                    *)

(* What the offset may pass: an update that needs no answer, or has one in *)
(* the ledger.                                                             *)
Settled(u) == Kind[u] = "other" \/ ledger[u] = "delivered"

(* The adapter says of an update what the ledger says, and whatever comes  *)
(* before the batch is settled.                                            *)
Acknowledged ==
    /\ \A u \in Update : u < confirmed \/ u < nextOffset => Settled(u)
    /\ \A u \in Update : pendingState[u] = "delivered" => Settled(u)
    /\ \A u, v \in Update : v < u /\ pendingState[u] # "none" /\ pendingState[v] = "none" => Settled(v)
    /\ loop # "poll" => \E u \in Update : pendingState[u] # "none"

(* Only a claimed task has a turn.                                         *)
TurnsAreClaimed ==
    \A u \in Update : turn[u] # "none" => ledger[u] = "processing" /\ Kind[u] = "task"

Shaped == /\ PollingTypeOK /\ msgCh \in Seq(Update) /\ toPublish \in Seq(Update)

AdapterInv == Shaped /\ Acknowledged /\ TurnsAreClaimed

LEMMA Least ==
    ASSUME NEW S, S \subseteq Nat, S # {}
    PROVE  \E x \in S : \A y \in S : x <= y
<1> DEFINE R == OpToRel(<, Nat)
<1>1. R = {ss \in Nat \X Nat : ss[1] < ss[2]}  BY DEF OpToRel
<1>2. IsWellFoundedOn(R, Nat)  BY NatLessThanWellFounded
<1> HIDE DEF R
<1>3. PICK x \in S : \A y \in S : ~ (<<y, x>> \in R)  BY <1>2, WFMin
<1>4. \A y \in S : x <= y
  <2> TAKE y \in S
  <2>1. ~ (y < x)  BY <1>1, <1>3
  <2> QED BY <2>1
<1> QED BY <1>4

LEMMA Bounds ==
    ASSUME Updates \in Nat, NEW S, S \subseteq Update, S # {}
    PROVE  /\ Min(S) \in S /\ \A y \in S : Min(S) <= y
           /\ Max(S) \in S /\ \A y \in S : Max(S) >= y
<1>0. S \subseteq Nat  BY DEF Update
<1>1. \E x \in S : \A y \in S : x <= y  BY <1>0, Least
<1>2. \E x \in S : \A y \in S : x >= y
  <2> DEFINE D == {Updates - y : y \in S}
  <2>0. \A y \in S : Updates - y \in Nat  BY DEF Update
  <2>1. D \subseteq Nat /\ D # {}  BY <2>0
  <2>2. PICK d \in D : \A e \in D : d <= e  BY <2>1, Least
  <2>3. PICK x \in S : d = Updates - x  OBVIOUS
  <2>4. \A y \in S : x >= y
    <3> TAKE y \in S
    <3>1. d <= Updates - y  BY <2>2
    <3> QED BY <2>3, <3>1 DEF Update
  <2> QED BY <2>4
<1> QED BY <1>1, <1>2 DEF Min, Max

(* What a step needs to say of the adapter's own variables when it leaves  *)
(* the batch and the offsets alone.                                        *)
LEMMA BatchKept ==
  ASSUME AdapterInv, UNCHANGED <<confirmed, nextOffset>>,
         \A u \in Update : Settled(u) => Settled(u)',
         \A u \in Update : pendingState'[u] = "none" <=> pendingState[u] = "none",
         \A u \in Update : pendingState'[u] = "delivered" => pendingState[u] = "delivered" \/ Settled(u)',
         loop' # "poll" => loop # "poll"
  PROVE  Acknowledged'
<1> HIDE DEF Settled
<1> QED BY DEF AdapterInv, Acknowledged

LEMMA Sends_Inv == ASSUME AdapterInv, UserSends PROVE AdapterInv'
<1>1. Acknowledged' /\ TurnsAreClaimed'
  BY DEF AdapterInv, Acknowledged, TurnsAreClaimed, Settled, UserSends, adapterVars, gatewayVars
<1>2. Shaped'
  BY AdapterAssumption DEF AdapterInv, Shaped, PollingTypeOK, Update, UserSends, adapterVars, gatewayVars
<1> QED BY <1>1, <1>2 DEF AdapterInv

LEMMA Poll_Inv == ASSUME AdapterInv, Poll PROVE AdapterInv'
<1> USE AdapterAssumption
<1>t. /\ confirmed \in 0..(Updates + 1) /\ nextOffset \in 0..(Updates + 1) /\ sent \in 0..Updates
  BY DEF AdapterInv, Shaped, PollingTypeOK, Update
<1>1. /\ confirmed' \in 0..(Updates + 1) /\ confirmed <= confirmed' /\ nextOffset <= confirmed'
      /\ confirmed' \in {confirmed, nextOffset}
      /\ UNCHANGED <<nextOffset, wake, sent, msgCh, ledger, turn, asked, pollingFaults, commitFailed>>
  BY <1>t DEF Poll, adapterVars, gatewayVars
<1>2. \A u \in Update : u < confirmed' \/ u < nextOffset' => Settled(u)'
  BY <1>1, <1>t DEF AdapterInv, Acknowledged, Settled, Update
<1>3. TurnsAreClaimed'
  BY <1>1 DEF AdapterInv, TurnsAreClaimed
<1>4. PICK last \in 0..sent :
         LET batch == {u \in Update : confirmed' <= u /\ u <= last /\ nextOffset <= u} IN
         IF batch = {}
         THEN UNCHANGED adapterVars
         ELSE /\ pendingState' = [u \in Update |->
                    IF u \notin batch THEN "none"
                    ELSE IF Kind[u] = "other" THEN "delivered" ELSE "waiting"]
              /\ toPublish' = [i \in 1..Cardinality(batch) |-> Min(batch) + i - 1]
              /\ loop' = "publish"
              /\ UNCHANGED <<nextOffset, wake>>
  BY DEF Poll
<1> DEFINE batch == {u \in Update : confirmed' <= u /\ u <= last /\ nextOffset <= u}
<1>5. CASE batch = {}
  <2>1. UNCHANGED <<loop, pendingState, toPublish>>  BY <1>4, <1>5, <1>t DEF adapterVars
  <2>2. Acknowledged'
    BY <1>1, <1>2, <2>1 DEF AdapterInv, Acknowledged, Settled
  <2>3. Shaped'  BY <1>1, <2>1 DEF AdapterInv, Shaped, PollingTypeOK
  <2> QED BY <1>3, <2>2, <2>3 DEF AdapterInv
<1>6. CASE batch # {}
  <2>1. /\ pendingState' = [u \in Update |->
                    IF u \notin batch THEN "none"
                    ELSE IF Kind[u] = "other" THEN "delivered" ELSE "waiting"]
        /\ toPublish' = [i \in 1..Cardinality(batch) |-> Min(batch) + i - 1]
        /\ loop' = "publish"
    BY <1>4, <1>6, <1>t
  <2>2. Acknowledged'
    <3>1. \A u \in Update : pendingState'[u] = "delivered" => Settled(u)'
      BY <2>1 DEF Settled
    <3>2. \A u, v \in Update : v < u /\ pendingState'[u] # "none" /\ pendingState'[v] = "none"
             => Settled(v)'
      <4> SUFFICES ASSUME NEW u \in Update, NEW v \in Update, v < u,
                          pendingState'[u] # "none", pendingState'[v] = "none"
                   PROVE  Settled(v)'
        OBVIOUS
      <4>1. u \in batch /\ v \notin batch  BY <2>1
      <4>2. v < confirmed'  BY <4>1, <1>1, <1>t DEF Update
      <4> QED BY <4>2, <1>2
    <3>3. \E u \in Update : pendingState'[u] # "none"
      BY <1>6, <2>1
    <3> QED BY <1>2, <3>1, <3>2, <3>3 DEF Acknowledged
  <2>3. toPublish' \in Seq(Update)
    <3> DEFINE lo == Min(batch)
    <3>1. lo \in batch /\ \A y \in batch : lo <= y  BY <1>6, Bounds
    <3>2. batch = lo..last
      <4>1. \A u \in batch : u \in lo..last  BY <3>1, <1>t DEF Update
      <4>2. \A u \in lo..last : u \in batch  BY <3>1, <1>1, <1>t DEF Update
      <4> QED BY <4>1, <4>2
    <3>3. Cardinality(batch) = Cardinality(batch)
      BY DEF Cardinality, Cardinality
    <3>4. lo \in Int /\ last \in Int /\ lo <= last  BY <3>1, <1>t DEF Update
    <3>5. Cardinality(batch) = last - lo + 1
      <4> HIDE DEF lo, batch
      <4> QED BY <3>2, <3>4, FS_Interval
    <3>6. toPublish' = [i \in 1..(last - lo + 1) |-> lo + i - 1]  BY <2>1, <3>3, <3>5
    <3>7. \A i \in 1..(last - lo + 1) : lo + i - 1 \in Update
      BY <3>1, <3>4, <1>t DEF Update
    <3>8. last - lo + 1 \in Nat  BY <3>4
    <3> HIDE DEF lo, batch
    <3> QED BY <3>6, <3>7, <3>8
  <2>4. pendingState' \in [Update -> {"none", "waiting", "delivered", "failed"}]
    BY <2>1
  <2>5. Shaped'
    BY <1>1, <1>t, <2>1, <2>3, <2>4 DEF AdapterInv, Shaped, PollingTypeOK
  <2> QED BY <1>3, <2>2, <2>5 DEF AdapterInv
<1> QED BY <1>5, <1>6

LEMMA Publish_Inv == ASSUME AdapterInv, Publish PROVE AdapterInv'
<1> USE AdapterAssumption
<1>1. /\ UNCHANGED <<sent, confirmed, nextOffset, pendingState, wake, ledger, turn, asked, pollingFaults, commitFailed>>
      /\ loop = "publish" /\ loop' \in {"publish", "check"}
  BY DEF Publish, gatewayVars
<1>2. Acknowledged' /\ TurnsAreClaimed'
  BY <1>1 DEF AdapterInv, Acknowledged, TurnsAreClaimed, Settled
<1>3. msgCh' \in Seq(Update) /\ toPublish' \in Seq(Update) /\ Len(msgCh') <= ChannelCap
  <2>1. msgCh \in Seq(Update) /\ toPublish \in Seq(Update) /\ Len(msgCh) <= ChannelCap
    BY DEF AdapterInv, Shaped, PollingTypeOK
  <2>2. CASE toPublish = <<>>  BY <2>1, <2>2 DEF Publish
  <2>3. CASE toPublish # <<>>
    <3>1. Head(toPublish) \in Update /\ Tail(toPublish) \in Seq(Update)  BY <2>1, <2>3
    <3>2. toPublish' = Tail(toPublish)  BY <2>3 DEF Publish
    <3>3. \/ msgCh' = msgCh
          \/ Len(msgCh) < ChannelCap /\ msgCh' = Append(msgCh, Head(toPublish))
      BY <2>3 DEF Publish
    <3>4. ChannelCap \in Nat /\ Len(msgCh) \in Nat  BY <2>1
    <3>5. msgCh' \in Seq(Update) /\ Len(msgCh') <= ChannelCap
      <4>1. CASE msgCh' = msgCh  BY <2>1, <4>1
      <4>2. CASE Len(msgCh) < ChannelCap /\ msgCh' = Append(msgCh, Head(toPublish))
        <5>1. msgCh' \in Seq(Update) /\ Len(msgCh') = Len(msgCh) + 1  BY <2>1, <3>1, <4>2
        <5> QED BY <4>2, <5>1, <3>4
      <4> QED BY <3>3, <4>1, <4>2
    <3> QED BY <3>1, <3>2, <3>5
  <2> QED BY <2>2, <2>3
<1>4. Shaped'  BY <1>1, <1>3 DEF AdapterInv, Shaped, PollingTypeOK
<1> QED BY <1>2, <1>4 DEF AdapterInv

(* The offset passes only settled updates.                                 *)
LEMMA Check_Inv == ASSUME AdapterInv, CheckBatch PROVE AdapterInv'
<1> USE AdapterAssumption
<1>t. /\ confirmed \in 0..(Updates + 1) /\ nextOffset \in 0..(Updates + 1)
      /\ pendingState \in [Update -> {"none", "waiting", "delivered", "failed"}]
  BY DEF AdapterInv, Shaped, PollingTypeOK, Update
<1>1. /\ UNCHANGED <<sent, confirmed, toPublish, wake, msgCh, ledger, turn, asked, pollingFaults, commitFailed>>
      /\ loop = "check" /\ loop' \in {"blocked", "poll"}
  BY DEF CheckBatch, gatewayVars
<1>2. TurnsAreClaimed'  BY <1>1 DEF AdapterInv, TurnsAreClaimed
<1>3. Batch = {u \in Update : pendingState[u] # "none"} /\ Batch # {} /\ Batch \subseteq Update
  BY <1>1, <1>t DEF Batch, AdapterInv, Acknowledged
<1>4. CASE \E u \in Batch : pendingState[u] = "waiting"
  <2>1. loop' = "blocked" /\ UNCHANGED <<nextOffset, pendingState>>
    BY <1>4 DEF CheckBatch
  <2> QED BY <1>1, <1>2, <2>1 DEF AdapterInv, Acknowledged, Settled, Shaped, PollingTypeOK
<1>5. CASE ~ \E u \in Batch : pendingState[u] = "waiting"
  <2>1. loop' = "poll" /\ nextOffset' = OffsetAfter /\ pendingState' = NoBatch
    BY <1>5 DEF CheckBatch
  <2> DEFINE failed == {u \in Batch : pendingState[u] = "failed"}
  <2>2. \A u \in Batch : pendingState[u] \in {"delivered", "failed"}
    BY <1>3, <1>5, <1>t
  <2>3. /\ Max(Batch) \in Batch /\ \A y \in Batch : Max(Batch) >= y
        /\ failed # {} => Min(failed) \in failed /\ \A y \in failed : Min(failed) <= y
    <3>1. failed \subseteq Update  BY <1>3
    <3> HIDE DEF failed
    <3> QED BY <1>3, <3>1, Bounds
  <2>4. ASSUME NEW k \in Batch, \A u \in Batch : u < k => pendingState[u] = "delivered"
        PROVE  \A v \in Update : v < k => Settled(v)
    BY <1>3, <2>4 DEF AdapterInv, Acknowledged
  <2>5. OffsetAfter \in 0..(Updates + 1) /\ \A v \in Update : v < OffsetAfter => Settled(v)
    <3>1. CASE failed = {}
      <4>1. OffsetAfter = Max(Batch) + 1  BY <3>1 DEF OffsetAfter
      <4>2. PICK k \in Batch : k = Max(Batch)  BY <2>3
      <4>3. \A u \in Batch : pendingState[u] = "delivered"  BY <2>2, <3>1
      <4>4. Settled(k)  BY <4>3, <1>3 DEF AdapterInv, Acknowledged
      <4>5. \A v \in Update : v < k => Settled(v)  BY <2>4, <4>3
      <4>6. \A v \in Update : v < k + 1 => v < k \/ v = k  BY <1>3 DEF Update
      <4>7. k + 1 \in 0..(Updates + 1)  BY <1>3 DEF Update
      <4> HIDE DEF Settled
      <4> QED BY <4>1, <4>2, <4>4, <4>5, <4>6, <4>7
    <3>2. CASE failed # {} /\ Min(failed) = Min(Batch)
      <4>1. OffsetAfter = nextOffset  BY <3>2 DEF OffsetAfter
      <4> QED BY <4>1, <1>t DEF AdapterInv, Acknowledged
    <3>3. CASE failed # {} /\ Min(failed) # Min(Batch)
      <4>1. OffsetAfter = Min(failed)  BY <3>3 DEF OffsetAfter
      <4>2. PICK k \in failed : k = Min(failed)  BY <2>3, <3>3
      <4>3. \A u \in Batch : u < k => u \notin failed
        <5> SUFFICES ASSUME NEW u \in Batch, u < k, u \in failed PROVE FALSE  OBVIOUS
        <5>1. k <= u /\ u \in Update /\ k \in Update  BY <2>3, <3>3, <4>2, <1>3
        <5> QED BY <5>1 DEF Update
      <4>4. \A u \in Batch : u < k => pendingState[u] = "delivered"  BY <2>2, <4>3
      <4>5. k \in Batch  OBVIOUS
      <4>6. \A v \in Update : v < k => Settled(v)  BY <2>4, <4>4, <4>5
      <4>7. k \in 0..(Updates + 1)  BY <1>3, <4>5 DEF Update
      <4> HIDE DEF Settled
      <4> QED BY <4>1, <4>2, <4>6, <4>7
    <3> QED BY <3>1, <3>2, <3>3
  <2>6. pendingState' = [u \in Update |-> "none"]  BY <2>1, <1>t DEF NoBatch
  <2>7. \A u \in Update : u < confirmed' \/ u < nextOffset' => Settled(u)'
    <3>1. \A u \in Update : u < confirmed => Settled(u)  BY DEF AdapterInv, Acknowledged
    <3>2. \A u \in Update : Settled(u) => Settled(u)'  BY <1>1 DEF Settled
    <3> HIDE DEF Settled
    <3> QED BY <1>1, <2>1, <2>5, <3>1, <3>2
  <2>8. Acknowledged'  BY <2>1, <2>6, <2>7 DEF Acknowledged
  <2>9. Shaped'  BY <1>1, <1>t, <2>1, <2>5, <2>6 DEF AdapterInv, Shaped, PollingTypeOK
  <2> QED BY <1>2, <2>8, <2>9 DEF AdapterInv
<1> QED BY <1>4, <1>5

LEMMA Woken_Inv == ASSUME AdapterInv, Woken PROVE AdapterInv'
BY DEF AdapterInv, Acknowledged, TurnsAreClaimed, Settled, Shaped, PollingTypeOK, Woken, gatewayVars

(* The gateway settles an update: "delivered" is said of an answered one.  *)
LEMMA Settle_Inv ==
  ASSUME AdapterInv, NEW u, NEW state \in {"delivered", "failed"}, SettleInbound(u, state),
         UNCHANGED confirmed,
         \A v \in Update : Settled(v) => Settled(v)',
         state = "delivered" /\ u \in Update => Settled(u)'
  PROVE  /\ Acknowledged'
         /\ pendingState' \in [Update -> {"none", "waiting", "delivered", "failed"}]
         /\ UNCHANGED <<nextOffset, loop, toPublish>>
<1>1. pendingState \in [Update -> {"none", "waiting", "delivered", "failed"}]
  BY DEF AdapterInv, Shaped, PollingTypeOK, Update
<1>2. \/ pendingState' = pendingState
      \/ pendingState[u] # "none" /\ pendingState' = [pendingState EXCEPT ![u] = state]
  BY DEF SettleInbound
<1>3. \A v \in Update : \/ pendingState'[v] = pendingState[v]
                        \/ v = u /\ pendingState[v] # "none" /\ pendingState'[v] = state
  BY <1>1, <1>2
<1>4. UNCHANGED <<nextOffset, loop, toPublish>>  BY DEF SettleInbound
<1>5. pendingState' \in [Update -> {"none", "waiting", "delivered", "failed"}]  BY <1>1, <1>2
<1>6. Acknowledged'
  <2> HIDE DEF Settled
  <2> QED BY <1>3, <1>4, BatchKept
<1> QED BY <1>4, <1>5, <1>6

(* The dispatch loop has taken an update off the channel.                  *)
LEMMA Taken ==
  ASSUME AdapterInv, msgCh # <<>>, msgCh' = Tail(msgCh)
  PROVE  Head(msgCh) \in Update /\ msgCh' \in Seq(Update) /\ Len(msgCh') <= ChannelCap
<1>1. msgCh \in Seq(Update) /\ Len(msgCh) <= ChannelCap /\ ChannelCap \in Nat
  BY AdapterAssumption DEF AdapterInv, Shaped, PollingTypeOK
<1> QED BY <1>1

LEMMA TakeTask_Inv == ASSUME AdapterInv, TakeTask PROVE AdapterInv'
<1>0. Head(msgCh) \in Update /\ msgCh' \in Seq(Update) /\ Len(msgCh') <= ChannelCap
  BY Taken DEF TakeTask
<1> PICK u \in Update : u = Head(msgCh)  BY <1>0
<1>1. u \in Update /\ msgCh' \in Seq(Update) /\ Len(msgCh') <= ChannelCap
  BY <1>0
<1>2. UNCHANGED <<sent, confirmed>> /\ Kind[u] = "task"  BY DEF TakeTask
<1>t. /\ ledger \in [Update -> {"absent", "processing", "interrupted", "failed", "delivered"}]
      /\ turn \in [Update -> {"none", "queued", "running", "asking"}]
  BY DEF AdapterInv, Shaped, PollingTypeOK, Update
<1>3. CASE \/ ledger[u] = "delivered" /\ SettleInbound(u, "delivered") /\ UNCHANGED gatewayVars
           \/ SettleInbound(u, "failed") /\ UNCHANGED gatewayVars
  <2>1. UNCHANGED <<ledger, turn, asked>>  BY <1>3 DEF gatewayVars
  <2>2. /\ Acknowledged'
        /\ pendingState' \in [Update -> {"none", "waiting", "delivered", "failed"}]
        /\ UNCHANGED <<nextOffset, loop, toPublish>>
    <3>1. \A v \in Update : Settled(v) => Settled(v)'  BY <2>1 DEF Settled
    <3>2. ledger[u] = "delivered" => Settled(u)'  BY <2>1 DEF Settled
    <3> HIDE DEF Settled
    <3> QED BY <1>2, <1>3, <3>1, <3>2, Settle_Inv
  <2>3. TurnsAreClaimed'  BY <2>1 DEF AdapterInv, TurnsAreClaimed
  <2>4. Shaped'
    BY <1>1, <1>2, <2>1, <2>2 DEF AdapterInv, Shaped, PollingTypeOK, Update
  <2> QED BY <2>2, <2>3, <2>4 DEF AdapterInv
<1>4. CASE UNCHANGED <<adapterVars, gatewayVars>>
  BY <1>1, <1>2, <1>4 DEF AdapterInv, Acknowledged, TurnsAreClaimed, Settled, Shaped, PollingTypeOK,
     adapterVars, gatewayVars
<1>5. CASE /\ Claimable(u)
           /\ ledger' = [ledger EXCEPT ![u] = "processing"]
           /\ turn' = [turn EXCEPT ![u] = IF Busy THEN "queued" ELSE "running"]
           /\ UNCHANGED <<adapterVars, asked, pollingFaults, commitFailed>>
  <2>1. UNCHANGED <<nextOffset, loop, pendingState, toPublish, wake>>  BY <1>5 DEF adapterVars
  <2>2. \A v \in Update : Settled(v) => Settled(v)'
    BY <1>5, <1>1, <1>t DEF Settled, Claimable
  <2>3. Acknowledged'
    <3> HIDE DEF Settled
    <3> QED BY <1>2, <2>1, <2>2, BatchKept DEF AdapterInv, Acknowledged
  <2>4. TurnsAreClaimed'
    BY <1>1, <1>2, <1>5, <1>t DEF AdapterInv, TurnsAreClaimed
  <2>5. Shaped'
    BY <1>1, <1>2, <1>5, <2>1, <1>t DEF AdapterInv, Shaped, PollingTypeOK, Update
  <2> QED BY <2>3, <2>4, <2>5 DEF AdapterInv
<1> QED BY <1>3, <1>4, <1>5 DEF TakeTask

LEMMA TakeApproval_Inv == ASSUME AdapterInv, TakeApproval PROVE AdapterInv'
<1>0. Head(msgCh) \in Update /\ msgCh' \in Seq(Update) /\ Len(msgCh') <= ChannelCap
  BY Taken DEF TakeApproval
<1> PICK u \in Update : u = Head(msgCh)  BY <1>0
<1>1. u \in Update /\ msgCh' \in Seq(Update) /\ Len(msgCh') <= ChannelCap
  BY <1>0
<1>2. /\ UNCHANGED <<sent, confirmed>> /\ Kind[u] = "approve"
      /\ SettleInbound(u, "delivered") /\ ledger' = [ledger EXCEPT ![u] = "delivered"]
      /\ turn' = IF ledger[u] = "delivered" THEN turn
                 ELSE [v \in Update |-> IF turn[v] = "asking" THEN "running" ELSE turn[v]]
  BY DEF TakeApproval
<1>t. /\ ledger \in [Update -> {"absent", "processing", "interrupted", "failed", "delivered"}]
      /\ turn \in [Update -> {"none", "queued", "running", "asking"}]
  BY DEF AdapterInv, Shaped, PollingTypeOK, Update
<1>3. \A v \in Update : Settled(v) => Settled(v)'  BY <1>2, <1>t DEF Settled
<1>4. Settled(u)'  BY <1>1, <1>2, <1>t DEF Settled
<1>5. /\ Acknowledged'
      /\ pendingState' \in [Update -> {"none", "waiting", "delivered", "failed"}]
      /\ UNCHANGED <<nextOffset, loop, toPublish>>
  <2> HIDE DEF Settled
  <2> QED BY <1>2, <1>3, <1>4, Settle_Inv
<1>6. /\ turn' \in [Update -> {"none", "queued", "running", "asking"}]
      /\ \A v \in Update : turn'[v] # "none" => turn[v] # "none"
  BY <1>2, <1>t
<1>7. ledger' \in [Update -> {"absent", "processing", "interrupted", "failed", "delivered"}]
  BY <1>2, <1>t
<1>8. TurnsAreClaimed'
  BY <1>1, <1>2, <1>6, <1>t DEF AdapterInv, TurnsAreClaimed
<1>9. Shaped'
  BY <1>1, <1>2, <1>5, <1>6, <1>7, <1>t DEF AdapterInv, Shaped, PollingTypeOK
<1> QED BY <1>5, <1>8, <1>9 DEF AdapterInv

LEMMA Asks_Inv ==
  ASSUME AdapterInv, NEW u, TurnAsks(u) \/ ApprovalTimesOut(u)
  PROVE  AdapterInv'
<1>t. turn \in [Update -> {"none", "queued", "running", "asking"}]
  BY DEF AdapterInv, Shaped, PollingTypeOK, Update
<1>1. /\ UNCHANGED <<sent, confirmed, nextOffset, loop, pendingState, toPublish, wake, msgCh, ledger>>
      /\ turn[u] # "none"
      /\ \E st \in {"asking", "running"} : turn' = [turn EXCEPT ![u] = st]
  BY DEF TurnAsks, ApprovalTimesOut, adapterVars
<1>2. /\ turn' \in [Update -> {"none", "queued", "running", "asking"}]
      /\ \A v \in Update : turn'[v] # "none" => turn[v] # "none"
  BY <1>1, <1>t
<1>3. TurnsAreClaimed'  BY <1>1, <1>2 DEF AdapterInv, TurnsAreClaimed
<1>4. Acknowledged'  BY <1>1 DEF AdapterInv, Acknowledged, Settled
<1>5. Shaped'  BY <1>1, <1>2 DEF AdapterInv, Shaped, PollingTypeOK
<1> QED BY <1>3, <1>4, <1>5 DEF AdapterInv

(* The session goes only to a turn that is there.                          *)
LEMMA NextTurn_Keeps ==
  ASSUME turn \in [Update -> {"none", "queued", "running", "asking"}],
         NEW u \in Update, NextTurn(u)
  PROVE  /\ turn' \in [Update -> {"none", "queued", "running", "asking"}]
         /\ turn'[u] = "none" /\ \A v \in Update : turn'[v] # "none" => turn[v] # "none"
<1> DEFINE queued == {v \in Update : turn[v] = "queued"}
<1>2. turn' = [v \in Update |-> IF v = u THEN "none"
                               ELSE IF queued # {} /\ v = Min(queued) THEN "running"
                               ELSE turn[v]]
  BY DEF NextTurn
<1>3. queued # {} => Min(queued) \in queued
  <2>1. queued \subseteq Update  OBVIOUS
  <2> HIDE DEF queued
  <2> QED BY <2>1, Bounds, AdapterAssumption
<1> QED BY <1>2, <1>3

LEMMA Ends_Inv ==
  ASSUME AdapterInv, NEW u \in Update, TurnFinishes(u)
  PROVE  AdapterInv'
<1>t. /\ ledger \in [Update -> {"absent", "processing", "interrupted", "failed", "delivered"}]
      /\ turn \in [Update -> {"none", "queued", "running", "asking"}]
  BY DEF AdapterInv, Shaped, PollingTypeOK, Update
<1>1. /\ UNCHANGED <<sent, confirmed, msgCh, asked>> /\ turn[u] = "running"
      /\ ledger[u] = "processing"
  BY DEF TurnFinishes, AdapterInv, TurnsAreClaimed
<1>2. /\ turn' \in [Update -> {"none", "queued", "running", "asking"}]
      /\ turn'[u] = "none" /\ \A v \in Update : turn'[v] # "none" => turn[v] # "none"
  BY <1>t, NextTurn_Keeps DEF TurnFinishes
<1>3. CASE \E state \in {"delivered", "failed"} :
              ledger' = [ledger EXCEPT ![u] = state] /\ SettleInbound(u, state)
  <2>1. PICK state \in {"delivered", "failed"} :
              ledger' = [ledger EXCEPT ![u] = state] /\ SettleInbound(u, state)
    BY <1>3
  <2>2. /\ \A v \in Update : Settled(v) => Settled(v)'
        /\ state = "delivered" => Settled(u)'
    BY <1>1, <1>t, <2>1 DEF Settled
  <2>3. /\ Acknowledged'
        /\ pendingState' \in [Update -> {"none", "waiting", "delivered", "failed"}]
        /\ UNCHANGED <<nextOffset, loop, toPublish>>
    <3> HIDE DEF Settled
    <3> QED BY <1>1, <2>1, <2>2, Settle_Inv
  <2>4. ledger' \in [Update -> {"absent", "processing", "interrupted", "failed", "delivered"}]
    BY <2>1, <1>t
  <2>5. TurnsAreClaimed'  BY <1>2, <2>1, <1>t DEF AdapterInv, TurnsAreClaimed
  <2>6. Shaped'  BY <1>1, <1>2, <2>3, <2>4, <1>t DEF AdapterInv, Shaped, PollingTypeOK
  <2> QED BY <2>3, <2>5, <2>6 DEF AdapterInv
<1>4. CASE UNCHANGED <<ledger, adapterVars>>
  <2>1. TurnsAreClaimed'  BY <1>2, <1>4 DEF AdapterInv, TurnsAreClaimed
  <2>2. Acknowledged'  BY <1>1, <1>4 DEF AdapterInv, Acknowledged, Settled, adapterVars
  <2>3. Shaped'  BY <1>1, <1>2, <1>4, <1>t DEF AdapterInv, Shaped, PollingTypeOK, adapterVars
  <2> QED BY <2>1, <2>2, <2>3 DEF AdapterInv
<1> QED BY <1>3, <1>4 DEF TurnFinishes, Outcome

LEMMA Restart_Inv == ASSUME AdapterInv, ProcessRestarts PROVE AdapterInv'
<1>t. /\ ledger \in [Update -> {"absent", "processing", "interrupted", "failed", "delivered"}]
  BY DEF AdapterInv, Shaped, PollingTypeOK, Update
<1>1. /\ nextOffset' = 0 /\ loop' = "poll" /\ pendingState' = [u \in Update |-> "none"]
      /\ toPublish' = <<>> /\ wake' = FALSE /\ msgCh' = <<>>
      /\ ledger' = [u \in Update |-> IF ledger[u] = "processing" THEN "interrupted" ELSE ledger[u]]
      /\ turn' = [u \in Update |-> "none"] /\ UNCHANGED <<sent, confirmed>>
  BY <1>t DEF ProcessRestarts, NoBatch, Reopened
<1>2. TurnsAreClaimed'  BY <1>1 DEF TurnsAreClaimed
<1>3. \A u \in Update : Settled(u) => Settled(u)'  BY <1>1, <1>t DEF Settled
<1>4. Acknowledged'
  <2>1. \A u \in Update : ~ (u < 0)  BY AdapterAssumption DEF Update
  <2>2. \A u \in Update : u < confirmed => Settled(u)  BY DEF AdapterInv, Acknowledged
  <2> HIDE DEF Settled
  <2> QED BY <1>1, <1>3, <2>1, <2>2 DEF Acknowledged
<1>5. ledger' \in [Update -> {"absent", "processing", "interrupted", "failed", "delivered"}]
  BY <1>1, <1>t
<1>6. Shaped'
  BY <1>1, <1>5, <1>t, AdapterAssumption DEF AdapterInv, Shaped, PollingTypeOK
<1> QED BY <1>2, <1>4, <1>6 DEF AdapterInv

LEMMA Adapter_Init == ASSUME PollingInit PROVE AdapterInv
<1>1. TurnsAreClaimed  BY DEF PollingInit, Update, TurnsAreClaimed
<1>2. Acknowledged
  BY AdapterAssumption DEF PollingInit, NoBatch, Update, Acknowledged
<1>3. Shaped  BY AdapterAssumption DEF PollingInit, NoBatch, Update, Shaped, PollingTypeOK
<1> QED BY <1>1, <1>2, <1>3 DEF AdapterInv

LEMMA Adapter_Step == ASSUME AdapterInv, [PollingNext]_pollingVars PROVE AdapterInv'
<1>1. CASE UNCHANGED pollingVars
  BY <1>1 DEF pollingVars, adapterVars, gatewayVars, AdapterInv, Acknowledged, TurnsAreClaimed, Settled,
     Shaped, PollingTypeOK
<1>2. CASE Adapter \/ Dispatcher
  BY <1>2, Poll_Inv, Publish_Inv, Check_Inv, Woken_Inv, TakeTask_Inv, TakeApproval_Inv
     DEF Adapter, Dispatcher
<1>3. CASE UserSends \/ ProcessRestarts  BY <1>3, Sends_Inv, Restart_Inv
<1>4. CASE \E u \in Update : TurnAsks(u) \/ ApprovalTimesOut(u) \/ TurnFinishes(u)
  BY <1>4, Asks_Inv, Ends_Inv
<1> QED BY <1>1, <1>2, <1>3, <1>4 DEF PollingNext

(* Every variable of the adapter keeps its shape, the channel its capacity *)
(* (publishBatch).                                                         *)
THEOREM AdapterTypeCorrect == PollingSpec => []PollingTypeOK
<1>1. PollingInit => AdapterInv  BY Adapter_Init
<1>2. AdapterInv /\ [PollingNext]_pollingVars => AdapterInv'  BY Adapter_Step
<1>3. AdapterInv => PollingTypeOK  BY DEF AdapterInv, Shaped
<1> QED BY <1>1, <1>2, <1>3, PTL DEF PollingSpec

(* The server is told to forget only what is durably answered, or needs no *)
(* answer: the offset passes the settled beginning of a batch, and what is *)
(* settled as delivered stays so (waitForBatchSettlement, SettleInbound).  *)
THEOREM ForgottenAreAnswered == PollingSpec => []ForgottenIsAnswered
<1>1. PollingInit => AdapterInv  BY Adapter_Init
<1>2. AdapterInv /\ [PollingNext]_pollingVars => AdapterInv'  BY Adapter_Step
<1>3. AdapterInv => ForgottenIsAnswered
  BY DEF AdapterInv, Acknowledged, Settled, ForgottenIsAnswered, Update
<1> QED BY <1>1, <1>2, <1>3, PTL DEF PollingSpec

(* An answered update has no turn, and gets none: a duplicate is settled   *)
(* again, and only a claim starts or queues a turn (handleMessage).        *)
THEOREM AnsweredHaveNoTurn == PollingSpec => NoSecondTurn
<1>1. PollingInit => AdapterInv  BY Adapter_Init
<1>2. AdapterInv /\ [PollingNext]_pollingVars => AdapterInv'  BY Adapter_Step
<1> DEFINE Kept == \A u \in Update : ledger[u] = "delivered" => turn'[u] = turn[u] \/ turn'[u] = "none"
<1>3. AdapterInv /\ [PollingNext]_pollingVars => [Kept]_(pollingVars)
  <2> SUFFICES ASSUME AdapterInv, PollingNext, NEW u \in Update, ledger[u] = "delivered"
               PROVE  turn'[u] = turn[u] \/ turn'[u] = "none"
    BY DEF Update
  <2>t. turn \in [Update -> {"none", "queued", "running", "asking"}]
    BY DEF AdapterInv, Shaped, PollingTypeOK, Update
  <2>1. turn[u] = "none"  BY DEF AdapterInv, TurnsAreClaimed
  <2>2. CASE UserSends \/ Poll \/ Publish \/ CheckBatch \/ Woken \/ ProcessRestarts
    BY <2>2, <2>t DEF UserSends, Poll, Publish, CheckBatch, Woken, ProcessRestarts, gatewayVars
  <2>3. CASE TakeTask
    BY <2>3, <2>t DEF TakeTask, gatewayVars, Claimable
  <2>4. CASE TakeApproval  BY <2>1, <2>4, <2>t DEF TakeApproval
  <2>5. CASE \E v \in Update : TurnAsks(v) \/ ApprovalTimesOut(v)
    BY <2>1, <2>5, <2>t DEF TurnAsks, ApprovalTimesOut
  <2>6. CASE \E v \in Update : TurnFinishes(v)
    BY <2>1, <2>6, <2>t, NextTurn_Keeps DEF TurnFinishes
  <2> QED BY <2>2, <2>3, <2>4, <2>5, <2>6 DEF PollingNext, Adapter, Dispatcher
<1> QED BY <1>1, <1>2, <1>3, PTL DEF PollingSpec, NoSecondTurn
=============================================================================
