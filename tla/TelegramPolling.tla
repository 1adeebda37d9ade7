--------------------------- MODULE TelegramPolling ---------------------------
(***************************************************************************)
(* The Telegram adapter (src/internal/bot/telegram/telegram.go) under the  *)
(* gateway: one loop polls a batch of updates, publishes it on a bounded   *)
(* channel, and asks the server for more only when the gateway has settled *)
(* every update of the batch.  The offset of the next poll tells the       *)
(* server what it may forget, so it is the acknowledgement of the whole    *)
(* delivery chain.                                                         *)
(*                                                                         *)
(* The gateway is reduced to what it does to an update: claim it in the    *)
(* durable ledger, answer a command at once, run a task as a turn that may *)
(* wait for the user's approval, then settle.  DeliveryLedger and          *)
(* BotDelivery model those parts in full.                                  *)
(***************************************************************************)
EXTENDS Naturals, Sequences, SequencesExt

CONSTANTS
    Updates,            \* number of updates users send
    Kind,               \* Kind[u]: "task", "approve" or "other" (no text)
    ChannelCap,         \* capacity of msgCh
    ApprovalTimeout,    \* whether an unanswered approval is ever denied
    MaxPollingFaults    \* bound on failed turns, failed writes and crashes

ASSUME AdapterAssumption ==
    /\ Updates \in Nat /\ ChannelCap \in Nat \ {0}
    /\ Kind \in [1..Updates -> {"task", "approve", "other"}]

VARIABLES
    sent,               \* updates users have sent so far
    confirmed,          \* the server has forgotten updates below this one
    nextOffset,         \* adapter: offset of the next getUpdates
    loop,               \* adapter: where the polling loop is
    pendingState,       \* adapter: settlement of each update of the batch
    toPublish,          \* adapter: updates of the batch not yet in msgCh
    wake,               \* adapter: the token in settlementWake
    msgCh,              \* published, not yet taken by the dispatch loop
    ledger,             \* durable status of each update's claim
    turn,               \* turn[u]: none, queued, running or asking
    asked,              \* tasks that already asked their question
    pollingFaults, commitFailed

adapterVars == <<nextOffset, loop, pendingState, toPublish, wake>>
gatewayVars == <<ledger, turn, asked>>
pollingVars == <<sent, confirmed, adapterVars, msgCh, gatewayVars, pollingFaults, commitFailed>>

Update == 1..Updates
NoBatch == [u \in Update |-> "none"]

PollingInit ==
    /\ sent = 0 /\ confirmed = 0 /\ nextOffset = 0
    /\ loop = "poll"
    /\ pendingState = NoBatch
    /\ toPublish = <<>> /\ wake = FALSE /\ msgCh = <<>>
    /\ ledger = [u \in Update |-> "absent"]
    /\ turn = [u \in Update |-> "none"]
    /\ asked = {}
    /\ pollingFaults = 0 /\ commitFailed = FALSE

PollingFault == pollingFaults < MaxPollingFaults /\ pollingFaults' = pollingFaults + 1

-----------------------------------------------------------------------------
(* Users send their next update; an approval is sent when one is awaited.  *)
UserSends ==
    /\ sent < Updates
    /\ Kind[sent + 1] = "approve" => \E u \in Update : turn[u] = "asking"
    /\ sent' = sent + 1
    /\ UNCHANGED <<confirmed, adapterVars, msgCh, gatewayVars, pollingFaults, commitFailed>>

(* getUpdates: the server forgets what the offset covers and returns the   *)
(* oldest updates it still holds, as many as it likes; publishBatch records*)
(* them, those without text as already delivered.                          *)
Poll ==
    /\ loop = "poll"
    /\ confirmed' = IF nextOffset > confirmed THEN nextOffset ELSE confirmed
    /\ \E last \in 0..sent :
         LET batch == {u \in Update : confirmed' <= u /\ u <= last /\ nextOffset <= u} IN
         IF batch = {}
         THEN UNCHANGED adapterVars
         ELSE /\ pendingState' = [u \in Update |->
                    IF u \notin batch THEN "none"
                    ELSE IF Kind[u] = "other" THEN "delivered" ELSE "waiting"]
              /\ toPublish' = [i \in 1..Cardinality(batch) |-> Min(batch) + i - 1]
              /\ loop' = "publish"
              /\ UNCHANGED <<nextOffset, wake>>
    /\ UNCHANGED <<sent, msgCh, gatewayVars, pollingFaults, commitFailed>>

(* publishBatch: in order, blocking while the channel is full.             *)
Publish ==
    /\ loop = "publish"
    /\ IF toPublish = <<>>
       THEN loop' = "check" /\ UNCHANGED <<toPublish, msgCh>>
       ELSE /\ toPublish' = Tail(toPublish)
            /\ IF Kind[Head(toPublish)] = "other"
               THEN UNCHANGED msgCh
               ELSE Len(msgCh) < ChannelCap /\ msgCh' = Append(msgCh, Head(toPublish))
            /\ UNCHANGED loop
    /\ UNCHANGED <<sent, confirmed, nextOffset, pendingState, wake, gatewayVars, pollingFaults,
                   commitFailed>>

Batch == {u \in Update : pendingState[u] # "none"}

(* A bug to catch: the offset passes failed updates.                       *)
OffsetPastBatch == Max(Batch) + 1

(* The offset after a settled batch: the first update that failed, or the  *)
(* one after the last.                                                     *)
OffsetAfter == LET failed == {u \in Batch : pendingState[u] = "failed"} IN
               IF failed = {} THEN Max(Batch) + 1
               ELSE IF Min(failed) = Min(Batch) THEN nextOffset ELSE Min(failed)

(* waitForBatchSettlement: when nothing of the batch is waiting the loop   *)
(* moves the offset over the delivered prefix and polls again.             *)
CheckBatch ==
    /\ loop = "check"
    /\ IF \E u \in Batch : pendingState[u] = "waiting"
       THEN loop' = "blocked" /\ UNCHANGED <<nextOffset, pendingState>>
       ELSE /\ loop' = "poll"
            /\ nextOffset' = OffsetAfter
            /\ pendingState' = NoBatch
    /\ UNCHANGED <<sent, confirmed, toPublish, wake, msgCh, gatewayVars, pollingFaults, commitFailed>>

Woken ==
    /\ loop = "blocked" /\ wake
    /\ loop' = "check" /\ wake' = FALSE
    /\ UNCHANGED <<sent, confirmed, nextOffset, pendingState, toPublish, msgCh,
                   gatewayVars, pollingFaults, commitFailed>>


(* SettleInbound, called by the gateway: the state of the update, and one  *)
(* wake-up token that a full channel drops.                                *)
SettleInbound(u, state) ==
    /\ IF pendingState[u] = "none"
       THEN UNCHANGED <<pendingState, wake>>
       ELSE pendingState' = [pendingState EXCEPT ![u] = state] /\ wake' = TRUE
    /\ UNCHANGED <<nextOffset, loop, toPublish>>

-----------------------------------------------------------------------------
Busy == \E u \in Update : turn[u] \in {"running", "asking"}

(* A bug to catch: everything that is not running may be claimed.          *)
ClaimableUnlessRunning(u) == ledger[u] # "processing"

Claimable(u) == ledger[u] \in {"absent", "failed", "interrupted"}

(* The dispatch loop takes the next update.  A duplicate of an answered    *)
(* one is settled again, of one in progress ignored; a new or failed one is*)
(* claimed, and a task starts or queues a turn.                            *)
TakeTask ==
    /\ msgCh # <<>> /\ Kind[Head(msgCh)] = "task"
    /\ msgCh' = Tail(msgCh)
    /\ LET u == Head(msgCh) IN
       \/ /\ ledger[u] = "delivered" /\ SettleInbound(u, "delivered")
          /\ UNCHANGED <<gatewayVars, pollingFaults, commitFailed>>
       \/ /\ ledger[u] = "processing"
          /\ UNCHANGED <<adapterVars, gatewayVars, pollingFaults, commitFailed>>
       \/ /\ Claimable(u)
          /\ ledger' = [ledger EXCEPT ![u] = "processing"]
          /\ turn' = [turn EXCEPT ![u] = IF Busy THEN "queued" ELSE "running"]
          /\ UNCHANGED <<adapterVars, asked, pollingFaults, commitFailed>>
       \/ /\ Claimable(u)
          /\ PollingFault /\ commitFailed' = TRUE
          /\ SettleInbound(u, "failed")
          /\ UNCHANGED gatewayVars
    /\ UNCHANGED <<sent, confirmed>>

(* /approve runs on the dispatch loop: it resolves the waiting turn, then  *)
(* its reply is sent and it is settled.                                    *)
TakeApproval ==
    /\ msgCh # <<>> /\ Kind[Head(msgCh)] = "approve"
    /\ msgCh' = Tail(msgCh)
    /\ LET u == Head(msgCh) IN
       /\ SettleInbound(u, "delivered")
       /\ ledger' = [ledger EXCEPT ![u] = "delivered"]
       /\ turn' = IF ledger[u] = "delivered" THEN turn
                  ELSE [v \in Update |-> IF turn[v] = "asking" THEN "running" ELSE turn[v]]
    /\ UNCHANGED <<sent, confirmed, asked, pollingFaults, commitFailed>>

(* A turn needs a decision of the user before it can go on.                *)
TurnAsks(u) ==
    /\ turn[u] = "running" /\ u \notin asked
    /\ asked' = asked \cup {u}
    /\ turn' = [turn EXCEPT ![u] = "asking"]
    /\ UNCHANGED <<sent, confirmed, adapterVars, msgCh, ledger, pollingFaults, commitFailed>>

(* approvalTimeout: an unanswered question is denied; a negative setting   *)
(* waits for ever.                                                         *)
ApprovalTimesOut(u) ==
    /\ ApprovalTimeout /\ turn[u] = "asking"
    /\ turn' = [turn EXCEPT ![u] = "running"]
    /\ UNCHANGED <<sent, confirmed, adapterVars, msgCh, ledger, asked, pollingFaults, commitFailed>>

(* The session goes to a queued turn, if there is one.                     *)
NextTurn(u) ==
    LET queued == {v \in Update : turn[v] = "queued"} IN
    turn' = [v \in Update |-> IF v = u THEN "none"
                              ELSE IF queued # {} /\ v = Min(queued) THEN "running"
                              ELSE turn[v]]

(* The turn's answer is delivered and committed; or the turn fails, which  *)
(* is recorded; or the record cannot be written and nobody is told.        *)
Outcome(u) ==
    \/ /\ ledger' = [ledger EXCEPT ![u] = "delivered"]
       /\ SettleInbound(u, "delivered")
       /\ UNCHANGED <<pollingFaults, commitFailed>>
    \/ /\ PollingFault
       /\ ledger' = [ledger EXCEPT ![u] = "failed"]
       /\ SettleInbound(u, "failed")
       /\ UNCHANGED commitFailed
    \/ /\ PollingFault /\ commitFailed' = TRUE
       /\ UNCHANGED <<ledger, adapterVars>>

TurnFinishes(u) ==
    /\ turn[u] = "running"
    /\ NextTurn(u)
    /\ Outcome(u)
    /\ UNCHANGED <<sent, confirmed, msgCh, asked>>

(* A bug to catch: interrupted claims still look as if they were running.  *)
ReopenedAsIs == ledger

Reopened == [u \in Update |-> IF ledger[u] = "processing" THEN "interrupted" ELSE ledger[u]]

(* The process restarts: only the ledger and the server remember.          *)
ProcessRestarts ==
    /\ PollingFault
    /\ nextOffset' = 0 /\ loop' = "poll" /\ pendingState' = NoBatch
    /\ toPublish' = <<>> /\ wake' = FALSE /\ msgCh' = <<>>
    /\ ledger' = Reopened
    /\ turn' = [u \in Update |-> "none"] /\ asked' = {}
    /\ UNCHANGED <<sent, confirmed, commitFailed>>

Adapter == Poll \/ Publish \/ CheckBatch \/ Woken
Dispatcher == TakeTask \/ TakeApproval
PollingNext ==
    \/ UserSends \/ Adapter \/ Dispatcher \/ ProcessRestarts
    \/ \E u \in Update : TurnAsks(u) \/ ApprovalTimesOut(u) \/ TurnFinishes(u)

(* Users do send their updates; the polling loop, the dispatch loop, turns *)
(* and timers run.  A turn may ask or not.                                 *)
PollingFairness ==
    /\ WF_pollingVars(UserSends) /\ WF_pollingVars(Adapter /\ pollingVars' # pollingVars)
    /\ WF_pollingVars(Dispatcher)
    /\ \A u \in Update : WF_pollingVars(TurnFinishes(u)) /\ WF_pollingVars(ApprovalTimesOut(u))

PollingSpec == PollingInit /\ [][PollingNext]_pollingVars /\ PollingFairness

-----------------------------------------------------------------------------
(* Every variable stays within its shape.                                  *)
PollingTypeOK ==
    /\ sent \in 0..Updates
    /\ confirmed \in 0..(Updates + 1) /\ nextOffset \in 0..(Updates + 1)
    /\ loop \in {"poll", "publish", "check", "blocked"}
    /\ pendingState \in [Update -> {"none", "waiting", "delivered", "failed"}]
    /\ Len(msgCh) <= ChannelCap
    /\ ledger \in [Update -> {"absent", "processing", "interrupted", "failed", "delivered"}]
    /\ turn \in [Update -> {"none", "queued", "running", "asking"}]

(* The server forgets no update that is not durably answered, whatever     *)
(* crashes and failures happen between the answer, the ledger commit and   *)
(* the next poll.                                                          *)
ForgottenIsAnswered ==
    \A u \in Update : u < confirmed => Kind[u] = "other" \/ ledger[u] = "delivered"

(* An answered update is never run again, however often it is redelivered. *)
NoSecondTurn ==
    [][\A u \in Update : ledger[u] = "delivered" => turn'[u] = turn[u] \/ turn'[u] = "none"]_pollingVars

(* No wake-up is lost, and nobody waits for ever for somebody who waits in  *)
(* turn: every task sent is answered for good, unless a ledger write failed *)
(* and the batch waits for a restart.                                       *)
EveryTaskAnswered ==
    \A u \in Update :
        (sent >= u /\ Kind[u] = "task") ~> (ledger[u] = "delivered" \/ commitFailed)
=============================================================================
