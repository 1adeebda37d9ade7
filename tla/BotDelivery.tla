----------------------------- MODULE BotDelivery -----------------------------
(***************************************************************************)
(* The bot gateway (src/internal/bot/gateway.go) between one chat adapter  *)
(* and the agent: the dispatch loop that claims inbound messages, the turn *)
(* goroutines, the sender of stored answers, the session queue, and the    *)
(* restart that recovers what a crash left behind.  Every durable effect   *)
(* is an operation of DeliveryLedger, instantiated below as L.             *)
(*                                                                         *)
(* One session of one adapter is modelled: sessions share only the ledger. *)
(* The chat platform keeps a message until the adapter is told it was      *)
(* delivered (Telegram, Weixin): it comes back after a crash and after a   *)
(* negative settlement.  faults bounds what can go wrong in a behaviour:   *)
(* crashes, failed writes, failed or unconfirmed sends, failed turns and   *)
(* duplicated events.                                                      *)
(***************************************************************************)
EXTENDS Naturals, Sequences, FiniteSets, SequencesExt

CONSTANTS
    Message,            \* inbound messages of the session
    Turn,               \* slots for concurrently live turn goroutines
    MaxChunks,          \* bound on the chunks of one final answer
    Kinds,              \* possible kind assignments of the messages
    Policies,           \* possible queue policies: queue_mode, queue_drop ("old"
                        \* stands for summarize too) and queue_cap
    ChunksOf,           \* ChunksOf[m]: chunks of the final answer to m
    MaxFaults,          \* bound on faults
    MaxRuns,            \* bound on the model runs spent on one message
    NoMessage, NoTurn   \* nil

ASSUME GatewayAssumption ==
    /\ IsFiniteSet(Message) /\ NoMessage \notin Message /\ NoTurn \notin Turn
    /\ MaxChunks \in Nat \ {0} /\ MaxFaults \in Nat /\ MaxRuns \in Nat
    /\ ChunksOf \in [Message -> 1..MaxChunks]
    /\ Kinds \subseteq [Message -> {"task", "command", "stop"}]
    /\ Policies \subseteq [mode : {"steer", "followup", "collect", "interrupt"},
                           drop : {"old", "new"}, cap : Nat \ {0}]

VARIABLES
    \* durable
    records, sequences, checkpoints, obligations,
    \* the chat and the history of what the user saw
    inbox,              \* messages the adapter has published to the loop
    screen,             \* screen[k]: the chunks of answers to k, in order
    run, answerRun,     \* RunTurn calls for m; the call whose answer is stored
    faults, writeFailed,
    \* the gateway process
    phase,              \* down, recovering or up
    recover,            \* obligations Start still has to send
    disp,               \* the dispatch loop inside handleMessage
    turns,              \* the turn goroutines
    sender,             \* sender[k]: sendOutboundObligation of obligation k
    active, pending,    \* SessionManager: session busy, queued turns
    cancelOf, activeInbound,    \* sessionState.cancel and .activeInbound
    ctrl,               \* the turn inside the controller's RunTurn
    kind, policy        \* fixed: what the messages ask, the queue policy

ledgerVars == <<records, sequences, checkpoints, obligations>>
chatVars == <<inbox, screen, run, answerRun>>
sessionVars == <<active, pending, cancelOf, activeInbound, ctrl>>
fixedVars == <<kind, policy>>
vars == <<ledgerVars, chatVars, faults, writeFailed, phase, recover, disp, turns,
          sender, sessionVars, fixedVars>>

L == INSTANCE DeliveryLedger WITH
         Channel <- {"channel"}, Session <- {"session"},
         ChannelOf <- [m \in Message |-> "channel"],
         SessionOf <- [m \in Message |-> "session"],
         RecordLimit <- Cardinality(Message) + 1, MaxSequence <- Cardinality(Message)

-----------------------------------------------------------------------------
IdleTurn == [pc |-> "idle", msg |-> NoMessage, claims |-> {}, run |-> 0,
             canceled |-> FALSE]
IdleSender == [pc |-> "idle", by |-> "none", turn |-> NoTurn, marked |-> FALSE,
               chunk |-> 0, claims |-> {}]
NoInbound == [msg |-> NoMessage, claims |-> {}]
IdleDisp == [pc |-> "idle", msg |-> NoMessage, settle |-> {}, ok |-> TRUE]

(* At most MaxFaults things go wrong.                                      *)
Fault == faults < MaxFaults /\ faults' = faults + 1
NoFault == UNCHANGED faults

(* An operation op of the ledger writes its file, or the write fails and   *)
(* neither memory nor file changes (persistLocked).                        *)
Written(op) == op /\ UNCHANGED <<faults, writeFailed>>
WriteFails == Fault /\ writeFailed' = TRUE /\ UNCHANGED ledgerVars
NoWrite == UNCHANGED <<ledgerVars, faults, writeFailed>>

(* A bug to catch: the adapter is not told of a failure.                   *)
TellNobody(claims) == UNCHANGED inbox

(* notifyInboundSettlements with false: the adapter will publish the       *)
(* messages again.  With true it forgets them.                             *)
Retell(claims) == inbox' = inbox \cup claims

Spawn(t, m, claims) ==
    turns' = [turns EXCEPT ![t] = [IdleTurn EXCEPT !.pc = "setup", !.msg = m,
                                                   !.claims = claims]]
GoTo(t, pc) == turns' = [turns EXCEPT ![t].pc = pc]

(* A bug to catch: the queue admits one more than its capacity.            *)
QueueFullLate == Len(pending) > policy.cap

QueueFull == Len(pending) >= policy.cap

(* A bug to catch: a goroutine without a successor leaves the session busy.*)
(* Release hands the goroutine the next queued turn, in collect mode with  *)
(* the claims of the whole queue, or frees the session.                    *)
Release(t) ==
    LET collected == UNION {e.claims : e \in ToSet(pending)} IN
    IF pending = <<>>
    THEN /\ active' = FALSE
         /\ turns' = [turns EXCEPT ![t] = IdleTurn]
         /\ UNCHANGED pending
    ELSE /\ IF policy.mode = "collect"
            THEN Spawn(t, Head(pending).msg, collected) /\ pending' = <<>>
            ELSE Spawn(t, Head(pending).msg, Head(pending).claims) /\ pending' = Tail(pending)
         /\ UNCHANGED active

(* beginOutboundDelivery: one sender per obligation.                       *)
StartSender(k, by, t) ==
    /\ sender[k].pc = "idle"
    /\ sender' = [sender EXCEPT ![k] = [IdleSender EXCEPT !.pc = "read", !.by = by,
                                                          !.turn = t]]

(* sendOutboundObligation returns to whoever called it.                    *)
SenderReturns(k) ==
    /\ sender' = [sender EXCEPT ![k] = IdleSender]
    /\ disp' = IF sender[k].by = "dispatch" THEN IdleDisp ELSE disp
    /\ turns' = IF sender[k].by = "turn"
                THEN [turns EXCEPT ![sender[k].turn].pc = "ending"] ELSE turns
    /\ recover' = IF sender[k].by = "start" THEN recover \ {k} ELSE recover

-----------------------------------------------------------------------------
Init ==
    /\ L!Init
    /\ inbox = Message
    /\ screen = [k \in Message |-> <<>>]
    /\ run = [m \in Message |-> 0]
    /\ answerRun = [k \in Message |-> 0]
    /\ faults = 0
    /\ writeFailed = FALSE
    /\ phase = "up"
    /\ recover = {}
    /\ disp = IdleDisp
    /\ turns = [t \in Turn |-> IdleTurn]
    /\ sender = [k \in Message |-> IdleSender]
    /\ active = FALSE
    /\ pending = <<>>
    /\ cancelOf = NoTurn
    /\ activeInbound = NoInbound
    /\ ctrl = NoTurn
    /\ kind \in Kinds
    /\ policy \in Policies

-----------------------------------------------------------------------------
(* The dispatch loop: handleMessage.                                       *)

(* handleMessage claims the message before anything else.                  *)
Dispatch(m) ==
    /\ phase = "up" /\ disp.pc = "idle" /\ m \in inbox
    /\ run[m] < MaxRuns
    /\ inbox' = inbox \ {m}
    /\ Written(L!Claim(m, TRUE))
    /\ disp' = [IdleDisp EXCEPT !.pc = "route", !.msg = m]
    /\ UNCHANGED <<screen, run, answerRun, phase, recover, turns, sender,
                   sessionVars, fixedVars>>

(* The claim could not be written: the adapter is told to retry.           *)
DispatchClaimFails(m) ==
    /\ phase = "up" /\ disp.pc = "idle" /\ m \in inbox
    /\ L!MayClaim(m)
    /\ WriteFails
    /\ UNCHANGED <<chatVars, phase, recover, disp, turns, sender, sessionVars, fixedVars>>

(* A message already claimed: its stored answer is resumed, unless another *)
(* sender has it; without one it was answered or is still being worked on. *)
DispatchDuplicate(m) ==
    /\ phase = "up" /\ disp.pc = "idle" /\ m \in inbox
    /\ inbox' = inbox \ {m}
    /\ \/ \E k \in Message :
            /\ L!Owed(k) /\ m \in obligations[k].claims
            /\ \/ /\ StartSender(k, "dispatch", NoTurn)
                  /\ disp' = [IdleDisp EXCEPT !.pc = "sending", !.msg = m]
               \/ sender[k].pc # "idle" /\ UNCHANGED <<sender, disp>>
       \/ /\ ~ L!Owned(m) /\ records[m].status \in {"delivered", "processing"}
          /\ UNCHANGED <<sender, disp>>
    /\ NoWrite
    /\ UNCHANGED <<screen, run, answerRun, phase, recover, turns, sessionVars, fixedVars>>

(* Self messages, refused users and informational commands are answered at *)
(* once, and so is guidance steered into the running turn, and a message a *)
(* full queue rejects.  The reply goes out, or fails.                      *)
ReplyAtOnce ==
    /\ disp.pc = "route"
    /\ \/ kind[disp.msg] = "command"
       \/ kind[disp.msg] = "task" /\ active /\ policy.mode = "steer"
       \/ /\ kind[disp.msg] = "task" /\ active /\ policy.mode # "interrupt"
          /\ policy.drop = "new" /\ QueueFull
    /\ \E ok \in BOOLEAN :
         /\ IF ok THEN NoFault ELSE Fault
         /\ disp' = [disp EXCEPT !.pc = "settle", !.settle = {{disp.msg}}, !.ok = ok]
    /\ UNCHANGED <<ledgerVars, chatVars, writeFailed, phase, recover, turns, sender,
                   sessionVars, fixedVars>>

(* settleInbound, settleCanceledInbound and failInbound: a sent reply or   *)
(* acknowledgement settles the claims, a failed one makes them retryable.  *)
(* A failed write leaves them as they are and tells the adapter nothing.   *)
Settle ==
    /\ disp.pc = "settle"
    /\ \E claims \in disp.settle :
         /\ disp' = IF disp.settle = {claims} THEN IdleDisp
                    ELSE [disp EXCEPT !.settle = @ \ {claims}]
         /\ \/ /\ disp.ok
               /\ Written(L!Delivered(claims) \/ (UNCHANGED ledgerVars /\ \A m \in claims : ~ L!Open(m)))
               /\ UNCHANGED inbox
            \/ ~ disp.ok /\ Written(L!Fail(claims)) /\ Retell(claims)
            \/ WriteFails /\ UNCHANGED inbox
    /\ UNCHANGED <<screen, run, answerRun, phase, recover, turns, sender, sessionVars,
                   fixedVars>>

(* TryAcquireWithQueue on an idle session starts a turn goroutine.         *)
StartTurn ==
    /\ disp.pc = "route" /\ kind[disp.msg] = "task" /\ ~ active
    /\ active' = TRUE
    /\ \E t \in Turn : turns[t].pc = "idle" /\ Spawn(t, disp.msg, {disp.msg})
    /\ disp' = IdleDisp
    /\ UNCHANGED <<pending, cancelOf, activeInbound, ctrl>>
    /\ NoWrite
    /\ UNCHANGED <<chatVars, phase, recover, sender, fixedVars>>

(* TryAcquireWithQueue on a busy session: the message waits; a full queue  *)
(* folds the claims of its oldest entry into the newest, and collect mode  *)
(* folds a message that comes soon enough into the last entry.  Guidance   *)
(* that could not be steered waits like a follow-up.                       *)
Enqueue ==
    LET m == disp.msg
        rest == IF QueueFull THEN Tail(pending) ELSE pending
        claims == {m} \cup IF QueueFull THEN Head(pending).claims ELSE {}
        last == Len(rest)
    IN  /\ disp.pc = "route" /\ kind[m] = "task" /\ active
        /\ policy.mode # "interrupt"
        /\ QueueFull => policy.drop = "old"
        /\ \/ pending' = Append(rest, [msg |-> m, claims |-> claims])
           \/ /\ policy.mode = "collect" /\ rest # <<>>
              /\ pending' = [rest EXCEPT ![last].claims = @ \cup claims]
        /\ disp' = IdleDisp
        /\ UNCHANGED <<active, cancelOf, activeInbound, ctrl>>
        /\ NoWrite
        /\ UNCHANGED <<chatVars, phase, recover, turns, sender, fixedVars>>

CancelTurn == turns' = [t \in Turn |-> IF t = cancelOf
                                       THEN [turns[t] EXCEPT !.canceled = TRUE]
                                       ELSE turns[t]]

(* Interrupt mode, first half: the active message is remembered and its    *)
(* turn canceled.                                                          *)
Interrupt ==
    /\ disp.pc = "route" /\ kind[disp.msg] = "task" /\ active /\ policy.mode = "interrupt"
    /\ CancelTurn
    /\ disp' = [disp EXCEPT !.pc = "replace",
                            !.settle = IF activeInbound = NoInbound THEN {}
                                       ELSE {activeInbound.claims}]
    /\ NoWrite
    /\ UNCHANGED <<chatVars, phase, recover, sender, sessionVars, fixedVars>>

(* Second half: ReplacePending makes the message the only queued one.  If  *)
(* the session was released meanwhile it acquires the session instead; the *)
(* caller does not look at that result.  Then the acknowledgement is sent. *)
ReplacePending ==
    /\ disp.pc = "replace"
    /\ active' = TRUE
    /\ pending' = IF active THEN <<[msg |-> disp.msg, claims |-> {disp.msg}]>> ELSE pending
    /\ LET discarded == IF active THEN {e.claims : e \in ToSet(pending)} ELSE {}
           all == disp.settle \cup discarded
       IN  \E ok \in BOOLEAN :
             /\ IF ok THEN NoFault ELSE Fault
             /\ disp' = IF all = {} THEN IdleDisp
                        ELSE [disp EXCEPT !.pc = "settle", !.settle = all, !.ok = ok]
    /\ UNCHANGED <<ledgerVars, chatVars, writeFailed, phase, recover, turns, sender,
                   cancelOf, activeInbound, ctrl, fixedVars>>

(* /stop, /new, /reset: cancel the turn the session published, drop the    *)
(* queue and the busy flag (ForceRelease), acknowledge.                    *)
StopCommand ==
    /\ disp.pc = "route" /\ kind[disp.msg] = "stop"
    /\ active' = FALSE /\ pending' = <<>>
    /\ \E ok \in BOOLEAN :
         /\ IF ok THEN NoFault ELSE Fault
         /\ turns' = [t \in Turn |-> [turns[t] EXCEPT !.canceled = @ \/ t = cancelOf]]
         /\ disp' = [disp EXCEPT !.pc = "stopped", !.ok = ok]
    /\ UNCHANGED <<ledgerVars, chatVars, writeFailed, phase, recover, sender, cancelOf,
                   activeInbound, ctrl, fixedVars>>

(* finishCanceledSession settles or fails every other open claim of the    *)
(* session; then the command itself is settled with the joined error.      *)
StopSettles ==
    LET others == {m \in Message \ {disp.msg} : L!Open(m)} IN
    /\ disp.pc = "stopped"
    /\ \/ /\ disp.ok
          /\ Written(L!DeliveredSession("session", {disp.msg})
                       \/ (others = {} /\ UNCHANGED ledgerVars))
          /\ disp' = [disp EXCEPT !.pc = "settle", !.settle = {{disp.msg}}]
          /\ UNCHANGED inbox
       \/ /\ ~ disp.ok
          /\ Written(L!FailSession("session", {disp.msg}))
          /\ disp' = [disp EXCEPT !.pc = "settle", !.settle = {{disp.msg}}]
          /\ Retell(others)
       \/ /\ WriteFails
          /\ disp' = [disp EXCEPT !.pc = "settle", !.settle = {{disp.msg}}, !.ok = FALSE]
          /\ UNCHANGED inbox
    /\ UNCHANGED <<screen, run, answerRun, phase, recover, turns, sender, sessionVars,
                   fixedVars>>

-----------------------------------------------------------------------------
(* The turn goroutine: runTurn.                                            *)

(* Session and media are ready: the turn publishes its cancel function and *)
(* inbound message and calls RunTurn, which refuses a second caller.       *)
TurnBegins(t) ==
    /\ turns[t].pc = "setup"
    /\ \/ /\ cancelOf' = t
          /\ activeInbound' = [msg |-> turns[t].msg, claims |-> turns[t].claims]
          /\ IF ctrl = NoTurn
             THEN /\ ctrl' = t
                  /\ run' = [run EXCEPT ![turns[t].msg] = @ + 1]
                  /\ turns' = [turns EXCEPT ![t].pc = "running",
                                            ![t].run = run[turns[t].msg] + 1]
             ELSE GoTo(t, "erred") /\ UNCHANGED <<ctrl, run>>
          /\ NoFault
       \/ /\ Fault                      \* no controller
          /\ GoTo(t, "erred")
          /\ UNCHANGED <<cancelOf, activeInbound, ctrl, run>>
    /\ UNCHANGED <<ledgerVars, inbox, screen, answerRun, writeFailed, phase, recover,
                   disp, sender, active, pending, fixedVars>>

(* RunTurn returns: an error when canceled in time or when the turn fails. *)
TurnReturns(t) ==
    /\ turns[t].pc = "running"
    /\ \/ GoTo(t, "answered") /\ NoFault
       \/ turns[t].canceled /\ GoTo(t, "erred") /\ NoFault
       \/ ~ turns[t].canceled /\ GoTo(t, "erred") /\ Fault
    /\ ctrl' = NoTurn
    /\ UNCHANGED <<ledgerVars, chatVars, writeFailed, phase, recover, disp, sender,
                   active, pending, cancelOf, activeInbound, fixedVars>>

(* failInbound after a failed turn.                                        *)
TurnFails(t) ==
    /\ turns[t].pc = "erred"
    /\ \/ Written(L!Fail(turns[t].claims)) /\ Retell(turns[t].claims)
       \/ WriteFails /\ UNCHANGED inbox
    /\ GoTo(t, "ending")
    /\ UNCHANGED <<screen, run, answerRun, phase, recover, disp, sender, sessionVars,
                   fixedVars>>

(* The final answer is stored before any of it is sent; if it cannot be,   *)
(* the turn failed.  A sender already at work keeps the obligation.        *)
TurnPrepares(t) ==
    LET k == turns[t].msg IN
    /\ turns[t].pc = "answered"
    /\ \/ /\ Written(L!Prepare(k, turns[t].claims, ChunksOf[k]))
          /\ answerRun' = [answerRun EXCEPT ![k] = turns[t].run]
          /\ \/ StartSender(k, "turn", t) /\ GoTo(t, "sending")
             \/ sender[k].pc # "idle" /\ GoTo(t, "ending") /\ UNCHANGED sender
       \/ /\ ~ L!MayPrepare(k, turns[t].claims)
          /\ GoTo(t, "erred") /\ NoWrite /\ UNCHANGED <<answerRun, sender>>
       \/ WriteFails /\ GoTo(t, "erred") /\ UNCHANGED <<answerRun, sender>>
    /\ UNCHANGED <<inbox, screen, run, phase, recover, disp, sessionVars, fixedVars>>

(* The deferred calls of runTurn: forget the active message ...            *)
TurnEnds(t) ==
    /\ turns[t].pc = "ending"
    /\ activeInbound' = IF activeInbound.msg = turns[t].msg THEN NoInbound
                                                           ELSE activeInbound
    /\ cancelOf' = IF cancelOf = t THEN NoTurn ELSE cancelOf
    /\ GoTo(t, "releasing")
    /\ NoWrite
    /\ UNCHANGED <<chatVars, phase, recover, disp, sender, active, pending, ctrl, fixedVars>>

(* ... and release the session.                                            *)
TurnReleases(t) ==
    /\ turns[t].pc = "releasing"
    /\ Release(t)
    /\ NoWrite
    /\ UNCHANGED <<chatVars, phase, recover, disp, sender, cancelOf, activeInbound, ctrl,
                   fixedVars>>

-----------------------------------------------------------------------------
(* The sender: sendOutboundObligation.                                     *)

(* A bug to catch: only a recorded failure makes a send ambiguous.         *)
FailedBefore(k) == obligations[k].status = "failed"

Ambiguous(k) == obligations[k].status \in {"attempting", "failed"}

(* The obligation is read; an attempt without a recorded outcome makes the *)
(* next one ambiguous, and ambiguous text is sent with a marker.           *)
SendRead(k) ==
    /\ sender[k].pc = "read"
    /\ \/ /\ L!Owed(k)
          /\ sender' = [sender EXCEPT ![k].pc = "begin",
                          ![k].marked = Ambiguous(k)]
          /\ UNCHANGED <<disp, turns, recover>>
       \/ ~ L!Owed(k) /\ SenderReturns(k)
    /\ NoWrite
    /\ UNCHANGED <<chatVars, phase, sessionVars, fixedVars>>

SendBegin(k) ==
    /\ sender[k].pc = "begin"
    /\ \/ /\ Written(L!BeginAttempt(k))
          /\ sender' = [sender EXCEPT ![k].pc = "post", ![k].chunk = obligations[k].next,
                                      ![k].claims = obligations[k].claims]
          /\ UNCHANGED <<disp, turns, recover>>
       \/ ~ L!Owed(k) /\ NoWrite /\ SenderReturns(k)
       \/ WriteFails /\ SenderReturns(k)
    /\ UNCHANGED <<chatVars, phase, sessionVars, fixedVars>>

(* The platform call: the chunk may reach the user and be confirmed, reach *)
(* the user unconfirmed, or not arrive.  The sender holds its own copy, so *)
(* a canceled answer may still be posted.                                  *)
SendPost(k) ==
    /\ sender[k].pc = "post"
    /\ \E shown, confirmed \in BOOLEAN :
         /\ confirmed => shown
         /\ IF confirmed THEN NoFault ELSE Fault
         /\ screen' = IF ~ shown THEN screen
                      ELSE [screen EXCEPT ![k] = Append(@,
                              [chunk |-> sender[k].chunk, run |-> answerRun[k],
                               marked |-> sender[k].marked])]
         /\ sender' = [sender EXCEPT ![k].pc = IF confirmed THEN "ack" ELSE "fail"]
    /\ UNCHANGED <<ledgerVars, inbox, run, answerRun, writeFailed, phase, recover, disp,
                   turns, sessionVars, fixedVars>>

(* An unconfirmed send: the attempt is marked failed and the adapter told; *)
(* an obligation settled meanwhile is left alone.                          *)
SendFail(k) ==
    /\ sender[k].pc = "fail"
    /\ SenderReturns(k)
    /\ \/ Written(L!FailAttempt(k)) /\ Retell(sender[k].claims)
       \/ ~ L!Owed(k) /\ NoWrite /\ Retell(sender[k].claims)
       \/ WriteFails /\ UNCHANGED inbox
    /\ UNCHANGED <<screen, run, answerRun, phase, sessionVars, fixedVars>>

(* A confirmed send: progress or completion is committed.                  *)
SendAck(k) ==
    /\ sender[k].pc = "ack"
    /\ \/ /\ Written(L!AckChunk(k))
          /\ sender' = [sender EXCEPT ![k].pc = "read"]
          /\ UNCHANGED <<disp, turns, recover>>
       \/ Written(L!AckLast(k)) /\ SenderReturns(k)
       \/ obligations[k].status # "attempting" /\ NoWrite /\ SenderReturns(k)
       \/ WriteFails /\ SenderReturns(k)
    /\ UNCHANGED <<chatVars, phase, sessionVars, fixedVars>>

-----------------------------------------------------------------------------
(* Crash, restart and the platform.                                        *)

(* The process dies; the platform will hand out every message again.       *)
Crash ==
    /\ phase # "down" /\ Fault
    /\ phase' = "down"
    /\ inbox' = Message
    /\ recover' = {} /\ disp' = IdleDisp
    /\ turns' = [t \in Turn |-> IdleTurn]
    /\ sender' = [k \in Message |-> IdleSender]
    /\ active' = FALSE /\ pending' = <<>>
    /\ cancelOf' = NoTurn /\ activeInbound' = NoInbound /\ ctrl' = NoTurn
    /\ UNCHANGED <<ledgerVars, screen, run, answerRun, writeFailed, fixedVars>>

(* Start opens the ledger and lists the stored answers.                    *)
Restart ==
    /\ phase = "down"
    /\ \/ /\ Written(L!Reopen)
          /\ phase' = "recovering"
          /\ recover' = {k \in Message : L!Owed(k)}
       \/ WriteFails /\ UNCHANGED <<phase, recover>>
    /\ UNCHANGED <<chatVars, disp, turns, sender, sessionVars, fixedVars>>

(* recoverOutboundObligations sends them one after the other, before any   *)
(* dispatch loop runs.                                                     *)
RecoverNext(k) ==
    /\ phase = "recovering" /\ k \in recover
    /\ \A j \in Message : sender[j].pc = "idle"
    /\ StartSender(k, "start", NoTurn)
    /\ NoWrite
    /\ UNCHANGED <<chatVars, phase, recover, disp, turns, sessionVars, fixedVars>>

Started ==
    /\ phase = "recovering" /\ recover = {}
    /\ phase' = "up"
    /\ NoWrite
    /\ UNCHANGED <<chatVars, recover, disp, turns, sender, sessionVars, fixedVars>>

(* The platform repeats an event while the first copy is being handled.    *)
Duplicate(m) ==
    /\ m \notin inbox /\ Fault
    /\ inbox' = inbox \cup {m}
    /\ UNCHANGED <<ledgerVars, screen, run, answerRun, writeFailed, phase, recover,
                   disp, turns, sender, sessionVars, fixedVars>>

(* No goroutine has anything to do: the gateway waits for the next message.*)
Waiting ==
    /\ phase = "up" /\ disp = IdleDisp
    /\ \A m \in inbox : run[m] = MaxRuns
    /\ \A t \in Turn : turns[t].pc = "idle"
    /\ \A k \in Message : sender[k].pc = "idle"
    /\ UNCHANGED vars

DispatchLoop ==
    \/ \E m \in Message : Dispatch(m) \/ DispatchClaimFails(m) \/ DispatchDuplicate(m)
    \/ ReplyAtOnce \/ Settle \/ StartTurn \/ Enqueue \/ Interrupt \/ ReplacePending
    \/ StopCommand \/ StopSettles
RunTurn(t) == TurnBegins(t) \/ TurnReturns(t) \/ TurnFails(t) \/ TurnPrepares(t)
                \/ TurnEnds(t) \/ TurnReleases(t)
Send(k) == SendRead(k) \/ SendBegin(k) \/ SendPost(k) \/ SendFail(k) \/ SendAck(k)
Start == Restart \/ (\E k \in Message : RecoverNext(k)) \/ Started

Next ==
    \/ DispatchLoop
    \/ \E t \in Turn : RunTurn(t)
    \/ \E k \in Message : Send(k)
    \/ Start
    \/ Crash
    \/ \E m \in Message : Duplicate(m)
    \/ Waiting

(* Every goroutine is scheduled, a model turn ends and a platform call     *)
(* returns; nothing forces a fault.                                        *)
Fairness == /\ WF_vars(DispatchLoop)
            /\ \A t \in Turn : WF_vars(RunTurn(t))
            /\ \A k \in Message : WF_vars(Send(k))
            /\ WF_vars(Start)

Spec == Init /\ [][Next]_vars /\ Fairness

-----------------------------------------------------------------------------
(* Every variable stays within its shape, and the ledger within its own.   *)
TypeOK ==
    /\ L!TypeOK
    /\ inbox \subseteq Message /\ recover \subseteq Message
    /\ \A k \in Message : \A i \in DOMAIN screen[k] :
          screen[k][i] \in [chunk : 0..(MaxChunks - 1), run : Nat, marked : BOOLEAN]
    /\ run \in [Message -> Nat] /\ answerRun \in [Message -> Nat]
    /\ faults \in 0..MaxFaults /\ writeFailed \in BOOLEAN
    /\ phase \in {"down", "recovering", "up"}
    /\ disp.msg \in Message \cup {NoMessage} /\ disp.settle \subseteq SUBSET Message
    /\ turns \in [Turn -> [pc : {"idle", "setup", "running", "answered", "erred",
                                 "sending", "ending", "releasing"},
                           msg : Message \cup {NoMessage}, claims : SUBSET Message,
                           run : Nat, canceled : BOOLEAN]]
    /\ \A k \in Message : sender[k].pc \in {"idle", "read", "begin", "post", "fail", "ack"}
    /\ active \in BOOLEAN /\ Len(pending) <= policy.cap
    /\ cancelOf \in Turn \cup {NoTurn} /\ ctrl \in Turn \cup {NoTurn}

(* The claims of several messages may be answered together; a command that *)
(* cancels may settle them apart.  A queue that does the former in a session*)
(* that sees the latter can drop a stored answer whose primary message stays*)
(* open: /stop fails to be acknowledged, its claims come back while their   *)
(* turn still ends, and one of them is answered at once.                    *)
Merging == policy.mode # "interrupt" /\ (policy.mode = "collect" \/ policy.drop = "old")
Stoppable == \E m \in Message : kind[m] = "stop"
Uncrossed == ~ (Merging /\ Stoppable)

(* Unless merged claims are canceled, a chunk the user may already have seen*)
(* is repeated only with the duplicate warning, across crashes, failed      *)
(* writes and lost confirmations (recoveredReplyMarker in                   *)
(* sendOutboundObligation).                                                 *)
NoSilentRepeat ==
    Uncrossed =>
    \A k \in Message : \A i, j \in DOMAIN screen[k] :
        i < j /\ screen[k][i].chunk = screen[k][j].chunk => screen[k][j].marked

(* However often the model ran for a message, its user sees one answer, and*)
(* its chunks in order: once an answer is stored no other run replaces it, *)
(* and an acknowledged chunk is never sent again.  Canceled merged claims  *)
(* are excepted: delivered removes the answer of a claim for all of them.  *)
OneAnswerInOrder ==
    Uncrossed =>
    \A k \in Message : \A i, j \in DOMAIN screen[k] :
        i < j => /\ screen[k][i].run = screen[k][j].run
                 /\ screen[k][i].chunk <= screen[k][j].chunk

Shown(k) == {screen[k][i].chunk : i \in DOMAIN screen[k]}

(* A claim is settled only when the whole answer that covers it is on the  *)
(* user's screen, or when its reply, or the acknowledgement of the command *)
(* that canceled it, was sent.                                             *)
SettledMeansTold ==
    [][\A m \in Message : L!Open(m) /\ records'[m].status = "delivered" =>
          \/ disp.pc \in {"settle", "stopped"} /\ disp.ok /\ disp' # disp
          \/ \E k \in Message : /\ m \in obligations[k].claims
                               /\ Shown(k) = 0..(obligations[k].chunks - 1)]_vars

(* The model runs for a message only while nothing answers it: neither a   *)
(* stored answer (a duplicate event resumes that one) nor a settlement.    *)
(* Cancellations are left out: /stop and interrupt release the session while*)
(* the canceled turn may still store its answer.                            *)
RunOnlyUnanswered ==
    [][policy.mode # "interrupt" /\ ~ Stoppable =>
         \A m \in Message : run'[m] # run[m] => L!Open(m) /\ ~ L!Owned(m)]_vars

(* Every message is settled for good, however turns fail and the process   *)
(* crashes, unless a ledger write failed (then it waits for a restart).    *)
EverySettled ==
    \A m \in Message : <>[](records[m].status = "delivered" \/ writeFailed)
=============================================================================
