--------------------------- MODULE SubagentDelivery ---------------------------
(* Writer subagents of one source workspace and their deliveries            *)
(* (internal/agent/subagent_store.go, subagent_delivery.go,                 *)
(* subagent_workspace.go, task.go; internal/worktree/worktree.go).  A run   *)
(* works in a Git worktree of its own; when it completes, what it did is    *)
(* sealed as a commit, and the user has it applied to the source, merged,   *)
(* rolled back or rejected.  A record per run is what survives a crash.     *)
(* Every runtime that starts sweeps the records: it marks runs interrupted  *)
(* and settles the acceptances that were cut short.                         *)
(*                                                                          *)
(* A runtime writes while it holds the lease of the workspace (module       *)
(* WorkspaceLease), one tool call at a time beside its background runs; a   *)
(* runtime that starts holds nothing.  The Git commands of one function are *)
(* one step: the user does not get in between.  Read-only subagents,        *)
(* subagents of subagents and the deletion of a session are left out.       *)
EXTENDS Naturals, Sequences

CONSTANTS
    Runtime,
    Ref,            \* sa_... references; a reference names the worktree made for it
    Session,
    Parent,         \* Parent[s]: the session that s was branched from, or None
    None,
    MaxSeal,        \* bound: commits in one worktree
    MaxLog,         \* bound: commits in the source after which the user adds none
    MaxFault        \* bound: crashes, failed writes, cancelled commands, lost worktrees

ASSUME DeliveryAssumption ==
    /\ None \notin Runtime \cup Ref \cup Session
    /\ Parent \in [Session -> Session \cup {None}]
    /\ \A s \in Session : Parent[s] # None => Parent[Parent[s]] = None
    /\ MaxSeal \in Nat \ {0} /\ MaxLog \in Nat \ {0} /\ MaxFault \in Nat

VARIABLES
    holder,     \* the runtime that holds the lease of the workspace
    boot,       \* per runtime: how far its start has got
    meta,       \* sa_....meta.json
    tree,       \* the managed worktrees
    run,        \* per reference: the run that holds its lock
    op,         \* the delivery that the holder accepts or disposes of
    source,     \* the repository of the source workspace
    faults,
    given,      \* history: the commits the code has put into the source
    lapsed      \* history: deliveries whose record was overwritten in one of three known ways

vars == <<holder, boot, meta, tree, run, op, source, faults, given, lapsed>>
history == <<given, lapsed>>

(* A commit in the source: of the user, or the merge of a delivery, by its   *)
(* worktree, its commit there and the reference it was accepted for.         *)
Own == <<None, 0, None>>

(* A transaction names the source before and after by the length of its log.*)
NoTx == [kind |-> "none", before |-> 0, after |-> 0, staged |-> {}]
NoMeta == [status |-> "none", owner |-> None, copyOf |-> None, tree |-> None,
           delivery |-> "none", commit |-> 0, tx |-> NoTx]

(* metaFromSpec                                                             *)
NewMeta(s, original, t) ==
    [NoMeta EXCEPT !.status = "running", !.owner = s, !.copyOf = original, !.tree = t,
                   !.delivery = "active"]

NoTree == [live |-> FALSE, known |-> FALSE, head |-> 0, dirty |-> FALSE]
NewTree == [NoTree EXCEPT !.live = TRUE, !.known = TRUE]

RunOff == [pc |-> "off", fresh |-> FALSE, wrote |-> FALSE, hand |-> NoMeta]
OpOff == [pc |-> "none", ref |-> None, hand |-> NoMeta]
BootOff == [pc |-> "off", todo |-> {}, ref |-> None, hand |-> NoMeta]

Pending == {"applying", "merging"}
Accepted == {"applied", "merged"}
Blocking == Pending \cup Accepted \cup {"acceptance_interrupted", "rejected", "rolled_back"}

Init ==
    /\ holder = None
    /\ boot = [p \in Runtime |-> BootOff]
    /\ meta = [r \in Ref |-> NoMeta]
    /\ tree = [r \in Ref |-> NoTree]
    /\ run = [r \in Ref |-> RunOff]
    /\ op = OpOff
    /\ source = [log |-> <<Own>>, held |-> {}, staged |-> {}, edit |-> FALSE, over |-> FALSE]
    /\ faults = 0
    /\ given = {}
    /\ lapsed = {}

Fault == faults < MaxFault /\ faults' = faults + 1

(* The lock of a reference: in the store and on .locks/REF.lock.            *)
Free(r) == run[r].pc = "off" /\ op.ref # r

(* AcquireWrite before a tool call that writes, and in the controller.      *)
Lease(p) ==
    /\ boot[p].pc = "up" /\ holder \in {None, p} /\ op.pc = "none"
    /\ holder' = p

(* The turn is over and so is the last background run.                      *)
Release ==
    /\ holder # None /\ op.pc = "none" /\ \A r \in Ref : run[r].pc = "off"
    /\ holder' = None
    /\ UNCHANGED <<boot, meta, tree, run, op, source, faults, history>>

Lapse(r, cond) == lapsed' = IF cond THEN lapsed \cup {r} ELSE lapsed

----------------------------------------------------------------------------
(* Runs.                                                                    *)

Prepare(r, m, fresh) ==
    run' = [run EXCEPT ![r] = [pc |-> "prepared", fresh |-> fresh, wrote |-> FALSE, hand |-> m]]

(* CreateWriter and PrepareFresh.                                           *)
PrepareFresh(p, s, r) ==
    /\ Lease(p)
    /\ Free(r) /\ meta[r] = NoMeta /\ tree[r] = NoTree
    /\ tree' = [tree EXCEPT ![r] = NewTree]
    /\ Prepare(r, NewMeta(s, None, r), TRUE)
    /\ UNCHANGED <<boot, meta, op, source, faults, history>>

(* validateMeta, of a reference that nobody runs.                           *)
Continuable(r) == Free(r) /\ meta[r].status \in {"completed", "interrupted"}

Copies(a, s) == {c \in Ref : meta[c].owner = s /\ meta[c].copyOf = a}

(* PrepareContinue for reference a in session s finds the transcript r: a   *)
(* itself, or its copy in this session, made now if there is none.          *)
Resolves(a, s, r) ==
    /\ Continuable(a)
    /\ \/ meta[a].owner = s /\ r = a
       \/ /\ meta[a].owner # s /\ meta[a].owner = Parent[s]
          /\ \/ Copies(a, s) = {r} /\ Continuable(r)
             \/ Copies(a, s) = {} /\ Free(r) /\ meta[r] = NoMeta /\ tree[r] = NoTree

(* The task tool looks at the delivery of the reference it was given, and   *)
(* at its worktree (Resume), before it resolves the reference.              *)
MayContinue(a) ==
    /\ meta[a] # NoMeta /\ meta[a].delivery \notin Blocking
    /\ LET t == tree[meta[a].tree] IN t.live /\ t.known

PrepareContinue(p, a, s, r) ==
    /\ Lease(p)
    /\ MayContinue(a) /\ Resolves(a, s, r)
    /\ Prepare(r, IF meta[r] = NoMeta THEN NewMeta(s, a, meta[a].tree) ELSE meta[r], FALSE)
    /\ Lapse(r, meta[r].delivery \in Blocking)
    /\ UNCHANGED <<boot, meta, tree, op, source, faults, given>>

Enter(r, pc) == run' = [run EXCEPT ![r].pc = pc]
Publish(r, m) == meta' = [meta EXCEPT ![r] = m]

(* MarkRunning.                                                             *)
MarkRunning(r) ==
    /\ run[r].pc = "prepared"
    /\ LET m == [run[r].hand EXCEPT !.status = "running"]
       IN  Publish(r, m) /\ run' = [run EXCEPT ![r].pc = "marked", ![r].hand = m]
    /\ UNCHANGED <<holder, boot, tree, op, source, faults, history>>

BeginRun(r) ==
    /\ run[r].pc = "marked" /\ Enter(r, "running")
    /\ UNCHANGED <<holder, boot, meta, tree, op, source, faults, history>>

(* refresh and SaveFailed or SaveInterrupted, then Release.                 *)
SaveEnded(r, status) ==
    /\ Publish(r, [run[r].hand EXCEPT !.status = status, !.delivery = status])
    /\ run' = [run EXCEPT ![r] = RunOff]

(* abortBeforeExecution: only a worktree of this very call is taken back.   *)
AbortPreparation(r) ==
    /\ run[r].pc \in {"prepared", "marked"} /\ Fault
    /\ IF run[r].fresh
       THEN /\ tree' = [tree EXCEPT ![r] = NoTree]
            /\ Publish(r, NoMeta)
            /\ run' = [run EXCEPT ![r] = RunOff]
       ELSE SaveEnded(r, "interrupted") /\ UNCHANGED tree
    /\ UNCHANGED <<holder, boot, op, source, history>>

(* A tool of the child writes; the lease of its worktree is held until its  *)
(* agent ends.                                                              *)
Work(r) ==
    LET t == run[r].hand.tree
    IN  /\ run[r].pc = "running" /\ tree[t].live /\ tree[t].head < MaxSeal
        /\ \A q \in Ref \ {r} : run[q].wrote => run[q].hand.tree # t
        /\ tree' = [tree EXCEPT ![t].dirty = TRUE]
        /\ run' = [run EXCEPT ![r].wrote = TRUE]
        /\ UNCHANGED <<holder, boot, meta, op, source, faults, history>>

(* SaveRunning at the boundaries of a round.                                *)
SaveRunning(r) ==
    /\ run[r].pc = "running" /\ Publish(r, run[r].hand)
    /\ UNCHANGED <<holder, boot, tree, run, op, source, faults, history>>

EndRun(r) ==
    /\ run[r].pc = "running"
    /\ run' = [run EXCEPT ![r].pc = "ended", ![r].wrote = FALSE]
    /\ UNCHANGED <<holder, boot, meta, tree, op, source, faults, history>>

(* SaveCompleted: seal ...                                                  *)
Seal(r) ==
    LET t == run[r].hand.tree
        head == IF tree[t].dirty /\ tree[t].head < MaxSeal THEN tree[t].head + 1 ELSE tree[t].head
    IN  /\ run[r].pc = "ended" /\ tree[t].live /\ tree[t].known
        /\ tree' = [tree EXCEPT ![t].head = head, ![t].dirty = FALSE]
        /\ run' = [run EXCEPT ![r].pc = "sealed", ![r].hand.commit = head,
                              ![r].hand.delivery = IF head = 0 THEN "empty" ELSE "ready"]
        /\ UNCHANGED <<holder, boot, meta, op, source, faults, history>>

(* ... and the record, which is whole once the lock is let go.              *)
SaveCompleted(r) ==
    /\ run[r].pc = "sealed"
    /\ Publish(r, [run[r].hand EXCEPT !.status = "completed"])
    /\ run' = [run EXCEPT ![r] = RunOff]
    /\ UNCHANGED <<holder, boot, tree, op, source, faults, history>>

(* The run fails, is cancelled, or cannot be sealed; or the record of its   *)
(* completion cannot be written.                                            *)
SaveFailed(r) ==
    /\ \/ /\ run[r].pc = "ended" /\ UNCHANGED faults
          /\ \E status \in {"failed", "interrupted"} : SaveEnded(r, status)
       \/ run[r].pc = "sealed" /\ Fault /\ SaveEnded(r, "failed")
    /\ UNCHANGED <<holder, boot, tree, op, source, history>>

(* No record can be written: it says running, and nobody runs.              *)
LoseRecord(r) ==
    /\ run[r].pc \in {"ended", "sealed"} /\ Fault
    /\ run' = [run EXCEPT ![r] = RunOff]
    /\ UNCHANGED <<holder, boot, meta, tree, op, source, history>>

----------------------------------------------------------------------------
(* MutateDelivery.                                                          *)

Clean == source.staged = {} /\ ~source.edit /\ ~source.over
Tip == Len(source.log)

(* Mutant of Digest: git status is asked for the index only.                *)
DigestMutant == [staged |-> source.staged, edit |-> FALSE]

(* The digest of git status --porcelain names paths and their states: an    *)
(* edit staged over a file that a delivery has staged does not show.        *)
Digest == [staged |-> source.staged, edit |-> source.edit]

(* validateReadyDelivery                                                    *)
Deliverable(m) ==
    LET t == tree[m.tree]
    IN  t.live /\ t.known /\ t.head = m.commit /\ m.commit > 0 /\ ~t.dirty

Holding(r, m, pc) == op' = [pc |-> pc, ref |-> r, hand |-> m]

(* Mutant of Accept: the intent is not on record before the source changes. *)
AcceptMutant(p, r, kind) ==
    /\ Lease(p) /\ Free(r)
    /\ meta[r].status = "completed" /\ meta[r].delivery = "ready"
    /\ Deliverable(meta[r]) /\ Clean
    /\ Holding(r, [meta[r] EXCEPT !.tx = [NoTx EXCEPT !.kind = kind, !.before = Tip]], "intent")
    /\ UNCHANGED <<boot, meta, tree, run, source, faults, history>>

(* apply, merge: PrepareTransaction and the record of the intent.           *)
Accept(p, r, kind) ==
    /\ Lease(p) /\ Free(r)
    /\ meta[r].status = "completed" /\ meta[r].delivery = "ready"
    /\ Deliverable(meta[r]) /\ Clean
    /\ LET m == [meta[r] EXCEPT
                     !.delivery = IF kind = "apply" THEN "applying" ELSE "merging",
                     !.tx = [NoTx EXCEPT !.kind = kind, !.before = Tip]]
       IN  Publish(r, m) /\ Holding(r, m, "intent")
    /\ UNCHANGED <<boot, tree, run, source, faults, history>>

(* validatePreparedSource                                                   *)
Prepared(m) == Deliverable(m) /\ Clean /\ Tip = m.tx.before

Done(s) ==
    op' = [op EXCEPT !.pc = "changed", !.hand.tx.after = Len(s.log), !.hand.tx.staged = s.staged]

Give(m) == given' = given \cup {<<m.tree, m.commit>>}

(* A patch of which the source has everything leaves nothing to stage.      *)
ApplyPrepared ==
    /\ op.pc = "intent" /\ op.hand.tx.kind = "apply" /\ Prepared(op.hand)
    /\ \E staged \in {{op.ref}, {}} :
          /\ staged = {} => \E r \in source.held : meta[r].tree = op.hand.tree
          /\ source' = [source EXCEPT !.staged = staged]
    /\ Done(source') /\ Give(op.hand)
    /\ UNCHANGED <<holder, boot, meta, tree, run, faults, lapsed>>

(* git merge --no-ff; a commit that is in the history already is not merged *)
(* again.                                                                   *)
Merge(m) ==
    IF \E i \in 1 .. Tip : source.log[i][1] = m.tree /\ source.log[i][2] >= m.commit
    THEN UNCHANGED source
    ELSE source' = [source EXCEPT !.log = Append(@, <<m.tree, m.commit, op.ref>>),
                                  !.held = @ \cup {op.ref}]

MergePrepared ==
    /\ op.pc = "intent" /\ op.hand.tx.kind = "merge" /\ Prepared(op.hand)
    /\ Merge(op.hand) /\ Done(source') /\ Give(op.hand)
    /\ UNCHANGED <<holder, boot, meta, tree, run, faults, lapsed>>

(* The context ends between the merge and the reading of its commit: the    *)
(* call fails and the merge stays.                                          *)
CancelMerge ==
    /\ op.pc = "intent" /\ op.hand.tx.kind = "merge" /\ Prepared(op.hand) /\ Fault
    /\ Merge(op.hand) /\ Give(op.hand)
    /\ op' = [op EXCEPT !.pc = "refused"]
    /\ Lapse(op.ref, TRUE)
    /\ UNCHANGED <<holder, boot, meta, tree, run>>

(* The source or the worktree has moved, or Git finds a conflict.           *)
Refuse ==
    /\ op.pc = "intent" /\ op' = [op EXCEPT !.pc = "refused"]
    /\ UNCHANGED <<holder, boot, meta, tree, run, source, faults, history>>

(* Rollback: only a source that looks as the transaction left it.           *)
Rollback(p, r) ==
    LET tx == meta[r].tx
    IN  /\ Lease(p) /\ Free(r)
        /\ meta[r].delivery \in Accepted
        /\ Tip = tx.after /\ Digest = [staged |-> tx.staged, edit |-> FALSE]
        /\ \/ /\ tx.kind = "apply"
              /\ source' = [source EXCEPT !.log = SubSeq(@, 1, tx.before), !.staged = {},
                                          !.edit = FALSE, !.over = FALSE]
           \/ /\ tx.kind = "merge" /\ source.log[Tip] # Own
              /\ source' = [source EXCEPT !.log = Append(@, Own),
                                          !.held = @ \ {source.log[Tip][3]}]
        /\ Holding(r, meta[r], "undone")
        /\ UNCHANGED <<boot, meta, tree, run, faults, history>>

(* Mutant of Reject: the lock of the reference is not taken.                *)
RejectMutant(p, r) ==
    /\ Lease(p)
    /\ meta[r] # NoMeta
    /\ meta[r].delivery \notin Pending \cup Accepted \cup {"acceptance_interrupted"}
    /\ tree' = [tree EXCEPT ![meta[r].tree] = [@ EXCEPT !.live = FALSE, !.known = FALSE]]
    /\ Holding(r, meta[r], "removed")
    /\ UNCHANGED <<boot, meta, run, source, faults, history>>

(* reject: Remove takes the worktree and its branch.                        *)
Reject(p, r) ==
    /\ Lease(p) /\ Free(r)
    /\ meta[r] # NoMeta
    /\ meta[r].delivery \notin Pending \cup Accepted \cup {"acceptance_interrupted"}
    /\ tree' = [tree EXCEPT ![meta[r].tree] = [@ EXCEPT !.live = FALSE, !.known = FALSE]]
    /\ Holding(r, meta[r], "removed")
    /\ UNCHANGED <<boot, meta, run, source, faults, history>>

(* The record of the outcome.                                               *)
Outcome(m) ==
    CASE op.pc = "changed" ->
             [m EXCEPT !.delivery = IF m.tx.kind = "apply" THEN "applied" ELSE "merged"]
      [] op.pc = "refused" -> [m EXCEPT !.delivery = "ready", !.tx = NoTx]
      [] op.pc = "undone" -> [m EXCEPT !.delivery = "rolled_back"]
      [] OTHER -> [m EXCEPT !.delivery = "rejected"]

SaveOutcome ==
    /\ op.pc \notin {"none", "intent"}
    /\ Publish(op.ref, Outcome(op.hand)) /\ op' = OpOff
    /\ UNCHANGED <<holder, boot, tree, run, source, faults, history>>

LoseOutcome ==
    /\ op.pc \notin {"none", "intent"} /\ Fault
    /\ op' = OpOff
    /\ UNCHANGED <<holder, boot, meta, tree, run, source, history>>

----------------------------------------------------------------------------
(* The start of a runtime.                                                  *)

BootStep(p, b) == boot' = [boot EXCEPT ![p] = b]

(* CleanupStaleRunning lists the records ...                                *)
Start(p) ==
    /\ boot[p].pc = "off"
    /\ BootStep(p, [BootOff EXCEPT !.pc = "sweep", !.todo = {r \in Ref : meta[r] # NoMeta}])
    /\ UNCHANGED <<holder, meta, tree, run, op, source, faults, history>>

(* ... reads one that says running ...                                      *)
SweepLoad(p, r) ==
    /\ boot[p].pc = "sweep" /\ r \in boot[p].todo
    /\ LET b == [boot[p] EXCEPT !.todo = @ \ {r}]
       IN  BootStep(p, IF meta[r].status = "running"
                       THEN [b EXCEPT !.pc = "save", !.ref = r, !.hand = meta[r]]
                       ELSE b)
    /\ UNCHANGED <<holder, meta, tree, run, op, source, faults, history>>

(* ... and writes it back as interrupted, after a look at the worktree and  *)
(* with no lock.                                                            *)
Reconciled(m) ==
    LET t == tree[m.tree]
    IN  [m EXCEPT !.status = "interrupted",
                  !.delivery = CASE t.live /\ t.known -> "interrupted"
                                 [] t.live /\ ~t.known -> "orphaned"
                                 [] OTHER -> "lost"]

SweepSave(p) ==
    LET r == boot[p].ref
    IN  /\ boot[p].pc = "save"
        /\ Publish(r, Reconciled(boot[p].hand))
        /\ Lapse(r, meta[r].delivery \in Blocking)
        /\ BootStep(p, [boot[p] EXCEPT !.pc = "sweep", !.ref = None, !.hand = NoMeta])
        /\ UNCHANGED <<holder, tree, run, op, source, faults, given>>

(* ReconcilePendingDeliveries lists the acceptances ...                     *)
Settle(p) ==
    /\ boot[p].pc = "sweep" /\ boot[p].todo = {}
    /\ BootStep(p, [boot[p] EXCEPT !.pc = "settle",
                                   !.todo = {r \in Ref : meta[r].delivery \in Pending}])
    /\ UNCHANGED <<holder, meta, tree, run, op, source, faults, history>>

(* Mutant of Completed: the parents of the head are not compared.           *)
CompletedMutant(m) == m.tx.kind = "merge" /\ Clean /\ Tip = m.tx.before + 1

(* RecoverPrepared: what became of an acceptance that was cut short.        *)
Unchanged(m) == Tip = m.tx.before /\ Clean
Completed(m) ==
    /\ m.tx.kind = "merge" /\ Clean
    /\ Tip = m.tx.before + 1 /\ SubSeq(source.log[Tip], 1, 2) = <<m.tree, m.commit>>

Recovered(m) ==
    CASE Unchanged(m) -> [m EXCEPT !.delivery = "ready", !.tx = NoTx]
      [] Completed(m) -> [m EXCEPT !.delivery = "merged", !.tx.after = Tip]
      [] OTHER -> [m EXCEPT !.delivery = "acceptance_interrupted"]

(* ... and settles each under its lock; one that is held fails the start.   *)
RecoverPending(p, r) ==
    /\ boot[p].pc = "settle" /\ r \in boot[p].todo
    /\ IF Free(r)
       THEN /\ BootStep(p, [boot[p] EXCEPT !.todo = @ \ {r}])
            /\ Publish(r, IF meta[r].delivery \in Pending THEN Recovered(meta[r]) ELSE meta[r])
       ELSE BootStep(p, BootOff) /\ UNCHANGED meta
    /\ UNCHANGED <<holder, tree, run, op, source, faults, history>>

Ready(p) ==
    /\ boot[p].pc = "settle" /\ boot[p].todo = {}
    /\ BootStep(p, [BootOff EXCEPT !.pc = "up"])
    /\ UNCHANGED <<holder, meta, tree, run, op, source, faults, history>>

----------------------------------------------------------------------------
(* The world.                                                               *)

(* A process dies: its locks and its lease go with it.                      *)
Crash(p) ==
    /\ boot[p].pc # "off" /\ Fault
    /\ BootStep(p, BootOff)
    /\ IF holder = p
       THEN holder' = None /\ run' = [r \in Ref |-> RunOff] /\ op' = OpOff
       ELSE UNCHANGED <<holder, run, op>>
    /\ UNCHANGED <<meta, tree, source, history>>

(* The user works in the source, but does not rewrite its history.          *)
UserEdit ==
    /\ source' = [source EXCEPT !.edit = TRUE]
    /\ UNCHANGED <<holder, boot, meta, tree, run, op, faults, history>>

UserStage ==
    /\ source.staged # {} /\ source' = [source EXCEPT !.over = TRUE]
    /\ UNCHANGED <<holder, boot, meta, tree, run, op, faults, history>>

UserCommit ==
    /\ Tip < MaxLog
    /\ source' = [log |-> Append(source.log, Own), held |-> source.held \cup source.staged,
                  staged |-> {}, edit |-> FALSE, over |-> FALSE]
    /\ UNCHANGED <<holder, boot, meta, tree, run, op, faults, history>>

UserDiscard ==
    /\ source' = [source EXCEPT !.staged = {}, !.edit = FALSE, !.over = FALSE]
    /\ UNCHANGED <<holder, boot, meta, tree, run, op, faults, history>>

(* A worktree is deleted, or Git forgets it.                                *)
LoseTree(t) ==
    /\ tree[t].live /\ Fault
    /\ \/ tree' = [tree EXCEPT ![t].live = FALSE]
       \/ tree' = [tree EXCEPT ![t].known = FALSE]
    /\ UNCHANGED <<holder, boot, meta, run, op, source, history>>

----------------------------------------------------------------------------
Run(r) ==
    \/ MarkRunning(r) \/ BeginRun(r) \/ AbortPreparation(r) \/ Work(r) \/ SaveRunning(r)
    \/ EndRun(r) \/ Seal(r) \/ SaveCompleted(r) \/ SaveFailed(r) \/ LoseRecord(r)

Call(p) ==
    \/ \E s \in Session, r \in Ref : PrepareFresh(p, s, r)
    \/ \E s \in Session, a, r \in Ref : PrepareContinue(p, a, s, r)
    \/ \E r \in Ref, kind \in {"apply", "merge"} : Accept(p, r, kind)
    \/ \E r \in Ref : Rollback(p, r) \/ Reject(p, r)

Mutate == ApplyPrepared \/ MergePrepared \/ CancelMerge \/ Refuse \/ SaveOutcome \/ LoseOutcome

Boot(p) ==
    \/ Start(p) \/ SweepSave(p) \/ Settle(p) \/ Ready(p)
    \/ \E r \in Ref : SweepLoad(p, r) \/ RecoverPending(p, r)

User == UserEdit \/ UserStage \/ UserCommit \/ UserDiscard

Next ==
    \/ Release \/ Mutate \/ User
    \/ \E r \in Ref : Run(r) \/ LoseTree(r)
    \/ \E p \in Runtime : Call(p) \/ Boot(p) \/ Crash(p)

Spec == Init /\ [][Next]_vars

----------------------------------------------------------------------------
Commit == (Ref \cup {None}) \X (0 .. MaxSeal) \X (Ref \cup {None})
TxType == [kind : {"none", "apply", "merge"}, before : Nat, after : Nat, staged : SUBSET Ref]
Status == {"none", "running", "completed", "failed", "interrupted"}
Delivery == Blocking \cup {"none", "active", "ready", "empty", "failed", "interrupted",
                           "lost", "orphaned"}
MetaType == [status : Status, owner : Session \cup {None}, copyOf : Ref \cup {None},
             tree : Ref \cup {None}, delivery : Delivery, commit : 0 .. MaxSeal, tx : TxType]

BootType == [pc : {"off", "sweep", "save", "settle", "up"}, todo : SUBSET Ref,
             ref : Ref \cup {None}, hand : MetaType]
RunType == [pc : {"off", "prepared", "marked", "running", "ended", "sealed"},
            fresh : BOOLEAN, wrote : BOOLEAN, hand : MetaType]

TypeOK ==
    /\ holder \in Runtime \cup {None}
    /\ boot \in [Runtime -> BootType]
    /\ meta \in [Ref -> MetaType]
    /\ tree \in [Ref -> [live : BOOLEAN, known : BOOLEAN, head : 0 .. MaxSeal, dirty : BOOLEAN]]
    /\ run \in [Ref -> RunType]
    /\ op \in [pc : {"none", "intent", "changed", "refused", "undone", "removed"},
               ref : Ref \cup {None}, hand : MetaType]
    /\ source \in [log : Seq(Commit), held : SUBSET Ref, staged : SUBSET Ref,
                   edit : BOOLEAN, over : BOOLEAN]
    /\ faults \in 0 .. MaxFault
    /\ given \subseteq (Ref \cup {None}) \X (0 .. MaxSeal) /\ lapsed \subseteq Ref

InSource == source.held \cup source.staged

(* What the code has put into the source is on record as accepted, or as    *)
(* begun: whoever dies where and whichever write fails, a delivery that the *)
(* source contains is never offered again, unless its record lapsed: by a   *)
(* merge that was cancelled after it took effect, by the sweep of a         *)
(* starting runtime, or by a continuation through the original of a copy.   *)
AcceptanceRecorded ==
    \A r \in InSource \ lapsed : meta[r].delivery \in Blocking

(* What a record calls applied or merged has been put into the source: the  *)
(* recovery of an acceptance that was cut short does not guess.             *)
AcceptedIsTrue ==
    \A r \in Ref : meta[r].delivery \in Accepted => <<meta[r].tree, meta[r].commit>> \in given

(* The code undoes no commit of the user, and no edit that git status       *)
(* shows; one that is staged over a delivery, and does not show, goes only  *)
(* when that delivery is rolled back.                                       *)
SourceKept ==
    [][ /\ Len(source'.log) >= Tip /\ SubSeq(source'.log, 1, Tip) = source.log
        /\ source.edit /\ ~source'.edit => UserCommit \/ UserDiscard
        /\ source.over /\ ~source'.over =>
               \/ UserCommit \/ UserDiscard
               \/ op'.pc = "undone" /\ op'.hand.tx.staged = source.staged ]_vars

(* The work of a run goes only with a reject of its delivery, while no run  *)
(* of that reference is on, or when somebody else removes the worktree: not *)
(* with a preparation that fails, nor with the cleaning up of a start.      *)
HasWork(t) == tree[t].live /\ (tree[t].head > 0 \/ tree[t].dirty)
WorkSurvives ==
    [][ \A t \in Ref : HasWork(t) /\ ~tree'[t].live =>
            \/ LoseTree(t)
            \/ \E r \in Ref : /\ op'.pc = "removed" /\ op'.ref = r
                              /\ meta[r].tree = t /\ run[r].pc = "off" ]_vars
=============================================================================
