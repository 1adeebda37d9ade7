---------------------------- MODULE SubagentDeliveryProofs ----------------------------
(* Proofs about SubagentDelivery: records and repository agree, the work of *)
(* a run is kept.                                                           *)
EXTENDS SubagentDelivery, TLAPS, SequenceTheorems

----------------------------------------------------------------------------
(* The inductive invariant.                                                 *)

(* A transaction lies in the past, an apply moves no head, and what is      *)
(* called accepted was given.                                               *)
Sound(m, tip, g) ==
    /\ m.tx.before <= tip
    /\ m.tx.kind = "apply" => m.tx.after \in {0, m.tx.before}
    /\ m.delivery \in Pending => m.commit > 0
    /\ m.delivery \in Accepted => <<m.tree, m.commit>> \in g
    /\ m.tree = None => m = NoMeta

AllSound ==
    /\ \A r \in Ref : Sound(meta[r], Tip, given) /\ Sound(run[r].hand, Tip, given)
    /\ Sound(op.hand, Tip, given)
    /\ \A p \in Runtime : Sound(boot[p].hand, Tip, given)

(* Who has a record in hand, and that it is one.                            *)
Handed ==
    /\ \A r \in Ref : run[r].pc # "off" => run[r].hand.tree \in Ref /\ op.ref # r
    /\ op.pc # "none" => op.ref \in Ref /\ op.hand.tree \in Ref
    /\ op.pc = "intent" => op.hand.delivery \in Pending
    /\ op.pc = "changed" => <<op.hand.tree, op.hand.commit>> \in given
    /\ \A p \in Runtime : boot[p].pc = "save" => boot[p].ref \in Ref /\ boot[p].hand.tree \in Ref

LogGiven ==
    /\ Tip >= 1
    /\ \A i \in 1 .. Tip : source.log[i][2] > 0 => <<source.log[i][1], source.log[i][2]>> \in given

SoundInv == AllSound /\ Handed /\ LogGiven

(* A delivery that nobody has accepted yet is not in the source.            *)
Outside ==
    /\ \A r \in Ref \ lapsed : run[r].pc # "off" => r \notin InSource
    /\ op.pc \in {"intent", "refused"} /\ op.ref \notin lapsed => op.ref \notin InSource

(* The intent is on record, and a head that has not moved tells the truth.  *)
Intended ==
    /\ op.pc = "intent" /\ op.ref \notin lapsed => meta[op.ref].delivery \in Blocking
    /\ \A r \in Ref \ lapsed :
           meta[r].delivery \in Pending /\ r \in source.held => meta[r].tx.before < Tip

RecordInv == AcceptanceRecorded /\ Outside /\ Intended

(* A fresh worktree is empty and nobody else's.                             *)
Fresh(r) == run[r].fresh /\ run[r].pc \in {"prepared", "marked"}

Shared(t) ==
    \/ \E q \in Ref \ {t} : meta[q].tree = t \/ run[q].hand.tree = t
    \/ op.ref # t /\ op.hand.tree = t
    \/ \E p \in Runtime : boot[p].ref # t /\ boot[p].hand.tree = t

TreeInv ==
    \A t \in Ref :
        /\ Shared(t) => meta[t] # NoMeta /\ ~Fresh(t)
        /\ Fresh(t) => run[t].hand.tree = t /\ tree[t].head = 0 /\ ~tree[t].dirty

IInv == TypeOK /\ SoundInv /\ RecordInv /\ TreeInv

----------------------------------------------------------------------------
(* Types.                                                                   *)

(* The values the specification starts with.                                *)
LEMMA Constants ==
    /\ NoTx \in TxType /\ NoMeta \in MetaType
    /\ RunOff \in RunType /\ BootOff \in BootType
    /\ Own \in Commit
    /\ NoTree \in [live : BOOLEAN, known : BOOLEAN, head : 0 .. MaxSeal, dirty : BOOLEAN]
BY DeliveryAssumption
   DEF NoTx, NoMeta, RunOff, BootOff, NoTree, Own, Commit, TxType, MetaType, RunType, BootType,
       Status, Delivery, Blocking, Pending, Accepted

(* What the code does to a record keeps it one.                             *)
LEMMA MetaUpdates ==
  ASSUME NEW m \in MetaType
  PROVE  /\ \A x \in Status : [m EXCEPT !.status = x] \in MetaType
         /\ \A d \in Delivery : [m EXCEPT !.delivery = d] \in MetaType
         /\ \A x \in Status, d \in Delivery : [m EXCEPT !.status = x, !.delivery = d] \in MetaType
         /\ \A d \in Delivery, t \in TxType : [m EXCEPT !.delivery = d, !.tx = t] \in MetaType
         /\ \A c \in 0 .. MaxSeal, d \in Delivery : [m EXCEPT !.commit = c, !.delivery = d] \in MetaType
BY DEF MetaType

LEMMA TxUpdates ==
  /\ \A kind \in {"apply", "merge"}, n \in Nat : [NoTx EXCEPT !.kind = kind, !.before = n] \in TxType
  /\ \A t \in TxType, n \in Nat : [t EXCEPT !.after = n] \in TxType
  /\ \A t \in TxType, n \in Nat, x \in SUBSET Ref : [t EXCEPT !.after = n, !.staged = x] \in TxType
BY DEF TxType, NoTx

LEMMA NewMetaTyped ==
  ASSUME NEW s \in Session, NEW a \in Ref \cup {None}, NEW t \in Ref
  PROVE  NewMeta(s, a, t) \in MetaType
BY Constants DEF NewMeta, MetaType, Status, Delivery, Blocking, NoMeta

LEMMA Names ==
  /\ {"running", "completed", "failed", "interrupted"} \subseteq Status
  /\ {"ready", "empty", "failed", "interrupted", "lost", "orphaned", "applying", "merging", "applied",
      "merged", "acceptance_interrupted", "rejected", "rolled_back"} \subseteq Delivery
BY DEF Status, Delivery, Blocking, Pending, Accepted

(* A step that puts a typed record at r.                                    *)
LEMMA RunSlot ==
  ASSUME run \in [Ref -> RunType], NEW r \in Ref, NEW x \in RunType, run' = [run EXCEPT ![r] = x]
  PROVE  run' \in [Ref -> RunType]
OBVIOUS

LEMMA MetaSlot ==
  ASSUME meta \in [Ref -> MetaType], NEW r \in Ref, NEW m \in MetaType, Publish(r, m)
  PROVE  meta' \in [Ref -> MetaType]
BY DEF Publish

(* The parts of a record.                                                   *)
LEMMA MetaFields ==
  ASSUME NEW m \in MetaType
  PROVE  /\ m.tx \in TxType /\ m.tree \in Ref \cup {None} /\ m.commit \in 0 .. MaxSeal
         /\ m.tx.before \in Nat /\ m.tx.after \in Nat /\ m.tx.staged \in SUBSET Ref
BY DEF MetaType, TxType

RunPc == {"off", "prepared", "marked", "running", "ended", "sealed"}

LEMMA RunUpdates ==
  ASSUME NEW x \in RunType
  PROVE  /\ x.pc \in RunPc /\ x.fresh \in BOOLEAN /\ x.wrote \in BOOLEAN /\ x.hand \in MetaType
         /\ \A pc \in RunPc : [x EXCEPT !.pc = pc] \in RunType
         /\ \A pc \in RunPc, m \in MetaType : [x EXCEPT !.pc = pc, !.hand = m] \in RunType
         /\ [x EXCEPT !.wrote = TRUE] \in RunType
         /\ \A pc \in RunPc : [x EXCEPT !.pc = pc, !.wrote = FALSE] \in RunType
BY DEF RunType, RunPc

LEMMA PreparedTyped ==
  ASSUME NEW m \in MetaType, NEW f \in BOOLEAN
  PROVE  [pc |-> "prepared", fresh |-> f, wrote |-> FALSE, hand |-> m] \in RunType
BY DEF RunType

LEMMA BootUpdates ==
  ASSUME NEW b \in BootType
  PROVE  /\ b.todo \subseteq Ref /\ b.ref \in Ref \cup {None} /\ b.hand \in MetaType
         /\ \A x \in SUBSET Ref : /\ [b EXCEPT !.todo = x] \in BootType
                                  /\ [BootOff EXCEPT !.pc = "sweep", !.todo = x] \in BootType
                                  /\ [b EXCEPT !.pc = "settle", !.todo = x] \in BootType
         /\ \A x \in SUBSET Ref, r \in Ref, m \in MetaType :
               [[b EXCEPT !.todo = x] EXCEPT !.pc = "save", !.ref = r, !.hand = m] \in BootType
         /\ [b EXCEPT !.pc = "sweep", !.ref = None, !.hand = NoMeta] \in BootType
         /\ [BootOff EXCEPT !.pc = "up"] \in BootType
BY Constants DEF BootType, BootOff

OpType == [pc : {"none", "intent", "changed", "refused", "undone", "removed"},
           ref : Ref \cup {None}, hand : MetaType]

LEMMA OpUpdates ==
  /\ OpOff \in OpType
  /\ \A pc \in {"intent", "undone", "removed"}, r \in Ref, m \in MetaType :
         [pc |-> pc, ref |-> r, hand |-> m] \in OpType
  /\ \A x \in OpType : [x EXCEPT !.pc = "refused"] \in OpType
BY Constants DEF OpType, OpOff

TreeType == [live : BOOLEAN, known : BOOLEAN, head : 0 .. MaxSeal, dirty : BOOLEAN]

LEMMA TreeUpdates ==
  /\ NoTree \in TreeType /\ NewTree \in TreeType
  /\ \A x \in TreeType : /\ [x EXCEPT !.live = FALSE] \in TreeType
                         /\ [x EXCEPT !.known = FALSE] \in TreeType
                         /\ [x EXCEPT !.live = FALSE, !.known = FALSE] \in TreeType
                         /\ [x EXCEPT !.dirty = TRUE] \in TreeType
                         /\ \A h \in 0 .. MaxSeal : [x EXCEPT !.head = h, !.dirty = FALSE] \in TreeType
BY Constants DEF TreeType, NewTree, NoTree

SourceType == [log : Seq(Commit), held : SUBSET Ref, staged : SUBSET Ref,
               edit : BOOLEAN, over : BOOLEAN]

LEMMA SourceUpdates ==
  ASSUME NEW x \in SourceType
  PROVE  /\ x.log \in Seq(Commit) /\ Len(x.log) \in Nat /\ x.held \subseteq Ref /\ x.staged \subseteq Ref
         /\ \A y \in SUBSET Ref : [x EXCEPT !.staged = y] \in SourceType
         /\ \A l \in Seq(Commit) :
               [x EXCEPT !.log = l, !.staged = {}, !.edit = FALSE, !.over = FALSE] \in SourceType
         /\ \A l \in Seq(Commit), y \in SUBSET Ref : [x EXCEPT !.log = l, !.held = y] \in SourceType
         /\ \A l \in Seq(Commit), y \in SUBSET Ref :
               [log |-> l, held |-> y, staged |-> {}, edit |-> FALSE, over |-> FALSE] \in SourceType
         /\ [x EXCEPT !.edit = TRUE] \in SourceType /\ [x EXCEPT !.over = TRUE] \in SourceType
         /\ [x EXCEPT !.staged = {}, !.edit = FALSE, !.over = FALSE] \in SourceType
<1>1. x.log \in Seq(Commit) /\ x.held \subseteq Ref /\ x.staged \subseteq Ref  BY DEF SourceType
<1>2. Len(x.log) \in Nat  BY <1>1
<1> QED BY <1>1, <1>2 DEF SourceType

(* Commits, and logs of them.                                               *)
LEMMA CommitTyped ==
  /\ Own \in Commit
  /\ \A t \in Ref \cup {None}, c \in 0 .. MaxSeal, r \in Ref : <<t, c, r>> \in Commit
BY Constants DEF Commit

LEMMA LogTyped ==
  ASSUME NEW l \in Seq(Commit)
  PROVE  /\ \A c \in Commit : Append(l, c) \in Seq(Commit) /\ Len(Append(l, c)) = Len(l) + 1
         /\ \A n \in Nat : n <= Len(l) => SubSeq(l, 1, n) \in Seq(Commit)
         /\ \A i \in 1 .. Len(l) : l[i] \in Commit
<1>1. \A c \in Commit : Append(l, c) \in Seq(Commit) /\ Len(Append(l, c)) = Len(l) + 1
  BY AppendProperties
<1>2. \A n \in Nat : n <= Len(l) => SubSeq(l, 1, n) \in Seq(Commit)
  <2> TAKE n \in Nat
  <2> HAVE n <= Len(l)
  <2>1. 1 \in 1 .. Len(l) + 1 /\ n \in 1 - 1 .. Len(l)  OBVIOUS
  <2> QED BY <2>1, SubSeqProperties
<1>3. \A i \in 1 .. Len(l) : l[i] \in Commit  BY ElementOfSeq
<1> QED BY <1>1, <1>2, <1>3

(* The type invariant by its parts, now and in the next state.              *)
LEMMA TypeParts ==
  TypeOK <=> /\ holder \in Runtime \cup {None}
             /\ boot \in [Runtime -> BootType]
             /\ meta \in [Ref -> MetaType]
             /\ tree \in [Ref -> TreeType]
             /\ run \in [Ref -> RunType]
             /\ op \in OpType
             /\ source \in SourceType
             /\ faults \in 0 .. MaxFault
             /\ given \subseteq (Ref \cup {None}) \X (0 .. MaxSeal) /\ lapsed \subseteq Ref
BY DEF TypeOK, TreeType, OpType, SourceType

LEMMA TypeAfter ==
  TypeOK' <=> /\ holder' \in Runtime \cup {None}
              /\ boot' \in [Runtime -> BootType]
              /\ meta' \in [Ref -> MetaType]
              /\ tree' \in [Ref -> TreeType]
              /\ run' \in [Ref -> RunType]
              /\ op' \in OpType
              /\ source' \in SourceType
              /\ faults' \in 0 .. MaxFault
              /\ given' \subseteq (Ref \cup {None}) \X (0 .. MaxSeal) /\ lapsed' \subseteq Ref
BY DEF TypeOK, TreeType, OpType, SourceType

(* Faults are counted within their bound.                                   *)
LEMMA FaultTyped == TypeOK /\ Fault => faults' \in 0 .. MaxFault
BY DeliveryAssumption DEF Fault, TypeOK

(* Runs.                                                                    *)
LEMMA RunTypes ==
  ASSUME TypeOK, Handed, NEW r \in Ref, Run(r)
  PROVE  TypeOK'
<1> USE TypeParts, TypeAfter, Constants, Names
<1> DEFINE m == run[r].hand
<1>a. run[r] \in RunType /\ m \in MetaType  BY RunUpdates
<1>b. /\ m.commit \in 0 .. MaxSeal /\ m.tree \in Ref \cup {None}
      /\ \A x \in Status : [m EXCEPT !.status = x] \in MetaType
      /\ \A x \in Status, d \in Delivery : [m EXCEPT !.status = x, !.delivery = d] \in MetaType
      /\ \A c \in 0 .. MaxSeal, d \in Delivery : [m EXCEPT !.commit = c, !.delivery = d] \in MetaType
  BY <1>a, MetaFields, MetaUpdates
<1>c. /\ \A pc \in RunPc : [run[r] EXCEPT !.pc = pc] \in RunType
      /\ \A pc \in RunPc, x \in MetaType : [run[r] EXCEPT !.pc = pc, !.hand = x] \in RunType
      /\ [run[r] EXCEPT !.wrote = TRUE] \in RunType
      /\ \A pc \in RunPc : [run[r] EXCEPT !.pc = pc, !.wrote = FALSE] \in RunType
  BY <1>a, RunUpdates
<1>p. RunPc = {"off", "prepared", "marked", "running", "ended", "sealed"}  BY DEF RunPc
<1>s. \A status \in {"failed", "interrupted"} :
         SaveEnded(r, status) => meta' \in [Ref -> MetaType] /\ run' \in [Ref -> RunType]
  <2> TAKE status \in {"failed", "interrupted"}
  <2> HAVE SaveEnded(r, status)
  <2>1. [m EXCEPT !.status = status, !.delivery = status] \in MetaType  BY <1>b
  <2> QED BY <2>1 DEF SaveEnded, Publish
<1> HIDE DEF m
<1>1. CASE MarkRunning(r)
  <2>1. [m EXCEPT !.status = "running"] \in MetaType  BY <1>b
  <2>2. [run[r] EXCEPT !.pc = "marked", !.hand = [m EXCEPT !.status = "running"]] \in RunType
    BY <1>c, <1>p, <2>1
  <2>3. run' = [run EXCEPT ![r] = [run[r] EXCEPT !.pc = "marked", !.hand = [m EXCEPT !.status = "running"]]]
    BY <1>1 DEF MarkRunning, m
  <2> QED BY <1>1, <2>1, <2>2, <2>3 DEF MarkRunning, Publish, history, m
<1>2. CASE BeginRun(r)  BY <1>2, <1>c, <1>p DEF BeginRun, Enter, history
<1>3. CASE AbortPreparation(r)
  BY <1>3, <1>s, FaultTyped, TreeUpdates DEF AbortPreparation, Publish, history
<1>4. CASE Work(r)
  <2>1. [tree[m.tree] EXCEPT !.dirty = TRUE] \in TreeType \/ m.tree = None  BY <1>b, TreeUpdates
  <2>2. tree' \in [Ref -> TreeType]  BY <1>4, <2>1, DeliveryAssumption DEF Work, m
  <2> QED BY <1>4, <1>c, <2>2 DEF Work, history
<1>5. CASE SaveRunning(r)  BY <1>5, <1>a DEF SaveRunning, Publish, history, m
<1>6. CASE EndRun(r)  BY <1>6, <1>c, <1>p DEF EndRun, history
<1>7. CASE Seal(r)
  <2> DEFINE t == m.tree
             head == IF tree[t].dirty /\ tree[t].head < MaxSeal THEN tree[t].head + 1 ELSE tree[t].head
             x == [m EXCEPT !.commit = head, !.delivery = IF head = 0 THEN "empty" ELSE "ready"]
  <2>1. t = None \/ head \in 0 .. MaxSeal
    <3>1. SUFFICES ASSUME t \in Ref PROVE head \in 0 .. MaxSeal  BY <1>b
    <3>2. tree[t].head \in 0 .. MaxSeal  BY <3>1 DEF TreeType
    <3> QED BY <3>2, DeliveryAssumption
  <2> HIDE DEF head
  <2>2. tree' = [tree EXCEPT ![t] = [tree[t] EXCEPT !.head = head, !.dirty = FALSE]]
    BY <1>7 DEF Seal, m, head
  <2>5. t \in Ref  BY <1>7, <1>b, DeliveryAssumption DEF Seal, Handed, m
  <2>8. [tree[t] EXCEPT !.head = head, !.dirty = FALSE] \in TreeType
    BY <2>1, <2>5, TreeUpdates, DeliveryAssumption
  <2>3. tree' \in [Ref -> TreeType]  BY <2>2, <2>5, <2>8
  <2>4. run' = [run EXCEPT ![r] = [run[r] EXCEPT !.pc = "sealed", !.hand = x]]
    BY <1>7 DEF Seal, m, head
  <2>6. x \in MetaType  BY <1>b, <2>1, <2>5, DeliveryAssumption
  <2>7. run' \in [Ref -> RunType]  BY <1>c, <1>p, <2>4, <2>6
  <2> QED BY <1>7, <2>3, <2>7 DEF Seal, history
<1>8. CASE SaveCompleted(r)
  <2>1. [m EXCEPT !.status = "completed"] \in MetaType  BY <1>b
  <2> QED BY <1>8, <2>1 DEF SaveCompleted, Publish, history, m
<1>9. CASE SaveFailed(r)  BY <1>9, <1>s, FaultTyped DEF SaveFailed, history
<1>10. CASE LoseRecord(r)  BY <1>10, FaultTyped DEF LoseRecord, history
<1> QED BY <1>1, <1>2, <1>3, <1>4, <1>5, <1>6, <1>7, <1>8, <1>9, <1>10 DEF Run

(* Calls of a runtime.                                                      *)
LEMMA CallTypes ==
  ASSUME TypeOK, SoundInv, NEW p \in Runtime, Call(p)
  PROVE  TypeOK'
<1> USE TypeParts, TypeAfter, Constants, Names
<1>l. ASSUME Lease(p) PROVE holder' \in Runtime \cup {None}  BY <1>l DEF Lease
<1>p. ASSUME NEW r \in Ref, NEW m \in MetaType, NEW f \in BOOLEAN, Prepare(r, m, f)
      PROVE  run' \in [Ref -> RunType]
  BY <1>p, PreparedTyped DEF Prepare
<1>m. \A r \in Ref : /\ meta[r] \in MetaType /\ meta[r].tree \in Ref \cup {None}
                     /\ meta[r].tx \in TxType /\ meta[r].tx.before \in Nat
  BY MetaFields
<1>1. ASSUME NEW s \in Session, NEW r \in Ref, PrepareFresh(p, s, r)  PROVE TypeOK'
  <2>1. NewMeta(s, None, r) \in MetaType  BY NewMetaTyped
  <2>2. run' \in [Ref -> RunType]  BY <1>1, <1>p, <2>1 DEF PrepareFresh
  <2> QED BY <1>1, <1>l, <2>2, TreeUpdates DEF PrepareFresh, history
<1>2. ASSUME NEW s \in Session, NEW a \in Ref, NEW r \in Ref, PrepareContinue(p, a, s, r)
      PROVE  TypeOK'
  <2> DEFINE m == IF meta[r] = NoMeta THEN NewMeta(s, a, meta[a].tree) ELSE meta[r]
  <2>1. meta[a].tree \in Ref
    BY <1>2, <1>m, DeliveryAssumption DEF PrepareContinue, MayContinue, SoundInv, AllSound, Sound
  <2>2. m \in MetaType  BY <1>m, <2>1, NewMetaTyped
  <2>3. run' \in [Ref -> RunType]  BY <1>2, <1>p, <2>2 DEF PrepareContinue
  <2>4. lapsed' \subseteq Ref  BY <1>2 DEF PrepareContinue, Lapse
  <2> QED BY <1>2, <1>l, <2>3, <2>4 DEF PrepareContinue
<1>3. ASSUME NEW r \in Ref, NEW kind \in {"apply", "merge"}, Accept(p, r, kind)  PROVE TypeOK'
  <2> DEFINE d == IF kind = "apply" THEN "applying" ELSE "merging"
             m == [meta[r] EXCEPT !.delivery = d, !.tx = [NoTx EXCEPT !.kind = kind, !.before = Tip]]
  <2>1. Tip \in Nat  BY SourceUpdates DEF Tip
  <2>2. [NoTx EXCEPT !.kind = kind, !.before = Tip] \in TxType  BY <2>1, TxUpdates
  <2>3. m \in MetaType
    <3>1. \A x \in Delivery, t \in TxType : [meta[r] EXCEPT !.delivery = x, !.tx = t] \in MetaType
      BY <1>m, MetaUpdates
    <3>2. d \in Delivery  OBVIOUS
    <3> QED BY <2>2, <3>1, <3>2
  <2>4. Publish(r, m) /\ Holding(r, m, "intent")  BY <1>3 DEF Accept
  <2> HIDE DEF m
  <2>5. meta' \in [Ref -> MetaType]  BY <2>3, <2>4, MetaSlot
  <2>6. op' \in OpType  BY <2>3, <2>4, OpUpdates DEF Holding
  <2> QED BY <1>3, <1>l, <2>5, <2>6 DEF Accept, history
<1>4. ASSUME NEW r \in Ref, Rollback(p, r)  PROVE TypeOK'
  <2> DEFINE tx == meta[r].tx
  <2>1. /\ source.log \in Seq(Commit) /\ Tip \in Nat /\ tx.before \in Nat /\ tx.before <= Tip
        /\ source.held \subseteq Ref
    BY <1>m, SourceUpdates DEF Tip, SoundInv, AllSound, Sound
  <2>2. SubSeq(source.log, 1, tx.before) \in Seq(Commit) /\ Append(source.log, Own) \in Seq(Commit)
    BY <2>1, LogTyped DEF Tip
  <2>3. source' \in SourceType
    <3>1. \/ source' = [source EXCEPT !.log = SubSeq(source.log, 1, tx.before), !.staged = {},
                                      !.edit = FALSE, !.over = FALSE]
          \/ source' = [source EXCEPT !.log = Append(source.log, Own),
                                      !.held = source.held \ {source.log[Tip][3]}]
      BY <1>4 DEF Rollback
    <3>2. source.held \ {source.log[Tip][3]} \in SUBSET Ref  BY <2>1
    <3>3. /\ \A l \in Seq(Commit) :
                [source EXCEPT !.log = l, !.staged = {}, !.edit = FALSE, !.over = FALSE] \in SourceType
          /\ \A l \in Seq(Commit), y \in SUBSET Ref :
                [source EXCEPT !.log = l, !.held = y] \in SourceType
      BY SourceUpdates
    <3>4. CASE source' = [source EXCEPT !.log = SubSeq(source.log, 1, tx.before), !.staged = {},
                                        !.edit = FALSE, !.over = FALSE]
      <4> DEFINE l == SubSeq(source.log, 1, tx.before)
      <4>1. l \in Seq(Commit)  BY <2>2
      <4> HIDE DEF l
      <4>2. source' = [source EXCEPT !.log = l, !.staged = {}, !.edit = FALSE, !.over = FALSE]
        BY <3>4 DEF l
      <4> QED BY <3>3, <4>1, <4>2
    <3>5. CASE source' = [source EXCEPT !.log = Append(source.log, Own),
                                        !.held = source.held \ {source.log[Tip][3]}]
      BY <2>2, <3>2, <3>3, <3>5
    <3> QED BY <3>1, <3>4, <3>5
  <2>4. op' \in OpType  BY <1>4, <1>m, OpUpdates DEF Rollback, Holding
  <2> QED BY <1>4, <1>l, <2>3, <2>4 DEF Rollback, history
<1>5. ASSUME NEW r \in Ref, Reject(p, r)  PROVE TypeOK'
  <2> DEFINE t == meta[r].tree
  <2>1. t \in Ref
    BY <1>5, <1>m, DeliveryAssumption DEF Reject, SoundInv, AllSound, Sound
  <2>2. tree' = [tree EXCEPT ![t] = [tree[t] EXCEPT !.live = FALSE, !.known = FALSE]]
    BY <1>5 DEF Reject
  <2>3. tree' \in [Ref -> TreeType]  BY <2>1, <2>2, TreeUpdates
  <2>4. op' \in OpType  BY <1>5, <1>m, OpUpdates DEF Reject, Holding
  <2> QED BY <1>5, <1>l, <2>3, <2>4 DEF Reject, history
<1> QED BY <1>1, <1>2, <1>3, <1>4, <1>5 DEF Call

(* The delivery in hand.                                                    *)
LEMMA OpDone ==
  ASSUME TypeOK, source' \in SourceType, Done(source')
  PROVE  op' \in OpType
<1> USE TypeParts
<1>1. op.hand \in MetaType  BY DEF OpType
<1>2. Len(source'.log) \in Nat /\ source'.staged \in SUBSET Ref  BY DEF SourceType
<1>3. [op.hand.tx EXCEPT !.after = Len(source'.log), !.staged = source'.staged] \in TxType
  BY <1>1, <1>2, MetaFields, TxUpdates
<1>4. \A t \in TxType : [op.hand EXCEPT !.tx = t] \in MetaType  BY <1>1 DEF MetaType
<1>5. op' = [op EXCEPT !.pc = "changed",
                       !.hand = [op.hand EXCEPT !.tx = [op.hand.tx EXCEPT !.after = Len(source'.log),
                                                                         !.staged = source'.staged]]]
  BY DEF Done
<1>6. \A m \in MetaType : [op EXCEPT !.pc = "changed", !.hand = m] \in OpType  BY DEF OpType
<1> QED BY <1>3, <1>4, <1>5, <1>6

(* The source after a merge.                                                *)
LEMMA MergeTyped ==
  ASSUME TypeOK, Handed, op.pc = "intent", Merge(op.hand)
  PROVE  source' \in SourceType
<1> USE TypeParts
<1>1. op.hand \in MetaType /\ op.ref \in Ref  BY DEF OpType, Handed
<1>2. <<op.hand.tree, op.hand.commit, op.ref>> \in Commit  BY <1>1, MetaFields, CommitTyped
<1>3. source.log \in Seq(Commit) /\ source.held \cup {op.ref} \in SUBSET Ref  BY <1>1, SourceUpdates
<1>4. Append(source.log, <<op.hand.tree, op.hand.commit, op.ref>>) \in Seq(Commit)
  BY <1>2, <1>3, LogTyped
<1>5. \/ source' = source
      \/ source' = [source EXCEPT !.log = Append(source.log, <<op.hand.tree, op.hand.commit, op.ref>>),
                                  !.held = source.held \cup {op.ref}]
  BY DEF Merge
<1>6. \A l \in Seq(Commit), y \in SUBSET Ref : [source EXCEPT !.log = l, !.held = y] \in SourceType
  BY SourceUpdates
<1> QED BY <1>3, <1>4, <1>5, <1>6

(* What is given is a commit of a worktree.                                 *)
LEMMA GiveTyped ==
  ASSUME TypeOK, op.hand \in MetaType, Give(op.hand)
  PROVE  given' \subseteq (Ref \cup {None}) \X (0 .. MaxSeal)
BY TypeParts, MetaFields DEF Give

LEMMA MutateTypes ==
  ASSUME TypeOK, Handed, Mutate
  PROVE  TypeOK'
<1> USE TypeParts, TypeAfter, Constants, Names
<1>a. op.hand \in MetaType /\ (op.pc # "none" => op.ref \in Ref)  BY DEF OpType, Handed
<1>1. CASE ApplyPrepared
  <2>1. source' \in SourceType
    <3>1. op.ref \in Ref  BY <1>1, <1>a DEF ApplyPrepared
    <3>2. PICK x \in SUBSET Ref : source' = [source EXCEPT !.staged = x]
      BY <1>1, <3>1 DEF ApplyPrepared
    <3> QED BY <3>2, SourceUpdates
  <2>2. op' \in OpType  BY <1>1, <2>1, OpDone DEF ApplyPrepared
  <2>3. given' \subseteq (Ref \cup {None}) \X (0 .. MaxSeal)  BY <1>1, <1>a, GiveTyped DEF ApplyPrepared
  <2> QED BY <1>1, <2>1, <2>2, <2>3 DEF ApplyPrepared
<1>2. CASE MergePrepared
  <2>1. source' \in SourceType  BY <1>2, MergeTyped DEF MergePrepared
  <2>2. op' \in OpType  BY <1>2, <2>1, OpDone DEF MergePrepared
  <2>3. given' \subseteq (Ref \cup {None}) \X (0 .. MaxSeal)  BY <1>2, <1>a, GiveTyped DEF MergePrepared
  <2> QED BY <1>2, <2>1, <2>2, <2>3 DEF MergePrepared
<1>3. CASE CancelMerge
  <2>1. source' \in SourceType  BY <1>3, MergeTyped DEF CancelMerge
  <2>2. op' \in OpType  BY <1>3, OpUpdates DEF CancelMerge
  <2>3. given' \subseteq (Ref \cup {None}) \X (0 .. MaxSeal)  BY <1>3, <1>a, GiveTyped DEF CancelMerge
  <2>4. lapsed' \subseteq Ref  BY <1>3, <1>a DEF CancelMerge, Lapse
  <2> QED BY <1>3, <2>1, <2>2, <2>3, <2>4, FaultTyped DEF CancelMerge
<1>4. CASE Refuse  BY <1>4, OpUpdates DEF Refuse, history
<1>5. CASE SaveOutcome
  <2>1. Outcome(op.hand) \in MetaType
    <3>1. /\ \A d \in Delivery : [op.hand EXCEPT !.delivery = d] \in MetaType
          /\ \A d \in Delivery, t \in TxType : [op.hand EXCEPT !.delivery = d, !.tx = t] \in MetaType
      BY <1>a, MetaUpdates
    <3>2. \/ \E d \in {"applied", "merged", "rolled_back", "rejected"} :
                Outcome(op.hand) = [op.hand EXCEPT !.delivery = d]
          \/ Outcome(op.hand) = [op.hand EXCEPT !.delivery = "ready", !.tx = NoTx]
      BY DEF Outcome
    <3>3. {"applied", "merged", "rolled_back", "rejected", "ready"} \subseteq Delivery  OBVIOUS
    <3>4. ASSUME NEW d \in Delivery, Outcome(op.hand) = [op.hand EXCEPT !.delivery = d]
          PROVE  Outcome(op.hand) \in MetaType
      BY <3>1, <3>4
    <3>5. CASE Outcome(op.hand) = [op.hand EXCEPT !.delivery = "ready", !.tx = NoTx]
      <4>1. "ready" \in Delivery /\ NoTx \in TxType  OBVIOUS
      <4>2. ASSUME NEW d \in Delivery, NEW t \in TxType
            PROVE  [op.hand EXCEPT !.delivery = d, !.tx = t] \in MetaType
        BY <3>1
      <4>3. [op.hand EXCEPT !.delivery = "ready", !.tx = NoTx] \in MetaType  BY <4>1, <4>2, Zenon
      <4> QED BY <4>3, <3>5, Zenon
    <3> QED BY <3>2, <3>3, <3>4, <3>5
  <2>2. meta' \in [Ref -> MetaType]  BY <1>5, <1>a, <2>1, MetaSlot DEF SaveOutcome
  <2> QED BY <1>5, <2>2, OpUpdates DEF SaveOutcome, history
<1>6. CASE LoseOutcome  BY <1>6, FaultTyped, OpUpdates DEF LoseOutcome, history
<1> QED BY <1>1, <1>2, <1>3, <1>4, <1>5, <1>6 DEF Mutate

(* A start.                                                                 *)
LEMMA BootTypes ==
  ASSUME TypeOK, Handed, NEW p \in Runtime, Boot(p) \/ Crash(p)
  PROVE  TypeOK'
<1> USE TypeParts, TypeAfter, Constants, Names
<1> DEFINE b == boot[p]
<1>b. b \in BootType /\ b.hand \in MetaType /\ b.todo \subseteq Ref /\ (b.pc = "save" => b.ref \in Ref)
  BY BootUpdates DEF Handed
<1>s. ASSUME NEW x \in BootType, BootStep(p, x)  PROVE boot' \in [Runtime -> BootType]
  BY <1>s DEF BootStep
<1>t. \A x \in SUBSET Ref : /\ [b EXCEPT !.todo = x] \in BootType
                            /\ [BootOff EXCEPT !.pc = "sweep", !.todo = x] \in BootType
                            /\ [b EXCEPT !.pc = "settle", !.todo = x] \in BootType
  BY <1>b, BootUpdates
<1>r. ASSUME NEW m \in MetaType
      PROVE  Reconciled(m) \in MetaType /\ Recovered(m) \in MetaType
  <2>1. Reconciled(m) \in MetaType
    <3>1. PICK d \in Delivery : Reconciled(m) = [m EXCEPT !.status = "interrupted", !.delivery = d]
      BY DEF Reconciled
    <3>2. \A x \in Status, e \in Delivery : [m EXCEPT !.status = x, !.delivery = e] \in MetaType
      BY MetaUpdates
    <3>3. "interrupted" \in Status  BY DEF Status
    <3>4. [m EXCEPT !.status = "interrupted", !.delivery = d] \in MetaType  BY <3>2, <3>3, Zenon
    <3> QED BY <3>1, <3>4
  <2>2. Recovered(m) \in MetaType
    <3>1. m.tx \in TxType /\ Tip \in Nat  BY MetaFields, SourceUpdates DEF Tip
    <3>2. [m.tx EXCEPT !.after = Tip] \in TxType  BY <3>1, TxUpdates
    <3>3. \A d \in Delivery, t \in TxType : [m EXCEPT !.delivery = d, !.tx = t] \in MetaType
      BY MetaUpdates
    <3>4. "merged" \in Delivery /\ "ready" \in Delivery /\ "acceptance_interrupted" \in Delivery
      BY DEF Delivery, Blocking, Accepted
    <3>5. [m EXCEPT !.delivery = "acceptance_interrupted"] \in MetaType  BY <3>4, MetaUpdates
    <3>6. [m EXCEPT !.delivery = "ready", !.tx = NoTx] \in MetaType  BY <3>3, <3>4, Constants, Zenon
    <3>7. [m EXCEPT !.delivery = "merged", !.tx = [m.tx EXCEPT !.after = Tip]] \in MetaType
      BY <3>2, <3>3, <3>4, Zenon
    <3> QED BY <3>5, <3>6, <3>7 DEF Recovered
  <2> QED BY <2>1, <2>2
<1> HIDE DEF b
<1>1. CASE Start(p)
  <2>1. {r \in Ref : meta[r] # NoMeta} \in SUBSET Ref  OBVIOUS
  <2>2. boot' \in [Runtime -> BootType]  BY <1>1, <1>s, <1>t, <2>1 DEF Start
  <2> QED BY <1>1, <2>2 DEF Start, history
<1>2. CASE SweepSave(p)
  <2>1. meta' \in [Ref -> MetaType]  BY <1>2, <1>b, <1>r, MetaSlot DEF SweepSave, b
  <2>2. [b EXCEPT !.pc = "sweep", !.ref = None, !.hand = NoMeta] \in BootType  BY <1>b, BootUpdates
  <2>3. boot' \in [Runtime -> BootType]  BY <1>2, <1>s, <2>2 DEF SweepSave, b
  <2>4. lapsed' \subseteq Ref  BY <1>2, <1>b DEF SweepSave, Lapse, b
  <2> QED BY <1>2, <2>1, <2>3, <2>4 DEF SweepSave
<1>3. CASE Settle(p)
  <2>1. {r \in Ref : meta[r].delivery \in Pending} \in SUBSET Ref  OBVIOUS
  <2>2. boot' \in [Runtime -> BootType]  BY <1>3, <1>s, <1>t, <2>1 DEF Settle, b
  <2> QED BY <1>3, <2>2 DEF Settle, history
<1>4. CASE Ready(p)
  <2>1. [BootOff EXCEPT !.pc = "up"] \in BootType  BY <1>b, BootUpdates
  <2>2. boot' \in [Runtime -> BootType]  BY <1>4, <1>s, <2>1 DEF Ready
  <2> QED BY <1>4, <2>2 DEF Ready, history
<1>5. ASSUME NEW r \in Ref, SweepLoad(p, r)  PROVE TypeOK'
  <2> DEFINE c == [b EXCEPT !.todo = b.todo \ {r}]
  <2>1. c \in BootType  BY <1>b, <1>t
  <2>2. [c EXCEPT !.pc = "save", !.ref = r, !.hand = meta[r]] \in BootType
    <3>1. b.todo \ {r} \in SUBSET Ref /\ meta[r] \in MetaType  BY <1>b
    <3> QED BY <1>b, <3>1, BootUpdates
  <2>3. \/ BootStep(p, c) \/ BootStep(p, [c EXCEPT !.pc = "save", !.ref = r, !.hand = meta[r]])
    BY <1>5 DEF SweepLoad, b
  <2> HIDE DEF c
  <2>4. boot' \in [Runtime -> BootType]  BY <1>s, <2>1, <2>2, <2>3
  <2> QED BY <1>5, <2>4 DEF SweepLoad, history
<1>6. ASSUME NEW r \in Ref, RecoverPending(p, r)  PROVE TypeOK'
  <2>1. [b EXCEPT !.todo = b.todo \ {r}] \in BootType  BY <1>b, <1>t
  <2>2. boot' \in [Runtime -> BootType]  BY <1>6, <1>s, <2>1 DEF RecoverPending, b
  <2>3. meta[r] \in MetaType /\ Recovered(meta[r]) \in MetaType  BY <1>r
  <2>4. meta' \in [Ref -> MetaType]  BY <1>6, <2>3, MetaSlot DEF RecoverPending
  <2> QED BY <1>6, <2>2, <2>4 DEF RecoverPending, history
<1>7. CASE Crash(p)
  <2>1. boot' \in [Runtime -> BootType]  BY <1>7, <1>s DEF Crash
  <2> QED BY <1>7, <2>1, FaultTyped, OpUpdates DEF Crash, history
<1> QED BY <1>1, <1>2, <1>3, <1>4, <1>5, <1>6, <1>7 DEF Boot

LEMMA UserTypes ==
  ASSUME TypeOK, User \/ Release \/ \E t \in Ref : LoseTree(t)
  PROVE  TypeOK'
<1> USE TypeParts, TypeAfter, Constants
<1>0. /\ source \in SourceType /\ source.log \in Seq(Commit)
      /\ source.held \cup source.staged \in SUBSET Ref
  BY SourceUpdates
<1>1. CASE UserEdit \/ UserStage \/ UserDiscard
  BY <1>1, <1>0, SourceUpdates DEF UserEdit, UserStage, UserDiscard, history
<1>2. CASE UserCommit
  <2>1. Append(source.log, Own) \in Seq(Commit)  BY <1>0, LogTyped
  <2>2. source' \in SourceType
    <3>1. \A l \in Seq(Commit), y \in SUBSET Ref :
             [log |-> l, held |-> y, staged |-> {}, edit |-> FALSE, over |-> FALSE] \in SourceType
      BY <1>0, SourceUpdates
    <3> QED BY <1>0, <1>2, <2>1, <3>1 DEF UserCommit
  <2> QED BY <1>2, <2>2 DEF UserCommit, history
<1>3. CASE Release  BY <1>3 DEF Release, history
<1>4. ASSUME NEW t \in Ref, LoseTree(t)  PROVE TypeOK'
  <2>1. tree[t] \in TreeType  OBVIOUS
  <2>2. \/ tree' = [tree EXCEPT ![t] = [tree[t] EXCEPT !.live = FALSE]]
        \/ tree' = [tree EXCEPT ![t] = [tree[t] EXCEPT !.known = FALSE]]
    BY <1>4 DEF LoseTree
  <2>3. tree' \in [Ref -> TreeType]  BY <2>1, <2>2, TreeUpdates
  <2> QED BY <1>4, <2>3, FaultTyped DEF LoseTree, history
<1> QED BY <1>1, <1>2, <1>3, <1>4 DEF User

(* Every step keeps the types.                                              *)
LEMMA TypeStep ==
  ASSUME TypeOK, SoundInv, [Next]_vars
  PROVE  TypeOK'
<1>1. Handed  BY DEF SoundInv
<1>2. CASE UNCHANGED vars  BY <1>2 DEF vars, TypeOK
<1> QED BY <1>1, <1>2, RunTypes, CallTypes, MutateTypes, BootTypes, UserTypes DEF Next

----------------------------------------------------------------------------
(* The source only grows, and what is new in it was given or is the user's. *)

(* A commit of the user names no worktree commit.                           *)
LEMMA OwnIsNotGiven == Own[2] = 0
BY DEF Own

(* A rollback of an apply finds the head where it left it.                  *)
LEMMA ApplyMovesNoHead ==
  ASSUME TypeOK, SoundInv, NEW p \in Runtime, NEW r \in Ref, Rollback(p, r),
         meta[r].tx.kind = "apply"
  PROVE  source'.log = source.log
<1>1. source \in SourceType /\ meta[r] \in MetaType  BY TypeParts
<1>2. source.log \in Seq(Commit) /\ Tip \in Nat  BY <1>1, SourceUpdates DEF Tip
<1>3. meta[r].tx.before \in Nat  BY <1>1, MetaFields
<1>4. Tip >= 1 /\ meta[r].tx.after \in {0, meta[r].tx.before} /\ Tip = meta[r].tx.after
  BY DEF SoundInv, LogGiven, AllSound, Sound, Rollback
<1>5. meta[r].tx.before = Len(source.log)  BY <1>2, <1>3, <1>4 DEF Tip
<1>6. SubSeq(source.log, 1, Len(source.log)) = source.log  BY <1>2, SubSeqFull
<1>7. source' = [source EXCEPT !.log = SubSeq(source.log, 1, meta[r].tx.before), !.staged = {},
                               !.edit = FALSE, !.over = FALSE]
  BY DEF Rollback
<1> QED BY <1>1, <1>5, <1>6, <1>7 DEF SourceType

(* The log of the source is as it was or one commit longer, and that commit *)
(* was given or is the user's.                                              *)
Grown == \/ source'.log = source.log
         \/ \E c \in Commit : /\ source'.log = Append(source.log, c)
                              /\ c[2] > 0 => <<c[1], c[2]>> \in given'

(* A merge adds at most the delivery in hand.                               *)
LEMMA MergeGrows ==
  ASSUME TypeOK, Handed, op.pc = "intent", Merge(op.hand), Give(op.hand)
  PROVE  Grown
<1>1. op.hand \in MetaType /\ op.ref \in Ref /\ source \in SourceType  BY TypeParts DEF OpType, Handed
<1> DEFINE c == <<op.hand.tree, op.hand.commit, op.ref>>
<1>2. c \in Commit  BY <1>1, MetaFields, CommitTyped
<1>3. source'.log = source.log \/ source'.log = Append(source.log, c)
  BY <1>1 DEF Merge, SourceType
<1>4. <<c[1], c[2]>> \in given'  BY DEF Give
<1> QED BY <1>2, <1>3, <1>4 DEF Grown

(* No step takes a commit from the source, nor a name from the histories.   *)
LEMMA SourceGrows ==
  ASSUME TypeOK, SoundInv, [Next]_vars
  PROVE  Grown /\ given \subseteq given' /\ lapsed \subseteq lapsed'
<1> USE DEF history, Lapse
<1>h. Handed /\ source \in SourceType /\ Own \in Commit  BY TypeParts, CommitTyped DEF SoundInv
<1>1. ASSUME NEW r \in Ref, Run(r) \/ LoseTree(r)
      PROVE  source' = source /\ given' = given /\ lapsed' = lapsed
  BY <1>1 DEF Run, MarkRunning, BeginRun, AbortPreparation, Work, SaveRunning, EndRun, Seal,
              SaveCompleted, SaveFailed, LoseRecord, LoseTree
<1>2. ASSUME NEW p \in Runtime, Boot(p) \/ Crash(p)
      PROVE  source' = source /\ given' = given /\ lapsed \subseteq lapsed'
  BY <1>2 DEF Boot, Start, SweepSave, Settle, Ready, SweepLoad, RecoverPending, Crash
<1>3. ASSUME NEW p \in Runtime, Call(p)
      PROVE  Grown /\ given' = given /\ lapsed \subseteq lapsed'
  <2>1. ASSUME NEW r \in Ref, Rollback(p, r)
        PROVE  Grown /\ given' = given /\ lapsed \subseteq lapsed'
    <3>1. given' = given /\ lapsed' = lapsed  BY <2>1 DEF Rollback
    <3>2. CASE meta[r].tx.kind = "apply"  BY <2>1, <3>1, <3>2, ApplyMovesNoHead DEF Grown
    <3>3. CASE meta[r].tx.kind # "apply"
      <4>1. source'.log = Append(source.log, Own)  BY <2>1, <3>3, <1>h DEF Rollback, SourceType
      <4> QED BY <3>1, <4>1, <1>h, OwnIsNotGiven DEF Grown
    <3> QED BY <3>2, <3>3
  <2>2. CASE \E s \in Session, r \in Ref : PrepareFresh(p, s, r)
    BY <2>2 DEF PrepareFresh, Grown
  <2>3. CASE \E s \in Session, a, r \in Ref : PrepareContinue(p, a, s, r)
    BY <2>3 DEF PrepareContinue, Grown
  <2>4. CASE \E r \in Ref, kind \in {"apply", "merge"} : Accept(p, r, kind)
    BY <2>4 DEF Accept, Grown
  <2>5. CASE \E r \in Ref : Reject(p, r)  BY <2>5 DEF Reject, Grown
  <2> QED BY <1>3, <2>1, <2>2, <2>3, <2>4, <2>5 DEF Call
<1>4. ASSUME Mutate
      PROVE  Grown /\ given \subseteq given' /\ lapsed \subseteq lapsed'
  <2>1. CASE ApplyPrepared
    BY <2>1, <1>h DEF ApplyPrepared, Grown, SourceType, Give
  <2>2. CASE MergePrepared  BY <2>2, <1>h, MergeGrows DEF MergePrepared, Give
  <2>3. CASE CancelMerge  BY <2>3, <1>h, MergeGrows DEF CancelMerge, Give
  <2>4. CASE Refuse \/ SaveOutcome \/ LoseOutcome
    BY <2>4 DEF Refuse, SaveOutcome, LoseOutcome, Grown
  <2> QED BY <1>4, <2>1, <2>2, <2>3, <2>4 DEF Mutate
<1>5. ASSUME User \/ Release
      PROVE  Grown /\ given' = given /\ lapsed' = lapsed
  <2>1. CASE UserCommit
    <3>1. source'.log = Append(source.log, Own) /\ given' = given /\ lapsed' = lapsed
      BY <2>1 DEF UserCommit
    <3> QED BY <3>1, <1>h, OwnIsNotGiven DEF Grown
  <2>2. CASE UserEdit \/ UserStage \/ UserDiscard \/ Release
    BY <2>2, <1>h DEF UserEdit, UserStage, UserDiscard, Release, Grown, SourceType
  <2> QED BY <1>5, <2>1, <2>2 DEF User
<1>6. CASE UNCHANGED vars  BY <1>6 DEF vars, Grown
<1>7. ASSUME source' = source PROVE Grown  BY <1>7 DEF Grown
<1> QED BY <1>1, <1>2, <1>3, <1>4, <1>5, <1>6, <1>7 DEF Next

(* So the log of what was given stays true.                                 *)
LEMMA LogGrows ==
  ASSUME TypeOK, SoundInv, Grown, given \subseteq given'
  PROVE  /\ LogGiven' /\ Tip \in Nat /\ Tip' \in Nat /\ Tip <= Tip'
         /\ \A i \in 1 .. Tip : source'.log[i] = source.log[i]
<1>1. source.log \in Seq(Commit) /\ Tip \in Nat /\ Tip >= 1
  BY TypeParts, SourceUpdates DEF SoundInv, LogGiven, Tip
<1>2. \A i \in 1 .. Tip : source.log[i][2] > 0 => <<source.log[i][1], source.log[i][2]>> \in given
  BY DEF SoundInv, LogGiven
<1>3. CASE source'.log = source.log  BY <1>1, <1>2, <1>3 DEF LogGiven, Tip
<1>4. ASSUME NEW c \in Commit, source'.log = Append(source.log, c),
             c[2] > 0 => <<c[1], c[2]>> \in given'
      PROVE  /\ LogGiven' /\ Tip' \in Nat /\ Tip <= Tip'
             /\ \A i \in 1 .. Tip : source'.log[i] = source.log[i]
  <2>1. Tip' = Tip + 1  BY <1>1, <1>4, AppendProperties DEF Tip
  <2>2. \A i \in 1 .. Tip : source'.log[i] = source.log[i]  BY <1>1, <1>4, AppendProperties DEF Tip
  <2>3. source'.log[Tip + 1] = c  BY <1>1, <1>4, AppendProperties DEF Tip
  <2>4. \A i \in 1 .. Tip + 1 : source'.log[i][2] > 0 => <<source'.log[i][1], source'.log[i][2]>> \in given'
    <3> TAKE i \in 1 .. Tip + 1
    <3>1. CASE i = Tip + 1  BY <1>4, <2>3, <3>1
    <3>2. CASE i \in 1 .. Tip  BY <1>2, <2>2, <3>2
    <3> QED BY <1>1, <3>1, <3>2
  <2> QED BY <1>1, <2>1, <2>2, <2>4 DEF LogGiven
<1> QED BY <1>1, <1>3, <1>4 DEF Grown, Tip

----------------------------------------------------------------------------
(* What is in hand or on record stays sound.                                *)

(* A longer log and more given commits do a record no harm.                 *)
LEMMA SoundGrows ==
  ASSUME NEW m \in MetaType, NEW tip \in Nat, NEW t \in Nat, tip <= t,
         NEW g, NEW h, g \subseteq h, Sound(m, tip, g)
  PROVE  Sound(m, t, h)
<1>1. m.tx.before \in Nat  BY MetaFields
<1> QED BY <1>1 DEF Sound

(* A new record claims nothing.                                             *)
LEMMA SoundNew ==
  ASSUME NEW tip \in Nat, NEW g
  PROVE  /\ Sound(NoMeta, tip, g)
         /\ \A s, a, t : t # None => Sound(NewMeta(s, a, t), tip, g)
<1>1. NoTx.before = 0 /\ NoTx.kind = "none"  BY DEF NoTx
<1>2. NoMeta.tx = NoTx /\ NoMeta.delivery = "none"  BY DEF NoMeta
<1>3. Sound(NoMeta, tip, g)  BY <1>1, <1>2 DEF Sound, Pending, Accepted
<1>4. ASSUME NEW s, NEW a, NEW t, t # None  PROVE Sound(NewMeta(s, a, t), tip, g)
  <2>1. /\ NewMeta(s, a, t).tx = NoTx /\ NewMeta(s, a, t).delivery = "active"
        /\ NewMeta(s, a, t).tree = t
    BY DEF NewMeta, NoMeta
  <2> QED BY <1>1, <1>4, <2>1 DEF Sound, Pending, Accepted
<1> QED BY <1>3, <1>4

(* The updates that the code makes claim nothing that did not happen.       *)
LEMMA SoundUpdates ==
  ASSUME NEW m \in MetaType, NEW tip \in Nat, NEW g, Sound(m, tip, g), m.tree # None
  PROVE  /\ \A x : Sound([m EXCEPT !.status = x], tip, g)
         /\ \A x, d : d \notin Pending \cup Accepted =>
               /\ Sound([m EXCEPT !.delivery = d], tip, g)
               /\ Sound([m EXCEPT !.status = x, !.delivery = d], tip, g)
               /\ Sound([m EXCEPT !.commit = x, !.delivery = d], tip, g)
               /\ Sound([m EXCEPT !.delivery = d, !.tx = NoTx], tip, g)
         /\ \A d, kind : m.commit > 0 /\ d \in Pending =>
               Sound([m EXCEPT !.delivery = d, !.tx = [NoTx EXCEPT !.kind = kind, !.before = tip]], tip, g)
         /\ \A d : <<m.tree, m.commit>> \in g /\ d \in Accepted => Sound([m EXCEPT !.delivery = d], tip, g)
         /\ \A n, x : (m.tx.kind = "apply" => n = m.tx.before) =>
               Sound([m EXCEPT !.tx = [m.tx EXCEPT !.after = n, !.staged = x]], tip, g)
         /\ \A n : m.tx.kind # "apply" /\ <<m.tree, m.commit>> \in g =>
               Sound([m EXCEPT !.delivery = "merged", !.tx = [m.tx EXCEPT !.after = n]], tip, g)
<1>1. m.tx \in TxType /\ m.tx.before \in Nat  BY MetaFields
<1>2. Pending \cap Accepted = {} /\ "merged" \in Accepted  BY DEF Pending, Accepted
<1>3. NoTx.before = 0 /\ NoTx.kind = "none" /\ NoTx.after = 0  BY DEF NoTx
<1>4. \A x : Sound([m EXCEPT !.status = x], tip, g)  BY DEF Sound, MetaType
<1>5. \A x, d : d \notin Pending \cup Accepted =>
         /\ Sound([m EXCEPT !.delivery = d], tip, g)
         /\ Sound([m EXCEPT !.status = x, !.delivery = d], tip, g)
         /\ Sound([m EXCEPT !.commit = x, !.delivery = d], tip, g)
  BY DEF Sound, MetaType
<1>6. \A d : d \notin Pending \cup Accepted => Sound([m EXCEPT !.delivery = d, !.tx = NoTx], tip, g)
  BY <1>3 DEF Sound, MetaType
<1>7. ASSUME NEW d \in Pending, NEW kind, m.commit > 0
      PROVE  Sound([m EXCEPT !.delivery = d, !.tx = [NoTx EXCEPT !.kind = kind, !.before = tip]], tip, g)
  <2> DEFINE t == [NoTx EXCEPT !.kind = kind, !.before = tip]
             x == [m EXCEPT !.delivery = d, !.tx = t]
  <2>1. t.before = tip /\ t.after = 0  BY DEF NoTx
  <2> HIDE DEF t
  <2>2. x.tx = t /\ x.delivery = d /\ x.commit = m.commit /\ x.tree = m.tree  BY DEF MetaType
  <2> HIDE DEF x
  <2>3. Sound(x, tip, g)  BY <1>2, <1>7, <2>1, <2>2 DEF Sound
  <2> QED BY <2>3 DEF x, t
<1>8. \A d : <<m.tree, m.commit>> \in g /\ d \in Accepted => Sound([m EXCEPT !.delivery = d], tip, g)
  BY <1>2 DEF Sound, MetaType
<1>9. ASSUME NEW n, NEW x, m.tx.kind = "apply" => n = m.tx.before
      PROVE  Sound([m EXCEPT !.tx = [m.tx EXCEPT !.after = n, !.staged = x]], tip, g)
  BY <1>1, <1>9 DEF Sound, MetaType, TxType
<1>10. ASSUME NEW n, m.tx.kind # "apply", <<m.tree, m.commit>> \in g
       PROVE  Sound([m EXCEPT !.delivery = "merged", !.tx = [m.tx EXCEPT !.after = n]], tip, g)
  BY <1>1, <1>2, <1>10 DEF Sound, MetaType, TxType
<1> QED BY <1>4, <1>5, <1>6, <1>7, <1>8, <1>9, <1>10

(* Sound, for the next state.                                               *)
Good(m) == Sound(m, Tip', given')

(* The four kinds of records, in the next state.                            *)
LEMMA AllGood ==
  ASSUME TypeOK,
         \A r \in Ref : Good(meta'[r]) /\ Good(run'[r].hand),
         Good(op'.hand), \A p \in Runtime : Good(boot'[p].hand)
  PROVE  AllSound'
BY DEF AllSound, Good, Sound, Tip

(* What was sound before the step is sound after it.                        *)
LEMMA StillGood ==
  ASSUME TypeOK, SoundInv, [Next]_vars
  PROVE  /\ \A r \in Ref : Good(meta[r]) /\ Good(run[r].hand)
         /\ Good(op.hand) /\ \A p \in Runtime : Good(boot[p].hand)
         /\ Good(NoMeta) /\ Tip' \in Nat
<1>1. Tip \in Nat /\ Tip' \in Nat /\ Tip <= Tip' /\ given \subseteq given'
  BY SourceGrows, LogGrows
<1>2. \A m \in MetaType : Sound(m, Tip, given) => Good(m)  BY <1>1, SoundGrows DEF Good
<1>3. /\ \A r \in Ref : meta[r] \in MetaType /\ run[r].hand \in MetaType
      /\ op.hand \in MetaType /\ \A p \in Runtime : boot[p].hand \in MetaType
  BY TypeParts, RunUpdates, BootUpdates DEF OpType
<1>4. Good(NoMeta)  BY <1>1, SoundNew DEF Good
<1> QED BY <1>1, <1>2, <1>3, <1>4 DEF SoundInv, AllSound

(* A step keeps the four kinds of records good, or replaces one of them.    *)
LEMMA GoodSlots ==
  ASSUME TypeOK, SoundInv, [Next]_vars
  PROVE  /\ meta' = meta => \A r \in Ref : Good(meta'[r])
         /\ \A r \in Ref : \A m : Publish(r, m) /\ Good(m) => \A q \in Ref : Good(meta'[q])
         /\ run' = run => \A r \in Ref : Good(run'[r].hand)
         /\ \A r \in Ref : \A x : run' = [run EXCEPT ![r] = x] /\ Good(x.hand) => \A q \in Ref : Good(run'[q].hand)
         /\ op' = op => Good(op'.hand)
         /\ op' = OpOff => Good(op'.hand)
         /\ boot' = boot => \A p \in Runtime : Good(boot'[p].hand)
         /\ \A p \in Runtime : \A b : BootStep(p, b) /\ Good(b.hand) => \A q \in Runtime : Good(boot'[q].hand)
<1>1. /\ \A r \in Ref : Good(meta[r]) /\ Good(run[r].hand)
      /\ Good(op.hand) /\ (\A p \in Runtime : Good(boot[p].hand)) /\ Good(NoMeta)
  BY StillGood
<1>2. \A r \in Ref : \A m : Publish(r, m) /\ Good(m) => \A q \in Ref : Good(meta'[q])
  BY <1>1, TypeParts DEF Publish
<1>3. \A r \in Ref : \A x : run' = [run EXCEPT ![r] = x] /\ Good(x.hand) => \A q \in Ref : Good(run'[q].hand)
  BY <1>1, TypeParts
<1>4. op' = OpOff => Good(op'.hand)  BY <1>1 DEF OpOff
<1>5. \A p \in Runtime : \A b : BootStep(p, b) /\ Good(b.hand) => \A q \in Runtime : Good(boot'[q].hand)
  BY <1>1, TypeParts DEF BootStep
<1> QED BY <1>1, <1>2, <1>3, <1>4, <1>5

(* The updates of the code keep a record good.                              *)
LEMMA GoodUpdates ==
  ASSUME NEW m \in MetaType, Good(m), m.tree # None, Tip' \in Nat
  PROVE  /\ \A x : Good([m EXCEPT !.status = x])
         /\ \A x, d : d \notin Pending \cup Accepted =>
               /\ Good([m EXCEPT !.delivery = d])
               /\ Good([m EXCEPT !.status = x, !.delivery = d])
               /\ Good([m EXCEPT !.commit = x, !.delivery = d])
               /\ Good([m EXCEPT !.delivery = d, !.tx = NoTx])
         /\ \A d, kind : m.commit > 0 /\ d \in Pending =>
               Good([m EXCEPT !.delivery = d, !.tx = [NoTx EXCEPT !.kind = kind, !.before = Tip']])
         /\ \A d : <<m.tree, m.commit>> \in given' /\ d \in Accepted => Good([m EXCEPT !.delivery = d])
         /\ \A n, x : (m.tx.kind = "apply" => n = m.tx.before) =>
               Good([m EXCEPT !.tx = [m.tx EXCEPT !.after = n, !.staged = x]])
         /\ \A n : m.tx.kind # "apply" /\ <<m.tree, m.commit>> \in given' =>
               Good([m EXCEPT !.delivery = "merged", !.tx = [m.tx EXCEPT !.after = n]])
BY SoundUpdates DEF Good

(* The run of r ends, or goes on with a sound record that has a worktree.   *)
KeepsGood(r) ==
    \E x : run' = [run EXCEPT ![r] = x] /\ Good(x.hand) /\ (x.pc # "off" => x.hand.tree \in Ref)

(* A run keeps the records sound ...                                        *)
LEMMA RunSound ==
  ASSUME TypeOK, SoundInv, [Next]_vars, NEW r \in Ref, Run(r)
  PROVE  AllSound' /\ Handed'
<1> DEFINE m == run[r].hand
<1>u. op' = op /\ boot' = boot /\ given' = given
  BY DEF Run, MarkRunning, BeginRun, AbortPreparation, Work, SaveRunning, EndRun, Seal,
         SaveCompleted, SaveFailed, LoseRecord, history
<1>o. run[r].pc # "off"
  BY DEF Run, MarkRunning, BeginRun, AbortPreparation, Work, SaveRunning, EndRun, Seal,
         SaveCompleted, SaveFailed, LoseRecord
<1>m. m \in MetaType /\ m.tree \in Ref /\ op.ref # r /\ run \in [Ref -> RunType] /\ run[r] \in RunType
  BY <1>o, TypeParts, RunUpdates DEF SoundInv, Handed
<1>n. m.tree # None  BY <1>m, DeliveryAssumption
<1>g. Good(m) /\ Good(NoMeta) /\ Tip' \in Nat  BY StillGood
<1>p. {"failed", "interrupted", "empty", "ready"} \cap (Pending \cup Accepted) = {}
  BY DEF Pending, Accepted
<1>w. /\ \A x : Good([m EXCEPT !.status = x])
      /\ \A x \in {"failed", "interrupted"} : Good([m EXCEPT !.status = x, !.delivery = x])
      /\ \A c : \A d \in {"empty", "ready"} : Good([m EXCEPT !.commit = c, !.delivery = d])
  BY <1>g, <1>m, <1>n, <1>p, GoodUpdates
<1>r. RunOff.pc = "off" /\ RunOff.hand = NoMeta  BY DEF RunOff
<1> HIDE DEF m
(* What the run keeps in hand is good and has a worktree.                   *)
<1>k. KeepsGood(r)
  <2> USE DEF KeepsGood
  <2>0. ASSUME run' = [run EXCEPT ![r] = RunOff] PROVE KeepsGood(r)
    BY <2>0, <1>g, <1>r
  <2>1. CASE MarkRunning(r)
    <3> DEFINE x == [run[r] EXCEPT !.pc = "marked", !.hand = [m EXCEPT !.status = "running"]]
    <3>1. run' = [run EXCEPT ![r] = x]  BY <2>1 DEF MarkRunning, m
    <3>2. x.hand = [m EXCEPT !.status = "running"] /\ x.hand.tree = m.tree
      BY <1>m DEF RunType, MetaType
    <3>3. Good(x.hand) /\ x.hand.tree \in Ref  BY <1>m, <1>w, <3>2
    <3> HIDE DEF x
    <3> QED BY <3>1, <3>3
  <2>2. CASE BeginRun(r) \/ Work(r) \/ EndRun(r)
    <3>1. \E x : run' = [run EXCEPT ![r] = x] /\ x.hand = m
      BY <2>2, <1>m DEF BeginRun, Enter, Work, EndRun, RunType, m
    <3> QED BY <1>g, <1>m, <3>1
  <2>3. CASE AbortPreparation(r)  BY <2>3, <2>0 DEF AbortPreparation, SaveEnded
  <2>4. CASE SaveRunning(r)
    <3>1. run' = [run EXCEPT ![r] = run[r]]  BY <2>4, <1>m DEF SaveRunning
    <3> QED BY <1>g, <1>m, <3>1 DEF m
  <2>5. CASE Seal(r)
    <3>1. PICK c, d :
          /\ d \in {"empty", "ready"}
          /\ run' = [run EXCEPT ![r] = [run[r] EXCEPT !.pc = "sealed",
                                            !.hand = [m EXCEPT !.commit = c, !.delivery = d]]]
      <4> DEFINE t == m.tree
                 c == IF tree[t].dirty /\ tree[t].head < MaxSeal THEN tree[t].head + 1 ELSE tree[t].head
                 d == IF c = 0 THEN "empty" ELSE "ready"
      <4>1. run' = [run EXCEPT ![r] = [run[r] EXCEPT !.pc = "sealed",
                                            !.hand = [m EXCEPT !.commit = c, !.delivery = d]]]
        BY <2>5 DEF Seal, m
      <4>2. d \in {"empty", "ready"}  OBVIOUS
      <4> HIDE DEF c, d
      <4> QED BY <4>1, <4>2
    <3> DEFINE x == [run[r] EXCEPT !.pc = "sealed", !.hand = [m EXCEPT !.commit = c, !.delivery = d]]
    <3>2. x.hand = [m EXCEPT !.commit = c, !.delivery = d] /\ x.hand.tree = m.tree
      BY <1>m DEF RunType, MetaType
    <3>3. Good([m EXCEPT !.commit = c, !.delivery = d])  BY <1>w, <3>1, Zenon
    <3>4. Good(x.hand) /\ x.hand.tree \in Ref  BY <1>m, <3>2, <3>3
    <3>5. run' = [run EXCEPT ![r] = x]  BY <3>1
    <3> HIDE DEF x
    <3> QED BY <3>4, <3>5
  <2>6. CASE SaveCompleted(r)  BY <2>6, <2>0 DEF SaveCompleted
  <2>7. CASE SaveFailed(r)  BY <2>7, <2>0 DEF SaveFailed, SaveEnded
  <2>8. CASE LoseRecord(r)  BY <2>8, <2>0 DEF LoseRecord
  <2> QED BY <2>1, <2>2, <2>3, <2>4, <2>5, <2>6, <2>7, <2>8 DEF Run
(* And so is what it puts on record.                                        *)
<1>l. meta' = meta \/ \E x : Publish(r, x) /\ Good(x)
  <2>1. CASE AbortPreparation(r)  BY <2>1, <1>g, <1>w DEF AbortPreparation, SaveEnded, m
  <2>2. CASE MarkRunning(r)  BY <2>2, <1>w DEF MarkRunning, m
  <2>3. CASE SaveRunning(r)  BY <2>3, <1>g DEF SaveRunning, m
  <2>4. CASE SaveCompleted(r)  BY <2>4, <1>w DEF SaveCompleted, m
  <2>5. CASE SaveFailed(r)  BY <2>5, <1>w DEF SaveFailed, SaveEnded, m
  <2>6. CASE BeginRun(r) \/ Work(r) \/ EndRun(r) \/ Seal(r) \/ LoseRecord(r)
    BY <2>6 DEF BeginRun, Work, EndRun, Seal, LoseRecord
  <2> QED BY <2>1, <2>2, <2>3, <2>4, <2>5, <2>6 DEF Run
<1>1. AllSound'
  <2>1. \A q \in Ref : Good(meta'[q])  BY <1>l, GoodSlots
  <2>2. \A q \in Ref : Good(run'[q].hand)  BY <1>k, GoodSlots DEF KeepsGood
  <2>3. Good(op'.hand) /\ \A p \in Runtime : Good(boot'[p].hand)  BY <1>u, GoodSlots
  <2> QED BY <2>1, <2>2, <2>3, AllGood
<1>2. Handed'
  <2>1. \A q \in Ref : run'[q].pc # "off" => run'[q].hand.tree \in Ref /\ op'.ref # q
    BY <1>k, <1>m, <1>u DEF SoundInv, Handed, KeepsGood
  <2> QED BY <1>u, <2>1 DEF SoundInv, Handed
<1> QED BY <1>1, <1>2

(* A record names a worktree.                                               *)
LEMMA RecordHasTree ==
  ASSUME TypeOK, SoundInv, NEW r \in Ref, meta[r] # NoMeta
  PROVE  meta[r].tree \in Ref
BY TypeParts, MetaFields DEF SoundInv, AllSound, Sound

(* ... a call does ...                                                      *)
LEMMA CallSound ==
  ASSUME TypeOK, SoundInv, [Next]_vars, NEW p \in Runtime, Call(p)
  PROVE  AllSound' /\ Handed'
<1>u. boot' = boot /\ given' = given
  BY DEF Call, PrepareFresh, PrepareContinue, Accept, Rollback, Reject, history
<1>o. op.pc = "none"
  BY DEF Call, PrepareFresh, PrepareContinue, Accept, Rollback, Reject, Lease
<1>g. /\ \A q \in Ref : Good(meta[q]) /\ Good(run[q].hand)
      /\ Good(op.hand) /\ \A q \in Runtime : Good(boot[q].hand)
      /\ Tip' \in Nat
  BY StillGood
<1>m. \A q \in Ref : meta[q] \in MetaType /\ (meta[q] # NoMeta => meta[q].tree \in Ref)
  BY TypeParts, RecordHasTree
<1>h. Handed  BY DEF SoundInv
<1>z. NoMeta.delivery = "none"  BY DEF NoMeta
(* A run that is prepared.                                                  *)
<1>p. ASSUME NEW r \in Ref, NEW m, NEW f, Prepare(r, m, f), Free(r), Good(m), m.tree \in Ref,
             op' = op, meta' = meta
      PROVE  AllSound' /\ Handed'
  <2> DEFINE x == [pc |-> "prepared", fresh |-> f, wrote |-> FALSE, hand |-> m]
  <2>1. run' = [run EXCEPT ![r] = x]  BY <1>p DEF Prepare
  <2>2. x.hand = m  OBVIOUS
  <2> HIDE DEF x
  <2>3. \A q \in Ref : Good(run'[q].hand)  BY <1>p, <2>1, <2>2, GoodSlots
  <2>4. AllSound'  BY <1>p, <1>u, <2>3, GoodSlots, AllGood
  <2>5. \A q \in Ref : run'[q].pc # "off" => run'[q].hand.tree \in Ref /\ op'.ref # q
    BY <1>p, <1>h, <2>1, <2>2, TypeParts DEF Handed, Free
  <2> QED BY <1>h, <1>p, <1>u, <2>4, <2>5 DEF Handed
(* A delivery that is taken in hand.                                        *)
<1>t. ASSUME NEW r \in Ref, NEW m, NEW pc \in {"intent", "undone", "removed"}, Holding(r, m, pc),
             Free(r), Good(m), m.tree \in Ref, pc = "intent" => m.delivery \in Pending,
             meta' = meta \/ Publish(r, m), run' = run
      PROVE  AllSound' /\ Handed'
  <2>1. op'.hand = m /\ op'.ref = r /\ op'.pc = pc  BY <1>t DEF Holding
  <2>2. \A q \in Ref : Good(meta'[q])  BY <1>t, GoodSlots
  <2>3. AllSound'  BY <1>t, <1>u, <2>1, <2>2, GoodSlots, AllGood
  <2> QED BY <1>h, <1>t, <1>u, <2>1, <2>3 DEF Handed, Free
<1>1. ASSUME NEW s \in Session, NEW r \in Ref, PrepareFresh(p, s, r)  PROVE AllSound' /\ Handed'
  <2>1. NewMeta(s, None, r).tree = r  BY DEF NewMeta, NoMeta
  <2>2. Good(NewMeta(s, None, r))  BY <1>g, SoundNew, DeliveryAssumption DEF Good
  <2> QED BY <1>1, <1>p, <2>1, <2>2 DEF PrepareFresh
<1>2. ASSUME NEW s \in Session, NEW a \in Ref, NEW r \in Ref, PrepareContinue(p, a, s, r)
      PROVE  AllSound' /\ Handed'
  <2> DEFINE m == IF meta[r] = NoMeta THEN NewMeta(s, a, meta[a].tree) ELSE meta[r]
  <2>1. meta[a].tree \in Ref  BY <1>2, <1>m DEF PrepareContinue, MayContinue
  <2>2. NewMeta(s, a, meta[a].tree).tree = meta[a].tree  BY DEF NewMeta, NoMeta
  <2>3. Good(m) /\ m.tree \in Ref
    BY <1>g, <1>m, <2>1, <2>2, SoundNew, DeliveryAssumption DEF Good
  <2>4. Prepare(r, m, FALSE) /\ Free(r) /\ op' = op /\ meta' = meta
    BY <1>2 DEF PrepareContinue, Resolves, Continuable
  <2> HIDE DEF m
  <2> QED BY <1>p, <2>3, <2>4
<1>3. ASSUME NEW r \in Ref, NEW kind \in {"apply", "merge"}, Accept(p, r, kind)
      PROVE  AllSound' /\ Handed'
  <2> DEFINE d == IF kind = "apply" THEN "applying" ELSE "merging"
             m == [meta[r] EXCEPT !.delivery = d, !.tx = [NoTx EXCEPT !.kind = kind, !.before = Tip]]
  <2>1. Tip' = Tip  BY <1>3 DEF Accept, Tip
  <2>2. meta[r].tree \in Ref /\ meta[r].commit > 0  BY <1>3, <1>m, <1>z DEF Accept, Deliverable
  <2>3. d \in Pending  BY DEF Pending
  <2>4. Good(m)
    <3>1. ASSUME NEW e \in Pending, NEW k
          PROVE  Good([meta[r] EXCEPT !.delivery = e, !.tx = [NoTx EXCEPT !.kind = k, !.before = Tip']])
      BY <1>g, <1>m, <2>2, GoodUpdates, DeliveryAssumption
    <3> HIDE DEF d
    <3> QED BY <2>1, <2>3, <3>1
  <2>5. m.tree \in Ref /\ m.delivery = d  BY <1>m, <2>2 DEF MetaType
  <2>6. Publish(r, m) /\ Holding(r, m, "intent") /\ Free(r) /\ run' = run  BY <1>3 DEF Accept
  <2> HIDE DEF m, d
  <2> QED BY <1>t, <2>3, <2>4, <2>5, <2>6
<1>4. ASSUME NEW r \in Ref, Rollback(p, r)  PROVE AllSound' /\ Handed'
  <2>1. meta[r] # NoMeta  BY <1>4, <1>z DEF Rollback, Accepted
  <2>2. Holding(r, meta[r], "undone") /\ Free(r) /\ meta' = meta /\ run' = run  BY <1>4 DEF Rollback
  <2> QED BY <1>g, <1>m, <1>t, <2>1, <2>2
<1>5. ASSUME NEW r \in Ref, Reject(p, r)  PROVE AllSound' /\ Handed'
  <2>1. Holding(r, meta[r], "removed") /\ Free(r) /\ meta' = meta /\ run' = run /\ meta[r] # NoMeta
    BY <1>5 DEF Reject
  <2> QED BY <1>g, <1>m, <1>t, <2>1
<1> QED BY <1>1, <1>2, <1>3, <1>4, <1>5 DEF Call

(* ... so does the delivery in hand ...                                     *)
LEMMA MutateSound ==
  ASSUME TypeOK, SoundInv, [Next]_vars, Mutate
  PROVE  AllSound' /\ Handed'
<1> DEFINE m == op.hand
<1>u. boot' = boot /\ run' = run /\ given \subseteq given'
  <2>1. boot' = boot /\ run' = run
    BY DEF Mutate, ApplyPrepared, MergePrepared, CancelMerge, Refuse, SaveOutcome, LoseOutcome
  <2> QED BY <2>1, SourceGrows
<1>h. Handed  BY DEF SoundInv
<1>g. Good(m) /\ Good(NoMeta) /\ Tip' \in Nat /\ \A q \in Ref : Good(meta[q])  BY StillGood
<1>m. /\ op \in OpType /\ m \in MetaType
      /\ op.pc # "none" /\ op.ref \in Ref /\ m.tree \in Ref /\ m.tree # None
  <2>1. op \in OpType /\ m \in MetaType  BY TypeParts DEF OpType
  <2>2. op.pc # "none"
    BY DEF Mutate, ApplyPrepared, MergePrepared, CancelMerge, Refuse, SaveOutcome, LoseOutcome
  <2> QED BY <1>h, <2>1, <2>2, DeliveryAssumption DEF Handed
<1> HIDE DEF m
(* The source is changed.                                                   *)
<1>d. ASSUME Done(source'), Give(m), meta' = meta, op.pc = "intent",
             m.tx.kind = "apply" => Len(source'.log) = m.tx.before
      PROVE  AllSound' /\ Handed'
  <2> DEFINE x == [m EXCEPT !.tx = [m.tx EXCEPT !.after = Len(source'.log), !.staged = source'.staged]]
  <2>1. op' = [op EXCEPT !.pc = "changed", !.hand = x]  BY <1>d DEF Done, m
  <2>2. Good(x)  BY <1>d, <1>g, <1>m, GoodUpdates
  <2>3. x.tree = m.tree /\ x.commit = m.commit  BY <1>m DEF MetaType
  <2> HIDE DEF x
  <2>4. op'.hand = x /\ op'.pc = "changed" /\ op'.ref = op.ref  BY <1>m, <2>1 DEF OpType
  <2>5. <<m.tree, m.commit>> \in given'  BY <1>d DEF Give
  <2>6. AllSound'  BY <1>d, <1>u, <2>2, <2>4, GoodSlots, AllGood
  <2> QED BY <1>h, <1>m, <1>u, <2>3, <2>4, <2>5, <2>6 DEF Handed
<1>1. CASE ApplyPrepared
  <2>1. Len(source'.log) = m.tx.before
    BY <1>1, TypeParts DEF ApplyPrepared, Prepared, Tip, SourceType, m
  <2> QED BY <1>1, <1>d, <2>1 DEF ApplyPrepared, m
<1>2. CASE MergePrepared  BY <1>2, <1>d DEF MergePrepared, m
<1>3. CASE CancelMerge \/ Refuse
  <2>1. op' = [op EXCEPT !.pc = "refused"] /\ meta' = meta  BY <1>3 DEF CancelMerge, Refuse
  <2>2. op'.pc = "refused" /\ op'.ref = op.ref /\ op'.hand = m  BY <1>m, <2>1 DEF OpType, m
  <2>3. AllSound'  BY <1>g, <1>u, <2>1, <2>2, GoodSlots, AllGood
  <2> QED BY <1>h, <1>m, <1>u, <2>2, <2>3 DEF Handed
<1>4. CASE SaveOutcome \/ LoseOutcome
  <2>1. op' = OpOff  BY <1>4 DEF SaveOutcome, LoseOutcome
  <2>2. meta' = meta \/ Publish(op.ref, Outcome(m))  BY <1>4 DEF SaveOutcome, LoseOutcome, m
  <2>3. op.pc = "changed" => <<m.tree, m.commit>> \in given'  BY <1>h, <1>u DEF Handed, m
  <2>4. Good(Outcome(m))
    <3>1. {"ready", "rolled_back", "rejected"} \cap (Pending \cup Accepted) = {}
          /\ {"applied", "merged"} \subseteq Accepted
      BY DEF Pending, Accepted
    <3>2. /\ \A x \in {"rolled_back", "rejected"} : Good([m EXCEPT !.delivery = x])
          /\ Good([m EXCEPT !.delivery = "ready", !.tx = NoTx])
          /\ op.pc = "changed" => \A x \in {"applied", "merged"} : Good([m EXCEPT !.delivery = x])
      BY <1>g, <1>m, <2>3, <3>1, GoodUpdates
    <3> QED BY <3>2 DEF Outcome
  <2>5. \A q \in Ref : Good(meta'[q])  BY <1>m, <2>2, <2>4, GoodSlots
  <2>6. AllSound'  BY <1>u, <2>1, <2>5, GoodSlots, AllGood
  <2>7. OpOff.pc = "none" /\ OpOff.ref \notin Ref  BY DeliveryAssumption DEF OpOff
  <2> QED BY <1>h, <1>u, <2>1, <2>6, <2>7 DEF Handed
<1> QED BY <1>1, <1>2, <1>3, <1>4 DEF Mutate

(* ... RecoverPrepared calls merged only what the head shows merged ...     *)
LEMMA SettledSound ==
  ASSUME TypeOK, SoundInv, [Next]_vars, NEW r \in Ref, meta[r].delivery \in Pending
  PROVE  Good(Recovered(meta[r]))
<1> DEFINE m == meta[r]
<1>1. m \in MetaType /\ m # NoMeta  BY TypeParts DEF Pending, NoMeta
<1>2. m.tree \in Ref /\ m.tree # None  BY <1>1, RecordHasTree, DeliveryAssumption
<1>3. Good(m) /\ Tip' \in Nat  BY StillGood
<1>4. m.commit > 0  BY DEF SoundInv, AllSound, Sound
<1>5. /\ {"ready", "acceptance_interrupted"} \cap (Pending \cup Accepted) = {}
  BY DEF Pending, Accepted
<1>6. /\ Good([m EXCEPT !.delivery = "ready", !.tx = NoTx])
      /\ Good([m EXCEPT !.delivery = "acceptance_interrupted"])
  BY <1>1, <1>2, <1>3, <1>5, GoodUpdates
<1>7. ASSUME Completed(m)  PROVE Good([m EXCEPT !.delivery = "merged", !.tx = [m.tx EXCEPT !.after = Tip]])
  <2>1. source.log \in Seq(Commit) /\ Tip \in Nat /\ Tip >= 1
    BY TypeParts, SourceUpdates DEF SoundInv, LogGiven, Tip
  <2> DEFINE c == source.log[Tip]
  <2>2. c \in Commit  BY <2>1, LogTyped DEF Tip
  <2>3. SubSeq(c, 1, 2)[1] = c[1] /\ SubSeq(c, 1, 2)[2] = c[2]
    BY <2>2, SubSeqProperties DEF Commit
  <2>7. SubSeq(c, 1, 2) = <<m.tree, m.commit>>  BY <1>7 DEF Completed
  <2>4. c[1] = m.tree /\ c[2] = m.commit
    <3> DEFINE x == SubSeq(c, 1, 2)
               y == <<m.tree, m.commit>>
    <3>1. y[1] = m.tree /\ y[2] = m.commit  OBVIOUS
    <3>2. x = y  BY <2>7
    <3>3. x[1] = c[1] /\ x[2] = c[2]  BY <2>3
    <3> HIDE DEF x, y, c, m
    <3> QED BY <3>1, <3>2, <3>3
  <2>5. <<m.tree, m.commit>> \in given'
    <3>1. <<c[1], c[2]>> \in given  BY <1>4, <2>1, <2>4 DEF SoundInv, LogGiven
    <3> QED BY <2>4, <3>1, SourceGrows
  <2>6. m.tx.kind # "apply"  BY <1>7 DEF Completed
  <2> QED BY <1>1, <1>2, <1>3, <2>5, <2>6, GoodUpdates
<1> QED BY <1>6, <1>7 DEF Recovered

(* ... and a start ...                                                      *)
LEMMA BootSound ==
  ASSUME TypeOK, SoundInv, [Next]_vars, NEW p \in Runtime, Boot(p) \/ Crash(p)
  PROVE  AllSound' /\ Handed'
<1> DEFINE b == boot[p]
<1>h. Handed  BY DEF SoundInv
<1>g. /\ \A q \in Ref : Good(meta[q]) /\ Good(run[q].hand)
      /\ Good(b.hand) /\ Good(NoMeta) /\ Tip' \in Nat
  BY StillGood
<1>b. b \in BootType /\ boot \in [Runtime -> BootType]  BY TypeParts
<1>f. BootOff.pc = "off" /\ BootOff.hand = NoMeta  BY DEF BootOff
<1>1. CASE Crash(p)
  <2>1. BootStep(p, BootOff) /\ meta' = meta /\ given' = given  BY <1>1 DEF Crash, history
  <2>2. \/ run' = run /\ op' = op
        \/ run' = [r \in Ref |-> RunOff] /\ op' = OpOff
    BY <1>1 DEF Crash
  <2>3. RunOff.pc = "off" /\ RunOff.hand = NoMeta /\ OpOff.pc = "none" /\ OpOff.ref = None
    BY DEF RunOff, OpOff
  <2>4. \A q \in Ref : Good(run'[q].hand)  BY <1>g, <2>2, <2>3
  <2>5. AllSound'  BY <1>f, <1>g, <2>1, <2>2, <2>4, GoodSlots, AllGood
  <2>6. \A q \in Runtime : boot'[q].pc = "save" => boot'[q].ref \in Ref /\ boot'[q].hand.tree \in Ref
    BY <1>b, <1>f, <1>h, <2>1 DEF BootStep, Handed
  <2> QED BY <1>h, <2>1, <2>2, <2>3, <2>5, <2>6 DEF Handed
<1> SUFFICES ASSUME Boot(p) PROVE AllSound' /\ Handed'  BY <1>1
<1>u. run' = run /\ op' = op /\ given' = given
  BY DEF Boot, Start, SweepSave, Settle, Ready, SweepLoad, RecoverPending, history
<1>s. ASSUME NEW x, BootStep(p, x), Good(x.hand),
             x.pc = "save" => x.ref \in Ref /\ x.hand.tree \in Ref,
             \A q \in Ref : Good(meta'[q])
      PROVE  AllSound' /\ Handed'
  <2>1. \A q \in Runtime : boot'[q].pc = "save" => boot'[q].ref \in Ref /\ boot'[q].hand.tree \in Ref
    BY <1>b, <1>h, <1>s DEF BootStep, Handed
  <2>2. AllSound'  BY <1>s, <1>u, GoodSlots, AllGood
  <2> QED BY <1>h, <1>u, <2>1, <2>2 DEF Handed
<1>2. CASE Start(p) \/ Settle(p) \/ Ready(p)
  <2>2. \A q \in Ref : Good(meta'[q])  BY <1>2, <1>g DEF Start, Settle, Ready
  <2>3. CASE Start(p)
    <3> DEFINE x == [BootOff EXCEPT !.pc = "sweep", !.todo = {r \in Ref : meta[r] # NoMeta}]
    <3>1. BootStep(p, x)  BY <2>3 DEF Start
    <3>2. x.pc = "sweep" /\ x.hand = NoMeta  BY DEF BootOff
    <3> HIDE DEF x
    <3> QED BY <1>g, <1>s, <2>2, <3>1, <3>2
  <2>4. CASE Settle(p)
    <3> DEFINE x == [b EXCEPT !.pc = "settle", !.todo = {r \in Ref : meta[r].delivery \in Pending}]
    <3>1. BootStep(p, x)  BY <2>4 DEF Settle
    <3>2. x.pc = "settle" /\ x.hand = b.hand  BY <1>b DEF BootType
    <3> HIDE DEF x
    <3> QED BY <1>g, <1>s, <2>2, <3>1, <3>2
  <2>5. CASE Ready(p)
    <3> DEFINE x == [BootOff EXCEPT !.pc = "up"]
    <3>1. BootStep(p, x)  BY <2>5 DEF Ready
    <3>2. x.pc = "up" /\ x.hand = NoMeta  BY DEF BootOff
    <3> HIDE DEF x
    <3> QED BY <1>g, <1>s, <2>2, <3>1, <3>2
  <2> QED BY <1>2, <2>3, <2>4, <2>5
<1>3. CASE SweepSave(p)
  <2>1. b.pc = "save" /\ b.ref \in Ref /\ b.hand \in MetaType /\ b.hand.tree # None
    BY <1>3, <1>b, <1>h, BootUpdates, DeliveryAssumption DEF SweepSave, Handed
  <2>2. Good(Reconciled(b.hand))
    <3>1. {"interrupted", "orphaned", "lost"} \cap (Pending \cup Accepted) = {}
      BY DEF Pending, Accepted
    <3>2. \A d \in {"interrupted", "orphaned", "lost"} :
             Good([b.hand EXCEPT !.status = "interrupted", !.delivery = d])
      BY <1>g, <2>1, <3>1, GoodUpdates
    <3> QED BY <3>2 DEF Reconciled
  <2>3. \A q \in Ref : Good(meta'[q])  BY <1>3, <2>1, <2>2, GoodSlots DEF SweepSave
  <2> DEFINE x == [b EXCEPT !.pc = "sweep", !.ref = None, !.hand = NoMeta]
  <2>4. BootStep(p, x) /\ x.pc = "sweep" /\ x.hand = NoMeta  BY <1>3, <1>b DEF SweepSave, BootType
  <2> QED BY <1>g, <1>s, <2>3, <2>4
<1>4. ASSUME NEW r \in Ref, SweepLoad(p, r)  PROVE AllSound' /\ Handed'
  <2> DEFINE c == [b EXCEPT !.todo = b.todo \ {r}]
             x == [c EXCEPT !.pc = "save", !.ref = r, !.hand = meta[r]]
  <2>1. meta' = meta  BY <1>4 DEF SweepLoad
  <2>2. CASE meta[r].status = "running"
    <3>1. meta[r].tree \in Ref
      <4>1. meta[r] # NoMeta  BY <2>2 DEF NoMeta
      <4> QED BY <4>1, RecordHasTree
    <3>2. BootStep(p, x)  BY <1>4, <2>2 DEF SweepLoad
    <3>3. x.ref = r /\ x.hand = meta[r]  BY <1>b DEF BootType
    <3> HIDE DEF x
    <3> QED BY <1>g, <1>s, <2>1, <3>1, <3>2, <3>3
  <2>3. CASE meta[r].status # "running"
    <3>1. BootStep(p, c)  BY <1>4, <2>3 DEF SweepLoad
    <3>2. c.pc = "sweep" /\ c.hand = b.hand  BY <1>4, <1>b DEF SweepLoad, BootType
    <3> HIDE DEF c
    <3> QED BY <1>g, <1>s, <2>1, <3>1, <3>2
  <2> QED BY <2>2, <2>3
<1>5. ASSUME NEW r \in Ref, RecoverPending(p, r)  PROVE AllSound' /\ Handed'
  <2>1. \A q \in Ref : Good(meta'[q])
    <3>1. meta' = meta \/ Publish(r, meta[r]) \/ (meta[r].delivery \in Pending /\ Publish(r, Recovered(meta[r])))
      BY <1>5 DEF RecoverPending
    <3> QED BY <1>g, <3>1, SettledSound, GoodSlots
  <2> DEFINE x == [b EXCEPT !.todo = b.todo \ {r}]
  <2>2. BootStep(p, x) \/ BootStep(p, BootOff)  BY <1>5 DEF RecoverPending
  <2>3. x.pc = "settle" /\ x.hand = b.hand  BY <1>5, <1>b DEF RecoverPending, BootType
  <2> HIDE DEF x
  <2> QED BY <1>f, <1>g, <1>s, <2>1, <2>2, <2>3
<1> QED BY <1>2, <1>3, <1>4, <1>5 DEF Boot

(* ... and so every step.                                                   *)
LEMMA SoundStep ==
  ASSUME TypeOK, SoundInv, [Next]_vars
  PROVE  SoundInv'
<1>1. LogGiven'  BY SourceGrows, LogGrows
<1>2. ASSUME User \/ Release \/ (\E t \in Ref : LoseTree(t)) \/ UNCHANGED vars
      PROVE  AllSound' /\ Handed'
  <2>1. meta' = meta /\ run' = run /\ op' = op /\ boot' = boot /\ given' = given
    BY <1>2 DEF User, UserEdit, UserStage, UserCommit, UserDiscard, Release, LoseTree, vars, history
  <2>2. AllSound'  BY <2>1, GoodSlots, AllGood
  <2> QED BY <2>1, <2>2 DEF SoundInv, Handed
<1>3. AllSound' /\ Handed'
  BY <1>2, RunSound, CallSound, MutateSound, BootSound DEF Next
<1> QED BY <1>1, <1>3 DEF SoundInv

----------------------------------------------------------------------------
(* Record and source agree.                                                 *)

(* A step that puts nothing new into the source, and changes the record of  *)
(* a delivery only if the source does not have it, or to a final state.     *)
LEMMA RecordKept ==
  ASSUME TypeOK, SoundInv, RecordInv, [Next]_vars,
         InSource' \subseteq InSource,
         source'.held \subseteq source.held \/ Tip < Tip',
         \A r \in Ref \ lapsed' : \/ meta'[r] = meta[r] \/ r \notin InSource
                                  \/ meta'[r].delivery \in Blocking \ Pending,
         \A r \in Ref \ lapsed' : run'[r].pc # "off" => run[r].pc # "off" \/ r \notin InSource,
         op'.pc \in {"intent", "refused"} /\ op'.ref \notin lapsed' => op'.ref \notin InSource,
         op'.pc = "intent" /\ op'.ref \notin lapsed' => meta'[op'.ref].delivery \in Blocking
  PROVE  RecordInv'
<1>1. lapsed \subseteq lapsed' /\ Tip \in Nat /\ Tip' \in Nat /\ Tip <= Tip'
  BY SourceGrows, LogGrows
<1>2. InSource \subseteq Ref /\ source'.held \subseteq InSource'
  BY TypeParts, SourceUpdates DEF InSource
<1>3. AcceptanceRecorded'
  BY <1>1, <1>2 DEF RecordInv, AcceptanceRecorded
<1>4. Outside'
  BY <1>1, <1>2 DEF RecordInv, Outside
<1>5. ASSUME NEW r \in Ref \ lapsed', meta'[r].delivery \in Pending, r \in source'.held
      PROVE  meta'[r].tx.before < Tip'
  <2>1. meta'[r] = meta[r] /\ r \notin lapsed  BY <1>1, <1>2, <1>5
  <2>2. meta[r].tx.before \in Nat /\ meta[r].tx.before <= Tip
    BY TypeParts, MetaFields DEF SoundInv, AllSound, Sound
  <2>3. r \in source.held => meta[r].tx.before < Tip
    BY <1>5, <2>1 DEF RecordInv, Intended
  <2> QED BY <1>1, <1>5, <2>1, <2>2, <2>3
<1>6. Intended'  BY <1>5 DEF Intended
<1> QED BY <1>3, <1>4, <1>6 DEF RecordInv

(* What is not blocking is not in the source, unless it has lapsed.         *)
LEMMA NotThere ==
  ASSUME RecordInv, NEW r \in Ref, meta[r].delivery \notin Blocking
  PROVE  r \in lapsed \/ r \notin InSource
BY DEF RecordInv, AcceptanceRecorded

(* Which delivery states block another acceptance.                          *)
LEMMA NameKinds ==
  /\ "none" \notin Blocking /\ "ready" \notin Blocking
  /\ Pending \subseteq Blocking /\ Accepted \subseteq Blocking \ Pending
  /\ {"applied", "merged"} = Accepted
  /\ {"acceptance_interrupted", "rejected", "rolled_back"} \subseteq Blocking \ Pending
BY DEF Blocking, Pending, Accepted

(* A run is of a delivery that the source does not have ...                 *)
LEMMA RunRecord ==
  ASSUME TypeOK, SoundInv, RecordInv, [Next]_vars, NEW r \in Ref, Run(r)
  PROVE  RecordInv'
<1>1. op' = op /\ source' = source /\ lapsed' = lapsed
  BY DEF Run, MarkRunning, BeginRun, AbortPreparation, Work, SaveRunning, EndRun, Seal,
         SaveCompleted, SaveFailed, LoseRecord, history
<1>2. run[r].pc # "off"
  BY DEF Run, MarkRunning, BeginRun, AbortPreparation, Work, SaveRunning, EndRun, Seal,
         SaveCompleted, SaveFailed, LoseRecord
<1>3. r \in lapsed \/ r \notin InSource  BY <1>2 DEF RecordInv, Outside
<1>4. meta' = meta \/ \E x : Publish(r, x)
  BY DEF Run, MarkRunning, BeginRun, AbortPreparation, Work, SaveRunning, EndRun, Seal,
         SaveCompleted, SaveFailed, LoseRecord, SaveEnded
<1>5. run' = run \/ \E x : run' = [run EXCEPT ![r] = x]
  BY DEF Run, MarkRunning, BeginRun, Enter, AbortPreparation, Work, SaveRunning, EndRun, Seal,
         SaveCompleted, SaveFailed, LoseRecord, SaveEnded
<1>6. \A q \in Ref \ {r} : meta'[q] = meta[q] /\ run'[q] = run[q]
  BY <1>4, <1>5, TypeParts DEF Publish
<1>7. op.ref # r  BY <1>2 DEF SoundInv, Handed
<1>8. op.pc = "intent" => op.ref \in Ref  BY DEF SoundInv, Handed
<1>9. op.pc = "intent" /\ op.ref \notin lapsed => meta'[op.ref].delivery \in Blocking
  BY <1>6, <1>7, <1>8 DEF RecordInv, Intended
<1>10. InSource' = InSource  BY <1>1 DEF InSource
<1>11. op.pc \in {"intent", "refused"} /\ op.ref \notin lapsed => op.ref \notin InSource
  BY DEF RecordInv, Outside
<1> QED BY <1>1, <1>2, <1>3, <1>6, <1>9, <1>10, <1>11, RecordKept

(* ... a call puts the intent on record and is for one it does not have ... *)
LEMMA CallRecord ==
  ASSUME TypeOK, SoundInv, RecordInv, [Next]_vars, NEW p \in Runtime, Call(p)
  PROVE  RecordInv'
<1>o. op.pc = "none"
  BY DEF Call, PrepareFresh, PrepareContinue, Accept, Rollback, Reject, Lease
<1>t. meta \in [Ref -> MetaType] /\ run \in [Ref -> RunType] /\ source \in SourceType
  BY TypeParts
<1>1. ASSUME NEW s \in Session, NEW r \in Ref, PrepareFresh(p, s, r)  PROVE RecordInv'
  <2>1. meta' = meta /\ op' = op /\ source' = source /\ lapsed' = lapsed
    BY <1>1 DEF PrepareFresh, history
  <2>2. \A q \in Ref \ {r} : run'[q] = run[q]  BY <1>1, <1>t DEF PrepareFresh, Prepare
  <2>3. r \in lapsed \/ r \notin InSource
    BY <1>1, NotThere, NameKinds DEF PrepareFresh, NoMeta
  <2>4. InSource' = InSource  BY <2>1 DEF InSource
  <2> QED BY <1>o, <2>1, <2>2, <2>3, <2>4, RecordKept
<1>2. ASSUME NEW s \in Session, NEW a \in Ref, NEW r \in Ref, PrepareContinue(p, a, s, r)
      PROVE  RecordInv'
  <2>1. meta' = meta /\ op' = op /\ source' = source  BY <1>2 DEF PrepareContinue
  <2>2. \A q \in Ref \ {r} : run'[q] = run[q]  BY <1>2, <1>t DEF PrepareContinue, Prepare
  <2>3. lapsed \subseteq lapsed' /\ (meta[r].delivery \in Blocking => r \in lapsed')
    BY <1>2 DEF PrepareContinue, Lapse
  <2>4. r \in lapsed' \/ r \notin InSource  BY <2>3, NotThere
  <2>5. InSource' = InSource  BY <2>1 DEF InSource
  <2> QED BY <1>o, <2>1, <2>2, <2>4, <2>5, RecordKept
<1>3. ASSUME NEW r \in Ref, NEW kind \in {"apply", "merge"}, Accept(p, r, kind)  PROVE RecordInv'
  <2>1. run' = run /\ source' = source /\ lapsed' = lapsed  BY <1>3 DEF Accept, history
  <2>2. PICK m : /\ Publish(r, m) /\ Holding(r, m, "intent")
                 /\ m = [meta[r] EXCEPT !.delivery = IF kind = "apply" THEN "applying" ELSE "merging",
                                        !.tx = [NoTx EXCEPT !.kind = kind, !.before = Tip]]
    BY <1>3 DEF Accept
  <2>3. m.delivery \in Blocking  BY <1>t, <2>2 DEF MetaType, Blocking, Pending
  <2>4. meta'[r].delivery \in Blocking /\ \A q \in Ref \ {r} : meta'[q] = meta[q]
    BY <1>t, <2>2, <2>3 DEF Publish
  <2>5. op'.ref = r  BY <2>2 DEF Holding
  <2>6. r \in lapsed \/ r \notin InSource  BY <1>3, NotThere, NameKinds DEF Accept
  <2>7. InSource' = InSource  BY <2>1 DEF InSource
  <2> QED BY <2>1, <2>4, <2>5, <2>6, <2>7, RecordKept
<1>4. ASSUME NEW r \in Ref, Rollback(p, r)  PROVE RecordInv'
  <2>1. run' = run /\ meta' = meta /\ lapsed' = lapsed  BY <1>4 DEF Rollback, history
  <2>2. op'.pc = "undone"  BY <1>4 DEF Rollback, Holding
  <2>3. source'.held \subseteq source.held /\ source'.staged \subseteq source.staged
    BY <1>4, <1>t DEF Rollback, SourceType
  <2>4. InSource' \subseteq InSource  BY <2>3 DEF InSource
  <2> QED BY <2>1, <2>2, <2>3, <2>4, RecordKept
<1>5. ASSUME NEW r \in Ref, Reject(p, r)  PROVE RecordInv'
  <2>1. run' = run /\ meta' = meta /\ source' = source /\ lapsed' = lapsed
    BY <1>5 DEF Reject, history
  <2>2. op'.pc = "removed"  BY <1>5 DEF Reject, Holding
  <2>3. InSource' = InSource  BY <2>1 DEF InSource
  <2> QED BY <2>1, <2>2, <2>3, RecordKept
<1> QED BY <1>1, <1>2, <1>3, <1>4, <1>5 DEF Call

(* The delivery in hand gets into the source.                               *)
LEMMA GivenRecord ==
  ASSUME TypeOK, SoundInv, RecordInv, [Next]_vars, op.pc = "intent",
         meta' = meta, run' = run, InSource' \subseteq InSource \cup {op.ref},
         source'.held \subseteq source.held \/ Tip < Tip',
         \/ op'.pc = "changed"
         \/ op'.pc = "refused" /\ op'.ref = op.ref /\ op.ref \in lapsed'
  PROVE  RecordInv'
<1>1. lapsed \subseteq lapsed' /\ Tip \in Nat /\ Tip' \in Nat /\ Tip <= Tip'
  BY SourceGrows, LogGrows
<1>2. /\ op.ref \in Ref
      /\ op.ref \in lapsed \/ meta[op.ref].delivery \in Blocking
      /\ run[op.ref].pc = "off"
  BY DEF SoundInv, Handed, RecordInv, Intended
<1>3. InSource \subseteq Ref  BY TypeParts, SourceUpdates DEF InSource
<1>4. AcceptanceRecorded'  BY <1>1, <1>2, <1>3 DEF RecordInv, AcceptanceRecorded
<1>5. Outside'  BY <1>1, <1>2 DEF RecordInv, Outside
<1>6. ASSUME NEW r \in Ref \ lapsed', meta[r].delivery \in Pending, r \in source'.held
      PROVE  meta[r].tx.before < Tip'
  <2>1. meta[r].tx.before \in Nat /\ meta[r].tx.before <= Tip
    BY TypeParts, MetaFields DEF SoundInv, AllSound, Sound
  <2>2. r \in source.held => meta[r].tx.before < Tip  BY <1>1, <1>6 DEF RecordInv, Intended
  <2> QED BY <1>1, <1>6, <2>1, <2>2
<1>7. Intended'  BY <1>6 DEF Intended
<1> QED BY <1>4, <1>5, <1>7 DEF RecordInv

(* A merge that adds to the source moves its head.                          *)
LEMMA MergeMoves ==
  ASSUME TypeOK, Handed, op.pc = "intent", Merge(op.hand)
  PROVE  /\ InSource' \subseteq InSource \cup {op.ref}
         /\ source'.held \subseteq source.held \/ Tip < Tip'
<1>1. source \in SourceType /\ source.log \in Seq(Commit) /\ Tip \in Nat
  BY TypeParts, SourceUpdates DEF Tip
<1> DEFINE c == <<op.hand.tree, op.hand.commit, op.ref>>
<1>2. CASE source' = source  BY <1>2 DEF InSource
<1>3. CASE source' = [source EXCEPT !.log = Append(source.log, c), !.held = source.held \cup {op.ref}]
  <2>1. c \in Commit
    BY TypeParts, MetaFields, CommitTyped DEF Handed, OpType
  <2> HIDE DEF c
  <2>2. /\ source'.log = Append(source.log, c) /\ source'.held = source.held \cup {op.ref}
        /\ source'.staged = source.staged
    BY <1>1, <1>3 DEF SourceType
  <2>3. Tip' = Tip + 1  BY <1>1, <2>1, <2>2, AppendProperties DEF Tip
  <2> QED BY <1>1, <2>2, <2>3 DEF InSource
<1> QED BY <1>2, <1>3 DEF Merge

(* ... the source gets only what is on record ...                           *)
LEMMA MutateRecord ==
  ASSUME TypeOK, SoundInv, RecordInv, [Next]_vars, Mutate
  PROVE  RecordInv'
<1>t. meta \in [Ref -> MetaType] /\ op \in OpType /\ source \in SourceType  BY TypeParts
<1>h. Handed  BY DEF SoundInv
<1>1. CASE ApplyPrepared
  <2>1. meta' = meta /\ run' = run /\ op.pc = "intent"  BY <1>1 DEF ApplyPrepared
  <2>2. op'.pc = "changed"  BY <1>1, <1>t DEF ApplyPrepared, Done, OpType
  <2>3. source'.held = source.held /\ source'.staged \subseteq {op.ref}
    BY <1>1, <1>t DEF ApplyPrepared, SourceType
  <2>4. InSource' \subseteq InSource \cup {op.ref}  BY <2>3 DEF InSource
  <2> QED BY <2>1, <2>2, <2>3, <2>4, GivenRecord
<1>2. CASE MergePrepared
  <2>1. meta' = meta /\ run' = run /\ op.pc = "intent" /\ Merge(op.hand)  BY <1>2 DEF MergePrepared
  <2>2. op'.pc = "changed"  BY <1>2, <1>t DEF MergePrepared, Done, OpType
  <2> QED BY <1>h, <2>1, <2>2, MergeMoves, GivenRecord
<1>3. CASE CancelMerge
  <2>1. meta' = meta /\ run' = run /\ op.pc = "intent" /\ Merge(op.hand)  BY <1>3 DEF CancelMerge
  <2>2. op'.pc = "refused" /\ op'.ref = op.ref /\ op.ref \in lapsed'
    BY <1>3, <1>t DEF CancelMerge, OpType, Lapse
  <2> QED BY <1>h, <2>1, <2>2, MergeMoves, GivenRecord
<1>4. CASE Refuse
  <2>1. /\ meta' = meta /\ run' = run /\ source' = source /\ lapsed' = lapsed
        /\ op.pc = "intent" /\ op'.pc = "refused" /\ op'.ref = op.ref
    BY <1>4, <1>t DEF Refuse, history, OpType
  <2>2. op.ref \in lapsed \/ op.ref \notin InSource  BY <2>1 DEF RecordInv, Outside
  <2>3. InSource' = InSource  BY <2>1 DEF InSource
  <2> QED BY <2>1, <2>2, <2>3, RecordKept
<1>5. CASE SaveOutcome \/ LoseOutcome
  <2>1. /\ run' = run /\ source' = source /\ lapsed' = lapsed /\ op'.pc = "none"
        /\ op.pc \notin {"none", "intent"}
        /\ meta' = meta \/ Publish(op.ref, Outcome(op.hand))
    BY <1>5 DEF SaveOutcome, LoseOutcome, history, OpOff
  <2>2. op.ref \in Ref /\ op.hand \in MetaType  BY <1>h, <1>t, <2>1 DEF Handed, OpType
  <2>3. \/ op.ref \in lapsed \/ op.ref \notin InSource
        \/ Outcome(op.hand).delivery \in Blocking \ Pending
    <3>1. CASE op.pc = "refused"  BY <3>1 DEF RecordInv, Outside
    <3>2. CASE op.pc # "refused"
      <4>1. \A d : [op.hand EXCEPT !.delivery = d].delivery = d  BY <2>2 DEF MetaType
      <4> QED BY <3>2, <4>1, NameKinds DEF Outcome
    <3> QED BY <3>1, <3>2
  <2>4. /\ \A q \in Ref \ {op.ref} : meta'[q] = meta[q]
        /\ meta'[op.ref] = meta[op.ref] \/ meta'[op.ref] = Outcome(op.hand)
    BY <1>t, <2>1, <2>2 DEF Publish
  <2>5. InSource' = InSource  BY <2>1 DEF InSource
  <2> QED BY <2>1, <2>3, <2>4, <2>5, RecordKept
<1> QED BY <1>1, <1>2, <1>3, <1>4, <1>5 DEF Mutate

(* ... a start offers again only what the source did not get ...            *)
LEMMA BootRecord ==
  ASSUME TypeOK, SoundInv, RecordInv, [Next]_vars, NEW p \in Runtime, Boot(p) \/ Crash(p)
  PROVE  RecordInv'
<1>t. meta \in [Ref -> MetaType] /\ source \in SourceType  BY TypeParts
<1>h. Handed  BY DEF SoundInv
<1>s. source' = source
  BY DEF Boot, Start, SweepSave, Settle, Ready, SweepLoad, RecoverPending, Crash
<1>i. InSource' = InSource  BY <1>s DEF InSource
<1>k. /\ op.pc \in {"intent", "refused"} /\ op.ref \notin lapsed => op.ref \notin InSource
      /\ op.pc = "intent" /\ op.ref \notin lapsed => meta[op.ref].delivery \in Blocking
      /\ op.pc = "intent" => op.ref \in Ref
  BY <1>h DEF RecordInv, Outside, Intended, Handed
<1>1. CASE Crash(p)
  <2>1. meta' = meta /\ lapsed' = lapsed  BY <1>1 DEF Crash, history
  <2>2. \/ run' = run /\ op' = op
        \/ run' = [r \in Ref |-> RunOff] /\ op' = OpOff
    BY <1>1 DEF Crash
  <2>3. RunOff.pc = "off" /\ OpOff.pc = "none"  BY DEF RunOff, OpOff
  <2> QED BY <1>i, <1>k, <1>s, <2>1, <2>2, <2>3, RecordKept
<1>2. ASSUME meta' = meta, run' = run, op' = op, lapsed' = lapsed  PROVE RecordInv'
  BY <1>2, <1>i, <1>k, <1>s, RecordKept
<1>3. CASE Start(p) \/ Settle(p) \/ Ready(p) \/ \E r \in Ref : SweepLoad(p, r)
  BY <1>2, <1>3 DEF Start, Settle, Ready, SweepLoad, history
<1>4. CASE SweepSave(p)
  <2> DEFINE r == boot[p].ref
  <2>1. r \in Ref  BY <1>4, <1>h DEF SweepSave, Handed
  <2>2. run' = run /\ op' = op  BY <1>4 DEF SweepSave
  <2>3. \A q \in Ref \ {r} : meta'[q] = meta[q]  BY <1>4, <1>t, <2>1 DEF SweepSave, Publish
  <2>4. lapsed \subseteq lapsed' /\ (meta[r].delivery \in Blocking => r \in lapsed')
    BY <1>4 DEF SweepSave, Lapse
  <2>5. r \in lapsed' \/ r \notin InSource  BY <2>1, <2>4, NotThere
  <2> HIDE DEF r
  <2>6. op.pc = "intent" /\ op.ref \notin lapsed' => meta'[op.ref].delivery \in Blocking
    BY <1>k, <2>3, <2>4
  <2> QED BY <1>i, <1>k, <1>s, <2>2, <2>3, <2>4, <2>5, <2>6, RecordKept
<1>5. ASSUME NEW r \in Ref, RecoverPending(p, r)  PROVE RecordInv'
  <2>1. run' = run /\ op' = op /\ lapsed' = lapsed  BY <1>5 DEF RecoverPending, history
  <2>2. \/ meta' = meta \/ Publish(r, meta[r])
        \/ op.ref # r /\ meta[r].delivery \in Pending /\ Publish(r, Recovered(meta[r]))
    BY <1>5 DEF RecoverPending, Free
  <2>3. CASE meta' = meta \/ Publish(r, meta[r])
    <3>1. meta' = meta  BY <1>t, <2>3 DEF Publish
    <3> QED BY <1>2, <2>1, <3>1
  <2>4. ASSUME op.ref # r, meta[r].delivery \in Pending, Publish(r, Recovered(meta[r]))
        PROVE  RecordInv'
    <3> DEFINE m == meta[r]
    <3>1. \A q \in Ref \ {r} : meta'[q] = meta[q]  BY <1>t, <2>4 DEF Publish
    <3>2. meta'[r] = Recovered(m)  BY <1>t, <2>4 DEF Publish
    <3>3. CASE Unchanged(m)
      <4>1. source.staged = {} /\ Tip = m.tx.before  BY <3>3 DEF Unchanged, Clean
      <4>2. Tip \in Nat  BY <1>t, SourceUpdates DEF Tip
      <4>3. r \in lapsed \/ r \notin InSource
        BY <2>4, <4>1, <4>2 DEF RecordInv, Intended, InSource
      <4> QED BY <1>i, <1>k, <1>s, <2>1, <2>4, <3>1, <4>3, RecordKept
    <3>4. CASE ~Unchanged(m)
      <4>1. m \in MetaType  BY <1>t
      <4>2. /\ [m EXCEPT !.delivery = "acceptance_interrupted"].delivery = "acceptance_interrupted"
            /\ [m EXCEPT !.delivery = "merged", !.tx = [m.tx EXCEPT !.after = Tip]].delivery = "merged"
        BY <4>1 DEF MetaType
      <4> HIDE DEF m
      <4>3. Recovered(m).delivery \in {"acceptance_interrupted", "merged"}
        BY <3>4, <4>2 DEF Recovered
      <4>4. meta'[r].delivery \in Blocking \ Pending  BY <3>2, <4>3, NameKinds
      <4> QED BY <1>i, <1>k, <1>s, <2>1, <2>4, <3>1, <4>4, RecordKept
    <3> QED BY <3>3, <3>4
  <2> QED BY <2>2, <2>3, <2>4
<1> QED BY <1>1, <1>3, <1>4, <1>5 DEF Boot

(* ... and so every step keeps record and source together.                  *)
LEMMA RecordStep ==
  ASSUME TypeOK, SoundInv, RecordInv, [Next]_vars
  PROVE  RecordInv'
<1>t. source \in SourceType /\ source.log \in Seq(Commit) /\ Own \in Commit
  BY TypeParts, SourceUpdates, CommitTyped
<1>k. /\ op.pc \in {"intent", "refused"} /\ op.ref \notin lapsed => op.ref \notin InSource
      /\ op.pc = "intent" /\ op.ref \notin lapsed => meta[op.ref].delivery \in Blocking
  BY DEF RecordInv, Outside, Intended
<1>1. ASSUME User \/ Release \/ (\E t \in Ref : LoseTree(t)) \/ UNCHANGED vars
      PROVE  RecordInv'
  <2>1. /\ meta' = meta /\ run' = run /\ op' = op /\ lapsed' = lapsed
        /\ \/ UserCommit
           \/ source' = source
           \/ source' = [source EXCEPT !.edit = TRUE]
           \/ source' = [source EXCEPT !.over = TRUE]
           \/ source' = [source EXCEPT !.staged = {}, !.edit = FALSE, !.over = FALSE]
    BY <1>1 DEF User, UserEdit, UserStage, UserCommit, UserDiscard, Release, LoseTree, vars, history
  <2>2. CASE UserCommit
    <3>1. source'.log = Append(source.log, Own) /\ InSource' = InSource
      BY <2>2 DEF UserCommit, InSource
    <3>2. Tip' = Tip + 1 /\ Tip \in Nat  BY <1>t, <3>1, AppendProperties DEF Tip
    <3>3. Tip < Tip'  BY <3>2
    <3> QED BY <1>k, <2>1, <3>1, <3>3, RecordKept
  <2>3. CASE ~UserCommit
    <3>1. source'.held = source.held /\ source'.staged \subseteq source.staged
      BY <1>t, <2>1, <2>3 DEF SourceType
    <3>2. InSource' \subseteq InSource  BY <3>1 DEF InSource
    <3> QED BY <1>k, <2>1, <3>1, <3>2, RecordKept
  <2> QED BY <2>2, <2>3
<1> QED BY <1>1, RunRecord, CallRecord, MutateRecord, BootRecord DEF Next

----------------------------------------------------------------------------
(* Worktrees.                                                               *)

(* Reference q may have worktree t in its record: it is its own, or that of *)
(* a run which is on record and past its preparation.                       *)
Allowed(q, t) == t \in Ref \ {q} => meta[t] # NoMeta /\ ~Fresh(t)

(* Every record in use has a worktree that it may have.                     *)
LEMMA AllowedSlots ==
  ASSUME TreeInv
  PROVE  /\ \A q \in Ref : /\ Allowed(q, meta[q].tree) /\ Allowed(q, run[q].hand.tree)
                           /\ Allowed(q, q)
         /\ Allowed(op.ref, op.hand.tree)
         /\ \A p \in Runtime : Allowed(boot[p].ref, boot[p].hand.tree)
         /\ \A q : Allowed(q, NoMeta.tree)
<1>1. \A t \in Ref : Shared(t) => meta[t] # NoMeta /\ ~Fresh(t)  BY DEF TreeInv
<1>2. NoMeta.tree \notin Ref  BY DeliveryAssumption DEF NoMeta
<1> QED BY <1>1, <1>2 DEF Allowed, Shared

(* The invariant of the worktrees, from the records of the next state.      *)
LEMMA TreeKept ==
  ASSUME \A q \in Ref : Allowed(q, meta'[q].tree) /\ Allowed(q, run'[q].hand.tree),
         Allowed(op'.ref, op'.hand.tree),
         \A p \in Runtime : Allowed(boot'[p].ref, boot'[p].hand.tree),
         \A t \in Ref : meta[t] # NoMeta /\ ~Fresh(t) => meta'[t] # NoMeta,
         \A t \in Ref : Fresh(t)' => /\ Fresh(t) \/ meta[t] = NoMeta
                                     /\ run'[t].hand.tree = t /\ tree'[t].head = 0 /\ ~tree'[t].dirty
  PROVE  TreeInv'
<1>1. ASSUME NEW t \in Ref, Shared(t)'  PROVE meta[t] # NoMeta /\ ~Fresh(t)
  BY <1>1 DEF Shared, Allowed
<1>2. \A t \in Ref : Shared(t)' => meta'[t] # NoMeta /\ ~Fresh(t)'  BY <1>1
<1>3. \A t \in Ref : Fresh(t)' => run'[t].hand.tree = t /\ tree'[t].head = 0 /\ ~tree'[t].dirty
  OBVIOUS
<1> QED BY <1>2, <1>3 DEF TreeInv

(* A fresh run has an empty worktree of its own.                            *)
LEMMA FreshOwn ==
  ASSUME TreeInv, NEW t \in Ref, Fresh(t)
  PROVE  run[t].hand.tree = t /\ tree[t].head = 0 /\ ~tree[t].dirty
BY DEF TreeInv

(* A step that leaves runs and worktrees alone, and moves records about.    *)
LEMMA TreeMoved ==
  ASSUME TypeOK, SoundInv, TreeInv, run' = run,
         \A t \in Ref : tree'[t].head = tree[t].head /\ tree'[t].dirty = tree[t].dirty,
         \/ meta' = meta
         \/ \E q \in Ref : \E x : Publish(q, x) /\ Allowed(q, x.tree) /\ x # NoMeta,
         Allowed(op'.ref, op'.hand.tree),
         \/ boot' = boot
         \/ \E p \in Runtime : \E b : BootStep(p, b) /\ Allowed(b.ref, b.hand.tree)
  PROVE  TreeInv'
<1>t. meta \in [Ref -> MetaType] /\ boot \in [Runtime -> BootType]  BY TypeParts
<1>1. \A q \in Ref : Allowed(q, meta'[q].tree) /\ (meta[q] # NoMeta => meta'[q] # NoMeta)
  BY <1>t, AllowedSlots DEF Publish
<1>2. \A p \in Runtime : Allowed(boot'[p].ref, boot'[p].hand.tree)
  BY <1>t, AllowedSlots DEF BootStep
<1>3. \A t \in Ref : Fresh(t)' => Fresh(t)  BY DEF Fresh
<1>4. \A t \in Ref : Fresh(t) => run'[t].hand.tree = t /\ tree'[t].head = 0 /\ ~tree'[t].dirty
  BY FreshOwn
<1> QED BY <1>1, <1>2, <1>3, <1>4, AllowedSlots, TreeKept

(* A run works in its own worktree ...                                      *)
LEMMA RunTree ==
  ASSUME TypeOK, SoundInv, TreeInv, NEW r \in Ref, Run(r)
  PROVE  TreeInv'
<1> DEFINE h == run[r].hand
<1>t. meta \in [Ref -> MetaType] /\ run \in [Ref -> RunType] /\ tree \in [Ref -> TreeType]
  BY TypeParts
<1>u. op' = op /\ boot' = boot
  BY DEF Run, MarkRunning, BeginRun, AbortPreparation, Work, SaveRunning, EndRun, Seal,
         SaveCompleted, SaveFailed, LoseRecord
<1>o. run[r].pc # "off"
  BY DEF Run, MarkRunning, BeginRun, AbortPreparation, Work, SaveRunning, EndRun, Seal,
         SaveCompleted, SaveFailed, LoseRecord
<1>h. h \in MetaType /\ h.tree \in Ref /\ run[r] \in RunType
  BY <1>o, <1>t, RunUpdates DEF SoundInv, Handed
<1>n. \A x : x.tree = h.tree => x # NoMeta  BY <1>h, DeliveryAssumption DEF NoMeta
<1>f. RunOff.pc = "off" /\ RunOff.hand = NoMeta  BY DEF RunOff
<1>e. /\ \A x : [h EXCEPT !.status = x].tree = h.tree
      /\ \A x, d : [h EXCEPT !.status = x, !.delivery = d].tree = h.tree
      /\ \A x, d : [h EXCEPT !.commit = x, !.delivery = d].tree = h.tree
  BY <1>h DEF MetaType
<1>v. ASSUME NEW status, SaveEnded(r, status)
      PROVE  \E x : Publish(r, x) /\ x.tree = h.tree
  <2> DEFINE x == [h EXCEPT !.status = status, !.delivery = status]
  <2>1. Publish(r, x)  BY <1>v DEF SaveEnded
  <2>2. x.tree = h.tree  BY <1>e
  <2> HIDE DEF x, h
  <2> QED BY <2>1, <2>2
<1> HIDE DEF h
<1>1. \/ meta' = meta
      \/ \E x : Publish(r, x) /\ (x.tree = h.tree \/ (Fresh(r) /\ x = NoMeta))
  <2>1. CASE AbortPreparation(r)
    BY <2>1, <1>v DEF AbortPreparation, Fresh
  <2>2. CASE MarkRunning(r)  BY <2>2, <1>e DEF MarkRunning, h
  <2>3. CASE SaveRunning(r)  BY <2>3 DEF SaveRunning, h
  <2>4. CASE SaveCompleted(r)  BY <2>4, <1>e DEF SaveCompleted, h
  <2>5. CASE SaveFailed(r)  BY <2>5, <1>v DEF SaveFailed
  <2>6. CASE BeginRun(r) \/ Work(r) \/ EndRun(r) \/ Seal(r) \/ LoseRecord(r)
    BY <2>6 DEF BeginRun, Work, EndRun, Seal, LoseRecord
  <2> QED BY <2>1, <2>2, <2>3, <2>4, <2>5, <2>6 DEF Run
<1>2. \/ run' = run
      \/ run' = [run EXCEPT ![r] = RunOff]
      \/ \E x : /\ run' = [run EXCEPT ![r] = x] /\ x.hand.tree = h.tree
                /\ x.pc \in {"prepared", "marked"} =>
                       run[r].pc = "prepared" /\ x.fresh = run[r].fresh /\ tree' = tree
  <2>1. CASE MarkRunning(r)
    <3> DEFINE x == [run[r] EXCEPT !.pc = "marked", !.hand = [h EXCEPT !.status = "running"]]
    <3>1. run' = [run EXCEPT ![r] = x] /\ tree' = tree /\ run[r].pc = "prepared"
      BY <2>1 DEF MarkRunning, h
    <3>2. x.hand = [h EXCEPT !.status = "running"] /\ x.pc = "marked" /\ x.fresh = run[r].fresh
      BY <1>h DEF RunType
    <3>3. x.hand.tree = h.tree  BY <1>e, <3>2
    <3> HIDE DEF x
    <3> QED BY <3>1, <3>2, <3>3
  <2>2. CASE BeginRun(r) \/ Work(r) \/ EndRun(r)
    <3>1. PICK x \in {[run[r] EXCEPT !.pc = "running"], [run[r] EXCEPT !.wrote = TRUE],
                      [run[r] EXCEPT !.pc = "ended", !.wrote = FALSE]} :
              /\ run' = [run EXCEPT ![r] = x]
              /\ x = [run[r] EXCEPT !.wrote = TRUE] => run[r].pc = "running"
      <4>1. CASE BeginRun(r)
        <5> DEFINE x == [run[r] EXCEPT !.pc = "running"]
        <5>1. run' = [run EXCEPT ![r] = x]  BY <4>1 DEF BeginRun, Enter
        <5>2. x = [run[r] EXCEPT !.wrote = TRUE] => run[r].pc = "running"  BY <1>h DEF RunType
        <5> QED BY <5>1, <5>2
      <4>2. CASE Work(r)  BY <4>2 DEF Work
      <4>3. CASE EndRun(r)  BY <4>3 DEF EndRun
      <4> QED BY <2>2, <4>1, <4>2, <4>3
    <3>2. x.hand = h /\ x.pc \notin {"prepared", "marked"}  BY <1>h, <3>1 DEF RunType, h
    <3> QED BY <3>1, <3>2
  <2>3. CASE AbortPreparation(r)  BY <2>3 DEF AbortPreparation, SaveEnded
  <2>4. CASE SaveRunning(r)  BY <2>4 DEF SaveRunning
  <2>5. CASE Seal(r)
    <3>1. PICK c, d : run' = [run EXCEPT ![r] = [run[r] EXCEPT !.pc = "sealed",
                                            !.hand = [h EXCEPT !.commit = c, !.delivery = d]]]
      <4> DEFINE t == h.tree
                 c == IF tree[t].dirty /\ tree[t].head < MaxSeal THEN tree[t].head + 1 ELSE tree[t].head
                 d == IF c = 0 THEN "empty" ELSE "ready"
      <4>1. run' = [run EXCEPT ![r] = [run[r] EXCEPT !.pc = "sealed",
                                            !.hand = [h EXCEPT !.commit = c, !.delivery = d]]]
        BY <2>5 DEF Seal, h
      <4> HIDE DEF c, d
      <4> QED BY <4>1
    <3> DEFINE x == [run[r] EXCEPT !.pc = "sealed", !.hand = [h EXCEPT !.commit = c, !.delivery = d]]
    <3>2. x.hand = [h EXCEPT !.commit = c, !.delivery = d] /\ x.pc = "sealed"  BY <1>h DEF RunType
    <3>3. run' = [run EXCEPT ![r] = x]  BY <3>1
    <3>4. [h EXCEPT !.commit = c, !.delivery = d].tree = h.tree  BY <1>e
    <3> HIDE DEF x
    <3> QED BY <3>2, <3>3, <3>4
  <2>6. CASE SaveCompleted(r)  BY <2>6 DEF SaveCompleted
  <2>7. CASE SaveFailed(r)  BY <2>7 DEF SaveFailed, SaveEnded
  <2>8. CASE LoseRecord(r)  BY <2>8 DEF LoseRecord
  <2> QED BY <2>1, <2>2, <2>3, <2>4, <2>5, <2>6, <2>7, <2>8 DEF Run
<1>3. \A q \in Ref \ {r} : tree'[q] = tree[q] \/ h.tree = q
  BY <1>t DEF Run, MarkRunning, BeginRun, AbortPreparation, Work, SaveRunning, EndRun, Seal,
         SaveCompleted, SaveFailed, LoseRecord, h
<1>4. Allowed(r, h.tree) /\ Allowed(r, NoMeta.tree)  BY AllowedSlots DEF h
<1>5. \A q \in Ref : Allowed(q, meta'[q].tree)  BY <1>1, <1>4, <1>t, AllowedSlots DEF Publish
<1>6. \A q \in Ref : Allowed(q, run'[q].hand.tree)
  <2> TAKE q \in Ref
  <2>1. CASE run'[q] = run[q]  BY <2>1, AllowedSlots
  <2>2. CASE q = r /\ run'[q] # run[q]
    <3>1. run'[r] = RunOff \/ run'[r].hand.tree = h.tree  BY <1>2, <1>t, <2>2
    <3> QED BY <1>4, <1>f, <2>2, <3>1
  <2>3. q # r => run'[q] = run[q]  BY <1>2, <1>t
  <2> QED BY <2>1, <2>2, <2>3
<1>7. \A t \in Ref : meta[t] # NoMeta /\ ~Fresh(t) => meta'[t] # NoMeta
  BY <1>1, <1>n, <1>t DEF Publish
<1>8. ASSUME NEW t \in Ref, Fresh(t)'
      PROVE  Fresh(t) /\ run'[t].hand.tree = t /\ tree'[t].head = 0 /\ ~tree'[t].dirty
  <2>1. CASE t # r
    <3>1. run'[t] = run[t]  BY <1>2, <1>t, <2>1
    <3>2. Fresh(t)  BY <1>8, <3>1 DEF Fresh
    <3>3. h.tree # t  BY <1>4, <2>1, <3>2 DEF Allowed
    <3> QED BY <1>3, <2>1, <3>1, <3>2, <3>3, FreshOwn
  <2>2. CASE t = r
    <3>1. run'[r].fresh /\ run'[r].pc \in {"prepared", "marked"}  BY <1>8, <2>2 DEF Fresh
    <3>2. \/ run' = run /\ tree' = tree
          \/ run'[r].hand.tree = h.tree /\ run[r].pc = "prepared" /\ run[r].fresh /\ tree' = tree
      <4>1. CASE run' = run
        <5>1. SaveRunning(r) \/ Work(r)
          BY <1>f, <1>h, <1>t, <3>1, <4>1
             DEF Run, MarkRunning, BeginRun, Enter, AbortPreparation, SaveEnded, EndRun, Seal,
                 SaveCompleted, SaveFailed, LoseRecord, RunType
        <5> QED BY <3>1, <4>1, <5>1 DEF SaveRunning, Work
      <4>2. CASE run' # run
        <5>1. run'[r] # RunOff  BY <3>1, <1>f
        <5> QED BY <1>2, <1>t, <3>1, <4>2, <5>1
      <4> QED BY <4>1, <4>2
    <3>3. Fresh(r)  BY <3>1, <3>2 DEF Fresh
    <3> QED BY <2>2, <3>2, <3>3, FreshOwn DEF h
  <2> QED BY <2>1, <2>2
<1>9. Allowed(op'.ref, op'.hand.tree) /\ \A p \in Runtime : Allowed(boot'[p].ref, boot'[p].hand.tree)
  BY <1>u, AllowedSlots
<1> QED BY <1>5, <1>6, <1>7, <1>8, <1>9, TreeKept

(* ... a call makes a new one, or shares one that is past its preparation ...*)
LEMMA CallTree ==
  ASSUME TypeOK, SoundInv, TreeInv, NEW p \in Runtime, Call(p)
  PROVE  TreeInv'
<1>t. /\ meta \in [Ref -> MetaType] /\ run \in [Ref -> RunType] /\ tree \in [Ref -> TreeType]
      /\ op \in OpType
  BY TypeParts
<1>u. boot' = boot  BY DEF Call, PrepareFresh, PrepareContinue, Accept, Rollback, Reject
<1>1. ASSUME NEW s \in Session, NEW r \in Ref, PrepareFresh(p, s, r)  PROVE TreeInv'
  <2> DEFINE x == [pc |-> "prepared", fresh |-> TRUE, wrote |-> FALSE, hand |-> NewMeta(s, None, r)]
  <2>1. /\ meta' = meta /\ op' = op /\ meta[r] = NoMeta
        /\ run' = [run EXCEPT ![r] = x] /\ tree' = [tree EXCEPT ![r] = NewTree]
    BY <1>1 DEF PrepareFresh, Prepare
  <2>2. x.hand.tree = r  BY DEF NewMeta, NoMeta
  <2>3. NewTree.head = 0 /\ ~NewTree.dirty  BY DEF NewTree, NoTree
  <2> HIDE DEF x
  <2>4. \A q \in Ref : Allowed(q, run'[q].hand.tree)  BY <1>t, <2>1, <2>2, AllowedSlots
  <2>5. ASSUME NEW t \in Ref, Fresh(t)'
        PROVE  /\ Fresh(t) \/ meta[t] = NoMeta
               /\ run'[t].hand.tree = t /\ tree'[t].head = 0 /\ ~tree'[t].dirty
    <3>1. CASE t = r  BY <1>t, <2>1, <2>2, <2>3, <3>1
    <3>2. CASE t # r
      <4>1. run'[t] = run[t] /\ tree'[t] = tree[t]  BY <1>t, <2>1, <3>2
      <4>2. Fresh(t)  BY <2>5, <4>1 DEF Fresh
      <4> QED BY <4>1, <4>2, FreshOwn
    <3> QED BY <3>1, <3>2
  <2> QED BY <1>u, <2>1, <2>4, <2>5, AllowedSlots, TreeKept
<1>2. ASSUME NEW s \in Session, NEW a \in Ref, NEW r \in Ref, PrepareContinue(p, a, s, r)
      PROVE  TreeInv'
  <2> DEFINE m == IF meta[r] = NoMeta THEN NewMeta(s, a, meta[a].tree) ELSE meta[r]
             x == [pc |-> "prepared", fresh |-> FALSE, wrote |-> FALSE, hand |-> m]
  <2>1. /\ meta' = meta /\ op' = op /\ tree' = tree /\ run' = [run EXCEPT ![r] = x]
        /\ meta[a] # NoMeta /\ run[a].pc = "off"
    BY <1>2 DEF PrepareContinue, Prepare, MayContinue, Resolves, Continuable, Free
  <2>2. x.hand.tree \in {meta[a].tree, meta[r].tree}  BY DEF NewMeta, NoMeta
  <2>3. x.fresh = FALSE  OBVIOUS
  <2> HIDE DEF x, m
  <2>4. Allowed(r, meta[a].tree)
    <3>1. ~Fresh(a)  BY <2>1 DEF Fresh
    <3>2. Allowed(a, meta[a].tree)  BY AllowedSlots
    <3> QED BY <2>1, <3>1, <3>2 DEF Allowed
  <2>5. \A q \in Ref : Allowed(q, run'[q].hand.tree)
    BY <1>t, <2>1, <2>2, <2>4, AllowedSlots
  <2>6. ASSUME NEW t \in Ref, Fresh(t)'
        PROVE  Fresh(t) /\ run'[t].hand.tree = t /\ tree'[t].head = 0 /\ ~tree'[t].dirty
    <3>1. run'[t] = run[t]  BY <1>t, <2>1, <2>3, <2>6 DEF Fresh
    <3>2. Fresh(t)  BY <2>6, <3>1 DEF Fresh
    <3> QED BY <2>1, <3>1, <3>2, FreshOwn
  <2> QED BY <1>u, <2>1, <2>5, <2>6, AllowedSlots, TreeKept
<1>h. ASSUME NEW r \in Ref, NEW m, NEW pc, Holding(r, m, pc), m.tree = meta[r].tree
      PROVE  Allowed(op'.ref, op'.hand.tree)
  BY <1>h, AllowedSlots DEF Holding
<1>3. ASSUME NEW r \in Ref, NEW kind \in {"apply", "merge"}, Accept(p, r, kind)  PROVE TreeInv'
  <2>1. run' = run /\ tree' = tree  BY <1>3 DEF Accept
  <2>2. PICK m : /\ Publish(r, m) /\ Holding(r, m, "intent")
                 /\ m = [meta[r] EXCEPT !.delivery = IF kind = "apply" THEN "applying" ELSE "merging",
                                        !.tx = [NoTx EXCEPT !.kind = kind, !.before = Tip]]
    BY <1>3 DEF Accept
  <2>3. m.tree = meta[r].tree /\ m.delivery # "none"  BY <1>t, <2>2 DEF MetaType
  <2>4. m # NoMeta  BY <2>3 DEF NoMeta
  <2>5. Allowed(r, m.tree)  BY <2>3, AllowedSlots
  <2> QED BY <1>h, <1>u, <2>1, <2>2, <2>3, <2>4, <2>5, TreeMoved
<1>4. ASSUME NEW r \in Ref, Rollback(p, r)  PROVE TreeInv'
  <2>1. run' = run /\ tree' = tree /\ meta' = meta /\ Holding(r, meta[r], "undone")
    BY <1>4 DEF Rollback
  <2> QED BY <1>h, <1>u, <2>1, TreeMoved
<1>5. ASSUME NEW r \in Ref, Reject(p, r)  PROVE TreeInv'
  <2>1. run' = run /\ meta' = meta /\ Holding(r, meta[r], "removed")  BY <1>5 DEF Reject
  <2>2. \A t \in Ref : tree'[t].head = tree[t].head /\ tree'[t].dirty = tree[t].dirty
    BY <1>5, <1>t DEF Reject, TreeType
  <2> QED BY <1>h, <1>u, <2>1, <2>2, TreeMoved
<1> QED BY <1>1, <1>2, <1>3, <1>4, <1>5 DEF Call

(* ... a delivery keeps the worktree of its record ...                      *)
LEMMA MutateTree ==
  ASSUME TypeOK, SoundInv, TreeInv, Mutate
  PROVE  TreeInv'
<1>t. op \in OpType /\ op.hand \in MetaType  BY TypeParts DEF OpType
<1>u. run' = run /\ tree' = tree /\ boot' = boot /\ op.pc # "none"
  BY DEF Mutate, ApplyPrepared, MergePrepared, CancelMerge, Refuse, SaveOutcome, LoseOutcome
<1>h. op.ref \in Ref /\ op.hand.tree \in Ref  BY <1>u DEF SoundInv, Handed
<1>1. \/ op' = OpOff
      \/ op'.ref = op.ref /\ op'.hand.tree = op.hand.tree
  <2>1. ASSUME Done(source')  PROVE op'.ref = op.ref /\ op'.hand.tree = op.hand.tree
    <3> DEFINE x == [op.hand.tx EXCEPT !.after = Len(source'.log), !.staged = source'.staged]
               m == [op.hand EXCEPT !.tx = x]
    <3>1. op' = [op EXCEPT !.pc = "changed", !.hand = m]  BY <2>1 DEF Done
    <3>2. m.tree = op.hand.tree  BY <1>t DEF MetaType
    <3> HIDE DEF m
    <3> QED BY <1>t, <3>1, <3>2 DEF OpType
  <2>2. CASE ApplyPrepared \/ MergePrepared
    BY <2>1, <2>2 DEF ApplyPrepared, MergePrepared
  <2>3. CASE CancelMerge \/ Refuse
    BY <1>t, <2>3 DEF CancelMerge, Refuse, OpType
  <2>4. CASE SaveOutcome \/ LoseOutcome  BY <2>4 DEF SaveOutcome, LoseOutcome
  <2> QED BY <2>2, <2>3, <2>4 DEF Mutate
<1>2. Allowed(op'.ref, op'.hand.tree)  BY <1>1, AllowedSlots DEF OpOff
<1>3. meta' = meta \/ Publish(op.ref, Outcome(op.hand))
  BY DEF Mutate, ApplyPrepared, MergePrepared, CancelMerge, Refuse, SaveOutcome, LoseOutcome
<1>4. Outcome(op.hand).tree = op.hand.tree  BY <1>t DEF Outcome, MetaType
<1>5. Outcome(op.hand) # NoMeta  BY <1>4, <1>h, DeliveryAssumption DEF NoMeta
<1>6. Allowed(op.ref, Outcome(op.hand).tree)  BY <1>4, AllowedSlots
<1> QED BY <1>h, <1>u, <1>2, <1>3, <1>5, <1>6, TreeMoved

(* ... a start too ...                                                      *)
LEMMA BootTree ==
  ASSUME TypeOK, SoundInv, TreeInv, NEW p \in Runtime, Boot(p) \/ Crash(p)
  PROVE  TreeInv'
<1> DEFINE b == boot[p]
<1>t. boot \in [Runtime -> BootType] /\ meta \in [Ref -> MetaType] /\ b \in BootType
  BY TypeParts
<1>u. tree' = tree
  BY DEF Boot, Start, SweepSave, Settle, Ready, SweepLoad, RecoverPending, Crash
<1>a. Allowed(b.ref, b.hand.tree) /\ \A q : Allowed(q, NoMeta.tree)  BY AllowedSlots
<1>f. BootOff.hand = NoMeta  BY DEF BootOff
<1>k. \A x : BootStep(p, x) /\ Allowed(x.ref, x.hand.tree) =>
             \A q \in Runtime : Allowed(boot'[q].ref, boot'[q].hand.tree)
  BY <1>t, AllowedSlots DEF BootStep
<1> SUFFICES ASSUME ~Crash(p) PROVE TreeInv'
  <2>1. CASE Crash(p)
    <3>1. BootStep(p, BootOff) /\ meta' = meta  BY <2>1 DEF Crash
    <3>2. \/ run' = run /\ op' = op
          \/ run' = [r \in Ref |-> RunOff] /\ op' = OpOff
      BY <2>1 DEF Crash
    <3>3. RunOff.pc = "off" /\ RunOff.hand = NoMeta /\ OpOff.hand = NoMeta  BY DEF RunOff, OpOff
    <3>4. \A q \in Ref : Allowed(q, run'[q].hand.tree)  BY <1>a, <3>2, <3>3, AllowedSlots
    <3>5. Allowed(op'.ref, op'.hand.tree)  BY <1>a, <3>2, <3>3, AllowedSlots
    <3>6. \A q \in Runtime : Allowed(boot'[q].ref, boot'[q].hand.tree)  BY <1>a, <1>f, <1>k, <3>1
    <3>7. ASSUME NEW t \in Ref, Fresh(t)'
          PROVE  Fresh(t) /\ run'[t].hand.tree = t /\ tree'[t].head = 0 /\ ~tree'[t].dirty
      <4>1. run' = run  BY <3>2, <3>3, <3>7 DEF Fresh
      <4>2. Fresh(t)  BY <3>7, <4>1 DEF Fresh
      <4> QED BY <1>u, <4>1, <4>2, FreshOwn
    <3> QED BY <3>1, <3>4, <3>5, <3>6, <3>7, AllowedSlots, TreeKept
  <2> QED BY <2>1
<1>r. run' = run /\ op' = op
  BY DEF Boot, Start, SweepSave, Settle, Ready, SweepLoad, RecoverPending
<1>o. Allowed(op'.ref, op'.hand.tree)  BY <1>r, AllowedSlots
<1>b. ASSUME NEW x, BootStep(p, x), Allowed(x.ref, x.hand.tree),
             \/ meta' = meta
             \/ \E q \in Ref : \E y : Publish(q, y) /\ Allowed(q, y.tree) /\ y # NoMeta
      PROVE  TreeInv'
  BY <1>b, <1>o, <1>r, <1>u, TreeMoved
<1>1. CASE Start(p)
  <2> DEFINE x == [BootOff EXCEPT !.pc = "sweep", !.todo = {r \in Ref : meta[r] # NoMeta}]
  <2>1. BootStep(p, x) /\ meta' = meta  BY <1>1 DEF Start
  <2>2. x.hand = NoMeta  BY DEF BootOff
  <2> HIDE DEF x
  <2> QED BY <1>a, <1>b, <2>1, <2>2
<1>2. CASE Settle(p)
  <2> DEFINE x == [b EXCEPT !.pc = "settle", !.todo = {r \in Ref : meta[r].delivery \in Pending}]
  <2>1. BootStep(p, x) /\ meta' = meta  BY <1>2 DEF Settle
  <2>2. x.ref = b.ref /\ x.hand = b.hand  BY <1>t DEF BootType
  <2> HIDE DEF x
  <2> QED BY <1>a, <1>b, <2>1, <2>2
<1>3. CASE Ready(p)
  <2> DEFINE x == [BootOff EXCEPT !.pc = "up"]
  <2>1. BootStep(p, x) /\ meta' = meta  BY <1>3 DEF Ready
  <2>2. x.hand = NoMeta  BY DEF BootOff
  <2> HIDE DEF x
  <2> QED BY <1>a, <1>b, <2>1, <2>2
<1>4. CASE SweepSave(p)
  <2>1. b.ref \in Ref /\ b.hand \in MetaType /\ b.hand.tree \in Ref
    BY <1>4, <1>t, BootUpdates DEF SweepSave, SoundInv, Handed
  <2>2. Publish(b.ref, Reconciled(b.hand))  BY <1>4 DEF SweepSave
  <2>3. Reconciled(b.hand).tree = b.hand.tree  BY <2>1 DEF Reconciled, MetaType
  <2>4. Reconciled(b.hand) # NoMeta  BY <2>1, <2>3, DeliveryAssumption DEF NoMeta
  <2> DEFINE x == [b EXCEPT !.pc = "sweep", !.ref = None, !.hand = NoMeta]
  <2>5. BootStep(p, x)  BY <1>4 DEF SweepSave
  <2>6. x.hand = NoMeta  BY <1>t DEF BootType
  <2> HIDE DEF x, b
  <2> QED BY <1>a, <1>b, <2>1, <2>2, <2>3, <2>4, <2>5, <2>6
<1>5. ASSUME NEW r \in Ref, SweepLoad(p, r)  PROVE TreeInv'
  <2> DEFINE c == [b EXCEPT !.todo = b.todo \ {r}]
             x == [c EXCEPT !.pc = "save", !.ref = r, !.hand = meta[r]]
  <2>1. meta' = meta /\ (BootStep(p, x) \/ BootStep(p, c))  BY <1>5 DEF SweepLoad
  <2>2. c.ref = b.ref /\ c.hand = b.hand  BY <1>t DEF BootType
  <2>3. x.ref = r /\ x.hand = meta[r]  BY <1>t DEF BootType
  <2> HIDE DEF x, c
  <2> QED BY <1>a, <1>b, <2>1, <2>2, <2>3, AllowedSlots
<1>6. ASSUME NEW r \in Ref, RecoverPending(p, r)  PROVE TreeInv'
  <2> DEFINE x == [b EXCEPT !.todo = b.todo \ {r}]
             m == meta[r]
  <2>1. BootStep(p, x) \/ BootStep(p, BootOff)  BY <1>6 DEF RecoverPending
  <2>2. x.ref = b.ref /\ x.hand = b.hand  BY <1>t DEF BootType
  <2>3. \/ meta' = meta \/ Publish(r, m)
        \/ m.delivery \in Pending /\ Publish(r, Recovered(m))
    BY <1>6 DEF RecoverPending
  <2>4. m \in MetaType  BY <1>t
  <2>5. ASSUME m.delivery \in Pending
        PROVE  Recovered(m).tree = m.tree /\ Recovered(m) # NoMeta
    <3>1. m.tree \in Ref  BY <2>5, RecordHasTree DEF Pending, NoMeta
    <3>2. /\ [m EXCEPT !.delivery = "ready", !.tx = NoTx].tree = m.tree
          /\ [m EXCEPT !.delivery = "merged", !.tx = [m.tx EXCEPT !.after = Tip]].tree = m.tree
          /\ [m EXCEPT !.delivery = "acceptance_interrupted"].tree = m.tree
      BY <2>4 DEF MetaType
    <3> HIDE DEF m
    <3>3. Recovered(m).tree = m.tree  BY <3>2 DEF Recovered
    <3> QED BY <3>1, <3>3, DeliveryAssumption DEF NoMeta
  <2>6. meta' = meta \/ \E q \in Ref : \E y : Publish(q, y) /\ Allowed(q, y.tree) /\ y # NoMeta
    <3>1. Publish(r, m) => meta' = meta  BY <1>t DEF Publish
    <3>2. Allowed(r, m.tree)  BY AllowedSlots
    <3> HIDE DEF m
    <3> QED BY <2>3, <2>5, <3>1, <3>2
  <2> HIDE DEF x
  <2> QED BY <1>a, <1>b, <1>f, <2>1, <2>2, <2>6
<1> QED BY <1>1, <1>2, <1>3, <1>4, <1>5, <1>6 DEF Boot

(* ... and so every step keeps the worktrees apart.                         *)
LEMMA TreeStep ==
  ASSUME TypeOK, SoundInv, TreeInv, [Next]_vars
  PROVE  TreeInv'
<1>1. ASSUME User \/ Release \/ (\E t \in Ref : LoseTree(t)) \/ UNCHANGED vars
      PROVE  TreeInv'
  <2>1. meta' = meta /\ run' = run /\ op' = op /\ boot' = boot
    BY <1>1 DEF User, UserEdit, UserStage, UserCommit, UserDiscard, Release, LoseTree, vars
  <2>2. \A t \in Ref : tree'[t].head = tree[t].head /\ tree'[t].dirty = tree[t].dirty
    <3>1. tree' = tree \/ \E t \in Ref : LoseTree(t)
      BY <1>1 DEF User, UserEdit, UserStage, UserCommit, UserDiscard, Release, vars
    <3>2. tree \in [Ref -> TreeType]  BY TypeParts
    <3> QED BY <3>1, <3>2 DEF LoseTree, TreeType
  <2> QED BY <2>1, <2>2, AllowedSlots, TreeMoved
<1> QED BY <1>1, RunTree, CallTree, MutateTree, BootTree DEF Next

----------------------------------------------------------------------------
(* The theorems.                                                            *)

(* The three facts of the proof: the invariant holds at first ...           *)
LEMMA InitIInv == Init => IInv
<1> SUFFICES ASSUME Init PROVE IInv  OBVIOUS
<1>0. /\ source = [log |-> <<Own>>, held |-> {}, staged |-> {}, edit |-> FALSE, over |-> FALSE]
      /\ op = OpOff /\ given = {} /\ lapsed = {} /\ faults = 0 /\ holder = None
      /\ meta = [r \in Ref |-> NoMeta] /\ run = [r \in Ref |-> RunOff]
      /\ boot = [p \in Runtime |-> BootOff] /\ tree = [r \in Ref |-> NoTree]
  BY DEF Init
<1>1. Own \in Commit /\ Own[2] = 0  BY CommitTyped, OwnIsNotGiven
<1>2. source.log = <<Own>> /\ <<Own>> \in Seq(Commit) /\ Tip = 1 /\ source.log[1] = Own
  BY <1>0, <1>1 DEF Tip
<1>3. /\ RunOff.pc = "off" /\ RunOff.hand = NoMeta /\ OpOff.pc = "none" /\ OpOff.hand = NoMeta
      /\ BootOff.pc = "off" /\ BootOff.hand = NoMeta /\ OpOff.ref = None
      /\ NoMeta.tree = None /\ NoMeta.delivery = "none"
  BY DEF RunOff, OpOff, BootOff, NoMeta
<1>4. TypeOK
  <2>1. source \in SourceType  BY <1>0, <1>2 DEF SourceType
  <2>2. /\ boot \in [Runtime -> BootType] /\ meta \in [Ref -> MetaType]
        /\ run \in [Ref -> RunType] /\ op \in OpType
    BY <1>0, Constants, OpUpdates
  <2>3. tree \in [Ref -> TreeType]  BY <1>0, TreeUpdates
  <2>4. 0 \in 0 .. MaxFault /\ None \in Runtime \cup {None}  BY DeliveryAssumption
  <2> QED BY <1>0, <2>1, <2>2, <2>3, <2>4, TypeParts
<1>5. AllSound
  <2>1. Sound(NoMeta, Tip, given)  BY <1>2, SoundNew
  <2> QED BY <1>0, <1>3, <2>1 DEF AllSound
<1>6. Handed  BY <1>0, <1>3, DeliveryAssumption DEF Handed
<1>7. LogGiven  BY <1>1, <1>2 DEF LogGiven
<1>8. RecordInv
  <2>1. InSource = {}  BY <1>0 DEF InSource
  <2> QED BY <1>0, <1>3, <2>1, NameKinds DEF RecordInv, AcceptanceRecorded, Outside, Intended, InSource
<1>9. TreeInv
  BY <1>0, <1>3, DeliveryAssumption DEF TreeInv, Shared, Fresh
<1> QED BY <1>4, <1>5, <1>6, <1>7, <1>8, <1>9 DEF IInv, SoundInv

(* ... and every step keeps it.                                             *)
LEMMA StepIInv == IInv /\ [Next]_vars => IInv'
BY TypeStep, SoundStep, RecordStep, TreeStep DEF IInv

(* The invariant holds in every reachable state.                            *)
THEOREM Invariance == Spec => []IInv
<1>1. Init => IInv  BY InitIInv
<1>2. IInv /\ [Next]_vars => IInv'  BY StepIInv
<1> QED BY <1>1, <1>2, PTL DEF Spec

(* Every variable keeps the type it is declared with.                       *)
THEOREM TypeCorrect == Spec => []TypeOK
<1>1. IInv => TypeOK  BY DEF IInv
<1> QED BY <1>1, Invariance, PTL

(* A delivery that the source contains is on record as accepted or begun,   *)
(* whoever dies where, unless its record lapsed (MutateDelivery writes the  *)
(* intent first; ReconcilePendingDeliveries settles it).                    *)
THEOREM AcceptanceIsRecorded == Spec => []AcceptanceRecorded
<1>1. IInv => AcceptanceRecorded  BY DEF IInv, RecordInv
<1> QED BY <1>1, Invariance, PTL

(* What a record calls applied or merged was put into the source: neither   *)
(* MutateDelivery nor RecoverPrepared claims what did not happen.           *)
THEOREM AcceptedAreTrue == Spec => []AcceptedIsTrue
<1>1. IInv => AcceptedIsTrue  BY DEF IInv, SoundInv, AllSound, Sound, AcceptedIsTrue
<1> QED BY <1>1, Invariance, PTL

(* The action of SourceKept.                                                *)
SourceStep ==
    /\ Len(source'.log) >= Tip /\ SubSeq(source'.log, 1, Tip) = source.log
    /\ source.edit /\ ~source'.edit => UserCommit \/ UserDiscard
    /\ source.over /\ ~source'.over =>
           \/ UserCommit \/ UserDiscard
           \/ op'.pc = "undone" /\ op'.hand.tx.staged = source.staged

(* A step undoes nothing of the user's.                                     *)
LEMMA SourceStepKept == IInv /\ [Next]_vars => SourceStep
<1> SUFFICES ASSUME IInv, [Next]_vars PROVE SourceStep  OBVIOUS
<1>t. TypeOK /\ SoundInv /\ source \in SourceType /\ source.log \in Seq(Commit)
  BY TypeParts, SourceUpdates DEF IInv
<1>1. Len(source'.log) >= Tip /\ SubSeq(source'.log, 1, Tip) = source.log
  <2>1. SubSeq(source.log, 1, Tip) = source.log /\ Tip \in Nat  BY <1>t, SubSeqFull DEF Tip
  <2>2. CASE source'.log = source.log  BY <2>1, <2>2 DEF Tip
  <2>3. ASSUME NEW c \in Commit, source'.log = Append(source.log, c)
        PROVE  Len(source'.log) >= Tip /\ SubSeq(source'.log, 1, Tip) = source.log
    <3> DEFINE l == source.log
    <3>1. /\ Append(l, c) \in Seq(Commit) /\ Len(Append(l, c)) = Len(l) + 1
          /\ \A i \in 1 .. Len(l) : Append(l, c)[i] = l[i]
      BY <1>t, AppendProperties
    <3>2. 1 \in 1 .. Len(Append(l, c)) + 1 /\ Len(l) \in 1 - 1 .. Len(Append(l, c))
      BY <1>t, <3>1
    <3>3. /\ SubSeq(Append(l, c), 1, Len(l)) \in Seq(Commit)
          /\ Len(SubSeq(Append(l, c), 1, Len(l))) = Len(l)
          /\ \A i \in 1 .. Len(l) : SubSeq(Append(l, c), 1, Len(l))[i] = Append(l, c)[i]
      BY <1>t, <3>1, <3>2, SubSeqProperties
    <3>4. SubSeq(Append(l, c), 1, Len(l)) = l  BY <1>t, <3>1, <3>3, SeqEqual
    <3> QED BY <1>t, <2>3, <3>1, <3>4 DEF Tip
  <2> QED BY <1>t, <2>2, <2>3, SourceGrows DEF Grown
<1>2. ASSUME NEW p \in Runtime, NEW r \in Ref, Rollback(p, r)
      PROVE  /\ ~source.edit
             /\ \/ source'.over = source.over
                \/ op'.pc = "undone" /\ op'.hand.tx.staged = source.staged
  <2>1. /\ [staged |-> source.staged, edit |-> source.edit] = [staged |-> meta[r].tx.staged, edit |-> FALSE]
        /\ op' = [pc |-> "undone", ref |-> r, hand |-> meta[r]]
    BY <1>2 DEF Rollback, Digest, Holding
  <2> QED BY <2>1
<1>3. ASSUME ~UserCommit, ~UserDiscard, ~\E p \in Runtime, r \in Ref : Rollback(p, r)
      PROVE  source'.edit \in {source.edit, TRUE} /\ source'.over \in {source.over, TRUE}
  <2>1. \/ source' = source
        \/ source' = [source EXCEPT !.edit = TRUE]
        \/ source' = [source EXCEPT !.over = TRUE]
        \/ \E x : source' = [source EXCEPT !.staged = x]
        \/ \E x, y : source' = [source EXCEPT !.log = x, !.held = y]
    <3>1. CASE Mutate
      <4>1. CASE ApplyPrepared  BY <4>1 DEF ApplyPrepared
      <4>2. CASE MergePrepared \/ CancelMerge  BY <4>2 DEF MergePrepared, CancelMerge, Merge
      <4> QED BY <3>1, <4>1, <4>2 DEF Mutate, Refuse, SaveOutcome, LoseOutcome
    <3>2. CASE User \/ Release \/ UNCHANGED vars
      BY <1>3, <3>2 DEF User, UserEdit, UserStage, Release, vars
    <3>3. ASSUME NEW r \in Ref, Run(r) \/ LoseTree(r)  PROVE source' = source
      BY <3>3 DEF Run, MarkRunning, BeginRun, AbortPreparation, Work, SaveRunning, EndRun, Seal,
                  SaveCompleted, SaveFailed, LoseRecord, LoseTree
    <3>4. ASSUME NEW p \in Runtime, Call(p) \/ Boot(p) \/ Crash(p)  PROVE source' = source
      BY <1>3, <3>4 DEF Call, PrepareFresh, PrepareContinue, Accept, Reject, Boot, Start, SweepSave,
                        Settle, Ready, SweepLoad, RecoverPending, Crash
    <3> QED BY <3>1, <3>2, <3>3, <3>4 DEF Next
  <2> QED BY <1>t, <2>1 DEF SourceType
<1>4. source.edit \in BOOLEAN /\ source.over \in BOOLEAN  BY <1>t DEF SourceType
<1> QED BY <1>1, <1>2, <1>3, <1>4 DEF SourceStep

(* The code undoes no commit of the user, and no edit that git status shows *)
(* (Rollback compares head and status first).                               *)
THEOREM SourceIsKept == Spec => SourceKept
<1>1. IInv /\ [Next]_vars => [SourceStep]_vars  BY SourceStepKept
<1>2. [][SourceStep]_vars => SourceKept  BY PTL DEF SourceKept, SourceStep
<1> QED BY <1>1, <1>2, Invariance, PTL DEF Spec

(* The action of WorkSurvives.                                              *)
WorkStep ==
    \A t \in Ref : HasWork(t) /\ ~tree'[t].live =>
        \/ LoseTree(t)
        \/ \E r \in Ref : /\ op'.pc = "removed" /\ op'.ref = r
                          /\ meta[r].tree = t /\ run[r].pc = "off"

(* A step loses no work but by reject.                                      *)
LEMMA WorkStepKept == IInv /\ [Next]_vars => WorkStep
<1> SUFFICES ASSUME IInv, [Next]_vars, NEW t \in Ref, HasWork(t), ~tree'[t].live
             PROVE  \/ LoseTree(t)
                    \/ \E r \in Ref : /\ op'.pc = "removed" /\ op'.ref = r
                                      /\ meta[r].tree = t /\ run[r].pc = "off"
  BY DEF WorkStep
<1>t. TypeOK /\ SoundInv /\ TreeInv /\ tree \in [Ref -> TreeType] /\ tree[t] \in TreeType
  BY TypeParts DEF IInv
<1>1. tree[t].live /\ (tree[t].head > 0 \/ tree[t].dirty)  BY DEF HasWork
<1>2. tree' # tree  BY <1>1
<1>3. ASSUME NEW r \in Ref, Run(r)  PROVE FALSE
  <2>1. PICK q, x : tree' = [tree EXCEPT ![q] = x] /\ (q = t => x.live)
    <3>1. CASE AbortPreparation(r)
      <4>1. run[r].fresh /\ run[r].pc \in {"prepared", "marked"} /\ tree' = [tree EXCEPT ![r] = NoTree]
        BY <1>2, <3>1 DEF AbortPreparation
      <4>2. r # t
        <5>1. SUFFICES ASSUME r = t PROVE FALSE  OBVIOUS
        <5>2. Fresh(t)  BY <4>1, <5>1 DEF Fresh
        <5> QED BY <1>1, <1>t, <5>2, FreshOwn
      <4> QED BY <4>1, <4>2
    <3>2. CASE Work(r)
      <4> DEFINE q == run[r].hand.tree
                 x == [tree[q] EXCEPT !.dirty = TRUE]
      <4>1. tree' = [tree EXCEPT ![q] = x]  BY <3>2 DEF Work
      <4>2. q = t => x.live  BY <1>1, <1>t DEF TreeType
      <4> QED BY <4>1, <4>2
    <3>3. CASE Seal(r)
      <4> DEFINE q == run[r].hand.tree
                 n == IF tree[q].dirty /\ tree[q].head < MaxSeal THEN tree[q].head + 1 ELSE tree[q].head
                 x == [tree[q] EXCEPT !.head = n, !.dirty = FALSE]
      <4>1. tree' = [tree EXCEPT ![q] = x]  BY <3>3 DEF Seal
      <4> HIDE DEF n
      <4>2. q = t => x.live  BY <1>1, <1>t DEF TreeType
      <4> QED BY <4>1, <4>2
    <3> QED BY <1>2, <1>3, <3>1, <3>2, <3>3
            DEF Run, MarkRunning, BeginRun, SaveRunning, EndRun, SaveCompleted, SaveFailed, LoseRecord
  <2> QED BY <1>1, <1>t, <2>1
<1>4. ASSUME NEW p \in Runtime, NEW r \in Ref, Reject(p, r)
      PROVE  op'.pc = "removed" /\ op'.ref = r /\ meta[r].tree = t /\ run[r].pc = "off"
  <2>1. /\ op' = [pc |-> "removed", ref |-> r, hand |-> meta[r]] /\ run[r].pc = "off"
        /\ tree' = [tree EXCEPT ![meta[r].tree] = [tree[meta[r].tree] EXCEPT !.live = FALSE, !.known = FALSE]]
    BY <1>4 DEF Reject, Holding, Free
  <2>2. meta[r].tree = t
    <3>1. meta[r].tree # t => tree'[t] = tree[t]  BY <1>t, <2>1
    <3> QED BY <1>1, <3>1
  <2> QED BY <2>1, <2>2
<1>5. ASSUME NEW p \in Runtime, NEW s \in Session, NEW r \in Ref, PrepareFresh(p, s, r)  PROVE FALSE
  <2>1. tree' = [tree EXCEPT ![r] = NewTree] /\ tree[r] = NoTree  BY <1>5 DEF PrepareFresh
  <2>2. NewTree.live /\ NoTree.live = FALSE  BY DEF NewTree, NoTree
  <2> QED BY <1>1, <1>t, <2>1, <2>2
<1>6. ASSUME NEW q \in Ref, LoseTree(q)  PROVE LoseTree(t)
  <2>1. q # t => tree'[t] = tree[t]  BY <1>t, <1>6 DEF LoseTree
  <2> QED BY <1>1, <1>6, <2>1
<1>7. CASE Mutate
  BY <1>2, <1>7 DEF Mutate, ApplyPrepared, MergePrepared, CancelMerge, Refuse, SaveOutcome, LoseOutcome
<1>8. CASE User \/ Release \/ UNCHANGED vars
  BY <1>2, <1>8 DEF User, UserEdit, UserStage, UserCommit, UserDiscard, Release, vars
<1>9. ASSUME NEW p \in Runtime, Boot(p) \/ Crash(p)  PROVE FALSE
  BY <1>2, <1>9 DEF Boot, Start, SweepSave, Settle, Ready, SweepLoad, RecoverPending, Crash
<1>10. ASSUME NEW p \in Runtime, Call(p)
       PROVE  \/ \E s \in Session, r \in Ref : PrepareFresh(p, s, r)
              \/ \E r \in Ref : Reject(p, r)
  BY <1>2, <1>10 DEF Call, PrepareContinue, Accept, Rollback
<1> QED BY <1>3, <1>4, <1>5, <1>6, <1>7, <1>8, <1>9, <1>10 DEF Next

(* The work of a run goes with a reject, or by another hand; not with a     *)
(* preparation that fails (abortBeforeExecution) and not with a start.      *)
THEOREM WorkIsKept == Spec => WorkSurvives
<1>1. IInv /\ [Next]_vars => [WorkStep]_vars  BY WorkStepKept
<1>2. [][WorkStep]_vars => WorkSurvives  BY PTL DEF WorkSurvives, WorkStep
<1> QED BY <1>1, <1>2, Invariance, PTL DEF Spec
=============================================================================
