--------------------------- MODULE MCBotDelivery ---------------------------
(* A session that receives a task and then another task, a /stop or an     *)
(* informational command, in every queue mode; or three tasks, of which    *)
(* one overflows the queue.                                                *)
EXTENDS BotDelivery, TLC

CONSTANTS m1, m2, m3, t1, t2

Policy(mode, drop, cap) == [mode |-> mode, drop |-> drop, cap |-> cap]

TwoMessages == {m1, m2}
ThreeMessages == {m1, m2, m3}
TwoTurns == {t1, t2}

TaskThenAny == {(m1 :> "task") @@ (m2 :> k) : k \in {"task", "stop", "command"}}
ThreeTasks == {[m \in ThreeMessages |-> "task"]}

EveryMode == {Policy("steer", "old", 1), Policy("followup", "new", 1),
              Policy("collect", "old", 1), Policy("interrupt", "old", 1)}
Queueing == {Policy("followup", "old", 1), Policy("collect", "old", 1),
             Policy("collect", "old", 2), Policy("followup", "new", 1),
             Policy("steer", "new", 1)}

TwoThenOne == [m \in Message |-> IF m = m1 THEN 2 ELSE 1]
OneEach == [m \in Message |-> 1]
=============================================================================
