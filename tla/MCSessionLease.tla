--------------------------- MODULE MCSessionLease ---------------------------
(* Two processes: one with a runtime and a cleaner, one with a runtime.    *)
(* Or three runtimes that only come and go.                                *)
EXTENDS SessionLease, TLC

CONSTANTS a1, a2, a3, p1, p2

MCActor == {a1, a2, a3}
MCProcess == {p1, p2}
MCProcessOf == (a1 :> p1) @@ (a2 :> p1) @@ (a3 :> p2)

EveryTask == {"lease", "reclaim", "probe", "remove", "save", "sweep"}
MCTasks == [a \in Actor |-> EveryTask]
SameProcess == Permutations({a1, a2})
LeaseOnly == [a \in Actor |-> {"lease"}]
=============================================================================
