-------------------------- MODULE MCTriggerRuntime --------------------------
(* Instances of TriggerRuntime for TLC. *)
EXTENDS TriggerRuntime, TLC

CONSTANTS c1, c2, t1, t2

Symmetry == Permutations(Procs)

\* Every call has a key of its own.
OwnKeys == [c \in Calls |-> IF c = c1 THEN {t1} ELSE {t2}]
\* The second call may deliver the key of the first again.
OwnOrSame == [c \in Calls |-> IF c = c1 THEN {t1} ELSE {t1, t2}]
\* The calls are deliveries of the same key.
SameKey == [c \in Calls |-> {t1}]

NoCascade == [t \in Triggers |-> {}]
\* Every handler may cascade t2, and t2 would cascade itself.
ToT2 == [t \in Triggers |-> {t2}]
=============================================================================
