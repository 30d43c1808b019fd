------------------------ MODULE MCSubscriptionIntake ------------------------
(* Instances of SubscriptionIntake for TLC. *)
EXTENDS SubscriptionIntake, TLC

CONSTANTS w1, w2, e1, e2, e3, e4, roll, take, halt, stop, over, back, basic, plus, own

\* The end of access comes and goes again with the revisions; e3 is a repetition of e2.  The sweep's
\* query looks for another date than the resolver's in e4.
SnapshotHere ==
    [e \in Events |->
        CASE e = e1 -> [src |-> 1, cut |-> 2, due |-> 2, window |-> 2]
          [] e = e2 -> [src |-> 2, cut |-> Never, due |-> Never, window |-> 2]
          [] e = e4 -> [src |-> 1, cut |-> 1, due |-> 2, window |-> 2]
          [] OTHER -> [src |-> 2, cut |-> Never, due |-> Never, window |-> 2]]

An(kind, w, s, plan, window, at) ==
    [kind |-> kind, w |-> w, sub |-> s, plan |-> plan, window |-> window, at |-> at]
OrderHere ==
    [i \in Intents |->
        CASE i = roll -> An("rollout", w1, Provided, plus, 0, 0)
          [] i = take -> An("assign", w1, own, plus, 2, 1)
          [] i = halt -> An("end", w1, own, plus, 0, 1)
          [] i = stop -> An("end", w1, Provided, plus, 0, 0)
          [] i = over -> An("override", w1, Provided, plus, 0, 0)
          [] OTHER -> An("override_end", w1, Provided, plus, 0, 0)]
BasicForAll == [w \in Workspaces |-> basic]

Scene(js, time, may, most) == [jobs |-> js, time |-> time, may |-> may, most |-> most]
ScenesHere ==
    {Scene({e1, e2}, 0, {"crash", "slow"}, 1), Scene({e2, e3}, 0, {"answer", "slow"}, 1),
     Scene({e1, e2, e3}, 0, {}, 0), Scene({e1}, 2, {"query", "crash"}, 1), Scene({e4}, 2, {"crash"}, 1),
     Scene({e1, roll}, 0, {"crash", "query"}, 1), Scene({roll, take}, 1, {"slow", "answer"}, 1),
     Scene({stop, e2}, 0, {"crash", "query"}, 1), Scene({stop, roll}, 0, {"slow"}, 1),
     Scene({over, back}, 0, {"slow", "crash"}, 2), Scene({over, take}, 1, {"query"}, 3),
     Scene({take, halt}, 1, {}, 0)}
=============================================================================
