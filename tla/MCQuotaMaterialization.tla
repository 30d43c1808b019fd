----------------------- MODULE MCQuotaMaterialization -----------------------
(* Instances of QuotaMaterialization for TLC. *)
EXTENDS QuotaMaterialization, TLC

CONSTANTS a, b, w1, w2

\* Projections that go from one policy to another and back.
ThereAndBack == [r \in 1..MaxRevision |-> IF r % 2 = 1 THEN a ELSE b]

Scene(may, most, n, m) ==
    [may |-> may, most |-> most, wants |-> [w \in Workspaces |-> IF w = w1 THEN n ELSE m]]

\* Answers, queries and workers fail; a foreign hand or the ledger intervenes; operators and audits
\* come; a second workspace waits for the first.
ScenesHere ==
    {Scene({"answer", "query"}, 2, 2, 0), Scene({"slow", "answer"}, 2, 2, 0), Scene({"slow", "crash"}, 2, 2, 0),
     Scene({"slow", "foreign"}, 2, 3, 0), Scene({"slow", "remove"}, 2, 2, 0),
     Scene({"foreign", "reapply", "query", "answer"}, 3, 2, 0), Scene({"ledger", "query", "retry"}, 2, 2, 0),
     Scene({"look", "foreign", "retry"}, 3, 2, 0), Scene({"pause", "resume", "crash"}, 2, 1, 1)}
=============================================================================
