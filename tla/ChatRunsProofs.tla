--------------------------- MODULE ChatRunsProofs ---------------------------
(***************************************************************************)
(* What a chat run promises, for every set of requests, any number of      *)
(* suspends and any number of queries that throw.                          *)
(***************************************************************************)
EXTENDS ChatRuns, TLAPS

-----------------------------------------------------------------------------
(* How the requests move                                                   *)

Stages == {"idle", "register", "reserve", "begin", "refused", "abandon", "giveBack", "read", "card", "reconcile",
           "interrupted", "consume", "delivered", "claim", "window", "continue", "go", "undo", "done"} \cup RunStages

\* The request q is at pc with these fields, and no other request has moved.
Became(q, pc, key, prev, out) ==
    /\ req' \in [Requests -> RequestRecord]
    /\ req'[q].pc = pc /\ req'[q].key = key /\ req'[q].prev = prev /\ req'[q].out = out
    /\ \A p \in Requests : p # q => req'[p] = req[p]

LEMMA Changed ==
    ASSUME TypeOK, NEW q \in Requests, NEW r \in RequestRecord, req' = [req EXCEPT ![q] = r]
    PROVE  Became(q, r.pc, r.key, r.prev, r.out)
  BY DEF TypeOK, Became

LEMMA GotoMoves ==
    ASSUME TypeOK, NEW q \in Requests, NEW pc \in Stages, Goto(q, pc)
    PROVE  Became(q, pc, req[q].key, req[q].prev, req[q].out)
<1> DEFINE r == [req[q] EXCEPT !.pc = pc]
<1>1. r \in RequestRecord /\ r.pc = pc /\ r.key = req[q].key /\ r.prev = req[q].prev /\ r.out = req[q].out
  BY DEF TypeOK, RequestRecord, Stages
<1>2. req' = [req EXCEPT ![q] = r]
  BY DEF Goto
<1> HIDE DEF r
<1> QED
  BY <1>1, <1>2, Changed

LEMMA YieldsMoves ==
    ASSUME TypeOK, NEW q \in Requests, NEW pc \in Stages, NEW out \in {"success", "suspended", "failed"},
           Yields(q, pc, out)
    PROVE  Became(q, pc, req[q].key, req[q].prev, out)
<1> DEFINE r == [req[q] EXCEPT !.pc = pc, !.out = out]
<1>1. r \in RequestRecord /\ r.pc = pc /\ r.key = req[q].key /\ r.prev = req[q].prev /\ r.out = out
  BY DEF TypeOK, RequestRecord, Stages
<1>2. req' = [req EXCEPT ![q] = r]
  BY DEF Yields
<1> HIDE DEF r
<1> QED
  BY <1>1, <1>2, Changed

LEMMA LoadsMoves ==
    ASSUME TypeOK, NEW q \in Requests, NEW pc \in Stages, NEW k \in Keys, Loads(q, k, pc)
    PROVE  Became(q, pc, k, req[q].prev, req[q].out)
<1> DEFINE r == [req[q] EXCEPT !.pc = pc, !.key = k, !.ended = IF Terminal(wf.status) THEN "yes" ELSE "no"]
<1>1. r \in RequestRecord /\ r.pc = pc /\ r.key = k /\ r.prev = req[q].prev /\ r.out = req[q].out
  BY DEF TypeOK, RequestRecord, Stages
<1>2. req' = [req EXCEPT ![q] = r]
  BY DEF Loads
<1> HIDE DEF r
<1> QED
  BY <1>1, <1>2, Changed

LEMMA ClaimsMoves ==
    ASSUME TypeOK, NEW q \in Requests, Claims(q), Claimable(q)
    PROVE  Became(q, "window", req[q].key, fence[req[q].key].st, req[q].out)
<1>1. PICK st \in {"pending", "consumed"} : st = fence[req[q].key].st
  BY DEF Claimable
<1> DEFINE r == [req[q] EXCEPT !.pc = "window", !.prev = st]
<1>2. r \in RequestRecord /\ r.pc = "window" /\ r.key = req[q].key /\ r.prev = st /\ r.out = req[q].out
  BY DEF TypeOK, RequestRecord
<1>3. req' = [req EXCEPT ![q] = r]
  BY <1>1 DEF Claims
<1> HIDE DEF r
<1> QED
  BY <1>1, <1>2, <1>3, Changed

\* A crash ends every request that had come.
LEMMA CrashMoves ==
    ASSUME TypeOK, Crash
    PROVE  /\ req' \in [Requests -> RequestRecord]
           /\ \A q \in Requests : IF req[q].pc = "idle" THEN req'[q] = req[q] ELSE req'[q].pc = "done"
<1>1. \A r \in RequestRecord : [r EXCEPT !.pc = "done"] \in RequestRecord
  BY DEF RequestRecord
<1>2. \A r \in RequestRecord : [r EXCEPT !.pc = "done"].pc = "done"
  BY DEF RequestRecord
<1> QED
  BY <1>1, <1>2 DEF TypeOK, Crash, At

\* The key the persisted state yields is a key.
LEMMA StateKeysAreKeys == TypeOK => StateKeys \subseteq Keys
  BY ChatAssumption DEF TypeOK, StateKeys, Keys

\* What becomes of a fence is a fence.
LEMMA FencesKept ==
    TypeOK => /\ \A q \in Requests : DecisionOf[q] \in Decisions /\ req[q].key \in Keys
              /\ \A q \in Requests : Undone(q) \in Fences
              /\ \A k \in Keys : fence[k] \in Fences /\ Fenced(fence[k]) \in Fences
              /\ [st |-> "consumed", by |-> "write-confirmed"] \in Fences
              /\ \A q \in Requests : [st |-> "resumed", by |-> DecisionOf[q]] \in Fences
  BY ChatAssumption DEF TypeOK, RequestRecord, Fences, Undone, Fenced, Decisions

LEMMA FenceMoves ==
    ASSUME TypeOK
    PROVE  /\ fence \in [Keys -> Fences]
           /\ \A k \in Keys, f \in Fences : [fence EXCEPT ![k] = f] \in [Keys -> Fences]
  BY DEF TypeOK

LEMMA PcsAreStages == TypeOK => \A q \in Requests : req[q].pc \in Stages
  BY DEF TypeOK, RequestRecord, Stages

LEMMA NumbersAre ==
    TypeOK => /\ Keys \subseteq Nat /\ wf.n \in Keys /\ wf.key \in Keys /\ shown \subseteq Keys
              /\ \A q \in Requests : req[q].key \in Keys
  BY ChatAssumption DEF TypeOK, Keys, RequestRecord

\* A status that is set leaves the place of the run as it is.
LEMMA WfMoves ==
    ASSUME TypeOK, NEW s
    PROVE  /\ [wf EXCEPT !.status = s].status = s
           /\ [wf EXCEPT !.status = s].n = wf.n /\ [wf EXCEPT !.status = s].key = wf.key
  BY DEF TypeOK

-----------------------------------------------------------------------------
(* The types                                                               *)

LEMMA TypeInit == Init => TypeOK
<1> SUFFICES ASSUME Init PROVE TypeOK
  OBVIOUS
<1>1. NoRequest \in RequestRecord /\ NoFence \in Fences
  BY ChatAssumption DEF NoRequest, NoFence, RequestRecord, Fences, Keys
<1>2. 0 \in Keys
  BY ChatAssumption DEF Keys
<1> QED
  BY <1>1, <1>2 DEF Init, TypeOK

LEMMA TypeStep == TypeOK /\ [Next]_vars => TypeOK'
<1> SUFFICES ASSUME TypeOK, [Next]_vars PROVE TypeOK'
  OBVIOUS
<1> USE ChatAssumption, PcsAreStages
<1>1. ASSUME NEW q \in Requests, Claim(q) PROVE TypeOK'
BY <1>1, GotoMoves DEF Claim, Starts, Money, Marks, At, TypeOK, Became, Stages, RunStages
<1>2. ASSUME NEW q \in Requests, ClaimThrows(q) PROVE TypeOK'
BY <1>2, GotoMoves DEF ClaimThrows, Starts, Trouble, Money, Marks, At, TypeOK, Became, Stages, RunStages
<1>3. ASSUME NEW q \in Requests, Register(q) PROVE TypeOK'
BY <1>3, GotoMoves DEF Register, Rows, Money, Marks, At, TypeOK, Became, Stages, RunStages
<1>4. ASSUME NEW q \in Requests, Reserve(q) PROVE TypeOK'
BY <1>4, GotoMoves DEF Reserve, Rows, Marks, At, TypeOK, Became, Stages, RunStages
<1>5. ASSUME NEW q \in Requests, Refused(q) PROVE TypeOK'
BY <1>5, GotoMoves DEF Refused, Money, Marks, Marked, At, TypeOK, Became, Stages, RunStages
<1>6. ASSUME NEW q \in Requests, Begin(q) PROVE TypeOK'
BY <1>6, GotoMoves DEF Begin, Money, Marks, At, TypeOK, Became, Stages, RunStages
<1>7. ASSUME NEW q \in Requests, Abandon(q) PROVE TypeOK'
BY <1>7, GotoMoves DEF Abandon, Money, Marks, Marked, At, TypeOK, Became, Stages, RunStages
<1>8. ASSUME NEW q \in Requests, GiveBack(q) PROVE TypeOK'
BY <1>8, GotoMoves DEF GiveBack, Rows, Marks, Finish, Money, At, TypeOK, Became, Stages, RunStages
<1>9. ASSUME NEW q \in Requests, RecoverAsked(q) PROVE TypeOK'
BY <1>9, GotoMoves DEF RecoverAsked, Starts, Rows, Money, Marks, At, TypeOK, Became, Stages, RunStages
<1>10. ASSUME NEW q \in Requests, Read(q) PROVE TypeOK'
BY <1>10, GotoMoves DEF Read, Rows, Money, Marks, At, TypeOK, Became, Stages, RunStages
<1>11. ASSUME NEW q \in Requests, Card(q) PROVE TypeOK'
BY <1>11, GotoMoves DEF Card, Rows, Money, At, TypeOK, Became, Stages, RunStages
<1>12. ASSUME NEW q \in Requests, Reconcile(q) PROVE TypeOK'
BY <1>12, GotoMoves DEF Reconcile, Rows, Money, Marks, Finish, At, TypeOK, Became, Stages, RunStages
<1>13. ASSUME NEW q \in Requests, Interrupted(q) PROVE TypeOK'
BY <1>13, GotoMoves DEF Interrupted, Money, Marks, Marked, At, TypeOK, Became, Stages, RunStages
<1>14. ASSUME NEW q \in Requests, WriteLoads(q) PROVE TypeOK'
BY <1>14, LoadsMoves, StateKeysAreKeys DEF WriteLoads, Starts, Rows, Money, Marks, At, TypeOK, Became, Stages,
     RunStages
<1>15. ASSUME NEW q \in Requests, Consume(q) PROVE TypeOK'
  <2>1. fence' \in [Keys -> Fences]
    BY <1>15, FencesKept, FenceMoves DEF Consume
  <2> QED
    BY <1>15, <2>1, GotoMoves, FencesKept DEF Consume, At, Became, Stages, RunStages, TypeOK, Money, Marks
<1>16. ASSUME NEW q \in Requests, ConsumeThrows(q) PROVE TypeOK'
BY <1>16, GotoMoves DEF ConsumeThrows, Rows, Money, Marks, At, TypeOK, Became, Stages, RunStages
<1>17. ASSUME NEW q \in Requests, ResumeLoads(q) PROVE TypeOK'
BY <1>17, LoadsMoves, StateKeysAreKeys DEF ResumeLoads, Starts, Rows, Money, Marks, At, TypeOK, Became,
     Stages, RunStages
<1>18. ASSUME NEW q \in Requests, Delivered(q) PROVE TypeOK'
BY <1>18, GotoMoves DEF Delivered, Rows, Money, Marks, At, TypeOK, Became, Stages, RunStages
<1>19. ASSUME NEW q \in Requests, ClaimDecision(q) PROVE TypeOK'
  <2>1. req' \in [Requests -> RequestRecord]
    BY <1>19, GotoMoves, ClaimsMoves DEF ClaimDecision, At, Became, Stages
  <2>2. fence' \in [Keys -> Fences]
    BY <1>19, FencesKept, FenceMoves DEF ClaimDecision
  <2> QED
    BY <1>19, <2>1, <2>2 DEF ClaimDecision, TypeOK, Money, Marks
<1>20. ASSUME NEW q \in Requests, ClaimDecisionThrows(q) PROVE TypeOK'
  <2>1. fence' \in [Keys -> Fences]
    BY <1>20, FencesKept, FenceMoves DEF ClaimDecisionThrows
  <2> QED
    BY <1>20, <2>1, GotoMoves DEF ClaimDecisionThrows, At, Trouble, Became, Stages, RunStages, TypeOK, Money, Marks
<1>21. ASSUME NEW q \in Requests, ClaimWindow(q) PROVE TypeOK'
BY <1>21, GotoMoves DEF ClaimWindow, Money, Marks, WindowFree, At, TypeOK, Became, Stages, RunStages
<1>22. ASSUME NEW q \in Requests, Continue(q) PROVE TypeOK'
BY <1>22, GotoMoves DEF Continue, Rows, Marks, At, TypeOK, Became, Stages, RunStages
<1>23. ASSUME NEW q \in Requests, Go(q) PROVE TypeOK'
BY <1>23, GotoMoves DEF Go, Rows, Money, Marks, At, TypeOK, Became, Stages, RunStages
<1>24. ASSUME NEW q \in Requests, ResumeThrows(q) PROVE TypeOK'
BY <1>24, GotoMoves DEF ResumeThrows, Trouble, Money, Marks, WindowFree, At, TypeOK, Became, Stages, RunStages
<1>25. ASSUME NEW q \in Requests, Undo(q) PROVE TypeOK'
  BY <1>25, GotoMoves, FencesKept DEF Undo, At, Became, Stages, RunStages, TypeOK, Money, Marks
<1>26. ASSUME NEW q \in Requests, UndoThrows(q) PROVE TypeOK'
BY <1>26, GotoMoves DEF UndoThrows, Trouble, Rows, Money, Marks, At, TypeOK, Became, Stages, RunStages
<1>27. ASSUME NEW q \in Requests, Resuming(q) PROVE TypeOK'
  <2>1. req' \in [Requests -> RequestRecord]
    BY <1>27, GotoMoves, YieldsMoves DEF Resuming, Ends, At, Became, Stages, RunStages
  <2>2. wf' \in [status : {"none", "running", "suspended", "success", "cancelled"}, key : Keys, n : Keys]
    BY <1>27 DEF Resuming, TypeOK
  <2>3. decided' \in [Keys -> Seq(Decisions)]
    <3> DEFINE k == req[q].key
               s == Append(decided[k], DecisionOf[q])
    <3>1. k \in Keys /\ s \in Seq(Decisions)
      BY FencesKept DEF TypeOK
    <3>2. decided' = decided \/ decided' = [decided EXCEPT ![k] = s]
      BY <1>27 DEF Resuming
    <3>3. decided \in [Keys -> Seq(Decisions)]
      BY DEF TypeOK
    <3> HIDE DEF s, k
    <3> QED
      BY <3>1, <3>2, <3>3
  <2> QED
    BY <1>27, <2>1, <2>2, <2>3 DEF Resuming, TypeOK, Money
<1>28. ASSUME NEW q \in Requests, ResumingThrows(q) PROVE TypeOK'
BY <1>28, YieldsMoves DEF ResumingThrows, Trouble, Rows, Money, Marks, At, Ends, TypeOK, Became, Stages,
     RunStages
<1>29. ASSUME NEW q \in Requests, RaiseFence(q) PROVE TypeOK'
  <2>1. fence' \in [Keys -> Fences]
    <3>1. wf.n \in Keys
      BY DEF TypeOK
    <3>2. fence' = fence \/ fence' = [fence EXCEPT ![wf.n] = Fenced(fence[wf.n])]
      BY <1>29 DEF RaiseFence
    <3> QED
      BY <3>1, <3>2, FencesKept, FenceMoves
  <2> QED
    BY <1>29, <2>1, GotoMoves DEF RaiseFence, At, Trouble, Became, Stages, RunStages, TypeOK, Money, Marks
<1>30. ASSUME NEW q \in Requests, Suspend(q) PROVE TypeOK'
  <2>1. req' \in [Requests -> RequestRecord]
    BY <1>30, YieldsMoves DEF Suspend, Ends, At, Became, Stages, RunStages
  <2>2. wf' \in [status : {"none", "running", "suspended", "success", "cancelled"}, key : Keys, n : Keys]
    BY <1>30 DEF Suspend, TypeOK, At, Keys
  <2> QED
    BY <1>30, <2>1, <2>2 DEF Suspend, TypeOK, Money, Marks
<1>31. ASSUME NEW q \in Requests, Succeed(q) PROVE TypeOK'
BY <1>31, YieldsMoves DEF Succeed, Money, Marks, At, TypeOK, Became, Stages, RunStages
<1>32. ASSUME NEW q \in Requests, Fail(q) PROVE TypeOK'
BY <1>32, YieldsMoves DEF Fail, Money, Marks, Ends, TypeOK, Became, Stages, RunStages
<1>33. ASSUME NEW q \in Requests, Save(q) PROVE TypeOK'
BY <1>33, YieldsMoves DEF Save, Money, Marks, Marked, At, Ends, TypeOK, Became, Stages, RunStages
<1>34. ASSUME NEW q \in Requests, SaveThrows(q) PROVE TypeOK'
BY <1>34, YieldsMoves DEF SaveThrows, Trouble, Money, Marks, Marked, At, Ends, TypeOK, Became, Stages,
     RunStages
<1>35. ASSUME NEW q \in Requests, Find(q) PROVE TypeOK'
BY <1>35, GotoMoves, YieldsMoves DEF Find, Rows, Money, Marks, At, TypeOK, Became, Stages, RunStages
<1>36. ASSUME NEW q \in Requests, FindThrows(q) PROVE TypeOK'
BY <1>36, GotoMoves DEF FindThrows, Trouble, Rows, Money, Marks, At, TypeOK, Became, Stages, RunStages
<1>37. ASSUME NEW q \in Requests, Mark(q) PROVE TypeOK'
BY <1>37, GotoMoves DEF Mark, Money, Marks, Marked, At, TypeOK, Became, Stages, RunStages
<1>38. ASSUME NEW q \in Requests, Meter(q) PROVE TypeOK'
BY <1>38, GotoMoves DEF Meter, Rows, Money, Marks, Finish, At, TypeOK, Became, Stages, RunStages
<1>39. ASSUME NEW q \in Requests, MarkThrows(q) PROVE TypeOK'
BY <1>39, GotoMoves DEF MarkThrows, Trouble, Rows, Money, Marks, At, TypeOK, Became, Stages, RunStages
<1>40. ASSUME NEW q \in Requests, Release(q) PROVE TypeOK'
BY <1>40, GotoMoves DEF Release, Money, Marks, At, TypeOK, Became, Stages, RunStages
<1>41. ASSUME NEW q \in Requests, ReleaseThrows(q) PROVE TypeOK'
BY <1>41, GotoMoves DEF ReleaseThrows, Trouble, Rows, Money, Marks, At, TypeOK, Became, Stages, RunStages
<1>42. CASE Sweep
BY <1>42 DEF Sweep, Rows, Marks, At, TypeOK, Became, Stages, RunStages
<1>43. CASE WindowLapses
BY <1>43 DEF WindowLapses, Money, Marks, At, TypeOK, Became, Stages, RunStages
<1>44. CASE Forget
BY <1>44 DEF Forget, Rows, Money, Marks, At, TypeOK, Became, Stages, RunStages
<1>45. CASE Crash
  BY <1>45, CrashMoves DEF Crash, Trouble, Rows, Money, Marks, TypeOK
<1>46. CASE UNCHANGED vars
BY <1>46 DEF vars, TypeOK, Became, Stages, RunStages
<1> QED
BY <1>1, <1>2, <1>3, <1>4, <1>5, <1>6, <1>7, <1>8, <1>9, <1>10, <1>11, <1>12, <1>13, <1>14, <1>15, <1>16,
     <1>17, <1>18, <1>19, <1>20, <1>21, <1>22, <1>23, <1>24, <1>25, <1>26, <1>27, <1>28, <1>29, <1>30, <1>31,
     <1>32, <1>33, <1>34, <1>35, <1>36, <1>37, <1>38, <1>39, <1>40, <1>41, <1>42, <1>43, <1>44, <1>45, <1>46
     DEF Next, Serve, Execute

\* Type correctness.
THEOREM TypesHold == Spec => []TypeOK
  BY TypeInit, TypeStep, PTL DEF Spec

-----------------------------------------------------------------------------
(* The stages of the run                                                   *)

Fresh == {"register", "reserve", "begin"}        \* the request that is to start the run
Running == {"run", "suspending"}                 \* an execution under way
Continuing == {"continue", "go", "resuming"}     \* the resume that has the window

\* One execution is under way, or one resume is about to begin one, or the first request is.
Alone ==
    /\ \A q \in Requests : req[q].pc \in Running =>
         wf.status = "running" /\ \A p \in Requests : req[p].pc \in Running => p = q
    /\ \A q \in Requests : req[q].pc \in Continuing => window = q /\ wf.status \in {"suspended", "success"}
    /\ \A q \in Requests : req[q].pc \in Fresh =>
         row # "none" /\ wf.status = "none" /\ \A p \in Requests : req[p].pc \in Fresh => p = q
    /\ row = "none" => wf.status = "none"
    /\ wf.status = "none" =>
         row # "complete" /\ shown = {} /\ \A q \in Requests : req[q].pc # "save"

\* Whoever says that the run has succeeded, or hands the answer out, has it stored.
Stored ==
    /\ ChargedIsDelivered
    /\ \A q \in Requests : req[q].pc = "reconcile" => row = "complete"
    /\ \A q \in Requests : req[q].pc \in {"find", "mark", "meter"} /\ req[q].out = "success" => row = "complete"

\* The requests that hold the decision of a suspend, which has gone from prev to resumed.
Holds(q) == req[q].pc \in {"window", "undo"} \cup Continuing /\ req[q].prev # "none"

\* A claim stands until it is undone or the run goes on with it, and no suspend has two.
Claimed ==
    /\ WrittenOnce
    /\ \A q \in Requests : req[q].pc \in {"idle", "delivered", "claim"} => req[q].prev = "none"
    /\ \A q \in Requests : Holds(q) =>
         /\ fence[req[q].key].st = "resumed" /\ fence[req[q].key].by = DecisionOf[q]
         /\ req[q].prev = "pending" => written[req[q].key] = 0
         /\ req[q].prev = "consumed" => DecisionOf[q] = "write-confirmed"
         /\ \A p \in Requests : Holds(p) /\ req[p].key = req[q].key => p = q

\* Where the run is: at the last of its suspends, whose cards have been shown.
Placed ==
    /\ IF wf.n = 0 THEN wf.key = 0 ELSE wf.key = wf.n - 1
    /\ wf.status = "suspended" => wf.n > 0
    /\ \A k \in shown : k <= wf.n
    /\ wf.n \in shown => wf.status \notin {"suspended", "success"} /\ \A q \in Requests : req[q].pc # "run"
    /\ \A q \in Requests : req[q].pc \in {"delivered", "claim", "window", "undo"} \cup Continuing =>
         req[q].key < wf.n \/ (req[q].key = wf.n /\ wf.n \in shown)

\* A decision without a claim is one for a suspend without a fence, a decided suspend is closed, and
\* while no fence is lost the decided ones are those before the one that the run waits at.
Decided ==
    /\ \A q \in Requests : req[q].pc \in {"window", "undo"} \cup Continuing /\ req[q].prev = "none" =>
         fence[req[q].key].st = "none"
    /\ \A k \in Keys : decided[k] # <<>> =>
         /\ k < wf.n /\ fence[k].st \in {"none", "resumed"}
         /\ \A q \in Requests : Holds(q) => req[q].key # k
    /\ AllFenced => \A k \in Keys : k < wf.n /\ decided[k] = <<>> => k = wf.key /\ wf.status = "suspended"

\* The inductive invariant.
Kept == TypeOK /\ Alone /\ Stored /\ Claimed /\ Placed /\ Decided

LEMMA KeptStep == Kept /\ [Next]_vars => Kept'
<1> SUFFICES ASSUME TypeOK, Alone, Stored, Claimed, Placed, Decided, [Next]_vars PROVE Kept'
  BY DEF Kept
<1>0. TypeOK'
  BY TypeStep
<1>1. ASSUME NEW q \in Requests, Claim(q) PROVE Kept'
<2>1. Became(q, IF row = "none" THEN "register" ELSE "read", req[q].key, req[q].prev, req[q].out)
BY <1>1, GotoMoves DEF Claim, Starts, Stages, RunStages
  <2>2. Alone'
BY <1>1, <2>1 DEF Claim, Starts, Money, Marks, Became, At, Alone, Fresh, Running, Continuing
  <2>3. Stored'
BY <1>1, <2>1 DEF Claim, Starts, Money, Marks, Became, At, Stored, ChargedIsDelivered, Fresh, Alone
  <2>4. Claimed'
BY <1>1, <2>1 DEF Claim, Starts, Money, Marks, Became, At, Claimed, WrittenOnce, Holds, Running, Continuing,
     Keys
  <2>5. Placed'
BY <1>1, <2>1 DEF Claim, Starts, Money, Marks, Became, At, Placed, Running, Continuing, Alone
  <2>6. Decided'
BY <1>1, <2>1 DEF Claim, Starts, Money, Marks, Became, At, Decided, AllFenced, Holds, Running, Continuing,
     Claimed, Placed, Alone
  <2> QED
    BY <1>0, <2>2, <2>3, <2>4, <2>5, <2>6 DEF Kept
<1>2. ASSUME NEW q \in Requests, ClaimThrows(q) PROVE Kept'
<2>1. Became(q, "done", req[q].key, req[q].prev, req[q].out)
BY <1>2, GotoMoves DEF ClaimThrows, Starts, Stages, RunStages
  <2>2. Alone'
BY <1>2, <2>1 DEF ClaimThrows, Starts, Trouble, Money, Marks, Became, At, Alone, Fresh, Running, Continuing
  <2>3. Stored'
BY <1>2, <2>1 DEF ClaimThrows, Starts, Trouble, Money, Marks, Became, At, Stored, ChargedIsDelivered, Fresh,
     Alone
  <2>4. Claimed'
BY <1>2, <2>1 DEF ClaimThrows, Starts, Trouble, Money, Marks, Became, At, Claimed, WrittenOnce, Holds,
     Running, Continuing, Keys
  <2>5. Placed'
BY <1>2, <2>1 DEF ClaimThrows, Starts, Trouble, Money, Marks, Became, At, Placed, Running, Continuing, Alone
  <2>6. Decided'
BY <1>2, <2>1 DEF ClaimThrows, Starts, Trouble, Money, Marks, Became, At, Decided, AllFenced, Holds, Running,
     Continuing, Claimed, Placed, Alone
  <2> QED
    BY <1>0, <2>2, <2>3, <2>4, <2>5, <2>6 DEF Kept
<1>3. ASSUME NEW q \in Requests, Register(q) PROVE Kept'
<2>1. Became(q, "reserve", req[q].key, req[q].prev, req[q].out)
BY <1>3, GotoMoves DEF Register, Stages, RunStages
  <2>2. Alone'
BY <1>3, <2>1 DEF Register, Rows, Money, Marks, Became, At, Alone, Fresh, Running, Continuing
  <2>3. Stored'
BY <1>3, <2>1 DEF Register, Rows, Money, Marks, Became, At, Stored, ChargedIsDelivered, Fresh, Alone
  <2>4. Claimed'
BY <1>3, <2>1 DEF Register, Rows, Money, Marks, Became, At, Claimed, WrittenOnce, Holds, Running, Continuing,
     Keys
  <2>5. Placed'
BY <1>3, <2>1 DEF Register, Rows, Money, Marks, Became, At, Placed, Running, Continuing, Alone
  <2>6. Decided'
BY <1>3, <2>1 DEF Register, Rows, Money, Marks, Became, At, Decided, AllFenced, Holds, Running, Continuing,
     Claimed, Placed, Alone
  <2> QED
    BY <1>0, <2>2, <2>3, <2>4, <2>5, <2>6 DEF Kept
<1>4. ASSUME NEW q \in Requests, Reserve(q) PROVE Kept'
<2>1. PICK pc \in {"begin", "refused"} : Became(q, pc, req[q].key, req[q].prev, req[q].out)
BY <1>4, GotoMoves DEF Reserve, Stages, RunStages
  <2>2. Alone'
BY <1>4, <2>1 DEF Reserve, Rows, Marks, Became, At, Alone, Fresh, Running, Continuing
  <2>3. Stored'
BY <1>4, <2>1 DEF Reserve, Rows, Marks, Became, At, Stored, ChargedIsDelivered, Fresh, Alone
  <2>4. Claimed'
BY <1>4, <2>1 DEF Reserve, Rows, Marks, Became, At, Claimed, WrittenOnce, Holds, Running, Continuing, Keys
  <2>5. Placed'
BY <1>4, <2>1 DEF Reserve, Rows, Marks, Became, At, Placed, Running, Continuing, Alone
  <2>6. Decided'
BY <1>4, <2>1 DEF Reserve, Rows, Marks, Became, At, Decided, AllFenced, Holds, Running, Continuing, Claimed,
     Placed, Alone
  <2> QED
    BY <1>0, <2>2, <2>3, <2>4, <2>5, <2>6 DEF Kept
<1>5. ASSUME NEW q \in Requests, Refused(q) PROVE Kept'
<2>1. Became(q, "done", req[q].key, req[q].prev, req[q].out)
BY <1>5, GotoMoves DEF Refused, Stages, RunStages
  <2>2. Alone'
BY <1>5, <2>1 DEF Refused, Money, Marks, Marked, Became, At, Alone, Fresh, Running, Continuing
  <2>3. Stored'
BY <1>5, <2>1 DEF Refused, Money, Marks, Marked, Became, At, Stored, ChargedIsDelivered, Fresh, Alone
  <2>4. Claimed'
BY <1>5, <2>1 DEF Refused, Money, Marks, Marked, Became, At, Claimed, WrittenOnce, Holds, Running, Continuing,
     Keys
  <2>5. Placed'
BY <1>5, <2>1 DEF Refused, Money, Marks, Marked, Became, At, Placed, Running, Continuing, Alone
  <2>6. Decided'
BY <1>5, <2>1 DEF Refused, Money, Marks, Marked, Became, At, Decided, AllFenced, Holds, Running, Continuing,
     Claimed, Placed, Alone
  <2> QED
    BY <1>0, <2>2, <2>3, <2>4, <2>5, <2>6 DEF Kept
<1>6. ASSUME NEW q \in Requests, Begin(q) PROVE Kept'
  <2>1. PICK pc \in {"run", "abandon"} :
           /\ Became(q, pc, req[q].key, req[q].prev, req[q].out)
           /\ wf'.status = (IF pc = "run" THEN "running" ELSE wf.status) /\ wf'.n = wf.n /\ wf'.key = wf.key
BY <1>6, GotoMoves, WfMoves DEF Begin, Stages, RunStages
  <2>2. Alone'
BY <1>6, <2>1 DEF Begin, Money, Marks, Became, At, Alone, Fresh, Running, Continuing
  <2>3. Stored'
BY <1>6, <2>1 DEF Begin, Money, Marks, Became, At, Stored, ChargedIsDelivered, Fresh, Alone
  <2>4. Claimed'
BY <1>6, <2>1 DEF Begin, Money, Marks, Became, At, Claimed, WrittenOnce, Holds, Running, Continuing, Keys
  <2>5. Placed'
    BY <1>6, <2>1 DEF Begin, Became, Marks, At, Alone, Fresh, Placed, Running, Continuing
  <2>6. Decided'
    <3>1. decided' = decided /\ fence' = fence /\ wf.status # "suspended" /\ wf'.status # "suspended"
      BY <1>6, <2>1 DEF Begin, Marks, At, Alone, Fresh
    <3>2. \A p \in Requests : Holds(p)' => Holds(p) /\ req'[p] = req[p]
      BY <2>1 DEF Holds, Became, Continuing
    <3> QED
      BY <2>1, <3>1, <3>2 DEF Decided, AllFenced, Became, Running, Continuing
  <2> QED
    BY <1>0, <2>2, <2>3, <2>4, <2>5, <2>6 DEF Kept
<1>7. ASSUME NEW q \in Requests, Abandon(q) PROVE Kept'
<2>1. Became(q, "giveBack", req[q].key, req[q].prev, req[q].out)
BY <1>7, GotoMoves DEF Abandon, Stages, RunStages
  <2>2. Alone'
BY <1>7, <2>1 DEF Abandon, Money, Marks, Marked, Became, At, Alone, Fresh, Running, Continuing
  <2>3. Stored'
BY <1>7, <2>1 DEF Abandon, Money, Marks, Marked, Became, At, Stored, ChargedIsDelivered, Fresh, Alone
  <2>4. Claimed'
BY <1>7, <2>1 DEF Abandon, Money, Marks, Marked, Became, At, Claimed, WrittenOnce, Holds, Running, Continuing,
     Keys
  <2>5. Placed'
BY <1>7, <2>1 DEF Abandon, Money, Marks, Marked, Became, At, Placed, Running, Continuing, Alone
  <2>6. Decided'
BY <1>7, <2>1 DEF Abandon, Money, Marks, Marked, Became, At, Decided, AllFenced, Holds, Running, Continuing,
     Claimed, Placed, Alone
  <2> QED
    BY <1>0, <2>2, <2>3, <2>4, <2>5, <2>6 DEF Kept
<1>8. ASSUME NEW q \in Requests, GiveBack(q) PROVE Kept'
<2>1. Became(q, "done", req[q].key, req[q].prev, req[q].out)
BY <1>8, GotoMoves DEF GiveBack, Stages, RunStages
  <2>2. Alone'
BY <1>8, <2>1 DEF GiveBack, Rows, Marks, Finish, Money, Became, At, Alone, Fresh, Running, Continuing
  <2>3. Stored'
BY <1>8, <2>1 DEF GiveBack, Rows, Marks, Finish, Money, Became, At, Stored, ChargedIsDelivered, Fresh, Alone
  <2>4. Claimed'
BY <1>8, <2>1 DEF GiveBack, Rows, Marks, Finish, Money, Became, At, Claimed, WrittenOnce, Holds, Running,
     Continuing, Keys
  <2>5. Placed'
BY <1>8, <2>1 DEF GiveBack, Rows, Marks, Finish, Money, Became, At, Placed, Running, Continuing, Alone
  <2>6. Decided'
BY <1>8, <2>1 DEF GiveBack, Rows, Marks, Finish, Money, Became, At, Decided, AllFenced, Holds, Running,
     Continuing, Claimed, Placed, Alone
  <2> QED
    BY <1>0, <2>2, <2>3, <2>4, <2>5, <2>6 DEF Kept
<1>9. ASSUME NEW q \in Requests, RecoverAsked(q) PROVE Kept'
<2>1. Became(q, "read", req[q].key, req[q].prev, req[q].out)
BY <1>9, GotoMoves DEF RecoverAsked, Starts, Stages, RunStages
  <2>2. Alone'
BY <1>9, <2>1 DEF RecoverAsked, Starts, Rows, Money, Marks, Became, At, Alone, Fresh, Running, Continuing
  <2>3. Stored'
BY <1>9, <2>1 DEF RecoverAsked, Starts, Rows, Money, Marks, Became, At, Stored, ChargedIsDelivered, Fresh,
     Alone
  <2>4. Claimed'
BY <1>9, <2>1 DEF RecoverAsked, Starts, Rows, Money, Marks, Became, At, Claimed, WrittenOnce, Holds, Running,
     Continuing, Keys
  <2>5. Placed'
BY <1>9, <2>1 DEF RecoverAsked, Starts, Rows, Money, Marks, Became, At, Placed, Running, Continuing, Alone
  <2>6. Decided'
BY <1>9, <2>1 DEF RecoverAsked, Starts, Rows, Money, Marks, Became, At, Decided, AllFenced, Holds, Running,
     Continuing, Claimed, Placed, Alone
  <2> QED
    BY <1>0, <2>2, <2>3, <2>4, <2>5, <2>6 DEF Kept
<1>10. ASSUME NEW q \in Requests, Read(q) PROVE Kept'
  <2>1. PICK pc \in {"reconcile", "card", "interrupted", "done"} :
           Became(q, pc, req[q].key, req[q].prev, req[q].out) /\ (pc = "reconcile" => row = "complete")
BY <1>10, GotoMoves DEF Read, Stages, RunStages
  <2>2. Alone'
BY <1>10, <2>1 DEF Read, Rows, Money, Marks, Became, At, Alone, Fresh, Running, Continuing
  <2>3. Stored'
BY <1>10, <2>1 DEF Read, Rows, Money, Marks, Became, At, Stored, ChargedIsDelivered, Fresh, Alone
  <2>4. Claimed'
BY <1>10, <2>1 DEF Read, Rows, Money, Marks, Became, At, Claimed, WrittenOnce, Holds, Running, Continuing,
     Keys
  <2>5. Placed'
BY <1>10, <2>1 DEF Read, Rows, Money, Marks, Became, At, Placed, Running, Continuing, Alone
  <2>6. Decided'
BY <1>10, <2>1 DEF Read, Rows, Money, Marks, Became, At, Decided, AllFenced, Holds, Running, Continuing,
     Claimed, Placed, Alone
  <2> QED
    BY <1>0, <2>2, <2>3, <2>4, <2>5, <2>6 DEF Kept
<1>11. ASSUME NEW q \in Requests, Card(q) PROVE Kept'
<2>1. Became(q, "done", req[q].key, req[q].prev, req[q].out)
BY <1>11, GotoMoves DEF Card, Stages, RunStages
  <2>2. Alone'
BY <1>11, <2>1 DEF Card, Rows, Money, Became, At, Alone, Fresh, Running, Continuing
  <2>3. Stored'
BY <1>11, <2>1 DEF Card, Rows, Money, Became, At, Stored, ChargedIsDelivered, Fresh, Alone
  <2>4. Claimed'
BY <1>11, <2>1 DEF Card, Rows, Money, Became, At, Claimed, WrittenOnce, Holds, Running, Continuing, Keys
  <2>5. Placed'
    BY <1>11, <2>1, NumbersAre DEF Card, Rows, Became, At, Placed, Running, Continuing
  <2>6. Decided'
BY <1>11, <2>1 DEF Card, Rows, Money, Became, At, Decided, AllFenced, Holds, Running, Continuing, Claimed,
     Placed, Alone
  <2> QED
    BY <1>0, <2>2, <2>3, <2>4, <2>5, <2>6 DEF Kept
<1>12. ASSUME NEW q \in Requests, Reconcile(q) PROVE Kept'
<2>1. Became(q, "done", req[q].key, req[q].prev, req[q].out)
BY <1>12, GotoMoves DEF Reconcile, Stages, RunStages
  <2>2. Alone'
BY <1>12, <2>1 DEF Reconcile, Rows, Money, Marks, Finish, Became, At, Alone, Fresh, Running, Continuing
  <2>3. Stored'
    <3>1. \/ hold' = hold /\ charges' = charges
          \/ hold = "open" /\ hold' = "charged" /\ charges' = charges + 1
      BY <1>12 DEF Reconcile, Finish, Money
    <3>2. row' = row /\ row = "complete"
      BY <1>12 DEF Reconcile, Rows, At, Stored
    <3> QED
      BY <3>1, <3>2, <2>1 DEF Stored, ChargedIsDelivered, Became, TypeOK
  <2>4. Claimed'
BY <1>12, <2>1 DEF Reconcile, Rows, Money, Marks, Finish, Became, At, Claimed, WrittenOnce, Holds, Running,
     Continuing, Keys
  <2>5. Placed'
BY <1>12, <2>1 DEF Reconcile, Rows, Money, Marks, Finish, Became, At, Placed, Running, Continuing, Alone
  <2>6. Decided'
BY <1>12, <2>1 DEF Reconcile, Rows, Money, Marks, Finish, Became, At, Decided, AllFenced, Holds, Running,
     Continuing, Claimed, Placed, Alone
  <2> QED
    BY <1>0, <2>2, <2>3, <2>4, <2>5, <2>6 DEF Kept
<1>13. ASSUME NEW q \in Requests, Interrupted(q) PROVE Kept'
<2>1. Became(q, "giveBack", req[q].key, req[q].prev, req[q].out)
BY <1>13, GotoMoves DEF Interrupted, Stages, RunStages
  <2>2. Alone'
BY <1>13, <2>1 DEF Interrupted, Money, Marks, Marked, Became, At, Alone, Fresh, Running, Continuing
  <2>3. Stored'
BY <1>13, <2>1 DEF Interrupted, Money, Marks, Marked, Became, At, Stored, ChargedIsDelivered, Fresh, Alone
  <2>4. Claimed'
BY <1>13, <2>1 DEF Interrupted, Money, Marks, Marked, Became, At, Claimed, WrittenOnce, Holds, Running,
     Continuing, Keys
  <2>5. Placed'
BY <1>13, <2>1 DEF Interrupted, Money, Marks, Marked, Became, At, Placed, Running, Continuing, Alone
  <2>6. Decided'
BY <1>13, <2>1 DEF Interrupted, Money, Marks, Marked, Became, At, Decided, AllFenced, Holds, Running,
     Continuing, Claimed, Placed, Alone
  <2> QED
    BY <1>0, <2>2, <2>3, <2>4, <2>5, <2>6 DEF Kept
<1>14. ASSUME NEW q \in Requests, WriteLoads(q) PROVE Kept'
<2>1. PICK k \in Keys, pc \in {"consume", "done"} : Became(q, pc, k, req[q].prev, req[q].out)
BY <1>14, LoadsMoves, StateKeysAreKeys DEF WriteLoads, TypeOK, Starts, Stages, RunStages
  <2>2. Alone'
BY <1>14, <2>1 DEF WriteLoads, Starts, Rows, Money, Marks, Became, At, Alone, Fresh, Running, Continuing
  <2>3. Stored'
BY <1>14, <2>1 DEF WriteLoads, Starts, Rows, Money, Marks, Became, At, Stored, ChargedIsDelivered, Fresh,
     Alone
  <2>4. Claimed'
BY <1>14, <2>1 DEF WriteLoads, Starts, Rows, Money, Marks, Became, At, Claimed, WrittenOnce, Holds, Running,
     Continuing, Keys
  <2>5. Placed'
BY <1>14, <2>1 DEF WriteLoads, Starts, Rows, Money, Marks, Became, At, Placed, Running, Continuing, Alone
  <2>6. Decided'
BY <1>14, <2>1 DEF WriteLoads, Starts, Rows, Money, Marks, Became, At, Decided, AllFenced, Holds, Running,
     Continuing, Claimed, Placed, Alone
  <2> QED
    BY <1>0, <2>2, <2>3, <2>4, <2>5, <2>6 DEF Kept
<1>15. ASSUME NEW q \in Requests, Consume(q) PROVE Kept'
<2>1. Became(q, "done", req[q].key, req[q].prev, req[q].out)
BY <1>15, GotoMoves DEF Consume, Stages, RunStages
  <2>2. Alone'
BY <1>15, <2>1 DEF Consume, Money, Consumable, Became, At, Alone, Fresh, Running, Continuing
  <2>3. Stored'
BY <1>15, <2>1 DEF Consume, Money, Consumable, Became, At, Stored, ChargedIsDelivered, Fresh, Alone
  <2>4. Claimed'
    <3> DEFINE k == req[q].key
    <3>1. \A p \in Requests : Holds(p)' => Holds(p) /\ req'[p] = req[p]
      BY <2>1 DEF Holds, Became, Continuing
    <3>2. CASE fence[k].st = "pending"
      <4>0. \A p \in Requests : Holds(p) => fence[req[p].key].st = "resumed"
        BY DEF Claimed
      <4>1. k \in Keys /\ written[k] = 0 /\ \A p \in Requests : Holds(p) => req[p].key # k
        <5>1. k \in Keys /\ written[k] = 0
          <6>1. k \in Keys /\ written[k] \in Nat
            BY DEF TypeOK, RequestRecord
          <6> QED
            BY <3>2, <6>1 DEF Claimed, WrittenOnce
        <5> QED
          BY <5>1, <4>0, <3>2
      <4>2. /\ fence'[k] = [st |-> "consumed", by |-> "write-confirmed"] /\ written'[k] = 1
            /\ \A i \in Keys : i # k => fence'[i] = fence[i] /\ written'[i] = written[i]
        BY <1>15, <3>2, <4>1 DEF Consume, Consumable, TypeOK
      <4> HIDE DEF k
      <4>3. \A p \in Requests : req[p].key \in Keys
        BY DEF TypeOK, RequestRecord
      <4> QED
        BY <2>1, <3>1, <4>1, <4>2, <4>3 DEF Claimed, WrittenOnce, Became
    <3>3. CASE fence[k].st # "pending"
      <4>1. fence' = fence /\ written' = written
        BY <1>15, <3>3 DEF Consume, Consumable
      <4> QED
        BY <2>1, <3>1, <4>1 DEF Claimed, WrittenOnce, Became
    <3> QED
      BY <3>2, <3>3
  <2>5. Placed'
BY <1>15, <2>1 DEF Consume, Money, Consumable, Became, At, Placed, Running, Continuing, Alone
  <2>6. Decided'
    <3> DEFINE k == req[q].key
    <3>1. decided' = decided /\ wf' = wf /\ k \in Keys /\ \A p \in Requests : req[p].key \in Keys
      BY <1>15, NumbersAre DEF Consume, Marks, Money
    <3>2. \A i \in Keys : i # k => fence'[i] = fence[i]
      BY <1>15, <2>1, <3>1 DEF Consume, Consumable, TypeOK
    <3>3. CASE fence' = fence
      BY <2>1, <3>1, <3>3 DEF Decided, AllFenced, Holds, Became, Running, Continuing, At
    <3>4. CASE fence' # fence
      <4>1. fence[k].st = "pending" /\ fence'[k].st = "consumed" /\ decided[k] = <<>>
        <5>1. fence[k].st = "pending" /\ fence'[k].st = "consumed"
          BY <1>15, <3>1, <3>4 DEF Consume, Consumable, TypeOK
        <5> QED
          BY <3>1, <5>1 DEF Decided
      <4>2. \A p \in Requests : Holds(p)' => Holds(p) /\ req'[p].key = req[p].key
        BY <2>1 DEF Holds, Became, Continuing
      <4>3. \A p \in Requests : req'[p].pc \in {"window", "undo"} \cup Continuing /\ req'[p].prev = "none" =>
              req[p].pc \in {"window", "undo"} \cup Continuing /\ req[p].prev = "none" /\ req'[p].key = req[p].key
        BY <2>1 DEF Became, Continuing
      <4> HIDE DEF k
      <4>5. AllFenced' => AllFenced
        BY <3>1, <3>2, <4>1, NumbersAre, ChatAssumption DEF AllFenced, Keys
      <4>6. \A i \in Keys : decided'[i] # <<>> =>
              /\ i < wf'.n /\ fence'[i].st \in {"none", "resumed"}
              /\ \A p \in Requests : Holds(p)' => req'[p].key # i
        BY <3>1, <3>2, <4>1, <4>2 DEF Decided
      <4> QED
        BY <3>1, <3>2, <4>1, <4>3, <4>5, <4>6 DEF Decided
    <3> QED
      BY <3>3, <3>4
  <2> QED
    BY <1>0, <2>2, <2>3, <2>4, <2>5, <2>6 DEF Kept
<1>16. ASSUME NEW q \in Requests, ConsumeThrows(q) PROVE Kept'
<2>1. Became(q, "done", req[q].key, req[q].prev, req[q].out)
BY <1>16, GotoMoves DEF ConsumeThrows, Stages, RunStages
  <2>2. Alone'
BY <1>16, <2>1 DEF ConsumeThrows, Rows, Money, Marks, Became, At, Alone, Fresh, Running, Continuing
  <2>3. Stored'
BY <1>16, <2>1 DEF ConsumeThrows, Rows, Money, Marks, Became, At, Stored, ChargedIsDelivered, Fresh, Alone
  <2>4. Claimed'
BY <1>16, <2>1 DEF ConsumeThrows, Rows, Money, Marks, Became, At, Claimed, WrittenOnce, Holds, Running,
     Continuing, Keys
  <2>5. Placed'
BY <1>16, <2>1 DEF ConsumeThrows, Rows, Money, Marks, Became, At, Placed, Running, Continuing, Alone
  <2>6. Decided'
BY <1>16, <2>1 DEF ConsumeThrows, Rows, Money, Marks, Became, At, Decided, AllFenced, Holds, Running,
     Continuing, Claimed, Placed, Alone
  <2> QED
    BY <1>0, <2>2, <2>3, <2>4, <2>5, <2>6 DEF Kept
<1>17. ASSUME NEW q \in Requests, ResumeLoads(q) PROVE Kept'
<2>1. PICK k \in Keys : Became(q, "delivered", k, req[q].prev, req[q].out) /\ k \in shown \cup StateKeys
BY <1>17, LoadsMoves, StateKeysAreKeys DEF ResumeLoads, TypeOK, Starts, Stages, RunStages
  <2>2. Alone'
BY <1>17, <2>1 DEF ResumeLoads, Starts, Rows, Money, Marks, Became, At, Alone, Fresh, Running, Continuing
  <2>3. Stored'
BY <1>17, <2>1 DEF ResumeLoads, Starts, Rows, Money, Marks, Became, At, Stored, ChargedIsDelivered, Fresh,
     Alone
  <2>4. Claimed'
BY <1>17, <2>1 DEF ResumeLoads, Starts, Rows, Money, Marks, Became, At, Claimed, WrittenOnce, Holds, Running,
     Continuing, Keys
  <2>5. Placed'
    <3>1. k < wf.n \/ (k = wf.n /\ wf.n \in shown)
      <4>1. \E s \in shown : TRUE
        BY <1>17 DEF ResumeLoads
      <4>2. CASE wf.n = 0
        BY <2>1, <4>1, <4>2, NumbersAre DEF Placed, StateKeys
      <4>3. CASE wf.n # 0
        BY <2>1, <4>3, NumbersAre DEF Placed, StateKeys
      <4> QED
        BY <4>2, <4>3
    <3>2. wf' = wf /\ shown' = shown
      BY <1>17 DEF ResumeLoads, Rows, Marks
    <3> QED
      BY <2>1, <3>1, <3>2 DEF Placed, Became, Running, Continuing
  <2>6. Decided'
BY <1>17, <2>1 DEF ResumeLoads, Starts, Rows, Money, Marks, Became, At, Decided, AllFenced, Holds, Running,
     Continuing, Claimed, Placed, Alone
  <2> QED
    BY <1>0, <2>2, <2>3, <2>4, <2>5, <2>6 DEF Kept
<1>18. ASSUME NEW q \in Requests, Delivered(q) PROVE Kept'
<2>1. Became(q, IF row = "complete" THEN "read" ELSE "claim", req[q].key, req[q].prev, req[q].out)
BY <1>18, GotoMoves DEF Delivered, Stages, RunStages
  <2>2. Alone'
BY <1>18, <2>1 DEF Delivered, Rows, Money, Marks, Became, At, Alone, Fresh, Running, Continuing
  <2>3. Stored'
BY <1>18, <2>1 DEF Delivered, Rows, Money, Marks, Became, At, Stored, ChargedIsDelivered, Fresh, Alone
  <2>4. Claimed'
BY <1>18, <2>1 DEF Delivered, Rows, Money, Marks, Became, At, Claimed, WrittenOnce, Holds, Running,
     Continuing, Keys
  <2>5. Placed'
BY <1>18, <2>1 DEF Delivered, Rows, Money, Marks, Became, At, Placed, Running, Continuing, Alone
  <2>6. Decided'
BY <1>18, <2>1 DEF Delivered, Rows, Money, Marks, Became, At, Decided, AllFenced, Holds, Running, Continuing,
     Claimed, Placed, Alone
  <2> QED
    BY <1>0, <2>2, <2>3, <2>4, <2>5, <2>6 DEF Kept
<1>19. ASSUME NEW q \in Requests, ClaimDecision(q) PROVE Kept'
  <2>1. IF Claimable(q)
           THEN /\ Became(q, "window", req[q].key, fence[req[q].key].st, req[q].out)
                /\ fence' = [fence EXCEPT ![req[q].key] = [st |-> "resumed", by |-> DecisionOf[q]]]
           ELSE /\ Became(q, IF fence[req[q].key].st # "none" \/ req[q].ended = "yes" THEN "done" ELSE "window",
                          req[q].key, req[q].prev, req[q].out)
                /\ fence' = fence
BY <1>19, GotoMoves, ClaimsMoves DEF ClaimDecision, Stages, RunStages
  <2>2. Alone'
BY <1>19, <2>1 DEF ClaimDecision, Money, Marks, Became, At, Alone, Fresh, Running, Continuing
  <2>3. Stored'
BY <1>19, <2>1 DEF ClaimDecision, Money, Marks, Became, At, Stored, ChargedIsDelivered, Fresh, Alone
  <2>4. Claimed'
    <3> DEFINE k == req[q].key
    <3>1. k \in Keys /\ (\A p \in Requests : req[p].key \in Keys) /\ written' = written
      BY <1>19 DEF TypeOK, RequestRecord, ClaimDecision, Marks
    <3>2. CASE Claimable(q)
      <4>1. /\ Became(q, "window", k, fence[k].st, req[q].out)
            /\ fence'[k] = [st |-> "resumed", by |-> DecisionOf[q]] /\ \A i \in Keys : i # k => fence'[i] = fence[i]
        BY <2>1, <3>1, <3>2 DEF TypeOK
      <4>2. /\ fence[k].st \in {"pending", "consumed"}
            /\ fence[k].st = "consumed" => DecisionOf[q] = "write-confirmed"
            /\ \A p \in Requests : Holds(p) => req[p].key # k
        <5>1. \A p \in Requests : Holds(p) => fence[req[p].key].st = "resumed"
          BY DEF Claimed
        <5>2. /\ fence[k].st \in {"pending", "consumed"}
              /\ fence[k].st = "consumed" => DecisionOf[q] = "write-confirmed"
          BY <3>2 DEF Claimable
        <5> QED
          BY <5>1, <5>2
      <4>3. /\ fence[k].st = "pending" => written[k] = 0
            /\ written[k] > 0 => written[k] = 1 /\ DecisionOf[q] = "write-confirmed"
        BY <3>1, <4>2 DEF Claimed, WrittenOnce, TypeOK
      <4>4. \A p \in Requests : p # q => (Holds(p)' <=> Holds(p))
        BY <4>1 DEF Holds, Became
      <4> HIDE DEF k
      <4>5. WrittenOnce'
        BY <3>1, <4>1, <4>3 DEF Claimed, WrittenOnce
      <4> QED
        BY <3>1, <4>1, <4>2, <4>3, <4>4, <4>5 DEF Claimed, Became
    <3>3. CASE ~Claimable(q)
      BY <1>19, <2>1, <3>1, <3>3 DEF Claimed, WrittenOnce, Holds, Became, Continuing, ClaimDecision, At
    <3> QED
      BY <3>2, <3>3
  <2>5. Placed'
BY <1>19, <2>1 DEF ClaimDecision, Money, Marks, Became, At, Placed, Running, Continuing, Alone
  <2>6. Decided'
    <3> DEFINE k == req[q].key
    <3>1. decided' = decided /\ wf' = wf /\ k \in Keys /\ \A p \in Requests : req[p].key \in Keys
      BY <1>19, NumbersAre DEF ClaimDecision, Marks, Money
    <3>2. \A i \in Keys : i # k => fence'[i] = fence[i]
      BY <1>19, <2>1, <3>1 DEF ClaimDecision, Consumable, TypeOK
    <3>3. CASE ~Claimable(q)
      <4>1. /\ fence' = fence
            /\ Became(q, IF fence[k].st # "none" \/ req[q].ended = "yes" THEN "done" ELSE "window",
                      req[q].key, req[q].prev, req[q].out)
        BY <2>1, <3>3
      <4>2. req[q].prev = "none"
        BY <1>19 DEF ClaimDecision, At, Claimed
      <4>3. \A p \in Requests : Holds(p)' => Holds(p) /\ req'[p].key = req[p].key
        BY <4>1, <4>2 DEF Holds, Became
      <4>4. \A p \in Requests : req'[p].pc \in {"window", "undo"} \cup Continuing /\ req'[p].prev = "none" =>
              \/ p = q /\ fence[k].st = "none" /\ req'[p].key = k
              \/ req'[p] = req[p]
        BY <4>1 DEF Became, Continuing
      <4> QED
        BY <3>1, <4>1, <4>3, <4>4 DEF Decided, AllFenced
    <3>4. CASE Claimable(q)
      <4>1. fence[k].st \in {"pending", "consumed"} /\ fence'[k].st = "resumed" /\ decided[k] = <<>>
        <5>1. fence[k].st \in {"pending", "consumed"} /\ fence'[k].st = "resumed"
          BY <2>1, <3>1, <3>4 DEF Claimable, TypeOK
        <5> QED
          BY <3>1, <5>1 DEF Decided
      <4>4. Became(q, "window", k, fence[k].st, req[q].out)
        BY <2>1, <3>4
      <4>2. \A p \in Requests : Holds(p)' => (Holds(p) \/ p = q) /\ req'[p].key = req[p].key
        BY <4>4 DEF Holds, Became, Continuing
      <4>3. \A p \in Requests : req'[p].pc \in {"window", "undo"} \cup Continuing /\ req'[p].prev = "none" =>
              req[p].pc \in {"window", "undo"} \cup Continuing /\ req[p].prev = "none" /\ req'[p].key = req[p].key
        BY <4>1, <4>4 DEF Became
      <4> HIDE DEF k
      <4>5. AllFenced' => AllFenced
        BY <3>1, <3>2, <4>1, NumbersAre, ChatAssumption DEF AllFenced, Keys
      <4>6. \A i \in Keys : decided'[i] # <<>> =>
              /\ i < wf'.n /\ fence'[i].st \in {"none", "resumed"}
              /\ \A p \in Requests : Holds(p)' => req'[p].key # i
        BY <3>1, <3>2, <4>1, <4>2 DEF Decided, k
      <4> QED
        BY <3>1, <3>2, <4>1, <4>3, <4>5, <4>6 DEF Decided
    <3> QED
      BY <3>3, <3>4
  <2> QED
    BY <1>0, <2>2, <2>3, <2>4, <2>5, <2>6 DEF Kept
<1>20. ASSUME NEW q \in Requests, ClaimDecisionThrows(q) PROVE Kept'
<2>1. Became(q, "done", req[q].key, req[q].prev, req[q].out)
BY <1>20, GotoMoves DEF ClaimDecisionThrows, Stages, RunStages
  <2>2. Alone'
BY <1>20, <2>1 DEF ClaimDecisionThrows, Trouble, Money, Marks, Became, At, Alone, Fresh, Running, Continuing
  <2>3. Stored'
BY <1>20, <2>1 DEF ClaimDecisionThrows, Trouble, Money, Marks, Became, At, Stored, ChargedIsDelivered, Fresh,
     Alone
  <2>4. Claimed'
    <3> DEFINE k == req[q].key
    <3>1. k \in Keys /\ (\A p \in Requests : req[p].key \in Keys) /\ written' = written
      BY <1>20 DEF TypeOK, RequestRecord, ClaimDecisionThrows, Marks
    <3>2. \A p \in Requests : Holds(p)' => Holds(p) /\ req'[p] = req[p]
      BY <2>1 DEF Holds, Became, Continuing
    <3>3. CASE fence' = fence
      BY <2>1, <3>1, <3>2, <3>3 DEF Claimed, WrittenOnce, Became
    <3>4. CASE fence' # fence
      <4>1. /\ Claimable(q) /\ fence'[k] = [st |-> "resumed", by |-> DecisionOf[q]]
            /\ \A i \in Keys : i # k => fence'[i] = fence[i]
        BY <1>20, <3>1, <3>4 DEF ClaimDecisionThrows, TypeOK
      <4>2. /\ fence[k].st \in {"pending", "consumed"}
            /\ fence[k].st = "consumed" => DecisionOf[q] = "write-confirmed"
            /\ \A p \in Requests : Holds(p) => req[p].key # k
        <5>1. \A p \in Requests : Holds(p) => fence[req[p].key].st = "resumed"
          BY DEF Claimed
        <5>2. /\ fence[k].st \in {"pending", "consumed"}
              /\ fence[k].st = "consumed" => DecisionOf[q] = "write-confirmed"
          BY <4>1 DEF Claimable
        <5> QED
          BY <5>1, <5>2
      <4>3. /\ written[k] > 0 => written[k] = 1 /\ DecisionOf[q] = "write-confirmed"
        BY <3>1, <4>2 DEF Claimed, WrittenOnce, TypeOK
      <4> HIDE DEF k
      <4>4. WrittenOnce'
        BY <3>1, <4>1, <4>3 DEF Claimed, WrittenOnce
      <4> QED
        BY <2>1, <3>1, <3>2, <4>1, <4>2, <4>4 DEF Claimed, Became
    <3> QED
      BY <3>3, <3>4
  <2>5. Placed'
BY <1>20, <2>1 DEF ClaimDecisionThrows, Trouble, Money, Marks, Became, At, Placed, Running, Continuing, Alone
  <2>6. Decided'
    <3> DEFINE k == req[q].key
    <3>1. decided' = decided /\ wf' = wf /\ k \in Keys /\ \A p \in Requests : req[p].key \in Keys
      BY <1>20, NumbersAre DEF ClaimDecisionThrows, Marks, Money
    <3>2. \A i \in Keys : i # k => fence'[i] = fence[i]
      BY <1>20, <2>1, <3>1 DEF ClaimDecisionThrows, Consumable, TypeOK
    <3>3. CASE fence' = fence
      BY <2>1, <3>1, <3>3 DEF Decided, AllFenced, Holds, Became, Running, Continuing, At
    <3>4. CASE fence' # fence
      <4>1. fence[k].st \in {"pending", "consumed"} /\ fence'[k].st = "resumed" /\ decided[k] = <<>>
        <5>1. fence[k].st \in {"pending", "consumed"} /\ fence'[k].st = "resumed"
          BY <1>20, <3>1, <3>4 DEF ClaimDecisionThrows, Claimable, TypeOK
        <5> QED
          BY <3>1, <5>1 DEF Decided
      <4>2. \A p \in Requests : Holds(p)' => Holds(p) /\ req'[p].key = req[p].key
        BY <2>1 DEF Holds, Became, Continuing
      <4>3. \A p \in Requests : req'[p].pc \in {"window", "undo"} \cup Continuing /\ req'[p].prev = "none" =>
              req[p].pc \in {"window", "undo"} \cup Continuing /\ req[p].prev = "none" /\ req'[p].key = req[p].key
        BY <2>1 DEF Became, Continuing
      <4> HIDE DEF k
      <4>5. AllFenced' => AllFenced
        BY <3>1, <3>2, <4>1, NumbersAre, ChatAssumption DEF AllFenced, Keys
      <4>6. \A i \in Keys : decided'[i] # <<>> =>
              /\ i < wf'.n /\ fence'[i].st \in {"none", "resumed"}
              /\ \A p \in Requests : Holds(p)' => req'[p].key # i
        BY <3>1, <3>2, <4>1, <4>2 DEF Decided
      <4> QED
        BY <3>1, <3>2, <4>1, <4>3, <4>5, <4>6 DEF Decided
    <3> QED
      BY <3>3, <3>4
  <2> QED
    BY <1>0, <2>2, <2>3, <2>4, <2>5, <2>6 DEF Kept
<1>21. ASSUME NEW q \in Requests, ClaimWindow(q) PROVE Kept'
<2>1. Became(q, IF WindowFree THEN "continue" ELSE "undo", req[q].key, req[q].prev, req[q].out)
BY <1>21, GotoMoves DEF ClaimWindow, Stages, RunStages
  <2>2. Alone'
    <3>1. window = None => \A p \in Requests : req[p].pc \notin Continuing
      BY ChatAssumption DEF Alone
    <3>2. wf' = wf /\ row' = row /\ shown' = shown
      BY <1>21 DEF ClaimWindow, Marks
    <3>3. CASE WindowFree
      BY <1>21, <2>1, <3>1, <3>2, <3>3 DEF ClaimWindow, WindowFree, Became, Alone, Fresh, Running, Continuing
    <3>4. CASE ~WindowFree
      BY <1>21, <2>1, <3>2, <3>4 DEF ClaimWindow, Became, Alone, Fresh, Running, Continuing
    <3> QED
      BY <3>3, <3>4
  <2>3. Stored'
BY <1>21, <2>1 DEF ClaimWindow, Money, Marks, WindowFree, Became, At, Stored, ChargedIsDelivered, Fresh, Alone
  <2>4. Claimed'
BY <1>21, <2>1 DEF ClaimWindow, Money, Marks, WindowFree, Became, At, Claimed, WrittenOnce, Holds, Running,
     Continuing, Keys
  <2>5. Placed'
BY <1>21, <2>1 DEF ClaimWindow, Money, Marks, WindowFree, Became, At, Placed, Running, Continuing, Alone
  <2>6. Decided'
BY <1>21, <2>1 DEF ClaimWindow, Money, Marks, WindowFree, Became, At, Decided, AllFenced, Holds, Running,
     Continuing, Claimed, Placed, Alone
  <2> QED
    BY <1>0, <2>2, <2>3, <2>4, <2>5, <2>6 DEF Kept
<1>22. ASSUME NEW q \in Requests, Continue(q) PROVE Kept'
<2>1. PICK pc \in {"go", "undo"} : Became(q, pc, req[q].key, req[q].prev, req[q].out)
BY <1>22, GotoMoves DEF Continue, Stages, RunStages
  <2>2. Alone'
BY <1>22, <2>1 DEF Continue, Rows, Marks, Became, At, Alone, Fresh, Running, Continuing
  <2>3. Stored'
BY <1>22, <2>1 DEF Continue, Rows, Marks, Became, At, Stored, ChargedIsDelivered, Fresh, Alone
  <2>4. Claimed'
BY <1>22, <2>1 DEF Continue, Rows, Marks, Became, At, Claimed, WrittenOnce, Holds, Running, Continuing, Keys
  <2>5. Placed'
BY <1>22, <2>1 DEF Continue, Rows, Marks, Became, At, Placed, Running, Continuing, Alone
  <2>6. Decided'
BY <1>22, <2>1 DEF Continue, Rows, Marks, Became, At, Decided, AllFenced, Holds, Running, Continuing, Claimed,
     Placed, Alone
  <2> QED
    BY <1>0, <2>2, <2>3, <2>4, <2>5, <2>6 DEF Kept
<1>23. ASSUME NEW q \in Requests, Go(q) PROVE Kept'
<2>1. PICK pc \in {"resuming", "undo"} : Became(q, pc, req[q].key, req[q].prev, req[q].out)
BY <1>23, GotoMoves DEF Go, Stages, RunStages
  <2>2. Alone'
BY <1>23, <2>1 DEF Go, Rows, Money, Marks, Became, At, Alone, Fresh, Running, Continuing
  <2>3. Stored'
BY <1>23, <2>1 DEF Go, Rows, Money, Marks, Became, At, Stored, ChargedIsDelivered, Fresh, Alone
  <2>4. Claimed'
BY <1>23, <2>1 DEF Go, Rows, Money, Marks, Became, At, Claimed, WrittenOnce, Holds, Running, Continuing, Keys
  <2>5. Placed'
BY <1>23, <2>1 DEF Go, Rows, Money, Marks, Became, At, Placed, Running, Continuing, Alone
  <2>6. Decided'
BY <1>23, <2>1 DEF Go, Rows, Money, Marks, Became, At, Decided, AllFenced, Holds, Running, Continuing,
     Claimed, Placed, Alone
  <2> QED
    BY <1>0, <2>2, <2>3, <2>4, <2>5, <2>6 DEF Kept
<1>24. ASSUME NEW q \in Requests, ResumeThrows(q) PROVE Kept'
<2>1. Became(q, "undo", req[q].key, req[q].prev, req[q].out)
BY <1>24, GotoMoves DEF ResumeThrows, Stages, RunStages
  <2>2. Alone'
    <3>1. \A p \in Requests : p # q /\ req[p].pc \in Continuing => window' = p
      BY <1>24, ChatAssumption DEF ResumeThrows, WindowFree, At, Alone, Continuing
    <3>2. wf' = wf /\ row' = row /\ shown' = shown
      BY <1>24 DEF ResumeThrows, Marks
    <3> QED
      BY <2>1, <3>1, <3>2 DEF Became, Alone, Fresh, Running, Continuing
  <2>3. Stored'
BY <1>24, <2>1 DEF ResumeThrows, Trouble, Money, Marks, WindowFree, Became, At, Stored, ChargedIsDelivered,
     Fresh, Alone
  <2>4. Claimed'
BY <1>24, <2>1 DEF ResumeThrows, Trouble, Money, Marks, WindowFree, Became, At, Claimed, WrittenOnce, Holds,
     Running, Continuing, Keys
  <2>5. Placed'
BY <1>24, <2>1 DEF ResumeThrows, Trouble, Money, Marks, WindowFree, Became, At, Placed, Running, Continuing,
     Alone
  <2>6. Decided'
BY <1>24, <2>1 DEF ResumeThrows, Trouble, Money, Marks, WindowFree, Became, At, Decided, AllFenced, Holds,
     Running, Continuing, Claimed, Placed, Alone
  <2> QED
    BY <1>0, <2>2, <2>3, <2>4, <2>5, <2>6 DEF Kept
<1>25. ASSUME NEW q \in Requests, Undo(q) PROVE Kept'
<2>1. Became(q, "release", req[q].key, req[q].prev, req[q].out)
BY <1>25, GotoMoves DEF Undo, Stages, RunStages
  <2>2. Alone'
BY <1>25, <2>1 DEF Undo, Money, Marks, Undone, Became, At, Alone, Fresh, Running, Continuing
  <2>3. Stored'
BY <1>25, <2>1 DEF Undo, Money, Marks, Undone, Became, At, Stored, ChargedIsDelivered, Fresh, Alone
  <2>4. Claimed'
    <3> DEFINE k == req[q].key
    <3>1. k \in Keys /\ (\A p \in Requests : req[p].key \in Keys) /\ written' = written
      BY <1>25 DEF TypeOK, RequestRecord, Undo, Marks
    <3>2. \A p \in Requests : Holds(p)' => Holds(p) /\ req'[p] = req[p] /\ p # q
      BY <2>1 DEF Holds, Became, Continuing
    <3>3. CASE Holds(q)
      <4>1. /\ fence'[k].st = req[q].prev
            /\ fence'[k].by = IF req[q].prev = "consumed" THEN "write-confirmed" ELSE "none"
            /\ \A i \in Keys : i # k => fence'[i] = fence[i]
        <5>1. fence[k] \in Fences /\ fence[k].st = "resumed" /\ fence[k].by = DecisionOf[q] /\ req[q].prev # "none"
          BY <3>1, <3>3 DEF Claimed, Holds, TypeOK
        <5>2. fence[k] = [st |-> "resumed", by |-> DecisionOf[q]]
          BY <5>1 DEF Fences
        <5> QED
          BY <1>25, <3>1, <5>1, <5>2 DEF Undo, Undone, TypeOK
      <4>2. /\ req[q].prev \in {"pending", "consumed"} /\ (req[q].prev = "pending" => written[k] = 0)
            /\ \A p \in Requests : Holds(p) /\ p # q => req[p].key # k
        BY <3>3 DEF Claimed, Holds, TypeOK, RequestRecord
      <4> HIDE DEF k
      <4>3. WrittenOnce'
        BY <3>1, <4>1, <4>2 DEF Claimed, WrittenOnce
      <4> QED
        BY <2>1, <3>1, <3>2, <4>1, <4>2, <4>3 DEF Claimed, Became
    <3>4. CASE ~Holds(q)
      <4>1. fence' = fence
        BY <1>25, <3>4 DEF Undo, Holds, At
      <4> QED
        BY <2>1, <3>1, <3>2, <4>1 DEF Claimed, WrittenOnce, Became
    <3> QED
      BY <3>3, <3>4
  <2>5. Placed'
BY <1>25, <2>1 DEF Undo, Money, Marks, Undone, Became, At, Placed, Running, Continuing, Alone
  <2>6. Decided'
BY <1>25, <2>1 DEF Undo, Money, Marks, Undone, Became, At, Decided, AllFenced, Holds, Running, Continuing,
     Claimed, Placed, Alone
  <2> QED
    BY <1>0, <2>2, <2>3, <2>4, <2>5, <2>6 DEF Kept
<1>26. ASSUME NEW q \in Requests, UndoThrows(q) PROVE Kept'
<2>1. Became(q, "release", req[q].key, req[q].prev, req[q].out)
BY <1>26, GotoMoves DEF UndoThrows, Stages, RunStages
  <2>2. Alone'
BY <1>26, <2>1 DEF UndoThrows, Trouble, Rows, Money, Marks, Became, At, Alone, Fresh, Running, Continuing
  <2>3. Stored'
BY <1>26, <2>1 DEF UndoThrows, Trouble, Rows, Money, Marks, Became, At, Stored, ChargedIsDelivered, Fresh,
     Alone
  <2>4. Claimed'
BY <1>26, <2>1 DEF UndoThrows, Trouble, Rows, Money, Marks, Became, At, Claimed, WrittenOnce, Holds, Running,
     Continuing, Keys
  <2>5. Placed'
BY <1>26, <2>1 DEF UndoThrows, Trouble, Rows, Money, Marks, Became, At, Placed, Running, Continuing, Alone
  <2>6. Decided'
BY <1>26, <2>1 DEF UndoThrows, Trouble, Rows, Money, Marks, Became, At, Decided, AllFenced, Holds, Running,
     Continuing, Claimed, Placed, Alone
  <2> QED
    BY <1>0, <2>2, <2>3, <2>4, <2>5, <2>6 DEF Kept
<1>27. ASSUME NEW q \in Requests, Resuming(q) PROVE Kept'
  <2>1. \/ /\ wf.status = "success" /\ wf' = wf /\ decided' = decided
              /\ \/ Became(q, "save", req[q].key, req[q].prev, "success")
                 \/ Became(q, "find", req[q].key, req[q].prev, "suspended")
           \/ /\ wf.status = "suspended" /\ Became(q, "run", req[q].key, req[q].prev, req[q].out)
              /\ wf'.status = "running" /\ wf'.n = wf.n /\ wf'.key = wf.key
              /\ decided' = [decided EXCEPT ![req[q].key] = Append(@, DecisionOf[q])]
           \/ /\ wf.status \notin {"suspended", "success"} /\ wf' = wf /\ decided' = decided
              /\ Became(q, "find", req[q].key, req[q].prev, "failed")
BY <1>27, GotoMoves, YieldsMoves, WfMoves DEF Resuming, Ends, Stages, RunStages
  <2>2. Alone'
    <3>1. \A p \in Requests : p # q => req'[p] = req[p]
      BY <2>1 DEF Became
    <3>2. /\ req'[q].pc \in {"save", "find", "run"}
          /\ req'[q].pc = "run" => wf.status = "suspended" /\ wf'.status = "running"
          /\ req'[q].pc = "save" => wf.status = "success"
          /\ wf' = wf \/ req'[q].pc = "run"
      BY <2>1 DEF Became
    <3>3. \A p \in Requests : req[p].pc \in Continuing => p = q
      BY <1>27 DEF Resuming, At, Alone, Continuing
    <3> QED
      BY <1>27, <3>1, <3>2, <3>3 DEF Resuming, Alone, At, Fresh, Running, Continuing
  <2>3. Stored'
BY <1>27, <2>1 DEF Resuming, Money, Became, At, Stored, ChargedIsDelivered, Fresh, Alone
  <2>4. Claimed'
BY <1>27, <2>1 DEF Resuming, Money, Became, At, Claimed, WrittenOnce, Holds, Running, Continuing, Keys
  <2>5. Placed'
BY <1>27, <2>1 DEF Resuming, Money, Became, At, Placed, Running, Continuing, Alone
  <2>6. Decided'
    <3> DEFINE k == req[q].key
    <3>1. fence' = fence /\ k \in Keys /\ window = q /\ \A p \in Requests : req[p].key \in Keys
      BY <1>27, NumbersAre DEF Resuming, At, Alone, Continuing
    <3>2. \A p \in Requests : Holds(p)' => Holds(p) /\ req'[p] = req[p] /\ p # q
      BY <2>1 DEF Holds, Became, Continuing, Running
    <3>3. CASE decided' = decided /\ wf' = wf
      BY <2>1, <3>1, <3>2, <3>3 DEF Decided, AllFenced, Became, Continuing
    <3>4. CASE /\ wf.status = "suspended" /\ Became(q, "run", req[q].key, req[q].prev, req[q].out)
               /\ wf'.status = "running" /\ wf'.n = wf.n /\ wf'.key = wf.key
               /\ decided' = [decided EXCEPT ![req[q].key] = Append(@, DecisionOf[q])]
      <4>1. k < wf.n
        BY <1>27, <3>4 DEF Resuming, At, Placed, Continuing
      <4>2. /\ fence[k].st \in {"none", "resumed"}
            /\ AllFenced => fence[k].st # "none"
            /\ \A p \in Requests : Holds(p) /\ p # q => req[p].key # k
        <5>1. CASE req[q].prev = "none"
          <6>1. fence[k].st = "none"
            BY <1>27, <5>1 DEF Resuming, At, Decided, Continuing
          <6>2. ~AllFenced
            BY <3>1, <4>1, <6>1, NumbersAre DEF AllFenced
          <6> QED
            BY <6>1, <6>2 DEF Claimed
        <5>2. CASE req[q].prev # "none"
          <6>1. Holds(q)
            BY <1>27, <5>2 DEF Resuming, At, Holds, Continuing
          <6> QED
            BY <6>1 DEF Claimed
        <5> QED
          BY <5>1, <5>2
      <4>3. AllFenced => decided[k] = <<>> /\ k = wf.key
        <5>1. ASSUME AllFenced PROVE Holds(q)
          BY <1>27, <4>2, <5>1 DEF Resuming, At, Holds, Continuing, Decided
        <5> QED
          BY <3>1, <4>1, <5>1 DEF Decided
      <4>4. decided'[k] # <<>> /\ \A i \in Keys : i # k => decided'[i] = decided[i]
        <5>1. DecisionOf[q] \in Decisions /\ decided[k] \in Seq(Decisions)
          BY <3>1, FencesKept DEF TypeOK
        <5>2. Append(decided[k], DecisionOf[q]) # <<>>
          BY <5>1
        <5> QED
          BY <3>1, <3>4, <5>2 DEF TypeOK
      <4>5. AllFenced' => AllFenced
        BY <3>1, <3>4 DEF AllFenced
      <4> HIDE DEF k
      <4>6. \A i \in Keys : decided'[i] # <<>> =>
              /\ i < wf'.n /\ fence'[i].st \in {"none", "resumed"}
              /\ \A p \in Requests : Holds(p)' => req'[p].key # i
        <5> TAKE i \in Keys
        <5>1. CASE i = k
          BY <3>1, <3>2, <3>4, <4>1, <4>2, <5>1
        <5>2. CASE i # k
          <6>1. decided[i] # <<>> => i < wf.n /\ fence[i].st \in {"none", "resumed"}
                                      /\ \A p \in Requests : Holds(p) => req[p].key # i
            BY DEF Decided
          <6>2. decided'[i] = decided[i] /\ wf'.n = wf.n /\ fence' = fence
            BY <3>1, <3>4, <4>4, <5>2
          <6> QED
            BY <3>2, <6>1, <6>2
        <5> QED
          BY <5>1, <5>2
      <4>7. AllFenced' => \A i \in Keys : i < wf'.n /\ decided'[i] = <<>> => i = wf'.key /\ wf'.status = "suspended"
        BY <3>1, <3>4, <4>3, <4>4, <4>5 DEF Decided
      <4>8. \A p \in Requests : req'[p].pc \in {"window", "undo"} \cup Continuing => req'[p] = req[p]
        BY <3>4 DEF Became, Continuing
      <4> QED
        BY <3>1, <4>6, <4>7, <4>8 DEF Decided
    <3> QED
      BY <2>1, <3>3, <3>4
  <2> QED
    BY <1>0, <2>2, <2>3, <2>4, <2>5, <2>6 DEF Kept
<1>28. ASSUME NEW q \in Requests, ResumingThrows(q) PROVE Kept'
<2>1. Became(q, "find", req[q].key, req[q].prev, "failed")
BY <1>28, YieldsMoves DEF ResumingThrows, Ends, Stages, RunStages
  <2>2. Alone'
BY <1>28, <2>1 DEF ResumingThrows, Trouble, Rows, Money, Marks, Became, At, Alone, Fresh, Running, Continuing
  <2>3. Stored'
BY <1>28, <2>1 DEF ResumingThrows, Trouble, Rows, Money, Marks, Became, At, Stored, ChargedIsDelivered, Fresh,
     Alone
  <2>4. Claimed'
BY <1>28, <2>1 DEF ResumingThrows, Trouble, Rows, Money, Marks, Became, At, Claimed, WrittenOnce, Holds,
     Running, Continuing, Keys
  <2>5. Placed'
BY <1>28, <2>1 DEF ResumingThrows, Trouble, Rows, Money, Marks, Became, At, Placed, Running, Continuing, Alone
  <2>6. Decided'
BY <1>28, <2>1 DEF ResumingThrows, Trouble, Rows, Money, Marks, Became, At, Decided, AllFenced, Holds,
     Running, Continuing, Claimed, Placed, Alone
  <2> QED
    BY <1>0, <2>2, <2>3, <2>4, <2>5, <2>6 DEF Kept
<1>29. ASSUME NEW q \in Requests, RaiseFence(q) PROVE Kept'
<2>1. Became(q, "suspending", req[q].key, req[q].prev, req[q].out)
BY <1>29, GotoMoves DEF RaiseFence, Stages, RunStages
  <2>2. Alone'
BY <1>29, <2>1 DEF RaiseFence, Trouble, Money, Fenced, Became, At, Alone, Fresh, Running, Continuing
  <2>3. Stored'
BY <1>29, <2>1 DEF RaiseFence, Trouble, Money, Fenced, Became, At, Stored, ChargedIsDelivered, Fresh, Alone
  <2>4. Claimed'
    <3>1. written' = written /\ \A p \in Requests : Holds(p)' => Holds(p) /\ req'[p] = req[p]
      BY <1>29, <2>1 DEF RaiseFence, Holds, Became, Continuing
    <3>2. \A k \in Keys : fence[k].st # "none" => fence'[k] = fence[k]
      BY <1>29 DEF RaiseFence, Fenced, TypeOK
    <3> QED
      BY <2>1, <3>1, <3>2, NumbersAre DEF Claimed, WrittenOnce, Became
  <2>5. Placed'
    <3>1. wf' = wf /\ shown' = shown \cup {wf.n}
      BY <1>29 DEF RaiseFence
    <3>2. wf.status = "running" /\ \A p \in Requests : p # q => req[p].pc # "run"
      BY <1>29 DEF RaiseFence, At, Alone, Running
    <3> QED
      BY <2>1, <3>1, <3>2, NumbersAre DEF Placed, Became, Running, Continuing
  <2>6. Decided'
    <3>1. decided' = decided /\ wf' = wf /\ wf.status = "running" /\ wf.n \notin shown
      BY <1>29 DEF RaiseFence, At, Alone, Running, Placed
    <3>2. \A p \in Requests : Holds(p)' => Holds(p) /\ req'[p] = req[p]
      BY <2>1 DEF Holds, Became, Continuing
    <3>3. \A k \in Keys : k # wf.n => fence'[k] = fence[k]
      BY <1>29, NumbersAre DEF RaiseFence, TypeOK
    <3>4. AllFenced' => AllFenced
      BY <3>1, <3>3, NumbersAre, ChatAssumption DEF AllFenced, Keys
    <3>5. \A p \in Requests : req'[p].pc \in {"window", "undo"} \cup Continuing =>
            req'[p] = req[p] /\ req[p].key # wf.n
      BY <2>1, <3>1, NumbersAre DEF Became, Placed, Continuing
    <3>6. \A k \in Keys : decided'[k] # <<>> =>
            /\ k < wf'.n /\ fence'[k].st \in {"none", "resumed"}
            /\ \A p \in Requests : Holds(p)' => req'[p].key # k
      BY <3>1, <3>2, <3>3, NumbersAre DEF Decided
    <3>7. AllFenced' => \A k \in Keys : k < wf'.n /\ decided'[k] = <<>> => k = wf'.key /\ wf'.status = "suspended"
      BY <3>1, <3>4 DEF Decided
    <3> QED
      BY <3>3, <3>5, <3>6, <3>7, NumbersAre DEF Decided
  <2> QED
    BY <1>0, <2>2, <2>3, <2>4, <2>5, <2>6 DEF Kept
<1>30. ASSUME NEW q \in Requests, Suspend(q) PROVE Kept'
<2>1. Became(q, "find", req[q].key, req[q].prev, "suspended")
BY <1>30, YieldsMoves DEF Suspend, Ends, Stages, RunStages
  <2>2. wf'.status = "suspended" /\ wf'.key = wf.n /\ wf'.n = wf.n + 1
    BY <1>30, WfMoves DEF Suspend
  <2>3. Alone'
BY <1>30, <2>1, <2>2 DEF Suspend, Money, Marks, Became, At, Alone, Fresh, Running, Continuing
  <2>4. Stored'
BY <1>30, <2>1, <2>2 DEF Suspend, Money, Marks, Became, At, Stored, ChargedIsDelivered, Fresh, Alone
  <2>5. Claimed'
BY <1>30, <2>1, <2>2 DEF Suspend, Money, Marks, Became, At, Claimed, WrittenOnce, Holds, Running, Continuing,
     Keys
  <2>6. Placed'
    <3>1. shown' = shown /\ \A p \in Requests : p # q => req[p].pc # "run"
      BY <1>30 DEF Suspend, Marks, At, Alone, Running
    <3>2. \A p \in Requests : req'[p].key = req[p].key /\ (req'[p].pc = req[p].pc \/ req'[p].pc = "find")
      BY <2>1, <2>2 DEF Became
    <3> QED
      BY <2>1, <2>2, <3>1, <3>2, NumbersAre DEF Placed, Running, Continuing
  <2>7. Decided'
    <3>1. decided' = decided /\ fence' = fence /\ wf.status = "running"
      BY <1>30 DEF Suspend, Marks, At, Alone, Running
    <3>2. \A p \in Requests : Holds(p)' => Holds(p) /\ req'[p] = req[p]
      BY <2>1, <2>2 DEF Holds, Became, Continuing
    <3>3. AllFenced' => AllFenced
      BY <2>1, <2>2, <3>1, NumbersAre DEF AllFenced
    <3>4. \A p \in Requests : p # q => req'[p] = req[p]
      BY <2>1, <2>2 DEF Became
    <3>5. req'[q].pc = "find"
      BY <2>1, <2>2 DEF Became
    <3>6. \A k \in Keys : decided'[k] # <<>> =>
            /\ k < wf'.n /\ fence'[k].st \in {"none", "resumed"}
            /\ \A p \in Requests : Holds(p)' => req'[p].key # k
      BY <2>1, <2>2, <3>1, <3>2, NumbersAre DEF Decided
    <3>7. AllFenced' => \A k \in Keys : k < wf'.n /\ decided'[k] = <<>> => k = wf'.key /\ wf'.status = "suspended"
      BY <2>1, <2>2, <3>1, <3>3, NumbersAre DEF Decided
    <3> QED
      BY <3>1, <3>4, <3>5, <3>6, <3>7 DEF Decided, Running, Continuing
  <2> QED
    BY <1>0, <2>3, <2>4, <2>5, <2>6, <2>7 DEF Kept
<1>31. ASSUME NEW q \in Requests, Succeed(q) PROVE Kept'
<2>1. Became(q, "save", req[q].key, req[q].prev, "success")
BY <1>31, YieldsMoves DEF Succeed, Ends, Stages, RunStages
  <2>2. wf'.status = "success" /\ wf'.key = wf.key /\ wf'.n = wf.n
    BY <1>31, WfMoves DEF Succeed
  <2>3. Alone'
BY <1>31, <2>1, <2>2 DEF Succeed, Money, Marks, Became, At, Alone, Fresh, Running, Continuing
  <2>4. Stored'
BY <1>31, <2>1, <2>2 DEF Succeed, Money, Marks, Became, At, Stored, ChargedIsDelivered, Fresh, Alone
  <2>5. Claimed'
BY <1>31, <2>1, <2>2 DEF Succeed, Money, Marks, Became, At, Claimed, WrittenOnce, Holds, Running, Continuing,
     Keys
  <2>6. Placed'
BY <1>31, <2>1, <2>2 DEF Succeed, Money, Marks, Became, At, Placed, Running, Continuing, Alone
  <2>7. Decided'
BY <1>31, <2>1, <2>2 DEF Succeed, Money, Marks, Became, At, Decided, AllFenced, Holds, Running, Continuing,
     Claimed, Placed, Alone
  <2> QED
    BY <1>0, <2>3, <2>4, <2>5, <2>6, <2>7 DEF Kept
<1>32. ASSUME NEW q \in Requests, Fail(q) PROVE Kept'
<2>1. Became(q, "find", req[q].key, req[q].prev, "failed")
BY <1>32, YieldsMoves DEF Fail, Ends, Stages, RunStages
  <2>2. wf'.status \in {wf.status, "cancelled"} /\ wf'.key = wf.key /\ wf'.n = wf.n
    BY <1>32, WfMoves DEF Fail
  <2>3. Alone'
BY <1>32, <2>1, <2>2 DEF Fail, Money, Marks, Became, Alone, Fresh, Running, Continuing
  <2>4. Stored'
BY <1>32, <2>1, <2>2 DEF Fail, Money, Marks, Became, Stored, ChargedIsDelivered, Fresh, Alone
  <2>5. Claimed'
BY <1>32, <2>1, <2>2 DEF Fail, Money, Marks, Became, Claimed, WrittenOnce, Holds, Running, Continuing, Keys
  <2>6. Placed'
BY <1>32, <2>1, <2>2 DEF Fail, Money, Marks, Became, Placed, Running, Continuing, Alone
  <2>7. Decided'
BY <1>32, <2>1, <2>2 DEF Fail, Money, Marks, Became, Decided, AllFenced, Holds, Running, Continuing, Claimed,
     Placed, Alone
  <2> QED
    BY <1>0, <2>3, <2>4, <2>5, <2>6, <2>7 DEF Kept
<1>33. ASSUME NEW q \in Requests, Save(q) PROVE Kept'
  <2>1. Became(q, "find", req[q].key, req[q].prev, IF row \in {"running", "suspended"} THEN "success" ELSE "failed")
BY <1>33, YieldsMoves DEF Save, Ends, Stages, RunStages
  <2>2. Alone'
BY <1>33, <2>1 DEF Save, Money, Marks, Marked, Became, At, Alone, Fresh, Running, Continuing
  <2>3. Stored'
BY <1>33, <2>1 DEF Save, Money, Marks, Marked, Became, At, Stored, ChargedIsDelivered, Fresh, Alone
  <2>4. Claimed'
BY <1>33, <2>1 DEF Save, Money, Marks, Marked, Became, At, Claimed, WrittenOnce, Holds, Running, Continuing,
     Keys
  <2>5. Placed'
BY <1>33, <2>1 DEF Save, Money, Marks, Marked, Became, At, Placed, Running, Continuing, Alone
  <2>6. Decided'
BY <1>33, <2>1 DEF Save, Money, Marks, Marked, Became, At, Decided, AllFenced, Holds, Running, Continuing,
     Claimed, Placed, Alone
  <2> QED
    BY <1>0, <2>2, <2>3, <2>4, <2>5, <2>6 DEF Kept
<1>34. ASSUME NEW q \in Requests, SaveThrows(q) PROVE Kept'
<2>1. Became(q, "find", req[q].key, req[q].prev, "failed")
BY <1>34, YieldsMoves DEF SaveThrows, Ends, Stages, RunStages
  <2>2. Alone'
BY <1>34, <2>1 DEF SaveThrows, Trouble, Money, Marks, Marked, Became, At, Alone, Fresh, Running, Continuing
  <2>3. Stored'
BY <1>34, <2>1 DEF SaveThrows, Trouble, Money, Marks, Marked, Became, At, Stored, ChargedIsDelivered, Fresh,
     Alone
  <2>4. Claimed'
BY <1>34, <2>1 DEF SaveThrows, Trouble, Money, Marks, Marked, Became, At, Claimed, WrittenOnce, Holds,
     Running, Continuing, Keys
  <2>5. Placed'
BY <1>34, <2>1 DEF SaveThrows, Trouble, Money, Marks, Marked, Became, At, Placed, Running, Continuing, Alone
  <2>6. Decided'
BY <1>34, <2>1 DEF SaveThrows, Trouble, Money, Marks, Marked, Became, At, Decided, AllFenced, Holds, Running,
     Continuing, Claimed, Placed, Alone
  <2> QED
    BY <1>0, <2>2, <2>3, <2>4, <2>5, <2>6 DEF Kept
<1>35. ASSUME NEW q \in Requests, Find(q) PROVE Kept'
  <2>1. IF row = "complete" THEN Became(q, "meter", req[q].key, req[q].prev, "success")
           ELSE Became(q, "mark", req[q].key, req[q].prev, req[q].out)
BY <1>35, GotoMoves, YieldsMoves DEF Find, Stages, RunStages
  <2>2. Alone'
BY <1>35, <2>1 DEF Find, Rows, Money, Marks, Became, At, Alone, Fresh, Running, Continuing
  <2>3. Stored'
BY <1>35, <2>1 DEF Find, Rows, Money, Marks, Became, At, Stored, ChargedIsDelivered, Fresh, Alone
  <2>4. Claimed'
BY <1>35, <2>1 DEF Find, Rows, Money, Marks, Became, At, Claimed, WrittenOnce, Holds, Running, Continuing,
     Keys
  <2>5. Placed'
BY <1>35, <2>1 DEF Find, Rows, Money, Marks, Became, At, Placed, Running, Continuing, Alone
  <2>6. Decided'
BY <1>35, <2>1 DEF Find, Rows, Money, Marks, Became, At, Decided, AllFenced, Holds, Running, Continuing,
     Claimed, Placed, Alone
  <2> QED
    BY <1>0, <2>2, <2>3, <2>4, <2>5, <2>6 DEF Kept
<1>36. ASSUME NEW q \in Requests, FindThrows(q) PROVE Kept'
<2>1. Became(q, "mark", req[q].key, req[q].prev, req[q].out)
BY <1>36, GotoMoves DEF FindThrows, Stages, RunStages
  <2>2. Alone'
BY <1>36, <2>1 DEF FindThrows, Trouble, Rows, Money, Marks, Became, At, Alone, Fresh, Running, Continuing
  <2>3. Stored'
BY <1>36, <2>1 DEF FindThrows, Trouble, Rows, Money, Marks, Became, At, Stored, ChargedIsDelivered, Fresh,
     Alone
  <2>4. Claimed'
BY <1>36, <2>1 DEF FindThrows, Trouble, Rows, Money, Marks, Became, At, Claimed, WrittenOnce, Holds, Running,
     Continuing, Keys
  <2>5. Placed'
BY <1>36, <2>1 DEF FindThrows, Trouble, Rows, Money, Marks, Became, At, Placed, Running, Continuing, Alone
  <2>6. Decided'
BY <1>36, <2>1 DEF FindThrows, Trouble, Rows, Money, Marks, Became, At, Decided, AllFenced, Holds, Running,
     Continuing, Claimed, Placed, Alone
  <2> QED
    BY <1>0, <2>2, <2>3, <2>4, <2>5, <2>6 DEF Kept
<1>37. ASSUME NEW q \in Requests, Mark(q) PROVE Kept'
<2>1. Became(q, "meter", req[q].key, req[q].prev, req[q].out)
BY <1>37, GotoMoves DEF Mark, Stages, RunStages
  <2>2. Alone'
BY <1>37, <2>1 DEF Mark, Money, Marks, Marked, Became, At, Alone, Fresh, Running, Continuing
  <2>3. Stored'
BY <1>37, <2>1 DEF Mark, Money, Marks, Marked, Became, At, Stored, ChargedIsDelivered, Fresh, Alone
  <2>4. Claimed'
BY <1>37, <2>1 DEF Mark, Money, Marks, Marked, Became, At, Claimed, WrittenOnce, Holds, Running, Continuing,
     Keys
  <2>5. Placed'
BY <1>37, <2>1 DEF Mark, Money, Marks, Marked, Became, At, Placed, Running, Continuing, Alone
  <2>6. Decided'
BY <1>37, <2>1 DEF Mark, Money, Marks, Marked, Became, At, Decided, AllFenced, Holds, Running, Continuing,
     Claimed, Placed, Alone
  <2> QED
    BY <1>0, <2>2, <2>3, <2>4, <2>5, <2>6 DEF Kept
<1>38. ASSUME NEW q \in Requests, Meter(q) PROVE Kept'
<2>1. Became(q, "release", req[q].key, req[q].prev, req[q].out)
BY <1>38, GotoMoves DEF Meter, Stages, RunStages
  <2>2. Alone'
BY <1>38, <2>1 DEF Meter, Rows, Money, Marks, Finish, Became, At, Alone, Fresh, Running, Continuing
  <2>3. Stored'
    <3>1. \/ hold' = hold /\ charges' = charges
          \/ hold = "open" /\ hold' = "returned" /\ charges' = charges
          \/ hold = "open" /\ hold' = "charged" /\ charges' = charges + 1 /\ req[q].out = "success"
      BY <1>38 DEF Meter, Finish, Money
    <3>2. row' = row /\ (req[q].out = "success" => row = "complete")
      BY <1>38 DEF Meter, Rows, At, Stored
    <3> QED
      <4>1. ChargedIsDelivered'
        BY <3>1, <3>2 DEF Stored, ChargedIsDelivered, TypeOK
      <4> QED
        BY <3>2, <4>1, <2>1 DEF Stored, Became
  <2>4. Claimed'
BY <1>38, <2>1 DEF Meter, Rows, Money, Marks, Finish, Became, At, Claimed, WrittenOnce, Holds, Running,
     Continuing, Keys
  <2>5. Placed'
BY <1>38, <2>1 DEF Meter, Rows, Money, Marks, Finish, Became, At, Placed, Running, Continuing, Alone
  <2>6. Decided'
BY <1>38, <2>1 DEF Meter, Rows, Money, Marks, Finish, Became, At, Decided, AllFenced, Holds, Running,
     Continuing, Claimed, Placed, Alone
  <2> QED
    BY <1>0, <2>2, <2>3, <2>4, <2>5, <2>6 DEF Kept
<1>39. ASSUME NEW q \in Requests, MarkThrows(q) PROVE Kept'
<2>1. PICK pc \in {"meter", "release"} : Became(q, pc, req[q].key, req[q].prev, req[q].out)
BY <1>39, GotoMoves DEF MarkThrows, At, Stages, RunStages
  <2>2. Alone'
BY <1>39, <2>1 DEF MarkThrows, Trouble, Rows, Money, Marks, Became, At, Alone, Fresh, Running, Continuing
  <2>3. Stored'
BY <1>39, <2>1 DEF MarkThrows, Trouble, Rows, Money, Marks, Became, At, Stored, ChargedIsDelivered, Fresh,
     Alone
  <2>4. Claimed'
BY <1>39, <2>1 DEF MarkThrows, Trouble, Rows, Money, Marks, Became, At, Claimed, WrittenOnce, Holds, Running,
     Continuing, Keys
  <2>5. Placed'
BY <1>39, <2>1 DEF MarkThrows, Trouble, Rows, Money, Marks, Became, At, Placed, Running, Continuing, Alone
  <2>6. Decided'
BY <1>39, <2>1 DEF MarkThrows, Trouble, Rows, Money, Marks, Became, At, Decided, AllFenced, Holds, Running,
     Continuing, Claimed, Placed, Alone
  <2> QED
    BY <1>0, <2>2, <2>3, <2>4, <2>5, <2>6 DEF Kept
<1>40. ASSUME NEW q \in Requests, Release(q) PROVE Kept'
<2>1. Became(q, "done", req[q].key, req[q].prev, req[q].out)
BY <1>40, GotoMoves DEF Release, Stages, RunStages
  <2>2. Alone'
BY <1>40, <2>1 DEF Release, Money, Marks, Became, At, Alone, Fresh, Running, Continuing
  <2>3. Stored'
BY <1>40, <2>1 DEF Release, Money, Marks, Became, At, Stored, ChargedIsDelivered, Fresh, Alone
  <2>4. Claimed'
BY <1>40, <2>1 DEF Release, Money, Marks, Became, At, Claimed, WrittenOnce, Holds, Running, Continuing, Keys
  <2>5. Placed'
BY <1>40, <2>1 DEF Release, Money, Marks, Became, At, Placed, Running, Continuing, Alone
  <2>6. Decided'
BY <1>40, <2>1 DEF Release, Money, Marks, Became, At, Decided, AllFenced, Holds, Running, Continuing, Claimed,
     Placed, Alone
  <2> QED
    BY <1>0, <2>2, <2>3, <2>4, <2>5, <2>6 DEF Kept
<1>41. ASSUME NEW q \in Requests, ReleaseThrows(q) PROVE Kept'
<2>1. Became(q, "done", req[q].key, req[q].prev, req[q].out)
BY <1>41, GotoMoves DEF ReleaseThrows, Stages, RunStages
  <2>2. Alone'
BY <1>41, <2>1 DEF ReleaseThrows, Trouble, Rows, Money, Marks, Became, At, Alone, Fresh, Running, Continuing
  <2>3. Stored'
BY <1>41, <2>1 DEF ReleaseThrows, Trouble, Rows, Money, Marks, Became, At, Stored, ChargedIsDelivered, Fresh,
     Alone
  <2>4. Claimed'
BY <1>41, <2>1 DEF ReleaseThrows, Trouble, Rows, Money, Marks, Became, At, Claimed, WrittenOnce, Holds,
     Running, Continuing, Keys
  <2>5. Placed'
BY <1>41, <2>1 DEF ReleaseThrows, Trouble, Rows, Money, Marks, Became, At, Placed, Running, Continuing, Alone
  <2>6. Decided'
BY <1>41, <2>1 DEF ReleaseThrows, Trouble, Rows, Money, Marks, Became, At, Decided, AllFenced, Holds, Running,
     Continuing, Claimed, Placed, Alone
  <2> QED
    BY <1>0, <2>2, <2>3, <2>4, <2>5, <2>6 DEF Kept
<1>42. CASE Sweep
  <2>1. Alone'
BY <1>42 DEF Sweep, Rows, Marks, At, Alone, Fresh, Running, Continuing
  <2>2. Stored'
BY <1>42 DEF Sweep, Rows, Marks, At, Stored, ChargedIsDelivered, Fresh, Alone
  <2>3. Claimed'
BY <1>42 DEF Sweep, Rows, Marks, At, Claimed, WrittenOnce, Holds, Running, Continuing, Keys
  <2>4. Placed'
BY <1>42 DEF Sweep, Rows, Marks, At, Placed, Running, Continuing, Alone
  <2>5. Decided'
BY <1>42 DEF Sweep, Rows, Marks, At, Decided, AllFenced, Holds, Running, Continuing, Claimed, Placed, Alone
  <2> QED
    BY <1>0, <2>1, <2>2, <2>3, <2>4, <2>5 DEF Kept
<1>43. CASE WindowLapses
  <2>1. Alone'
BY <1>43 DEF WindowLapses, Money, Marks, At, Alone, Fresh, Running, Continuing
  <2>2. Stored'
BY <1>43 DEF WindowLapses, Money, Marks, At, Stored, ChargedIsDelivered, Fresh, Alone
  <2>3. Claimed'
BY <1>43 DEF WindowLapses, Money, Marks, At, Claimed, WrittenOnce, Holds, Running, Continuing, Keys
  <2>4. Placed'
BY <1>43 DEF WindowLapses, Money, Marks, At, Placed, Running, Continuing, Alone
  <2>5. Decided'
BY <1>43 DEF WindowLapses, Money, Marks, At, Decided, AllFenced, Holds, Running, Continuing, Claimed, Placed,
     Alone
  <2> QED
    BY <1>0, <2>1, <2>2, <2>3, <2>4, <2>5 DEF Kept
<1>44. CASE Forget
  <2>1. Alone'
BY <1>44 DEF Forget, Rows, Money, Marks, At, Alone, Fresh, Running, Continuing
  <2>2. Stored'
BY <1>44 DEF Forget, Rows, Money, Marks, At, Stored, ChargedIsDelivered, Fresh, Alone
  <2>3. Claimed'
BY <1>44 DEF Forget, Rows, Money, Marks, At, Claimed, WrittenOnce, Holds, Running, Continuing, Keys
  <2>4. Placed'
BY <1>44 DEF Forget, Rows, Money, Marks, At, Placed, Running, Continuing, Alone
  <2>5. Decided'
BY <1>44 DEF Forget, Rows, Money, Marks, At, Decided, AllFenced, Holds, Running, Continuing, Claimed, Placed,
     Alone
  <2> QED
    BY <1>0, <2>1, <2>2, <2>3, <2>4, <2>5 DEF Kept
<1>45. CASE Crash
  <2>1. \A q \in Requests : IF req[q].pc = "idle" THEN req'[q] = req[q] ELSE req'[q].pc = "done"
    BY <1>45, CrashMoves
  <2>2. Alone'
BY <1>45, <2>1 DEF Crash, Trouble, Rows, Money, Marks, At, Alone, Fresh, Running, Continuing
  <2>3. Stored'
BY <1>45, <2>1 DEF Crash, Trouble, Rows, Money, Marks, At, Stored, ChargedIsDelivered, Fresh, Alone
  <2>4. Claimed'
BY <1>45, <2>1 DEF Crash, Trouble, Rows, Money, Marks, At, Claimed, WrittenOnce, Holds, Running, Continuing,
     Keys
  <2>5. Placed'
BY <1>45, <2>1 DEF Crash, Trouble, Rows, Money, Marks, At, Placed, Running, Continuing, Alone
  <2>6. Decided'
BY <1>45, <2>1 DEF Crash, Trouble, Rows, Money, Marks, At, Decided, AllFenced, Holds, Running, Continuing,
     Claimed, Placed, Alone
  <2> QED
    BY <1>0, <2>2, <2>3, <2>4, <2>5, <2>6 DEF Kept
<1>46. CASE UNCHANGED vars
  <2>1. Alone'
BY <1>46 DEF vars, Alone, Fresh, Running, Continuing
  <2>2. Stored'
BY <1>46 DEF vars, Stored, ChargedIsDelivered, Fresh
  <2>3. Claimed'
BY <1>46 DEF vars, Claimed, WrittenOnce, Holds, Running, Continuing
  <2>4. Placed'
BY <1>46 DEF vars, Placed, Running, Continuing
  <2>5. Decided'
BY <1>46 DEF vars, Decided, AllFenced, Holds, Running, Continuing
  <2> QED
    BY <1>0, <2>1, <2>2, <2>3, <2>4, <2>5 DEF Kept
<1> QED
BY <1>1, <1>2, <1>3, <1>4, <1>5, <1>6, <1>7, <1>8, <1>9, <1>10, <1>11, <1>12, <1>13, <1>14, <1>15, <1>16,
     <1>17, <1>18, <1>19, <1>20, <1>21, <1>22, <1>23, <1>24, <1>25, <1>26, <1>27, <1>28, <1>29, <1>30, <1>31,
     <1>32, <1>33, <1>34, <1>35, <1>36, <1>37, <1>38, <1>39, <1>40, <1>41, <1>42, <1>43, <1>44, <1>45, <1>46
     DEF Next, Serve, Execute

LEMMA KeptInit == Init => Kept
<1> SUFFICES ASSUME Init PROVE Kept
  OBVIOUS
<1>1. TypeOK
  BY TypeInit
<1>2. \A q \in Requests : req[q].pc = "idle" /\ req[q].prev = "none"
  BY DEF Init, NoRequest
<1>3. Alone /\ Stored
  BY <1>2 DEF Init, Alone, Fresh, Running, Continuing, Stored, ChargedIsDelivered
<1>4. Claimed
  BY <1>2 DEF Init, Claimed, WrittenOnce, Holds, Continuing
<1>5. Placed
  BY <1>2 DEF Init, Placed, Continuing
<1>6. Decided
  BY <1>2, ChatAssumption DEF Init, Decided, Continuing, Keys
<1> QED
  BY <1>1, <1>3, <1>4, <1>5, <1>6 DEF Kept

LEMMA KeptAlways == Spec => []Kept
  BY KeptInit, KeptStep, PTL DEF Spec

-----------------------------------------------------------------------------
(* What follows                                                            *)

\* A suspend is written once at the most, and what was written stays closed, whatever tabs confirm,
\* reject and retry (consumeSuspendAndWrite, claimSuspendDecision, releaseSuspendDecision).
THEOREM SuspendsAreWrittenOnce == Spec => []WrittenOnce
<1>1. Kept => WrittenOnce
  BY DEF Kept, Claimed
<1> QED
  BY <1>1, KeptAlways, PTL

\* A run is charged once at the most, and only for an answer that is stored (finishByRun).
THEOREM ChargesAreDelivered == Spec => []ChargedIsDelivered
<1>1. Kept => ChargedIsDelivered
  BY DEF Kept, Stored
<1> QED
  BY <1>1, KeptAlways, PTL

\* A decision is given to the run by a resume only, a write done by a confirmation only, and the row
\* of an answer that is stored is left alone by all.
Marking ==
    /\ decided' # decided => \E q \in Requests : Resuming(q)
    /\ written' # written => \E q \in Requests : Consume(q)
    /\ row = "complete" => row' = "complete"

LEMMA MarksAreMade == [Next]_vars => Marking
<1> SUFFICES ASSUME [Next]_vars PROVE Marking
  OBVIOUS
<1>1. ASSUME NEW q \in Requests, Claim(q) PROVE Marking
  BY <1>1 DEF Claim, Marks, Marking
<1>2. ASSUME NEW q \in Requests, ClaimThrows(q) PROVE Marking
  BY <1>2 DEF ClaimThrows, Marks, Marking
<1>3. ASSUME NEW q \in Requests, Register(q) PROVE Marking
  BY <1>3 DEF Register, Rows, Marks, Marking
<1>4. ASSUME NEW q \in Requests, Reserve(q) PROVE Marking
  BY <1>4 DEF Reserve, Rows, Marks, Marking
<1>5. ASSUME NEW q \in Requests, Refused(q) PROVE Marking
  BY <1>5 DEF Refused, Marks, Marked, Marking
<1>6. ASSUME NEW q \in Requests, Begin(q) PROVE Marking
  BY <1>6 DEF Begin, Marks, Marking
<1>7. ASSUME NEW q \in Requests, Abandon(q) PROVE Marking
  BY <1>7 DEF Abandon, Marks, Marked, Marking
<1>8. ASSUME NEW q \in Requests, GiveBack(q) PROVE Marking
  BY <1>8 DEF GiveBack, Rows, Marks, Marking
<1>9. ASSUME NEW q \in Requests, RecoverAsked(q) PROVE Marking
  BY <1>9 DEF RecoverAsked, Rows, Marks, Marking
<1>10. ASSUME NEW q \in Requests, Read(q) PROVE Marking
  BY <1>10 DEF Read, Rows, Marks, Marking
<1>11. ASSUME NEW q \in Requests, Card(q) PROVE Marking
  BY <1>11 DEF Card, Rows, Marking
<1>12. ASSUME NEW q \in Requests, Reconcile(q) PROVE Marking
  BY <1>12 DEF Reconcile, Rows, Marks, Marking
<1>13. ASSUME NEW q \in Requests, Interrupted(q) PROVE Marking
  BY <1>13 DEF Interrupted, Marks, Marked, Marking
<1>14. ASSUME NEW q \in Requests, WriteLoads(q) PROVE Marking
  BY <1>14 DEF WriteLoads, Rows, Marks, Marking
<1>15. ASSUME NEW q \in Requests, Consume(q) PROVE Marking
  BY <1>15 DEF Consume, Marking
<1>16. ASSUME NEW q \in Requests, ConsumeThrows(q) PROVE Marking
  BY <1>16 DEF ConsumeThrows, Rows, Marks, Marking
<1>17. ASSUME NEW q \in Requests, ResumeLoads(q) PROVE Marking
  BY <1>17 DEF ResumeLoads, Rows, Marks, Marking
<1>18. ASSUME NEW q \in Requests, Delivered(q) PROVE Marking
  BY <1>18 DEF Delivered, Rows, Marks, Marking
<1>19. ASSUME NEW q \in Requests, ClaimDecision(q) PROVE Marking
  BY <1>19 DEF ClaimDecision, Marks, Marking
<1>20. ASSUME NEW q \in Requests, ClaimDecisionThrows(q) PROVE Marking
  BY <1>20 DEF ClaimDecisionThrows, Marks, Marking
<1>21. ASSUME NEW q \in Requests, ClaimWindow(q) PROVE Marking
  BY <1>21 DEF ClaimWindow, Marks, Marking
<1>22. ASSUME NEW q \in Requests, Continue(q) PROVE Marking
  BY <1>22 DEF Continue, Rows, Marks, Marking
<1>23. ASSUME NEW q \in Requests, Go(q) PROVE Marking
  BY <1>23 DEF Go, Rows, Marks, Marking
<1>24. ASSUME NEW q \in Requests, ResumeThrows(q) PROVE Marking
  BY <1>24 DEF ResumeThrows, Marks, Marking
<1>25. ASSUME NEW q \in Requests, Undo(q) PROVE Marking
  BY <1>25 DEF Undo, Marks, Marking
<1>26. ASSUME NEW q \in Requests, UndoThrows(q) PROVE Marking
  BY <1>26 DEF UndoThrows, Rows, Marks, Marking
<1>27. ASSUME NEW q \in Requests, Resuming(q) PROVE Marking
  BY <1>27 DEF Resuming, Marking
<1>28. ASSUME NEW q \in Requests, ResumingThrows(q) PROVE Marking
  BY <1>28 DEF ResumingThrows, Rows, Marks, Marking
<1>29. ASSUME NEW q \in Requests, RaiseFence(q) PROVE Marking
  BY <1>29 DEF RaiseFence, Marking
<1>30. ASSUME NEW q \in Requests, Suspend(q) PROVE Marking
  BY <1>30 DEF Suspend, Marks, Marking
<1>31. ASSUME NEW q \in Requests, Succeed(q) PROVE Marking
  BY <1>31 DEF Succeed, Marks, Marking
<1>32. ASSUME NEW q \in Requests, Fail(q) PROVE Marking
  BY <1>32 DEF Fail, Marks, Marking
<1>33. ASSUME NEW q \in Requests, Save(q) PROVE Marking
  BY <1>33 DEF Save, Marks, Marked, Marking
<1>34. ASSUME NEW q \in Requests, SaveThrows(q) PROVE Marking
  BY <1>34 DEF SaveThrows, Marks, Marked, Marking
<1>35. ASSUME NEW q \in Requests, Find(q) PROVE Marking
  BY <1>35 DEF Find, Rows, Marks, Marking
<1>36. ASSUME NEW q \in Requests, FindThrows(q) PROVE Marking
  BY <1>36 DEF FindThrows, Rows, Marks, Marking
<1>37. ASSUME NEW q \in Requests, Mark(q) PROVE Marking
  BY <1>37 DEF Mark, Marks, Marked, Marking
<1>38. ASSUME NEW q \in Requests, Meter(q) PROVE Marking
  BY <1>38 DEF Meter, Rows, Marks, Marking
<1>39. ASSUME NEW q \in Requests, MarkThrows(q) PROVE Marking
  BY <1>39 DEF MarkThrows, Rows, Marks, Marking
<1>40. ASSUME NEW q \in Requests, Release(q) PROVE Marking
  BY <1>40 DEF Release, Marks, Marking
<1>41. ASSUME NEW q \in Requests, ReleaseThrows(q) PROVE Marking
  BY <1>41 DEF ReleaseThrows, Rows, Marks, Marking
<1>42. CASE Sweep
  BY <1>42 DEF Sweep, Rows, Marks, Marking
<1>43. CASE WindowLapses
  BY <1>43 DEF WindowLapses, Marks, Marking
<1>44. CASE Forget
  BY <1>44 DEF Forget, Rows, Marks, Marking
<1>45. CASE Crash
  BY <1>45 DEF Crash, Rows, Marks, Marking
<1>46. CASE UNCHANGED vars
  BY <1>46 DEF vars, Marking
<1> QED
BY <1>1, <1>2, <1>3, <1>4, <1>5, <1>6, <1>7, <1>8, <1>9, <1>10, <1>11, <1>12, <1>13, <1>14, <1>15, <1>16,
     <1>17, <1>18, <1>19, <1>20, <1>21, <1>22, <1>23, <1>24, <1>25, <1>26, <1>27, <1>28, <1>29, <1>30, <1>31,
     <1>32, <1>33, <1>34, <1>35, <1>36, <1>37, <1>38, <1>39, <1>40, <1>41, <1>42, <1>43, <1>44, <1>45, <1>46
     DEF Next, Serve, Execute

\* The decision of a resume is one for the suspend that the run is at, which has none, or a fence
\* was lost.
LEMMA ResumeDecides ==
    ASSUME Kept, NEW q \in Requests, Resuming(q), decided' # decided, AllFenced
    PROVE  /\ req[q].key = wf.key /\ decided[wf.key] = <<>>
           /\ \A k \in Keys : k # wf.key => decided'[k] = decided[k]
<1> USE DEF Kept
<1> DEFINE k == req[q].key
<1>1. /\ wf.status = "suspended" /\ k \in Keys
      /\ decided' = [decided EXCEPT ![k] = Append(@, DecisionOf[q])]
  BY NumbersAre DEF Resuming
<1>2. k < wf.n
  BY <1>1 DEF Resuming, At, Placed, Continuing
<1>3. fence[k].st # "none"
  BY <1>1, <1>2, NumbersAre DEF AllFenced
<1>4. Holds(q)
  BY <1>3 DEF Resuming, At, Holds, Continuing, Decided
<1>5. decided[k] = <<>>
  BY <1>1, <1>4 DEF Decided
<1>6. k = wf.key
  BY <1>1, <1>2, <1>5 DEF Decided
<1> QED
  BY <1>1, <1>5, <1>6 DEF TypeOK

\* While no fence was lost a suspend takes one decision, when the run is at it, and never is anything
\* written for a suspend that has been decided (claimSuspendDecision, resume, consumeSuspendAndWrite).
THEOREM DecisionsAreTakenOnce == Spec => OneDecision
<1> DEFINE A == \A k \in Keys :
         /\ decided'[k] # decided[k] /\ AllFenced => wf.key = k /\ decided[k] = <<>>
         /\ written'[k] # written[k] => decided[k] = <<>>
<1>1. Kept /\ [Next]_vars => [A]_vars
  <2> SUFFICES ASSUME Kept, [Next]_vars, NEW k \in Keys
               PROVE  /\ decided'[k] # decided[k] /\ AllFenced => wf.key = k /\ decided[k] = <<>>
                      /\ written'[k] # written[k] => decided[k] = <<>>
    OBVIOUS
  <2>1. ASSUME decided'[k] # decided[k], AllFenced PROVE wf.key = k /\ decided[k] = <<>>
    <3>1. PICK q \in Requests : Resuming(q)
      BY <2>1, MarksAreMade DEF Marking
    <3> QED
      BY <2>1, <3>1, ResumeDecides
  <2>2. ASSUME written'[k] # written[k] PROVE decided[k] = <<>>
    <3>1. PICK q \in Requests : Consume(q)
      BY <2>2, MarksAreMade DEF Marking
    <3>2. req[q].key = k /\ fence[k].st = "pending"
      BY <2>2, <3>1, NumbersAre DEF Kept, TypeOK, Consume, Consumable
    <3> QED
      BY <3>2 DEF Kept, Decided
  <2> QED
    BY <2>1, <2>2
<1> QED
  BY <1>1, KeptAlways, PTL DEF Spec, OneDecision

\* An answer that is stored is never given up (ChatDeliveryStore).
THEOREM AnswersStay == Spec => CompleteStays
<1>1. [Next]_vars => [row = "complete" => row' = "complete"]_vars
  BY MarksAreMade DEF Marking
<1> QED
  BY <1>1, PTL DEF Spec, CompleteStays
=============================================================================
