------------------------ MODULE TriggerRuntimeProofs ------------------------
(* Theorems of TriggerRuntime, for every set of processes, triggers and calls. *)
EXTENDS TriggerRuntime, TLAPS

-----------------------------------------------------------------------------
(* Types, with what the type of a write depends on                         *)

Attending == {"persisted", "settled", "waiting"}

\* A drive that is about to write its outcome knows it.
OutcomeKnown ==
    \A d \in Drives : drv[d].pc = "settle" => drv[d].out \in Final \cup {"waiting"}

\* A call under way has a process and a key, and reports what the row said.
CallKnown ==
    \A c \in Calls :
        /\ call[c].pc \in Attending => call[c].proc \in Procs /\ call[c].of \in Triggers
        /\ call[c].pc = "settled" => call[c].saw \in Final \cup {"waiting"}

\* A waiter is the call of its key.
WaiterMatches ==
    \A p \in Procs, t \in Triggers :
        lane[p].waiters[t] # None =>
            call[lane[p].waiters[t]].pc # "idle" /\ call[lane[p].waiters[t]].of = t

TypeInv == TypeOK /\ OutcomeKnown /\ CallKnown /\ WaiterMatches

\* A task that drives a run has claimed its trigger.
TasksKnown == \A p \in Procs : At(p, "drive") => Driven(p) \in Drives

Typed == TypeInv /\ TasksKnown

\* The empty lane, task, drive and call have their types.
LEMMA EmptyTypes ==
    /\ NewLane \in Lanes
    /\ Idle \in Tasks
    /\ NoDrive \in DriveStates
    /\ NoCall \in CallStates
<1>1. NewLane \in Lanes
  BY DEF NewLane, NoWaiters, Lanes, Aborts
<1>2. Idle \in Tasks
  BY DEF Idle, Tasks, TaskPcs
<1>3. NoDrive \in DriveStates
  BY DEF NoDrive, DriveStates
<1>4. NoCall \in CallStates
  BY DEF NoCall, CallStates, Statuses
<1> QED
  BY <1>1, <1>2, <1>3, <1>4

LEMMA TypeInit == Init => TypeInv
<1> SUFFICES ASSUME Init PROVE TypeInv
  OBVIOUS
<1>1. TypeOK
  <2>1. trig \in [Triggers -> TriggerRows]
    BY DEF Init, TriggerRows, Statuses, Leases
  <2>2. arrivals \in Seq(Triggers)
    BY DEF Init
  <2>3. win \in [holder : Procs \cup {None}, lease : Leases] /\ snap \in [Triggers -> Snapshots]
    BY DEF Init, Leases, Snapshots
  <2>4. lane \in [Procs -> Lanes] /\ task \in [Procs -> Tasks]
    BY EmptyTypes DEF Init
  <2>5. drv \in [Drives -> DriveStates] /\ call \in [Calls -> CallStates]
    BY EmptyTypes DEF Init
  <2>6. trouble \in 0 .. MaxTrouble
    BY RuntimeAssumption DEF Init
  <2>7. sent \subseteq Writes /\ late \subseteq Procs /\ strays \subseteq Triggers
    BY DEF Init
  <2> QED
    BY <2>1, <2>2, <2>3, <2>4, <2>5, <2>6, <2>7 DEF TypeOK
<1>2. OutcomeKnown /\ CallKnown /\ WaiterMatches
  BY DEF Init, OutcomeKnown, CallKnown, WaiterMatches, NoDrive, NoCall, NewLane, NoWaiters,
         Attending
<1> QED
  BY <1>1, <1>2 DEF TypeInv

-----------------------------------------------------------------------------
(* What the operations on lanes, drives, calls and rows keep               *)

\* Scheduling a window, aborting one and closing a session keep a lane a lane and
\* touch neither its waiters nor whether its process runs.
LEMMA LaneOps ==
    ASSUME NEW l \in Lanes
    PROVE  /\ Scheduled(l) \in Lanes /\ Scheduled(l).waiters = l.waiters
           /\ SessionClosed(l) \in Lanes /\ SessionClosed(l).waiters = l.waiters
           /\ \A reason \in Aborts :
                 WithAbort(l, reason) \in Lanes /\ WithAbort(l, reason).waiters = l.waiters
<1>1. Scheduled(l) \in Lanes /\ Scheduled(l).waiters = l.waiters
  <2>1. [kind |-> "window", of |-> None] \in LaneItems
    BY DEF LaneItems
  <2>2. Append(l.queue, [kind |-> "window", of |-> None]) \in Seq(LaneItems)
    BY <2>1 DEF Lanes
  <2> QED
    BY <2>2 DEF Scheduled, Lanes
<1>2. \A reason \in Aborts :
         WithAbort(l, reason) \in Lanes /\ WithAbort(l, reason).waiters = l.waiters
  BY DEF WithAbort, Lanes
<1>3. SessionClosed(l) \in Lanes /\ SessionClosed(l).waiters = l.waiters
  <2>1. [l EXCEPT !.sess = FALSE] \in Lanes
    BY DEF Lanes
  <2> QED
    BY <2>1 DEF SessionClosed, WithAbort, Lanes, Aborts
<1> QED
  BY <1>1, <1>2, <1>3

\* Housekeeping keeps a lane a lane; it drops waiters only of a stopped process.
LEMMA HousekeptLane ==
    ASSUME TypeOK, NEW p \in Procs
    PROVE  /\ Housekept(p) \in Lanes
           /\ Housekept(p).waiters = IF Up(p) THEN lane[p].waiters ELSE NoWaiters
<1> DEFINE l == [lane[p] EXCEPT !.followup = FALSE,
                                !.waiters = IF Up(p) THEN @ ELSE NoWaiters]
<1>1. lane[p] \in Lanes
  BY DEF TypeOK
<1>2. NoWaiters \in [Triggers -> Calls \cup {None}]
  BY DEF NoWaiters
<1>3. l \in Lanes /\ l.waiters = IF Up(p) THEN lane[p].waiters ELSE NoWaiters
  BY <1>1, <1>2 DEF Lanes
<1>4. /\ Scheduled(l) \in Lanes /\ Scheduled(l).waiters = l.waiters
      /\ SessionClosed(l) \in Lanes /\ SessionClosed(l).waiters = l.waiters
  BY <1>3, LaneOps
<1> QED
  BY <1>3, <1>4 DEF Housekept

\* Cutting or disconnecting drives and disconnecting a task keep their types, and
\* what each drive has reached.
LEMMA DriveOps ==
    ASSUME TypeOK, NEW p \in Procs
    PROVE  /\ DrivesCut(p) \in [Drives -> DriveStates]
           /\ DrivesDisconnected(p) \in [Drives -> DriveStates]
           /\ TaskDisconnected(p) \in [Procs -> Tasks]
           /\ \A d \in Drives : /\ DrivesCut(p)[d].pc = drv[d].pc
                                /\ DrivesCut(p)[d].out = drv[d].out
                                /\ DrivesDisconnected(p)[d].pc = drv[d].pc
                                /\ DrivesDisconnected(p)[d].out = drv[d].out
<1>1. \A d \in Drives : drv[d] \in DriveStates
  BY DEF TypeOK
<1>2. DrivesCut(p) \in [Drives -> DriveStates]
  BY <1>1 DEF DrivesCut, DriveStates
<1>3. DrivesDisconnected(p) \in [Drives -> DriveStates]
  BY <1>1 DEF DrivesDisconnected, DriveStates
<1>4. TaskDisconnected(p) \in [Procs -> Tasks]
  BY DEF TaskDisconnected, TypeOK, Tasks
<1>5. \A d \in Drives : /\ DrivesCut(p)[d].pc = drv[d].pc
                        /\ DrivesCut(p)[d].out = drv[d].out
                        /\ DrivesDisconnected(p)[d].pc = drv[d].pc
                        /\ DrivesDisconnected(p)[d].out = drv[d].out
  BY <1>1 DEF DrivesCut, DrivesDisconnected, DriveStates
<1> QED
  BY <1>2, <1>3, <1>4, <1>5

\* No call that is under way becomes idle, or changes its key or its process.
CallsKept ==
    \A c \in Calls : call[c].pc # "idle" =>
        call'[c].pc # "idle" /\ call'[c].of = call[c].of /\ call'[c].proc = call[c].proc

\* Answering calls keeps the type of all of them, and the calls not answered as they are.
LEMMA AnsweredCalls ==
    ASSUME TypeOK, NEW cs, NEW answer \in Answers
    PROVE  /\ Answered(cs, answer) \in [Calls -> CallStates]
           /\ \A c \in Calls :
                 /\ Answered(cs, answer)[c].of = call[c].of
                 /\ Answered(cs, answer)[c].proc = call[c].proc
                 /\ Answered(cs, answer)[c].saw = call[c].saw
                 /\ Answered(cs, answer)[c].pc = IF c \in cs THEN "answered" ELSE call[c].pc
<1>1. \A c \in Calls : call[c] \in CallStates
  BY DEF TypeOK
<1>2. Answered(cs, answer) \in [Calls -> CallStates]
  BY <1>1 DEF Answered, CallStates
<1>3. \A c \in Calls :
                 /\ Answered(cs, answer)[c].of = call[c].of
                 /\ Answered(cs, answer)[c].proc = call[c].proc
                 /\ Answered(cs, answer)[c].saw = call[c].saw
                 /\ Answered(cs, answer)[c].pc = IF c \in cs THEN "answered" ELSE call[c].pc
  BY <1>1 DEF Answered, CallStates
<1> QED
  BY <1>2, <1>3

\* A delivery adds at most a pending row.
LEMMA InsertedRows ==
    ASSUME TypeOK, NEW t \in Triggers, NEW depth \in Nat
    PROVE  Inserted(t, depth) \in [Triggers -> TriggerRows] /\ ArrivalsWith(t) \in Seq(Triggers)
<1>1. Inserted(t, depth) \in [Triggers -> TriggerRows]
  BY DEF Inserted, TypeOK, TriggerRows, Statuses, Leases
<1>2. ArrivalsWith(t) \in Seq(Triggers)
  BY DEF ArrivalsWith, TypeOK
<1> QED
  BY <1>1, <1>2

\* The history of the triggers claimed from under somebody, and the writes that may be late, keep
\* their types.
LEMMA StrayingTypes ==
    ASSUME TypeOK, NEW t \in Triggers, Straying(t)
    PROVE  strays' \subseteq Triggers
  BY DEF Straying, TypeOK

LEMMA WriteTypes ==
    ASSUME NEW t \in Triggers
    PROVE  /\ \A status \in Statuses : RowWrite(t, status) \in Writes
           /\ \A r \in Snapshots : RunWrite(t, r) \in Writes
           /\ \A what \in {"lease", "claim", "resume"} : GuardedWrite(t, what) \in Writes
  BY DEF Writes, RowWrite, RunWrite, GuardedWrite

LEMMA UnleasedRows ==
    ASSUME TypeOK, NEW t \in Triggers
    PROVE  Unleased(t) \in [Triggers -> TriggerRows]
<1>1. [trig[t] EXCEPT !.lease = "none"] \in TriggerRows
  BY DEF TypeOK, TriggerRows, Leases
<1>2. [trig EXCEPT ![t].lease = "none"] = [trig EXCEPT ![t] = [trig[t] EXCEPT !.lease = "none"]]
  OBVIOUS
<1> QED
  BY <1>1, <1>2 DEF Unleased, TypeOK

\* Waiters that only go, and calls that only progress, still match.
LEMMA WaitersStillMatch ==
    ASSUME TypeOK, WaiterMatches, CallsKept,
           \A p \in Procs, t \in Triggers :
              lane'[p].waiters[t] \in {None, lane[p].waiters[t]}
    PROVE  WaiterMatches'
<1>1. \A p \in Procs, t \in Triggers : lane[p].waiters[t] \in Calls \cup {None}
  BY DEF TypeOK, Lanes
<1> QED
  BY <1>1 DEF WaiterMatches, CallsKept

-----------------------------------------------------------------------------
(* TypeInv is kept by every step                                           *)

\* enqueue keeps the types.
LEMMA TypeCallStep == ASSUME TypeInv, NEW c \in Calls, CallStep(c) PROVE TypeInv'
<1> USE DEF TypeInv
<1>1. ASSUME NEW p \in Procs, NEW t \in Triggers, EnqueuePersist(c, p, t) PROVE TypeInv'
  <2>1. trig' \in [Triggers -> TriggerRows] /\ arrivals' \in Seq(Triggers)
    BY <1>1, InsertedRows DEF EnqueuePersist
  <2>2. lane' \in [Procs -> Lanes]
    <3>1. lane[p] \in Lanes
      BY DEF TypeOK
    <3>2. [lane[p] EXCEPT !.sess = TRUE, !.persist = c] \in Lanes
      BY <3>1 DEF Lanes
    <3>3. lane' = [lane EXCEPT ![p] = [lane[p] EXCEPT !.sess = TRUE, !.persist = c]]
      BY <1>1 DEF EnqueuePersist
    <3> QED
      BY <3>2, <3>3 DEF TypeOK
  <2>3. call' \in [Calls -> CallStates]
    BY <1>1, <2>1 DEF EnqueuePersist, TypeOK, CallStates, TriggerRows
  <2>4. OutcomeKnown' /\ CallKnown'
    BY <1>1 DEF EnqueuePersist, OutcomeKnown, CallKnown, TypeOK
  <2>5. WaiterMatches'
    <3>1. \A q \in Procs, u \in Triggers : lane'[q].waiters[u] = lane[q].waiters[u]
      BY <1>1 DEF EnqueuePersist, TypeOK, Lanes
    <3>2. \A q \in Procs, u \in Triggers :
             lane[q].waiters[u] # None => lane[q].waiters[u] # c
      BY <1>1 DEF EnqueuePersist, WaiterMatches
    <3> QED
      BY <1>1, <3>1, <3>2 DEF EnqueuePersist, WaiterMatches, TypeOK, Lanes
  <2> QED
    BY <1>1, <2>1, <2>2, <2>3, <2>4, <2>5 DEF EnqueuePersist, TypeOK
<1>2. ASSUME NEW p \in Procs, NEW t \in Triggers, EnqueueThrows(c, p, t) PROVE TypeInv'
  <2>1. trig' \in [Triggers -> TriggerRows] /\ arrivals' \in Seq(Triggers)
    <3>1. PICK landed \in BOOLEAN : /\ trig' = IF landed THEN Inserted(t, 0) ELSE trig
                                    /\ arrivals' = IF landed THEN ArrivalsWith(t) ELSE arrivals
      BY <1>2 DEF EnqueueThrows
    <3>2. /\ trig \in [Triggers -> TriggerRows] /\ arrivals \in Seq(Triggers)
          /\ Inserted(t, 0) \in [Triggers -> TriggerRows] /\ ArrivalsWith(t) \in Seq(Triggers)
      BY InsertedRows DEF TypeOK
    <3> QED
      BY <3>1, <3>2
  <2>2. lane' \in [Procs -> Lanes]
    <3>1. PICK opened \in BOOLEAN : lane' = [lane EXCEPT ![p].sess = @ \/ opened]
      BY <1>2 DEF EnqueueThrows
    <3>2. lane[p] \in Lanes
      BY DEF TypeOK
    <3>3. [lane[p] EXCEPT !.sess = @ \/ opened] \in Lanes
      BY <3>2 DEF Lanes
    <3>4. lane' = [lane EXCEPT ![p] = [lane[p] EXCEPT !.sess = @ \/ opened]]
      BY <3>1
    <3> QED
      BY <3>3, <3>4 DEF TypeOK
  <2>3. call' \in [Calls -> CallStates]
    BY <1>2 DEF EnqueueThrows, TypeOK, CallStates, Statuses, Answers
  <2>4. OutcomeKnown' /\ CallKnown'
    BY <1>2 DEF EnqueueThrows, OutcomeKnown, CallKnown, TypeOK, Attending
  <2>5. WaiterMatches'
    <3>1. \A q \in Procs, u \in Triggers : lane'[q].waiters[u] = lane[q].waiters[u]
      BY <1>2 DEF EnqueueThrows, TypeOK, Lanes
    <3>2. \A q \in Procs, u \in Triggers :
             lane[q].waiters[u] # None => lane[q].waiters[u] # c
      BY <1>2 DEF EnqueueThrows, WaiterMatches
    <3> QED
      BY <1>2, <3>1, <3>2 DEF EnqueueThrows, WaiterMatches, TypeOK, Lanes
  <2> QED
    BY <1>2, <2>1, <2>2, <2>3, <2>4, <2>5, RuntimeAssumption
    DEF EnqueueThrows, Disturbed, TypeOK
<1>3. CASE EnqueueRegister(c)
  <2> DEFINE q == call[c].proc
             u == call[c].of
             freed == [lane[q] EXCEPT !.persist = None]
             kept == [freed EXCEPT !.waiters[u] = c]
  <2>1. q \in Procs /\ u \in Triggers
    BY <1>3 DEF EnqueueRegister, CallKnown, Attending
  <2>2. /\ freed \in Lanes /\ freed.waiters = lane[q].waiters
        /\ kept \in Lanes /\ kept.waiters = [lane[q].waiters EXCEPT ![u] = c]
    <3>1. lane[q] \in Lanes
      BY <2>1 DEF TypeOK
    <3>2. freed \in Lanes /\ freed.waiters = lane[q].waiters
      BY <3>1 DEF Lanes
    <3>3. kept \in Lanes /\ kept.waiters = [freed.waiters EXCEPT ![u] = c]
      BY <3>2, <2>1 DEF Lanes
    <3> QED
      BY <3>2, <3>3
  <2>3. Scheduled(kept) \in Lanes /\ Scheduled(kept).waiters = kept.waiters
    BY <2>2, LaneOps
  <2>4. lane' \in [Procs -> Lanes]
    BY <1>3, <2>1, <2>2, <2>3 DEF EnqueueRegister, TypeOK
  <2>e. ASSUME NEW e \in Calls
        PROVE  /\ call'[e] \in CallStates /\ call'[e].of = call[e].of /\ call'[e].proc = call[e].proc
               /\ call'[e].pc = "settled" => call'[e].saw = call[e].saw /\ (call[e].pc = "settled" \/ call[e].saw \in Final \cup {"waiting"})
               /\ call'[e].pc \in Attending => call[e].pc \in Attending
               /\ call[e].pc # "idle" => call'[e].pc # "idle"
               /\ e = c => call'[e].pc # "idle"
    <3>0. call[e] \in CallStates /\ call[c] \in CallStates /\ call[c].pc = "persisted"
      BY <1>3 DEF TypeOK, EnqueueRegister
    <3>1. \/ call'[e] = call[e] /\ e # c
          \/ e # c /\ call'[e] = [call[e] EXCEPT !.pc = "displaced"]
          \/ e = c /\ call'[e] = [call[e] EXCEPT !.pc = "settled"] /\ call[e].saw \in Final \cup {"waiting"}
          \/ e = c /\ call'[e] = [call[e] EXCEPT !.pc = "waiting", !.saw = "absent"]
      BY <1>3 DEF EnqueueRegister, TypeOK
    <3>2. CASE call'[e] = call[e] /\ e # c
      BY <3>0, <3>2
    <3>3. CASE e # c /\ call'[e] = [call[e] EXCEPT !.pc = "displaced"]
      BY <3>0, <3>3 DEF CallStates, Attending
    <3>4. CASE e = c /\ call'[e] = [call[e] EXCEPT !.pc = "settled"] /\ call[e].saw \in Final \cup {"waiting"}
      BY <3>0, <3>4 DEF CallStates, Attending
    <3>5. CASE e = c /\ call'[e] = [call[e] EXCEPT !.pc = "waiting", !.saw = "absent"]
      BY <3>0, <3>5 DEF CallStates, Attending, Statuses
    <3> QED
      BY <3>1, <3>2, <3>3, <3>4, <3>5
  <2>5. call' \in [Calls -> CallStates]
    <3>1. \/ call' = [call EXCEPT ![c].pc = "settled"]
          \/ call' = [e \in Calls |->
                              IF e = c THEN [call[c] EXCEPT !.pc = "waiting", !.saw = "absent"]
                              ELSE IF e = lane[q].waiters[u] THEN [call[e] EXCEPT !.pc = "displaced"]
                              ELSE call[e]]
      BY <1>3 DEF EnqueueRegister
    <3>2. call' = [e \in Calls |-> call'[e]]
      BY <3>1 DEF TypeOK
    <3> QED
      BY <2>e, <3>2
  <2>6. OutcomeKnown' /\ CallKnown'
    <3>1. OutcomeKnown'
      BY <1>3 DEF EnqueueRegister, OutcomeKnown
    <3> QED
      BY <2>e, <3>1 DEF CallKnown
  <2>7. WaiterMatches'
    <3>1. CASE call[c].saw \in Final \cup {"waiting"}
      <4>1. CallsKept
        BY <2>e DEF CallsKept
      <4>2. \A p \in Procs, t \in Triggers : lane'[p].waiters[t] \in {None, lane[p].waiters[t]}
        BY <1>3, <3>1, <2>1, <2>2 DEF EnqueueRegister, TypeOK
      <4> QED
        BY <4>1, <4>2, WaitersStillMatch
    <3>2. CASE call[c].saw \notin Final \cup {"waiting"}
      <4>1. lane' = [lane EXCEPT ![q] = Scheduled(kept)]
        BY <1>3, <3>2 DEF EnqueueRegister
      <4>2. \A p \in Procs, t \in Triggers :
               lane'[p].waiters[t] = IF p = q /\ t = u THEN c ELSE lane[p].waiters[t]
        BY <4>1, <2>1, <2>2, <2>3 DEF TypeOK, Lanes
      <4>3. \A e \in Calls : call[e].pc # "idle" => call'[e].pc # "idle" /\ call'[e].of = call[e].of
        BY <2>e
      <4>4. call'[c].pc # "idle" /\ call'[c].of = u
        BY <2>e
      <4>5. \A p \in Procs, t \in Triggers : lane[p].waiters[t] \in Calls \cup {None}
        BY DEF TypeOK, Lanes
      <4> QED
        BY <4>2, <4>3, <4>4, <4>5 DEF WaiterMatches
    <3> QED
      BY <3>1, <3>2
  <2> QED
    BY <1>3, <2>4, <2>5, <2>6, <2>7 DEF EnqueueRegister, TypeOK, db
<1>4. CASE EnqueueReturn(c)
  <2> DEFINE p == call[c].proc
  <2>1. p \in Procs /\ call[c].saw \in Final \cup {"waiting"}
    BY <1>4 DEF EnqueueReturn, CallKnown, Attending
  <2>2. lane' \in [Procs -> Lanes]
    BY <1>4, <2>1, HousekeptLane DEF EnqueueReturn, Housekeeping, TypeOK
  <2>3. drv' \in [Drives -> DriveStates] /\ task' \in [Procs -> Tasks] /\ OutcomeKnown'
    BY <1>4, <2>1, DriveOps DEF EnqueueReturn, Housekeeping, TypeOK, OutcomeKnown
  <2> DEFINE failed == Answered(Orphaned(p), "failed")
  <2>4. /\ failed \in [Calls -> CallStates]
        /\ \A e \in Calls : /\ failed[e].of = call[e].of /\ failed[e].proc = call[e].proc
                             /\ failed[e].saw = call[e].saw
                             /\ failed[e].pc \in {"answered", call[e].pc}
    BY AnsweredCalls DEF Answers
  <2>5. PICK answer \in Answers :
           call' = [failed EXCEPT ![c].pc = "answered", ![c].answer = answer]
    BY <1>4, <2>1 DEF EnqueueReturn, Answers, Final
  <2>6. call' \in [Calls -> CallStates] /\ CallKnown' /\ CallsKept
    BY <1>4, <2>4, <2>5 DEF CallStates, CallKnown, CallsKept, Attending
  <2>7. \A q \in Procs, t \in Triggers : lane'[q].waiters[t] \in {None, lane[q].waiters[t]}
    BY <1>4, <2>1, HousekeptLane DEF EnqueueReturn, Housekeeping, TypeOK, NoWaiters
  <2>8. WaiterMatches'
    BY <2>6, <2>7, WaitersStillMatch
  <2> QED
    BY <1>4, <2>2, <2>3, <2>6, <2>8 DEF EnqueueReturn, TypeOK, db
<1> QED
  BY <1>1, <1>2, <1>3, <1>4 DEF CallStep

\* A task that goes somewhere is a task.
LEMMA TaskGoes ==
    ASSUME TypeOK, NEW p \in Procs, NEW pc \in TaskPcs
    PROVE  [task EXCEPT ![p].pc = pc] \in [Procs -> Tasks]
<1>1. [task[p] EXCEPT !.pc = pc] \in Tasks
  BY DEF TypeOK, Tasks
<1> QED
  BY <1>1 DEF TypeOK

\* Waiters are dropped one by one or all at once.
LEMMA WaitersDropped ==
    ASSUME TypeOK, NEW p \in Procs, NEW t,
           \/ lane' = lane
           \/ lane' = [lane EXCEPT ![p].waiters = NoWaiters]
           \/ lane' = [lane EXCEPT ![p].waiters[t] = None]
    PROVE  /\ lane' \in [Procs -> Lanes]
           /\ \A q \in Procs, u \in Triggers : lane'[q].waiters[u] \in {None, lane[q].waiters[u]}
<1>1. lane[p] \in Lanes
  BY DEF TypeOK
<1>2. NoWaiters \in [Triggers -> Calls \cup {None}] /\ \A u \in Triggers : NoWaiters[u] = None
  BY DEF NoWaiters
<1>3. CASE lane' = lane
  BY <1>3 DEF TypeOK
<1>4. CASE lane' = [lane EXCEPT ![p].waiters = NoWaiters]
  <2>1. [lane[p] EXCEPT !.waiters = NoWaiters] \in Lanes
    BY <1>1, <1>2 DEF Lanes
  <2>2. [lane[p] EXCEPT !.waiters = NoWaiters].waiters = NoWaiters
    BY <1>1 DEF Lanes
  <2> QED
    BY <1>2, <1>4, <2>1, <2>2 DEF TypeOK
<1>5. CASE lane' = [lane EXCEPT ![p].waiters[t] = None]
  <2> DEFINE w == [lane[p].waiters EXCEPT ![t] = None]
  <2>1. w \in [Triggers -> Calls \cup {None}]
        /\ \A u \in Triggers : w[u] \in {None, lane[p].waiters[u]}
    BY <1>1 DEF Lanes
  <2>2. [lane[p] EXCEPT !.waiters = w] \in Lanes /\ [lane[p] EXCEPT !.waiters = w].waiters = w
    BY <1>1, <2>1 DEF Lanes
  <2> QED
    BY <1>5, <2>1, <2>2 DEF TypeOK
<1> QED
  BY <1>3, <1>4, <1>5

\* Calls that are answered, or left alone, are still known.
LEMMA CallsTold ==
    ASSUME TypeOK, CallKnown, NEW cs, NEW answer \in Answers,
           call' = call \/ call' = Answered(cs, answer)
    PROVE  call' \in [Calls -> CallStates] /\ CallKnown' /\ CallsKept
<1>1. CASE call' = call
  BY <1>1 DEF TypeOK, CallKnown, CallsKept
<1>2. CASE call' = Answered(cs, answer)
  BY <1>2, AnsweredCalls DEF CallKnown, CallsKept, Attending
<1> QED
  BY <1>1, <1>2

\* The parts of TypeInv' for a step of a task: the types, the calls and the waiters.
LEMMA TypeParts ==
    ASSUME TypeInv, TypeOK', OutcomeKnown', CallKnown', CallsKept,
           \A q \in Procs, u \in Triggers : lane'[q].waiters[u] \in {None, lane[q].waiters[u]}
    PROVE  TypeInv'
  BY WaitersStillMatch DEF TypeInv

\* The tasks of the lane up to the employee's window keep the types.
LEMMA TypeTaskBegins ==
    ASSUME TypeInv, NEW p \in Procs,
           \/ TaskStart(p) \/ TaskSession(p) \/ TaskSessionThrows(p)
           \/ ReconcileScan(p) \/ ReconcileScanThrows(p) \/ ResumeLook(p) \/ ResumeLookThrows(p)
    PROVE  TypeInv'
<1> USE DEF TypeInv
<1>0. lane[p] \in Lanes /\ task[p] \in Tasks
  BY DEF TypeOK
<1>1. CASE TaskStart(p)
  <2> DEFINE item == Head(lane[p].queue)
             abort == IF item.kind = "window" THEN "armed" ELSE lane[p].abort
             next == [lane[p] EXCEPT !.queue = Tail(@), !.abort = abort]
  <2>1. item \in LaneItems /\ Tail(lane[p].queue) \in Seq(LaneItems)
    BY <1>0, <1>1 DEF TaskStart, Lanes
  <2>2. next \in Lanes /\ next.waiters = lane[p].waiters
    BY <1>0, <2>1 DEF Lanes, Aborts
  <2>3. lane' = [lane EXCEPT ![p] = next]
    BY <1>1 DEF TaskStart
  <2>4. task' \in [Procs -> Tasks]
    <3>1. [Idle EXCEPT !.kind = item.kind, !.of = item.of,
                       !.pc = IF Up(p) THEN "session" ELSE "finally"] \in Tasks
      BY <2>1, EmptyTypes DEF Tasks, TaskPcs, LaneItems
    <3> QED
      BY <1>1, <3>1 DEF TaskStart, TypeOK
  <2>5. TypeOK' /\ OutcomeKnown'
    BY <1>1, <2>2, <2>3, <2>4 DEF TaskStart, TypeOK, OutcomeKnown, db
  <2>6. CallKnown' /\ CallsKept
    BY <1>1, CallsTold DEF TaskStart, Answers
  <2> QED
    BY <2>2, <2>3, <2>5, <2>6, TypeParts DEF TypeOK
<1>2. CASE TaskSession(p)
  <2> DEFINE next == [lane[p] EXCEPT !.sess = TRUE]
  <2>1. next \in Lanes /\ next.waiters = lane[p].waiters
    BY <1>0 DEF Lanes
  <2>2. lane' = [lane EXCEPT ![p] = next]
    BY <1>2 DEF TaskSession
  <2>3. task' \in [Procs -> Tasks]
    <3>1. \A conn \in BOOLEAN, pc \in TaskPcs : [task[p] EXCEPT !.conn = conn, !.pc = pc] \in Tasks
      BY <1>0 DEF Tasks
    <3>2. PICK pc \in TaskPcs : task' = [task EXCEPT ![p].conn = ~GuardRejects(p), ![p].pc = pc]
      BY <1>2 DEF TaskSession, TaskPcs
    <3>3. (~GuardRejects(p)) \in BOOLEAN
      BY DEF GuardRejects
    <3>4. task' = [task EXCEPT ![p] = [task[p] EXCEPT !.conn = ~GuardRejects(p), !.pc = pc]]
      BY <3>2
    <3> QED
      BY <3>1, <3>3, <3>4 DEF TypeOK
  <2>4. TypeOK' /\ OutcomeKnown'
    BY <1>2, <2>1, <2>2, <2>3 DEF TaskSession, TypeOK, OutcomeKnown, db
  <2>5. CallKnown' /\ CallsKept
    BY <1>2, CallsTold DEF TaskSession, Answers
  <2> QED
    BY <2>1, <2>2, <2>4, <2>5, TypeParts DEF TypeOK
<1>3. CASE TaskSessionThrows(p)
  <2>1. task' \in [Procs -> Tasks]
    <3>1. [task EXCEPT ![p].pc = "finally"] \in [Procs -> Tasks]
      BY TaskGoes DEF TaskPcs
    <3>2. [task EXCEPT ![p] = Idle] \in [Procs -> Tasks]
      BY EmptyTypes DEF TypeOK
    <3> QED
      BY <1>3, <3>1, <3>2 DEF TaskSessionThrows, Goto
  <2>2. CallKnown' /\ CallsKept /\ call' \in [Calls -> CallStates]
    BY <1>3, CallsTold DEF TaskSessionThrows, Answers
  <2>3. /\ lane' \in [Procs -> Lanes]
        /\ \A q \in Procs, u \in Triggers : lane'[q].waiters[u] \in {None, lane[q].waiters[u]}
    BY <1>3, WaitersDropped DEF TaskSessionThrows
  <2>4. TypeOK' /\ OutcomeKnown'
    BY <1>3, <2>1, <2>2, <2>3, RuntimeAssumption
    DEF TaskSessionThrows, TypeOK, OutcomeKnown, db, Disturbed
  <2> QED
    BY <2>2, <2>3, <2>4, TypeParts
<1>4. CASE ReconcileScan(p)
  <2> DEFINE next == [lane[p] EXCEPT !.abort = "armed"]
             found == {t \in Triggers : Claimable(t)}
  <2>1. next \in Lanes /\ next.waiters = lane[p].waiters
    BY <1>0 DEF Lanes, Aborts
  <2>2. lane' = lane \/ lane' = [lane EXCEPT ![p] = next]
    BY <1>4 DEF ReconcileScan
  <2>3. task' \in [Procs -> Tasks]
    <3>1. [task[p] EXCEPT !.pc = "acquire", !.rows = found] \in Tasks
      BY <1>0 DEF Tasks, TaskPcs
    <3>2. CASE task' = [task EXCEPT ![p].pc = "tidy"]
      BY <3>2, TaskGoes DEF TaskPcs
    <3>3. CASE task' = [task EXCEPT ![p].pc = "acquire", ![p].rows = found]
      <4>1. task' = [task EXCEPT ![p] = [task[p] EXCEPT !.pc = "acquire", !.rows = found]]
        BY <3>3
      <4> QED
        BY <3>1, <4>1 DEF TypeOK
    <3> QED
      BY <1>4, <3>2, <3>3 DEF ReconcileScan, Goto
  <2>4. TypeOK' /\ OutcomeKnown'
    BY <1>4, <2>1, <2>2, <2>3 DEF ReconcileScan, QueryAnswers, TypeOK, OutcomeKnown, db
  <2>5. CallKnown' /\ CallsKept
    BY <1>4, CallsTold DEF ReconcileScan, Answers
  <2> QED
    BY <2>1, <2>2, <2>4, <2>5, TypeParts DEF TypeOK
<1>5. CASE ReconcileScanThrows(p) \/ ResumeLookThrows(p)
  <2>1. task' \in [Procs -> Tasks]
    <3>1. [task EXCEPT ![p].pc = "finally"] \in [Procs -> Tasks]
      BY TaskGoes DEF TaskPcs
    <3>2. [task EXCEPT ![p] = Idle] \in [Procs -> Tasks]
      BY EmptyTypes DEF TypeOK
    <3> QED
      BY <1>5, <3>1, <3>2 DEF ReconcileScanThrows, ResumeLookThrows, Goto
  <2>2. TypeOK' /\ OutcomeKnown'
    BY <1>5, <2>1, RuntimeAssumption
    DEF ReconcileScanThrows, ResumeLookThrows, QueryThrows, Disturbed, TypeOK, OutcomeKnown, db
  <2>3. CallKnown' /\ CallsKept /\ lane' = lane
    BY <1>5, CallsTold DEF ReconcileScanThrows, ResumeLookThrows, Answers
  <2> QED
    BY <2>2, <2>3, TypeParts
<1>6. CASE ResumeLook(p)
  <2> DEFINE next == [lane[p] EXCEPT !.abort = "armed"]
  <2>1. next \in Lanes /\ next.waiters = lane[p].waiters
    BY <1>0 DEF Lanes, Aborts
  <2>2. lane' = lane \/ lane' = [lane EXCEPT ![p] = next]
    BY <1>6 DEF ResumeLook
  <2>3. task' \in [Procs -> Tasks]
    <3>1. [task EXCEPT ![p].pc = "acquire"] \in [Procs -> Tasks]
      BY TaskGoes DEF TaskPcs
    <3>2. [task EXCEPT ![p].pc = "finally"] \in [Procs -> Tasks]
      BY TaskGoes DEF TaskPcs
    <3> QED
      BY <1>6, <3>1, <3>2 DEF ResumeLook, Goto
  <2>4. TypeOK' /\ OutcomeKnown'
    BY <1>6, <2>1, <2>2, <2>3 DEF ResumeLook, QueryAnswers, TypeOK, OutcomeKnown, db
  <2>5. CallKnown' /\ CallsKept
    BY <1>6, CallsTold DEF ResumeLook, Answers
  <2> QED
    BY <2>1, <2>2, <2>4, <2>5, TypeParts DEF TypeOK
<1> QED
  BY <1>1, <1>2, <1>3, <1>4, <1>5, <1>6

\* Taking and giving back the employee_window row keeps the types.
LEMMA TypeTaskWindow ==
    ASSUME TypeInv, NEW p \in Procs,
           Acquire(p) \/ AcquireThrows(p) \/ Release(p) \/ ReleaseThrows(p)
    PROVE  TypeInv'
<1> USE DEF TypeInv
<1>1. CASE Acquire(p) \/ AcquireThrows(p)
  <2>1. task' \in [Procs -> Tasks]
    <3>1. [task EXCEPT ![p].pc = "claim"] \in [Procs -> Tasks]
      BY TaskGoes DEF TaskPcs
    <3>2. [task EXCEPT ![p].pc = "tidy"] \in [Procs -> Tasks]
      BY TaskGoes DEF TaskPcs
    <3>3. [task EXCEPT ![p].pc = "finally"] \in [Procs -> Tasks]
      BY TaskGoes DEF TaskPcs
    <3> QED
      BY <1>1, <3>1, <3>2, <3>3 DEF Acquire, AcquireThrows, TurnedAway, Goto
  <2>2. CallKnown' /\ CallsKept /\ call' \in [Calls -> CallStates]
    BY <1>1, CallsTold DEF Acquire, AcquireThrows, Answers
  <2>3. /\ lane' \in [Procs -> Lanes]
        /\ \A q \in Procs, u \in Triggers : lane'[q].waiters[u] \in {None, lane[q].waiters[u]}
    BY <1>1, WaitersDropped DEF Acquire, AcquireThrows
  <2>4. win' \in [holder : Procs \cup {None}, lease : Leases] /\ trouble' \in 0 .. MaxTrouble
    BY <1>1, RuntimeAssumption
    DEF Acquire, AcquireThrows, QueryAnswers, QueryThrows, Disturbed, TypeOK, Leases
  <2>5. TypeOK' /\ OutcomeKnown'
    <3>1. late' \subseteq Procs
      BY <1>1 DEF Acquire, AcquireThrows, TypeOK
    <3> QED
      BY <1>1, <2>1, <2>2, <2>3, <2>4, <3>1 DEF Acquire, AcquireThrows, TypeOK, OutcomeKnown
  <2> QED
    BY <2>2, <2>3, <2>5, TypeParts
<1>2. CASE Release(p) \/ ReleaseThrows(p)
  <2>1. task' \in [Procs -> Tasks]
    <3>1. [task EXCEPT ![p].pc = "finally"] \in [Procs -> Tasks]
      BY TaskGoes DEF TaskPcs
    <3> QED
      BY <1>2, <3>1 DEF Release, ReleaseThrows, Goto
  <2>2. CallKnown' /\ CallsKept /\ lane' = lane
    BY <1>2, CallsTold DEF Release, ReleaseThrows, Answers
  <2>3. win' \in [holder : Procs \cup {None}, lease : Leases] /\ trouble' \in 0 .. MaxTrouble
    BY <1>2, RuntimeAssumption
    DEF Release, ReleaseThrows, QueryAnswers, QueryThrows, Disturbed, TypeOK, Leases
  <2>4. TypeOK' /\ OutcomeKnown'
    BY <1>2, <2>1, <2>3 DEF Release, ReleaseThrows, TypeOK, OutcomeKnown
  <2> QED
    BY <2>2, <2>4, TypeParts
<1> QED
  BY <1>1, <1>2

\* A claimed row, and the task that has claimed it, keep their types.
LEMMA ClaimTypes ==
    ASSUME TypeOK, NEW p \in Procs, NEW t \in Triggers
    PROVE  /\ [trig EXCEPT ![t] = Leased(@)] \in [Triggers -> TriggerRows]
           /\ [trig EXCEPT ![t] = [Leased(@) EXCEPT !.status = "failed"]]
              \in [Triggers -> TriggerRows]
           /\ \A pc \in TaskPcs : ClaimedTask(p, t, pc) \in [Procs -> Tasks]
<1>1. trig[t] \in TriggerRows /\ task[p] \in Tasks
  BY DEF TypeOK
<1>2. Leased(trig[t]) \in TriggerRows /\ [Leased(trig[t]) EXCEPT !.status = "failed"] \in TriggerRows
  <2>1. trig[t].attempts + 1 \in Nat
    BY <1>1 DEF TriggerRows
  <2>2. Leased(trig[t]) \in TriggerRows
    BY <1>1, <2>1 DEF Leased, TriggerRows, Statuses, Leases
  <2>3. [Leased(trig[t]) EXCEPT !.status = "failed"] \in TriggerRows
    BY <2>2 DEF TriggerRows, Statuses
  <2> QED
    BY <2>2, <2>3
<1>3. ASSUME NEW pc \in TaskPcs PROVE ClaimedTask(p, t, pc) \in [Procs -> Tasks]
  <2> DEFINE next == [task[p] EXCEPT !.pc = pc, !.rows = @ \ {t},
                          !.of = IF pc = "drive" THEN t ELSE @,
                          !.n = IF pc = "drive" THEN trig[t].attempts + 1 ELSE @,
                          !.done = IF task[p].kind = "window" THEN @ + 1 ELSE @]
  <2>1. trig[t].attempts + 1 \in Nat /\ task[p].done + 1 \in Nat
    BY <1>1 DEF TriggerRows, Tasks
  <2>2. next \in Tasks
    BY <1>1, <2>1 DEF Tasks
  <2>3. ClaimedTask(p, t, pc) = [task EXCEPT ![p] = next]
    BY DEF ClaimedTask
  <2> QED
    BY <2>2, <2>3 DEF TypeOK
<1> QED
  BY <1>2, <1>3 DEF TypeOK

\* Claiming a trigger keeps the types.
LEMMA TypeTaskClaims ==
    ASSUME TypeInv, NEW p \in Procs, NEW t \in Triggers,
           Claim(p, t) \/ ClaimExhausted(p, t) \/ ClaimDenied(p, t) \/ ClaimThrows(p, t)
    PROVE  TypeInv'
<1> USE DEF TypeInv
<1>1. CASE Claim(p, t)
  <2> DEFINE d == <<t, trig[t].attempts + 1>>
  <2>1. task' \in [Procs -> Tasks] /\ trig' \in [Triggers -> TriggerRows]
    BY <1>1, ClaimTypes DEF Claim, TaskPcs
  <2>2. drv' \in [Drives -> DriveStates] /\ OutcomeKnown'
    <3>1. [pc |-> "load", kind |-> IF task[p].kind = "resume" THEN "resume" ELSE "run",
           proc |-> p, conn |-> TRUE, cut |-> Aborted(p), out |-> "none"] \in DriveStates
      BY DEF DriveStates, Aborted
    <3> QED
      BY <1>1, <3>1 DEF Claim, TypeOK, OutcomeKnown
  <2>3. CallKnown' /\ CallsKept /\ lane' = lane
    BY <1>1, CallsTold DEF Claim, Answers
  <2>4. TypeOK'
    <3>1. strays' \subseteq Triggers
      BY <1>1, StrayingTypes DEF Claim
    <3> QED
      BY <1>1, <2>1, <2>2, <3>1 DEF Claim, QueryAnswers, TypeOK
  <2> QED
    BY <2>2, <2>3, <2>4, TypeParts
<1>2. CASE ClaimExhausted(p, t)
  <2>1. task' \in [Procs -> Tasks]
    <3>1. ClaimedTask(p, t, "release") \in [Procs -> Tasks]
          /\ ClaimedTask(p, t, "claim") \in [Procs -> Tasks]
      BY ClaimTypes DEF TaskPcs
    <3> QED
      BY <1>2, <3>1 DEF ClaimExhausted
  <2>2. trig' \in [Triggers -> TriggerRows] /\ trouble' \in 0 .. MaxTrouble
    <3>1. \/ trig' = [trig EXCEPT ![t] = [Leased(@) EXCEPT !.status = "failed"]]
          \/ trig' = [trig EXCEPT ![t] = Leased(@)]
      BY <1>2 DEF ClaimExhausted
    <3>2. trouble' \in 0 .. MaxTrouble
      BY <1>2, RuntimeAssumption DEF ClaimExhausted, Disturbed, TypeOK
    <3> QED
      BY <3>1, <3>2, ClaimTypes
  <2>3. CallKnown' /\ CallsKept /\ call' \in [Calls -> CallStates]
    BY <1>2, CallsTold DEF ClaimExhausted, Answers
  <2>4. /\ lane' \in [Procs -> Lanes]
        /\ \A q \in Procs, u \in Triggers : lane'[q].waiters[u] \in {None, lane[q].waiters[u]}
    BY <1>2, WaitersDropped DEF ClaimExhausted
  <2>5. TypeOK' /\ OutcomeKnown'
    <3>1. strays' \subseteq Triggers
      BY <1>2, StrayingTypes DEF ClaimExhausted
    <3>2. sent' \subseteq Writes
      <4>1. RowWrite(t, "failed") \in Writes
        BY WriteTypes DEF Statuses
      <4> QED
        BY <1>2, <4>1 DEF ClaimExhausted, TypeOK
    <3> QED
      BY <1>2, <2>1, <2>2, <2>3, <2>4, <3>1, <3>2 DEF ClaimExhausted, TypeOK, OutcomeKnown
  <2> QED
    BY <2>3, <2>4, <2>5, TypeParts
<1>3. CASE ClaimDenied(p, t)
  <2>1. task' \in [Procs -> Tasks]
    <3>1. [task EXCEPT ![p].pc = "release"] \in [Procs -> Tasks]
      BY TaskGoes DEF TaskPcs
    <3>2. [task[p] EXCEPT !.rows = @ \ {t}] \in Tasks
      BY DEF TypeOK, Tasks
    <3>3. [task EXCEPT ![p].rows = @ \ {t}] = [task EXCEPT ![p] = [task[p] EXCEPT !.rows = @ \ {t}]]
      OBVIOUS
    <3>4. [task EXCEPT ![p].rows = @ \ {t}] \in [Procs -> Tasks]
      BY <3>2, <3>3 DEF TypeOK
    <3> QED
      BY <1>3, <3>1, <3>4 DEF ClaimDenied
  <2>2. CallKnown' /\ CallsKept /\ lane' = lane
    BY <1>3, CallsTold DEF ClaimDenied, Answers
  <2>3. TypeOK' /\ OutcomeKnown'
    BY <1>3, <2>1 DEF ClaimDenied, QueryAnswers, TypeOK, OutcomeKnown, db
  <2> QED
    BY <2>2, <2>3, TypeParts
<1>4. CASE ClaimThrows(p, t)
  <2>1. task' \in [Procs -> Tasks]
    <3>1. [task EXCEPT ![p].pc = "release"] \in [Procs -> Tasks]
      BY TaskGoes DEF TaskPcs
    <3> QED
      BY <1>4, <3>1 DEF ClaimThrows, Goto
  <2>2. trig' \in [Triggers -> TriggerRows] /\ trouble' \in 0 .. MaxTrouble
    <3>1. trig' = trig \/ trig' = [trig EXCEPT ![t] = Leased(@)]
      BY <1>4 DEF ClaimThrows
    <3>2. trouble' \in 0 .. MaxTrouble
      BY <1>4, RuntimeAssumption DEF ClaimThrows, QueryThrows, Disturbed, TypeOK
    <3>3. trig \in [Triggers -> TriggerRows] /\ [trig EXCEPT ![t] = Leased(@)] \in [Triggers -> TriggerRows]
      BY ClaimTypes DEF TypeOK
    <3> QED
      BY <3>1, <3>2, <3>3
  <2>3. CallKnown' /\ CallsKept /\ call' \in [Calls -> CallStates]
    BY <1>4, CallsTold DEF ClaimThrows, Answers
  <2>4. /\ lane' \in [Procs -> Lanes]
        /\ \A q \in Procs, u \in Triggers : lane'[q].waiters[u] \in {None, lane[q].waiters[u]}
    BY <1>4, WaitersDropped DEF ClaimThrows
  <2>5. TypeOK' /\ OutcomeKnown'
    <3>1. strays' \subseteq Triggers
      BY <1>4, StrayingTypes DEF ClaimThrows, TypeOK
    <3>2. sent' \subseteq Writes
      <4>1. GuardedWrite(t, IF task[p].kind = "resume" THEN "resume" ELSE "claim") \in Writes
        BY WriteTypes
      <4> QED
        BY <1>4, <4>1 DEF ClaimThrows, TypeOK
    <3> QED
      BY <1>4, <2>1, <2>2, <2>3, <2>4, <3>1, <3>2 DEF ClaimThrows, TypeOK, OutcomeKnown
  <2> QED
    BY <2>3, <2>4, <2>5, TypeParts
<1> QED
  BY <1>1, <1>2, <1>3, <1>4

\* The end of a drive, of a window and of a task keeps the types.
LEMMA TypeTaskEnds ==
    ASSUME TypeInv, TasksKnown, NEW p \in Procs,
           \/ LoopEnds(p) \/ DriveReturns(p) \/ WindowAborted(p) \/ Sweep(p)
           \/ TaskTidy(p) \/ TaskFinally(p) \/ TaskEnd(p)
    PROVE  TypeInv'
<1> USE DEF TypeInv
<1>0. lane[p] \in Lanes /\ task[p] \in Tasks
  BY DEF TypeOK
<1>1. CASE LoopEnds(p)
  <2>1. task' \in [Procs -> Tasks]
    <3>1. [task EXCEPT ![p].pc = "sweep"] \in [Procs -> Tasks]
      BY TaskGoes DEF TaskPcs
    <3> QED
      BY <1>1, <3>1 DEF LoopEnds, Goto
  <2>2. CallKnown' /\ CallsKept /\ lane' = lane
    BY <1>1, CallsTold DEF LoopEnds, Answers
  <2>3. TypeOK' /\ OutcomeKnown'
    BY <1>1, <2>1 DEF LoopEnds, TypeOK, OutcomeKnown, db
  <2> QED
    BY <2>2, <2>3, TypeParts
<1>2. CASE DriveReturns(p)
  <2> DEFINE next(pc) == [task[p] EXCEPT !.pc = pc, !.of = None, !.n = 0]
  <2>1. task' \in [Procs -> Tasks]
    <3>1. \A pc \in TaskPcs : next(pc) \in Tasks
      BY <1>0 DEF Tasks
    <3>2. PICK pc \in TaskPcs : task' = [task EXCEPT ![p].pc = pc, ![p].of = None, ![p].n = 0]
      BY <1>2 DEF DriveReturns, NextAfter, TaskPcs
    <3>3. task' = [task EXCEPT ![p] = next(pc)]
      BY <3>2
    <3> QED
      BY <3>1, <3>3 DEF TypeOK
  <2>2. drv' \in [Drives -> DriveStates] /\ OutcomeKnown'
    <3>1. drv' = [drv EXCEPT ![Driven(p)] = NoDrive]
      BY <1>2 DEF DriveReturns
    <3> QED
      BY <3>1, EmptyTypes DEF TypeOK, OutcomeKnown, NoDrive
  <2>3. CallKnown' /\ CallsKept /\ call' \in [Calls -> CallStates]
    BY <1>2, CallsTold DEF DriveReturns, Answers
  <2>4. /\ lane' \in [Procs -> Lanes]
        /\ \A q \in Procs, u \in Triggers : lane'[q].waiters[u] \in {None, lane[q].waiters[u]}
    BY <1>2, WaitersDropped DEF DriveReturns
  <2>5. TypeOK'
    BY <1>2, <2>1, <2>2, <2>3, <2>4 DEF DriveReturns, TypeOK, db
  <2> QED
    BY <2>2, <2>3, <2>4, <2>5, TypeParts
<1>3. CASE WindowAborted(p)
  <2>1. task' \in [Procs -> Tasks]
    <3>1. [task EXCEPT ![p].pc = "release"] \in [Procs -> Tasks]
      BY TaskGoes DEF TaskPcs
    <3>2. [task EXCEPT ![p].pc = "sweep"] \in [Procs -> Tasks]
      BY TaskGoes DEF TaskPcs
    <3> QED
      BY <1>3, <3>1, <3>2 DEF WindowAborted, Goto
  <2>2. trig' \in [Triggers -> TriggerRows] /\ trouble' \in 0 .. MaxTrouble
    <3>1. \A t \in Triggers : [trig[t] EXCEPT !.lease = "none"] \in TriggerRows
      BY DEF TypeOK, TriggerRows, Leases
    <3>2. trig' = trig \/ trig' = [trig EXCEPT ![task[p].of].lease = "none"]
      BY <1>3 DEF WindowAborted, Unleased
    <3>3. trouble' \in 0 .. MaxTrouble
      BY <1>3, RuntimeAssumption DEF WindowAborted, QueryAnswers, QueryThrows, Disturbed, TypeOK
    <3> QED
      BY <3>1, <3>2, <3>3 DEF TypeOK
  <2>3. CallKnown' /\ CallsKept /\ call' \in [Calls -> CallStates]
    BY <1>3, CallsTold DEF WindowAborted, Answers
  <2>4. /\ lane' \in [Procs -> Lanes]
        /\ \A q \in Procs, u \in Triggers : lane'[q].waiters[u] \in {None, lane[q].waiters[u]}
    BY <1>3, WaitersDropped DEF WindowAborted
  <2>5. TypeOK' /\ OutcomeKnown'
    <3>1. sent' \subseteq Writes
      <4>1. GuardedWrite(task[p].of, "lease") \in Writes
        BY <1>3, WriteTypes DEF WindowAborted, At, TasksKnown, Driven, Drives
      <4> QED
        BY <1>3, <4>1 DEF WindowAborted, TypeOK
    <3> QED
      BY <1>3, <2>1, <2>2, <2>3, <2>4, <3>1 DEF WindowAborted, TypeOK, OutcomeKnown
  <2> QED
    BY <2>3, <2>4, <2>5, TypeParts
<1>4. CASE Sweep(p)
  <2>1. task' \in [Procs -> Tasks]
    <3>1. [task EXCEPT ![p].pc = "release"] \in [Procs -> Tasks]
      BY TaskGoes DEF TaskPcs
    <3> QED
      BY <1>4, <3>1 DEF Sweep, Goto
  <2>2. PICK seen \in SUBSET WaitedFor(p) :
           /\ IF seen = WaitedFor(p) THEN UNCHANGED trouble ELSE QueryThrows(p)
           /\ call' = SweptCalls(p, seen)
           /\ lane' = [lane EXCEPT ![p].waiters = [t \in Triggers |->
                           IF t \in seen /\ SweptAs(trig[t].status) # "none" THEN None ELSE @[t]]]
    BY <1>4 DEF Sweep
  <2>3. call' \in [Calls -> CallStates] /\ CallKnown' /\ CallsKept
    <3>1. \A c \in Calls : call[c] \in CallStates
      BY DEF TypeOK
    <3>2. \A t \in Triggers : SweptAs(trig[t].status) \in Answers \cup {"none"}
      BY DEF SweptAs, Answers
    <3>3. ASSUME NEW c \in Calls, NEW t \in seen, lane[p].waiters[t] = c,
                 SweptAs(trig[t].status) # "none"
          PROVE  SweptAs(trig[call[c].of].status) \in Answers
      BY <3>2, <3>3, RuntimeAssumption DEF WaiterMatches, WaitedFor
    <3>4. \A c \in Calls :
             \/ call'[c] = call[c]
             \/ \E answer \in Answers :
                   call'[c] = [call[c] EXCEPT !.pc = "answered", !.answer = answer]
      BY <2>2, <3>3 DEF SweptCalls
    <3>5. call' = [c \in Calls |-> call'[c]]
      BY <2>2 DEF SweptCalls
    <3>6. ASSUME NEW c \in Calls
          PROVE  /\ call'[c] \in CallStates
                 /\ call'[c].pc \in {"answered", call[c].pc} /\ call'[c].of = call[c].of
                 /\ call'[c].proc = call[c].proc /\ call'[c].saw = call[c].saw
      <4>1. CASE call'[c] = call[c]
        BY <3>1, <4>1
      <4>2. ASSUME NEW answer \in Answers,
                   call'[c] = [call[c] EXCEPT !.pc = "answered", !.answer = answer]
            PROVE  /\ call'[c] \in CallStates
                   /\ call'[c].pc = "answered" /\ call'[c].of = call[c].of
                   /\ call'[c].proc = call[c].proc /\ call'[c].saw = call[c].saw
        BY <3>1, <4>2 DEF CallStates
      <4> QED
        BY <3>4, <4>1, <4>2
    <3>7. call' \in [Calls -> CallStates]
      BY <3>5, <3>6
    <3> QED
      BY <3>6, <3>7 DEF CallKnown, CallsKept, Attending
  <2>4. /\ lane' \in [Procs -> Lanes]
        /\ \A q \in Procs, u \in Triggers : lane'[q].waiters[u] \in {None, lane[q].waiters[u]}
    <3> DEFINE w == [t \in Triggers |-> IF t \in seen /\ SweptAs(trig[t].status) # "none"
                                        THEN None ELSE lane[p].waiters[t]]
    <3>1. w \in [Triggers -> Calls \cup {None}]
          /\ \A u \in Triggers : w[u] \in {None, lane[p].waiters[u]}
      BY <1>0 DEF Lanes
    <3>2. [lane[p] EXCEPT !.waiters = w] \in Lanes /\ [lane[p] EXCEPT !.waiters = w].waiters = w
      BY <1>0, <3>1 DEF Lanes
    <3>3. lane' = [lane EXCEPT ![p] = [lane[p] EXCEPT !.waiters = w]]
      BY <2>2
    <3> QED
      BY <3>1, <3>2, <3>3 DEF TypeOK
  <2>5. trouble' \in 0 .. MaxTrouble
    BY <2>2, RuntimeAssumption DEF QueryThrows, Disturbed, TypeOK
  <2>6. TypeOK' /\ OutcomeKnown'
    BY <1>4, <2>1, <2>3, <2>4, <2>5 DEF Sweep, TypeOK, OutcomeKnown, db
  <2> QED
    BY <2>3, <2>4, <2>6, TypeParts
<1>5. CASE TaskTidy(p) \/ TaskEnd(p)
  <2>1. task' \in [Procs -> Tasks]
    <3>1. [task EXCEPT ![p].pc = "finally"] \in [Procs -> Tasks]
      BY TaskGoes DEF TaskPcs
    <3>2. [task EXCEPT ![p] = Idle] \in [Procs -> Tasks]
      BY EmptyTypes DEF TypeOK
    <3> QED
      BY <1>5, <3>1, <3>2 DEF TaskTidy, TaskEnd, Goto
  <2>2. /\ lane' \in [Procs -> Lanes]
        /\ \A q \in Procs, u \in Triggers : lane'[q].waiters[u] \in {None, lane[q].waiters[u]}
    BY <1>5, HousekeptLane DEF TaskTidy, TaskEnd, Housekeeping, TypeOK, NoWaiters
  <2>3. drv' \in [Drives -> DriveStates] /\ OutcomeKnown'
    <3>1. drv' = drv \/ drv' = DrivesDisconnected(p)
      BY <1>5 DEF TaskTidy, TaskEnd, Housekeeping
    <3> QED
      BY <3>1, DriveOps DEF TypeOK, OutcomeKnown
  <2>4. CallKnown' /\ CallsKept /\ call' \in [Calls -> CallStates]
    BY <1>5, CallsTold DEF TaskTidy, TaskEnd, Answers
  <2>5. TypeOK'
    BY <1>5, <2>1, <2>2, <2>3, <2>4 DEF TaskTidy, TaskEnd, TypeOK, db
  <2> QED
    BY <2>2, <2>3, <2>4, <2>5, TypeParts
<1>6. CASE TaskFinally(p)
  <2>1. task' \in [Procs -> Tasks]
    <3>1. [task EXCEPT ![p].pc = "house"] \in [Procs -> Tasks]
      BY TaskGoes DEF TaskPcs
    <3> QED
      BY <1>6, <3>1 DEF TaskFinally, Goto
  <2> DEFINE next == [lane[p] EXCEPT !.abort = "off",
                         !.planned = IF task[p].kind = "window" THEN FALSE ELSE @]
  <2>2. next \in Lanes /\ next.waiters = lane[p].waiters
    BY <1>0 DEF Lanes, Aborts
  <2>3. lane' = [lane EXCEPT ![p] = next]
    BY <1>6 DEF TaskFinally
  <2>4. TypeOK' /\ OutcomeKnown'
    BY <1>6, <2>1, <2>2, <2>3 DEF TaskFinally, TypeOK, OutcomeKnown, db
  <2>5. CallKnown' /\ CallsKept
    BY <1>6, CallsTold DEF TaskFinally, Answers
  <2> QED
    BY <2>2, <2>3, <2>4, <2>5, TypeParts DEF TypeOK
<1> QED
  BY <1>1, <1>2, <1>3, <1>4, <1>5, <1>6

\* The drives keep the types; the outcome a drive settles with is a status of a row.
LEMMA TypeDriveStep == ASSUME TypeInv, NEW d \in Drives, DriveStep(d) PROVE TypeInv'
<1> USE DEF TypeInv
<1>0. d[1] \in Triggers /\ drv[d] \in DriveStates /\ trig[d[1]] \in TriggerRows
  BY DEF TypeOK, Drives
<1>over. \A out \in {"aborted", "refused", "threw"} \cup Answers : Over(out) \in DriveStates
  BY EmptyTypes DEF Over, DriveStates
<1>status. \A status \in Statuses : [trig EXCEPT ![d[1]].status = status] \in [Triggers -> TriggerRows]
  <2>1. \A status \in Statuses : [trig[d[1]] EXCEPT !.status = status] \in TriggerRows
    BY <1>0 DEF TriggerRows
  <2> QED
    BY <2>1 DEF TypeOK
<1>out. drv[d].pc = "settle" => drv[d].out \in Final \cup {"waiting"}
  BY DEF OutcomeKnown
<1>drive. ASSUME NEW x \in DriveStates, drv' = [drv EXCEPT ![d] = x],
                 x.pc = "settle" => x.out \in Final \cup {"waiting"}
          PROVE  drv' \in [Drives -> DriveStates] /\ OutcomeKnown'
  BY <1>drive DEF TypeOK, OutcomeKnown
<1>calls. ASSUME call' = call, lane' = lane, TypeOK', OutcomeKnown' PROVE TypeInv'
  BY <1>calls, CallsTold, TypeParts DEF Answers
<1>1. CASE DriveLoad(d)
  <2>1. PICK x : /\ drv' = [drv EXCEPT ![d] = x]
                 /\ \/ x = [drv[d] EXCEPT !.pc = "mark"]
                    \/ x = [drv[d] EXCEPT !.pc = "settle", !.out = "failed"]
                    \/ x = Over("refused")
                    \/ /\ x = [drv[d] EXCEPT !.pc = "settle", !.out = OutcomeOf[snap[d[1]]]]
                       /\ snap[d[1]] \in DOMAIN OutcomeOf
    <3>1. snap[d[1]] \in Snapshots
      BY <1>0 DEF TypeOK
    <3>2. DOMAIN OutcomeOf = {"success", "suspended", "failed", "canceled"}
      BY DEF OutcomeOf
    <3> QED
      BY <1>1, <3>1, <3>2 DEF DriveLoad, Snapshots
  <2>2. \A r \in DOMAIN OutcomeOf : OutcomeOf[r] \in Final \cup {"waiting"}
    BY DEF OutcomeOf, Final
  <2>3. x \in DriveStates /\ (x.pc = "settle" => x.out \in Final \cup {"waiting"})
    <3>1. ASSUME NEW out \in Final \cup {"waiting"}
          PROVE  /\ [drv[d] EXCEPT !.pc = "settle", !.out = out] \in DriveStates
                 /\ [drv[d] EXCEPT !.pc = "settle", !.out = out].out = out
      BY <1>0 DEF DriveStates, Answers, Final
    <3>2. /\ [drv[d] EXCEPT !.pc = "mark"] \in DriveStates
          /\ [drv[d] EXCEPT !.pc = "mark"].pc = "mark"
      BY <1>0 DEF DriveStates
    <3>3. Over("refused") \in DriveStates /\ Over("refused").pc = "over"
      BY <1>over, EmptyTypes DEF Over, DriveStates
    <3>4. CASE x = [drv[d] EXCEPT !.pc = "settle", !.out = "failed"]
      BY <3>1, <3>4 DEF Final
    <3>5. CASE /\ x = [drv[d] EXCEPT !.pc = "settle", !.out = OutcomeOf[snap[d[1]]]]
               /\ snap[d[1]] \in DOMAIN OutcomeOf
      BY <2>2, <3>1, <3>5
    <3> QED
      BY <2>1, <3>2, <3>3, <3>4, <3>5
  <2> QED
    BY <1>1, <1>drive, <1>calls, <2>1, <2>3 DEF DriveLoad, TypeOK, db
<1>2. CASE DriveMark(d)
  <2>1. trig' \in [Triggers -> TriggerRows]
    BY <1>2, <1>status DEF DriveMark, SetStatus, Statuses
  <2>2. drv' = [drv EXCEPT ![d] = [drv[d] EXCEPT !.pc = "start"]]
    BY <1>2 DEF DriveMark
  <2>3. [drv[d] EXCEPT !.pc = "start"] \in DriveStates /\ [drv[d] EXCEPT !.pc = "start"].pc = "start"
    BY <1>0 DEF DriveStates
  <2> QED
    BY <1>2, <1>drive, <1>calls, <2>1, <2>2, <2>3 DEF DriveMark, TypeOK
<1>3. CASE DriveStart(d)
  <2>1. snap' \in [Triggers -> Snapshots]
    BY <1>0, <1>3 DEF DriveStart, TypeOK, Snapshots
  <2>2. \/ drv' = [drv EXCEPT ![d] = [drv[d] EXCEPT !.pc = "exec"]]
        \/ drv' = [drv EXCEPT ![d] = Over("aborted")]
    BY <1>3 DEF DriveStart
  <2>3. [drv[d] EXCEPT !.pc = "exec"] \in DriveStates /\ [drv[d] EXCEPT !.pc = "exec"].pc = "exec"
    BY <1>0 DEF DriveStates
  <2>4. Over("aborted") \in DriveStates /\ Over("aborted").pc = "over"
    BY <1>over, EmptyTypes DEF Over, DriveStates
  <2> QED
    BY <1>3, <1>drive, <1>calls, <2>1, <2>2, <2>3, <2>4 DEF DriveStart, TypeOK
<1>4. CASE DriveCancel(d)
  <2>1. snap' \in [Triggers -> Snapshots]
    BY <1>0, <1>4 DEF DriveCancel, TypeOK, Snapshots
  <2>2. OutcomeKnown'
    BY <1>4 DEF DriveCancel, OutcomeKnown
  <2> QED
    BY <1>4, <1>calls, <2>1, <2>2 DEF DriveCancel, TypeOK
<1>5. ASSUME NEW r \in {"success", "suspended", "failed"}, DriveEnd(d, r) PROVE TypeInv'
  <2>1. snap' \in [Triggers -> Snapshots]
    BY <1>0, <1>5 DEF DriveEnd, TypeOK, Snapshots
  <2>2. \/ drv' = [drv EXCEPT ![d] = [drv[d] EXCEPT !.pc = "settle", !.out = OutcomeOf[r]]]
        \/ drv' = [drv EXCEPT ![d] = Over("aborted")]
    BY <1>5 DEF DriveEnd
  <2> DEFINE x == [drv[d] EXCEPT !.pc = "settle", !.out = OutcomeOf[r]]
  <2>3. OutcomeOf[r] \in Final \cup {"waiting"}
    BY DEF OutcomeOf, Final
  <2>4. x \in DriveStates /\ x.out = OutcomeOf[r]
    BY <1>0, <2>3 DEF DriveStates, Final, Answers
  <2>5. Over("aborted") \in DriveStates /\ Over("aborted").pc = "over"
    BY <1>over, EmptyTypes DEF Over, DriveStates
  <2> QED
    BY <1>5, <1>drive, <1>calls, <2>1, <2>2, <2>3, <2>4, <2>5 DEF DriveEnd, TypeOK
<1>6. CASE DriveSettle(d)
  <2>1. drv[d].out \in Final \cup {"waiting"}
    BY <1>6, <1>out DEF DriveSettle
  <2>2. trig' \in [Triggers -> TriggerRows]
    BY <1>6, <1>status, <2>1 DEF DriveSettle, SetStatus, Statuses, Final
  <2>3. Over(drv[d].out) \in DriveStates /\ Over(drv[d].out).pc = "over"
    BY <1>over, <2>1, EmptyTypes DEF Over, DriveStates, Final, Answers
  <2> QED
    BY <1>6, <1>drive, <1>calls, <2>2, <2>3 DEF DriveSettle, TypeOK
<1>7. CASE DriveThrows(d)
  <2>1. trig' \in [Triggers -> TriggerRows]
    <3>1. \/ trig' = trig
          \/ trig' = [trig EXCEPT ![d[1]].status = "running"]
          \/ drv[d].pc = "settle" /\ trig' = [trig EXCEPT ![d[1]].status = drv[d].out]
      BY <1>7 DEF DriveThrows, SetStatus
    <3> QED
      BY <1>status, <1>out, <3>1 DEF Statuses, Final, TypeOK
  <2>2. Over("threw") \in DriveStates /\ Over("threw").pc = "over"
    BY <1>over, EmptyTypes DEF Over, DriveStates
  <2>3. trouble' \in 0 .. MaxTrouble
    BY <1>7, RuntimeAssumption DEF DriveThrows, Disturbed, TypeOK
  <2>4. sent' \subseteq Writes
    <3>1. Writing(d) \subseteq Writes
      BY <1>0, <1>out, WriteTypes DEF Writing, Statuses, Snapshots, Final
    <3> QED
      BY <1>7, <3>1 DEF DriveThrows, TypeOK
  <2> QED
    BY <1>7, <1>drive, <1>calls, <2>1, <2>2, <2>3, <2>4 DEF DriveThrows, TypeOK
<1>8. ASSUME NEW u \in Triggers, Cascade(d, u) \/ CascadeLost(d, u) PROVE TypeInv'
  <2> DEFINE p == drv[d].proc
             next == [lane[p] EXCEPT !.sess = TRUE, !.followup = TRUE]
             quiet == [lane[p] EXCEPT !.sess = TRUE]
  <2>1. trig[d[1]].depth + 1 \in Nat
    BY <1>0 DEF TriggerRows
  <2>2. trig' \in [Triggers -> TriggerRows] /\ arrivals' \in Seq(Triggers)
    BY <1>8, <2>1, InsertedRows DEF Cascade, CascadeLost
  <2>3. lane' = [lane EXCEPT ![p] = next] \/ lane' = [lane EXCEPT ![p] = quiet]
    BY <1>8 DEF Cascade, CascadeLost
  <2>4. /\ lane' \in [Procs -> Lanes]
        /\ \A q \in Procs, t \in Triggers : lane'[q].waiters[t] = lane[q].waiters[t]
    <3>1. CASE p \in Procs
      <4>1. lane[p] \in Lanes
        BY <3>1 DEF TypeOK
      <4>2. /\ next \in Lanes /\ next.waiters = lane[p].waiters
            /\ quiet \in Lanes /\ quiet.waiters = lane[p].waiters
        BY <4>1 DEF Lanes
      <4> QED
        BY <2>3, <3>1, <4>2 DEF TypeOK
    <3>2. CASE p \notin Procs
      BY <2>3, <3>2 DEF TypeOK
    <3> QED
      BY <3>1, <3>2
  <2>5. CallKnown' /\ CallsKept
    BY <1>8, CallsTold DEF Cascade, CascadeLost, Answers
  <2>6. trouble' \in 0 .. MaxTrouble
    BY <1>8, RuntimeAssumption DEF Cascade, CascadeLost, Disturbed, TypeOK
  <2>7. TypeOK' /\ OutcomeKnown'
    BY <1>8, <2>2, <2>4, <2>6 DEF Cascade, CascadeLost, TypeOK, OutcomeKnown
  <2> QED
    BY <2>4, <2>5, <2>7, TypeParts
<1> QED
  BY <1>1, <1>2, <1>3, <1>4, <1>5, <1>6, <1>7, <1>8 DEF DriveStep

\* Requests of tasks, aborts, stops, crashes and boots keep the types.
LEMMA TypeEnvironment ==
    ASSUME TypeInv, NEW p \in Procs, LaneRequest(p) \/ Environment(p)
    PROVE  TypeInv'
<1> USE DEF TypeInv
<1>0. lane[p] \in Lanes
  BY DEF TypeOK
<1>lane. ASSUME NEW l \in Lanes, lane' = [lane EXCEPT ![p] = l],
                \A u \in Triggers : l.waiters[u] \in {None, lane[p].waiters[u]}
         PROVE  /\ lane' \in [Procs -> Lanes]
                /\ \A q \in Procs, u \in Triggers :
                      lane'[q].waiters[u] \in {None, lane[q].waiters[u]}
  BY <1>lane DEF TypeOK
<1>1. ASSUME NEW item \in LaneItems, Requested(p, item) PROVE TypeInv'
  <2> DEFINE next == [lane[p] EXCEPT !.queue = Append(@, item)]
  <2>1. Append(lane[p].queue, item) \in Seq(LaneItems)
    BY <1>0 DEF Lanes
  <2>2. next \in Lanes /\ next.waiters = lane[p].waiters
    BY <1>0, <2>1 DEF Lanes
  <2>3. lane' = [lane EXCEPT ![p] = next]
    BY <1>1 DEF Requested
  <2>4. CallKnown' /\ CallsKept
    BY <1>1, CallsTold DEF Requested, Answers
  <2>5. TypeOK' /\ OutcomeKnown'
    BY <1>1, <1>lane, <2>2, <2>3 DEF Requested, TypeOK, OutcomeKnown, db
  <2> QED
    BY <1>lane, <2>2, <2>3, <2>4, <2>5, TypeParts
<1>2. CASE Watchdog(p) \/ StopAborts(p)
  <2>1. PICK reason \in Aborts : lane' = [lane EXCEPT ![p] = WithAbort(lane[p], reason)]
    BY <1>2 DEF Watchdog, StopAborts, Aborts
  <2>2. WithAbort(lane[p], reason) \in Lanes
        /\ WithAbort(lane[p], reason).waiters = lane[p].waiters
    BY <1>0, LaneOps
  <2>3. drv' \in [Drives -> DriveStates] /\ OutcomeKnown'
    BY <1>2, DriveOps DEF Watchdog, StopAborts, OutcomeKnown
  <2>4. CallKnown' /\ CallsKept
    BY <1>2, CallsTold DEF Watchdog, StopAborts, Answers
  <2>5. trouble' \in 0 .. MaxTrouble
    BY <1>2, RuntimeAssumption DEF Watchdog, StopAborts, Disturbed, TypeOK
  <2>6. TypeOK'
    BY <1>2, <1>lane, <2>1, <2>2, <2>3, <2>5 DEF Watchdog, StopAborts, TypeOK, db
  <2> QED
    BY <1>lane, <2>1, <2>2, <2>3, <2>4, <2>6, TypeParts
<1>3. CASE InvalidateSession(p) \/ StopEnds(p)
  <2> DEFINE closed == SessionClosed(lane[p])
             stopped == [closed EXCEPT !.up = "stopped"]
  <2>1. closed \in Lanes /\ closed.waiters = lane[p].waiters
    BY <1>0, LaneOps
  <2>2. stopped \in Lanes /\ stopped.waiters = lane[p].waiters
    BY <2>1 DEF Lanes
  <2>3. lane' = [lane EXCEPT ![p] = closed] \/ lane' = [lane EXCEPT ![p] = stopped]
    BY <1>3 DEF InvalidateSession, StopEnds
  <2>4. drv' \in [Drives -> DriveStates] /\ OutcomeKnown' /\ task' \in [Procs -> Tasks]
    <3>1. drv' = drv \/ drv' = DrivesDisconnected(p)
      BY <1>3 DEF InvalidateSession, StopEnds
    <3>2. task' = task \/ task' = TaskDisconnected(p)
      BY <1>3 DEF InvalidateSession, StopEnds
    <3> QED
      BY <3>1, <3>2, DriveOps DEF TypeOK, OutcomeKnown
  <2>5. CallKnown' /\ CallsKept
    BY <1>3, CallsTold DEF InvalidateSession, StopEnds, Answers
  <2>6. trouble' \in 0 .. MaxTrouble
    BY <1>3, RuntimeAssumption DEF InvalidateSession, StopEnds, Disturbed, TypeOK
  <2>7. TypeOK'
    BY <1>3, <1>lane, <2>1, <2>2, <2>3, <2>4, <2>6 DEF InvalidateSession, StopEnds, TypeOK, db
  <2> QED
    BY <1>lane, <2>1, <2>2, <2>3, <2>4, <2>5, <2>7, TypeParts
<1>4. CASE StopBegin(p)
  <2> DEFINE next == [lane[p] EXCEPT !.up = "stopping", !.waiters = NoWaiters]
  <2>1. NoWaiters \in [Triggers -> Calls \cup {None}] /\ \A u \in Triggers : NoWaiters[u] = None
    BY DEF NoWaiters
  <2>2. next \in Lanes /\ next.waiters = NoWaiters
    BY <1>0, <2>1 DEF Lanes
  <2>3. lane' = [lane EXCEPT ![p] = next]
    BY <1>4 DEF StopBegin
  <2>4. CallKnown' /\ CallsKept /\ call' \in [Calls -> CallStates]
    BY <1>4, CallsTold DEF StopBegin, Answers
  <2>5. trouble' \in 0 .. MaxTrouble
    BY <1>4, RuntimeAssumption DEF StopBegin, Disturbed, TypeOK
  <2>6. TypeOK' /\ OutcomeKnown'
    BY <1>4, <1>lane, <2>1, <2>2, <2>3, <2>4, <2>5 DEF StopBegin, TypeOK, OutcomeKnown, db
  <2> QED
    BY <1>lane, <2>1, <2>2, <2>3, <2>4, <2>6, TypeParts
<1>5. CASE Crash(p) \/ ProcessExits(p)
  <2>1. NewLane \in Lanes /\ \A u \in Triggers : NewLane.waiters[u] = None
    BY EmptyTypes DEF NewLane, NoWaiters
  <2>2. lane' = [lane EXCEPT ![p] = NewLane]
    BY <1>5 DEF Crash, ProcessExits, Gone
  <2>3. drv' \in [Drives -> DriveStates] /\ OutcomeKnown'
    <3>1. \A e \in Drives : drv[e] \in DriveStates
      BY DEF TypeOK
    <3>2. drv' = [e \in Drives |-> IF drv[e].proc = p /\ Active(e) THEN NoDrive ELSE drv[e]]
      BY <1>5 DEF Crash, ProcessExits, Gone
    <3>3. drv' \in [Drives -> DriveStates]
      BY <3>1, <3>2, EmptyTypes
    <3>4. \A e \in Drives : drv'[e] \in {NoDrive, drv[e]}
      BY <3>2
    <3>5. OutcomeKnown'
      BY <3>4 DEF OutcomeKnown, NoDrive
    <3> QED
      BY <3>3, <3>5
  <2>4. call' \in [Calls -> CallStates] /\ CallKnown' /\ CallsKept
    <3>1. \A c \in Calls : call[c] \in CallStates
      BY DEF TypeOK
    <3>2. \A c \in Calls : /\ [call[c] EXCEPT !.pc = "dropped"] \in CallStates
                           /\ [call[c] EXCEPT !.pc = "dropped"].pc = "dropped"
                           /\ [call[c] EXCEPT !.pc = "dropped"].of = call[c].of
                           /\ [call[c] EXCEPT !.pc = "dropped"].proc = call[c].proc
      BY <3>1 DEF CallStates
    <3>3. call' = [c \in Calls |-> IF call[c].proc = p /\ call[c].pc # "answered"
                                  THEN [call[c] EXCEPT !.pc = "dropped"] ELSE call[c]]
      BY <1>5 DEF Crash, ProcessExits, Gone
    <3>4. \A c \in Calls : call'[c] \in {call[c], [call[c] EXCEPT !.pc = "dropped"]}
      BY <3>3
    <3>5. call' \in [Calls -> CallStates]
      BY <3>1, <3>2, <3>3
    <3>6. CallKnown' /\ CallsKept
      BY <3>2, <3>4 DEF CallKnown, CallsKept, Attending
    <3> QED
      BY <3>5, <3>6
  <2>5. task' \in [Procs -> Tasks]
    BY <1>5, EmptyTypes DEF Crash, ProcessExits, Gone, TypeOK
  <2>6. trouble' \in 0 .. MaxTrouble
    BY <1>5, RuntimeAssumption DEF Crash, ProcessExits, Disturbed, TypeOK
  <2>7. TypeOK'
    BY <1>5, <1>lane, <2>1, <2>2, <2>3, <2>4, <2>5, <2>6 DEF Crash, ProcessExits, Gone, TypeOK, db
  <2> QED
    BY <1>lane, <2>1, <2>2, <2>3, <2>4, <2>7, TypeParts
<1>6. CASE Boot(p)
  <2> DEFINE next == [NewLane EXCEPT !.up = "up",
                                     !.queue = <<[kind |-> "reconcile", of |-> None]>>]
  <2>1. <<[kind |-> "reconcile", of |-> None]>> \in Seq(LaneItems)
    BY DEF LaneItems
  <2>2. next \in Lanes /\ next.waiters = NoWaiters /\ \A u \in Triggers : NoWaiters[u] = None
    BY <2>1, EmptyTypes DEF Lanes, NewLane, NoWaiters
  <2>3. lane' = [lane EXCEPT ![p] = next]
    BY <1>6 DEF Boot
  <2>4. CallKnown' /\ CallsKept
    BY <1>6, CallsTold DEF Boot, Answers
  <2>5. TypeOK' /\ OutcomeKnown'
    BY <1>6, <1>lane, <2>2, <2>3 DEF Boot, TypeOK, OutcomeKnown, db
  <2> QED
    BY <1>lane, <2>2, <2>3, <2>4, <2>5, TypeParts
<1>7. [kind |-> "reconcile", of |-> None] \in LaneItems
      /\ \A t \in Triggers : [kind |-> "resume", of |-> t] \in LaneItems
  BY DEF LaneItems
<1> QED
  BY <1>1, <1>2, <1>3, <1>4, <1>5, <1>6, <1>7
  DEF LaneRequest, ReconcileRequested, ResumeRequested, Environment

\* The clock keeps the types.
LEMMA TypeExpiry == ASSUME TypeInv, Expiry PROVE TypeInv'
<1> USE DEF TypeInv
<1>1. CASE WindowLeaseExpires
  <2>1. late' \subseteq Procs /\ trouble' \in 0 .. MaxTrouble
    BY <1>1, RuntimeAssumption DEF WindowLeaseExpires, Disturbed, TypeOK
  <2> QED
    BY <1>1, <2>1 DEF WindowLeaseExpires, TypeOK, Leases, OutcomeKnown, CallKnown, WaiterMatches
<1>2. ASSUME NEW t \in Triggers, TriggerLeaseExpires(t) PROVE TypeInv'
  <2>1. [trig[t] EXCEPT !.lease = "past"] \in TriggerRows
    BY DEF TypeOK, TriggerRows, Leases
  <2>2. trig' = [trig EXCEPT ![t] = [trig[t] EXCEPT !.lease = "past"]]
    BY <1>2 DEF TriggerLeaseExpires
  <2>3. TypeOK'
    <3>1. trouble' \in 0 .. MaxTrouble
      BY <1>2, RuntimeAssumption DEF TriggerLeaseExpires, Disturbed, TypeOK
    <3> QED
      BY <1>2, <2>1, <2>2, <3>1 DEF TriggerLeaseExpires, TypeOK
  <2> QED
    BY <1>2, <2>3 DEF TriggerLeaseExpires, OutcomeKnown, CallKnown, WaiterMatches
<1> QED
  BY <1>1, <1>2 DEF Expiry

\* A write that was given up keeps the types when it takes effect after all.
LEMMA TypeLate == ASSUME TypeInv, NEW w \in sent, LateWrite(w) PROVE TypeInv'
<1> USE DEF TypeInv
<1> DEFINE t == w.of
<1>1. /\ w \in Writes /\ t \in Triggers
      /\ w.what = "row" => w.value \in Statuses
      /\ w.what = "run" => w.value \in Snapshots
  BY DEF TypeOK, Writes
<1>2. trig' \in [Triggers -> TriggerRows]
  <2>1. \/ trig' = trig \/ trig' = Unleased(t) \/ trig' = [trig EXCEPT ![t] = Leased(@)]
        \/ w.what = "row" /\ trig' = [trig EXCEPT ![t].status = w.value]
    BY DEF LateWrite
  <2>2. CASE w.what = "row" /\ trig' = [trig EXCEPT ![t].status = w.value]
    <3>1. [trig[t] EXCEPT !.status = w.value] \in TriggerRows
      BY <1>1, <2>2 DEF TypeOK, TriggerRows
    <3>2. trig' = [trig EXCEPT ![t] = [trig[t] EXCEPT !.status = w.value]]
      BY <2>2
    <3> QED
      BY <3>1, <3>2 DEF TypeOK
  <2>3. CASE trig' = [trig EXCEPT ![t] = Leased(@)]
    <3>1. trig[t] \in TriggerRows /\ trig[t].attempts + 1 \in Nat
      BY <1>1 DEF TypeOK, TriggerRows
    <3>2. Leased(trig[t]) \in TriggerRows
      BY <3>1 DEF Leased, TriggerRows, Statuses, Leases
    <3> QED
      BY <2>3, <3>2 DEF TypeOK
  <2> QED
    BY <1>1, <2>1, <2>2, <2>3, UnleasedRows DEF TypeOK
<1>3. snap' \in [Triggers -> Snapshots]
  BY <1>1 DEF LateWrite, TypeOK
<1>4. strays' \subseteq Triggers /\ sent' \subseteq Writes
  BY <1>1, StrayingTypes DEF LateWrite, TypeOK
<1>5. UNCHANGED <<arrivals, win, late, lane, task, drv, call, trouble>>
  BY DEF LateWrite
<1> QED
  BY <1>2, <1>3, <1>4, <1>5 DEF TypeOK, OutcomeKnown, CallKnown, WaiterMatches

\* A step of another actor leaves a task where it is; it may lose its session.
SamePlace(p) ==
    /\ task'[p].pc = task[p].pc /\ task'[p].of = task[p].of
    /\ task'[p].n = task[p].n /\ task'[p].kind = task[p].kind

\* A step of the runtime leaves a task in its place, or is its own, or its process is gone.
LEMMA TaskMoves ==
    ASSUME TypeInv, [Next]_vars, NEW p \in Procs
    PROVE  SamePlace(p) \/ TaskStep(p) \/ Gone(p)
<1> USE DEF TypeInv
<1>0. \A q \in Procs : task[q] \in Tasks
  BY DEF TypeOK
<1>same. ASSUME task' = task \/ \E q \in Procs : task' = TaskDisconnected(q)
         PROVE  SamePlace(p)
  <2>1. ASSUME NEW q \in Procs, task' = TaskDisconnected(q) PROVE SamePlace(p)
    <3>1. task' = [task EXCEPT ![q] = [task[q] EXCEPT !.conn = FALSE]]
      BY <2>1 DEF TaskDisconnected
    <3>2. task'[p] = task[p] \/ task'[p] = [task[p] EXCEPT !.conn = FALSE]
      BY <3>1 DEF TypeOK
    <3> QED
      BY <1>0, <3>2 DEF SamePlace, Tasks
  <2> QED
    BY <1>same, <2>1 DEF SamePlace
<1>1. ASSUME NEW c \in Calls, CallStep(c) PROVE SamePlace(p)
  <2>1. task' = task \/ (call[c].proc \in Procs /\ task' = TaskDisconnected(call[c].proc))
    BY <1>1 DEF CallStep, EnqueuePersist, EnqueueThrows, EnqueueRegister, EnqueueReturn,
                CallKnown, Attending
  <2> QED
    BY <2>1, <1>same
<1>2. ASSUME NEW q \in Procs, q # p, TaskStep(q) PROVE SamePlace(p)
  <2>1. ASSUME NEW t \in Triggers,
               Claim(q, t) \/ ClaimExhausted(q, t) \/ ClaimDenied(q, t) \/ ClaimThrows(q, t)
        PROVE  task'[p] = task[p]
    BY <1>2, <2>1 DEF Claim, ClaimExhausted, ClaimDenied, ClaimThrows, ClaimedTask, Goto, TypeOK
  <2>2. CASE \/ TaskStart(q) \/ TaskSession(q) \/ TaskSessionThrows(q)
             \/ ReconcileScan(q) \/ ReconcileScanThrows(q) \/ ResumeLook(q) \/ ResumeLookThrows(q)
    BY <1>2, <2>2 DEF TaskStart, TaskSession, TaskSessionThrows, ReconcileScan, ReconcileScanThrows,
                      ResumeLook, ResumeLookThrows, Goto, TypeOK, SamePlace
  <2>3. CASE \/ Acquire(q) \/ AcquireThrows(q) \/ LoopEnds(q) \/ DriveReturns(q)
             \/ WindowAborted(q) \/ Sweep(q) \/ Release(q) \/ ReleaseThrows(q)
             \/ TaskTidy(q) \/ TaskFinally(q) \/ TaskEnd(q)
    BY <1>2, <2>3 DEF Acquire, AcquireThrows, LoopEnds, DriveReturns, WindowAborted, Sweep, Release,
                      ReleaseThrows, TaskTidy, TaskFinally, TaskEnd, Goto, TypeOK, SamePlace
  <2> QED
    BY <1>2, <2>1, <2>2, <2>3 DEF TaskStep, SamePlace
<1>3. ASSUME NEW q \in Procs, LaneRequest(q) \/ Environment(q) PROVE SamePlace(p) \/ Gone(p)
  <2>1. \/ task' = task
        \/ task' = TaskDisconnected(q)
        \/ Gone(q)
    BY <1>3 DEF LaneRequest, ReconcileRequested, ResumeRequested, Requested, Environment, Watchdog,
                InvalidateSession, Crash, ProcessExits, StopBegin, StopAborts, StopEnds, Boot
  <2>2. CASE Gone(q)
    BY <2>2 DEF Gone, TypeOK, SamePlace
  <2> QED
    BY <2>1, <2>2, <1>same
<1>4. ASSUME NEW d \in Drives, DriveStep(d) PROVE SamePlace(p)
  <2>1. task' = task
    BY <1>4 DEF DriveStep, DriveLoad, DriveMark, DriveStart, DriveCancel, DriveEnd, DriveSettle,
                DriveThrows, Cascade, CascadeLost, db
  <2> QED
    BY <2>1, <1>same
<1>5. CASE Expiry \/ \E w \in sent : LateWrite(w)
  BY <1>5, <1>same DEF Expiry, WindowLeaseExpires, TriggerLeaseExpires, LateWrite
<1>6. CASE UNCHANGED vars
  BY <1>6, <1>same DEF vars
<1> QED
  BY <1>1, <1>2, <1>3, <1>4, <1>5, <1>6 DEF Next

\* A task comes to drive a trigger only by claiming it.
LEMMA DriveBegins ==
    ASSUME TypeInv, NEW p \in Procs, TaskStep(p), task'[p].pc = "drive"
    PROVE  SamePlace(p) \/ \E t \in Triggers : Claim(p, t)
<1> USE DEF TypeInv
<1>0. task[p] \in Tasks
  BY DEF TypeOK
<1>goes. \A pc \in TaskPcs : task' = [task EXCEPT ![p].pc = pc] => task'[p].pc = pc
  BY <1>0 DEF TypeOK, Tasks
<1>idle. task'[p] # Idle
  BY DEF Idle
<1>1. CASE TaskStart(p)
  <2>1. task' = task \/ task'[p].pc \in {"session", "finally"}
    BY <1>0, <1>1 DEF TaskStart, TypeOK, Idle
  <2> QED
    BY <2>1 DEF SamePlace
<1>2. CASE TaskSession(p)
  <2>1. task'[p].pc \in {"acquire", "scan", "look"}
    BY <1>0, <1>2 DEF TaskSession, TypeOK, Tasks
  <2> QED
    BY <2>1
<1>3. CASE ReconcileScan(p)
  <2>1. task'[p].pc \in {"tidy", "acquire"}
    BY <1>0, <1>3 DEF ReconcileScan, Goto, TypeOK, Tasks
  <2> QED
    BY <2>1
<1>4. CASE \/ TaskSessionThrows(p) \/ ReconcileScanThrows(p) \/ ResumeLook(p) \/ ResumeLookThrows(p)
           \/ TaskTidy(p) \/ TaskFinally(p) \/ TaskEnd(p)
  <2>1. \/ \E pc \in {"finally", "acquire", "house"} : task' = [task EXCEPT ![p].pc = pc]
        \/ task'[p] = Idle
    BY <1>4 DEF TaskSessionThrows, ReconcileScanThrows, ResumeLook, ResumeLookThrows, TaskTidy,
                TaskFinally, TaskEnd, Goto, TypeOK
  <2> QED
    BY <1>goes, <1>idle, <2>1 DEF TaskPcs
<1>5. CASE \/ Acquire(p) \/ AcquireThrows(p) \/ Release(p) \/ ReleaseThrows(p)
           \/ LoopEnds(p) \/ WindowAborted(p) \/ Sweep(p)
  <2>1. \E pc \in {"claim", "tidy", "finally", "sweep", "release"} : task' = [task EXCEPT ![p].pc = pc]
    BY <1>5 DEF Acquire, AcquireThrows, Release, ReleaseThrows, LoopEnds, WindowAborted, Sweep, Goto,
                TurnedAway
  <2> QED
    BY <1>goes, <2>1 DEF TaskPcs
<1>6. CASE DriveReturns(p)
  <2>1. task'[p].pc \in {"release", "sweep", "claim"}
    <3>1. PICK pc \in {"release", "sweep", "claim"} :
             task' = [task EXCEPT ![p].pc = pc, ![p].of = None, ![p].n = 0]
      BY <1>6 DEF DriveReturns, NextAfter
    <3> QED
      BY <1>0, <3>1 DEF TypeOK, Tasks
  <2> QED
    BY <2>1
<1>7. ASSUME NEW t \in Triggers, ClaimExhausted(p, t) \/ ClaimDenied(p, t) \/ ClaimThrows(p, t)
      PROVE  task'[p].pc \in {"release", "claim"}
  <2>1. CASE ClaimExhausted(p, t)
    <3>1. PICK pc \in {"release", "claim"} : task' = ClaimedTask(p, t, pc)
      BY <2>1 DEF ClaimExhausted
    <3> QED
      BY <1>0, <3>1 DEF ClaimedTask, TypeOK, Tasks
  <2>2. CASE ClaimDenied(p, t)
    BY <1>0, <2>2 DEF ClaimDenied, TypeOK, Tasks, At
  <2>3. CASE ClaimThrows(p, t)
    BY <1>goes, <2>3 DEF ClaimThrows, Goto, TaskPcs
  <2> QED
    BY <1>7, <2>1, <2>2, <2>3
<1> QED
  BY <1>1, <1>2, <1>3, <1>4, <1>5, <1>6, <1>7 DEF TaskStep

\* What a claim leaves behind: the row is leased, its task drives it, a drive begins.
LEMMA Claims ==
    ASSUME TypeInv, NEW p \in Procs, NEW t \in Triggers, Claim(p, t)
    PROVE  LET d == <<t, trig[t].attempts + 1>> IN
           /\ d \in Drives
           /\ task'[p].pc = "drive" /\ Driven(p)' = d /\ task'[p].kind = task[p].kind
           /\ \A q \in Procs : q # p => task'[q] = task[q]
           /\ drv'[d].pc = "load" /\ drv'[d].proc = p /\ drv'[d].conn /\ drv'[d].out = "none"
           /\ drv'[d].cut = Aborted(p) /\ drv'[d].kind = (IF task[p].kind = "resume" THEN "resume" ELSE "run")
           /\ \A e \in Drives : e # d => drv'[e] = drv[e]
           /\ trig'[t] = Leased(trig[t]) /\ trig[t] \in TriggerRows /\ Granted(p, t)
           /\ \A u \in Triggers : u # t => trig'[u] = trig[u]
<1> USE DEF TypeInv
<1> DEFINE d == <<t, trig[t].attempts + 1>>
<1>1. trig[t] \in TriggerRows /\ task[p] \in Tasks
  BY DEF TypeOK
<1>2. d \in Drives
  BY <1>1, RuntimeAssumption DEF Claim, TriggerRows, Drives
<1>3. task'[p].pc = "drive" /\ task'[p].of = t /\ task'[p].n = trig[t].attempts + 1
      /\ task'[p].kind = task[p].kind /\ \A q \in Procs : q # p => task'[q] = task[q]
  BY <1>1 DEF Claim, ClaimedTask, TypeOK, Tasks
<1>4. Driven(p)' = d
  BY <1>3 DEF Driven
<1>5. drv' = [drv EXCEPT ![d] =
                  [pc |-> "load", kind |-> IF task[p].kind = "resume" THEN "resume" ELSE "run",
                   proc |-> p, conn |-> TRUE, cut |-> Aborted(p), out |-> "none"]]
  BY DEF Claim
<1>6. trig' = [trig EXCEPT ![t] = Leased(@)] /\ Granted(p, t)
  BY DEF Claim
<1> QED
  BY <1>1, <1>2, <1>3, <1>4, <1>5, <1>6 DEF TypeOK

\* Whatever a task drives, it has claimed.
LEMMA TasksNext == ASSUME Typed, [Next]_vars PROVE TasksKnown'
<1> SUFFICES ASSUME NEW p \in Procs, task'[p].pc = "drive" PROVE Driven(p)' \in Drives
  BY DEF TasksKnown, At
<1>1. CASE SamePlace(p)
  BY <1>1 DEF SamePlace, Typed, TasksKnown, At, Driven
<1>2. ASSUME NEW t \in Triggers, Claim(p, t) PROVE Driven(p)' \in Drives
  <2>1. TypeInv
    BY DEF Typed
  <2>2. /\ <<t, trig[t].attempts + 1>> \in Drives
        /\ Driven(p)' = <<t, trig[t].attempts + 1>>
    BY <1>2, <2>1, Claims
  <2> QED
    BY <2>2
<1> QED
  BY <1>1, <1>2, TaskMoves, DriveBegins DEF Typed, Gone, Idle, TypeInv, TypeOK

\* Whatever happens, the types are kept.
LEMMA TypeNext == ASSUME Typed, [Next]_vars PROVE Typed'
<1>0. TypeInv /\ TasksKnown
  BY DEF Typed
<1>1. ASSUME NEW p \in Procs, TaskStep(p) PROVE TypeInv'
  BY <1>0, <1>1, TypeTaskBegins, TypeTaskWindow, TypeTaskClaims, TypeTaskEnds DEF TaskStep
<1>2. ASSUME UNCHANGED vars PROVE TypeInv'
  <2>1. TypeOK'
    BY <1>0, <1>2 DEF TypeInv, TypeOK, vars
  <2>2. OutcomeKnown' /\ CallKnown' /\ WaiterMatches'
    <3>1. UNCHANGED <<lane, drv, call>>
      BY <1>2 DEF vars
    <3> QED
      BY <1>0, <3>1 DEF TypeInv, OutcomeKnown, CallKnown, WaiterMatches
  <2> QED
    BY <2>1, <2>2 DEF TypeInv
<1>3. ASSUME NEW c \in Calls, CallStep(c) PROVE TypeInv'
  BY <1>0, <1>3, TypeCallStep
<1>4. ASSUME NEW p \in Procs, LaneRequest(p) \/ Environment(p) PROVE TypeInv'
  BY <1>0, <1>4, TypeEnvironment
<1>5. ASSUME NEW d \in Drives, DriveStep(d) PROVE TypeInv'
  BY <1>0, <1>5, TypeDriveStep
<1>6. ASSUME NEW w \in sent, LateWrite(w) PROVE TypeInv'
  BY <1>0, <1>6, TypeLate
<1>7. ASSUME Expiry PROVE TypeInv'
  BY <1>0, <1>7, TypeExpiry
<1>8. TypeInv'
  BY <1>1, <1>2, <1>3, <1>4, <1>5, <1>6, <1>7 DEF Next
<1> QED
  BY <1>8, TasksNext DEF Typed

LEMMA TypedAlways == Spec => []Typed
<1>1. Typed /\ [Next]_vars => Typed'
  BY TypeNext
<1>2. Init => Typed
  BY TypeInit DEF Typed, Init, TasksKnown, At, Idle
<1> QED
  BY <1>1, <1>2, PTL DEF Spec

\* Every variable keeps its type, however many processes, triggers and calls there are
\* and whatever troubles strike (the whole of the runtime).
THEOREM TypeCorrect == Spec => []TypeOK
<1>1. Typed => TypeOK
  BY DEF Typed, TypeInv
<1> QED
  BY <1>1, TypedAlways, PTL

-----------------------------------------------------------------------------
(* One window                                                              *)

\* Whoever is between acquireWindow and releaseWindow holds the live row, unless the lease has run
\* out under it.
WindowBacked ==
    \A p \in Procs \ late : HoldsWindow(p) => win = [holder |-> p, lease |-> "live"]

\* Who touches the employee_window row.
LEMMA WindowMoves ==
    ASSUME [Next]_vars
    PROVE  \/ UNCHANGED <<win, late>>
           \/ WindowLeaseExpires
           \/ \E q \in Procs : Acquire(q) \/ AcquireThrows(q) \/ Release(q) \/ ReleaseThrows(q)
<1>1. ASSUME NEW c \in Calls, CallStep(c) PROVE UNCHANGED <<win, late>>
  BY <1>1 DEF CallStep, EnqueuePersist, EnqueueThrows, EnqueueRegister, EnqueueReturn, db
<1>2. ASSUME NEW p \in Procs, TaskStep(p)
      PROVE  \/ UNCHANGED <<win, late>>
             \/ Acquire(p) \/ AcquireThrows(p) \/ Release(p) \/ ReleaseThrows(p)
  <2>1. ASSUME NEW t \in Triggers,
               Claim(p, t) \/ ClaimExhausted(p, t) \/ ClaimDenied(p, t) \/ ClaimThrows(p, t)
        PROVE  UNCHANGED <<win, late>>
    BY <2>1 DEF Claim, ClaimExhausted, ClaimDenied, ClaimThrows, db
  <2>2. CASE \/ TaskStart(p) \/ TaskSession(p) \/ TaskSessionThrows(p)
             \/ ReconcileScan(p) \/ ReconcileScanThrows(p) \/ ResumeLook(p) \/ ResumeLookThrows(p)
    BY <2>2 DEF TaskStart, TaskSession, TaskSessionThrows, ReconcileScan, ReconcileScanThrows,
                ResumeLook, ResumeLookThrows, db
  <2>3. CASE LoopEnds(p) \/ DriveReturns(p) \/ WindowAborted(p) \/ Sweep(p)
             \/ TaskTidy(p) \/ TaskFinally(p) \/ TaskEnd(p)
    BY <2>3 DEF LoopEnds, DriveReturns, WindowAborted, Sweep, TaskTidy, TaskFinally, TaskEnd, db
  <2> QED
    BY <1>2, <2>1, <2>2, <2>3 DEF TaskStep
<1>3. ASSUME NEW p \in Procs, LaneRequest(p) \/ Environment(p) PROVE UNCHANGED <<win, late>>
  BY <1>3 DEF LaneRequest, ReconcileRequested, ResumeRequested, Requested, Environment, Watchdog,
              InvalidateSession, Crash, ProcessExits, Gone, StopBegin, StopAborts, StopEnds, Boot, db
<1>4. ASSUME NEW d \in Drives, DriveStep(d) PROVE UNCHANGED <<win, late>>
  BY <1>4 DEF DriveStep, DriveLoad, DriveMark, DriveStart, DriveCancel, DriveEnd, DriveSettle,
              DriveThrows, Cascade, CascadeLost, db
<1>5. ASSUME NEW w \in sent, LateWrite(w) PROVE UNCHANGED <<win, late>>
  BY <1>5 DEF LateWrite
<1>6. ASSUME NEW t \in Triggers, TriggerLeaseExpires(t) PROVE UNCHANGED <<win, late>>
  BY <1>6 DEF TriggerLeaseExpires
<1>7. CASE UNCHANGED vars
  BY <1>7 DEF vars
<1> QED
  BY <1>1, <1>2, <1>3, <1>4, <1>5, <1>6, <1>7 DEF Next, Expiry

\* A task comes into a window only by taking the row.
LEMMA WindowEntered ==
    ASSUME TypeInv, NEW p \in Procs, TaskStep(p), HoldsWindow(p)'
    PROVE  HoldsWindow(p) \/ (WindowFree /\ win' = [holder |-> p, lease |-> "live"])
<1> USE DEF TypeInv
<1>0. task[p] \in Tasks /\ \A pc \in TaskPcs : task' = [task EXCEPT ![p].pc = pc] => task'[p].pc = pc
  BY DEF TypeOK, Tasks
<1>1. CASE TaskStart(p)
  <2>1. task' = task \/ task'[p].pc \in {"session", "finally"}
    BY <1>0, <1>1 DEF TaskStart, TypeOK, Idle
  <2> QED
    BY <2>1 DEF HoldsWindow
<1>2. CASE TaskSession(p)
  <2>1. task'[p].pc \in {"acquire", "scan", "look"}
    BY <1>0, <1>2 DEF TaskSession, TypeOK, Tasks
  <2> QED
    BY <2>1 DEF HoldsWindow
<1>3. CASE ReconcileScan(p)
  <2>1. task'[p].pc \in {"tidy", "acquire"}
    BY <1>0, <1>3 DEF ReconcileScan, Goto, TypeOK, Tasks
  <2> QED
    BY <2>1 DEF HoldsWindow
<1>4. CASE \/ TaskSessionThrows(p) \/ ReconcileScanThrows(p) \/ ResumeLook(p) \/ ResumeLookThrows(p)
           \/ TaskTidy(p) \/ TaskFinally(p) \/ TaskEnd(p)
  <2>1. \/ \E pc \in {"finally", "acquire", "house"} : task' = [task EXCEPT ![p].pc = pc]
        \/ task'[p] = Idle
    BY <1>4 DEF TaskSessionThrows, ReconcileScanThrows, ResumeLook, ResumeLookThrows, TaskTidy,
                TaskFinally, TaskEnd, Goto, TypeOK
  <2> QED
    BY <1>0, <2>1 DEF TaskPcs, HoldsWindow, Idle
<1>5. CASE Acquire(p) \/ AcquireThrows(p)
  <2>1. \/ WindowFree /\ win' = [holder |-> p, lease |-> "live"]
        \/ \E pc \in {"tidy", "finally"} : task' = [task EXCEPT ![p].pc = pc]
    BY <1>5 DEF Acquire, AcquireThrows, Goto, TurnedAway
  <2> QED
    BY <1>0, <2>1 DEF TaskPcs, HoldsWindow
<1>6. CASE LoopEnds(p) \/ DriveReturns(p) \/ WindowAborted(p) \/ Sweep(p) \/ Release(p) \/ ReleaseThrows(p)
  BY <1>6 DEF LoopEnds, DriveReturns, WindowAborted, Sweep, Release, ReleaseThrows, HoldsWindow, At
<1>7. ASSUME NEW t \in Triggers,
             Claim(p, t) \/ ClaimExhausted(p, t) \/ ClaimDenied(p, t) \/ ClaimThrows(p, t)
      PROVE  HoldsWindow(p)
  BY <1>7 DEF Claim, ClaimExhausted, ClaimDenied, ClaimThrows, HoldsWindow, At
<1> QED
  BY <1>1, <1>2, <1>3, <1>4, <1>5, <1>6, <1>7 DEF TaskStep

LEMMA WindowNext == ASSUME TypeInv, WindowBacked, [Next]_vars PROVE WindowBacked'
<1> USE DEF TypeInv
<1> SUFFICES ASSUME NEW p \in Procs, p \notin late', HoldsWindow(p)'
             PROVE  win' = [holder |-> p, lease |-> "live"]
  BY DEF WindowBacked
<1>1. ~Gone(p)
  BY DEF Gone, TypeOK, Idle, HoldsWindow
<1>2. HoldsWindow(p) \/ win' = [holder |-> p, lease |-> "live"]
  BY <1>1, TaskMoves, WindowEntered DEF SamePlace, HoldsWindow
<1>held. HoldsWindow(p) /\ p \notin late => win = [holder |-> p, lease |-> "live"]
  BY DEF WindowBacked
<1>3. CASE UNCHANGED <<win, late>>
  BY <1>2, <1>3, <1>held
<1>4. CASE WindowLeaseExpires
  <2>1. HoldsWindow(p)
    BY <1>4 DEF WindowLeaseExpires, HoldsWindow
  <2>2. p \notin late
    BY <1>4 DEF WindowLeaseExpires
  <2>3. win.holder = p
    BY <2>1, <2>2, <1>held
  <2> QED
    BY <1>4, <2>1, <2>3 DEF WindowLeaseExpires
<1>5. ASSUME NEW q \in Procs, Acquire(q) \/ AcquireThrows(q)
      PROVE  win' = [holder |-> p, lease |-> "live"]
  <2>1. \/ UNCHANGED <<win, late>>
        \/ WindowFree /\ win' = [holder |-> q, lease |-> "live"] /\ late \subseteq late' \cup {q}
    BY <1>5 DEF Acquire, AcquireThrows
  <2>2. CASE WindowFree /\ win' = [holder |-> q, lease |-> "live"] /\ late \subseteq late' \cup {q} /\ q # p
    <3>1. task'[p] = task[p]
      BY <1>5, <2>2 DEF Acquire, AcquireThrows, Goto, TypeOK
    <3>2. win = [holder |-> p, lease |-> "live"]
      BY <2>2, <3>1, <1>held DEF HoldsWindow
    <3> QED
      BY <2>2, <3>2 DEF WindowFree
  <2> QED
    BY <2>1, <2>2, <1>3
<1>6. ASSUME NEW q \in Procs, Release(q) \/ ReleaseThrows(q)
      PROVE  win' = [holder |-> p, lease |-> "live"]
  <2>1. task' = [task EXCEPT ![q].pc = "finally"] /\ late' = late
    BY <1>6 DEF Release, ReleaseThrows, Goto
  <2>2. q # p
    BY <2>1 DEF TypeOK, Tasks, HoldsWindow
  <2>3. task'[p] = task[p]
    BY <2>1, <2>2 DEF TypeOK
  <2>4. win = [holder |-> p, lease |-> "live"]
    BY <2>1, <2>3, <1>held DEF HoldsWindow
  <2> QED
    BY <1>6, <2>2, <2>4 DEF Release, ReleaseThrows
<1> QED
  BY <1>3, <1>4, <1>5, <1>6, WindowMoves

WindowInv == Typed /\ WindowBacked

\* Whoever runs a window holds the live row, until the lease runs out: an invariant of every
\* execution (acquireWindow, releaseWindow).
LEMMA WindowAlways == Spec => []WindowInv
<1>1. Init => WindowBacked
  BY DEF Init, WindowBacked, HoldsWindow, Idle
<1>2. WindowInv /\ [Next]_vars => WindowInv'
  BY TypeNext, WindowNext DEF WindowInv, Typed
<1>3. Init => Typed
  BY TypeInit DEF Typed, Init, TasksKnown, At, Idle
<1> QED
  BY <1>1, <1>2, <1>3, PTL DEF Spec, WindowInv

\* One execution window per employee, across all processes: two are between acquireWindow and
\* releaseWindow only when a lease of sixty seconds has run out under one of them.  Crashes, stops,
\* aborts, failed, half-done and late queries included (acquireWindow's single UPSERT,
\* releaseWindow's holder).
THEOREM OneWindowAtATime == Spec => []OneWindow
<1>1. WindowInv => OneWindow
  BY DEF WindowInv, WindowBacked, OneWindow
<1> QED
  BY <1>1, WindowAlways, PTL

-----------------------------------------------------------------------------
(* One execution                                                           *)

\* What a drive does not do itself: it is cut, or disconnected, or dropped.
Trimmed(d) ==
    \/ /\ drv'[d].pc = drv[d].pc /\ drv'[d].out = drv[d].out /\ drv'[d].proc = drv[d].proc
       /\ drv'[d].conn => drv[d].conn
       /\ drv[d].cut => drv'[d].cut
    \/ drv'[d] = NoDrive

LEMMA DriveMoves ==
    ASSUME TypeInv, [Next]_vars, NEW d \in Drives
    PROVE  Trimmed(d) \/ DriveStep(d) \/ \E p \in Procs : Claim(p, d[1])
<1> USE DEF TypeInv
<1>0. \A e \in Drives : drv[e] \in DriveStates /\ e[1] \in Triggers
  BY DEF TypeOK, Drives
<1>same. ASSUME drv'[d] = drv[d] PROVE Trimmed(d)
  BY <1>same DEF Trimmed
<1>off. ASSUME NEW p \in Procs, drv' = DrivesDisconnected(p) \/ drv' = DrivesCut(p) PROVE Trimmed(d)
  <2>1. \/ drv'[d] = drv[d]
        \/ drv'[d] = [drv[d] EXCEPT !.cut = TRUE]
        \/ drv'[d] = [drv[d] EXCEPT !.cut = TRUE, !.conn = FALSE]
    BY <1>off DEF DrivesDisconnected, DrivesCut
  <2> QED
    BY <1>0, <2>1 DEF Trimmed, DriveStates
<1>1. ASSUME NEW c \in Calls, CallStep(c) PROVE Trimmed(d)
  <2>1. drv' = drv \/ (call[c].proc \in Procs /\ drv' = DrivesDisconnected(call[c].proc))
    BY <1>1 DEF CallStep, EnqueuePersist, EnqueueThrows, EnqueueRegister, EnqueueReturn, Housekeeping,
                CallKnown, Attending
  <2> QED
    BY <2>1, <1>off, <1>same
<1>2. ASSUME NEW p \in Procs, TaskStep(p) PROVE Trimmed(d) \/ \E q \in Procs : Claim(q, d[1])
  <2>1. ASSUME NEW t \in Triggers, Claim(p, t) PROVE Trimmed(d) \/ Claim(p, d[1])
    <3>1. CASE t = d[1]
      BY <2>1, <3>1
    <3>2. CASE t # d[1]
      <4>1. \A e \in Drives : e # <<t, trig[t].attempts + 1>> => drv'[e] = drv[e]
        BY <2>1, Claims
      <4>2. d # <<t, trig[t].attempts + 1>>
        BY <3>2
      <4>3. drv'[d] = drv[d]
        BY <4>1, <4>2
      <4> QED
        BY <4>3, <1>same
    <3> QED
      BY <3>1, <3>2
  <2>2. ASSUME NEW t \in Triggers, ClaimExhausted(p, t) \/ ClaimDenied(p, t) \/ ClaimThrows(p, t)
        PROVE  drv' = drv
    BY <2>2 DEF ClaimExhausted, ClaimDenied, ClaimThrows
  <2>3. CASE \/ TaskStart(p) \/ TaskSession(p) \/ TaskSessionThrows(p)
             \/ ReconcileScan(p) \/ ReconcileScanThrows(p) \/ ResumeLook(p) \/ ResumeLookThrows(p)
             \/ Acquire(p) \/ AcquireThrows(p) \/ Release(p) \/ ReleaseThrows(p)
             \/ LoopEnds(p) \/ WindowAborted(p) \/ Sweep(p) \/ TaskFinally(p)
    <3>1. drv' = drv
      BY <2>3 DEF TaskStart, TaskSession, TaskSessionThrows, ReconcileScan, ReconcileScanThrows,
                ResumeLook, ResumeLookThrows, Acquire, AcquireThrows, Release, ReleaseThrows,
                LoopEnds, WindowAborted, Sweep, TaskFinally
    <3> QED
      BY <3>1, <1>same
  <2>4. CASE TaskTidy(p) \/ TaskEnd(p)
    <3>1. drv' = drv \/ drv' = DrivesDisconnected(p)
      BY <2>4 DEF TaskTidy, TaskEnd, Housekeeping
    <3> QED
      BY <3>1, <1>off, <1>same
  <2>5. CASE DriveReturns(p)
    <3>1. drv'[d] = drv[d] \/ drv'[d] = NoDrive
      BY <2>5 DEF DriveReturns, TypeOK
    <3> QED
      BY <3>1, <1>same DEF Trimmed
  <2> QED
    BY <1>2, <1>same, <2>1, <2>2, <2>3, <2>4, <2>5 DEF TaskStep
<1>3. ASSUME NEW p \in Procs, LaneRequest(p) \/ Environment(p) PROVE Trimmed(d)
  <2>1. drv' = drv \/ drv' = DrivesDisconnected(p) \/ drv' = DrivesCut(p) \/ Gone(p)
    BY <1>3 DEF LaneRequest, ReconcileRequested, ResumeRequested, Requested, Environment, Watchdog,
              InvalidateSession, Crash, ProcessExits, StopBegin, StopAborts, StopEnds, Boot
  <2>2. ASSUME Gone(p) PROVE drv'[d] = drv[d] \/ drv'[d] = NoDrive
    BY <2>2 DEF Gone
  <2> QED
    BY <2>1, <2>2, <1>off, <1>same DEF Trimmed
<1>4. ASSUME NEW e \in Drives, DriveStep(e), e # d PROVE Trimmed(d)
  <2>1. drv'[d] = drv[d]
    BY <1>4 DEF DriveStep, DriveLoad, DriveMark, DriveStart, DriveCancel, DriveEnd, DriveSettle,
              DriveThrows, Cascade, CascadeLost, TypeOK
  <2> QED
    BY <2>1, <1>same
<1>5. CASE Expiry \/ (\E w \in sent : LateWrite(w)) \/ UNCHANGED vars
  <2>1. drv' = drv
    BY <1>5 DEF Expiry, WindowLeaseExpires, TriggerLeaseExpires, LateWrite, vars
  <2> QED
    BY <2>1, <1>same
<1> QED
  BY <1>1, <1>2, <1>3, <1>4, <1>5 DEF Next

\* What a drive does itself: it goes on on the same connection, or it is over.
LEMMA DriveGoesOn ==
    ASSUME TypeInv, NEW d \in Drives, DriveStep(d)
    PROVE  /\ Active(d) /\ task' = task
           /\ \/ drv'[d].pc = "over"
              \/ /\ Active(d)' /\ drv'[d].proc = drv[d].proc
                 /\ drv'[d].conn = drv[d].conn /\ drv'[d].cut = drv[d].cut
           /\ \A e \in Drives : e # d => drv'[e] = drv[e]
<1> USE DEF TypeInv
<1>0. drv[d] \in DriveStates
  BY DEF TypeOK
<1>1. task' = task /\ \A e \in Drives : e # d => drv'[e] = drv[e]
  BY DEF DriveStep, DriveLoad, DriveMark, DriveStart, DriveCancel, DriveEnd, DriveSettle,
              DriveThrows, Cascade, CascadeLost, TypeOK, db
<1>2. Active(d)
  BY DEF DriveStep, DriveLoad, DriveMark, DriveStart, DriveCancel, DriveEnd, DriveSettle,
              DriveThrows, Cascade, CascadeLost, Active
<1>3. \/ drv'[d] = drv[d]
      \/ \E out \in Answers \cup {"none", "refused", "aborted", "threw"} : drv'[d] = Over(out)
      \/ \E pc \in {"mark", "start", "exec"} : drv'[d] = [drv[d] EXCEPT !.pc = pc]
      \/ \E out : drv'[d] = [drv[d] EXCEPT !.pc = "settle", !.out = out]
  <2>1. CASE DriveLoad(d)
    BY <2>1 DEF DriveLoad, TypeOK
  <2>2. CASE DriveMark(d) \/ DriveStart(d) \/ DriveCancel(d) \/ DriveThrows(d)
    BY <2>2 DEF DriveMark, DriveStart, DriveCancel, DriveThrows, TypeOK
  <2>3. CASE DriveSettle(d)
    BY <1>0, <2>3 DEF DriveSettle, TypeOK, DriveStates
  <2>4. ASSUME NEW r \in {"success", "suspended", "failed"}, DriveEnd(d, r)
        PROVE  drv'[d] = Over("aborted") \/ drv'[d] = [drv[d] EXCEPT !.pc = "settle", !.out = OutcomeOf[r]]
    BY <2>4 DEF DriveEnd, TypeOK
  <2>5. ASSUME NEW u \in Triggers, Cascade(d, u) \/ CascadeLost(d, u) PROVE drv' = drv
    BY <2>5 DEF Cascade, CascadeLost
  <2> QED
    BY <2>1, <2>2, <2>3, <2>4, <2>5 DEF DriveStep
<1>4. \A out : Over(out).pc = "over"
  BY DEF Over, NoDrive
<1>5. \A pc, out : /\ [drv[d] EXCEPT !.pc = pc].pc = pc
                   /\ [drv[d] EXCEPT !.pc = pc].proc = drv[d].proc
                   /\ [drv[d] EXCEPT !.pc = pc].conn = drv[d].conn
                   /\ [drv[d] EXCEPT !.pc = pc].cut = drv[d].cut
                   /\ [drv[d] EXCEPT !.pc = "settle", !.out = out].pc = "settle"
                   /\ [drv[d] EXCEPT !.pc = "settle", !.out = out].proc = drv[d].proc
                   /\ [drv[d] EXCEPT !.pc = "settle", !.out = out].conn = drv[d].conn
                   /\ [drv[d] EXCEPT !.pc = "settle", !.out = out].cut = drv[d].cut
  BY <1>0 DEF DriveStates
<1>6. \/ drv'[d].pc = "over"
      \/ /\ Active(d)' /\ drv'[d].proc = drv[d].proc
         /\ drv'[d].conn = drv[d].conn /\ drv'[d].cut = drv[d].cut
  <2>1. CASE drv'[d] = drv[d]
    BY <1>2, <2>1 DEF Active
  <2>2. CASE \E out \in Answers \cup {"none", "refused", "aborted", "threw"} : drv'[d] = Over(out)
    BY <1>4, <2>2
  <2>3. ASSUME NEW pc \in {"mark", "start", "exec"}, drv'[d] = [drv[d] EXCEPT !.pc = pc]
        PROVE  /\ Active(d)' /\ drv'[d].proc = drv[d].proc
               /\ drv'[d].conn = drv[d].conn /\ drv'[d].cut = drv[d].cut
    BY <1>5, <2>3 DEF Active
  <2>4. ASSUME NEW out, drv'[d] = [drv[d] EXCEPT !.pc = "settle", !.out = out]
        PROVE  /\ Active(d)' /\ drv'[d].proc = drv[d].proc
               /\ drv'[d].conn = drv[d].conn /\ drv'[d].cut = drv[d].cut
    BY <1>5, <2>4 DEF Active
  <2> QED
    BY <1>3, <2>1, <2>2, <2>3, <2>4
<1> QED
  BY <1>1, <1>2, <1>6

\* Who aborts a window cuts its drives.
LEMMA AbortsCut ==
    ASSUME TypeInv, [Next]_vars, NEW p \in Procs, ~Aborted(p), Aborted(p)',
           NEW d \in Drives, drv[d].proc = p, Active(d)
    PROVE  drv'[d].cut
<1> USE DEF TypeInv
<1>0. \A q \in Procs : lane[q] \in Lanes
  BY DEF TypeOK
<1>d. drv[d] \in DriveStates
  BY DEF TypeOK
<1>off. ASSUME drv' = DrivesDisconnected(p) \/ drv' = DrivesCut(p) PROVE drv'[d].cut
  BY <1>d, <1>off DEF DrivesDisconnected, DrivesCut, DriveStates
<1>same. ASSUME lane'[p].abort = lane[p].abort PROVE FALSE
  BY <1>same DEF Aborted
<1>house. ASSUME NEW q \in Procs, Housekeeping(q) PROVE drv'[d].cut
  <2>1. CASE q # p
    BY <1>house, <1>same, <2>1 DEF Housekeeping, TypeOK
  <2>2. CASE q = p
    <3>1. lane'[p] = Housekept(p)
      BY <1>house, <2>2 DEF Housekeeping, TypeOK
    <3> DEFINE l == [lane[p] EXCEPT !.followup = FALSE,
                                    !.waiters = IF Up(p) THEN @ ELSE NoWaiters]
    <3>2. l.abort = lane[p].abort /\ l.sess = lane[p].sess /\ l \in Lanes
      <4>1. NoWaiters \in [Triggers -> Calls \cup {None}]
        BY DEF NoWaiters
      <4>2. lane[p] \in Lanes
        BY <1>0
      <4>3. l \in Lanes
        BY <4>1, <4>2 DEF Lanes
      <4>4. l = [lane[p] EXCEPT !.followup = FALSE, !.waiters = l.waiters]
        BY <4>2 DEF Lanes
      <4>5. \A x : /\ [lane[p] EXCEPT !.followup = FALSE, !.waiters = x].abort = lane[p].abort
                   /\ [lane[p] EXCEPT !.followup = FALSE, !.waiters = x].sess = lane[p].sess
        BY <4>2 DEF Lanes
      <4> HIDE DEF l
      <4> QED
        BY <4>3, <4>4, <4>5
    <3>3. Scheduled(l).abort = l.abort
      BY <3>2 DEF Scheduled, Lanes
    <3>4. Housekept(p) \in {Scheduled(l), l, SessionClosed(l)}
      BY DEF Housekept
    <3>5. Housekept(p) = SessionClosed(l) /\ l.sess
      BY <3>1, <3>2, <3>3, <3>4, <1>same DEF SessionClosed
    <3>6. SessionClosed(l).sess = FALSE
      BY <3>2, <3>5 DEF SessionClosed, WithAbort, Lanes
    <3>7. ClosesSession(p)
      BY <3>2, <3>5, <3>6 DEF ClosesSession
    <3> QED
      BY <1>house, <1>off, <2>2, <3>7 DEF Housekeeping
  <2> QED
    BY <2>1, <2>2
<1>1. ASSUME NEW c \in Calls, CallStep(c) PROVE drv'[d].cut
  <2>1. ASSUME NEW q \in Procs, NEW t \in Triggers, EnqueuePersist(c, q, t) PROVE FALSE
    BY <1>0, <2>1, <1>same DEF EnqueuePersist, TypeOK, Lanes
  <2>2. ASSUME NEW q \in Procs, NEW t \in Triggers, EnqueueThrows(c, q, t) PROVE FALSE
    BY <1>0, <2>2, <1>same DEF EnqueueThrows, TypeOK, Lanes
  <2>3. ASSUME EnqueueRegister(c) PROVE FALSE
    <3> DEFINE q == call[c].proc
               u == call[c].of
               freed == [lane[q] EXCEPT !.persist = None]
               kept == [freed EXCEPT !.waiters[u] = c]
    <3>1. q \in Procs
      BY <2>3 DEF EnqueueRegister, CallKnown, Attending
    <3>2. freed.abort = lane[q].abort /\ kept.abort = lane[q].abort
      BY <1>0, <3>1 DEF Lanes
    <3>3. Scheduled(kept).abort = lane[q].abort
      <4> HIDE DEF kept
      <4> QED BY <3>2 DEF Scheduled
    <3>4. lane' = [lane EXCEPT ![q] = freed] \/ lane' = [lane EXCEPT ![q] = Scheduled(kept)]
      BY <2>3 DEF EnqueueRegister
    <3> QED
      BY <3>1, <3>2, <3>3, <3>4, <1>same DEF TypeOK
  <2>4. CASE EnqueueReturn(c)
    BY <2>4, <1>house DEF EnqueueReturn, CallKnown, Attending
  <2> QED
    BY <1>1, <2>1, <2>2, <2>3, <2>4 DEF CallStep
<1>2. ASSUME NEW q \in Procs, TaskStep(q) PROVE drv'[d].cut
  <2>drop. ASSUME NEW t, \/ lane' = lane
                         \/ lane' = [lane EXCEPT ![q].waiters = NoWaiters]
                         \/ lane' = [lane EXCEPT ![q].waiters[t] = None]
           PROVE  FALSE
    <3>1. lane[q] \in Lanes
      BY <1>0
    <3>2. \A x : [lane[q] EXCEPT !.waiters = x].abort = lane[q].abort
      BY <3>1 DEF Lanes
    <3>3. \E x : lane' = lane \/ lane' = [lane EXCEPT ![q] = [lane[q] EXCEPT !.waiters = x]]
      BY <2>drop
    <3>4. lane'[p].abort = lane[p].abort
      BY <3>2, <3>3 DEF TypeOK
    <3> QED
      BY <3>4, <1>same
  <2>arm. ASSUME NEW b \in {"off", "armed"}, lane'[q].abort = b, \A r \in Procs : r # q => lane'[r] = lane[r]
          PROVE  FALSE
    BY <2>arm, <1>same DEF Aborted
  <2>1. CASE TaskStart(q)
    <3>1. /\ lane'[q].abort = lane[q].abort \/ lane'[q].abort = "armed"
          /\ \A r \in Procs : r # q => lane'[r] = lane[r]
      BY <1>0, <2>1 DEF TaskStart, TypeOK, Lanes
    <3> QED
      BY <3>1, <2>arm, <1>same
  <2>2. CASE TaskSession(q)
    BY <1>0, <2>2, <1>same DEF TaskSession, TypeOK, Lanes
  <2>3. CASE ReconcileScan(q) \/ ResumeLook(q)
    <3>1. /\ lane' = lane \/ lane'[q].abort = "armed"
          /\ \A r \in Procs : r # q => lane'[r] = lane[r]
      BY <1>0, <2>3 DEF ReconcileScan, ResumeLook, TypeOK, Lanes
    <3> QED
      BY <3>1, <2>arm, <1>same
  <2>4. CASE \/ TaskSessionThrows(q) \/ ReconcileScanThrows(q) \/ ResumeLookThrows(q)
             \/ Acquire(q) \/ AcquireThrows(q) \/ Release(q) \/ ReleaseThrows(q)
             \/ LoopEnds(q) \/ DriveReturns(q) \/ WindowAborted(q)
    <3>1. \E t : \/ lane' = lane
                 \/ lane' = [lane EXCEPT ![q].waiters = NoWaiters]
                 \/ lane' = [lane EXCEPT ![q].waiters[t] = None]
      BY <2>4 DEF TaskSessionThrows, ReconcileScanThrows, ResumeLookThrows, Acquire, AcquireThrows,
                  Release, ReleaseThrows, LoopEnds, DriveReturns, WindowAborted, db
    <3> QED
      BY <3>1, <2>drop
  <2>5. ASSUME NEW t \in Triggers,
               Claim(q, t) \/ ClaimExhausted(q, t) \/ ClaimDenied(q, t) \/ ClaimThrows(q, t)
        PROVE  FALSE
    <3>1. \/ lane' = lane
          \/ lane' = [lane EXCEPT ![q].waiters = NoWaiters]
          \/ lane' = [lane EXCEPT ![q].waiters[t] = None]
      BY <2>5 DEF Claim, ClaimExhausted, ClaimDenied, ClaimThrows
    <3> QED
      BY <3>1, <2>drop
  <2>6. CASE Sweep(q)
    <3>1. lane'[p].abort = lane[p].abort
      <4>1. PICK w : lane' = [lane EXCEPT ![q].waiters = w]
        BY <2>6 DEF Sweep
      <4> QED
        BY <1>0, <4>1 DEF TypeOK, Lanes
    <3> QED
      BY <3>1, <1>same
  <2>7. CASE TaskTidy(q) \/ TaskEnd(q)
    BY <2>7, <1>house DEF TaskTidy, TaskEnd
  <2>8. CASE TaskFinally(q)
    <3>1. /\ lane'[q].abort = "off"
          /\ \A r \in Procs : r # q => lane'[r] = lane[r]
      BY <1>0, <2>8 DEF TaskFinally, TypeOK, Lanes
    <3> QED
      BY <3>1, <2>arm
  <2> QED
    BY <1>2, <2>1, <2>2, <2>3, <2>4, <2>5, <2>6, <2>7, <2>8 DEF TaskStep
<1>3. ASSUME NEW q \in Procs, LaneRequest(q) \/ Environment(q) PROVE drv'[d].cut
  <2>other. CASE q # p
    <3>1. lane'[p] = lane[p]
      BY <1>3, <2>other DEF LaneRequest, ReconcileRequested, ResumeRequested, Requested, Environment,
              Watchdog, InvalidateSession, Crash, ProcessExits, Gone, StopBegin, StopAborts, StopEnds,
              Boot, TypeOK
    <3> QED
      BY <3>1, <1>same
  <2>1. CASE q = p /\ (Watchdog(q) \/ StopAborts(q) \/ InvalidateSession(q))
    BY <2>1, <1>off DEF Watchdog, StopAborts, InvalidateSession
  <2>2. CASE q = p /\ StopEnds(q)
    <3>1. CASE lane[p].sess
      BY <2>2, <3>1, <1>off DEF StopEnds
    <3>2. CASE ~lane[p].sess
      <4>1. lane'[p] = [lane[p] EXCEPT !.up = "stopped"]
        BY <2>2, <3>2 DEF StopEnds, SessionClosed, TypeOK
      <4> QED
        BY <1>0, <4>1, <1>same DEF Lanes
    <3> QED
      BY <3>1, <3>2
  <2>3. CASE q = p /\ (LaneRequest(q) \/ StopBegin(q))
    <3>1. lane'[p].abort = lane[p].abort
      <4>1. CASE StopBegin(q)
        BY <1>0, <2>3, <4>1 DEF StopBegin, TypeOK, Lanes
      <4>2. ASSUME NEW item, Requested(q, item) PROVE lane'[p].abort = lane[p].abort
        BY <1>0, <2>3, <4>2 DEF Requested, TypeOK, Lanes
      <4> QED
        BY <2>3, <4>1, <4>2 DEF LaneRequest, ReconcileRequested, ResumeRequested
    <3> QED
      BY <3>1, <1>same
  <2>4. CASE q = p /\ (Crash(q) \/ ProcessExits(q) \/ Boot(q))
    <3>0. NewLane.abort = "off" /\ NewLane \in Lanes
      BY EmptyTypes DEF NewLane
    <3>1. lane'[p].abort = "off"
      <4>1. CASE Crash(q) \/ ProcessExits(q)
        BY <2>4, <3>0, <4>1 DEF Crash, ProcessExits, Gone, TypeOK
      <4>2. CASE Boot(q)
        BY <2>4, <3>0, <4>2 DEF Boot, TypeOK, Lanes
      <4> QED
        BY <2>4, <4>1, <4>2
    <3> QED
      BY <3>1 DEF Aborted
  <2> QED
    BY <1>3, <2>other, <2>1, <2>2, <2>3, <2>4 DEF Environment
<1>4. ASSUME NEW e \in Drives, DriveStep(e) PROVE FALSE
  <2>1. \/ lane' = lane
        \/ \E q : lane' = [lane EXCEPT ![q].sess = TRUE]
        \/ \E q : lane' = [lane EXCEPT ![q].sess = TRUE, ![q].followup = TRUE]
    BY <1>4 DEF DriveStep, DriveLoad, DriveMark, DriveStart, DriveCancel, DriveEnd, DriveSettle,
              DriveThrows, Cascade, CascadeLost
  <2>2. /\ [lane[p] EXCEPT !.sess = TRUE].abort = lane[p].abort
        /\ [lane[p] EXCEPT !.sess = TRUE, !.followup = TRUE].abort = lane[p].abort
    BY <1>0 DEF Lanes
  <2>3. lane'[p] \in {lane[p], [lane[p] EXCEPT !.sess = TRUE],
                      [lane[p] EXCEPT !.sess = TRUE, !.followup = TRUE]}
    BY <2>1 DEF TypeOK
  <2> QED
    BY <2>2, <2>3, <1>same
<1>5. CASE Expiry \/ (\E w \in sent : LateWrite(w)) \/ UNCHANGED vars
  <2>1. lane' = lane
    BY <1>5 DEF Expiry, WindowLeaseExpires, TriggerLeaseExpires, LateWrite, vars
  <2> QED
    BY <2>1, <1>same
<1> QED
  BY <1>1, <1>2, <1>3, <1>4, <1>5 DEF Next

\* Process p attends to drive d: its task drives it, in a window that is not aborted.
AttendedBy(d, p) == drv[d].proc = p /\ At(p, "drive") /\ Driven(p) = d /\ ~Aborted(p)

\* A connected drive that has not been cut is the one its process attends to.
Attended ==
    \A d \in Drives : Connected(d) /\ ~drv[d].cut => \E p \in Procs : AttendedBy(d, p)

LEMMA AttendedNext == ASSUME TypeInv, Attended, [Next]_vars PROVE Attended'
<1> USE DEF TypeInv
<1> SUFFICES ASSUME NEW d \in Drives, Connected(d)', ~drv'[d].cut
             PROVE  \E p \in Procs : AttendedBy(d, p)'
  BY DEF Attended
<1>1. ASSUME NEW p \in Procs, Claim(p, d[1]), d = <<d[1], trig[d[1]].attempts + 1>>
      PROVE  AttendedBy(d, p)'
  <2>1. d[1] \in Triggers
    BY DEF Drives
  <2>2. /\ drv'[<<d[1], trig[d[1]].attempts + 1>>].proc = p
        /\ drv'[<<d[1], trig[d[1]].attempts + 1>>].cut = Aborted(p)
        /\ task'[p].pc = "drive" /\ Driven(p)' = <<d[1], trig[d[1]].attempts + 1>>
    BY <1>1, <2>1, Claims
  <2>3. drv'[d].proc = p /\ drv'[d].cut = Aborted(p) /\ Driven(p)' = d
    BY <1>1, <2>2
  <2>4. lane' = lane
    BY <1>1 DEF Claim
  <2> QED
    BY <2>2, <2>3, <2>4 DEF AttendedBy, At, Aborted
<1>2. ASSUME Connected(d), ~drv[d].cut, drv'[d].proc = drv[d].proc
      PROVE  \E p \in Procs : AttendedBy(d, p)'
  <2>1. PICK p \in Procs : AttendedBy(d, p)
    BY <1>2 DEF Attended
  <2>2. ~Aborted(p)'
    BY <1>2, <2>1, AbortsCut DEF Connected, AttendedBy
  <2>3. ~Gone(p)
    BY <1>2, <2>1 DEF Gone, Connected, Active, NoDrive, AttendedBy
  <2>4. ~TaskStep(p) \/ SamePlace(p)
    <3>1. CASE DriveReturns(p) \/ WindowAborted(p)
      BY <1>2, <2>1, <3>1 DEF DriveReturns, WindowAborted, Connected, Active, At, AttendedBy
    <3>2. ASSUME TaskStep(p), ~(DriveReturns(p) \/ WindowAborted(p)) PROVE FALSE
      BY <2>1, <3>2 DEF TaskStep, TaskStart, TaskSession, TaskSessionThrows, ReconcileScan,
              ReconcileScanThrows, ResumeLook, ResumeLookThrows, Acquire, AcquireThrows, Claim,
              ClaimExhausted, ClaimDenied, ClaimThrows, LoopEnds, Sweep, Release, ReleaseThrows,
              TaskTidy, TaskFinally, TaskEnd, At, AttendedBy
    <3> QED
      BY <3>1, <3>2
  <2>5. SamePlace(p)
    BY <2>3, <2>4, TaskMoves
  <2>6. AttendedBy(d, p)'
    BY <1>2, <2>1, <2>2, <2>5 DEF SamePlace, At, Driven, AttendedBy
  <2> QED
    BY <2>6
<1>3. CASE Trimmed(d)
  BY <1>2, <1>3 DEF Trimmed, Connected, Active, NoDrive
<1>4. CASE DriveStep(d)
  BY <1>2, <1>4, DriveGoesOn DEF Connected, Active
<1>5. ASSUME NEW p \in Procs, Claim(p, d[1]), d # <<d[1], trig[d[1]].attempts + 1>>
      PROVE  Trimmed(d)
  <2>1. d[1] \in Triggers
    BY DEF Drives
  <2>2. drv'[d] = drv[d]
    BY <1>5, <2>1, Claims
  <2> QED
    BY <2>2 DEF Trimmed
<1> QED
  BY <1>1, <1>3, <1>4, <1>5, DriveMoves

ExecInv == WindowInv /\ Attended

LEMMA ExecAlways == Spec => []ExecInv
<1>1. Init => Attended
  BY DEF Init, Attended, Connected, Active, NoDrive
<1>2. Attended /\ WindowInv /\ [Next]_vars => Attended'
  BY AttendedNext DEF WindowInv, Typed
<1> QED
  BY <1>1, <1>2, WindowAlways, PTL DEF Spec, ExecInv

\* At most one run of an employee executes for its window, whatever the number of processes: with
\* aborts by the watchdog, the lifecycle service and stop(), crashes, failed and late queries, and
\* leases that run out (acquireWindow, claimLease, the lane's tail, abortWindow).
THEOREM OneExecutionAtATime == Spec => []OneExecution
<1>1. ExecInv => OneExecution
  <2> SUFFICES ASSUME ExecInv, NEW d \in Drives, NEW e \in Drives, Executing(d), Executing(e)
               PROVE  d = e
    BY DEF OneExecution
  <2>1. ASSUME NEW x \in Drives, Executing(x)
        PROVE  /\ drv[x].proc \in Procs /\ drv[x].proc \notin late
               /\ HoldsWindow(drv[x].proc) /\ Driven(drv[x].proc) = x
    BY <2>1 DEF ExecInv, Attended, AttendedBy, Executing, Connected, Active, HoldsWindow, At
  <2>2. drv[d].proc = drv[e].proc
    BY <2>1 DEF ExecInv, WindowInv, WindowBacked
  <2> QED
    BY <2>1, <2>2
<1> QED
  BY <1>1, ExecAlways, PTL

\* One window and one execution at a time.
THEOREM OneThingAtATime == Spec => []OneAtATime
  BY OneWindowAtATime, OneExecutionAtATime, PTL DEF OneAtATime

-----------------------------------------------------------------------------
(* The rows and their runs                                                 *)

\* What an outcome says about the durable run.
OutTrue(t, out) ==
    (out = "completed" => snap[t] = "success") /\ (out = "waiting" => snap[t] = "suspended")

\* The row is in the hands of whoever claimed it.
RowHeld(t) == trig[t].status \in {"leased", "running"}

\* A late write of the row or the run of t.
Owed(w, t) == w.of = t /\ w.what \in {"row", "run"}

\* The task of p has been told a success of t.
Told(p, t) ==
    /\ At(p, "drive") /\ task[p].of = t
    /\ drv[Driven(p)].pc = "over" /\ drv[Driven(p)].out \in {"completed", "waiting"}

\* As long as t is not claimed from under somebody: a drive that may write has the row, alone, and it
\* is its task's; it settles with what the run says; a write that was given up is the only one, and
\* nobody has been told anything else; what a task has been told is what the row says.
HeldByDrive(t) == \A d \in Drives : d[1] = t /\ Connected(d) => RowHeld(t)
OneDrive(t) ==
    \A d, e \in Drives : d[1] = t /\ e[1] = t /\ Connected(d) /\ Connected(e) => d = e
DrivenByTask(t) ==
    \A p \in Procs, d \in Drives :
        d[1] = t /\ Connected(d) /\ At(p, "drive") /\ task[p].of = t => Driven(p) = d
OutsTrue(t) ==
    \A d \in Drives : d[1] = t /\ Connected(d) =>
        /\ drv[d].pc = "settle" => OutTrue(t, drv[d].out)
        /\ drv[d].pc = "exec" /\ ~drv[d].cut => snap[t] # "canceled"
WritesOwed(t) ==
    \A w \in sent : Owed(w, t) =>
        /\ RowHeld(t)
        /\ w.what = "row" => OutTrue(t, w.value)
        /\ \A d \in Drives : d[1] = t => ~Connected(d)
        /\ \A v \in sent : Owed(v, t) => v = w
        /\ \A p \in Procs : ~Told(p, t)
ToldTrue(t) == \A p \in Procs : Told(p, t) => trig[t].status = drv[Driven(p)].out
Steady(t) ==
    /\ HeldByDrive(t) /\ OneDrive(t) /\ DrivenByTask(t) /\ OutsTrue(t)
    /\ WritesOwed(t) /\ ToldTrue(t) /\ OutTrue(t, trig[t].status)

FinalKept(t) == trig[t].status \in Final => trig'[t].status = trig[t].status

\* Nobody touches the row, the run or the late writes of t, but for a first delivery.
RowKept(t) ==
    /\ \/ trig'[t].status = trig[t].status
       \/ trig[t].status = "absent" /\ trig'[t].status = "pending"
    /\ snap'[t] = snap[t]
    /\ \A w \in sent' : Owed(w, t) => w \in sent

\* Who touches the row, the run or the late writes of a trigger.
LEMMA RowMoves ==
    ASSUME TypeInv, [Next]_vars, NEW t \in Triggers
    PROVE  \/ RowKept(t)
           \/ \E p \in Procs : Claim(p, t) \/ ClaimExhausted(p, t) \/ ClaimThrows(p, t)
           \/ \E w \in sent : w.of = t /\ LateWrite(w)
           \/ \E d \in Drives : d[1] = t /\ DriveStep(d)
<1> USE DEF TypeInv
<1>0. trig \in [Triggers -> TriggerRows] /\ snap \in [Triggers -> Snapshots]
  BY DEF TypeOK
<1>same. ASSUME UNCHANGED <<trig, snap, sent>> PROVE RowKept(t)
  BY <1>same DEF RowKept
<1>ins. ASSUME NEW u \in Triggers, NEW depth, trig' = Inserted(u, depth), UNCHANGED <<snap, sent>>
        PROVE  RowKept(t)
  BY <1>0, <1>ins DEF Inserted, RowKept
<1>1. ASSUME NEW c \in Calls, CallStep(c) PROVE RowKept(t)
  <2>1. ASSUME NEW p \in Procs, NEW u \in Triggers, EnqueuePersist(c, p, u) PROVE RowKept(t)
    BY <2>1, <1>ins DEF EnqueuePersist
  <2>2. ASSUME NEW p \in Procs, NEW u \in Triggers, EnqueueThrows(c, p, u) PROVE RowKept(t)
    <3>1. (trig' = trig \/ trig' = Inserted(u, 0)) /\ UNCHANGED <<snap, sent>>
      BY <2>2 DEF EnqueueThrows
    <3> QED
      BY <3>1, <1>ins, <1>same
  <2>3. CASE EnqueueRegister(c) \/ EnqueueReturn(c)
    BY <2>3, <1>same DEF EnqueueRegister, EnqueueReturn, db
  <2> QED
    BY <1>1, <2>1, <2>2, <2>3 DEF CallStep
<1>2. ASSUME NEW p \in Procs, TaskStep(p)
      PROVE  RowKept(t) \/ Claim(p, t) \/ ClaimExhausted(p, t) \/ ClaimThrows(p, t)
  <2>1. ASSUME NEW u \in Triggers, u # t, Claim(p, u) \/ ClaimExhausted(p, u) \/ ClaimThrows(p, u)
        PROVE  RowKept(t)
    <3>1. trig'[t] = trig[t] /\ snap' = snap
      BY <1>0, <2>1 DEF Claim, ClaimExhausted, ClaimThrows
    <3>2. \/ sent' = sent \/ sent' = sent \cup {RowWrite(u, "failed")}
          \/ sent' = sent \cup {GuardedWrite(u, IF task[p].kind = "resume" THEN "resume" ELSE "claim")}
      BY <2>1 DEF Claim, ClaimExhausted, ClaimThrows
    <3>3. \A w \in sent' : Owed(w, t) => w \in sent
      BY <2>1, <3>2 DEF Owed, RowWrite, GuardedWrite
    <3> QED
      BY <3>1, <3>3 DEF RowKept
  <2>2. ASSUME NEW u \in Triggers, ClaimDenied(p, u) PROVE RowKept(t)
    BY <2>2, <1>same DEF ClaimDenied, db
  <2>3. CASE \/ TaskStart(p) \/ TaskSession(p) \/ TaskSessionThrows(p)
             \/ ReconcileScan(p) \/ ReconcileScanThrows(p) \/ ResumeLook(p) \/ ResumeLookThrows(p)
             \/ Acquire(p) \/ AcquireThrows(p) \/ Release(p) \/ ReleaseThrows(p)
    BY <2>3, <1>same DEF TaskStart, TaskSession, TaskSessionThrows, ReconcileScan,
       ReconcileScanThrows, ResumeLook, ResumeLookThrows, Acquire, AcquireThrows, Release,
       ReleaseThrows, db
  <2>4. CASE \/ LoopEnds(p) \/ DriveReturns(p) \/ Sweep(p) \/ TaskTidy(p) \/ TaskFinally(p) \/ TaskEnd(p)
    BY <2>4, <1>same DEF LoopEnds, DriveReturns, Sweep, TaskTidy, TaskFinally, TaskEnd, db
  <2>5. CASE WindowAborted(p)
    <3>1. \A u : Unleased(u)[t].status = trig[t].status
      <4>1. trig[t] \in TriggerRows
        BY <1>0
      <4>2. [trig[t] EXCEPT !.lease = "none"].status = trig[t].status
        BY <4>1 DEF TriggerRows
      <4> QED
        BY <1>0, <4>2 DEF Unleased
    <3>2. trig' = trig \/ trig' = Unleased(task[p].of)
      BY <2>5 DEF WindowAborted
    <3>3. snap' = snap /\ (sent' = sent \/ sent' = sent \cup {GuardedWrite(task[p].of, "lease")})
      BY <2>5 DEF WindowAborted
    <3>4. \A w \in sent' : Owed(w, t) => w \in sent
      BY <3>3 DEF Owed, GuardedWrite
    <3> QED
      BY <3>1, <3>2, <3>3, <3>4 DEF RowKept
  <2> QED
    BY <1>2, <2>1, <2>2, <2>3, <2>4, <2>5 DEF TaskStep
<1>3. ASSUME NEW p \in Procs, LaneRequest(p) \/ Environment(p) PROVE RowKept(t)
  BY <1>3, <1>same DEF LaneRequest, ReconcileRequested, ResumeRequested, Requested, Environment,
     Watchdog, InvalidateSession, Crash, ProcessExits, Gone, StopBegin, StopAborts, StopEnds, Boot, db
<1>4. ASSUME NEW d \in Drives, d[1] # t, DriveStep(d) PROVE RowKept(t)
  <2>0. d[1] \in Triggers
    BY DEF Drives
  <2>1. CASE DriveLoad(d) \/ DriveMark(d) \/ DriveStart(d) \/ DriveCancel(d) \/ DriveSettle(d)
    <3>1. trig'[t] = trig[t] /\ snap'[t] = snap[t] /\ sent' = sent
      BY <1>0, <1>4, <2>1 DEF DriveLoad, DriveMark, DriveStart, DriveCancel, DriveSettle, SetStatus, db
    <3> QED
      BY <3>1 DEF RowKept
  <2>2. ASSUME NEW r \in {"success", "suspended", "failed"}, DriveEnd(d, r) PROVE RowKept(t)
    <3>1. trig' = trig /\ snap'[t] = snap[t] /\ sent' = sent
      BY <1>0, <1>4, <2>2 DEF DriveEnd
    <3> QED
      BY <3>1 DEF RowKept
  <2>3. CASE DriveThrows(d)
    <3>1. trig'[t] = trig[t] /\ snap' = snap
      BY <1>0, <1>4, <2>3 DEF DriveThrows, SetStatus
    <3>2. \A w \in Writing(d) : w.of = d[1]
      BY DEF Writing, RowWrite, RunWrite
    <3>3. sent' = sent \/ \E w \in Writing(d) : sent' = sent \cup {w}
      BY <2>3 DEF DriveThrows
    <3>4. \A w \in sent' : Owed(w, t) => w \in sent
      BY <1>4, <3>2, <3>3 DEF Owed
    <3> QED
      BY <3>1, <3>4 DEF RowKept
  <2>4. ASSUME NEW u \in Triggers, Cascade(d, u) \/ CascadeLost(d, u) PROVE RowKept(t)
    BY <2>4, <1>ins DEF Cascade, CascadeLost
  <2> QED
    BY <1>4, <2>1, <2>2, <2>3, <2>4 DEF DriveStep
<1>5. ASSUME NEW w \in sent, w.of # t, LateWrite(w) PROVE RowKept(t)
  <2>1. trig'[t] = trig[t] /\ snap'[t] = snap[t] /\ sent' \subseteq sent
    BY <1>0, <1>5 DEF LateWrite, Unleased
  <2> QED
    BY <2>1 DEF RowKept
<1>6. CASE Expiry
  <2>1. ASSUME NEW u \in Triggers, TriggerLeaseExpires(u) PROVE RowKept(t)
    <3>1. [trig[t] EXCEPT !.lease = "past"].status = trig[t].status
      BY <1>0 DEF TriggerRows
    <3>2. trig'[t] = trig[t] \/ trig'[t] = [trig[t] EXCEPT !.lease = "past"]
      BY <1>0, <2>1 DEF TriggerLeaseExpires
    <3> QED
      BY <2>1, <3>1, <3>2 DEF RowKept, TriggerLeaseExpires
  <2>2. CASE WindowLeaseExpires
    BY <2>2, <1>same DEF WindowLeaseExpires
  <2> QED
    BY <1>6, <2>1, <2>2 DEF Expiry
<1>7. CASE UNCHANGED vars
  BY <1>7, <1>same DEF vars
<1> QED
  BY <1>1, <1>2, <1>3, <1>4, <1>5, <1>6, <1>7 DEF Next

\* A task drives the run of a trigger.
LEMMA DrivenTrigger ==
    ASSUME TasksKnown, NEW p \in Procs, At(p, "drive")
    PROVE  Driven(p) \in Drives /\ Driven(p)[1] = task[p].of
  BY DEF TasksKnown, Driven, Drives

\* Who comes to drive t has claimed it.
LEMMA DriversStay ==
    ASSUME TypeInv, [Next]_vars, NEW t \in Triggers, ~\E p \in Procs : Claim(p, t),
           NEW p \in Procs, At(p, "drive")', task'[p].of = t
    PROVE  SamePlace(p)
<1>1. ASSUME NEW u \in Triggers, Claim(p, u) PROVE FALSE
  <2>1. u # t
    BY <1>1
  <2>2. task'[p].of = u
    <3>1. Driven(p)' = <<u, trig[u].attempts + 1>>
      BY <1>1, Claims
    <3> QED
      BY <3>1 DEF Driven
  <2> QED
    BY <2>1, <2>2
<1>2. ~Gone(p)
  BY DEF Gone, At, Idle, TypeInv, TypeOK
<1> QED
  BY <1>1, <1>2, TaskMoves, DriveBegins DEF At

\* What others do leaves a trigger's row and its run in step.
LEMMA SteadyKept ==
    ASSUME Typed, NEW t \in Triggers, Steady(t), RowKept(t),
           \A d \in Drives : d[1] = t => Trimmed(d),
           \A p \in Procs : At(p, "drive")' /\ task'[p].of = t => SamePlace(p)
    PROVE  Steady(t)' /\ FinalKept(t)
<1> USE DEF Typed
<1>1. \A d \in Drives : d[1] = t /\ Connected(d)' =>
          Connected(d) /\ drv'[d].pc = drv[d].pc /\ drv'[d].out = drv[d].out /\ (drv[d].cut => drv'[d].cut)
  BY DEF Trimmed, Connected, Active, NoDrive
<1>2. \A p \in Procs : At(p, "drive")' /\ task'[p].of = t =>
          At(p, "drive") /\ task[p].of = t /\ Driven(p)' = Driven(p)
  BY DEF SamePlace, At, Driven
<1>3. \A p \in Procs : Told(p, t)' => Told(p, t) /\ drv'[Driven(p)].out = drv[Driven(p)].out
                                      /\ Driven(p)' = Driven(p)
  <2> SUFFICES ASSUME NEW p \in Procs, Told(p, t)'
               PROVE  Told(p, t) /\ drv'[Driven(p)].out = drv[Driven(p)].out /\ Driven(p)' = Driven(p)
    OBVIOUS
  <2>1. At(p, "drive") /\ task[p].of = t /\ Driven(p)' = Driven(p)
    BY <1>2 DEF Told, At
  <2>2. Driven(p) \in Drives /\ Driven(p)[1] = t
    BY <2>1, DrivenTrigger
  <2>3. Trimmed(Driven(p))
    BY <2>2
  <2>4. drv'[Driven(p)].pc = "over" /\ drv'[Driven(p)].out \in {"completed", "waiting"}
    BY <2>1 DEF Told
  <2> QED
    BY <2>1, <2>3, <2>4 DEF Told, Trimmed, NoDrive
<1>4. HeldByDrive(t)'
  BY <1>1 DEF Steady, HeldByDrive, RowHeld, RowKept
<1>5. OneDrive(t)' /\ DrivenByTask(t)'
  <2>1. OneDrive(t)'
    BY <1>1 DEF Steady, OneDrive
  <2>2. DrivenByTask(t)'
    BY <1>1, <1>2 DEF Steady, DrivenByTask, At
  <2> QED
    BY <2>1, <2>2
<1>6. OutsTrue(t)'
  BY <1>1 DEF Steady, OutsTrue, OutTrue, RowKept
<1>7. WritesOwed(t)'
  <2> SUFFICES ASSUME NEW w \in sent', Owed(w, t)
               PROVE  /\ RowHeld(t)'
                      /\ w.what = "row" => OutTrue(t, w.value)'
                      /\ \A d \in Drives : d[1] = t => ~Connected(d)'
                      /\ \A v \in sent' : Owed(v, t) => v = w
                      /\ \A p \in Procs : ~Told(p, t)'
    BY DEF WritesOwed, Owed
  <2>1. w \in sent
    BY DEF RowKept
  <2>2. RowHeld(t)' /\ (w.what = "row" => OutTrue(t, w.value)')
    BY <2>1 DEF Steady, WritesOwed, RowHeld, OutTrue, RowKept
  <2>3. \A d \in Drives : d[1] = t => ~Connected(d)'
    BY <1>1, <2>1 DEF Steady, WritesOwed
  <2>4. \A v \in sent' : Owed(v, t) => v = w
    BY <2>1 DEF Steady, WritesOwed, RowKept
  <2>5. \A p \in Procs : ~Told(p, t)'
    BY <1>3, <2>1 DEF Steady, WritesOwed
  <2> QED
    BY <2>2, <2>3, <2>4, <2>5
<1>8. ToldTrue(t)'
  BY <1>3 DEF Steady, ToldTrue, RowKept, Told
<1>9. OutTrue(t, trig[t].status)' /\ FinalKept(t)
  BY DEF Steady, OutTrue, RowKept, FinalKept, Final
<1> QED
  BY <1>4, <1>5, <1>6, <1>7, <1>8, <1>9 DEF Steady

\* Nobody is at t: no task, no drive, no write.
Deserted(t) ==
    /\ \A p \in Procs : ~(At(p, "drive") /\ task[p].of = t)
    /\ \A d \in Drives : d[1] = t => ~Connected(d)
    /\ \A w \in sent : ~Owed(w, t)

LEMMA NotContested ==
    ASSUME NEW t \in Triggers, t \notin strays', Straying(t)
    PROVE  Deserted(t)
<1>1. ~Contested(t)
  BY DEF Straying
<1> QED
  BY <1>1 DEF Contested, Deserted, Owed

\* A claim by which nobody drives t yet: it waits for its lease to run out, or fails for good.
LEMMA SteadyTaken ==
    ASSUME Typed, NEW t \in Triggers, Deserted(t), trig[t].status \notin Final, snap'[t] = snap[t],
           trig'[t].status \in {"leased", "failed"},
           \A w \in sent' : Owed(w, t) => w = RowWrite(t, "failed") /\ trig'[t].status = "leased",
           \A d \in Drives : d[1] = t => Trimmed(d),
           \A p \in Procs : At(p, "drive")' /\ task'[p].of = t => SamePlace(p)
    PROVE  Steady(t)' /\ FinalKept(t)
<1>1. \A d \in Drives : d[1] = t => ~Connected(d)'
  BY DEF Deserted, Trimmed, Connected, Active, NoDrive
<1>2. \A p \in Procs : ~(At(p, "drive")' /\ task'[p].of = t)
  BY DEF Deserted, SamePlace, At
<1>3. \A p \in Procs : ~Told(p, t)'
  BY <1>2 DEF Told
<1>4. HeldByDrive(t)' /\ OneDrive(t)' /\ DrivenByTask(t)' /\ OutsTrue(t)'
  BY <1>1 DEF HeldByDrive, OneDrive, DrivenByTask, OutsTrue
<1>5. WritesOwed(t)'
  <2>1. RowWrite(t, "failed").value = "failed"
    BY DEF RowWrite
  <2> QED
    BY <1>1, <1>3, <2>1 DEF WritesOwed, RowHeld, OutTrue, Owed
<1>6. ToldTrue(t)' /\ OutTrue(t, trig[t].status)' /\ FinalKept(t)
  BY <1>3 DEF ToldTrue, OutTrue, FinalKept
<1> QED
  BY <1>4, <1>5, <1>6 DEF Steady

\* A claim that takes t from nobody.
LEMMA SteadyClaim ==
    ASSUME Typed, [Next]_vars, NEW t \in Triggers, t \notin strays', Steady(t),
           NEW p \in Procs, Claim(p, t)
    PROVE  Steady(t)' /\ FinalKept(t)
<1> USE DEF Typed
<1> DEFINE d == <<t, trig[t].attempts + 1>>
<1>1. Deserted(t)
  BY NotContested DEF Claim
<1>2. /\ d \in Drives
      /\ task'[p].pc = "drive" /\ Driven(p)' = d
      /\ \A q \in Procs : q # p => task'[q] = task[q]
      /\ drv'[d].pc = "load"
      /\ \A e \in Drives : e # d => drv'[e] = drv[e]
      /\ trig'[t] = Leased(trig[t]) /\ trig[t] \in TriggerRows /\ Granted(p, t)
  BY Claims
<1> HIDE DEF d
<1>3. trig'[t].status = "leased" /\ trig[t].status \notin Final
  BY <1>2 DEF Leased, TriggerRows, Granted, Claimable, Final
<1>4. \A e \in Drives : e[1] = t /\ Connected(e)' => e = d
  BY <1>1, <1>2 DEF Deserted, Connected, Active
<1>5. \A q \in Procs : At(q, "drive")' /\ task'[q].of = t => q = p
  BY <1>1, <1>2 DEF Deserted, At
<1>6. \A q \in Procs : ~Told(q, t)'
  BY <1>2, <1>5 DEF Told
<1>7. HeldByDrive(t)' /\ OneDrive(t)' /\ DrivenByTask(t)'
  BY <1>2, <1>3, <1>4, <1>5 DEF HeldByDrive, OneDrive, DrivenByTask, RowHeld
<1>8. OutsTrue(t)'
  BY <1>2, <1>4 DEF OutsTrue
<1>9. \A w \in sent' : ~Owed(w, t)
  BY <1>1 DEF Claim, Deserted
<1>10. WritesOwed(t)' /\ ToldTrue(t)'
  BY <1>6, <1>9 DEF WritesOwed, ToldTrue, Owed
<1>11. OutTrue(t, trig[t].status)' /\ FinalKept(t)
  BY <1>3 DEF OutTrue, FinalKept
<1> QED
  BY <1>7, <1>8, <1>10, <1>11 DEF Steady

\* A claim too many, and a claim whose answer is lost.
LEMMA SteadyLost ==
    ASSUME Typed, [Next]_vars, NEW t \in Triggers, t \notin strays', Steady(t),
           NEW p \in Procs, ClaimExhausted(p, t) \/ ClaimThrows(p, t),
           \A d \in Drives : d[1] = t => Trimmed(d),
           \A q \in Procs : At(q, "drive")' /\ task'[q].of = t => SamePlace(q)
    PROVE  Steady(t)' /\ FinalKept(t)
<1> USE DEF Typed
<1>0. trig \in [Triggers -> TriggerRows] /\ trig[t] \in TriggerRows
  BY DEF TypeInv, TypeOK
<1>1. /\ Leased(trig[t]).status = "leased"
      /\ [Leased(trig[t]) EXCEPT !.status = "failed"].status = "failed"
  <2>1. \A n : [trig[t] EXCEPT !.status = "leased", !.lease = "live", !.attempts = n].status = "leased"
    BY <1>0 DEF TriggerRows
  <2>2. trig[t].attempts + 1 \in Nat
    BY <1>0 DEF TriggerRows
  <2>3. Leased(trig[t]) \in TriggerRows
    BY <1>0, <2>2 DEF Leased, TriggerRows, Statuses, Leases
  <2>4. [Leased(trig[t]) EXCEPT !.status = "failed"].status = "failed"
    BY <2>3 DEF TriggerRows
  <2> QED
    BY <2>1, <2>4 DEF Leased
<1>2. Granted(p, t) => trig[t].status \notin Final
  BY DEF Granted, Claimable, Final
<1>3. CASE ClaimExhausted(p, t)
  <2>1. Deserted(t) /\ trig[t].status \notin Final
    BY <1>2, <1>3, NotContested DEF ClaimExhausted
  <2>2. snap' = snap
    BY <1>3 DEF ClaimExhausted
  <2>3. \/ trig'[t].status = "failed" /\ sent' = sent
        \/ trig'[t].status = "leased" /\ (sent' = sent \/ sent' = sent \cup {RowWrite(t, "failed")})
    BY <1>0, <1>1, <1>3 DEF ClaimExhausted
  <2>4. \A w \in sent' : Owed(w, t) => w = RowWrite(t, "failed") /\ trig'[t].status = "leased"
    BY <2>1, <2>3 DEF Deserted
  <2> QED
    BY <2>1, <2>2, <2>3, <2>4, SteadyTaken
<1>4. CASE ClaimThrows(p, t)
  <2>1. CASE Granted(p, t) /\ trig' = [trig EXCEPT ![t] = Leased(@)] /\ Straying(t) /\ sent' = sent
    <3>1. Deserted(t) /\ trig[t].status \notin Final
      BY <1>2, <2>1, NotContested
    <3>2. snap' = snap /\ trig'[t].status = "leased"
      BY <1>0, <1>1, <1>4, <2>1 DEF ClaimThrows
    <3>3. \A w \in sent' : Owed(w, t) => w = RowWrite(t, "failed") /\ trig'[t].status = "leased"
      BY <2>1, <3>1 DEF Deserted
    <3> QED
      BY <3>1, <3>2, <3>3, SteadyTaken
  <2>2. CASE trig' = trig
    <3>1. \/ sent' = sent
          \/ sent' = sent \cup {GuardedWrite(t, IF task[p].kind = "resume" THEN "resume" ELSE "claim")}
      BY <1>4 DEF ClaimThrows
    <3>2. \A w \in sent' : Owed(w, t) => w \in sent
      BY <3>1 DEF Owed, GuardedWrite
    <3>3. snap' = snap
      BY <1>4 DEF ClaimThrows
    <3>4. RowKept(t)
      BY <2>2, <3>2, <3>3 DEF RowKept
    <3> QED
      BY <3>4, SteadyKept
  <2> QED
    BY <1>4, <2>1, <2>2 DEF ClaimThrows
<1> QED
  BY <1>3, <1>4

\* A late write finds what it was given up for.
LEMMA SteadyLate ==
    ASSUME Typed, [Next]_vars, NEW t \in Triggers, t \notin strays', Steady(t),
           NEW w \in sent, w.of = t, LateWrite(w)
    PROVE  Steady(t)' /\ FinalKept(t)
<1> USE DEF Typed
<1>0. trig \in [Triggers -> TriggerRows] /\ trig[t] \in TriggerRows /\ snap \in [Triggers -> Snapshots]
  BY DEF TypeInv, TypeOK
<1>1. UNCHANGED <<task, drv>> /\ sent' = sent \ {w}
  BY DEF LateWrite
<1>2. \A d \in Drives : (Connected(d)' <=> Connected(d)) /\ drv'[d] = drv[d]
  BY <1>1 DEF Connected, Active
<1>3. \A p \in Procs : /\ At(p, "drive")' <=> At(p, "drive")
                       /\ Driven(p)' = Driven(p) /\ task'[p].of = task[p].of
                       /\ Told(p, t)' <=> Told(p, t)
  BY <1>1 DEF At, Driven, Told
<1>4. CASE Owed(w, t)
  <2>1. /\ RowHeld(t) /\ (w.what = "row" => OutTrue(t, w.value))
        /\ \A d \in Drives : d[1] = t => ~Connected(d)
        /\ \A p \in Procs : ~Told(p, t)
        /\ \A v \in sent' : ~Owed(v, t)
    BY <1>1, <1>4 DEF Steady, WritesOwed
  <2>2. HeldByDrive(t)' /\ OneDrive(t)' /\ DrivenByTask(t)' /\ OutsTrue(t)'
    BY <1>2, <2>1 DEF HeldByDrive, OneDrive, DrivenByTask, OutsTrue
  <2>3. WritesOwed(t)' /\ ToldTrue(t)'
    BY <1>3, <2>1 DEF WritesOwed, ToldTrue, Owed
  <2>4. OutTrue(t, trig[t].status)'
    <3>1. CASE w.what = "row"
      <4>1. [trig[t] EXCEPT !.status = w.value].status = w.value
        BY <1>0 DEF TriggerRows
      <4>2. trig'[t].status = w.value /\ snap' = snap
        BY <1>0, <3>1, <4>1 DEF LateWrite
      <4> QED
        BY <2>1, <3>1, <4>2 DEF OutTrue
    <3>2. CASE w.what = "run"
      BY <2>1, <3>2 DEF LateWrite, OutTrue, RowHeld
    <3> QED
      BY <1>4, <3>1, <3>2 DEF Owed
  <2>5. FinalKept(t)
    BY <2>1 DEF FinalKept, RowHeld, Final
  <2> QED
    BY <2>2, <2>3, <2>4, <2>5 DEF Steady
<1>5. CASE ~Owed(w, t)
  <2>1. \A d \in Drives : d[1] = t => Trimmed(d)
    BY <1>1 DEF Trimmed
  <2>2. \A p \in Procs : At(p, "drive")' /\ task'[p].of = t => SamePlace(p)
    BY <1>1 DEF SamePlace
  <2>3. snap' = snap /\ \A v \in sent' : v \in sent
    BY <1>1, <1>5 DEF LateWrite, Owed
  <2>4. CASE trig' = trig \/ trig' = Unleased(t)
    <3>1. trig'[t].status = trig[t].status
      BY <1>0, <2>4 DEF Unleased, TriggerRows
    <3>2. RowKept(t)
      BY <2>3, <3>1 DEF RowKept
    <3> QED
      BY <2>1, <2>2, <3>2, SteadyKept
  <2>5. CASE /\ trig' = [trig EXCEPT ![t] = Leased(@)] /\ Straying(t)
             /\ Claimable(t) \/ trig[t].status = "waiting"
    <3>1. Deserted(t) /\ trig[t].status \notin Final
      BY <2>5, NotContested DEF Claimable, Final
    <3>2. trig'[t].status = "leased"
      BY <1>0, <2>5 DEF Leased, TriggerRows
    <3>3. \A v \in sent' : Owed(v, t) => v = RowWrite(t, "failed") /\ trig'[t].status = "leased"
      BY <2>3, <3>1 DEF Deserted
    <3> QED
      BY <2>1, <2>2, <2>3, <3>1, <3>2, <3>3, SteadyTaken
  <2> QED
    BY <1>5, <2>4, <2>5 DEF LateWrite, Owed
<1> QED
  BY <1>4, <1>5

\* What an outcome of a run says about its snapshot.
LEMMA OutcomesTrue ==
    ASSUME NEW r \in {"success", "suspended", "failed", "canceled"}
    PROVE  /\ OutcomeOf[r] \in {"completed", "waiting", "failed"}
           /\ (OutcomeOf[r] = "completed" => r = "success")
           /\ (OutcomeOf[r] = "waiting" => r = "suspended")
  BY DEF OutcomeOf

\* A drive that can write is alone with its trigger.
LEMMA Alone ==
    ASSUME Typed, NEW t \in Triggers, Steady(t), NEW d \in Drives, d[1] = t, Connected(d)
    PROVE  /\ RowHeld(t)
           /\ \A e \in Drives : e[1] = t /\ Connected(e) => e = d
           /\ \A p \in Procs : At(p, "drive") /\ task[p].of = t => Driven(p) = d
           /\ \A w \in sent : ~Owed(w, t)
<1>1. RowHeld(t)
  BY DEF Steady, HeldByDrive
<1>2. \A e \in Drives : e[1] = t /\ Connected(e) => e = d
  BY DEF Steady, OneDrive
<1>3. \A p \in Procs : At(p, "drive") /\ task[p].of = t => Driven(p) = d
  BY DEF Steady, DrivenByTask
<1>4. \A w \in sent : ~Owed(w, t)
  BY DEF Steady, WritesOwed
<1> QED
  BY <1>1, <1>2, <1>3, <1>4

\* A drive that goes on: it alone is connected, nobody has been told anything.
LEMMA SteadyOn ==
    ASSUME Typed, NEW t \in Triggers, Steady(t), NEW d \in Drives, d[1] = t, Connected(d),
           task' = task, \A e \in Drives : e # d => drv'[e] = drv[e], sent' = sent,
           drv'[d].pc # "over", RowHeld(t)',
           drv'[d].pc = "settle" => OutTrue(t, drv[d].out)',
           drv'[d].pc = "exec" /\ ~drv'[d].cut => snap'[t] # "canceled"
    PROVE  Steady(t)' /\ FinalKept(t)
<1>1. /\ RowHeld(t)
      /\ \A e \in Drives : e[1] = t /\ Connected(e)' => e = d
      /\ \A p \in Procs : At(p, "drive")' /\ task'[p].of = t => Driven(p)' = d
      /\ \A w \in sent' : ~Owed(w, t)
  BY Alone DEF Connected, Active, At, Driven
<1>2. \A p \in Procs : ~Told(p, t)'
  BY <1>1 DEF Told
<1>3. HeldByDrive(t)' /\ OneDrive(t)' /\ DrivenByTask(t)'
  BY <1>1 DEF HeldByDrive, OneDrive, DrivenByTask
<1>4. OutsTrue(t)'
  BY <1>1 DEF OutsTrue, OutTrue
<1>5. WritesOwed(t)' /\ ToldTrue(t)'
  BY <1>1, <1>2 DEF WritesOwed, ToldTrue, Owed
<1>6. OutTrue(t, trig[t].status)' /\ FinalKept(t)
  BY <1>1 DEF OutTrue, FinalKept, RowHeld, Final
<1> QED
  BY <1>3, <1>4, <1>5, <1>6 DEF Steady

\* A drive that ends with its connection: what it tells its task, the row says.
LEMMA SteadyOver ==
    ASSUME Typed, NEW t \in Triggers, Steady(t), NEW d \in Drives, d[1] = t, Connected(d),
           task' = task, \A e \in Drives : e # d => drv'[e] = drv[e], sent' = sent,
           drv'[d].pc = "over",
           drv'[d].out \in {"completed", "waiting"} => trig'[t].status = drv'[d].out,
           OutTrue(t, trig[t].status)'
    PROVE  Steady(t)' /\ FinalKept(t)
<1>1. /\ RowHeld(t)
      /\ \A e \in Drives : e[1] = t => ~Connected(e)'
      /\ \A p \in Procs : At(p, "drive")' /\ task'[p].of = t => Driven(p)' = d
      /\ \A w \in sent' : ~Owed(w, t)
  BY Alone DEF Connected, Active, At, Driven
<1>2. HeldByDrive(t)' /\ OneDrive(t)' /\ DrivenByTask(t)' /\ OutsTrue(t)'
  BY <1>1 DEF HeldByDrive, OneDrive, DrivenByTask, OutsTrue
<1>3. WritesOwed(t)'
  BY <1>1 DEF WritesOwed, Owed
<1>4. ToldTrue(t)'
  BY <1>1 DEF ToldTrue, Told
<1>5. FinalKept(t)
  BY <1>1 DEF FinalKept, RowHeld, Final
<1> QED
  BY <1>2, <1>3, <1>4, <1>5 DEF Steady

\* A drive that fails leaves at most one write behind.
LEMMA SteadyFails ==
    ASSUME Typed, NEW t \in Triggers, Steady(t), NEW d \in Drives, d[1] = t,
           task' = task, \A e \in Drives : e # d => drv'[e] = drv[e], Active(d),
           drv'[d].pc = "over", drv'[d].out \notin {"completed", "waiting"},
           UNCHANGED <<trig, snap>>,
           \/ sent' = sent
           \/ Connected(d) /\ \E w : /\ sent' = sent \cup {w} /\ w.of = t
                                     /\ w.what = "row" => OutTrue(t, w.value)
    PROVE  Steady(t)' /\ FinalKept(t)
<1> USE DEF Typed
<1>1. \A e \in Drives : e[1] = t /\ Connected(e)' => Connected(e) /\ drv'[e] = drv[e] /\ e # d
  BY DEF Connected, Active
<1>2. \A p \in Procs : At(p, "drive")' <=> At(p, "drive")
  BY DEF At
<1>3. \A p \in Procs : Driven(p)' = Driven(p) /\ task'[p].of = task[p].of
  BY DEF Driven
<1>4. \A p \in Procs : Told(p, t)' => Told(p, t) /\ Driven(p) # d /\ drv'[Driven(p)] = drv[Driven(p)]
  <2> SUFFICES ASSUME NEW p \in Procs, Told(p, t)'
               PROVE  Told(p, t) /\ Driven(p) # d /\ drv'[Driven(p)] = drv[Driven(p)]
    OBVIOUS
  <2>1. At(p, "drive") /\ task[p].of = t
    BY <1>2, <1>3 DEF Told
  <2>2. Driven(p) \in Drives
    BY <2>1, DrivenTrigger
  <2>3. Driven(p) # d
    BY <1>3 DEF Told
  <2>4. drv'[Driven(p)] = drv[Driven(p)]
    BY <2>2, <2>3
  <2> QED
    BY <1>3, <2>1, <2>3, <2>4 DEF Told
<1>5. HeldByDrive(t)' /\ OneDrive(t)'
  BY <1>1 DEF Steady, HeldByDrive, OneDrive, RowHeld
<1>6. DrivenByTask(t)' /\ OutsTrue(t)'
  BY <1>1, <1>2, <1>3 DEF Steady, DrivenByTask, OutsTrue, OutTrue
<1>7. ToldTrue(t)' /\ OutTrue(t, trig[t].status)' /\ FinalKept(t)
  BY <1>3, <1>4 DEF Steady, ToldTrue, OutTrue, FinalKept
<1>8. WritesOwed(t)'
  <2>1. CASE sent' = sent
    <3> SUFFICES ASSUME NEW w \in sent, Owed(w, t)
                 PROVE  /\ RowHeld(t)'
                        /\ w.what = "row" => OutTrue(t, w.value)'
                        /\ \A e \in Drives : e[1] = t => ~Connected(e)'
                        /\ \A v \in sent : Owed(v, t) => v = w
                        /\ \A p \in Procs : ~Told(p, t)'
      BY <2>1 DEF WritesOwed, Owed
    <3>1. RowHeld(t) /\ (w.what = "row" => OutTrue(t, w.value))
      BY DEF Steady, WritesOwed
    <3>2. \A e \in Drives : e[1] = t => ~Connected(e)'
      BY <1>1 DEF Steady, WritesOwed
    <3>3. \A v \in sent : Owed(v, t) => v = w
      BY DEF Steady, WritesOwed
    <3>4. \A p \in Procs : ~Told(p, t)'
      BY <1>4 DEF Steady, WritesOwed
    <3> QED
      BY <3>1, <3>2, <3>3, <3>4 DEF RowHeld, OutTrue
  <2>2. ASSUME NEW w, sent' = sent \cup {w}, w.of = t, w.what = "row" => OutTrue(t, w.value),
               Connected(d)
        PROVE  WritesOwed(t)'
    <3>1. /\ RowHeld(t)
          /\ \A e \in Drives : e[1] = t /\ Connected(e) => e = d
          /\ \A p \in Procs : At(p, "drive") /\ task[p].of = t => Driven(p) = d
          /\ \A v \in sent : ~Owed(v, t)
      BY <2>2, Alone
    <3>2. \A e \in Drives : e[1] = t => ~Connected(e)'
      BY <1>1, <3>1
    <3>3. \A p \in Procs : ~Told(p, t)'
      BY <1>4, <3>1 DEF Told
    <3>4. \A v \in sent' : Owed(v, t) => v = w
      BY <2>2, <3>1
    <3>5. RowHeld(t)' /\ (w.what = "row" => OutTrue(t, w.value)')
      BY <2>2, <3>1 DEF RowHeld, OutTrue
    <3> QED
      BY <3>2, <3>3, <3>4, <3>5 DEF WritesOwed, Owed
  <2> QED
    BY <2>1, <2>2
<1> QED
  BY <1>5, <1>6, <1>7, <1>8 DEF Steady

\* What a drive does to its own trigger.
LEMMA SteadyDrive ==
    ASSUME Typed, [Next]_vars, NEW t \in Triggers, Steady(t),
           NEW d \in Drives, d[1] = t, DriveStep(d)
    PROVE  Steady(t)' /\ FinalKept(t)
<1> USE DEF Typed
<1>0. /\ trig \in [Triggers -> TriggerRows] /\ trig[t] \in TriggerRows
      /\ snap \in [Triggers -> Snapshots] /\ drv[d] \in DriveStates /\ drv \in [Drives -> DriveStates]
  BY DEF TypeInv, TypeOK
<1>go. Active(d) /\ task' = task /\ \A e \in Drives : e # d => drv'[e] = drv[e]
  BY DriveGoesOn
<1>over. \A out : Over(out).pc = "over" /\ Over(out).out = out
  BY DEF Over, NoDrive
<1>pc. \A pc, out : /\ [drv[d] EXCEPT !.pc = pc].pc = pc
                    /\ [drv[d] EXCEPT !.pc = pc].cut = drv[d].cut
                    /\ [drv[d] EXCEPT !.pc = "settle", !.out = out].pc = "settle"
                    /\ [drv[d] EXCEPT !.pc = "settle", !.out = out].out = out
  BY <1>0 DEF DriveStates
<1>status. \A s : [trig[t] EXCEPT !.status = s].status = s
  BY <1>0 DEF TriggerRows
<1>1. CASE DriveLoad(d)
  <2>1. Connected(d) /\ UNCHANGED <<trig, snap, sent>>
    BY <1>1, <1>go DEF DriveLoad, Connected, db
  <2>2. RowHeld(t)'
    BY <2>1, Alone DEF RowHeld
  <2>3. \/ drv'[d] = [drv[d] EXCEPT !.pc = "mark"]
        \/ drv'[d] = [drv[d] EXCEPT !.pc = "settle", !.out = "failed"]
        \/ drv'[d] = Over("refused")
        \/ /\ drv'[d] = [drv[d] EXCEPT !.pc = "settle", !.out = OutcomeOf[snap[t]]]
           /\ snap[t] \in {"success", "suspended", "failed", "canceled"}
    <3>1. snap[t] \in Snapshots
      BY <1>0
    <3> QED
      BY <1>0, <1>1, <3>1 DEF DriveLoad, Snapshots
  <2>4. CASE drv'[d] = [drv[d] EXCEPT !.pc = "mark"]
    <3>1. drv'[d].pc = "mark"
      BY <1>pc, <2>4
    <3> QED
      BY <1>go, <2>1, <2>2, <3>1, SteadyOn
  <2>5. CASE drv'[d] = [drv[d] EXCEPT !.pc = "settle", !.out = "failed"]
    <3>1. drv'[d].pc = "settle" /\ drv'[d].out = "failed"
      BY <1>pc, <2>5
    <3>2. OutTrue(t, drv[d].out)'
      BY <3>1 DEF OutTrue
    <3> QED
      BY <1>go, <2>1, <2>2, <3>1, <3>2, SteadyOn
  <2>6. CASE drv'[d] = Over("refused")
    <3>1. drv'[d].pc = "over" /\ drv'[d].out \notin {"completed", "waiting"}
      BY <1>over, <2>6
    <3> QED
      BY <1>go, <2>1, <3>1, SteadyFails
  <2>7. CASE /\ drv'[d] = [drv[d] EXCEPT !.pc = "settle", !.out = OutcomeOf[snap[t]]]
             /\ snap[t] \in {"success", "suspended", "failed", "canceled"}
    <3>1. drv'[d].pc = "settle" /\ drv'[d].out = OutcomeOf[snap[t]]
      BY <1>pc, <2>7
    <3>2. OutTrue(t, drv[d].out)'
      BY <2>1, <2>7, <3>1, OutcomesTrue DEF OutTrue
    <3> QED
      BY <1>go, <2>1, <2>2, <3>1, <3>2, SteadyOn
  <2> QED
    BY <2>3, <2>4, <2>5, <2>6, <2>7
<1>2. CASE DriveMark(d)
  <2>1. Connected(d) /\ UNCHANGED <<snap, sent>>
    BY <1>2, <1>go DEF DriveMark, Connected
  <2>2. trig'[t].status = "running"
    BY <1>0, <1>2, <1>status DEF DriveMark, SetStatus
  <2>3. drv'[d].pc = "start"
    BY <1>0, <1>2, <1>pc DEF DriveMark
  <2> QED
    BY <1>go, <2>1, <2>2, <2>3, SteadyOn DEF RowHeld
<1>3. CASE DriveStart(d)
  <2>1. trig' = trig /\ sent' = sent
    BY <1>3 DEF DriveStart
  <2>2. CASE drv[d].cut
    <3>1. drv'[d] = Over("aborted") /\ snap' = snap
      BY <1>0, <1>3, <2>2 DEF DriveStart
    <3>2. drv'[d].pc = "over" /\ drv'[d].out \notin {"completed", "waiting"}
      BY <1>over, <3>1
    <3> QED
      BY <1>go, <2>1, <3>1, <3>2, SteadyFails
  <2>3. CASE ~drv[d].cut
    <3>1. Connected(d) /\ drv'[d].pc = "exec" /\ snap'[t] = "running"
      BY <1>0, <1>3, <1>go, <1>pc, <2>3 DEF DriveStart, Connected
    <3>2. RowHeld(t)'
      BY <2>1, <3>1, Alone DEF RowHeld
    <3> QED
      BY <1>go, <2>1, <3>1, <3>2, SteadyOn
  <2> QED
    BY <2>2, <2>3
<1>4. CASE DriveCancel(d)
  <2>1. Connected(d) /\ UNCHANGED <<trig, sent, drv>> /\ drv[d].pc = "exec" /\ drv[d].cut
    BY <1>4, <1>go DEF DriveCancel, Connected
  <2>2. RowHeld(t)'
    BY <2>1, Alone DEF RowHeld
  <2>3. drv'[d].pc = "exec" /\ drv'[d].cut
    BY <2>1
  <2> QED
    BY <1>go, <2>1, <2>2, <2>3, SteadyOn
<1>5. ASSUME NEW r \in {"success", "suspended", "failed"}, DriveEnd(d, r)
      PROVE  Steady(t)' /\ FinalKept(t)
  <2>1. Connected(d) /\ UNCHANGED <<trig, sent>> /\ drv[d].pc = "exec"
    BY <1>5, <1>go DEF DriveEnd, Connected
  <2>2. RowHeld(t) /\ RowHeld(t)'
    BY <2>1, Alone DEF RowHeld
  <2>3. snap'[t] = IF snap[t] = "canceled" /\ r # "success" THEN snap[t] ELSE r
    BY <1>0, <1>5 DEF DriveEnd
  <2>4. CASE drv'[d] = Over("aborted")
    <3>1. drv'[d].pc = "over" /\ drv'[d].out = "aborted"
      BY <1>over, <2>4
    <3>2. OutTrue(t, trig[t].status)'
      BY <2>2 DEF RowHeld, OutTrue
    <3> QED
      BY <1>go, <2>1, <3>1, <3>2, SteadyOver
  <2>5. CASE /\ drv'[d] = [drv[d] EXCEPT !.pc = "settle", !.out = OutcomeOf[r]]
             /\ ~drv[d].cut \/ r = "success"
    <3>1. drv'[d].pc = "settle" /\ drv'[d].out = OutcomeOf[r]
      BY <1>pc, <2>5
    <3>2. snap'[t] = r
      BY <2>1, <2>3, <2>5 DEF Steady, OutsTrue
    <3>3. OutTrue(t, drv[d].out)'
      BY <3>1, <3>2, OutcomesTrue DEF OutTrue
    <3> QED
      BY <1>go, <2>1, <2>2, <3>1, <3>3, SteadyOn
  <2> QED
    BY <1>0, <1>5, <2>4, <2>5 DEF DriveEnd
<1>6. CASE DriveSettle(d)
  <2>1. Connected(d) /\ UNCHANGED <<snap, sent>> /\ drv[d].pc = "settle"
    BY <1>6, <1>go DEF DriveSettle, Connected
  <2>2. trig'[t].status = drv[d].out
    BY <1>0, <1>6, <1>status DEF DriveSettle, SetStatus
  <2>3. drv'[d].pc = "over" /\ drv'[d].out = drv[d].out
    BY <1>0, <1>6, <1>over DEF DriveSettle
  <2>4. OutTrue(t, trig[t].status)'
    BY <2>1, <2>2 DEF Steady, OutsTrue, OutTrue
  <2> QED
    BY <1>go, <2>1, <2>2, <2>3, <2>4, SteadyOver
<1>7. CASE DriveThrows(d)
  <2>1. snap' = snap /\ drv'[d].pc = "over" /\ drv'[d].out = "threw"
    BY <1>0, <1>7, <1>over DEF DriveThrows
  <2>2. CASE UNCHANGED <<trig, sent>>
    BY <1>go, <2>1, <2>2, SteadyFails
  <2>3. CASE drv[d].conn /\ drv[d].pc = "mark" /\ SetStatus(d, "running") /\ sent' = sent
    <3>1. Connected(d) /\ trig'[t].status = "running"
      BY <1>0, <1>go, <1>status, <2>3 DEF Connected, SetStatus
    <3>2. OutTrue(t, trig[t].status)'
      BY <3>1 DEF OutTrue
    <3> QED
      BY <1>go, <2>1, <2>3, <3>1, <3>2, SteadyOver
  <2>4. CASE drv[d].conn /\ drv[d].pc = "settle" /\ SetStatus(d, drv[d].out) /\ sent' = sent
    <3>1. Connected(d) /\ trig'[t].status = drv[d].out
      BY <1>0, <1>go, <1>status, <2>4 DEF Connected, SetStatus
    <3>2. OutTrue(t, trig[t].status)'
      BY <2>1, <2>4, <3>1 DEF Steady, OutsTrue, OutTrue
    <3> QED
      BY <1>go, <2>1, <2>4, <3>1, <3>2, SteadyOver
  <2>5. ASSUME drv[d].conn, NEW w \in Writing(d), sent' = sent \cup {w}, trig' = trig
        PROVE  Steady(t)' /\ FinalKept(t)
    <3>1. Connected(d)
      BY <1>go, <2>5 DEF Connected
    <3>2. \A s : OutTrue(t, s) => /\ RowWrite(t, s).of = t
                                  /\ OutTrue(t, RowWrite(t, s).value)
      BY DEF RowWrite
    <3>3. w.of = t /\ (w.what = "row" => OutTrue(t, w.value))
      <4>1. CASE drv[d].pc = "mark" /\ w = RowWrite(t, "running")
        BY <4>1 DEF RowWrite, OutTrue
      <4>2. CASE drv[d].pc = "settle" /\ w = RowWrite(t, drv[d].out)
        BY <3>1, <3>2, <4>2 DEF Steady, OutsTrue
      <4>3. CASE w.what = "run" /\ w.of = t
        BY <4>3
      <4> QED
        BY <4>1, <4>2, <4>3 DEF Writing, RunWrite
    <3> QED
      BY <1>go, <2>1, <2>5, <3>1, <3>3, SteadyFails
  <2> QED
    BY <1>7, <2>2, <2>3, <2>4, <2>5 DEF DriveThrows
<1>8. ASSUME NEW u \in Triggers, Cascade(d, u) \/ CascadeLost(d, u) PROVE Steady(t)' /\ FinalKept(t)
  <2>1. UNCHANGED <<snap, sent, drv, task>> /\ trig' = Inserted(u, trig[d[1]].depth + 1)
    BY <1>8 DEF Cascade, CascadeLost
  <2>2. RowKept(t)
    BY <1>0, <2>1 DEF Inserted, RowKept
  <2>3. /\ \A e \in Drives : e[1] = t => Trimmed(e)
        /\ \A p \in Procs : At(p, "drive")' /\ task'[p].of = t => SamePlace(p)
    BY <2>1 DEF Trimmed, SamePlace
  <2> QED
    BY <2>2, <2>3, SteadyKept
<1> QED
  BY <1>1, <1>2, <1>3, <1>4, <1>5, <1>6, <1>7, <1>8 DEF DriveStep

\* Whatever happens, a trigger that nobody has been robbed of stays in step with its run, and what is
\* final stays.
LEMMA SteadyNext ==
    ASSUME Typed, [Next]_vars, NEW t \in Triggers, t \notin strays', Steady(t)
    PROVE  Steady(t)' /\ FinalKept(t)
<1> USE DEF Typed
<1>1. CASE \E p \in Procs : Claim(p, t)
  BY <1>1, SteadyClaim
<1>2. CASE \E d \in Drives : d[1] = t /\ DriveStep(d)
  BY <1>2, SteadyDrive
<1>3. CASE \E w \in sent : w.of = t /\ LateWrite(w)
  BY <1>3, SteadyLate
<1>4. CASE /\ ~\E p \in Procs : Claim(p, t)
           /\ ~\E d \in Drives : d[1] = t /\ DriveStep(d)
           /\ ~\E w \in sent : w.of = t /\ LateWrite(w)
  <2>1. \A d \in Drives : d[1] = t => Trimmed(d)
    BY <1>4, DriveMoves
  <2>2. \A p \in Procs : At(p, "drive")' /\ task'[p].of = t => SamePlace(p)
    BY <1>4, DriversStay
  <2>3. CASE RowKept(t)
    BY <2>1, <2>2, <2>3, SteadyKept
  <2>4. CASE \E p \in Procs : ClaimExhausted(p, t) \/ ClaimThrows(p, t)
    BY <2>1, <2>2, <2>4, SteadyLost
  <2> QED
    BY <1>4, <2>3, <2>4, RowMoves
<1> QED
  BY <1>1, <1>2, <1>3, <1>4

\* Who has been robbed stays so.
LEMMA StraysStay == ASSUME Typed, [Next]_vars PROVE strays \subseteq strays'
<1>1. ASSUME NEW c \in Calls, CallStep(c) PROVE strays' = strays
  BY <1>1 DEF CallStep, EnqueuePersist, EnqueueThrows, EnqueueRegister, EnqueueReturn, db
<1>2. ASSUME NEW p \in Procs, TaskStep(p) PROVE strays \subseteq strays'
  <2>1. ASSUME NEW t \in Triggers,
               Claim(p, t) \/ ClaimExhausted(p, t) \/ ClaimDenied(p, t) \/ ClaimThrows(p, t)
        PROVE  strays \subseteq strays'
    BY <2>1 DEF Claim, ClaimExhausted, ClaimDenied, ClaimThrows, Straying, db
  <2>2. CASE \/ TaskStart(p) \/ TaskSession(p) \/ TaskSessionThrows(p)
             \/ ReconcileScan(p) \/ ReconcileScanThrows(p) \/ ResumeLook(p) \/ ResumeLookThrows(p)
             \/ Acquire(p) \/ AcquireThrows(p) \/ Release(p) \/ ReleaseThrows(p)
    BY <2>2 DEF TaskStart, TaskSession, TaskSessionThrows, ReconcileScan,
       ReconcileScanThrows, ResumeLook, ResumeLookThrows, Acquire, AcquireThrows, Release,
       ReleaseThrows, db
  <2>3. CASE \/ LoopEnds(p) \/ DriveReturns(p) \/ WindowAborted(p) \/ Sweep(p)
             \/ TaskTidy(p) \/ TaskFinally(p) \/ TaskEnd(p)
    BY <2>3 DEF LoopEnds, DriveReturns, WindowAborted, Sweep, TaskTidy, TaskFinally, TaskEnd, db
  <2> QED
    BY <1>2, <2>1, <2>2, <2>3 DEF TaskStep
<1>3. ASSUME NEW p \in Procs, LaneRequest(p) \/ Environment(p) PROVE strays' = strays
  BY <1>3 DEF LaneRequest, ReconcileRequested, ResumeRequested, Requested, Environment,
     Watchdog, InvalidateSession, Crash, ProcessExits, Gone, StopBegin, StopAborts, StopEnds, Boot, db
<1>4. ASSUME NEW d \in Drives, DriveStep(d) PROVE strays' = strays
  BY <1>4 DEF DriveStep, DriveLoad, DriveMark, DriveStart, DriveCancel, DriveEnd, DriveSettle,
              DriveThrows, Cascade, CascadeLost, db
<1>5. ASSUME NEW w \in sent, LateWrite(w) PROVE strays \subseteq strays'
  BY <1>5 DEF LateWrite, Straying
<1>6. CASE Expiry \/ UNCHANGED vars
  BY <1>6 DEF Expiry, WindowLeaseExpires, TriggerLeaseExpires, vars
<1> QED
  BY <1>1, <1>2, <1>3, <1>4, <1>5, <1>6 DEF Next

RowsInv == Typed /\ \A t \in Triggers \ strays : Steady(t)

LEMMA RowsNext ==
    ASSUME RowsInv, [Next]_vars
    PROVE  RowsInv' /\ \A t \in Triggers \ strays' : FinalKept(t)
<1>1. ASSUME NEW t \in Triggers \ strays' PROVE Steady(t)' /\ FinalKept(t)
  BY <1>1, StraysStay, SteadyNext DEF RowsInv
<1> QED
  BY <1>1, TypeNext DEF RowsInv

LEMMA RowsAlways == Spec => []RowsInv
<1>1. Init => RowsInv
  <2> SUFFICES ASSUME Init PROVE RowsInv
    OBVIOUS
  <2>1. Typed
    BY TypeInit DEF Typed, Init, TasksKnown, At, Idle
  <2>2. ASSUME NEW t \in Triggers PROVE Steady(t)
    BY DEF Init, Steady, HeldByDrive, OneDrive, DrivenByTask, OutsTrue, WritesOwed, ToldTrue, OutTrue,
           Connected, Active, NoDrive, At, Idle, Told
  <2> QED
    BY <2>1, <2>2 DEF RowsInv
<1>2. RowsInv /\ [Next]_vars => RowsInv'
  BY RowsNext
<1> QED
  BY <1>1, <1>2, PTL DEF Spec

\* The row never contradicts the durable run, unless its trigger was claimed from under somebody:
\* completed only when the run succeeded, waiting only while it is suspended.  Lost answers, late
\* writes, aborted windows whose drives go on, crashes and leases that run out included (driveRun,
\* setStatus, guardSession).
THEOREM RowsMatchRuns == Spec => []StatusMatchesRun
<1>1. RowsInv => StatusMatchesRun
  BY DEF RowsInv, Steady, OutTrue, StatusMatchesRun
<1> QED
  BY <1>1, RowsAlways, PTL

\* What is completed or failed stays so, unless the trigger was claimed from under somebody.
THEOREM FinalsAreFinal == Spec => FinalIsFinal
<1>1. RowsInv /\ [Next]_vars =>
         [\A t \in Triggers \ strays' : trig[t].status \in Final => trig'[t].status = trig[t].status]_vars
  BY RowsNext DEF FinalKept
<1> QED
  BY <1>1, RowsAlways, PTL DEF Spec, FinalIsFinal

\* The rows say what became of their runs, and what is final is not taken back.
THEOREM RowsStayTrue == Spec => RowsAreTrue
  BY RowsMatchRuns, FinalsAreFinal, PTL DEF RowsAreTrue

-----------------------------------------------------------------------------
(* The waiters                                                             *)

\* Scheduling a window leaves the life, the abort and the session of the lane; closing a session aborts
\* at most the window that has lost it.
LEMMA LaneAborts ==
    ASSUME NEW l \in Lanes
    PROVE  /\ Scheduled(l).up = l.up /\ Scheduled(l).abort = l.abort
           /\ Scheduled(l).sess = l.sess
           /\ SessionClosed(l).up = l.up
           /\ SessionClosed(l).abort \in {l.abort, "employee-session-closed"}
           /\ SessionClosed(l).abort # l.abort => l.sess /\ ~SessionClosed(l).sess
<1>1. Scheduled(l).up = l.up /\ Scheduled(l).abort = l.abort /\ Scheduled(l).sess = l.sess
  BY DEF Scheduled, Lanes
<1> DEFINE m == [l EXCEPT !.sess = FALSE]
<1>2. m \in Lanes /\ m.up = l.up /\ m.abort = l.abort /\ m.sess = FALSE
  BY DEF Lanes
<1>3. /\ WithAbort(m, "employee-session-closed").up = m.up
      /\ WithAbort(m, "employee-session-closed").sess = m.sess
      /\ WithAbort(m, "employee-session-closed").abort \in {m.abort, "employee-session-closed"}
  BY <1>2 DEF WithAbort, Lanes
<1> QED
  BY <1>1, <1>2, <1>3 DEF SessionClosed

LEMMA HousekeptAborts ==
    ASSUME TypeOK, NEW p \in Procs
    PROVE  /\ Housekept(p).up = lane[p].up
           /\ Housekept(p).abort \in {lane[p].abort, "employee-session-closed"}
           /\ Housekept(p).abort # lane[p].abort => ClosesSession(p)
<1> DEFINE l == [lane[p] EXCEPT !.followup = FALSE,
                                !.waiters = IF Up(p) THEN @ ELSE NoWaiters]
<1>1. lane[p] \in Lanes
  BY DEF TypeOK
<1>2. NoWaiters \in [Triggers -> Calls \cup {None}]
  BY DEF NoWaiters
<1>3. l \in Lanes /\ l.up = lane[p].up /\ l.abort = lane[p].abort /\ l.sess = lane[p].sess
  BY <1>1, <1>2 DEF Lanes
<1>4. \/ Housekept(p) = Scheduled(l) \/ Housekept(p) = l \/ Housekept(p) = SessionClosed(l)
  BY DEF Housekept
<1>5. /\ Scheduled(l).up = l.up /\ Scheduled(l).abort = l.abort
      /\ SessionClosed(l).up = l.up
      /\ SessionClosed(l).abort \in {l.abort, "employee-session-closed"}
      /\ SessionClosed(l).abort # l.abort => l.sess /\ ~SessionClosed(l).sess
  BY <1>3, LaneAborts
<1> HIDE DEF l
<1> QED
  BY <1>3, <1>4, <1>5 DEF ClosesSession

\* A call under way is in a process that runs, and its waiter is kept.
WaiterInv ==
    /\ \A c \in Calls : call[c].pc \in Attending => lane[call[c].proc].up # "down"
    /\ WaiterKept

\* Calls are left alone, or end.
CallsEnd == \A c \in Calls : call'[c] = call[c] \/ call'[c].pc \notin Attending

\* The lanes of the calls that go on keep running and keep their waiters.
WaitersTold ==
    \A c \in Calls : call'[c].pc \in Attending =>
        /\ lane'[call[c].proc].up = "down" => lane[call[c].proc].up = "down"
        /\ call[c].pc = "waiting" =>
              lane'[call[c].proc].waiters[call[c].of] = lane[call[c].proc].waiters[call[c].of]

LEMMA WaiterStays ==
    ASSUME WaiterInv, CallsEnd, WaitersTold
    PROVE  WaiterInv'
  BY DEF WaiterInv, CallsEnd, WaitersTold, WaiterKept, Attending

\* Calls that are answered end.
LEMMA AnsweredEnd ==
    ASSUME TypeOK, NEW cs, NEW answer, call' = call \/ call' = Answered(cs, answer)
    PROVE  CallsEnd
<1>1. \A c \in Calls : call[c] \in CallStates
  BY DEF TypeOK
<1>2. \A c \in Calls : [call[c] EXCEPT !.pc = "answered", !.answer = answer].pc = "answered"
  BY <1>1 DEF CallStates
<1> QED
  BY <1>2 DEF Answered, CallsEnd, Attending

\* A step that leaves the waiters and lets no process go down.
WaitersSame ==
    \A q \in Procs : /\ lane'[q].waiters = lane[q].waiters
                     /\ lane'[q].up = "down" => lane[q].up = "down"

LEMMA SameTold ==
    ASSUME TypeInv, WaitersSame, CallsEnd
    PROVE  WaitersTold
<1>1. \A c \in Calls : call'[c].pc \in Attending => call[c].proc \in Procs
  BY DEF TypeInv, CallKnown, CallsEnd
<1> QED
  BY <1>1 DEF WaitersSame, WaitersTold

\* One lane changes, and not in its waiters.
LEMMA LaneSame ==
    ASSUME TypeOK, NEW p, NEW l, lane' = lane \/ lane' = [lane EXCEPT ![p] = l],
           p \in Procs => /\ l.waiters = lane[p].waiters
                          /\ l.up = "down" => lane[p].up = "down"
    PROVE  WaitersSame
  BY DEF TypeOK, WaitersSame

\* All waiters of a lane are answered and dropped.
LEMMA AllTold ==
    ASSUME TypeInv, WaiterInv, NEW p \in Procs, NEW answer, NEW l,
           call' = Answered(WaitersOf(p), answer), lane' = [lane EXCEPT ![p] = l],
           l.up = "down" => lane[p].up = "down"
    PROVE  WaiterInv'
<1>1. TypeOK /\ CallsEnd
  BY AnsweredEnd DEF TypeInv
<1>2. lane \in [Procs -> Lanes]
  BY <1>1 DEF TypeOK
<1>3. ASSUME NEW c \in Calls, call'[c].pc \in Attending
      PROVE  /\ lane'[call[c].proc].up = "down" => lane[call[c].proc].up = "down"
             /\ call[c].pc = "waiting" =>
                   lane'[call[c].proc].waiters[call[c].of]
                      = lane[call[c].proc].waiters[call[c].of]
  <2>1. call'[c] = call[c] /\ call[c].proc \in Procs /\ call[c].of \in Triggers
    BY <1>1, <1>3 DEF CallsEnd, TypeInv, CallKnown
  <2>2. lane'[call[c].proc].up = "down" => lane[call[c].proc].up = "down"
    BY <1>2, <2>1
  <2>3. ASSUME call[c].pc = "waiting" PROVE call[c].proc # p
    <3>1. lane[call[c].proc].waiters[call[c].of] = c /\ c # None
      BY <2>3, RuntimeAssumption DEF WaiterInv, WaiterKept
    <3>2. call[c].proc = p => c \in WaitersOf(p)
      BY <2>1, <3>1 DEF WaitersOf, WaitedFor
    <3>3. call'[c].pc = "waiting"
      BY <2>1, <2>3
    <3>4. c \in WaitersOf(p) => call'[c].pc = "answered"
      BY <1>1 DEF Answered, TypeOK, CallStates
    <3> QED
      BY <3>2, <3>3, <3>4
  <2> QED
    BY <1>2, <2>2, <2>3
<1> QED
  BY <1>1, <1>3, WaiterStays DEF WaitersTold

\* One waiter of a lane is answered and dropped.
LEMMA OneTold ==
    ASSUME TypeInv, WaiterInv, NEW p \in Procs, NEW t \in Triggers, NEW answer,
           call' = Answered(WaiterOf(p, t), answer),
           lane' = [lane EXCEPT ![p].waiters[t] = None]
    PROVE  WaiterInv'
<1>1. TypeOK /\ CallsEnd
  BY AnsweredEnd DEF TypeInv
<1>2. lane \in [Procs -> Lanes] /\ lane[p] \in Lanes
      /\ lane[p].waiters \in [Triggers -> Calls \cup {None}]
  BY <1>1 DEF TypeOK, Lanes
<1> DEFINE w == [lane[p].waiters EXCEPT ![t] = None]
           l == [lane[p] EXCEPT !.waiters = w]
<1>3. l.up = lane[p].up /\ l.waiters = w /\ lane' = [lane EXCEPT ![p] = l]
      /\ \A u \in Triggers : u # t => w[u] = lane[p].waiters[u]
  BY <1>2 DEF Lanes
<1> HIDE DEF w, l
<1>4. ASSUME NEW c \in Calls, call'[c].pc \in Attending
      PROVE  /\ lane'[call[c].proc].up = "down" => lane[call[c].proc].up = "down"
             /\ call[c].pc = "waiting" =>
                   lane'[call[c].proc].waiters[call[c].of]
                      = lane[call[c].proc].waiters[call[c].of]
  <2>1. call'[c] = call[c] /\ call[c].proc \in Procs /\ call[c].of \in Triggers
    BY <1>1, <1>4 DEF CallsEnd, TypeInv, CallKnown
  <2>2. ASSUME call[c].pc = "waiting" PROVE ~(call[c].proc = p /\ call[c].of = t)
    <3>1. lane[call[c].proc].waiters[call[c].of] = c /\ c # None
      BY <2>2, RuntimeAssumption DEF WaiterInv, WaiterKept
    <3>2. call'[c].pc = "waiting"
      BY <2>1, <2>2
    <3>3. c \in WaiterOf(p, t) => call'[c].pc = "answered"
      BY <1>1 DEF Answered, TypeOK, CallStates
    <3> QED
      BY <3>1, <3>2, <3>3 DEF WaiterOf
  <2> QED
    BY <1>2, <1>3, <2>1, <2>2
<1> QED
  BY <1>1, <1>4, WaiterStays DEF WaitersTold

\* Housekeeping drops waiters only of a stopped process, and answers them.
LEMMA HousekeptTold ==
    ASSUME TypeInv, WaiterInv, NEW p \in Procs, lane' = [lane EXCEPT ![p] = Housekept(p)],
           call' = Answered(Orphaned(p), "failed")
    PROVE  WaiterInv'
<1>1. Housekept(p).up = lane[p].up /\ TypeOK
  BY HousekeptAborts DEF TypeInv
<1>2. CASE Up(p)
  <2>1. Housekept(p).waiters = lane[p].waiters
    BY <1>1, <1>2, HousekeptLane
  <2>2. CallsEnd /\ WaitersSame
    BY <1>1, <2>1, AnsweredEnd, LaneSame
  <2> QED
    BY <2>2, SameTold, WaiterStays
<1>3. CASE ~Up(p)
  <2>1. call' = Answered(WaitersOf(p), "failed")
    BY <1>3 DEF Orphaned
  <2> QED
    BY <1>1, <2>1, AllTold
<1> QED
  BY <1>2, <1>3

\* The calls keep the waiters.
LEMMA WaiterCallStep ==
    ASSUME TypeInv, WaiterInv, NEW c \in Calls, CallStep(c)
    PROVE  WaiterInv'
<1>0. /\ TypeOK /\ \A q \in Procs : lane[q] \in Lanes
      /\ call \in [Calls -> CallStates] /\ lane \in [Procs -> Lanes]
      /\ \A e \in Calls : call[e].pc \in Attending =>
                             call[e].proc \in Procs /\ call[e].of \in Triggers
  BY DEF TypeInv, TypeOK, CallKnown
<1>1. ASSUME NEW p \in Procs, NEW t \in Triggers,
             EnqueuePersist(c, p, t) \/ EnqueueThrows(c, p, t)
      PROVE  WaiterInv'
  <2>2. PICK l : /\ lane' = [lane EXCEPT ![p] = l]
                 /\ l.waiters = lane[p].waiters /\ l.up = lane[p].up
    <3>1. CASE EnqueuePersist(c, p, t)
      <4> DEFINE m == [lane[p] EXCEPT !.sess = TRUE, !.persist = c]
      <4>1. lane' = [lane EXCEPT ![p] = m] /\ m.waiters = lane[p].waiters /\ m.up = lane[p].up
        BY <1>0, <3>1 DEF EnqueuePersist, Lanes
      <4> HIDE DEF m
      <4> QED
        BY <4>1
    <3>2. CASE EnqueueThrows(c, p, t)
      <4>1. PICK o \in BOOLEAN : lane' = [lane EXCEPT ![p].sess = @ \/ o]
        BY <3>2 DEF EnqueueThrows
      <4> DEFINE m == [lane[p] EXCEPT !.sess = @ \/ o]
      <4>2. lane' = [lane EXCEPT ![p] = m] /\ m.waiters = lane[p].waiters /\ m.up = lane[p].up
        BY <1>0, <4>1 DEF Lanes
      <4> HIDE DEF m
      <4> QED
        BY <4>2
    <3> QED
      BY <1>1, <3>1, <3>2
  <2>3. WaitersSame
    BY <1>0, <2>2, LaneSame
  <2>4. lane'[p].up # "down"
    BY <1>0, <1>1, <2>2 DEF EnqueuePersist, EnqueueThrows, Up
  <2>5. /\ \A e \in Calls : e # c => call'[e] = call[e]
        /\ call'[c].proc = p /\ call'[c].of = t /\ call'[c].pc # "waiting"
    BY <1>0, <1>1 DEF EnqueuePersist, EnqueueThrows, Attending
  <2> QED
    BY <1>0, <2>3, <2>4, <2>5 DEF WaiterInv, WaiterKept, WaitersSame, Attending
<1>2. CASE EnqueueRegister(c)
  <2> DEFINE p == call[c].proc
             t == call[c].of
             freed == [lane[p] EXCEPT !.persist = None]
             kept == [freed EXCEPT !.waiters[t] = c]
  <2>1. p \in Procs /\ t \in Triggers /\ call[c].pc = "persisted"
    BY <1>0, <1>2 DEF EnqueueRegister, Attending
  <2>2. /\ freed \in Lanes /\ freed.up = lane[p].up /\ freed.waiters = lane[p].waiters
    BY <1>0, <2>1 DEF Lanes
  <2>3. CASE call[c].saw \in Final \cup {"waiting"}
    <3>1. lane' = [lane EXCEPT ![p] = freed] /\ call' = [call EXCEPT ![c].pc = "settled"]
      BY <1>2, <2>3 DEF EnqueueRegister
    <3>2. WaitersSame
      BY <1>0, <2>2, <3>1, LaneSame
    <3>3. /\ call'[c].pc = "settled" /\ call'[c].of = t /\ call'[c].proc = p
          /\ \A e \in Calls : e # c => call'[e] = call[e]
      BY <1>0, <3>1 DEF CallStates
    <3> QED
      BY <1>0, <2>1, <3>2, <3>3 DEF WaiterInv, WaiterKept, WaitersSame, Attending
  <2>4. CASE call[c].saw \notin Final \cup {"waiting"}
    <3>1. /\ lane' = [lane EXCEPT ![p] = Scheduled(kept)]
          /\ call' = [e \in Calls |->
                         IF e = c THEN [call[c] EXCEPT !.pc = "waiting", !.saw = "absent"]
                         ELSE IF e = lane[p].waiters[t] THEN [call[e] EXCEPT !.pc = "displaced"]
                         ELSE call[e]]
      BY <1>2, <2>4 DEF EnqueueRegister
    <3>2. call'[c].pc = "waiting" /\ call'[c].of = t /\ call'[c].proc = p
      BY <1>0, <3>1 DEF CallStates
    <3>3. \A e \in Calls : e # c /\ call'[e].pc \in Attending => call'[e] = call[e] /\ e # lane[p].waiters[t]
      <4>1. \A e \in Calls : [call[e] EXCEPT !.pc = "displaced"].pc = "displaced"
        BY <1>0 DEF CallStates
      <4> QED
        BY <3>1, <4>1 DEF Attending
    <3> DEFINE w == [freed.waiters EXCEPT ![t] = c]
    <3>4. freed.waiters \in [Triggers -> Calls \cup {None}]
      BY <2>2 DEF Lanes
    <3>5. w \in [Triggers -> Calls \cup {None}] /\ w[t] = c
          /\ \A u \in Triggers : u # t => w[u] = lane[p].waiters[u]
      BY <2>1, <2>2, <3>4
    <3>6. kept \in Lanes /\ kept.up = lane[p].up /\ kept.waiters = w
      BY <2>2, <3>5 DEF Lanes
    <3>7. Scheduled(kept).waiters = w /\ Scheduled(kept).up = lane[p].up
      BY <3>6, LaneOps, LaneAborts
    <3> HIDE DEF w, kept, freed
    <3>8. \A q \in Procs : lane'[q].up = lane[q].up
      BY <1>0, <2>1, <3>1, <3>7
    <3>9. lane'[p].waiters = w /\ \A q \in Procs : q # p => lane'[q] = lane[q]
      BY <1>0, <2>1, <3>1, <3>7
    <3>10. ASSUME NEW e \in Calls, e # c, call'[e].pc = "waiting"
           PROVE  lane'[call'[e].proc].waiters[call'[e].of] = e
      <4>1. /\ call'[e] = call[e] /\ e # lane[p].waiters[t] /\ call[e].pc = "waiting"
            /\ call[e].proc \in Procs /\ call[e].of \in Triggers
        BY <1>0, <3>3, <3>10 DEF Attending
      <4>2. lane[call[e].proc].waiters[call[e].of] = e
        BY <4>1 DEF WaiterInv, WaiterKept
      <4> QED
        BY <3>5, <3>9, <4>1, <4>2
    <3>11. WaiterKept'
      BY <2>1, <3>2, <3>5, <3>9, <3>10 DEF WaiterKept
    <3> QED
      BY <1>0, <2>1, <3>2, <3>3, <3>8, <3>11 DEF WaiterInv, Attending
  <2> QED
    BY <2>3, <2>4
<1>3. CASE EnqueueReturn(c)
  <2> DEFINE p == call[c].proc
  <2>1. p \in Procs /\ lane' = [lane EXCEPT ![p] = Housekept(p)]
    BY <1>0, <1>3 DEF EnqueueReturn, Housekeeping, Attending
  <2> HIDE DEF p
  <2>2. PICK answer : call' = [Answered(Orphaned(p), "failed") EXCEPT ![c].pc = "answered",
                                                                     ![c].answer = answer]
    BY <1>3 DEF EnqueueReturn, p
  <2>3. "failed" \in Answers /\ Answered(Orphaned(p), "failed") \in [Calls -> CallStates]
    BY <1>0, AnsweredCalls DEF Answers
  <2>4. /\ call'[c].pc = "answered"
        /\ \A e \in Calls : e # c => call'[e] = Answered(Orphaned(p), "failed")[e]
    BY <2>2, <2>3 DEF CallStates
  <2>5. CallsEnd /\ \A e \in Orphaned(p) \cap Calls : call'[e].pc = "answered"
    BY <2>4 DEF Answered, CallsEnd, Attending, CallStates, TypeInv, TypeOK
  <2>6. /\ Housekept(p).up = lane[p].up
        /\ Housekept(p).waiters = IF Up(p) THEN lane[p].waiters ELSE NoWaiters
    BY <1>0, <2>1, HousekeptAborts, HousekeptLane
  <2>7. ASSUME NEW e \in Calls, call'[e].pc \in Attending
        PROVE  /\ lane'[call[e].proc].up = "down" => lane[call[e].proc].up = "down"
               /\ call[e].pc = "waiting" =>
                     lane'[call[e].proc].waiters[call[e].of]
                        = lane[call[e].proc].waiters[call[e].of]
    <3>1. call'[e] = call[e] /\ call[e].proc \in Procs /\ call[e].of \in Triggers
      BY <1>0, <2>5, <2>7 DEF CallsEnd
    <3>2. ASSUME call[e].pc = "waiting", call[e].proc = p PROVE Up(p)
      <4>1. lane[p].waiters[call[e].of] = e /\ e # None
        BY <3>2, RuntimeAssumption DEF WaiterInv, WaiterKept
      <4>2. e \in WaitersOf(p)
        BY <3>1, <4>1 DEF WaitersOf, WaitedFor
      <4>3. e \notin Orphaned(p)
        BY <2>5, <3>1, <3>2
      <4> QED
        BY <4>2, <4>3 DEF Orphaned
    <3> QED
      BY <1>0, <2>1, <2>6, <3>1, <3>2
  <2> QED
    BY <2>5, <2>7, WaiterStays DEF WaitersTold
<1> QED
  BY <1>1, <1>2, <1>3 DEF CallStep

\* The tasks of the lane keep the waiters, or answer them.
LEMMA WaiterTaskStep ==
    ASSUME TypeInv, TasksKnown, WaiterInv, NEW p \in Procs, TaskStep(p)
    PROVE  WaiterInv'
<1>0. TypeOK /\ lane[p] \in Lanes /\ call \in [Calls -> CallStates] /\ lane \in [Procs -> Lanes]
      /\ \A e \in Calls : call[e].pc \in Attending =>
                             call[e].proc \in Procs /\ call[e].of \in Triggers
  BY DEF TypeInv, TypeOK, CallKnown
<1>1. ASSUME call' = call, lane' = lane PROVE WaiterInv'
  BY <1>1 DEF WaiterInv, WaiterKept
<1>2. ASSUME NEW l, call' = call, lane' = [lane EXCEPT ![p] = l], l.waiters = lane[p].waiters,
             l.up = lane[p].up
      PROVE  WaiterInv'
  <2>1. CallsEnd /\ WaitersSame
    BY <1>0, <1>2, LaneSame DEF CallsEnd
  <2> QED
    BY <2>1, SameTold, WaiterStays
<1>3. ASSUME NEW answer, call' = Answered(WaitersOf(p), answer),
             lane' = [lane EXCEPT ![p].waiters = NoWaiters]
      PROVE  WaiterInv'
  <2> DEFINE l == [lane[p] EXCEPT !.waiters = NoWaiters]
  <2>1. l.up = lane[p].up /\ lane' = [lane EXCEPT ![p] = l]
    BY <1>0, <1>3 DEF Lanes
  <2> HIDE DEF l
  <2> QED
    BY <1>3, <2>1, AllTold
<1>4. CASE TaskStart(p)
  <2> DEFINE l == [lane[p] EXCEPT !.queue = Tail(@),
                      !.abort = IF Head(lane[p].queue).kind = "window" THEN "armed" ELSE @]
  <2>1. l.waiters = lane[p].waiters /\ l.up = lane[p].up
    BY <1>0 DEF Lanes
  <2>2. lane' = [lane EXCEPT ![p] = l] /\ call' = call
    BY <1>4 DEF TaskStart
  <2> HIDE DEF l
  <2> QED
    BY <1>2, <2>1, <2>2
<1>5. CASE TaskSession(p) \/ ReconcileScan(p) \/ ResumeLook(p) \/ TaskFinally(p)
  <2>1. CASE lane' = [lane EXCEPT ![p].sess = TRUE] \/ lane' = [lane EXCEPT ![p].abort = "armed"]
    <3>1. \A b : /\ [lane[p] EXCEPT !.sess = b].waiters = lane[p].waiters
                 /\ [lane[p] EXCEPT !.sess = b].up = lane[p].up
                 /\ [lane[p] EXCEPT !.abort = b].waiters = lane[p].waiters
                 /\ [lane[p] EXCEPT !.abort = b].up = lane[p].up
      BY <1>0 DEF Lanes
    <3>2. call' = call
      BY <1>5 DEF TaskSession, ReconcileScan, ResumeLook, TaskFinally
    <3> QED
      BY <1>2, <2>1, <3>1, <3>2
  <2>2. CASE TaskFinally(p)
    <3> DEFINE l == [lane[p] EXCEPT !.abort = "off",
                        !.planned = IF task[p].kind = "window" THEN FALSE ELSE @]
    <3>1. l.waiters = lane[p].waiters /\ l.up = lane[p].up
      BY <1>0 DEF Lanes
    <3>2. lane' = [lane EXCEPT ![p] = l] /\ call' = call
      BY <2>2 DEF TaskFinally
    <3> HIDE DEF l
    <3> QED
      BY <1>2, <3>1, <3>2
  <2> QED
    BY <1>1, <1>5, <2>1, <2>2 DEF TaskSession, ReconcileScan, ResumeLook
<1>6. CASE TaskSessionThrows(p) \/ Acquire(p) \/ AcquireThrows(p)
  <2>1. \/ lane' = lane /\ call' = call
        \/ \E answer \in Answers : /\ call' = Answered(WaitersOf(p), answer)
                                   /\ lane' = [lane EXCEPT ![p].waiters = NoWaiters]
    BY <1>6 DEF TaskSessionThrows, Acquire, AcquireThrows, Answers
  <2> QED
    BY <1>1, <1>3, <2>1
<1>7. ASSUME NEW t \in Triggers,
             Claim(p, t) \/ ClaimExhausted(p, t) \/ ClaimDenied(p, t) \/ ClaimThrows(p, t)
      PROVE  WaiterInv'
  <2>1. \/ lane' = lane /\ call' = call
        \/ /\ call' = Answered(WaitersOf(p), "failed")
           /\ lane' = [lane EXCEPT ![p].waiters = NoWaiters]
        \/ /\ call' = Answered(WaiterOf(p, t), "failed")
           /\ lane' = [lane EXCEPT ![p].waiters[t] = None]
    BY <1>7 DEF Claim, ClaimExhausted, ClaimDenied, ClaimThrows
  <2> QED
    BY <1>1, <1>3, <2>1, OneTold
<1>8. CASE DriveReturns(p) \/ WindowAborted(p)
  <2> DEFINE t == task[p].of
  <2>1. \/ lane' = lane /\ call' = call
        \/ \E answer : /\ call' = Answered(WaiterOf(p, t), answer)
                       /\ lane' = [lane EXCEPT ![p].waiters[t] = None]
    BY <1>8 DEF DriveReturns, WindowAborted
  <2>2. t \in Triggers
    BY <1>8 DEF DriveReturns, WindowAborted, TasksKnown, Driven, Drives
  <2> QED
    BY <1>1, <2>1, <2>2, OneTold
<1>9. CASE Sweep(p)
  <2>1. PICK seen \in SUBSET WaitedFor(p) :
           /\ call' = SweptCalls(p, seen)
           /\ lane' = [lane EXCEPT ![p].waiters = [t \in Triggers |->
                          IF t \in seen /\ SweptAs(trig[t].status) # "none" THEN None ELSE @[t]]]
    BY <1>9 DEF Sweep
  <2> DEFINE w == [t \in Triggers |-> IF t \in seen /\ SweptAs(trig[t].status) # "none"
                                      THEN None ELSE lane[p].waiters[t]]
             l == [lane[p] EXCEPT !.waiters = w]
  <2>2. lane' = [lane EXCEPT ![p] = l] /\ l.up = lane[p].up /\ l.waiters = w
    BY <1>0, <2>1 DEF Lanes
  <2> HIDE DEF l
  <2>3. \A c \in Calls :
           \/ call'[c] = call[c]
              /\ \A t \in seen : lane[p].waiters[t] = c => SweptAs(trig[t].status) = "none"
           \/ call'[c].pc = "answered"
    <3>1. \A c \in Calls : call[c] \in CallStates
      BY <1>0
    <3> QED
      BY <2>1, <3>1 DEF SweptCalls, CallStates
  <2>4. CallsEnd
    BY <2>3 DEF CallsEnd, Attending
  <2>5. ASSUME NEW c \in Calls, call'[c].pc \in Attending
        PROVE  /\ lane'[call[c].proc].up = "down" => lane[call[c].proc].up = "down"
               /\ call[c].pc = "waiting" =>
                     lane'[call[c].proc].waiters[call[c].of]
                        = lane[call[c].proc].waiters[call[c].of]
    <3>1. /\ call'[c] = call[c] /\ call[c].proc \in Procs /\ call[c].of \in Triggers
          /\ \A t \in seen : lane[p].waiters[t] = c => SweptAs(trig[t].status) = "none"
      BY <1>0, <2>3, <2>5 DEF Attending
    <3>2. call[c].pc = "waiting" => lane[call[c].proc].waiters[call[c].of] = c
      BY DEF WaiterInv, WaiterKept
    <3>3. call[c].pc = "waiting" /\ call[c].proc = p => w[call[c].of] = c
      BY <3>1, <3>2
    <3> HIDE DEF w
    <3> QED
      BY <1>0, <2>2, <3>1, <3>2, <3>3
  <2> QED
    BY <2>4, <2>5, WaiterStays DEF WaitersTold
<1>10. CASE TaskTidy(p) \/ TaskEnd(p)
  BY <1>10, HousekeptTold DEF TaskTidy, TaskEnd, Housekeeping
<1>11. CASE \/ ReconcileScanThrows(p) \/ ResumeLookThrows(p) \/ LoopEnds(p)
            \/ Release(p) \/ ReleaseThrows(p)
  BY <1>1, <1>11 DEF ReconcileScanThrows, ResumeLookThrows, LoopEnds, Release, ReleaseThrows
<1> QED
  BY <1>4, <1>5, <1>6, <1>7, <1>8, <1>9, <1>10, <1>11 DEF TaskStep

\* Requests, aborts, stops, crashes and boots keep the waiters, or answer or drop their calls.
LEMMA WaiterEnvironment ==
    ASSUME TypeInv, WaiterInv, NEW p \in Procs, Environment(p) \/ LaneRequest(p)
    PROVE  WaiterInv'
<1>0. TypeOK /\ lane[p] \in Lanes /\ call \in [Calls -> CallStates] /\ lane \in [Procs -> Lanes]
      /\ \A e \in Calls : call[e].pc \in Attending =>
                             call[e].proc \in Procs /\ call[e].of \in Triggers
  BY DEF TypeInv, TypeOK, CallKnown
<1>2. ASSUME NEW l, call' = call, lane' = [lane EXCEPT ![p] = l], l.waiters = lane[p].waiters,
             l.up = "down" => lane[p].up = "down"
      PROVE  WaiterInv'
  <2>1. CallsEnd /\ WaitersSame
    BY <1>0, <1>2, LaneSame DEF CallsEnd
  <2> QED
    BY <2>1, SameTold, WaiterStays
<1>3. CASE LaneRequest(p)
  <2>1. PICK item : Requested(p, item)
    BY <1>3 DEF LaneRequest, ReconcileRequested, ResumeRequested
  <2> DEFINE l == [lane[p] EXCEPT !.queue = Append(@, item)]
  <2>2. l.waiters = lane[p].waiters /\ l.up = lane[p].up
    BY <1>0 DEF Lanes
  <2>3. lane' = [lane EXCEPT ![p] = l] /\ call' = call
    BY <2>1 DEF Requested
  <2> HIDE DEF l
  <2> QED
    BY <1>2, <2>2, <2>3
<1>4. CASE Watchdog(p) \/ StopAborts(p)
  <2>1. PICK reason \in Aborts : lane' = [lane EXCEPT ![p] = WithAbort(lane[p], reason)]
    BY <1>4 DEF Watchdog, StopAborts, Aborts
  <2>2. WithAbort(lane[p], reason).waiters = lane[p].waiters
        /\ WithAbort(lane[p], reason).up = lane[p].up
    BY <1>0, LaneOps DEF WithAbort, Lanes
  <2>3. call' = call
    BY <1>4 DEF Watchdog, StopAborts
  <2> QED
    BY <1>2, <2>1, <2>2, <2>3
<1>5. CASE InvalidateSession(p)
  <2>1. lane' = [lane EXCEPT ![p] = SessionClosed(lane[p])] /\ call' = call
    BY <1>5 DEF InvalidateSession
  <2>2. SessionClosed(lane[p]).waiters = lane[p].waiters /\ SessionClosed(lane[p]).up = lane[p].up
    BY <1>0, LaneOps, LaneAborts
  <2> QED
    BY <1>2, <2>1, <2>2
<1>6. CASE StopEnds(p)
  <2> DEFINE m == SessionClosed(lane[p])
             l == [m EXCEPT !.up = "stopped"]
  <2>1. lane' = [lane EXCEPT ![p] = l] /\ call' = call
    BY <1>6 DEF StopEnds
  <2>2. m \in Lanes /\ m.waiters = lane[p].waiters
    BY <1>0, LaneOps
  <2> HIDE DEF m
  <2>3. l.waiters = m.waiters /\ l.up = "stopped"
    BY <2>2 DEF Lanes
  <2> HIDE DEF l
  <2> QED
    BY <1>2, <2>1, <2>2, <2>3
<1>7. CASE StopBegin(p)
  <2> DEFINE l == [lane[p] EXCEPT !.up = "stopping", !.waiters = NoWaiters]
  <2>1. lane' = [lane EXCEPT ![p] = l] /\ call' = Answered(WaitersOf(p), "failed")
    BY <1>7 DEF StopBegin
  <2>2. l.up = "stopping"
    BY <1>0 DEF Lanes
  <2> HIDE DEF l
  <2> QED
    BY <2>1, <2>2, AllTold
<1>8. CASE Crash(p) \/ ProcessExits(p)
  <2>1. Gone(p)
    BY <1>8 DEF Crash, ProcessExits
  <2>2. /\ CallsEnd
        /\ \A c \in Calls : call'[c].pc \in Attending => call'[c] = call[c] /\ call[c].proc # p
    BY <1>0, <2>1 DEF Gone, CallsEnd, CallStates, Attending
  <2>3. \A q \in Procs : q # p => lane'[q] = lane[q]
    BY <1>0, <2>1 DEF Gone
  <2>4. WaitersTold
    BY <1>0, <2>2, <2>3 DEF WaitersTold
  <2> QED
    BY <2>2, <2>4, WaiterStays
<1>9. CASE Boot(p)
  <2>1. lane[p].up = "down" /\ call' = call /\ \A q \in Procs : q # p => lane'[q] = lane[q]
    BY <1>0, <1>9 DEF Boot
  <2>2. \A c \in Calls : call[c].pc \in Attending => call[c].proc # p
    BY <2>1 DEF WaiterInv
  <2>3. CallsEnd /\ WaitersTold
    BY <1>0, <2>1, <2>2 DEF WaitersTold, CallsEnd
  <2> QED
    BY <2>3, WaiterStays
<1> QED
  BY <1>3, <1>4, <1>5, <1>6, <1>7, <1>8, <1>9 DEF Environment

\* The drives keep the waiters; a cascade opens the session of its lane.
LEMMA WaiterDriveStep ==
    ASSUME TypeInv, WaiterInv, NEW d \in Drives, DriveStep(d)
    PROVE  WaiterInv'
<1>0. TypeOK /\ lane \in [Procs -> Lanes]
  BY DEF TypeInv, TypeOK
<1>1. CASE \E u \in Triggers : Cascade(d, u) \/ CascadeLost(d, u)
  <2> DEFINE p == drv[d].proc
  <2>1. PICK f : lane' = [lane EXCEPT ![p] = [lane[p] EXCEPT !.sess = TRUE, !.followup = f]]
    <3>1. CASE \E u \in Triggers : Cascade(d, u)
      BY <3>1 DEF Cascade
    <3>2. CASE \E u \in Triggers : CascadeLost(d, u)
      <4>1. p \in Procs => [lane[p] EXCEPT !.sess = TRUE]
                            = [lane[p] EXCEPT !.sess = TRUE, !.followup = lane[p].followup]
        BY <1>0 DEF Lanes
      <4>2. lane' = [lane EXCEPT ![p] = [lane[p] EXCEPT !.sess = TRUE]]
        BY <3>2 DEF CascadeLost
      <4>3. CASE p \notin Procs
        BY <1>0, <4>2, <4>3
      <4> QED
        BY <4>1, <4>2, <4>3
    <3> QED
      BY <1>1, <3>1, <3>2
  <2> DEFINE l == [lane[p] EXCEPT !.sess = TRUE, !.followup = f]
  <2>2. p \in Procs => l.waiters = lane[p].waiters /\ l.up = lane[p].up
    BY <1>0 DEF Lanes
  <2>3. lane' = [lane EXCEPT ![p] = l] /\ call' = call
    BY <1>1, <2>1 DEF Cascade, CascadeLost
  <2> HIDE DEF l
  <2>4. CallsEnd /\ WaitersSame
    BY <1>0, <2>2, <2>3, LaneSame DEF CallsEnd
  <2> QED
    BY <2>4, SameTold, WaiterStays
<1>2. CASE ~\E u \in Triggers : Cascade(d, u) \/ CascadeLost(d, u)
  <2>1. call' = call /\ lane' = lane
    BY <1>2 DEF DriveStep, DriveLoad, DriveMark, DriveStart, DriveCancel, DriveEnd, DriveSettle,
                DriveThrows
  <2> QED
    BY <2>1 DEF WaiterInv, WaiterKept
<1> QED
  BY <1>1, <1>2

LEMMA WaiterNext == ASSUME Typed, WaiterInv, [Next]_vars PROVE WaiterInv'
<1> USE DEF Typed
<1>1. ASSUME call' = call /\ lane' = lane PROVE WaiterInv'
  BY <1>1 DEF WaiterInv, WaiterKept
<1>2. CASE Expiry \/ UNCHANGED vars
  BY <1>1, <1>2 DEF Expiry, WindowLeaseExpires, TriggerLeaseExpires, vars
<1>3. CASE \E w \in sent : LateWrite(w)
  BY <1>1, <1>3 DEF LateWrite
<1> QED
  BY <1>2, <1>3, WaiterCallStep, WaiterTaskStep, WaiterEnvironment, WaiterDriveStep DEF Next

WaitInv == Typed /\ WaiterInv

LEMMA WaitAlways == Spec => []WaitInv
<1>1. Init => WaitInv
  <2>1. Init => WaiterInv
    BY DEF Init, WaiterInv, WaiterKept, NoCall, Attending
  <2>2. Init => Typed
    BY TypeInit DEF Typed, Init, TasksKnown, At, Idle
  <2> QED
    BY <2>1, <2>2 DEF WaitInv
<1>2. WaitInv /\ [Next]_vars => WaitInv'
  BY TypeNext, WaiterNext DEF WaitInv
<1> QED
  BY <1>1, <1>2, PTL DEF Spec

\* A call that waits has its waiter in the lane of its process, whatever is thrown, stopped, crashes
\* or is delivered again under the same key (enqueue, settleWaiter, sweepWaiters).
THEOREM WaitersAreKept == Spec => []WaiterKept
<1>1. WaitInv => WaiterKept
  BY DEF WaitInv, WaiterInv
<1> QED
  BY <1>1, WaitAlways, PTL

-----------------------------------------------------------------------------
(* A window keeps its session                                              *)

\* The task of p is a window that has not come to its finally yet.
Windowing(p) == task[p].kind = "window" /\ task[p].pc \notin {"idle", "house"}

\* A queue without a window, and with exactly one.
NoneIn(q) == \A i \in 1 .. Len(q) : q[i].kind # "window"
OneIn(q) == \E i \in 1 .. Len(q) : /\ q[i].kind = "window"
                                   /\ \A j \in 1 .. Len(q) : q[j].kind = "window" => j = i

\* A lane plans a window exactly while it has one, in its queue or as its task.
Line(l, executing) ==
    IF l.planned THEN IF executing THEN NoneIn(l.queue) ELSE OneIn(l.queue)
    ELSE ~executing /\ NoneIn(l.queue)

\* What a process keeps as long as nothing disturbs the employee.
Kept(p) ==
    /\ lane[p].up \in {"down", "up"}
    /\ lane[p].up = "down" => task[p].pc = "idle"
    /\ Line(lane[p], Windowing(p))
    /\ task[p].kind = "window" => task[p].pc \notin {"idle", "scan", "look", "tidy"}
    /\ Windowing(p) => /\ lane[p].abort = "armed"
                       /\ task[p].pc \notin {"session", "finally"} => task[p].conn

Undisturbed == \A p \in Procs : Kept(p)

LEMMA QueueOps ==
    ASSUME NEW q \in Seq(LaneItems)
    PROVE  /\ NoneIn(q) => ~OneIn(q)
           /\ \A x \in LaneItems :
                 /\ x.kind = "window" /\ NoneIn(q) => OneIn(Append(q, x))
                 /\ x.kind # "window" => /\ NoneIn(q) => NoneIn(Append(q, x))
                                         /\ OneIn(q) => OneIn(Append(q, x))
           /\ q # <<>> => /\ Tail(q) \in Seq(LaneItems) /\ Head(q) \in LaneItems
                          /\ OneIn(q) => IF Head(q).kind = "window" THEN NoneIn(Tail(q))
                                         ELSE OneIn(Tail(q))
                          /\ NoneIn(q) => NoneIn(Tail(q)) /\ Head(q).kind # "window"
<1>1. NoneIn(q) => ~OneIn(q)
  BY DEF NoneIn, OneIn
<1>2. ASSUME NEW x \in LaneItems
      PROVE  /\ x.kind = "window" /\ NoneIn(q) => OneIn(Append(q, x))
             /\ x.kind # "window" => /\ NoneIn(q) => NoneIn(Append(q, x))
                                     /\ OneIn(q) => OneIn(Append(q, x))
  <2> DEFINE r == Append(q, x)
  <2>1. Len(q) \in Nat /\ Len(r) = Len(q) + 1 /\ r[Len(q) + 1] = x
        /\ \A i \in 1 .. Len(q) : r[i] = q[i]
    OBVIOUS
  <2> HIDE DEF r
  <2>2. \A i \in 1 .. Len(r) : i \in 1 .. Len(q) \/ i = Len(q) + 1
    BY <2>1
  <2>3. Len(q) + 1 \in 1 .. Len(r) /\ \A i \in 1 .. Len(q) : i \in 1 .. Len(r)
    BY <2>1
  <2>4. x.kind = "window" /\ NoneIn(q) => OneIn(r)
    BY <2>1, <2>2, <2>3 DEF NoneIn, OneIn
  <2>5. x.kind # "window" /\ NoneIn(q) => NoneIn(r)
    BY <2>1, <2>2 DEF NoneIn
  <2>6. x.kind # "window" /\ OneIn(q) => OneIn(r)
    BY <2>1, <2>2, <2>3 DEF OneIn
  <2> QED
    BY <2>4, <2>5, <2>6 DEF r
<1>3. ASSUME q # <<>>
      PROVE  /\ Tail(q) \in Seq(LaneItems) /\ Head(q) \in LaneItems
             /\ OneIn(q) => IF Head(q).kind = "window" THEN NoneIn(Tail(q)) ELSE OneIn(Tail(q))
             /\ NoneIn(q) => NoneIn(Tail(q)) /\ Head(q).kind # "window"
  <2> DEFINE r == Tail(q)
  <2>1. /\ Len(q) \in Nat /\ Len(r) \in Nat /\ Len(q) = Len(r) + 1 /\ Head(q) = q[1]
        /\ \A i \in 1 .. Len(r) : r[i] = q[i + 1]
    BY <1>3
  <2>2. r \in Seq(LaneItems) /\ Head(q) \in LaneItems
    BY <1>3
  <2> HIDE DEF r
  <2>3. /\ 1 \in 1 .. Len(q)
        /\ \A i \in 1 .. Len(r) : i + 1 \in 1 .. Len(q) /\ i + 1 # 1
        /\ \A j \in 1 .. Len(q) : j = 1 \/ (j - 1 \in 1 .. Len(r) /\ r[j - 1] = q[j])
    BY <2>1
  <2>4. NoneIn(q) => NoneIn(r) /\ Head(q).kind # "window"
    BY <2>1, <2>3 DEF NoneIn
  <2>5. OneIn(q) /\ Head(q).kind = "window" => NoneIn(r)
    BY <2>1, <2>3 DEF OneIn, NoneIn
  <2>6. ASSUME OneIn(q), Head(q).kind # "window" PROVE OneIn(r)
    <3>1. PICK i \in 1 .. Len(q) : /\ q[i].kind = "window"
                                   /\ \A j \in 1 .. Len(q) : q[j].kind = "window" => j = i
      BY <2>6 DEF OneIn
    <3>2. i - 1 \in 1 .. Len(r) /\ r[i - 1].kind = "window"
      BY <2>1, <2>3, <2>6, <3>1
    <3>3. \A j \in 1 .. Len(r) : r[j].kind = "window" => j = i - 1
      <4> SUFFICES ASSUME NEW j \in 1 .. Len(r), r[j].kind = "window" PROVE j = i - 1
        OBVIOUS
      <4>1. q[j + 1].kind = "window" /\ j + 1 \in 1 .. Len(q)
        BY <2>1, <2>3
      <4>2. j + 1 = i
        BY <3>1, <4>1
      <4> QED
        BY <4>2
    <3> QED
      BY <3>2, <3>3 DEF OneIn
  <2> QED
    BY <2>2, <2>4, <2>5, <2>6 DEF r
<1> QED
  BY <1>1, <1>2, <1>3

\* Scheduling, closing and housekeeping keep the line; housekeeping closes no session of a
\* lane that plans a window.
LEMMA ScheduledLine ==
    ASSUME NEW l \in Lanes, NEW w \in BOOLEAN, Line(l, w)
    PROVE  /\ Line(Scheduled(l), w)
           /\ Scheduled(l).planned = (l.planned \/ l.up = "up")
           /\ Scheduled(l).persist = l.persist /\ Scheduled(l).followup = l.followup
           /\ \A i \in 1 .. Len(Scheduled(l).queue) :
                 \/ Scheduled(l).queue[i].kind = "window"
                 \/ i \in 1 .. Len(l.queue) /\ Scheduled(l).queue[i] = l.queue[i]
<1> DEFINE x == [kind |-> "window", of |-> None]
           m == [l EXCEPT !.planned = TRUE, !.queue = Append(l.queue, x)]
<1>1. x \in LaneItems /\ x.kind = "window"
  BY DEF LaneItems
<1>2. l.queue \in Seq(LaneItems) /\ l.planned \in BOOLEAN
  BY DEF Lanes
<1>3. /\ m.planned = TRUE /\ m.queue = Append(l.queue, x)
      /\ m.persist = l.persist /\ m.followup = l.followup
  BY DEF Lanes
<1>4. Scheduled(l) = IF l.up = "up" /\ ~l.planned THEN m ELSE l
  BY DEF Scheduled
<1>5. ASSUME NEW i \in 1 .. Len(Append(l.queue, x))
      PROVE  \/ Append(l.queue, x)[i].kind = "window"
             \/ i \in 1 .. Len(l.queue) /\ Append(l.queue, x)[i] = l.queue[i]
  BY <1>1, <1>2
<1> HIDE DEF m, x
<1>6. CASE l.up = "up" /\ ~l.planned
  <2>1. NoneIn(l.queue) /\ ~w
    BY <1>6 DEF Line
  <2>2. OneIn(m.queue)
    BY <1>1, <1>2, <1>3, <2>1, QueueOps
  <2> QED
    BY <1>3, <1>4, <1>5, <1>6, <2>1, <2>2 DEF Line
<1>7. CASE ~(l.up = "up" /\ ~l.planned)
  BY <1>2, <1>4, <1>7
<1> QED
  BY <1>6, <1>7

LEMMA ClosedFields ==
    ASSUME NEW l \in Lanes
    PROVE  /\ SessionClosed(l).planned = l.planned /\ SessionClosed(l).queue = l.queue
           /\ SessionClosed(l).persist = l.persist /\ SessionClosed(l).followup = l.followup
           /\ l.abort = "off" => SessionClosed(l).abort = "off"
<1> DEFINE m == [l EXCEPT !.sess = FALSE]
<1>1. /\ m \in Lanes /\ m.planned = l.planned /\ m.queue = l.queue
      /\ m.persist = l.persist /\ m.followup = l.followup /\ m.abort = l.abort
  BY DEF Lanes
<1> HIDE DEF m
<1>2. SessionClosed(l) \in {l, m, [m EXCEPT !.abort = "employee-session-closed"]}
      /\ (l.abort = "off" => SessionClosed(l) \in {l, m})
  BY <1>1 DEF SessionClosed, WithAbort, m
<1> QED
  BY <1>1, <1>2 DEF Lanes

LEMMA HousekeptLine ==
    ASSUME TypeOK, NEW p \in Procs, NEW w \in BOOLEAN, Line(lane[p], w)
    PROVE  /\ Line(Housekept(p), w)
           /\ Housekept(p).planned =
                 (lane[p].planned \/ (Up(p) /\ (WaitedFor(p) # {} \/ lane[p].followup)))
           /\ Housekept(p).persist = lane[p].persist /\ Housekept(p).followup = FALSE
           /\ ClosesSession(p) => ~lane[p].planned
           /\ lane[p].planned \/ lane[p].abort = "off" => Housekept(p).abort = lane[p].abort
           /\ \A i \in 1 .. Len(Housekept(p).queue) :
                 \/ Housekept(p).queue[i].kind = "window"
                 \/ i \in 1 .. Len(lane[p].queue) /\ Housekept(p).queue[i] = lane[p].queue[i]
<1> DEFINE l == [lane[p] EXCEPT !.followup = FALSE,
                                !.waiters = IF Up(p) THEN @ ELSE NoWaiters]
<1>1. lane[p] \in Lanes /\ NoWaiters \in [Triggers -> Calls \cup {None}]
  BY DEF TypeOK, NoWaiters
<1>2. /\ l \in Lanes /\ l.planned = lane[p].planned /\ l.queue = lane[p].queue
      /\ l.persist = lane[p].persist /\ l.followup = FALSE /\ l.abort = lane[p].abort
      /\ l.up = lane[p].up /\ l.sess = lane[p].sess
  BY <1>1 DEF Lanes
<1>3. Housekept(p) = IF Up(p) /\ (WaitedFor(p) # {} \/ lane[p].followup) THEN Scheduled(l)
                     ELSE IF l.planned THEN l ELSE SessionClosed(l)
  BY DEF Housekept
<1> HIDE DEF l
<1>4. Line(l, w)
  BY <1>2 DEF Line
<1>5. lane[p].planned \in BOOLEAN /\ (Up(p) <=> l.up = "up")
  BY <1>1, <1>2 DEF Lanes, Up
<1>6. CASE Up(p) /\ (WaitedFor(p) # {} \/ lane[p].followup)
  <2>1. Housekept(p) = Scheduled(l)
    BY <1>3, <1>6
  <2>2. Scheduled(l).abort = l.abort /\ Scheduled(l).sess = l.sess
    BY <1>2, LaneAborts
  <2> QED
    BY <1>2, <1>4, <1>5, <1>6, <2>1, <2>2, ScheduledLine DEF ClosesSession
<1>7. CASE ~(Up(p) /\ (WaitedFor(p) # {} \/ lane[p].followup)) /\ l.planned
  BY <1>2, <1>3, <1>4, <1>5, <1>7 DEF ClosesSession
<1>8. CASE ~(Up(p) /\ (WaitedFor(p) # {} \/ lane[p].followup)) /\ ~l.planned
  <2>1. Housekept(p) = SessionClosed(l)
    BY <1>3, <1>8
  <2>2. Line(Housekept(p), w)
    BY <1>2, <1>4, <2>1, ClosedFields DEF Line
  <2> QED
    BY <1>2, <1>5, <1>8, <2>1, <2>2, ClosedFields
<1> QED
  BY <1>6, <1>7, <1>8

-----------------------------------------------------------------------------

\* A step of one process.
OnlyAt(p) == \A q \in Procs : q # p => lane'[q] = lane[q] /\ task'[q] = task[q]

\* The line of p is left alone, and so is what the lane keeps for its calls.
LineKept(p) ==
    /\ lane'[p].up = lane[p].up /\ lane'[p].planned = lane[p].planned
    /\ lane'[p].queue = lane[p].queue
LaneKept(p) ==
    /\ LineKept(p) /\ lane'[p].abort = lane[p].abort
    /\ lane'[p].persist = lane[p].persist /\ lane'[p].followup = lane[p].followup

LEMMA UndisturbedAt ==
    ASSUME TypeInv, Undisturbed, NEW p \in Procs, OnlyAt(p), Kept(p)'
    PROVE  Undisturbed'
  BY DEF OnlyAt, Undisturbed, Kept, Windowing

\* What a move of a task writes.
LEMMA TaskWrites ==
    ASSUME TypeOK, NEW p \in Procs, NEW pc, task' = [task EXCEPT ![p].pc = pc]
    PROVE  /\ task'[p].pc = pc /\ task'[p].kind = task[p].kind /\ task'[p].of = task[p].of
           /\ task'[p].n = task[p].n /\ task'[p].rows = task[p].rows
           /\ task'[p].done = task[p].done /\ task'[p].conn = task[p].conn
           /\ \A q \in Procs : q # p => task'[q] = task[q]
<1>1. task[p] \in Tasks /\ task \in [Procs -> Tasks]
  BY DEF TypeOK
<1> QED
  BY <1>1 DEF Tasks

\* What telling the waiters of a lane writes.
LEMMA WaitersWrite ==
    ASSUME TypeOK, NEW p \in Procs, NEW t, NEW w,
           \/ lane' = lane
           \/ lane' = [lane EXCEPT ![p].waiters = w]
           \/ lane' = [lane EXCEPT ![p].waiters[t] = None]
    PROVE  LaneKept(p) /\ \A q \in Procs : q # p => lane'[q] = lane[q]
<1>1. lane[p] \in Lanes /\ lane \in [Procs -> Lanes]
  BY DEF TypeOK
<1>2. \A x : LET l == [lane[p] EXCEPT !.waiters = x]
             IN /\ l.up = lane[p].up /\ l.planned = lane[p].planned /\ l.queue = lane[p].queue
                /\ l.abort = lane[p].abort /\ l.persist = lane[p].persist
                /\ l.followup = lane[p].followup
  BY <1>1 DEF Lanes
<1>3. CASE lane' = lane
  BY <1>3 DEF LaneKept, LineKept
<1>4. CASE lane' = [lane EXCEPT ![p].waiters = w]
  <2>1. lane'[p] = [lane[p] EXCEPT !.waiters = w]
    BY <1>1, <1>4
  <2> QED
    BY <1>1, <1>2, <1>4, <2>1 DEF LaneKept, LineKept
<1>5. CASE lane' = [lane EXCEPT ![p].waiters[t] = None]
  <2>1. lane'[p] = [lane[p] EXCEPT !.waiters = [lane[p].waiters EXCEPT ![t] = None]]
    BY <1>1, <1>5
  <2> QED
    BY <1>1, <1>2, <1>5, <2>1 DEF LaneKept, LineKept
<1> QED
  BY <1>3, <1>4, <1>5

\* A query that throws for no disturbance has no session.
LEMMA Untroubled ==
    ASSUME TypeOK, trouble = 0, trouble' = 0
    PROVE  /\ \A k : ~Disturbed(k)
           /\ \A p \in Procs : QueryThrows(p) => ~task[p].conn
  BY DEF Disturbed, QueryThrows

\* A move of the task at the head of the lane.
LEMMA KeptMoves ==
    ASSUME TypeInv, Undisturbed, NEW p \in Procs, OnlyAt(p), LineKept(p),
           task[p].pc \notin {"idle", "house"}, task'[p].kind = task[p].kind,
           task[p].kind = "window" =>
               /\ lane'[p].abort = lane[p].abort
               /\ task[p].pc # "session" /\ task'[p].conn = task[p].conn
               /\ task[p].pc # "finally"
               /\ task'[p].pc \in {"acquire", "claim", "drive", "sweep", "release", "finally"}
    PROVE  Undisturbed'
<1>1. Kept(p)
  BY DEF Undisturbed
<1>2. Windowing(p)' = Windowing(p)
  BY DEF Windowing
<1>3. Line(lane'[p], Windowing(p)')
  BY <1>1, <1>2 DEF Line, Kept, LineKept
<1>4. lane[p].up # "down"
  BY <1>1 DEF Kept
<1>5. Kept(p)'
  BY <1>1, <1>2, <1>3, <1>4 DEF Kept, LineKept, Windowing
<1> QED
  BY <1>5, UndisturbedAt

LEMMA KeptBegins ==
    ASSUME TypeInv, Undisturbed, trouble = 0, trouble' = 0, NEW p \in Procs,
           \/ TaskStart(p) \/ TaskSession(p) \/ TaskSessionThrows(p)
           \/ ReconcileScan(p) \/ ReconcileScanThrows(p) \/ ResumeLook(p) \/ ResumeLookThrows(p)
    PROVE  Undisturbed'
<1> USE DEF TypeInv
<1>0. /\ lane[p] \in Lanes /\ task[p] \in Tasks /\ Kept(p)
      /\ lane \in [Procs -> Lanes] /\ task \in [Procs -> Tasks]
  BY DEF TypeOK, Undisturbed
<1>1. CASE TaskStart(p)
  <2> DEFINE item == Head(lane[p].queue)
             l == [lane[p] EXCEPT !.queue = Tail(lane[p].queue),
                                  !.abort = IF item.kind = "window" THEN "armed" ELSE lane[p].abort]
             x == [Idle EXCEPT !.kind = item.kind, !.of = item.of, !.pc = "session"]
  <2>1. lane[p].queue # <<>> /\ lane[p].up = "up" /\ task[p].pc = "idle"
    BY <1>0, <1>1 DEF TaskStart, Kept, At
  <2>2. lane' = [lane EXCEPT ![p] = l] /\ task' = [task EXCEPT ![p] = x]
    BY <1>1, <2>1 DEF TaskStart, Up
  <2>3. /\ l.up = lane[p].up /\ l.planned = lane[p].planned /\ l.queue = Tail(lane[p].queue)
        /\ item.kind = "window" => l.abort = "armed"
    BY <1>0 DEF Lanes
  <2>4. x.kind = item.kind /\ x.pc = "session"
    BY DEF Idle
  <2> HIDE DEF l, x
  <2>5. lane'[p] = l /\ task'[p] = x /\ OnlyAt(p)
    BY <1>0, <2>2 DEF OnlyAt
  <2>6. lane[p].queue \in Seq(LaneItems)
    BY <1>0 DEF Lanes
  <2>7. ~Windowing(p) /\ Line(lane[p], FALSE)
    <3>1. ~Windowing(p)
      BY <2>1 DEF Windowing
    <3> QED
      BY <1>0, <3>1 DEF Kept, Line
  <2>8. Windowing(p)' = (item.kind = "window")
    BY <2>4, <2>5 DEF Windowing
  <2> HIDE DEF item
  <2>9. Line(l, item.kind = "window")
    <3>1. CASE lane[p].planned
      <4>1. OneIn(lane[p].queue)
        BY <2>7, <3>1 DEF Line
      <4>2. IF item.kind = "window" THEN NoneIn(Tail(lane[p].queue))
            ELSE OneIn(Tail(lane[p].queue))
        BY <2>1, <2>6, <4>1, QueueOps DEF item
      <4> QED
        BY <2>3, <3>1, <4>2 DEF Line
    <3>2. CASE ~lane[p].planned
      <4>1. NoneIn(lane[p].queue)
        BY <2>7, <3>2 DEF Line
      <4>2. item.kind # "window" /\ NoneIn(Tail(lane[p].queue))
        BY <2>1, <2>6, <4>1, QueueOps DEF item
      <4> QED
        BY <2>3, <3>2, <4>2 DEF Line
    <3> QED
      BY <3>1, <3>2
  <2>10. Kept(p)'
    BY <1>0, <2>1, <2>3, <2>4, <2>5, <2>8, <2>9 DEF Kept, Windowing
  <2> QED
    BY <2>5, <2>10, UndisturbedAt
<1>2. CASE TaskSession(p)
  <2> DEFINE l == [lane[p] EXCEPT !.sess = TRUE]
  <2>1. PICK pc : /\ task' = [task EXCEPT ![p].conn = ~GuardRejects(p), ![p].pc = pc]
                  /\ pc = CASE task[p].kind = "window" -> "acquire"
                            [] task[p].kind = "reconcile" -> "scan"
                            [] OTHER -> "look"
    BY <1>2 DEF TaskSession
  <2> DEFINE x == [task[p] EXCEPT !.conn = ~GuardRejects(p), !.pc = pc]
  <2>2. lane' = [lane EXCEPT ![p] = l] /\ task' = [task EXCEPT ![p] = x]
        /\ task[p].pc = "session"
    BY <1>2, <2>1 DEF TaskSession, At
  <2>3. /\ l.up = lane[p].up /\ l.planned = lane[p].planned /\ l.queue = lane[p].queue
        /\ l.abort = lane[p].abort
    BY <1>0 DEF Lanes
  <2>4. /\ x.kind = task[p].kind /\ x.pc = pc /\ x.conn = ~GuardRejects(p)
        /\ IF task[p].kind = "window" THEN pc = "acquire" ELSE pc \in {"scan", "look"}
    BY <1>0, <2>1 DEF Tasks
  <2> HIDE DEF l, x
  <2>5. lane'[p] = l /\ task'[p] = x /\ OnlyAt(p)
    BY <1>0, <2>2 DEF OnlyAt
  <2>6. Windowing(p)' = Windowing(p) /\ lane[p].up # "down"
    BY <1>0, <2>2, <2>4, <2>5 DEF Windowing, Kept
  <2>7. Line(lane'[p], Windowing(p)')
    BY <1>0, <2>3, <2>5, <2>6 DEF Line, Kept
  <2>8. Kept(p)'
    BY <1>0, <2>3, <2>4, <2>5, <2>6, <2>7 DEF Kept, Windowing, GuardRejects
  <2> QED
    BY <2>5, <2>8, UndisturbedAt
<1>3. CASE TaskSessionThrows(p)
  BY <1>3, Untroubled DEF TaskSessionThrows
<1>4. CASE ReconcileScanThrows(p)
  <2>1. /\ task' = [task EXCEPT ![p] = Idle] /\ lane' = lane
        /\ task[p].pc = "scan"
    BY <1>4 DEF ReconcileScanThrows, At
  <2>2. task'[p] = Idle /\ OnlyAt(p)
    BY <1>0, <2>1 DEF OnlyAt
  <2>3. ~Windowing(p) /\ ~Windowing(p)' /\ lane[p].up # "down"
    BY <1>0, <2>1, <2>2 DEF Windowing, Kept, Idle
  <2>4. Kept(p)'
    BY <1>0, <2>1, <2>2, <2>3 DEF Kept, Line, Idle
  <2> QED
    BY <2>2, <2>4, UndisturbedAt
<1>5. CASE ReconcileScan(p) \/ ResumeLook(p) \/ ResumeLookThrows(p)
  <2> DEFINE l == [lane[p] EXCEPT !.abort = "armed"]
  <2>1. task[p].pc \in {"scan", "look"}
    BY <1>5 DEF ReconcileScan, ResumeLook, ResumeLookThrows, At
  <2>2. task[p].kind # "window"
    BY <1>0, <2>1 DEF Kept
  <2>3. /\ l.up = lane[p].up /\ l.planned = lane[p].planned /\ l.queue = lane[p].queue
    BY <1>0 DEF Lanes
  <2>4. lane' = lane \/ lane' = [lane EXCEPT ![p] = l]
    BY <1>5 DEF ReconcileScan, ResumeLook, ResumeLookThrows
  <2> HIDE DEF l
  <2>5. LineKept(p) /\ \A q \in Procs : q # p => lane'[q] = lane[q]
    BY <1>0, <2>3, <2>4 DEF LineKept
  <2>6. task'[p].kind = task[p].kind /\ \A q \in Procs : q # p => task'[q] = task[q]
    BY <1>0, <1>5 DEF ReconcileScan, ResumeLook, ResumeLookThrows, Goto, Tasks
  <2> QED
    BY <2>1, <2>2, <2>5, <2>6, KeptMoves DEF OnlyAt
<1> QED
  BY <1>1, <1>2, <1>3, <1>4, <1>5

LEMMA KeptWindow ==
    ASSUME TypeInv, Undisturbed, trouble = 0, trouble' = 0, NEW p \in Procs,
           \/ Acquire(p) \/ AcquireThrows(p) \/ Release(p) \/ ReleaseThrows(p)
           \/ LoopEnds(p) \/ Sweep(p)
    PROVE  Undisturbed'
<1> USE DEF TypeInv
<1>0. /\ task[p] \in Tasks /\ Kept(p)
  BY DEF TypeOK, Undisturbed
<1>1. /\ task[p].pc \in {"acquire", "release", "claim", "sweep"}
      /\ \E pc \in {"claim", "tidy", "finally", "sweep", "release"} :
            /\ task' = [task EXCEPT ![p].pc = pc]
            /\ task[p].kind = "window" => pc # "tidy"
  BY DEF Acquire, AcquireThrows, Release, ReleaseThrows, LoopEnds, Sweep, Goto, At, TurnedAway
<1>2. LaneKept(p) /\ \A q \in Procs : q # p => lane'[q] = lane[q]
  <2>1. CASE Sweep(p)
    BY <2>1, WaitersWrite DEF Sweep
  <2>2. CASE ~Sweep(p)
    BY <2>2, WaitersWrite DEF Acquire, AcquireThrows, Release, ReleaseThrows, LoopEnds
  <2> QED
    BY <2>1, <2>2
<1>4. PICK pc \in {"claim", "tidy", "finally", "sweep", "release"} :
            /\ task' = [task EXCEPT ![p].pc = pc]
            /\ task[p].kind = "window" => pc # "tidy"
  BY <1>1
<1>5. /\ task'[p].pc = pc /\ task'[p].kind = task[p].kind /\ task'[p].conn = task[p].conn
      /\ \A q \in Procs : q # p => task'[q] = task[q]
  BY <1>4, TaskWrites
<1> QED
  BY <1>1, <1>2, <1>4, <1>5, KeptMoves DEF OnlyAt, LaneKept

\* What a claim writes to its task.
LEMMA ClaimWrites ==
    ASSUME TypeOK, NEW p \in Procs, NEW t, NEW pc, task' = ClaimedTask(p, t, pc)
    PROVE  /\ task'[p].pc = pc /\ task'[p].kind = task[p].kind
           /\ task'[p].conn = task[p].conn
           /\ task'[p].of = IF pc = "drive" THEN t ELSE task[p].of
           /\ task'[p].n = IF pc = "drive" THEN trig[t].attempts + 1 ELSE task[p].n
           /\ task'[p].done = IF task[p].kind = "window" THEN task[p].done + 1 ELSE task[p].done
           /\ \A q \in Procs : q # p => task'[q] = task[q]
<1>1. task[p] \in Tasks /\ task \in [Procs -> Tasks]
  BY DEF TypeOK
<1> DEFINE x == [task[p] EXCEPT !.pc = pc, !.rows = task[p].rows \ {t},
                                !.of = IF pc = "drive" THEN t ELSE task[p].of,
                                !.n = IF pc = "drive" THEN trig[t].attempts + 1 ELSE task[p].n,
                                !.done = IF task[p].kind = "window" THEN task[p].done + 1
                                         ELSE task[p].done]
<1>2. task' = [task EXCEPT ![p] = x]
  BY DEF ClaimedTask
<1>3. /\ x.pc = pc /\ x.kind = task[p].kind /\ x.conn = task[p].conn
      /\ x.of = IF pc = "drive" THEN t ELSE task[p].of
      /\ x.n = IF pc = "drive" THEN trig[t].attempts + 1 ELSE task[p].n
      /\ x.done = IF task[p].kind = "window" THEN task[p].done + 1 ELSE task[p].done
  BY <1>1 DEF Tasks
<1> HIDE DEF x
<1>4. task'[p] = x /\ \A q \in Procs : q # p => task'[q] = task[q]
  BY <1>1, <1>2
<1> QED
  BY <1>3, <1>4

LEMMA KeptClaims ==
    ASSUME TypeInv, Undisturbed, NEW p \in Procs, NEW t \in Triggers,
           Claim(p, t) \/ ClaimExhausted(p, t) \/ ClaimDenied(p, t) \/ ClaimThrows(p, t)
    PROVE  Undisturbed'
<1> USE DEF TypeInv
<1>0. /\ task[p] \in Tasks /\ task[p].pc = "claim" /\ task \in [Procs -> Tasks]
  BY DEF TypeOK, Claim, ClaimExhausted, ClaimDenied, ClaimThrows, At
<1>1. LaneKept(p) /\ \A q \in Procs : q # p => lane'[q] = lane[q]
  BY WaitersWrite DEF Claim, ClaimExhausted, ClaimDenied, ClaimThrows
<1>2. /\ task'[p].kind = task[p].kind /\ task'[p].conn = task[p].conn
      /\ task'[p].pc \in {"drive", "claim", "release"}
      /\ \A q \in Procs : q # p => task'[q] = task[q]
  <2>1. CASE ClaimDenied(p, t)
    BY <1>0, <2>1 DEF ClaimDenied, Tasks
  <2>2. CASE ClaimThrows(p, t)
    BY <2>2, TaskWrites DEF ClaimThrows, Goto
  <2>3. CASE Claim(p, t)
    BY <2>3, ClaimWrites DEF Claim
  <2>4. CASE ClaimExhausted(p, t)
    <3>1. PICK pc \in {"claim", "release"} : task' = ClaimedTask(p, t, pc)
      BY <2>4 DEF ClaimExhausted
    <3> QED
      BY <3>1, ClaimWrites
  <2> QED
    BY <2>1, <2>2, <2>3, <2>4
<1> QED
  BY <1>0, <1>1, <1>2, KeptMoves DEF OnlyAt, LaneKept

\* Housekeeping that ends a task, or that finds its process without a window.
LEMMA KeptHouse ==
    ASSUME TypeInv, Undisturbed, NEW p \in Procs, lane' = [lane EXCEPT ![p] = Housekept(p)],
           \A q \in Procs : q # p => task'[q] = task[q],
           lane[p].up = "down" => task'[p].pc = task[p].pc,
           Windowing(p)' <=> Windowing(p),
           task'[p].kind = "window" =>
               /\ task'[p].pc \notin {"idle", "scan", "look", "tidy"}
               /\ Windowing(p) /\ task'[p].pc \notin {"session", "finally"} =>
                     task[p].pc \notin {"session", "finally"}
                     /\ (~ClosesSession(p) => task'[p].conn = task[p].conn)
    PROVE  Undisturbed'
<1>1. Kept(p) /\ Line(lane[p], Windowing(p)) /\ Windowing(p) \in BOOLEAN
  BY DEF Undisturbed, Kept, Windowing
<1>2. lane'[p] = Housekept(p) /\ OnlyAt(p)
  BY DEF TypeInv, TypeOK, OnlyAt
<1>3. Housekept(p).up = lane[p].up
  BY HousekeptAborts DEF TypeInv
<1> DEFINE w == Windowing(p)
<1>4. /\ Line(Housekept(p), w)
      /\ ClosesSession(p) => ~lane[p].planned
      /\ lane[p].planned => Housekept(p).abort = lane[p].abort
  BY <1>1, HousekeptLine DEF TypeInv
<1>5. w => lane[p].planned
  BY <1>1 DEF Line
<1> HIDE DEF w
<1>6. Line(lane'[p], Windowing(p)')
  BY <1>2, <1>4 DEF w, Line
<1>7. Windowing(p)' => task'[p].kind = "window" /\ w
  BY DEF Windowing, w
<1>8. Kept(p)'
  BY <1>1, <1>2, <1>3, <1>4, <1>5, <1>6, <1>7 DEF Kept, w
<1> QED
  BY <1>2, <1>8, UndisturbedAt

LEMMA KeptEnds ==
    ASSUME TypeInv, Undisturbed, NEW p \in Procs,
           DriveReturns(p) \/ WindowAborted(p) \/ TaskTidy(p) \/ TaskFinally(p) \/ TaskEnd(p)
    PROVE  Undisturbed'
<1> USE DEF TypeInv
<1>0. /\ lane[p] \in Lanes /\ task[p] \in Tasks /\ Kept(p)
      /\ lane \in [Procs -> Lanes] /\ task \in [Procs -> Tasks]
  BY DEF TypeOK, Undisturbed
<1>1. CASE DriveReturns(p) \/ WindowAborted(p)
  <2>1. LaneKept(p) /\ \A q \in Procs : q # p => lane'[q] = lane[q]
    BY <1>1, WaitersWrite DEF DriveReturns, WindowAborted
  <2>2. task[p].pc = "drive"
    BY <1>1 DEF DriveReturns, WindowAborted, At
  <2>3. /\ task'[p].kind = task[p].kind /\ task'[p].conn = task[p].conn
        /\ task'[p].pc \in {"release", "sweep", "claim"}
        /\ \A q \in Procs : q # p => task'[q] = task[q]
    <3>1. CASE DriveReturns(p)
      BY <1>0, <3>1 DEF DriveReturns, NextAfter, Tasks
    <3>2. CASE WindowAborted(p)
      <4>1. PICK pc \in {"release", "sweep"} : task' = [task EXCEPT ![p].pc = pc]
        BY <3>2 DEF WindowAborted, Goto
      <4> QED
        BY <4>1, TaskWrites
    <3> QED
      BY <1>1, <3>1, <3>2
  <2> QED
    BY <2>1, <2>2, <2>3, KeptMoves DEF OnlyAt, LaneKept
<1>2. CASE TaskTidy(p) \/ TaskEnd(p)
  <2>1. /\ lane' = [lane EXCEPT ![p] = Housekept(p)]
        /\ task[p].pc \in {"tidy", "house"}
    BY <1>2 DEF TaskTidy, TaskEnd, Housekeeping, At
  <2>2. lane[p].up # "down" /\ ~Windowing(p)
    BY <1>0, <2>1 DEF Kept, Windowing
  <2>3. task'[p].kind # "window" /\ \A q \in Procs : q # p => task'[q] = task[q]
    <3>1. CASE TaskTidy(p)
      <4>1. task[p].kind # "window"
        BY <1>0, <3>1 DEF Kept, TaskTidy, At
      <4>2. \/ task' = [task EXCEPT ![p] = Idle]
            \/ task' = [task EXCEPT ![p] = [task[p] EXCEPT !.pc = "finally"]]
        BY <3>1 DEF TaskTidy
      <4> QED
        BY <1>0, <4>1, <4>2 DEF Tasks, Idle
    <3>2. CASE TaskEnd(p)
      BY <1>0, <3>2 DEF TaskEnd, Idle
    <3> QED
      BY <1>2, <3>1, <3>2
  <2>4. ~Windowing(p)'
    BY <2>3 DEF Windowing
  <2> QED
    BY <2>1, <2>2, <2>3, <2>4, KeptHouse
<1>3. CASE TaskFinally(p)
  <2> DEFINE l == [lane[p] EXCEPT !.abort = "off",
                      !.planned = IF task[p].kind = "window" THEN FALSE ELSE lane[p].planned]
  <2>1. lane' = [lane EXCEPT ![p] = l] /\ task' = [task EXCEPT ![p].pc = "house"]
        /\ task[p].pc = "finally"
    BY <1>3 DEF TaskFinally, Goto, At
  <2>2. /\ l.up = lane[p].up /\ l.queue = lane[p].queue
        /\ l.planned = IF task[p].kind = "window" THEN FALSE ELSE lane[p].planned
    BY <1>0 DEF Lanes
  <2> HIDE DEF l
  <2>3. lane'[p] = l /\ OnlyAt(p) /\ task'[p].pc = "house" /\ task'[p].kind = task[p].kind
    BY <1>0, <2>1, TaskWrites DEF OnlyAt
  <2>4. /\ lane[p].up # "down" /\ ~Windowing(p)'
        /\ Windowing(p) <=> task[p].kind = "window"
    BY <1>0, <2>1, <2>3 DEF Kept, Windowing
  <2>5. Line(l, FALSE)
    BY <1>0, <2>2, <2>4 DEF Kept, Line
  <2>6. Line(lane'[p], Windowing(p)')
    BY <2>3, <2>4, <2>5 DEF Line
  <2>7. Kept(p)'
    BY <1>0, <2>2, <2>3, <2>4, <2>6 DEF Kept
  <2> QED
    BY <2>3, <2>7, UndisturbedAt
<1> QED
  BY <1>1, <1>2, <1>3

LEMMA KeptCallStep ==
    ASSUME TypeInv, Undisturbed, NEW c \in Calls, CallStep(c)
    PROVE  Undisturbed'
<1> USE DEF TypeInv
<1>0. \A q \in Procs : lane[q] \in Lanes /\ task[q] \in Tasks /\ Kept(q)
  BY DEF TypeOK, Undisturbed
<1>1. lane \in [Procs -> Lanes] /\ task \in [Procs -> Tasks]
  BY DEF TypeOK
<1>2. ASSUME NEW p \in Procs, NEW l, lane' = [lane EXCEPT ![p] = l], task' = task,
             l.up = lane[p].up, l.abort = lane[p].abort, Line(l, Windowing(p))
      PROVE  Undisturbed'
  <2>1. lane'[p] = l /\ OnlyAt(p) /\ Windowing(p)' = Windowing(p)
    BY <1>1, <1>2 DEF OnlyAt, Windowing
  <2>2. Line(lane'[p], Windowing(p)')
    BY <1>2, <2>1
  <2>3. Kept(p)'
    BY <1>0, <1>2, <2>1, <2>2 DEF Kept
  <2> QED
    BY <2>1, <2>3, UndisturbedAt
<1>3. ASSUME NEW p \in Procs, NEW t \in Triggers, EnqueuePersist(c, p, t) \/ EnqueueThrows(c, p, t)
      PROVE  Undisturbed'
  <2>1. PICK s, holder : lane' = [lane EXCEPT ![p] = [lane[p] EXCEPT !.sess = s, !.persist = holder]]
                         /\ task' = task
    <3>1. CASE EnqueuePersist(c, p, t)
      BY <3>1 DEF EnqueuePersist
    <3>2. CASE EnqueueThrows(c, p, t)
      <4>1. PICK opened \in BOOLEAN : lane' = [lane EXCEPT ![p].sess = @ \/ opened] /\ task' = task
        BY <3>2 DEF EnqueueThrows
      <4>2. [lane EXCEPT ![p].sess = @ \/ opened]
              = [lane EXCEPT ![p] = [lane[p] EXCEPT !.sess = lane[p].sess \/ opened,
                                                    !.persist = lane[p].persist]]
        BY <1>0, <1>1 DEF Lanes
      <4> QED
        BY <4>1, <4>2
    <3> QED
      BY <1>3, <3>1, <3>2
  <2> DEFINE l == [lane[p] EXCEPT !.sess = s, !.persist = holder]
  <2>2. /\ l.up = lane[p].up /\ l.abort = lane[p].abort /\ l.planned = lane[p].planned
        /\ l.queue = lane[p].queue
    BY <1>0 DEF Lanes
  <2> HIDE DEF l
  <2>3. Line(l, Windowing(p))
    BY <1>0, <2>2 DEF Line, Kept
  <2> QED
    BY <1>2, <2>1, <2>2, <2>3 DEF l
<1>4. CASE EnqueueRegister(c)
  <2> DEFINE p == call[c].proc
             freed == [lane[p] EXCEPT !.persist = None]
             m == [freed EXCEPT !.waiters[call[c].of] = c]
  <2>1. p \in Procs /\ call[c].of \in Triggers
    BY <1>4 DEF EnqueueRegister, CallKnown, Attending
  <2>2. freed \in Lanes /\ m \in Lanes
    BY <1>0, <2>1 DEF Lanes
  <2>3. /\ freed.up = lane[p].up /\ freed.abort = lane[p].abort
        /\ freed.planned = lane[p].planned /\ freed.queue = lane[p].queue
        /\ m.up = lane[p].up /\ m.abort = lane[p].abort
        /\ m.planned = lane[p].planned /\ m.queue = lane[p].queue
    BY <1>0, <2>1 DEF Lanes
  <2>4. task' = task /\ \/ lane' = [lane EXCEPT ![p] = freed]
                        \/ lane' = [lane EXCEPT ![p] = Scheduled(m)]
    BY <1>4 DEF EnqueueRegister
  <2> HIDE DEF p, freed, m
  <2>5. Line(freed, Windowing(p)) /\ Line(m, Windowing(p)) /\ Windowing(p) \in BOOLEAN
    BY <1>0, <2>1, <2>3 DEF Line, Kept, Windowing
  <2>6. /\ Line(Scheduled(m), Windowing(p)) /\ Scheduled(m).up = m.up
        /\ Scheduled(m).abort = m.abort
    BY <2>2, <2>5, ScheduledLine, LaneAborts
  <2> QED
    BY <1>2, <2>1, <2>3, <2>4, <2>5, <2>6
<1>5. CASE EnqueueReturn(c)
  <2>1. PICK p \in Procs : p = call[c].proc
    BY <1>5 DEF EnqueueReturn, CallKnown, Attending
  <2>2. /\ lane' = [lane EXCEPT ![p] = Housekept(p)]
        /\ task' = IF ClosesSession(p) THEN TaskDisconnected(p) ELSE task
    BY <1>5, <2>1 DEF EnqueueReturn, Housekeeping
  <2>3. /\ task'[p].kind = task[p].kind /\ task'[p].pc = task[p].pc
        /\ ~ClosesSession(p) => task'[p].conn = task[p].conn
        /\ \A q \in Procs : q # p => task'[q] = task[q]
    BY <1>0, <1>1, <2>1, <2>2 DEF TaskDisconnected, Tasks
  <2>4. Windowing(p)' <=> Windowing(p)
    BY <2>3 DEF Windowing
  <2>5. task[p].kind = "window" => task[p].pc \notin {"idle", "scan", "look", "tidy"}
    BY <1>0, <2>1 DEF Kept
  <2> QED
    BY <2>1, <2>2, <2>3, <2>4, <2>5, KeptHouse
<1> QED
  BY <1>3, <1>4, <1>5 DEF CallStep

LEMMA KeptEnvironment ==
    ASSUME TypeInv, Undisturbed, trouble = 0, trouble' = 0, NEW p \in Procs,
           LaneRequest(p) \/ Environment(p)
    PROVE  Undisturbed'
<1> USE DEF TypeInv
<1>0. /\ lane[p] \in Lanes /\ task[p] \in Tasks /\ Kept(p)
      /\ lane \in [Procs -> Lanes] /\ task \in [Procs -> Tasks]
  BY DEF TypeOK, Undisturbed
<1>1. ASSUME NEW item \in LaneItems, item.kind # "window", Requested(p, item)
      PROVE  Undisturbed'
  <2> DEFINE l == [lane[p] EXCEPT !.queue = Append(lane[p].queue, item)]
  <2>1. lane' = [lane EXCEPT ![p] = l] /\ task' = task /\ lane[p].up = "up"
    BY <1>1 DEF Requested, Up
  <2>2. /\ l.up = lane[p].up /\ l.abort = lane[p].abort /\ l.planned = lane[p].planned
        /\ l.queue = Append(lane[p].queue, item)
    BY <1>0 DEF Lanes
  <2>3. lane[p].queue \in Seq(LaneItems)
    BY <1>0 DEF Lanes
  <2> HIDE DEF l
  <2>4. lane'[p] = l /\ OnlyAt(p) /\ Windowing(p)' = Windowing(p)
    BY <1>0, <2>1 DEF OnlyAt, Windowing
  <2>5. Line(l, Windowing(p))
    BY <1>0, <1>1, <2>2, <2>3, QueueOps DEF Line, Kept
  <2>6. Line(lane'[p], Windowing(p)')
    BY <2>4, <2>5
  <2>7. Kept(p)'
    BY <1>0, <2>1, <2>2, <2>4, <2>6 DEF Kept
  <2> QED
    BY <2>4, <2>7, UndisturbedAt
<1>2. CASE Boot(p)
  <2> DEFINE q0 == <<[kind |-> "reconcile", of |-> None]>>
             l == [NewLane EXCEPT !.up = "up", !.queue = q0]
  <2>1. lane' = [lane EXCEPT ![p] = l] /\ task' = task /\ task[p].pc = "idle"
    BY <1>0, <1>2 DEF Boot, Kept
  <2>2. l.up = "up" /\ ~l.planned /\ l.queue = q0
    BY DEF NewLane
  <2>3. NoneIn(q0)
    BY DEF NoneIn
  <2> HIDE DEF l, q0
  <2>4. lane'[p] = l /\ OnlyAt(p)
    BY <1>0, <2>1 DEF OnlyAt
  <2>5. ~Windowing(p)' /\ task[p].kind # "window"
    BY <1>0, <2>1 DEF Windowing, Kept
  <2>6. Kept(p)'
    BY <2>1, <2>2, <2>3, <2>4, <2>5 DEF Kept, Line
  <2> QED
    BY <2>4, <2>6, UndisturbedAt
<1>3. ~(Watchdog(p) \/ InvalidateSession(p) \/ Crash(p) \/ StopBegin(p) \/ StopAborts(p)
        \/ StopEnds(p) \/ ProcessExits(p))
  BY <1>0, Untroubled DEF Watchdog, InvalidateSession, Crash, StopBegin, StopAborts, StopEnds,
                          ProcessExits, Kept
<1>4. CASE LaneRequest(p)
  <2>1. /\ [kind |-> "reconcile", of |-> None] \in LaneItems
        /\ \A t \in Triggers : [kind |-> "resume", of |-> t] \in LaneItems
    BY DEF LaneItems
  <2> QED
    BY <1>1, <1>4, <2>1 DEF LaneRequest, ReconcileRequested, ResumeRequested
<1> QED
  BY <1>2, <1>3, <1>4 DEF Environment

LEMMA KeptDriveStep ==
    ASSUME TypeInv, Undisturbed, NEW d \in Drives, DriveStep(d)
    PROVE  Undisturbed'
<1> USE DEF TypeInv
<1>1. task' = task
  BY DEF DriveStep, DriveLoad, DriveMark, DriveStart, DriveCancel, DriveEnd, DriveSettle,
         DriveThrows, Cascade, CascadeLost
<1>2. \A p \in Procs : LineKept(p) /\ lane'[p].abort = lane[p].abort
  <2>1. CASE lane' = lane
    BY <2>1 DEF LineKept
  <2>2. ASSUME NEW u \in Triggers, Cascade(d, u) \/ CascadeLost(d, u)
        PROVE  \A p \in Procs : LineKept(p) /\ lane'[p].abort = lane[p].abort
    <3> DEFINE l(p) == [lane[p] EXCEPT !.sess = TRUE, !.followup = TRUE]
               m(p) == [lane[p] EXCEPT !.sess = TRUE]
    <3>1. \/ lane' = [lane EXCEPT ![drv[d].proc] = l(drv[d].proc)]
          \/ lane' = [lane EXCEPT ![drv[d].proc] = m(drv[d].proc)]
      BY <2>2 DEF Cascade, CascadeLost
    <3>2. lane \in [Procs -> Lanes]
      BY DEF TypeOK
    <3>3. \A p \in Procs : /\ l(p).up = lane[p].up /\ l(p).abort = lane[p].abort
                           /\ l(p).planned = lane[p].planned /\ l(p).queue = lane[p].queue
                           /\ m(p).up = lane[p].up /\ m(p).abort = lane[p].abort
                           /\ m(p).planned = lane[p].planned /\ m(p).queue = lane[p].queue
      BY <3>2 DEF Lanes
    <3> HIDE DEF l, m
    <3> QED
      BY <3>1, <3>2, <3>3 DEF LineKept
  <2> QED
    BY <2>1, <2>2 DEF DriveStep, DriveLoad, DriveMark, DriveStart, DriveCancel, DriveEnd,
                      DriveSettle, DriveThrows
<1>3. ASSUME NEW p \in Procs PROVE Kept(p)'
  <2>1. Kept(p) /\ Windowing(p)' = Windowing(p)
    BY <1>1 DEF Undisturbed, Windowing
  <2>2. Line(lane'[p], Windowing(p)')
    BY <1>2, <2>1 DEF Kept, Line, LineKept
  <2> QED
    BY <1>1, <1>2, <2>1, <2>2 DEF Kept, LineKept
<1> QED
  BY <1>3 DEF Undisturbed

\* A disturbance is never forgotten.
LEMMA TroubleGrows == ASSUME [Next]_vars PROVE trouble' = trouble \/ trouble' = trouble + 1
<1>1. \A k : Disturbed(k) => trouble' = trouble + 1
  BY DEF Disturbed
<1>2. \A p : QueryThrows(p) \/ QueryAnswers(p) => trouble' = trouble \/ trouble' = trouble + 1
  BY <1>1 DEF QueryThrows, QueryAnswers
<1>3. ASSUME NEW c \in Calls, CallStep(c) PROVE trouble' = trouble \/ trouble' = trouble + 1
  BY <1>1, <1>3 DEF CallStep, EnqueuePersist, EnqueueThrows, EnqueueRegister, EnqueueReturn
<1>4. ASSUME NEW p \in Procs, TaskStep(p) PROVE trouble' = trouble \/ trouble' = trouble + 1
  BY <1>1, <1>2, <1>4
     DEF TaskStep, TaskStart, TaskSession, TaskSessionThrows, ReconcileScan,
         ReconcileScanThrows, ResumeLook, ResumeLookThrows, Acquire, AcquireThrows, Claim,
         ClaimExhausted, ClaimDenied, ClaimThrows, LoopEnds, DriveReturns, WindowAborted,
         Sweep, Release, ReleaseThrows, TaskTidy, TaskFinally, TaskEnd
<1>5. ASSUME NEW p \in Procs, LaneRequest(p) \/ Environment(p)
      PROVE  trouble' = trouble \/ trouble' = trouble + 1
  BY <1>1, <1>5 DEF LaneRequest, ReconcileRequested, ResumeRequested, Requested, Environment,
                    Watchdog, InvalidateSession, Crash, StopBegin, StopAborts, StopEnds,
                    ProcessExits, Boot
<1>6. ASSUME NEW d \in Drives, DriveStep(d) PROVE trouble' = trouble \/ trouble' = trouble + 1
  BY <1>1, <1>6 DEF DriveStep, DriveLoad, DriveMark, DriveStart, DriveCancel, DriveEnd,
                    DriveSettle, DriveThrows, Cascade, CascadeLost
<1>8. ASSUME NEW w \in sent, LateWrite(w) PROVE trouble' = trouble
  BY <1>8 DEF LateWrite
<1>7. CASE Expiry \/ UNCHANGED vars
  BY <1>1, <1>7 DEF Expiry, WindowLeaseExpires, TriggerLeaseExpires, vars
<1> QED
  BY <1>3, <1>4, <1>5, <1>6, <1>7, <1>8 DEF Next

LEMMA KeptNext ==
    ASSUME Typed, trouble = 0 => Undisturbed, [Next]_vars
    PROVE  trouble' = 0 => Undisturbed'
<1> SUFFICES ASSUME trouble' = 0 PROVE Undisturbed'
  OBVIOUS
<1> USE DEF Typed
<1>1. trouble = 0
  <2>1. trouble \in Nat
    BY RuntimeAssumption DEF TypeInv, TypeOK
  <2>2. trouble' = trouble \/ trouble' = trouble + 1
    BY TroubleGrows
  <2> QED
    BY <2>1, <2>2
<1>2. Undisturbed
  BY <1>1
<1>3. ASSUME NEW p \in Procs, TaskStep(p) PROVE Undisturbed'
  BY <1>1, <1>2, <1>3, KeptBegins, KeptWindow, KeptClaims, KeptEnds DEF TaskStep
<1>4. CASE Expiry \/ UNCHANGED vars \/ \E w \in sent : LateWrite(w)
  <2>1. lane' = lane /\ task' = task
    BY <1>4 DEF Expiry, WindowLeaseExpires, TriggerLeaseExpires, LateWrite, vars
  <2> QED
    BY <1>2, <2>1 DEF Undisturbed, Kept, Windowing
<1> QED
  BY <1>1, <1>2, <1>3, <1>4, KeptCallStep, KeptEnvironment, KeptDriveStep DEF Next

LEMMA UndisturbedAlways == Spec => [](Typed /\ (trouble = 0 => Undisturbed))
<1>1. Init => Typed /\ (trouble = 0 => Undisturbed)
  <2> SUFFICES ASSUME Init PROVE Typed /\ Undisturbed
    OBVIOUS
  <2>1. NoneIn(<<>>)
    BY DEF NoneIn
  <2>2. Undisturbed
    BY <2>1 DEF Init, Undisturbed, Kept, Line, Windowing, NewLane, Idle
  <2> QED
    BY <2>2, TypeInit DEF Typed, Init, TasksKnown, At, Idle
<1>2. Typed /\ (trouble = 0 => Undisturbed) /\ [Next]_vars
         => (Typed /\ (trouble = 0 => Undisturbed))'
  BY TypeNext, KeptNext
<1> QED
  BY <1>1, <1>2, PTL DEF Spec

\* As long as nothing disturbs the employee, no window loses its session, in whatever process:
\* housekeeping leaves the session of a lane that plans a window open (windowPlanned), and the
\* lane plans exactly the window it has.
THEOREM WindowsKeepTheirSession == Spec => [](trouble = 0 => WindowKeepsSession)
<1>1. Undisturbed => WindowKeepsSession
  BY DEF Undisturbed, Kept, Windowing, WindowKeepsSession, HoldsWindow
<1> QED
  BY <1>1, UndisturbedAlways, PTL

-----------------------------------------------------------------------------
(* What callers are told                                                   *)

Good == {"completed", "waiting"}

\* A step that answers a call which waits has found the answer in the row, or in the outcome of the
\* drive its task waits for.
AnswersKnown ==
    \A c \in Calls :
        /\ call[c].pc = "waiting" /\ call'[c].pc = "answered" /\ call'[c].answer \in Good
        /\ call[c].of \notin strays
        => trig' = trig /\ trig[call[c].of].status = call'[c].answer

LEMMA AnswersFound ==
    ASSUME RowsInv, [Next]_vars
    PROVE  AnswersKnown
<1> USE DEF TypeInv
<1>0. TypeInv /\ TasksKnown /\ call \in [Calls -> CallStates]
  BY DEF RowsInv, Typed, TypeOK
<1>1. CASE call' = call
  BY <1>1 DEF AnswersKnown
<1>2. ASSUME NEW cs, NEW answer \in Answers \cup {"none"}, call' = Answered(cs, answer)
      PROVE  \A c \in Calls : call'[c] = call[c] \/ (c \in cs /\ call'[c].answer = answer)
  <2>1. \A c \in Calls : [call[c] EXCEPT !.pc = "answered", !.answer = answer].answer = answer
    BY <1>0 DEF CallStates
  <2> QED
    BY <1>2, <2>1 DEF Answered
<1>3. ASSUME NEW cs, NEW answer \in {"failed", "coalesced"}, call' = Answered(cs, answer)
      PROVE  AnswersKnown
  BY <1>2, <1>3 DEF AnswersKnown, Good, Answers
<1>4. ASSUME NEW c \in Calls, CallStep(c) PROVE AnswersKnown
  <2>1. ASSUME NEW p \in Procs, NEW t \in Triggers, EnqueuePersist(c, p, t) PROVE AnswersKnown
    <3>1. call'[c].pc = "persisted" /\ \A e \in Calls : e # c => call'[e] = call[e]
      BY <1>0, <2>1 DEF EnqueuePersist
    <3> QED
      BY <3>1 DEF AnswersKnown
  <2>2. ASSUME NEW p \in Procs, NEW t \in Triggers, EnqueueThrows(c, p, t) PROVE AnswersKnown
    <3>1. call'[c].answer = "failed" /\ \A e \in Calls : e # c => call'[e] = call[e]
      BY <1>0, <2>2 DEF EnqueueThrows
    <3> QED
      BY <3>1 DEF AnswersKnown, Good
  <2>3. CASE EnqueueRegister(c)
    <3>1. ASSUME NEW e \in Calls, call[e].pc = "waiting" PROVE call'[e] = call[e] \/ call'[e].pc # "answered"
      <4>1. \/ call' = [call EXCEPT ![c].pc = "settled"]
            \/ call'[e] \in {[call[c] EXCEPT !.pc = "waiting", !.saw = "absent"],
                             [call[e] EXCEPT !.pc = "displaced"], call[e]}
        BY <2>3 DEF EnqueueRegister
      <4>2. /\ [call[c] EXCEPT !.pc = "waiting", !.saw = "absent"].pc = "waiting"
            /\ [call[e] EXCEPT !.pc = "displaced"].pc = "displaced"
            /\ [call[c] EXCEPT !.pc = "settled"].pc = "settled"
        BY <1>0 DEF CallStates
      <4> QED
        BY <1>0, <4>1, <4>2
    <3> QED
      BY <3>1 DEF AnswersKnown
  <2>4. CASE EnqueueReturn(c)
    <3> DEFINE a == Answered(Orphaned(call[c].proc), "failed")
               answer == IF call[c].saw = "completed" THEN "coalesced" ELSE call[c].saw
    <3>1. /\ call' = [a EXCEPT ![c].pc = "answered", ![c].answer = answer]
          /\ trig' = trig /\ call[c].pc = "settled"
      BY <2>4 DEF EnqueueReturn, db
    <3>2. ASSUME NEW e \in Calls
          PROVE  a[e] \in CallStates /\ (a[e] = call[e] \/ a[e].answer = "failed")
      <4>1. call[e] \in CallStates
        BY <1>0
      <4> DEFINE x == [call[e] EXCEPT !.pc = "answered", !.answer = "failed"]
      <4>2. x \in CallStates /\ x.answer = "failed"
        BY <4>1 DEF CallStates, Answers
      <4>3. a[e] = call[e] \/ a[e] = x
        BY DEF Answered
      <4> HIDE DEF a, x
      <4> QED
        BY <4>1, <4>2, <4>3
    <3>3. DOMAIN a = Calls
      BY DEF Answered
    <3> HIDE DEF a, answer
    <3>5. \A e \in Calls : e # c => call'[e] = a[e]
      BY <3>1, <3>3
    <3>6. ASSUME NEW e \in Calls, e # c PROVE call'[e] = call[e] \/ call'[e].answer = "failed"
      BY <3>2, <3>5, <3>6
    <3> QED
      BY <3>1, <3>6 DEF AnswersKnown, Good
  <2> QED
    BY <1>4, <2>1, <2>2, <2>3, <2>4 DEF CallStep
<1>5. ASSUME NEW p \in Procs, TaskStep(p) PROVE AnswersKnown
  <2>1. CASE Sweep(p)
    <3>1. PICK seen : call' = SweptCalls(p, seen)
      BY <2>1 DEF Sweep
    <3>2. trig' = trig
      BY <2>1 DEF Sweep, db
    <3>3. ASSUME NEW c \in Calls, call'[c] # call[c], call'[c].answer \in Good
          PROVE  trig[call[c].of].status = call'[c].answer
      <4>1. PICK s : s = trig[call[c].of].status
        OBVIOUS
      <4>2. call'[c] = [call[c] EXCEPT !.pc = "answered", !.answer = SweptAs(s)]
        BY <3>1, <3>3, <4>1 DEF SweptCalls
      <4>3. call'[c].answer = SweptAs(s)
        BY <1>0, <4>2 DEF CallStates
      <4>4. SweptAs(s) \in Good => SweptAs(s) = s
        BY DEF SweptAs, Good
      <4> QED
        BY <3>3, <4>1, <4>3, <4>4
    <3> QED
      BY <3>2, <3>3 DEF AnswersKnown
  <2>2. CASE DriveReturns(p)
    <3> DEFINE t == task[p].of
               out == drv[Driven(p)].out
               answer == IF out \in Answers THEN out ELSE "failed"
    <3>1. /\ At(p, "drive") /\ drv[Driven(p)].pc = "over" /\ trig' = trig
          /\ call' = call \/ call' = Answered(WaiterOf(p, t), answer)
      BY <2>2 DEF DriveReturns, db
    <3>3. t \in Triggers
      BY <1>0, <3>1 DEF TasksKnown, Driven, Drives
    <3>2. t \notin strays /\ out \in Good => trig[t].status = out
      BY <3>1, <3>3 DEF RowsInv, Steady, ToldTrue, Told, Good
    <3>4. answer \in Answers /\ (answer \in Good => answer = out)
      BY DEF Answers, Good
    <3> HIDE DEF t, out, answer
    <3>5. \A c \in WaiterOf(p, t) : call[c].of = t
      BY <1>0, <3>3 DEF WaiterOf, WaiterMatches
    <3>6. ASSUME NEW c \in Calls, call'[c] # call[c], call'[c].answer \in Good, call[c].of \notin strays
          PROVE  trig[call[c].of].status = call'[c].answer
      <4>1. c \in WaiterOf(p, t) /\ call'[c].answer = answer
        BY <1>2, <3>1, <3>4, <3>6
      <4> QED
        BY <3>2, <3>4, <3>5, <3>6, <4>1
    <3> QED
      BY <3>1, <3>6 DEF AnswersKnown
  <2>3. \/ call' = call \/ Sweep(p) \/ DriveReturns(p)
        \/ \E cs : \E answer \in {"failed", "coalesced"} : call' = Answered(cs, answer)
    BY <1>5 DEF TaskStep, TaskStart, TaskSession, TaskSessionThrows, ReconcileScan,
                ReconcileScanThrows, ResumeLook, ResumeLookThrows, Acquire, AcquireThrows, Claim,
                ClaimExhausted, ClaimDenied, ClaimThrows, LoopEnds, WindowAborted,
                Release, ReleaseThrows, TaskTidy, TaskFinally, TaskEnd, db
  <2> QED
    BY <1>1, <1>3, <2>1, <2>2, <2>3
<1>6. ASSUME NEW d \in Drives, DriveStep(d) PROVE call' = call
  BY <1>6 DEF DriveStep, DriveLoad, DriveMark, DriveStart, DriveCancel, DriveEnd, DriveSettle,
              DriveThrows, Cascade, CascadeLost
<1>7. ASSUME NEW p \in Procs, LaneRequest(p) \/ Environment(p) PROVE AnswersKnown
  <2>1. CASE Gone(p)
    <3>1. \A c \in Calls : [call[c] EXCEPT !.pc = "dropped"].pc = "dropped"
      BY <1>0 DEF CallStates
    <3> QED
      BY <2>1, <3>1 DEF Gone, AnswersKnown
  <2>2. call' = call \/ Gone(p) \/ \E cs : call' = Answered(cs, "failed")
    BY <1>7 DEF LaneRequest, ReconcileRequested, ResumeRequested, Requested, Environment, Watchdog,
                InvalidateSession, Crash, StopBegin, StopAborts, StopEnds, ProcessExits, Boot
  <2> QED
    BY <1>1, <1>3, <2>1, <2>2
<1>8. CASE Expiry \/ UNCHANGED vars \/ \E w \in sent : LateWrite(w)
  BY <1>1, <1>8 DEF Expiry, WindowLeaseExpires, TriggerLeaseExpires, LateWrite, vars
<1> QED
  BY <1>1, <1>4, <1>5, <1>6, <1>7, <1>8 DEF Next

\* What a waiter is told is true at that moment, unless its trigger was claimed from under somebody:
\* aborts, lost answers, late writes, resumes and leases that run out included (driveRun, settleWaiter,
\* sweepWaiters).
THEOREM AnswersTrue == Spec => AnswersAreTrue
<1>1. RowsInv /\ [Next]_vars =>
         [\A c \in Calls :
             call[c].pc = "waiting" /\ call'[c].pc = "answered"
             /\ call'[c].answer \in {"completed", "waiting"} /\ call[c].of \notin strays'
             => trig'[call[c].of].status = call'[c].answer]_vars
  <2> SUFFICES ASSUME RowsInv, [Next]_vars, NEW c \in Calls,
                      call[c].pc = "waiting", call'[c].pc = "answered",
                      call'[c].answer \in {"completed", "waiting"}, call[c].of \notin strays'
               PROVE  trig'[call[c].of].status = call'[c].answer
    OBVIOUS
  <2>1. call[c].of \notin strays
    BY StraysStay DEF RowsInv
  <2> QED
    BY <2>1, AnswersFound DEF AnswersKnown, Good
<1> QED
  BY <1>1, RowsAlways, PTL DEF Spec, AnswersAreTrue

=============================================================================
