--------------------------- MODULE TriggerRuntime ---------------------------
(***************************************************************************)
(* The durable trigger runtime of one virtual employee                     *)
(* (server/ai/office/employee-trigger-runtime.ts).                         *)
(*                                                                         *)
(* Several server processes share the workspace database: one row per      *)
(* trigger (status, lease, attempts), one employee_window row that keeps   *)
(* the windows of different processes apart, one run snapshot per trigger. *)
(* A process keeps a lane for the employee: a serial queue of tasks        *)
(* (windows, reconciles, resumes), a mutex on the session and on the       *)
(* persistence of deliveries, a cached session, and the waiters of the     *)
(* enqueue calls it has accepted.                                          *)
(*                                                                         *)
(* A step is what the code does between two awaits of one actor: an        *)
(* enqueue call, the task at the head of the lane, or a drive (driveRun or *)
(* the resumption of a run).  A drive abandoned by an aborted window keeps *)
(* running beside the tasks that follow.                                   *)
(*                                                                         *)
(* Queries answer, or throw with or without having taken effect, or are    *)
(* given up and take effect later; leases expire, under their holders too; *)
(* the watchdog, the lifecycle service and the operator abort windows;     *)
(* processes crash, stop and boot again.  Disturbances that a healthy      *)
(* deployment meets rarely are named by Troubles and counted against       *)
(* MaxTrouble.                                                             *)
(***************************************************************************)
EXTENDS Naturals, Sequences, FiniteSets

CONSTANTS
    Procs,          \* server processes
    Triggers,       \* idempotency keys, each the identity of one trigger row
    Calls,          \* enqueue calls
    KeysOf,         \* [Calls -> SUBSET Triggers]: the keys a call may carry
    Requests,       \* the lane tasks asked for besides the boot's: reconcile, resume
    Troubles,       \* the disturbances that may happen, out of TroubleKinds
    MaxTrouble,     \* bound: how many of them happen
    MaxAttempts,    \* limits.maxTriggerAttempts
    MaxPerWindow,   \* limits.maxTriggersPerWindow
    CascadesOf,     \* [Triggers -> SUBSET Triggers]: what a handler may cascade
    MaxChainDepth,  \* limits.maxChainDepth
    None

TroubleKinds == {"query", "lease", "watchdog", "closed", "crash", "stop"}

ASSUME RuntimeAssumption ==
    /\ IsFiniteSet(Triggers) /\ IsFiniteSet(Calls)
    /\ None \notin Procs /\ None \notin Triggers /\ None \notin Calls
    /\ KeysOf \in [Calls -> SUBSET Triggers]
    /\ CascadesOf \in [Triggers -> SUBSET Triggers]
    /\ Requests \subseteq {"reconcile", "resume"}
    /\ Troubles \subseteq TroubleKinds
    /\ MaxTrouble \in Nat
    /\ MaxAttempts \in Nat \ {0}
    /\ MaxPerWindow \in Nat \ {0}
    /\ MaxChainDepth \in Nat

VARIABLES
    trig,       \* employee_trigger rows
    arrivals,   \* the triggers in the order of created_at
    win,        \* the employee_window row
    snap,       \* status of the durable run's snapshot, per trigger
    sent,       \* writes whose query was given up, and which may still take effect
    late,       \* history: the processes whose window lease ran out under them
    strays,     \* history: the triggers claimed while somebody else was still at them
    lane,       \* per process, the in-memory lane of the employee
    task,       \* per process, the lane task that is executing
    drv,        \* per claim of a trigger, the execution that drives its run
    call,       \* the enqueue calls
    trouble     \* disturbances so far

db == <<trig, arrivals, win, snap, sent, late, strays>>
vars == <<trig, arrivals, win, snap, sent, late, strays, lane, task, drv, call, trouble>>

Statuses == {"absent", "pending", "leased", "running", "waiting", "completed", "failed"}
Final == {"completed", "failed"}
Leases == {"none", "live", "past"}
Snapshots == {"none", "running", "suspended", "success", "failed", "canceled"}
Aborts == {"off", "armed", "window-aborted", "window-lease-expired", "employee-session-closed"}
Answers == {"completed", "waiting", "coalesced", "failed"}

\* The n-th claim of a trigger gives at most one drive.
Drives == Triggers \X (1 .. MaxAttempts)

NoWaiters == [t \in Triggers |-> None]
NewLane == [up |-> "down", sess |-> FALSE, abort |-> "off", planned |-> FALSE,
            followup |-> FALSE, queue |-> <<>>, waiters |-> NoWaiters, persist |-> None]
Idle == [kind |-> "none", pc |-> "idle", of |-> None, n |-> 0, rows |-> {}, done |-> 0,
         conn |-> FALSE]
NoDrive == [pc |-> "none", kind |-> "run", proc |-> None, conn |-> FALSE,
            cut |-> FALSE, out |-> "none"]
Over(out) == [NoDrive EXCEPT !.pc = "over", !.out = out]
NoCall == [pc |-> "idle", proc |-> None, of |-> None, saw |-> "absent", answer |-> "none"]

Init ==
    /\ trig = [t \in Triggers |->
                 [status |-> "absent", lease |-> "none", attempts |-> 0, depth |-> 0]]
    /\ arrivals = <<>>
    /\ win = [holder |-> None, lease |-> "none"]
    /\ snap = [t \in Triggers |-> "none"]
    /\ sent = {} /\ late = {} /\ strays = {}
    /\ lane = [p \in Procs |-> NewLane]
    /\ task = [p \in Procs |-> Idle]
    /\ drv = [d \in Drives |-> NoDrive]
    /\ call = [c \in Calls |-> NoCall]
    /\ trouble = 0

-----------------------------------------------------------------------------
(* The lane                                                                *)

Up(p) == lane[p].up = "up"

\* A disturbance of kind k happens in this step.
Disturbed(k) ==
    /\ k \in Troubles
    /\ trouble < MaxTrouble
    /\ trouble' = trouble + 1

\* guardSession rejects every query of the lane while its window is aborted because
\* the session was closed.
GuardRejects(p) == lane[p].abort = "employee-session-closed"

\* A query of the task at the head of the lane, on the session it has captured: it
\* is answered, or throws because the session is dead, the database failed or the
\* deadline of the query passed.
QueryAnswers(p) == task[p].conn /\ UNCHANGED trouble

QueryThrows(p) == IF task[p].conn THEN Disturbed("query") ELSE UNCHANGED trouble

Aborted(p) == lane[p].abort \notin {"off", "armed"}

\* scheduleWindow
Scheduled(l) ==
    IF l.up = "up" /\ ~l.planned
    THEN [l EXCEPT !.planned = TRUE,
                   !.queue = Append(@, [kind |-> "window", of |-> None])]
    ELSE l

\* abortWindow: only a window that is under way and not aborted yet.
WithAbort(l, reason) == IF l.abort = "armed" THEN [l EXCEPT !.abort = reason] ELSE l

\* The session manager closes the lane's session and calls invalidateSession.
SessionClosed(l) ==
    IF l.sess THEN WithAbort([l EXCEPT !.sess = FALSE], "employee-session-closed") ELSE l

Active(d) == drv[d].pc \notin {"none", "over"}

\* A drive whose session is open: it may still write.
Connected(d) == Active(d) /\ drv[d].conn

\* The drives of p after its window is aborted (the driver's abort is kicked).
DrivesCut(p) ==
    [d \in Drives |-> IF drv[d].proc = p /\ Active(d)
                      THEN [drv[d] EXCEPT !.cut = TRUE] ELSE drv[d]]

\* The drives of p after its connection is closed.
DrivesDisconnected(p) ==
    [d \in Drives |-> IF drv[d].proc = p /\ Active(d)
                      THEN [drv[d] EXCEPT !.cut = TRUE, !.conn = FALSE] ELSE drv[d]]

TaskDisconnected(p) == [task EXCEPT ![p].conn = FALSE]

WaitedFor(p) == {t \in Triggers : lane[p].waiters[t] # None}
WaitersOf(p) == {lane[p].waiters[t] : t \in WaitedFor(p)}

\* settleWaiter and settleAllWaiters: the calls of a set get their answer.
Answered(cs, answer) ==
    [c \in Calls |-> IF c \in cs THEN [call[c] EXCEPT !.pc = "answered", !.answer = answer]
                     ELSE call[c]]

WaiterOf(p, t) == {lane[p].waiters[t]} \ {None}

-----------------------------------------------------------------------------
(* Trigger rows                                                            *)

\* Mutant of Claimable: a failed trigger may be tried again.
MutantClaimable(t) ==
    \/ trig[t].status \in {"pending", "failed"}
    \/ trig[t].status \in {"leased", "running"} /\ trig[t].lease \in {"none", "past"}

\* The claim's WHERE clause.
Claimable(t) ==
    \/ trig[t].status = "pending"
    \/ trig[t].status \in {"leased", "running"} /\ trig[t].lease \in {"none", "past"}

Inserted(t, depth) ==
    IF trig[t].status = "absent"
    THEN [trig EXCEPT ![t] = [status |-> "pending", lease |-> "none",
                              attempts |-> 0, depth |-> depth]]
    ELSE trig

ArrivalsWith(t) == IF trig[t].status = "absent" THEN Append(arrivals, t) ELSE arrivals

\* claimLease's assignments.
Leased(row) == [row EXCEPT !.status = "leased", !.lease = "live", !.attempts = @ + 1]

\* The claimable trigger claimNextPending selects: ORDER BY created_at LIMIT 1.
Oldest(t) ==
    \E i \in 1 .. Len(arrivals) :
        /\ arrivals[i] = t /\ Claimable(t)
        /\ \A j \in 1 .. i - 1 : ~Claimable(arrivals[j])

-----------------------------------------------------------------------------
(* Queries that are given up.  guardSession gives up a query after 15 s    *)
(* and does not cancel it: its write may take effect later, on a row that  *)
(* others have come to in the meantime.                                    *)

At(p, pc) == task[p].pc = pc
Goto(p, pc) == task' = [task EXCEPT ![p].pc = pc]

RowWrite(t, status) == [of |-> t, what |-> "row", value |-> status]
RunWrite(t, status) == [of |-> t, what |-> "run", value |-> status]
GuardedWrite(t, what) == [of |-> t, what |-> what, value |-> "none"]

\* Somebody is still at trigger t: a task that drives it, a drive that goes on without its task, or a
\* write of its row or its run that was given up.
Contested(t) ==
    \/ \E p \in Procs : At(p, "drive") /\ task[p].of = t
    \/ \E d \in Drives : d[1] = t /\ Connected(d)
    \/ \E w \in sent : w.of = t /\ w.what \in {"row", "run", "lease"}

\* Who claims t takes it from them, if there are any.
Straying(t) == strays' = IF Contested(t) THEN strays \cup {t} ELSE strays

\* clearTriggerLease
Unleased(t) ==
    IF trig[t].status \in {"leased", "running"} THEN [trig EXCEPT ![t].lease = "none"] ELSE trig

\* A write that was given up takes effect: what its WHERE clause asks for is asked now.
LateWrite(w) ==
    LET t == w.of IN
    /\ w \in sent /\ sent' = sent \ {w}
    /\ \/ w.what = "row" /\ trig' = [trig EXCEPT ![t].status = w.value] /\ UNCHANGED <<snap, strays>>
       \/ w.what = "run" /\ snap' = [snap EXCEPT ![t] = w.value] /\ UNCHANGED <<trig, strays>>
       \/ w.what = "lease" /\ trig' = Unleased(t) /\ UNCHANGED <<snap, strays>>
       \/ /\ w.what \in {"claim", "resume"}
          /\ IF Claimable(t) \/ (w.what = "resume" /\ trig[t].status = "waiting")
             THEN trig' = [trig EXCEPT ![t] = Leased(@)] /\ Straying(t)
             ELSE UNCHANGED <<trig, strays>>
          /\ UNCHANGED snap
    /\ UNCHANGED <<arrivals, win, late, lane, task, drv, call, trouble>>

-----------------------------------------------------------------------------
(* Housekeeping, under the persist mutex: after a task, and after an       *)
(* enqueue call that found its trigger settled.                            *)

\* Mutant of Housekept: whoever still waits is left to the next delivery.
MutantHousekeptIdle(p) ==
    LET l == [lane[p] EXCEPT !.followup = FALSE,
                             !.waiters = IF Up(p) THEN @ ELSE NoWaiters]
    IN IF Up(p) /\ lane[p].followup THEN Scheduled(l)
       ELSE IF l.planned THEN l
       ELSE SessionClosed(l)

\* Mutant of Housekept: the planned window is forgotten.
MutantHousekeptCloses(p) ==
    LET l == [lane[p] EXCEPT !.followup = FALSE,
                             !.waiters = IF Up(p) THEN @ ELSE NoWaiters]
    IN IF Up(p) /\ (WaitedFor(p) # {} \/ lane[p].followup) THEN Scheduled(l)
       ELSE SessionClosed(l)

\* The lane after housekeeping: a follow-up window when somebody still waits or a
\* handler has cascaded, else the session is closed unless a window is planned.
Housekept(p) ==
    LET l == [lane[p] EXCEPT !.followup = FALSE,
                             !.waiters = IF Up(p) THEN @ ELSE NoWaiters]
    IN IF Up(p) /\ (WaitedFor(p) # {} \/ lane[p].followup) THEN Scheduled(l)
       ELSE IF l.planned THEN l
       ELSE SessionClosed(l)

ClosesSession(p) == lane[p].sess /\ ~Housekept(p).sess

Housekeeping(p) ==
    /\ lane[p].persist = None
    /\ lane' = [lane EXCEPT ![p] = Housekept(p)]
    /\ drv' = IF ClosesSession(p) THEN DrivesDisconnected(p) ELSE drv

\* The waiters housekeeping fails because the runtime has been stopped.
Orphaned(p) == IF Up(p) THEN {} ELSE WaitersOf(p)

-----------------------------------------------------------------------------
(* enqueue                                                                 *)

\* The delivery is persisted (INSERT ... ON DUPLICATE KEY) through the lane's
\* session, opened when there is none; the answer carries the row as it stands.
EnqueuePersist(c, p, t) ==
    /\ call[c].pc = "idle" /\ t \in KeysOf[c]
    /\ Up(p) /\ lane[p].persist = None
    /\ ~GuardRejects(p)
    /\ trig' = Inserted(t, 0)
    /\ arrivals' = ArrivalsWith(t)
    /\ lane' = [lane EXCEPT ![p].sess = TRUE, ![p].persist = c]
    /\ call' = [call EXCEPT ![c] = [pc |-> "persisted", proc |-> p, of |-> t,
                                    saw |-> trig'[t].status, answer |-> "none"]]
    /\ UNCHANGED <<win, snap, sent, late, strays, task, drv, trouble>>

\* The session does not open, or the insert throws, maybe after it took effect.
EnqueueThrows(c, p, t) ==
    /\ call[c].pc = "idle" /\ t \in KeysOf[c]
    /\ Up(p) /\ lane[p].persist = None
    /\ IF GuardRejects(p) THEN UNCHANGED trouble ELSE Disturbed("query")
    /\ \E opened, landed \in BOOLEAN :
          /\ landed => opened
          /\ trig' = IF landed THEN Inserted(t, 0) ELSE trig
          /\ arrivals' = IF landed THEN ArrivalsWith(t) ELSE arrivals
          /\ lane' = [lane EXCEPT ![p].sess = @ \/ opened]
    /\ call' = [call EXCEPT ![c] = [pc |-> "answered", proc |-> p, of |-> t,
                                    saw |-> "absent", answer |-> "failed"]]
    /\ UNCHANGED <<win, snap, sent, late, strays, task, drv>>

\* Mutant of EnqueueRegister: the window is scheduled and the waiter left out.
MutantRegisterNoWaiter(c) ==
    LET p == call[c].proc
        t == call[c].of
    IN /\ call[c].pc = "persisted"
       /\ lane' = [lane EXCEPT ![p] = Scheduled([lane[p] EXCEPT !.persist = None])]
       /\ call' = [call EXCEPT ![c].pc =
                      IF call[c].saw \in Final \cup {"waiting"} THEN "settled" ELSE "waiting"]
       /\ UNCHANGED <<db, task, drv, trouble>>

\* The row comes back: a settled trigger is reported after housekeeping, any other
\* one gets a waiter, which takes the place of the waiter the key already had: that
\* one's promise is never settled.
EnqueueRegister(c) ==
    LET p == call[c].proc
        t == call[c].of
        freed == [lane[p] EXCEPT !.persist = None]
    IN /\ call[c].pc = "persisted"
       /\ IF call[c].saw \in Final \cup {"waiting"}
          THEN /\ call' = [call EXCEPT ![c].pc = "settled"]
               /\ lane' = [lane EXCEPT ![p] = freed]
          ELSE /\ call' = [e \in Calls |->
                              IF e = c THEN [call[c] EXCEPT !.pc = "waiting", !.saw = "absent"]
                              ELSE IF e = lane[p].waiters[t] THEN [call[e] EXCEPT !.pc = "displaced"]
                              ELSE call[e]]
               /\ lane' = [lane EXCEPT ![p] =
                              Scheduled([freed EXCEPT !.waiters[t] = c])]
       /\ UNCHANGED <<db, task, drv, trouble>>

\* The early returns of enqueue: housekeeping, then the answer.
EnqueueReturn(c) ==
    LET p == call[c].proc
        answer == IF call[c].saw = "completed" THEN "coalesced" ELSE call[c].saw
    IN /\ call[c].pc = "settled"
       /\ Housekeeping(p)
       /\ call' = [Answered(Orphaned(p), "failed") EXCEPT ![c].pc = "answered",
                                                          ![c].answer = answer]
       /\ task' = IF ClosesSession(p) THEN TaskDisconnected(p) ELSE task
       /\ UNCHANGED <<db, trouble>>

-----------------------------------------------------------------------------
(* The tasks of the lane                                                   *)

\* reconcile() and resumeTrigger() append a task to the lane's tail.  A bound: at
\* most one task beside the planned window waits in the queue.
Requested(p, item) ==
    /\ Up(p) /\ item.kind \in Requests
    /\ Cardinality({i \in 1 .. Len(lane[p].queue) : lane[p].queue[i].kind # "window"}) = 0
    /\ lane' = [lane EXCEPT ![p].queue = Append(@, item)]
    /\ UNCHANGED <<db, task, drv, call, trouble>>

ReconcileRequested(p) == Requested(p, [kind |-> "reconcile", of |-> None])
ResumeRequested(p, t) ==
    trig[t].status = "waiting" /\ Requested(p, [kind |-> "resume", of |-> t])

\* The next task begins: a window gets its slot and arms its abort controller; on a
\* stopped runtime the window goes to its finally, the other tasks return at once.
TaskStart(p) ==
    /\ At(p, "idle") /\ lane[p].queue # <<>> /\ lane[p].up \notin {"down", "stopped"}
    /\ LET item == Head(lane[p].queue)
           isWindow == item.kind = "window"
       IN /\ lane' = [lane EXCEPT ![p].queue = Tail(@),
                                  ![p].abort = IF isWindow THEN "armed" ELSE @]
          /\ task' = IF Up(p) \/ isWindow
                     THEN [task EXCEPT ![p] = [Idle EXCEPT !.kind = item.kind, !.of = item.of,
                                                !.pc = IF Up(p) THEN "session" ELSE "finally"]]
                     ELSE task
    /\ UNCHANGED <<db, drv, call, trouble>>

\* ensureLaneSession, under the persist mutex.
TaskSession(p) ==
    /\ At(p, "session") /\ lane[p].persist = None
    /\ lane' = [lane EXCEPT ![p].sess = TRUE]
    /\ task' = [task EXCEPT ![p].conn = ~GuardRejects(p),
                            ![p].pc = CASE task[p].kind = "window" -> "acquire"
                                        [] task[p].kind = "reconcile" -> "scan"
                                        [] OTHER -> "look"]
    /\ UNCHANGED <<db, drv, call, trouble>>

\* The session does not open: a window fails its waiters; reconcile and resume
\* return without housekeeping.
TaskSessionThrows(p) ==
    /\ At(p, "session") /\ lane[p].persist = None
    /\ Disturbed("query")
    /\ IF task[p].kind = "window"
       THEN /\ call' = Answered(WaitersOf(p), "failed")
            /\ lane' = [lane EXCEPT ![p].waiters = NoWaiters]
            /\ Goto(p, "finally")
       ELSE /\ task' = [task EXCEPT ![p] = Idle]
            /\ UNCHANGED <<lane, call>>
    /\ UNCHANGED <<db, drv>>

\* reconcile reads the claimable rows; with some, it takes a slot and arms its abort.
ReconcileScan(p) ==
    LET rows == {t \in Triggers : Claimable(t)}
    IN /\ At(p, "scan") /\ QueryAnswers(p)
       /\ IF rows = {}
          THEN Goto(p, "tidy") /\ UNCHANGED lane
          ELSE /\ task' = [task EXCEPT ![p].pc = "acquire", ![p].rows = rows]
               /\ lane' = [lane EXCEPT ![p].abort = "armed"]
       /\ UNCHANGED <<db, drv, call>>

\* The scan is outside reconcile's try: the task ends without housekeeping.
ReconcileScanThrows(p) ==
    /\ At(p, "scan") /\ QueryThrows(p)
    /\ task' = [task EXCEPT ![p] = Idle]
    /\ UNCHANGED <<db, lane, drv, call>>

\* resumeTrigger reads its row; it goes on only with a waiting one.
ResumeLook(p) ==
    /\ At(p, "look") /\ QueryAnswers(p)
    /\ IF trig[task[p].of].status = "waiting"
       THEN Goto(p, "acquire") /\ lane' = [lane EXCEPT ![p].abort = "armed"]
       ELSE Goto(p, "finally") /\ UNCHANGED lane
    /\ UNCHANGED <<db, drv, call>>

ResumeLookThrows(p) ==
    /\ At(p, "look") /\ QueryThrows(p)
    /\ Goto(p, "finally")
    /\ UNCHANGED <<db, lane, drv, call>>

-----------------------------------------------------------------------------
(* The employee_window row.  The nonce of a holder is its process: a       *)
(* process has one window at a time, and acquires before it releases.      *)

WindowFree == win.lease # "live"

\* Where a task goes when it may not run a window.
TurnedAway(p) == IF task[p].kind = "reconcile" THEN "tidy" ELSE "finally"

\* acquireWindow: a free row changes hands; a live one turns the task away, and a
\* window then answers all its waiters "coalesced".
Acquire(p) ==
    /\ At(p, "acquire") /\ QueryAnswers(p)
    /\ IF WindowFree
       THEN /\ win' = [holder |-> p, lease |-> "live"] /\ late' = late \ {p}
            /\ Goto(p, "claim")
            /\ UNCHANGED <<lane, call>>
       ELSE /\ Goto(p, TurnedAway(p))
            /\ IF task[p].kind = "window"
               THEN /\ call' = Answered(WaitersOf(p), "coalesced")
                    /\ lane' = [lane EXCEPT ![p].waiters = NoWaiters]
               ELSE UNCHANGED <<lane, call>>
            /\ UNCHANGED <<win, late>>
    /\ UNCHANGED <<trig, arrivals, snap, sent, strays, drv>>

AcquireThrows(p) ==
    /\ At(p, "acquire") /\ QueryThrows(p)
    /\ \E landed \in BOOLEAN :
          win' = IF landed /\ WindowFree THEN [holder |-> p, lease |-> "live"] ELSE win
    /\ Goto(p, TurnedAway(p))
    /\ IF task[p].kind = "window"
       THEN /\ call' = Answered(WaitersOf(p), "failed")
            /\ lane' = [lane EXCEPT ![p].waiters = NoWaiters]
       ELSE UNCHANGED <<lane, call>>
    /\ UNCHANGED <<trig, arrivals, snap, sent, late, strays, drv>>

\* Mutant of Release: the row is freed whoever holds it.
MutantReleaseAny(p) ==
    /\ At(p, "release") /\ QueryAnswers(p)
    /\ win' = [holder |-> None, lease |-> "none"]
    /\ Goto(p, "finally")
    /\ UNCHANGED <<trig, arrivals, snap, sent, late, strays, lane, drv, call>>

\* releaseWindow: WHERE holder = $holder.
Release(p) ==
    /\ At(p, "release") /\ QueryAnswers(p)
    /\ win' = IF win.holder = p THEN [holder |-> None, lease |-> "none"] ELSE win
    /\ Goto(p, "finally")
    /\ UNCHANGED <<trig, arrivals, snap, sent, late, strays, lane, drv, call>>

\* A failed release is ignored: the row stays held until its lease expires.
ReleaseThrows(p) ==
    /\ At(p, "release") /\ QueryThrows(p)
    /\ \E landed \in BOOLEAN :
          win' = IF landed /\ win.holder = p THEN [holder |-> None, lease |-> "none"] ELSE win
    /\ Goto(p, "finally")
    /\ UNCHANGED <<trig, arrivals, snap, sent, late, strays, lane, drv, call>>

-----------------------------------------------------------------------------
(* Claiming triggers in a window                                           *)

\* The loop of a window or of a reconcile goes on.  A resume claims once.
LoopGoesOn(p) ==
    CASE task[p].kind = "window" -> Up(p) /\ ~Aborted(p) /\ task[p].done < MaxPerWindow
      [] task[p].kind = "reconcile" -> Up(p) /\ ~Aborted(p) /\ task[p].rows # {}
      [] OTHER -> TRUE

\* The trigger the task tries next.
Tries(p, t) ==
    CASE task[p].kind = "window" -> Oldest(t)
      [] task[p].kind = "reconcile" -> t \in task[p].rows
      [] OTHER -> t = task[p].of

\* claimLease's WHERE clause; a resume also claims a waiting row.
Granted(p, t) ==
    Claimable(t) \/ (task[p].kind = "resume" /\ trig[t].status = "waiting")

ClaimedTask(p, t, pc) ==
    [task EXCEPT ![p].pc = pc, ![p].rows = @ \ {t},
                 ![p].of = IF pc = "drive" THEN t ELSE @,
                 ![p].n = IF pc = "drive" THEN trig[t].attempts + 1 ELSE @,
                 ![p].done = IF task[p].kind = "window" THEN @ + 1 ELSE @]

\* The claim takes effect and the task starts driving the trigger's run.
Claim(p, t) ==
    /\ At(p, "claim") /\ LoopGoesOn(p) /\ Tries(p, t) /\ Granted(p, t)
    /\ trig[t].attempts < MaxAttempts
    /\ QueryAnswers(p)
    /\ trig' = [trig EXCEPT ![t] = Leased(@)] /\ Straying(t)
    /\ task' = ClaimedTask(p, t, "drive")
    /\ drv' = [drv EXCEPT ![<<t, trig[t].attempts + 1>>] =
                  [pc |-> "load", kind |-> IF task[p].kind = "resume" THEN "resume" ELSE "run",
                   proc |-> p, conn |-> TRUE, cut |-> Aborted(p), out |-> "none"]]
    /\ UNCHANGED <<arrivals, win, snap, sent, late, lane, call>>

\* exhaustAttempts: one claim too many is a final failure; its write is best effort, and may be late.
ClaimExhausted(p, t) ==
    /\ At(p, "claim") /\ LoopGoesOn(p) /\ Tries(p, t) /\ Granted(p, t)
    /\ trig[t].attempts >= MaxAttempts
    /\ task[p].conn
    /\ \/ /\ trig' = [trig EXCEPT ![t] = [Leased(@) EXCEPT !.status = "failed"]]
          /\ UNCHANGED <<sent, trouble>>
       \/ /\ Disturbed("query")
          /\ trig' = [trig EXCEPT ![t] = Leased(@)]
          /\ sent' = sent \/ sent' = sent \cup {RowWrite(t, "failed")}
    /\ Straying(t)
    /\ task' = ClaimedTask(p, t, IF task[p].kind = "resume" THEN "release" ELSE "claim")
    /\ call' = Answered(WaiterOf(p, t), "failed")
    /\ lane' = [lane EXCEPT ![p].waiters[t] = None]
    /\ UNCHANGED <<arrivals, win, snap, late, drv>>

\* The row has gone to somebody else: reconcile passes on, resume gives up.
ClaimDenied(p, t) ==
    /\ At(p, "claim") /\ LoopGoesOn(p) /\ Tries(p, t) /\ ~Granted(p, t)
    /\ QueryAnswers(p)
    /\ task' = IF task[p].kind = "resume"
               THEN [task EXCEPT ![p].pc = "release"]
               ELSE [task EXCEPT ![p].rows = @ \ {t}]
    /\ UNCHANGED <<db, lane, drv, call>>

\* The query throws, maybe after the claim took effect, or before it does: a window fails its waiters.
ClaimThrows(p, t) ==
    /\ At(p, "claim") /\ LoopGoesOn(p) /\ Tries(p, t)
    /\ QueryThrows(p)
    /\ \/ /\ task[p].conn /\ Granted(p, t)
          /\ trig' = [trig EXCEPT ![t] = Leased(@)] /\ Straying(t) /\ UNCHANGED sent
       \/ /\ task[p].conn
          /\ sent' = sent \cup {GuardedWrite(t, IF task[p].kind = "resume" THEN "resume" ELSE "claim")}
          /\ UNCHANGED <<trig, strays>>
       \/ UNCHANGED <<trig, strays, sent>>
    /\ Goto(p, "release")
    /\ IF task[p].kind = "window"
       THEN /\ call' = Answered(WaitersOf(p), "failed")
            /\ lane' = [lane EXCEPT ![p].waiters = NoWaiters]
       ELSE UNCHANGED <<lane, call>>
    /\ UNCHANGED <<arrivals, win, snap, late, drv>>

\* The loop ends: nothing to claim, the bound reached, stopped or aborted.
LoopEnds(p) ==
    /\ At(p, "claim")
    /\ \/ ~LoopGoesOn(p)
       \/ task[p].kind = "window" /\ (\A t \in Triggers : ~Oldest(t)) /\ task[p].conn
    /\ Goto(p, "sweep")
    /\ UNCHANGED <<db, lane, drv, call, trouble>>

-----------------------------------------------------------------------------
(* Driving the durable run of a claimed trigger                            *)

SetStatus(d, status) == trig' = [trig EXCEPT ![d[1]].status = status]

\* What a run's status means for its trigger.
OutcomeOf == [success |-> "completed", suspended |-> "waiting",
              failed |-> "failed", canceled |-> "failed"]

\* loadRunState and the decision on the snapshot's status.
DriveLoad(d) ==
    LET s == snap[d[1]]
        resume == drv[d].kind = "resume"
    IN /\ drv[d].pc = "load" /\ drv[d].conn
       /\ drv' = [drv EXCEPT ![d] =
             IF s = (IF resume THEN "suspended" ELSE "running") \/ (s = "none" /\ ~resume)
             THEN [@ EXCEPT !.pc = "mark"]
             ELSE IF s = "none" THEN [@ EXCEPT !.pc = "settle", !.out = "failed"]
             ELSE IF resume THEN Over("refused")
             ELSE [@ EXCEPT !.pc = "settle", !.out = OutcomeOf[s]]]
       /\ UNCHANGED <<db, lane, task, call, trouble>>

\* setStatus "running", unconditionally.
DriveMark(d) ==
    /\ drv[d].pc = "mark" /\ drv[d].conn
    /\ SetStatus(d, "running")
    /\ drv' = [drv EXCEPT ![d].pc = "start"]
    /\ UNCHANGED <<arrivals, win, snap, sent, late, strays, lane, task, call, trouble>>

\* The abort check, then start, restart or resume of the run: the snapshot is running.
DriveStart(d) ==
    /\ drv[d].pc = "start"
    /\ IF drv[d].cut
       THEN /\ drv' = [drv EXCEPT ![d] = Over("aborted")]
            /\ UNCHANGED snap
       ELSE /\ drv[d].conn
            /\ drv' = [drv EXCEPT ![d].pc = "exec"]
            /\ snap' = [snap EXCEPT ![d[1]] = "running"]
    /\ UNCHANGED <<trig, arrivals, win, sent, late, strays, lane, task, call, trouble>>

\* run.cancel of an aborted window's driver: the snapshot becomes canceled.
DriveCancel(d) ==
    /\ drv[d].pc = "exec" /\ drv[d].cut /\ drv[d].conn
    /\ snap[d[1]] = "running"
    /\ snap' = [snap EXCEPT ![d[1]] = "canceled"]
    /\ UNCHANGED <<trig, arrivals, win, sent, late, strays, lane, task, drv, call, trouble>>

\* The workflow ends and stores its snapshot; a canceled one is overwritten only by
\* success.  A cut drive goes no further, unless it succeeded in a window.
DriveEnd(d, r) ==
    LET t == d[1]
    IN /\ drv[d].pc = "exec" /\ drv[d].conn
       /\ snap' = [snap EXCEPT ![t] = IF @ = "canceled" /\ r # "success" THEN @ ELSE r]
       /\ drv' = [drv EXCEPT ![d] =
             IF drv[d].cut /\ (r # "success" \/ drv[d].kind = "resume")
             THEN Over("aborted")
             ELSE [@ EXCEPT !.pc = "settle", !.out = OutcomeOf[r]]]
       /\ UNCHANGED <<trig, arrivals, win, sent, late, strays, lane, task, call, trouble>>

\* Mutant of DriveSettle: only final outcomes are written.
MutantSettleFinalOnly(d) ==
    /\ drv[d].pc = "settle" /\ drv[d].conn
    /\ IF drv[d].out \in Final THEN SetStatus(d, drv[d].out) ELSE UNCHANGED trig
    /\ drv' = [drv EXCEPT ![d] = Over(drv[d].out)]
    /\ UNCHANGED <<arrivals, win, snap, sent, late, strays, lane, task, call, trouble>>

\* setStatus with the outcome, unconditionally: no lease, no holder, no status is
\* checked.
DriveSettle(d) ==
    /\ drv[d].pc = "settle" /\ drv[d].conn
    /\ SetStatus(d, drv[d].out)
    /\ drv' = [drv EXCEPT ![d] = Over(drv[d].out)]
    /\ UNCHANGED <<arrivals, win, snap, sent, late, strays, lane, task, call, trouble>>

\* What the query writes that the drive awaits.
Writing(d) ==
    LET t == d[1] IN
    CASE drv[d].pc = "mark" -> {RowWrite(t, "running")}
      [] drv[d].pc = "settle" -> {RowWrite(t, drv[d].out)}
      [] drv[d].pc = "start" -> {RunWrite(t, "running")}
      [] drv[d].pc = "exec" -> {RunWrite(t, r) : r \in {"success", "suspended", "failed"}}
      [] OTHER -> {}

\* A query of the drive throws: without effect, after a status write took effect, or before a write
\* does.  A closed session writes no more.
DriveThrows(d) ==
    /\ drv[d].pc \in {"load", "mark", "start", "exec", "settle"}
    /\ ~(drv[d].pc = "start" /\ drv[d].cut)
    /\ IF drv[d].conn THEN Disturbed("query") ELSE UNCHANGED trouble
    /\ \/ UNCHANGED <<trig, sent>>
       \/ drv[d].conn /\ drv[d].pc = "mark" /\ SetStatus(d, "running") /\ UNCHANGED sent
       \/ drv[d].conn /\ drv[d].pc = "settle" /\ SetStatus(d, drv[d].out) /\ UNCHANGED sent
       \/ drv[d].conn /\ (\E w \in Writing(d) : sent' = sent \cup {w}) /\ UNCHANGED trig
    /\ drv' = [drv EXCEPT ![d] = Over("threw")]
    /\ UNCHANGED <<arrivals, win, snap, late, strays, lane, task, call>>

\* ctx.emit in the handler: a child delivery to the same employee is persisted and
\* asks for a follow-up window; its chain depth is the parent's plus one.
Cascade(d, u) ==
    LET p == drv[d].proc
        depth == trig[d[1]].depth + 1
    IN /\ drv[d].pc = "exec" /\ u \in CascadesOf[d[1]]
       /\ depth <= MaxChainDepth
       /\ lane[p].persist = None /\ ~GuardRejects(p)
       /\ trig' = Inserted(u, depth)
       /\ arrivals' = ArrivalsWith(u)
       /\ lane' = [lane EXCEPT ![p].sess = TRUE, ![p].followup = TRUE]
       /\ UNCHANGED <<win, snap, sent, late, strays, task, drv, call, trouble>>

\* The INSERT takes effect and its answer is lost: the handler is told that it failed, and nobody
\* asks for a follow-up window.
CascadeLost(d, u) ==
    LET p == drv[d].proc
        depth == trig[d[1]].depth + 1
    IN /\ drv[d].pc = "exec" /\ u \in CascadesOf[d[1]]
       /\ depth <= MaxChainDepth
       /\ lane[p].persist = None /\ ~GuardRejects(p)
       /\ Disturbed("query")
       /\ trig' = Inserted(u, depth)
       /\ arrivals' = ArrivalsWith(u)
       /\ lane' = [lane EXCEPT ![p].sess = TRUE]
       /\ UNCHANGED <<win, snap, sent, late, strays, task, drv, call>>

-----------------------------------------------------------------------------
(* The end of a drive, of a window and of a task                           *)

Driven(p) == <<task[p].of, task[p].n>>

NextAfter(p, out) ==
    IF task[p].kind = "resume" THEN "release"
    ELSE IF out = "threw" THEN "sweep" ELSE "claim"

\* The drive returns or throws and the window is not aborted: the trigger's waiter
\* gets the outcome.  resumeTrigger answers its own caller instead.
DriveReturns(p) ==
    LET t == task[p].of
        out == drv[Driven(p)].out
        answer == IF out \in Answers THEN out ELSE "failed"
    IN /\ At(p, "drive") /\ drv[Driven(p)].pc = "over"
       /\ ~Aborted(p) \/ task[p].kind = "resume"
       /\ task' = [task EXCEPT ![p].pc = NextAfter(p, out), ![p].of = None, ![p].n = 0]
       /\ drv' = [drv EXCEPT ![Driven(p)] = NoDrive]
       /\ IF task[p].kind = "resume" THEN UNCHANGED <<lane, call>>
          ELSE /\ call' = Answered(WaiterOf(p, t), answer)
               /\ lane' = [lane EXCEPT ![p].waiters[t] = None]
       /\ UNCHANGED <<db, trouble>>

\* The abort wins the race with the drive, which goes on alone: the waiter fails and
\* the trigger's lease is cleared, best effort.  resumeTrigger races the abort only
\* while its run executes.
WindowAborted(p) ==
    LET t == task[p].of
        resume == task[p].kind = "resume"
    IN /\ At(p, "drive") /\ Aborted(p)
       /\ resume => drv[Driven(p)].pc = "exec"
       /\ \/ QueryAnswers(p) /\ trig' = Unleased(t) /\ UNCHANGED sent
          \/ QueryThrows(p) /\ UNCHANGED <<trig, sent>>
          \/ task[p].conn /\ QueryThrows(p) /\ sent' = sent \cup {GuardedWrite(t, "lease")} /\ UNCHANGED trig
       /\ Goto(p, IF resume THEN "release" ELSE "sweep")
       /\ IF resume THEN UNCHANGED <<lane, call>>
          ELSE /\ call' = Answered(WaiterOf(p, t), "failed")
               /\ lane' = [lane EXCEPT ![p].waiters[t] = None]
       /\ UNCHANGED <<arrivals, win, snap, late, strays, drv>>

\* What sweepWaiters answers for the status of a row; a pending one is left to the
\* next window.
SweptAs(status) ==
    CASE status \in {"completed", "failed", "waiting"} -> status
      [] status = "pending" -> "none"
      [] OTHER -> "coalesced"

SweptCalls(p, seen) ==
    [c \in Calls |->
        IF \E t \in seen : lane[p].waiters[t] = c /\ SweptAs(trig[t].status) # "none"
        THEN [call[c] EXCEPT !.pc = "answered", !.answer = SweptAs(trig[call[c].of].status)]
        ELSE call[c]]

\* sweepWaiters: a waiter whose query throws is left.  The code reads the rows one after the other, the
\* step all at once.
Sweep(p) ==
    /\ At(p, "sweep")
    /\ \E seen \in SUBSET WaitedFor(p) :
          /\ ~task[p].conn => seen = {}
          /\ IF seen = WaitedFor(p) THEN UNCHANGED trouble ELSE QueryThrows(p)
          /\ call' = SweptCalls(p, seen)
          /\ lane' = [lane EXCEPT ![p].waiters = [t \in Triggers |->
                          IF t \in seen /\ SweptAs(trig[t].status) # "none" THEN None ELSE @[t]]]
    /\ Goto(p, "release")
    /\ UNCHANGED <<db, drv>>

\* reconcile's own call of housekeeping when it has nothing to do.
TaskTidy(p) ==
    /\ At(p, "tidy")
    /\ Housekeeping(p)
    /\ call' = Answered(Orphaned(p), "failed")
    /\ task' = [task EXCEPT ![p] = IF @.rows = {} THEN Idle ELSE [@ EXCEPT !.pc = "finally"]]
    /\ UNCHANGED <<db, trouble>>

\* The finally of a task: the abort controller and the slot are given back, and a
\* window is no longer planned.
TaskFinally(p) ==
    /\ At(p, "finally")
    /\ lane' = [lane EXCEPT ![p].abort = "off",
                            ![p].planned = IF task[p].kind = "window" THEN FALSE ELSE @]
    /\ Goto(p, "house")
    /\ UNCHANGED <<db, drv, call, trouble>>

\* The housekeeping that ends a task.
TaskEnd(p) ==
    /\ At(p, "house")
    /\ Housekeeping(p)
    /\ call' = Answered(Orphaned(p), "failed")
    /\ task' = [task EXCEPT ![p] = Idle]
    /\ UNCHANGED <<db, trouble>>

-----------------------------------------------------------------------------
(* Aborts, leases, and the life of a process                               *)

\* The watchdog: the window has outlived its deadline (leaseTtlMs + 5s, armed anew
\* for every trigger of a window).
Watchdog(p) ==
    /\ lane[p].abort = "armed"
    /\ Disturbed("watchdog")
    /\ lane' = [lane EXCEPT ![p] = WithAbort(@, "window-lease-expired")]
    /\ drv' = DrivesCut(p)
    /\ UNCHANGED <<db, task, call>>

\* invalidateSession: the lifecycle service closes or replaces the session.
InvalidateSession(p) ==
    /\ lane[p].up # "down" /\ lane[p].sess
    /\ Disturbed("closed")
    /\ lane' = [lane EXCEPT ![p] = SessionClosed(@)]
    /\ drv' = DrivesDisconnected(p)
    /\ task' = TaskDisconnected(p)
    /\ UNCHANGED <<db, call>>

HoldsWindow(p) == task[p].pc \in {"claim", "drive", "sweep", "release"}

\* The leases are compared with the clock of whoever claims, and nobody renews them.  That of a
\* window may run out while its process still works: the next window begins beside it.
WindowLeaseExpires ==
    /\ win.lease = "live"
    /\ win' = [win EXCEPT !.lease = "past"]
    /\ IF \E p \in Procs : win.holder = p /\ HoldsWindow(p)
       THEN Disturbed("lease") /\ late' = late \cup {win.holder}
       ELSE UNCHANGED <<late, trouble>>
    /\ UNCHANGED <<trig, arrivals, snap, sent, strays, lane, task, drv, call>>

\* The lease of a row in another status is never looked at.
TriggerLeaseExpires(t) ==
    /\ trig[t].lease = "live" /\ trig[t].status \in {"leased", "running"}
    /\ IF \E p \in Procs : HoldsWindow(p) /\ task[p].of = t THEN Disturbed("lease") ELSE UNCHANGED trouble
    /\ trig' = [trig EXCEPT ![t].lease = "past"]
    /\ UNCHANGED <<arrivals, win, snap, sent, late, strays, lane, task, drv, call>>

\* stop(): no more deliveries, and every waiter fails.
StopBegin(p) ==
    /\ Up(p) /\ Disturbed("stop")
    /\ lane' = [lane EXCEPT ![p].up = "stopping", ![p].waiters = NoWaiters]
    /\ call' = Answered(WaitersOf(p), "failed")
    /\ UNCHANGED <<db, task, drv>>

\* The drain deadline passes with a window under way: it is aborted.
StopAborts(p) ==
    /\ lane[p].up = "stopping" /\ lane[p].abort = "armed"
    /\ lane' = [lane EXCEPT ![p] = WithAbort(@, "window-aborted")]
    /\ drv' = DrivesCut(p)
    /\ UNCHANGED <<db, task, call, trouble>>

\* The lane is drained, or the grace is over: its session is closed and it is dropped.
StopEnds(p) ==
    /\ lane[p].up = "stopping" /\ lane[p].persist = None
    /\ lane[p].abort # "armed"
    /\ lane' = [lane EXCEPT ![p] = [SessionClosed(@) EXCEPT !.up = "stopped"]]
    /\ IF lane[p].sess THEN drv' = DrivesDisconnected(p) /\ task' = TaskDisconnected(p)
       ELSE UNCHANGED <<drv, task>>
    /\ UNCHANGED <<db, call, trouble>>

\* The process is gone with all it had in memory; its callers learn nothing.
Gone(p) ==
    /\ lane' = [lane EXCEPT ![p] = NewLane]
    /\ task' = [task EXCEPT ![p] = Idle]
    /\ drv' = [d \in Drives |-> IF drv[d].proc = p /\ Active(d)
                                THEN NoDrive ELSE drv[d]]
    /\ call' = [c \in Calls |-> IF call[c].proc = p /\ call[c].pc # "answered"
                                THEN [call[c] EXCEPT !.pc = "dropped"] ELSE call[c]]
    /\ UNCHANGED db

Crash(p) == lane[p].up # "down" /\ Disturbed("crash") /\ Gone(p)

ProcessExits(p) == lane[p].up = "stopped" /\ UNCHANGED trouble /\ Gone(p)

\* start(), and the supervisor's reconcile of the employee.
Boot(p) ==
    /\ lane[p].up = "down"
    /\ lane' = [lane EXCEPT ![p] = [NewLane EXCEPT !.up = "up",
                                       !.queue = <<[kind |-> "reconcile", of |-> None]>>]]
    /\ UNCHANGED <<db, task, drv, call, trouble>>

-----------------------------------------------------------------------------

CallStep(c) ==
    \/ \E p \in Procs, t \in Triggers : EnqueuePersist(c, p, t) \/ EnqueueThrows(c, p, t)
    \/ EnqueueRegister(c) \/ EnqueueReturn(c)

\* The steps of the task at the head of the lane of p.
TaskStep(p) ==
    \/ TaskStart(p) \/ TaskSession(p) \/ TaskSessionThrows(p)
    \/ ReconcileScan(p) \/ ReconcileScanThrows(p) \/ ResumeLook(p) \/ ResumeLookThrows(p)
    \/ Acquire(p) \/ AcquireThrows(p)
    \/ \E t \in Triggers : Claim(p, t) \/ ClaimExhausted(p, t) \/ ClaimDenied(p, t)
                           \/ ClaimThrows(p, t)
    \/ LoopEnds(p) \/ DriveReturns(p) \/ WindowAborted(p) \/ Sweep(p)
    \/ Release(p) \/ ReleaseThrows(p) \/ TaskTidy(p) \/ TaskFinally(p) \/ TaskEnd(p)

DriveStep(d) ==
    \/ DriveLoad(d) \/ DriveMark(d) \/ DriveStart(d) \/ DriveCancel(d)
    \/ \E r \in {"success", "suspended", "failed"} : DriveEnd(d, r)
    \/ DriveSettle(d) \/ DriveThrows(d)
    \/ \E u \in Triggers : Cascade(d, u) \/ CascadeLost(d, u)

LaneRequest(p) ==
    ReconcileRequested(p) \/ \E t \in Triggers : ResumeRequested(p, t)

Environment(p) ==
    \/ Watchdog(p) \/ InvalidateSession(p) \/ Crash(p)
    \/ StopBegin(p) \/ StopAborts(p) \/ StopEnds(p) \/ ProcessExits(p) \/ Boot(p)

Expiry == WindowLeaseExpires \/ \E t \in Triggers : TriggerLeaseExpires(t)

Next ==
    \/ \E c \in Calls : CallStep(c)
    \/ \E p \in Procs : TaskStep(p) \/ LaneRequest(p) \/ Environment(p)
    \/ \E d \in Drives : DriveStep(d)
    \/ \E w \in sent : LateWrite(w)
    \/ Expiry

Spec == Init /\ [][Next]_vars

\* What the event loop and the timers of the code guarantee: promises that can go on
\* do; handlers end; leases expire.
CallProgress(c) == EnqueueRegister(c) \/ EnqueueReturn(c)
DriveProgress(d) ==
    \/ DriveLoad(d) \/ DriveMark(d) \/ DriveStart(d) \/ DriveSettle(d) \/ DriveThrows(d)
    \/ \E r \in {"success", "suspended", "failed"} : DriveEnd(d, r)

Fairness ==
    /\ \A p \in Procs : WF_vars(TaskStep(p)) /\ WF_vars(Boot(p))
    /\ \A p \in Procs : WF_vars(StopAborts(p) \/ StopEnds(p) \/ ProcessExits(p))
    /\ \A c \in Calls : WF_vars(CallProgress(c))
    /\ \A d \in Drives : WF_vars(DriveProgress(d))
    /\ WF_vars(WindowLeaseExpires)
    /\ \A t \in Triggers : WF_vars(TriggerLeaseExpires(t))

FairSpec == Spec /\ Fairness

-----------------------------------------------------------------------------
(* Properties                                                              *)

TriggerRows == [status : Statuses, lease : Leases, attempts : Nat, depth : Nat]
LaneItems == [kind : {"window", "reconcile", "resume"}, of : Triggers \cup {None}]
Lanes == [up : {"down", "up", "stopping", "stopped"}, sess : BOOLEAN, abort : Aborts,
          planned : BOOLEAN, followup : BOOLEAN, queue : Seq(LaneItems),
          waiters : [Triggers -> Calls \cup {None}], persist : Calls \cup {None}]
TaskPcs == {"idle", "session", "scan", "look", "acquire", "claim", "drive", "sweep", "release",
            "tidy", "finally", "house"}
Tasks == [kind : {"none", "window", "reconcile", "resume"}, pc : TaskPcs,
          of : Triggers \cup {None}, n : Nat, rows : SUBSET Triggers, done : Nat,
          conn : BOOLEAN]
DriveStates == [pc : {"none", "load", "mark", "start", "exec", "settle", "over"},
                kind : {"run", "resume"}, proc : Procs \cup {None}, conn : BOOLEAN,
                cut : BOOLEAN, out : Answers \cup {"none", "refused", "aborted", "threw"}]
CallStates == [pc : {"idle", "persisted", "settled", "waiting", "answered", "dropped", "displaced"},
               proc : Procs \cup {None}, of : Triggers \cup {None}, saw : Statuses,
               answer : Answers \cup {"none"}]

Writes == [of : Triggers, what : {"row"}, value : Statuses] \cup [of : Triggers, what : {"run"}, value : Snapshots]
          \cup [of : Triggers, what : {"lease", "claim", "resume"}, value : {"none"}]

\* Every variable keeps its type.
TypeOK ==
    /\ trig \in [Triggers -> TriggerRows]
    /\ arrivals \in Seq(Triggers)
    /\ win \in [holder : Procs \cup {None}, lease : Leases]
    /\ snap \in [Triggers -> Snapshots]
    /\ sent \subseteq Writes /\ late \subseteq Procs /\ strays \subseteq Triggers
    /\ lane \in [Procs -> Lanes]
    /\ task \in [Procs -> Tasks]
    /\ drv \in [Drives -> DriveStates]
    /\ call \in [Calls -> CallStates]
    /\ trouble \in 0 .. MaxTrouble

\* A run that executes for its window: it can write, and its window has not been aborted, nor has the
\* window's lease run out.
Executing(d) == drv[d].pc = "exec" /\ drv[d].conn /\ ~drv[d].cut /\ drv[d].proc \notin late

\* One execution per employee, across processes: no two runs execute for their windows at the same
\* time, whatever the crashes, the aborts, the failed queries and the closed sessions (acquireWindow,
\* claimLease, the lane's tail, abortWindow).
OneExecution ==
    \A d, e \in Drives : Executing(d) /\ Executing(e) => d = e

\* "One employee has one execution window at a time": no two processes are between
\* their acquireWindow and their releaseWindow, unless the lease of one has run out under it.
OneWindow ==
    \A p, q \in Procs \ late : HoldsWindow(p) /\ HoldsWindow(q) => p = q

\* A call that waits has its waiter in the lane of its process, so that somebody will
\* answer it, or a later delivery of its key has taken its place (enqueue, settleWaiter).
WaiterKept ==
    \A c \in Calls : call[c].pc = "waiting" => lane[call[c].proc].waiters[call[c].of] = c

\* What a waiter is told is true at that moment: "completed" and "waiting" answers are given for
\* triggers that are, unless the trigger was claimed from under somebody (driveRun, sweepWaiters).
AnswersAreTrue ==
    [][\A c \in Calls :
          call[c].pc = "waiting" /\ call'[c].pc = "answered"
          /\ call'[c].answer \in {"completed", "waiting"} /\ call[c].of \notin strays'
          => trig'[call[c].of].status = call'[c].answer]_vars

\* completed and failed are final ("failed is the key's final state"), unless the trigger was claimed
\* from under somebody.
FinalIsFinal ==
    [][\A t \in Triggers \ strays' :
          trig[t].status \in Final => trig'[t].status = trig[t].status]_vars

\* The row never contradicts the durable run: completed only after the run succeeded,
\* waiting only while it is suspended or a resume holds it.
StatusMatchesRun ==
    \A t \in Triggers \ strays :
        /\ trig[t].status = "completed" => snap[t] = "success"
        /\ trig[t].status = "waiting" => snap[t] = "suspended"

\* The session of a window is not closed under it by somebody else's housekeeping.
WindowKeepsSession ==
    \A p \in Procs : task[p].kind = "window" /\ HoldsWindow(p) => task[p].conn

Quiet ==
    /\ \A p \in Procs : Up(p) /\ task[p] = Idle /\ lane[p].queue = <<>>
    /\ \A c \in Calls : call[c].pc \in {"idle", "answered"}

\* Nothing is left behind: once every process is idle, no accepted trigger is still
\* waiting for somebody to run it.
NothingStranded ==
    Quiet => \A t \in Triggers : trig[t].status \in Final \cup {"absent", "waiting"}

\* Every accepted enqueue call is answered, or dies with its process, or is forgotten for a later
\* delivery of its key.
EveryCallAnswered ==
    \A c \in Calls : call[c].pc \in {"persisted", "settled", "waiting"}
                     ~> call[c].pc \in {"answered", "dropped", "displaced"}

\* Housekeeping does neither too much nor too little: as long as nothing disturbs it, it takes no
\* session from a window, and an idle process has done what it accepted.
HousekeepingIsSafe == trouble = 0 => WindowKeepsSession /\ NothingStranded

\* The employee does one thing at a time: one window in whatever process, one run executing.
OneAtATime == OneWindow /\ OneExecution

\* The rows say what became of their runs, and what is final is not taken back.
RowsAreTrue == []StatusMatchesRun /\ FinalIsFinal

=============================================================================
