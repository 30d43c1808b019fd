--------------------------- MODULE EmployeeSessions ---------------------------
(***************************************************************************)
(* The session registry of one virtual employee in one server process      *)
(* (server/ai/office/employee-runtime.ts), with the lane that caches its   *)
(* session (ensureLaneSession, closeLaneSession and invalidateSession in   *)
(* employee-trigger-runtime.ts).                                           *)
(*                                                                         *)
(* register() and close() are called by the lane and by the lifecycle      *)
(* service.  A call changes the gate (blocked, suspended, retired, epoch)  *)
(* at once and queues its work: the works of an employee run one after     *)
(* another.  stop() waits for the queued works and then closes what is     *)
(* left, beside any work queued later.                                     *)
(*                                                                         *)
(* A job is one call; a connection is named by the job that opened it.     *)
(* Closing a connection is confirmed, or fails (error or timeout) and      *)
(* leaves it possibly open.  Token renewal reuses the connection and       *)
(* changes none of this state.                                             *)
(***************************************************************************)
EXTENDS Naturals, Sequences, FiniteSets

CONSTANTS
    Jobs,       \* calls of the registry
    KindOf,     \* [Jobs -> Kinds]
    Faults,     \* which of "close", "signin", "credential" may fail
    None

Kinds == {"open",       \* openSession, for the lane
          "activate",   \* register with activate, by the lifecycle service
          "idle",       \* close, by the lane's housekeeping
          "pause",      \* close with deactivate
          "retire",     \* close with forgetSecret
          "stop"}       \* stop, at most once

ASSUME SessionsAssumption ==
    /\ None \notin Jobs
    /\ KindOf \in [Jobs -> Kinds]
    /\ Faults \subseteq {"close", "signin", "credential"}
    /\ \A i, j \in Jobs : KindOf[i] = "stop" /\ KindOf[j] = "stop" => i = j

VARIABLES
    gate,       \* blocked, suspended, retired, stopped: the flags of the employee
    epoch,      \* counts the close calls
    session,    \* sessions: the registered connection
    conns,      \* connections: opened and not confirmed closed
    closing,    \* closing: being closed, or left by a close that failed
    confirmed,  \* observation.closeConfirmed
    chain,      \* inflight: the queued works, the first one running
    job,        \* the calls
    lane        \* lane.session: the connection the lane has cached

vars == <<gate, epoch, session, conns, closing, confirmed, chain, job, lane>>

Open == [blocked |-> FALSE, suspended |-> FALSE, retired |-> FALSE, stopped |-> FALSE]
NoJob == [pc |-> "idle", epoch |-> 0, cur |-> None, todo |-> {}, waits |-> {}]
Ended == {"done", "refused", "failed"}

Init ==
    /\ gate = Open
    /\ epoch = 0
    /\ session = None
    /\ conns = {}
    /\ closing = {}
    /\ confirmed = "null"
    /\ chain = <<>>
    /\ job = [j \in Jobs |-> NoJob]
    /\ lane = None

-----------------------------------------------------------------------------

At(j, pc) == job[j].pc = pc
Goto(j, pc) == job' = [job EXCEPT ![j].pc = pc]
Registers(j) == KindOf[j] \in {"open", "activate"}

\* allowed: neither stopped nor blocked, and no close since epoch e.
Allowed(e) == ~gate.stopped /\ ~gate.blocked /\ epoch = e

\* session(): the connection a caller may use.
Usable == IF gate.stopped \/ gate.blocked THEN None ELSE session

\* serialized: the work of j joins the chain with the epoch it was called in.
Queued(j, e) ==
    /\ chain' = Append(chain, j)
    /\ job' = [job EXCEPT ![j].pc = "queued", ![j].epoch = e]

\* The running work of j is over.
Leaves(j, pc) ==
    /\ chain' = IF KindOf[j] = "stop" THEN chain ELSE Tail(chain)
    /\ job' = [job EXCEPT ![j].pc = pc, ![j].cur = None, ![j].todo = {}]

\* The lane opens and closes its session under its persist mutex.
LaneFree ==
    \A j \in Jobs : KindOf[j] \in {"open", "idle"} => job[j].pc \in Ended \cup {"idle"}

-----------------------------------------------------------------------------
(* The calls                                                               *)

\* openSession: refused, or the registered connection is reused, or a credential is
\* fetched to register a new one.
OpenSession(j) ==
    /\ At(j, "idle") /\ KindOf[j] = "open" /\ LaneFree /\ lane = None
    /\ IF ~Allowed(epoch)
       THEN Goto(j, "refused") /\ UNCHANGED lane
       ELSE IF session # None
       THEN Goto(j, "done") /\ lane' = session
       ELSE /\ job' = [job EXCEPT ![j].pc = "credential", ![j].epoch = epoch]
            /\ UNCHANGED lane
    /\ UNCHANGED <<gate, epoch, session, conns, closing, confirmed, chain>>

\* The credential is there: register, unless a close came in between.
OpenRegister(j) ==
    /\ At(j, "credential")
    /\ IF Allowed(job[j].epoch) THEN Queued(j, epoch)
       ELSE Goto(j, "refused") /\ UNCHANGED chain
    /\ UNCHANGED <<gate, epoch, session, conns, closing, confirmed, lane>>

CredentialMissing(j) ==
    /\ At(j, "credential") /\ "credential" \in Faults
    /\ Goto(j, "failed")
    /\ UNCHANGED <<gate, epoch, session, conns, closing, confirmed, chain, lane>>

\* openSession returns the connection registered, if it is still there.
OpenReturns(j) ==
    /\ At(j, "registered")
    /\ IF Usable # None THEN lane' = Usable /\ Goto(j, "done")
       ELSE UNCHANGED lane /\ Goto(j, "failed")
    /\ UNCHANGED <<gate, epoch, session, conns, closing, confirmed, chain>>

\* register with activate: lifts a pause, never a retirement.
Activate(j) ==
    /\ At(j, "idle") /\ KindOf[j] = "activate"
    /\ gate' = IF gate.stopped \/ gate.retired THEN gate
               ELSE [gate EXCEPT !.blocked = FALSE, !.suspended = FALSE]
    /\ Queued(j, epoch)
    /\ UNCHANGED <<epoch, session, conns, closing, confirmed, lane>>

\* closeLaneSession: the lane forgets its session, and waits for the aborts under way.
LaneDrops(j) ==
    /\ At(j, "idle") /\ KindOf[j] = "idle" /\ LaneFree /\ lane # None
    /\ lane' = None
    /\ Goto(j, "dropped")
    /\ UNCHANGED <<gate, epoch, session, conns, closing, confirmed, chain>>

\* close(): the gate shuts at once, the work is queued.
Close(j) ==
    /\ IF KindOf[j] = "idle" THEN At(j, "dropped")
       ELSE At(j, "idle") /\ KindOf[j] \in {"pause", "retire"}
    /\ gate' = [gate EXCEPT !.blocked = TRUE,
                            !.suspended = @ \/ KindOf[j] # "idle",
                            !.retired = @ \/ KindOf[j] = "retire"]
    /\ epoch' = epoch + 1
    /\ confirmed' = IF conns # {} THEN "null" ELSE confirmed
    /\ Queued(j, epoch + 1)
    /\ UNCHANGED <<session, conns, closing, lane>>

\* stop(): nothing is allowed any more; the works queued so far are awaited.
Stop(j) ==
    /\ At(j, "idle") /\ KindOf[j] = "stop"
    /\ gate' = [gate EXCEPT !.stopped = TRUE]
    /\ job' = [job EXCEPT ![j].pc = "draining",
                          ![j].waits = {chain[i] : i \in 1 .. Len(chain)}]
    /\ UNCHANGED <<epoch, session, conns, closing, confirmed, chain, lane>>

-----------------------------------------------------------------------------
(* The works                                                               *)

\* closeSession takes the session out of the registry, and onSessionClosed makes the
\* lane drop it, in the same step.
Unregistered ==
    /\ session' = None
    /\ lane' = IF session # None THEN None ELSE lane

\* closeConnection begins with one connection of the rest, or nothing is left.
ClosesNext(j, rest) ==
    IF rest = {}
    THEN /\ job' = [job EXCEPT ![j].pc = "closed", ![j].cur = None, ![j].todo = {}]
         /\ UNCHANGED confirmed
    ELSE \E db \in rest :
            /\ job' = [job EXCEPT ![j].pc = "closing", ![j].cur = db, ![j].todo = rest \ {db}]
            /\ confirmed' = "null"

\* closeSession: the session and whatever an earlier close has left.
CloseSession(j) ==
    LET all == closing \cup ({session} \ {None})
    IN /\ Unregistered
       /\ ClosesNext(j, all)
       /\ closing' = closing \cup ({job'[j].cur} \ {None})

\* The first work of the chain starts; a register checks that it is still allowed.
RunWork(j) ==
    /\ At(j, "queued") /\ Head(chain) = j
    /\ IF Registers(j) /\ ~Allowed(job[j].epoch)
       THEN /\ Leaves(j, "refused")
            /\ UNCHANGED <<session, closing, confirmed, lane>>
       ELSE CloseSession(j) /\ UNCHANGED chain
    /\ UNCHANGED <<gate, epoch, conns>>

\* Mutant of StopCloses: the works under way are not awaited.
MutantStopCloses(j) ==
    /\ At(j, "draining")
    /\ CloseSession(j)
    /\ UNCHANGED <<gate, epoch, conns, chain>>

\* stop() goes on to close when the works it waits for are over.
StopCloses(j) ==
    /\ At(j, "draining") /\ \A i \in job[j].waits : job[i].pc \in Ended \cup {"registered"}
    /\ CloseSession(j)
    /\ UNCHANGED <<gate, epoch, conns, chain>>

\* A close is confirmed; the next one begins.
CloseConfirmed(j) ==
    LET db == job[j].cur
        left == closing \ {db}
    IN /\ At(j, "closing")
       /\ conns' = conns \ {db}
       /\ IF job[j].todo = {}
          THEN /\ job' = [job EXCEPT ![j].pc = "closed", ![j].cur = None]
               /\ confirmed' = IF left = {} THEN "yes" ELSE "no"
          ELSE ClosesNext(j, job[j].todo)
       /\ closing' = left \cup ({job'[j].cur} \ {None})
       /\ UNCHANGED <<gate, epoch, session, chain, lane>>

\* Mutant of CloseFails: the chain is never released.
MutantCloseFails(j) ==
    /\ At(j, "closing") /\ "close" \in Faults
    /\ confirmed' = "no"
    /\ Goto(j, "failed")
    /\ UNCHANGED <<gate, epoch, session, conns, closing, chain, lane>>

\* A close fails or times out: the connection stays in closing, the work throws.
CloseFails(j) ==
    /\ At(j, "closing") /\ "close" \in Faults
    /\ confirmed' = "no"
    /\ Leaves(j, "failed")
    /\ UNCHANGED <<gate, epoch, session, conns, closing, lane>>

\* After closeSession in doRegister: still allowed, a new connection is opened.
Connects(j) ==
    /\ At(j, "closed") /\ Registers(j)
    /\ IF Allowed(job[j].epoch)
       THEN /\ conns' = conns \cup {j}
            /\ Goto(j, "signin")
            /\ UNCHANGED chain
       ELSE Leaves(j, "refused") /\ UNCHANGED conns
    /\ UNCHANGED <<gate, epoch, session, closing, confirmed, lane>>

\* Mutant of Reopens: the epoch of a close is taken before it is counted.
MutantReopens(j) == ~gate.suspended /\ epoch = job[j].epoch + 1

\* The gate opens again after the last close, unless the employee is suspended.
Reopens(j) == ~gate.suspended /\ epoch = job[j].epoch

\* After closeSession in close() and stop().
CloseEnds(j) ==
    /\ At(j, "closed") /\ ~Registers(j)
    /\ Leaves(j, "done")
    /\ gate' = IF KindOf[j] # "stop" /\ Reopens(j) THEN [gate EXCEPT !.blocked = FALSE]
               ELSE gate
    /\ UNCHANGED <<epoch, session, conns, closing, confirmed, lane>>

\* The connection just opened is given up.
Undoes(j) ==
    /\ closing' = closing \cup {j}
    /\ confirmed' = "null"
    /\ job' = [job EXCEPT ![j].pc = "undo", ![j].cur = j]
    /\ UNCHANGED <<chain, session>>

\* Mutant of SignsIn: the session is registered whatever happened during the sign-in.
MutantSignsIn(j) ==
    /\ At(j, "signin")
    /\ session' = j
    /\ Leaves(j, IF KindOf[j] = "open" THEN "registered" ELSE "done")
    /\ UNCHANGED <<gate, epoch, conns, closing, confirmed, lane>>

\* SIGNIN is answered: the session is registered if this is still allowed.
SignsIn(j) ==
    /\ At(j, "signin")
    /\ IF Allowed(job[j].epoch)
       THEN /\ session' = j
            /\ Leaves(j, IF KindOf[j] = "open" THEN "registered" ELSE "done")
            /\ UNCHANGED <<closing, confirmed>>
       ELSE Undoes(j)
    /\ UNCHANGED <<gate, epoch, conns, lane>>

SigninFails(j) ==
    /\ At(j, "signin") /\ "signin" \in Faults
    /\ Undoes(j)
    /\ UNCHANGED <<gate, epoch, conns, lane>>

\* Mutant of Undone: a connection given up is forgotten whether it closed or not.
MutantUndone(j) ==
    /\ At(j, "undo")
    /\ \/ conns' = conns \ {j}
       \/ "close" \in Faults /\ UNCHANGED conns
    /\ closing' = closing \ {j}
    /\ confirmed' = "yes"
    /\ Leaves(j, "failed")
    /\ UNCHANGED <<gate, epoch, session, lane>>

\* The connection given up is closed, or stays in closing.
Undone(j) ==
    /\ At(j, "undo")
    /\ \/ /\ conns' = conns \ {j}
          /\ closing' = closing \ {j}
          /\ confirmed' = IF closing' = {} THEN "yes" ELSE "no"
       \/ /\ "close" \in Faults
          /\ confirmed' = "no"
          /\ UNCHANGED <<conns, closing>>
    /\ Leaves(j, "failed")
    /\ UNCHANGED <<gate, epoch, session, lane>>

-----------------------------------------------------------------------------

Call(j) == OpenSession(j) \/ Activate(j) \/ LaneDrops(j) \/ Stop(j)

Step(j) ==
    \/ OpenRegister(j) \/ CredentialMissing(j) \/ OpenReturns(j) \/ Close(j)
    \/ RunWork(j) \/ StopCloses(j) \/ CloseConfirmed(j) \/ CloseFails(j)
    \/ Connects(j) \/ CloseEnds(j) \/ SignsIn(j) \/ SigninFails(j) \/ Undone(j)

Next == \E j \in Jobs : Call(j) \/ Step(j)

Spec == Init /\ [][Next]_vars

\* A promise that can go on does; a close is bounded by its timer; the SDK answers or
\* rejects a sign-in.  Nobody has to pause or retire an employee.
Progress(j) == Step(j) /\ ~(At(j, "idle") /\ Close(j))

FairSpec == Spec /\ \A j \in Jobs : WF_vars(Progress(j))

-----------------------------------------------------------------------------
(* Properties                                                              *)

JobStates == [pc : {"idle", "credential", "dropped", "draining", "queued", "closing", "closed",
                    "signin", "undo", "registered"} \cup Ended,
              epoch : Nat, cur : Jobs \cup {None}, todo : SUBSET Jobs, waits : SUBSET Jobs]

\* Every variable keeps its type.
TypeOK ==
    /\ gate \in [blocked : BOOLEAN, suspended : BOOLEAN, retired : BOOLEAN, stopped : BOOLEAN]
    /\ epoch \in Nat
    /\ session \in Jobs \cup {None}
    /\ conns \in SUBSET Jobs
    /\ closing \in SUBSET Jobs
    /\ confirmed \in {"null", "yes", "no"}
    /\ chain \in Seq(Jobs)
    /\ job \in [Jobs -> JobStates]
    /\ lane \in Jobs \cup {None}

\* "Each session has one Surreal connection": whatever closes fail or race, no second
\* connection is opened while an earlier one may still be open (doRegister).
OneConnection == \A i, j \in conns : i = j

\* No connection is lost: one that may be open is the registered session, or is left
\* in closing for the next close to retry, or belongs to the register that is running.
NoneLost ==
    \A c \in conns : c = session \/ c \in closing \/ At(c, "signin")

\* The lane never holds a session that the registry has closed or replaced
\* (onSessionClosed, invalidateSession).
LaneIsCurrent == lane # None => lane = session

\* No session appears while an employee is paused or retired, although a register may
\* be anywhere in its sign-in when the pause comes (allowed, epochs).
NoSessionWhilePaused ==
    [][gate.suspended /\ session' # session => session' = None]_vars

\* closeConfirmed is never a lie: nothing that may be open is reported closed.
ConfirmedIsTrue ==
    confirmed = "yes" /\ session = None /\ (\A j \in Jobs : ~At(j, "signin")) => conns = {}

\* stop() that returns without an error leaves no connection behind.
StopLeavesNothing ==
    \A j \in Jobs : KindOf[j] = "stop" /\ At(j, "done") => conns = {}

\* Every connection that may be open is accounted for: there is one at the most, the registry
\* knows where it is, and the lane uses it only while it is the session.
Accounted == OneConnection /\ NoneLost /\ LaneIsCurrent

\* Closed means closed, in what closeConfirmed reports and in what stop() returns.
ClosedMeansClosed == ConfirmedIsTrue /\ StopLeavesNothing

\* Closing by the lane blocks only while it closes, even when closes fail: once the works are
\* over, an employee that nobody suspended is kept blocked only by connections a failed close
\* has left, until stop() gives them up (close).
BlockedForCause ==
    chain = <<>> /\ gate.blocked => gate.suspended \/ gate.stopped \/ closing # {}

\* Every call of the registry ends (serialized: a failed work frees the next one).
EveryCallEnds ==
    \A j \in Jobs : job[j].pc \notin Ended \cup {"idle"} ~> job[j].pc \in Ended

=============================================================================
