-------------------------- MODULE EmployeeLifecycle ---------------------------
(***************************************************************************)
(* The lifecycle of one virtual employee: create, pause, resume and retire *)
(* (server/ai/office/employee-lifecycle.ts), above the session registry of *)
(* EmployeeSessions.                                                       *)
(*                                                                         *)
(* An operation reads the employee's row, writes its status and its        *)
(* credential in separate queries, and then calls register or close of the *)
(* registry.  The operations of an employee are serialized in the process; *)
(* those of other processes are not modelled.  A query answers, or throws  *)
(* with or without having taken effect.                                    *)
(***************************************************************************)
EXTENDS EmployeeSessions

CONSTANTS
    Ops,        \* operations; each is also the name of its call of the registry
    OpKindOf,   \* [Ops -> OpKinds]
    MaxFail     \* bound: how many queries throw

OpKinds == {"create", "pause", "resume", "retire"}

\* The registry call of an operation.
JobKind(o) ==
    CASE OpKindOf[o] \in {"create", "resume"} -> "activate"
      [] OpKindOf[o] = "pause" -> "pause"
      [] OTHER -> "retire"

ASSUME LifecycleAssumption ==
    /\ Ops \subseteq Jobs
    /\ OpKindOf \in [Ops -> OpKinds]
    /\ \A o \in Ops : KindOf[o] = JobKind(o)
    /\ \A j \in Jobs \ Ops : KindOf[j] \in {"open", "idle", "stop"}
    /\ MaxFail \in Nat

VARIABLES
    status,     \* user.virtual_profile.status; "absent": no row, "provisioning": NONE
    secret,     \* employee_credential: 0 none, 1 the first secret, more: rotated
    op,         \* the operations
    life,       \* inflight of the lifecycle service: the operations, in order
    failures    \* queries that have thrown

record == <<status, secret>>
lifeVars == <<status, secret, op, life, failures>>
allVars == <<vars, lifeVars>>

NoOp == [pc |-> "idle", saw |-> "absent", secret |-> 0, answer |-> "none"]

LInit ==
    /\ Init
    /\ status = "absent" /\ secret = 0
    /\ op = [o \in Ops |-> NoOp]
    /\ life = <<>>
    /\ failures = 0

-----------------------------------------------------------------------------

OpAt(o, pc) == op[o].pc = pc
OpGoto(o, pc) == op' = [op EXCEPT ![o].pc = pc]

\* The operation returns; the next one may run.
OpEnds(o, answer) ==
    /\ op' = [op EXCEPT ![o].pc = "ended", ![o].answer = answer]
    /\ life' = Tail(life)

\* A query of operation o throws, after taking effect or not: effect is what it does
\* to the record.
OpThrows(o, effect) ==
    /\ failures < MaxFail
    /\ failures' = failures + 1
    /\ OpEnds(o, "failed")
    /\ effect \/ UNCHANGED record

\* The operation is called and queued behind the others.
OpCalled(o) ==
    /\ OpAt(o, "idle")
    /\ OpGoto(o, "read")
    /\ life' = Append(life, o)
    /\ UNCHANGED <<vars, record, failures>>

\* Mutant of Begins: a create that finds its row activates it first.
MutantBegins(o, saw) ==
    CASE OpKindOf[o] = "create" -> IF saw = "absent" THEN "insert" ELSE "write"
      [] OpKindOf[o] = "retire" -> "write"
      [] OTHER -> "refused"

\* Where an operation goes after reading the status, and "refused" where it may not.
Begins(o, saw) ==
    CASE OpKindOf[o] = "create" -> IF saw = "absent" THEN "insert" ELSE "credential"
      [] OpKindOf[o] = "pause" /\ saw = "active" -> "write"
      [] OpKindOf[o] = "pause" /\ saw = "paused" -> "call"
      [] OpKindOf[o] = "resume" /\ saw = "paused" -> "credential"
      [] OpKindOf[o] = "resume" /\ saw = "active" -> "nothing"
      [] OpKindOf[o] = "retire" /\ saw \in {"provisioning", "active", "paused"} -> "write"
      [] OpKindOf[o] = "retire" /\ saw = "retired" -> "call"
      [] OTHER -> "refused"

\* The row is read through the caller's session, and the source status checked.
OpReads(o) ==
    LET goes == Begins(o, status)
    IN /\ OpAt(o, "read") /\ Head(life) = o
       /\ CASE goes = "refused" -> OpEnds(o, "refused")
            [] goes = "nothing" -> OpEnds(o, "ok")
            [] OTHER -> /\ op' = [op EXCEPT ![o].pc = goes, ![o].saw = status]
                        /\ UNCHANGED life
       /\ UNCHANGED <<vars, record, failures>>

\* The caller's session is denied or the read throws.
OpReadFails(o) ==
    /\ OpAt(o, "read") /\ Head(life) = o
    /\ OpThrows(o, FALSE)
    /\ UNCHANGED vars

\* CREATE with the status left out; on a duplicate the row is there already.
Created == status' = (IF status = "absent" THEN "provisioning" ELSE status)

\* provision creates the row and reads it back.
OpInserts(o) ==
    /\ OpAt(o, "insert")
    /\ Created
    /\ op' = [op EXCEPT ![o].pc = "credential", ![o].saw = status']
    /\ UNCHANGED <<vars, secret, life, failures>>

\* A CREATE that throws is followed by the read: only the read can end the operation.
OpInsertFails(o) ==
    /\ OpAt(o, "insert")
    /\ OpThrows(o, Created /\ UNCHANGED secret)
    /\ UNCHANGED vars

\* After the credential: a provisioning or paused row is activated; an active one is
\* registered; create leaves a paused or retired row alone.
AfterCredential(o, saw) ==
    CASE OpKindOf[o] = "resume" \/ saw = "provisioning" -> "write"
      [] saw = "active" -> "call"
      [] OTHER -> "nothing"

Ensured == secret' = IF secret = 0 THEN 1 ELSE secret

\* ensureCredential: the stored secret, inserted if there is none.
OpEnsures(o) ==
    LET goes == AfterCredential(o, op[o].saw)
    IN /\ OpAt(o, "credential")
       /\ Ensured
       /\ IF goes = "nothing" THEN OpEnds(o, "ok")
          ELSE /\ op' = [op EXCEPT ![o].pc = goes, ![o].secret = secret']
               /\ UNCHANGED life
       /\ UNCHANGED <<vars, status, failures>>

OpEnsureFails(o) ==
    /\ OpAt(o, "credential")
    /\ OpThrows(o, Ensured /\ UNCHANGED status)
    /\ UNCHANGED vars

\* The status an operation writes.
Writes(o) ==
    CASE OpKindOf[o] \in {"create", "resume"} -> "active"
      [] OpKindOf[o] = "pause" -> "paused"
      [] OTHER -> "retired"

\* UPDATE of the status, whatever it has become since it was read.
OpWrites(o) ==
    /\ OpAt(o, "write")
    /\ status' = Writes(o)
    /\ OpGoto(o, IF OpKindOf[o] = "retire" THEN "rotate" ELSE "call")
    /\ UNCHANGED <<vars, secret, life, failures>>

OpWriteFails(o) ==
    /\ OpAt(o, "write")
    /\ OpThrows(o, status' = Writes(o) /\ UNCHANGED secret)
    /\ UNCHANGED vars

\* A retirement rotates the secret, if there is one.
Rotated == secret' = IF secret = 0 THEN 0 ELSE secret + 1

OpRotates(o) ==
    /\ OpAt(o, "rotate")
    /\ Rotated
    /\ OpGoto(o, "call")
    /\ UNCHANGED <<vars, status, life, failures>>

OpRotateFails(o) ==
    /\ OpAt(o, "rotate")
    /\ OpThrows(o, Rotated /\ UNCHANGED status)
    /\ UNCHANGED vars

\* Mutant of OpCalls: an employee that is not active is left alone.
MutantOpCalls(o) ==
    /\ OpAt(o, "call")
    /\ IF op[o].saw \in {"paused", "retired"}
       THEN OpEnds(o, "ok") /\ UNCHANGED vars
       ELSE /\ Activate(o) \/ Close(o)
            /\ OpGoto(o, "called")
            /\ UNCHANGED life
    /\ UNCHANGED <<record, failures>>

\* register with activate, or close with deactivate or forgetSecret.
OpCalls(o) ==
    /\ OpAt(o, "call")
    /\ Activate(o) \/ Close(o)
    /\ OpGoto(o, "called")
    /\ UNCHANGED <<record, life, failures>>

\* The registry's work is over; the operation returns, or throws with it.
OpReturns(o) ==
    /\ OpAt(o, "called") /\ job[o].pc \in Ended
    /\ OpEnds(o, IF job[o].pc = "done" THEN "ok" ELSE "failed")
    /\ UNCHANGED <<vars, record, failures>>

\* A retirement of a retired employee reads the credential after its close, for the day
\* it expires.
OpRereadFails(o) ==
    /\ OpAt(o, "called") /\ job[o].pc = "done"
    /\ OpKindOf[o] = "retire" /\ op[o].saw = "retired"
    /\ OpThrows(o, FALSE)
    /\ UNCHANGED vars

-----------------------------------------------------------------------------
(* The registry below                                                      *)

\* The SIGNIN query of the employee access: an active employee with the secret of the
\* database.  A window signs in with the secret its process has cached or fetched.
SigninGranted(j) ==
    /\ status = "active"
    /\ j \in Ops => op[j].secret = secret

\* Without the grant the connection is given up.
SigninDenied(j) ==
    /\ At(j, "signin") /\ ~SigninGranted(j)
    /\ Undoes(j)
    /\ UNCHANGED <<gate, epoch, conns, lane>>

RegistryStep(j) ==
    \/ OpenSession(j) \/ LaneDrops(j) \/ Stop(j)
    \/ OpenRegister(j) \/ CredentialMissing(j) \/ OpenReturns(j)
    \/ KindOf[j] = "idle" /\ Close(j)
    \/ RunWork(j) \/ StopCloses(j) \/ CloseConfirmed(j) \/ CloseFails(j)
    \/ Connects(j) \/ CloseEnds(j) \/ SigninFails(j) \/ Undone(j) \/ SigninDenied(j)
    \/ SigninGranted(j) /\ SignsIn(j)

OpStep(o) ==
    \/ OpCalled(o) \/ OpReads(o) \/ OpReadFails(o) \/ OpInserts(o) \/ OpInsertFails(o)
    \/ OpEnsures(o) \/ OpEnsureFails(o) \/ OpWrites(o) \/ OpWriteFails(o)
    \/ OpRotates(o) \/ OpRotateFails(o) \/ OpCalls(o) \/ OpReturns(o)
    \/ OpRereadFails(o)

LNext ==
    \/ \E o \in Ops : OpStep(o)
    \/ \E j \in Jobs : RegistryStep(j) /\ UNCHANGED lifeVars

LSpec == LInit /\ [][LNext]_allVars

-----------------------------------------------------------------------------
(* Properties                                                              *)

\* Every variable keeps its type.
LTypeOK ==
    /\ TypeOK
    /\ status \in {"absent", "provisioning", "active", "paused", "retired"}
    /\ secret \in Nat
    /\ op \in [Ops -> [pc : {"idle", "read", "insert", "credential", "write", "rotate", "call",
                             "called", "ended"},
                       saw : {"absent", "provisioning", "active", "paused", "retired"},
                       secret : Nat, answer : {"none", "ok", "refused", "failed"}]]
    /\ life \in Seq(Ops)
    /\ failures \in 0 .. MaxFail

\* No employee looks active and cannot sign in for want of a credential, wherever a
\* create fails and is retried (provision, ensureCredential).
ActiveHasCredential == status = "active" => secret # 0

Legal == {<<"absent", "provisioning">>, <<"provisioning", "active">>, <<"active", "paused">>,
          <<"paused", "active">>, <<"provisioning", "retired">>, <<"active", "retired">>,
          <<"paused", "retired">>}

\* The operations of one process never make a transition that transit refuses, although
\* their writes do not check the status they replace (serialized).
LegalTransitions == [][status' # status => <<status, status'>> \in Legal]_allVars

\* A pause or a retirement that answers ok leaves the employee without a connection in
\* this process, and the gate shut (transit, close).
ShutWhenAnswered ==
    [][\A o \in Ops :
          /\ op'[o].answer = "ok" /\ op[o].answer = "none"
          /\ OpKindOf[o] \in {"pause", "retire"}
          => gate'.suspended /\ Usable' = None /\ conns' = {}]_allVars

\* A transition is legal, and what it answers is so.
TransitionsHold == LegalTransitions /\ ShutWhenAnswered

=============================================================================
