--------------------------- MODULE AllowanceLedger ---------------------------
(***************************************************************************)
(* The allowance ledger in a workspace's database: the tables of           *)
(* shared/sql/workspace-template/035, 042 and 047 and the transactions     *)
(* that server/src/ai-allowance runs on them.  Each operator here is one   *)
(* transaction, so one atomic step of the call that runs it.               *)
(*                                                                         *)
(* ai_ledger_entry is append only and is never read back: what it adds to  *)
(* the buckets and the reservations is the amount written off (lost).      *)
(***************************************************************************)
EXTENDS Integers, Sequences, FiniteSets

CONSTANTS
    Buckets,    \* ai_allowance_bucket ids: operator grants and derived plan-cycle ids
    TermsOf,    \* [Buckets -> Terms], what a bucket is created with
    Sources,    \* base sources of the entitlement, <kind>:<sourceId>
    Periods,    \* period keys, for the notices
    Names,      \* idempotency keys the callers bring
    Runs,       \* run ids
    Amount,     \* amount of the active rate revision of the action
    Window,     \* reservation window, in clock units
    MaxTime,    \* bound of the clock
    MaxHolds,   \* bound of the reservations
    None

Kinds == {"plan_cycle", "purchased", "compensation"}
Terms == [kind : Kinds, src : Sources \cup {None}, period : Periods,
          from : Nat, until : Nat]

ASSUME LedgerAssumption ==
    /\ IsFiniteSet(Buckets)
    /\ TermsOf \in [Buckets -> Terms]
    /\ None \notin Sources \cup Buckets
    /\ Amount \in Nat \ {0}
    /\ Window \in Nat /\ MaxTime \in Nat /\ MaxHolds \in Nat

VARIABLES
    now,        \* time::now() of the database
    bucket,     \* ai_allowance_bucket: amounts; total = 0 while the row is absent
    dead,       \* buckets with terminated_at
    ended,      \* ai_allowance_source_termination: the sources that were terminated
    resv,       \* ai_reservation, in creation order
    notices     \* ai_allowance_notice: <<period, threshold>>

ledger == <<bucket, dead, ended, resv, notices>>

NoBucket == [total |-> 0, available |-> 0, reserved |-> 0, settled |-> 0, lost |-> 0]
Funded(n) == [total |-> n, available |-> n, reserved |-> 0, settled |-> 0, lost |-> 0]

\* Idempotency keys: <<k, -1>> is the key k itself, <<k, i>> is `k:after:<i>`, the key a
\* resume derives from the latest reservation i of its run (0: there was none).
Keys == Names \X (-1..MaxHolds)

Reservation == [key : Keys, run : Runs, bucket : Buckets, max : Nat, charge : Nat,
                deadline : Nat, status : {"reserved", "settled", "released", "expired"}]

LedgerInit ==
    /\ now = 0
    /\ bucket = [b \in Buckets |-> NoBucket]
    /\ dead = {} /\ ended = {}
    /\ resv = <<>>
    /\ notices = {}

-----------------------------------------------------------------------------

Exists(b) == bucket[b].total > 0
InTerm(b) == now < TermsOf[b].until
Holds == DOMAIN resv
Open == {i \in Holds : resv[i].status = "reserved"}
Overdue == {i \in Open : resv[i].deadline <= now}
WithKey(k) == {i \in Holds : resv[i].key = k}

\* AI_ALLOWANCE_CONSUMABLE_SQL; prefix is the plan source the caller read at its gate. Its
\* first condition, status = "active", has no field here: a bucket is created active and no
\* statement of the repository suspends one.
Consumable(b, prefix) ==
    /\ Exists(b)
    /\ TermsOf[b].from <= now /\ InTerm(b) /\ TermsOf[b].from < TermsOf[b].until
    /\ b \notin dead
    /\ TermsOf[b].kind = "plan_cycle" => TermsOf[b].src = prefix

\* CREATE of a bucket and its grant entry; the event ai_late_trial_bucket terminates at once
\* a bucket whose source was terminated before it came.
CreateTx(b, n) ==
    /\ bucket' = [bucket EXCEPT ![b] = Funded(n)]
    /\ dead' = IF TermsOf[b].kind = "plan_cycle" /\ TermsOf[b].src \in ended
               THEN dead \cup {b} ELSE dead
    /\ UNCHANGED <<ended, resv, notices>>

\* Mutant of Fits: what is available is not asked for again.
FitsAsRead(b, prefix) == Consumable(b, prefix)

\* The condition of the debit.
Fits(b, prefix) == Consumable(b, prefix) /\ bucket[b].available >= Amount

\* The amount moves from what is available to what is reserved.
Held(a) == [total |-> a.total, available |-> a.available - Amount,
            reserved |-> a.reserved + Amount, settled |-> a.settled, lost |-> a.lost]

\* Mutant of ReserveTx: the key is not unique.
ReserveTxAnyKey(k, run, b, prefix) ==
    /\ Fits(b, prefix)
    /\ Len(resv) < MaxHolds
    /\ bucket' = [bucket EXCEPT ![b] = Held(@)]
    /\ resv' = Append(resv, [key |-> k, run |-> run, bucket |-> b, max |-> Amount, charge |-> 0,
                             deadline |-> now + Window, status |-> "reserved"])
    /\ UNCHANGED <<dead, ended, notices>>

\* The conditional debit and the reservation it backs; the unique index of the keys fails it.
ReserveTx(k, run, b, prefix) ==
    /\ WithKey(k) = {}
    /\ Fits(b, prefix)
    /\ Len(resv) < MaxHolds
    /\ bucket' = [bucket EXCEPT ![b] = Held(@)]
    /\ resv' = Append(resv, [key |-> k, run |-> run, bucket |-> b, max |-> Amount, charge |-> 0,
                             deadline |-> now + Window, status |-> "reserved"])
    /\ UNCHANGED <<dead, ended, notices>>

\* Mutant of Returnable: the termination mark is not asked for.
ReturnableThoughDead(b) == InTerm(b)

\* What is not charged goes back to a bucket that is neither expired nor terminated.
Returnable(b) == InTerm(b) /\ b \notin dead

\* A hold of max ends: charge of it is settled, and the rest returned or written off.
Freed(a, max, charge, back) ==
    LET rest == max - charge
    IN  [total |-> a.total, reserved |-> a.reserved - max, settled |-> a.settled + charge,
         available |-> IF back THEN a.available + rest ELSE a.available,
         lost |-> IF back THEN a.lost ELSE a.lost + rest]
Ended(r, status, charge) == [r EXCEPT !.status = status, !.charge = charge]

\* Mutant of CloseTx: the reservation is closed whatever its status has become.
CloseTxAgain(i, status, charge) ==
    LET b == resv[i].bucket
    IN  /\ resv' = [resv EXCEPT ![i] = Ended(@, status, charge)]
        /\ bucket' = [bucket EXCEPT ![b] = Freed(@, resv[i].max, charge, Returnable(b))]
        /\ UNCHANGED <<dead, ended, notices>>

\* settle, release and the sweep close a reservation only while it is reserved.
CloseTx(i, status, charge) ==
    LET b == resv[i].bucket
    IN  IF i \notin Open THEN UNCHANGED ledger
        ELSE /\ resv' = [resv EXCEPT ![i] = Ended(@, status, charge)]
             /\ bucket' = [bucket EXCEPT ![b] = Freed(@, resv[i].max, charge, Returnable(b))]
             /\ UNCHANGED <<dead, ended, notices>>

\* Thresholds of the bucket that are reached.
Reached(b) == {t \in {50, 80, 100} : bucket[b].settled * 100 >= t * bucket[b].total}

Tick == now < MaxTime /\ now' = now + 1 /\ UNCHANGED ledger
=============================================================================
