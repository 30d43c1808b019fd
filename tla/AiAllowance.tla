----------------------------- MODULE AiAllowance -----------------------------
(***************************************************************************)
(* The shared AI allowance of one workspace                                *)
(* (server/src/ai-allowance/service.ts) and the synchronizer that grants   *)
(* what the plan of a billing cycle gives (plan-cycle.ts): calls and syncs *)
(* that run one query at a time over the ledger of AllowanceLedger.        *)
(*                                                                         *)
(* A call or a sync can be cut at any query: the query throws, or the      *)
(* process stops.  A transaction can fail on a conflict and is tried again *)
(* a bounded number of times, or take effect and lose its answer.          *)
(***************************************************************************)
EXTENDS AllowanceLedger, Functions

CONSTANTS
    Calls,      \* calls of the service
    CallOf,     \* [Calls -> [op, name, run, charge]]
    Syncs,      \* executions of syncPlanCycleAllowance
    DirOf,      \* [Syncs -> Directive]
    Sizes,      \* amounts an operator grants
    Moves,      \* [Sources \cup {None} -> SUBSET ...], how the base source may move
    Together,   \* bound: the sets of calls and syncs that run beside each other
    MaxTries,   \* MAX_RESERVE_ATTEMPTS and MAX_ATTEMPTS (4 in the code)
    MaxCuts     \* bound: how many calls and syncs are cut

CallOps == {"reserve", "resume", "finish", "fail", "settle", "release", "balance"}
Directive == [src : Sources, period : Periods, base : Buckets, up : Buckets, target : Nat,
              event : STRING, remaining : Nat, den : Nat, ends : Sources \cup {None}]

\* The ids of the buckets are derived: pc_<hash of the period>, pcu_<hash of the period and event>.
ASSUME AllowanceAssumption ==
    /\ CallOf \in [Calls -> [op : CallOps, name : Names, run : Runs, charge : Nat]]
    /\ DirOf \in [Syncs -> Directive]
    /\ \A s \in Syncs :
         /\ DirOf[s].target > 0 /\ DirOf[s].den > 0 /\ DirOf[s].remaining <= DirOf[s].den
         /\ \A b \in {DirOf[s].base, DirOf[s].up} :
              /\ TermsOf[b].kind = "plan_cycle" /\ TermsOf[b].src = DirOf[s].src
              /\ TermsOf[b].period = DirOf[s].period
    /\ \A s, t \in Syncs :
         /\ DirOf[s].base # DirOf[t].up
         /\ DirOf[s].period = DirOf[t].period => DirOf[s].base = DirOf[t].base
    /\ None \notin Nat
    /\ Moves \in [Sources \cup {None} -> SUBSET (Sources \cup {None})]
    /\ Together \subseteq SUBSET (Calls \cup Syncs)
    /\ Sizes \subseteq Nat \ {0}
    /\ MaxTries \in Nat \ {0} /\ MaxCuts \in Nat

VARIABLES
    live,       \* the calls and syncs of this behaviour
    source,     \* the base source of the workspace's current entitlement snapshot, or None
    call,       \* the calls
    sync,       \* the syncs
    upgrade,    \* ai_plan_upgrade_state of a period; den = 0 while the row is absent
    cuts        \* calls and syncs that were cut

vars == <<now, ledger, live, source, call, sync, upgrade, cuts>>

NoCall == [pc |-> "idle", key |-> None, prefix |-> None, todo |-> {}, cand |-> {},
           tries |-> 0, err |-> "none", hold |-> 0, answer |-> "none"]
NoSync == [pc |-> "idle", tries |-> 0]
NoUpgrade == [high |-> 0, num |-> 0, den |-> 0, granted |-> 0, events |-> {}]

Init ==
    /\ LedgerInit
    /\ live \in Together
    /\ source \in DOMAIN Moves
    /\ call = [c \in Calls |-> NoCall]
    /\ sync = [s \in Syncs |-> NoSync]
    /\ upgrade = [p \in Periods |-> NoUpgrade]
    /\ cuts = 0

At(c, pc) == call[c].pc = pc
Goto(c, pc) == call' = [call EXCEPT ![c].pc = pc]
Answer(c, answer) == call' = [call EXCEPT ![c].pc = "done", ![c].answer = answer]
Others == <<now, live, source, sync, upgrade, cuts>>
OnlyCall == UNCHANGED <<ledger, Others>>

-----------------------------------------------------------------------------
(* reserve, resume and balance: gate, sweep, then the debit. *)

OpIn(c, ops) == CallOf[c].op \in ops

Start(c) ==
    /\ At(c, "idle") /\ c \in live
    /\ IF OpIn(c, {"reserve", "settle", "release"})
       THEN call' = [call EXCEPT ![c].key = <<CallOf[c].name, -1>>,
                                 ![c].pc = IF OpIn(c, {"reserve"}) THEN "gate" ELSE "load"]
       ELSE Goto(c, IF OpIn(c, {"balance"}) THEN "scan"
                    ELSE IF OpIn(c, {"resume"}) THEN "gate" ELSE "find")
    /\ OnlyCall

\* entitlementGate: what the caller read stays with it for the whole call.
Gate(c) ==
    /\ At(c, "gate")
    /\ call' = [call EXCEPT ![c].pc = "scan", ![c].prefix = source]
    /\ OnlyCall

\* No snapshot, an action that is not entitled, or one without an active rate.
Refused(c) ==
    /\ At(c, "gate")
    /\ Answer(c, "refused")
    /\ OnlyCall

Scan(c) ==
    /\ At(c, "scan")
    /\ call' = [call EXCEPT ![c].pc = "sweep", ![c].todo = Overdue]
    /\ OnlyCall

SweepOne(c) ==
    /\ At(c, "sweep")
    /\ \E i \in call[c].todo :
         /\ call' = [call EXCEPT ![c].todo = @ \ {i}]
         /\ CloseTx(i, "expired", 0)
    /\ UNCHANGED Others

Swept(c) ==
    /\ At(c, "sweep") /\ call[c].todo = {}
    /\ IF OpIn(c, {"balance"}) THEN Answer(c, "balance")
       ELSE Goto(c, IF call[c].key = None THEN "latest" ELSE "look")
    /\ OnlyCall

Newest(S) == {i \in S : \A j \in S : j <= i}
OfRun(c, S) == {i \in S : resv[i].run = CallOf[c].run}

\* resume: a hold that is open or charged is continued; otherwise a new one is reserved,
\* under a key that names the one it follows.
Latest(c) ==
    /\ At(c, "latest")
    /\ \/ /\ OfRun(c, Holds) = {}
          /\ call' = [call EXCEPT ![c].pc = "gate", ![c].key = <<CallOf[c].name, 0>>]
       \/ \E i \in Newest(OfRun(c, Holds)) :
            call' = IF resv[i].status \in {"reserved", "settled"}
                    THEN [call EXCEPT ![c].pc = "done", ![c].answer = "continued", ![c].hold = i]
                    ELSE [call EXCEPT ![c].pc = "gate", ![c].key = <<CallOf[c].name, i>>]
    /\ OnlyCall

\* The reservation of the key, when it is there, is the answer.
FoundByKey(c, answer) ==
    \E i \in WithKey(call[c].key) :
        call' = [call EXCEPT ![c].pc = "done", ![c].answer = answer, ![c].hold = i]

Look(c) ==
    /\ At(c, "look")
    /\ IF WithKey(call[c].key) # {} THEN FoundByKey(c, "reused") ELSE Goto(c, "candidates")
    /\ OnlyCall

Candidates(c) ==
    /\ At(c, "candidates")
    /\ call' = [call EXCEPT ![c].pc = "try", ![c].cand = {b \in Buckets : Fits(b, call[c].prefix)}]
    /\ OnlyCall

NoneLeft(c) ==
    /\ At(c, "try") /\ call[c].cand = {}
    /\ Answer(c, "insufficient")
    /\ OnlyCall

\* Earliest expiry first, purchased after the others of the same expiry.
Before(a, b) ==
    \/ TermsOf[a].until < TermsOf[b].until
    \/ /\ TermsOf[a].until = TermsOf[b].until
       /\ TermsOf[a].kind # "purchased" /\ TermsOf[b].kind = "purchased"

First(c) == {b \in call[c].cand : \A x \in call[c].cand : ~Before(x, b)}
FitsNow(c, b) == Fits(b, call[c].prefix)
Debit(c, b) == ReserveTx(call[c].key, CallOf[c].run, b, call[c].prefix)

\* The transaction on the first candidate: it debits and reserves, or debits nothing.
TryDebit(c) ==
    /\ At(c, "try")
    /\ \E b \in First(c) :
         /\ call' = [call EXCEPT ![c].pc = "check", ![c].cand = @ \ {b}]
         /\ IF FitsNow(c, b) THEN Debit(c, b) ELSE UNCHANGED ledger
    /\ UNCHANGED Others

\* It throws: the key was taken meanwhile, a conflict, or an answer that is lost.
TryThrows(c) ==
    /\ At(c, "try")
    /\ \E b \in First(c), err \in {"unique", "conflict", "lost"} :
         /\ call' = [call EXCEPT ![c].pc = "raced", ![c].err = err]
         /\ err = "unique" => FitsNow(c, b) /\ WithKey(call[c].key) # {}
         /\ IF err = "lost" THEN cuts < MaxCuts /\ cuts' = cuts + 1 /\ Debit(c, b)
                            ELSE UNCHANGED <<ledger, cuts>>
    /\ UNCHANGED <<now, live, source, sync, upgrade>>

Check(c) ==
    /\ At(c, "check")
    /\ IF WithKey(call[c].key) # {} THEN FoundByKey(c, "reserved")
       ELSE Goto(c, "try")
    /\ OnlyCall

Raced(c) ==
    /\ At(c, "raced")
    /\ IF WithKey(call[c].key) # {} THEN FoundByKey(c, "reused")
       ELSE IF call[c].err # "conflict" THEN Answer(c, "failed")
       ELSE IF call[c].tries + 1 >= MaxTries THEN Answer(c, "contended")
       ELSE call' = [call EXCEPT ![c].pc = "candidates", ![c].tries = @ + 1]
    /\ OnlyCall

-----------------------------------------------------------------------------
(* finishByRun, settle and release. *)

\* finishByRun finds the latest open hold of the run and passes its key on.
Find(c) ==
    /\ At(c, "find")
    /\ \/ OfRun(c, Open) = {} /\ Answer(c, "nothing")
       \/ \E i \in Newest(OfRun(c, Open)) :
            call' = [call EXCEPT ![c].key = resv[i].key, ![c].pc = "load"]
    /\ OnlyCall

Charging(c) == OpIn(c, {"finish", "settle"})
ChargeOf(c, i) == IF OpIn(c, {"settle"}) THEN CallOf[c].charge ELSE resv[i].max

\* settle reads the hold and checks the amount before its transaction; release does not.
Load(c) ==
    /\ At(c, "load")
    /\ LET of == WithKey(call[c].key) \cap (IF Charging(c) THEN Open ELSE Holds)
       IN  \/ of = {} /\ Answer(c, "nothing")
           \/ \E i \in of : /\ Charging(c) /\ ChargeOf(c, i) > resv[i].max
                            /\ Answer(c, "refused")
           \/ \E i \in of : /\ Charging(c) => ChargeOf(c, i) <= resv[i].max
                            /\ call' = [call EXCEPT ![c].pc = "post", ![c].hold = i]
    /\ OnlyCall

Post(c) ==
    /\ At(c, "post")
    /\ LET i == call[c].hold
       IN  IF Charging(c) THEN CloseTx(i, "settled", ChargeOf(c, i)) ELSE CloseTx(i, "released", 0)
    /\ IF Charging(c) THEN Goto(c, "notify") ELSE Answer(c, "posted")
    /\ UNCHANGED Others

\* emitThresholdNotices: one row for a period and a threshold, whichever bucket reached it.
Notify(c) ==
    /\ At(c, "notify")
    /\ LET b == resv[call[c].hold].bucket
       IN  notices' = notices \cup ({TermsOf[b].period} \X Reached(b))
    /\ Answer(c, "posted")
    /\ UNCHANGED <<bucket, dead, ended, resv, Others>>

CutCall(c) ==
    /\ call[c].pc \notin {"idle", "done"} /\ cuts < MaxCuts
    /\ cuts' = cuts + 1
    /\ Answer(c, "failed")
    /\ UNCHANGED <<now, ledger, live, source, sync, upgrade>>

-----------------------------------------------------------------------------
(* syncPlanCycleAllowance. *)

SyncAt(s, pc) == sync[s].pc = pc
SyncTo(s, pc) == sync' = [sync EXCEPT ![s].pc = pc, ![s].tries = 0]
OnlySync == UNCHANGED <<now, live, source, call, cuts>>

SyncStart(s) ==
    /\ SyncAt(s, "idle") /\ s \in live
    /\ SyncTo(s, IF DirOf[s].ends = None THEN "readBase" ELSE "insert")
    /\ UNCHANGED <<ledger, upgrade>> /\ OnlySync

\* terminateTrialSourceBuckets: the audit row of the source first, then its buckets.
InsertTermination(s) ==
    /\ SyncAt(s, "insert")
    /\ ended' = ended \cup {DirOf[s].ends}
    /\ sync' = [sync EXCEPT ![s].pc = "mark"]
    /\ UNCHANGED <<bucket, dead, resv, notices, upgrade>> /\ OnlySync

MarkTerminated(s) ==
    /\ SyncAt(s, "mark")
    /\ dead' = dead \cup {b \in Buckets : Exists(b) /\ TermsOf[b].kind = "plan_cycle"
                                          /\ TermsOf[b].src = DirOf[s].ends}
    /\ SyncTo(s, "readBase")
    /\ UNCHANGED <<bucket, ended, resv, notices, upgrade>> /\ OnlySync

ReadBase(s) ==
    /\ SyncAt(s, "readBase")
    /\ SyncTo(s, IF Exists(DirOf[s].base) THEN "readUp" ELSE "makeBase")
    /\ UNCHANGED <<ledger, upgrade>> /\ OnlySync

MakeBase(s) ==
    /\ SyncAt(s, "makeBase")
    /\ IF Exists(DirOf[s].base) THEN UNCHANGED ledger ELSE CreateTx(DirOf[s].base, DirOf[s].target)
    /\ SyncTo(s, "readUp")
    /\ UNCHANGED upgrade /\ OnlySync

HasRow(p) == upgrade[p].den > 0
HighWater(d) == IF HasRow(d.period) THEN upgrade[d.period].high ELSE bucket[d.base].total

ReadUpgrade(s) ==
    /\ SyncAt(s, "readUp")
    /\ LET d == DirOf[s]
           settledAlready == \/ Exists(d.up) \/ ~Exists(d.base)
                             \/ d.target <= HighWater(d)
                             \/ d.event \in upgrade[d.period].events
       IN  sync' = [sync EXCEPT ![s].pc = IF settledAlready THEN "done" ELSE "makeUp"]
    /\ UNCHANGED <<ledger, upgrade>> /\ OnlySync

\* The transaction selects high_water, r_num, granted_total and events of the row, and not
\* r_den: what it compares with the directive's own denominator is NONE.
RDenOf(row) == None

\* Mutant of Raise: the whole target counts, and not what it adds.
RaiseWhole(d) == d.target

\* What the target of the directive adds to the high water of the cycle.
Raise(d) == d.target - HighWater(d)

\* The unrounded sum of what the raises of the target are worth.
Worth(d) == upgrade[d.period].num + Raise(d) * d.remaining

\* What is granted of it: its floor, less what was granted before.
Supplement(d) == Worth(d) \div d.den - upgrade[d.period].granted

Raises(d) ==
    /\ Raise(d) > 0
    /\ HasRow(d.period) => /\ RDenOf(upgrade[d.period]) = d.den
                           /\ d.event \notin upgrade[d.period].events

\* The upgrade of the cycle; the CREATE of a bucket that is there would fail it.
MakeUpgrade(s) ==
    /\ SyncAt(s, "makeUp")
    /\ LET d == DirOf[s]
           n == Supplement(d)
       IN  IF Raises(d)
           THEN /\ upgrade' = [upgrade EXCEPT ![d.period] =
                     [high |-> d.target, num |-> Worth(d), den |-> d.den,
                      granted |-> @.granted + n, events |-> @.events \cup {d.event}]]
                /\ IF n > 0 THEN ~Exists(d.up) /\ CreateTx(d.up, n) ELSE UNCHANGED ledger
           ELSE UNCHANGED <<upgrade, ledger>>
    /\ sync' = [sync EXCEPT ![s].pc = "done"]
    /\ OnlySync

\* A transaction of the sync fails on a conflict: the step is tried again, or the sync throws.
SyncConflict(s) ==
    /\ sync[s].pc \in {"insert", "mark", "makeBase", "makeUp"}
    /\ IF sync[s].tries + 1 < MaxTries
       THEN sync' = [sync EXCEPT ![s].tries = @ + 1,
                       ![s].pc = CASE @ = "mark" -> "insert" [] @ = "makeUp" -> "readUp" [] OTHER -> @]
       ELSE sync' = [sync EXCEPT ![s].pc = "failed"]
    /\ UNCHANGED <<ledger, upgrade>> /\ OnlySync

CutSync(s) ==
    /\ sync[s].pc \notin {"idle", "done", "failed"} /\ cuts < MaxCuts
    /\ cuts' = cuts + 1
    /\ sync' = [sync EXCEPT ![s].pc = "failed"]
    /\ UNCHANGED <<now, ledger, live, source, call, upgrade>>

-----------------------------------------------------------------------------

\* An operator grants a purchased or a compensation bucket.
Grant(b) ==
    /\ TermsOf[b].kind # "plan_cycle" /\ ~Exists(b)
    /\ \E n \in Sizes : CreateTx(b, n)
    /\ UNCHANGED <<now, live, source, call, sync, upgrade, cuts>>

\* The entitlement of the workspace moves to another base source, or to none.
SourceMoves ==
    /\ source' \in Moves[source]
    /\ UNCHANGED <<now, ledger, live, call, sync, upgrade, cuts>>

ClockTicks == Tick /\ UNCHANGED <<live, source, call, sync, upgrade, cuts>>

CallStep(c) ==
    \/ Start(c) \/ Gate(c) \/ Refused(c) \/ Scan(c) \/ SweepOne(c) \/ Swept(c) \/ Latest(c)
    \/ Look(c) \/ Candidates(c) \/ NoneLeft(c) \/ TryDebit(c) \/ TryThrows(c) \/ Check(c)
    \/ Raced(c) \/ Find(c) \/ Load(c) \/ Post(c) \/ Notify(c)
SyncStep(s) ==
    \/ SyncStart(s) \/ InsertTermination(s) \/ MarkTerminated(s) \/ ReadBase(s) \/ MakeBase(s)
    \/ ReadUpgrade(s) \/ MakeUpgrade(s) \/ SyncConflict(s)

Next ==
    \/ \E c \in Calls : CallStep(c) \/ CutCall(c)
    \/ \E s \in Syncs : SyncStep(s) \/ CutSync(s)
    \/ \E b \in Buckets : Grant(b)
    \/ SourceMoves \/ ClockTicks

Spec == Init /\ [][Next]_vars

-----------------------------------------------------------------------------

CallRecord == [pc : {"idle", "gate", "scan", "sweep", "latest", "look", "candidates", "try",
                     "check", "raced", "find", "load", "post", "notify", "done"},
               key : Keys \cup {None}, prefix : Sources \cup {None}, todo : SUBSET Nat,
               cand : SUBSET Buckets, tries : Nat, err : {"none", "unique", "conflict", "lost"},
               hold : Nat,
               answer : {"none", "refused", "balance", "continued", "reused", "reserved",
                         "insufficient", "contended", "failed", "nothing", "posted"}]

Amounts == [total : Nat, available : Nat, reserved : Int, settled : Nat, lost : Nat]

\* Types; a balance that is available never goes below zero, whatever the calls do.
TypeOK ==
    /\ now \in Nat
    /\ bucket \in [Buckets -> Amounts]
    /\ dead \subseteq Buckets /\ ended \subseteq Sources \cup {None}
    /\ resv \in Seq(Reservation) /\ Len(resv) <= MaxHolds
    /\ notices \subseteq Periods \X {50, 80, 100}
    /\ live \in Together /\ source \in Sources \cup {None}
    /\ call \in [Calls -> CallRecord]
    /\ sync \in [Syncs -> [pc : {"idle", "insert", "mark", "readBase", "makeBase", "readUp", "makeUp",
                                "done", "failed"}, tries : Nat]]
    /\ upgrade \in [Periods -> [high : Nat, num : Nat, den : Nat, granted : Int, events : SUBSET STRING]]
    /\ cuts \in Nat

\* What the reservations hold at most, and what they have charged.
MaxOf == [i \in Holds |-> resv[i].max]
ChargedBy == [i \in Holds |-> resv[i].charge]
Mine(b) == {i \in Holds : resv[i].bucket = b}

\* The amounts of a bucket are those of its reservations: what it holds is the sum of the open
\* ones, what it has settled the sum of the charges, and nothing else leaves its total.
HeldIsOpen ==
    \A b \in Buckets :
        /\ bucket[b].reserved = SumFunctionOnSet(MaxOf, Mine(b) \cap Open)
        /\ bucket[b].settled = SumFunctionOnSet(ChargedBy, Mine(b))
        /\ bucket[b].total = bucket[b].available + bucket[b].reserved + bucket[b].settled
                              + bucket[b].lost

\* A bucket that has expired or was terminated gets nothing back and is not reserved on:
\* an unused hold on it is written off, and no later event revives it.
NoRevival ==
    [][\A b \in Buckets :
         (Exists(b) /\ (~InTerm(b) \/ b \in dead)) =>
            /\ bucket'[b].available = bucket[b].available
            /\ bucket'[b].reserved <= bucket[b].reserved
            /\ b \in dead => b \in dead']_vars

\* Once the conversion of a trial has been confirmed, no bucket of the trial is consumable,
\* not even one that a delayed sync of the trial creates afterwards.
TrialStaysEnded ==
    \A s \in Syncs :
        sync[s].pc \in {"readBase", "makeBase", "readUp", "makeUp", "done"} /\ DirOf[s].ends # None =>
            \A b \in Buckets :
                Exists(b) /\ TermsOf[b].kind = "plan_cycle" /\ TermsOf[b].src = DirOf[s].ends => b \in dead

UpBuckets(p) == {b \in {DirOf[s].up : s \in Syncs} : TermsOf[b].period = p /\ Exists(b)}

Totals == [b \in Buckets |-> bucket[b].total]

BaseOf(p) == {b \in {DirOf[s].base : s \in Syncs} : TermsOf[b].period = p}

\* However the syncs of one event or of several are interleaved, cut and repeated, a cycle is
\* never given more than the highest target that was confirmed in it, and every unit that was
\* granted for an upgrade is in a bucket.
CycleIsBounded ==
    \A p \in Periods : HasRow(p) =>
        /\ upgrade[p].granted = SumFunctionOnSet(Totals, UpBuckets(p))
        /\ \A b \in BaseOf(p) : bucket[b].total + upgrade[p].granted <= upgrade[p].high

\* The buckets of plan cycles keep the terms of their cycles, in whatever order the syncs come.
CyclesKept == TrialStaysEnded /\ CycleIsBounded

\* What the ledger promises with: the amounts of its buckets, and its reservations.
Purse == [b \in Buckets |-> [total |-> bucket[b].total, free |-> bucket[b].available,
                              held |-> bucket[b].reserved, spent |-> bucket[b].settled,
                              lost |-> bucket[b].lost]]
Seen(r) == [key |-> r.key, bucket |-> r.bucket, amount |-> r.max, charge |-> r.charge,
            state |-> IF r.status = "reserved" THEN "open" ELSE "closed"]
Taken == [i \in Holds |-> Seen(resv[i])]

Promise == INSTANCE AllowancePromise WITH Amounts <- {Amount}, purse <- Purse, hold <- Taken

\* The ledger and its calls implement AllowancePromise: a key holds at most once, a hold is closed
\* once, and nothing is taken twice, whatever is retried, cut or lost.
KeepsPromise == Promise!PromiseSpec
=============================================================================
