---------------------------- MODULE Provisioning ----------------------------
(***************************************************************************)
(* A trial of one billing account, from the claim of a customer to a       *)
(* workspace that is active: the claim and its lease (pro-trial.ts,        *)
(* pro-trial-store.ts), the saga that reserves the workspace and brings    *)
(* its quota policy into a new database (provisioning-saga.ts), what       *)
(* follows up to the activation (create-workspace.ts, scope-gate.ts), and  *)
(* the delivery in front of it (pro-trial-delivery.ts).                    *)
(*                                                                         *)
(* A request key has a slug of its own, so that a key is also its claim    *)
(* and its workspace. The name of a database is drawn at random and belongs *)
(* to one workspace: the database is a part of it. A step is a query; one  *)
(* that only writes provisioning_stage, which nothing here reads, is part  *)
(* of the step before it.                                                  *)
(***************************************************************************)
EXTENDS Naturals, FiniteSets

CONSTANTS
    Keys,         \* the idempotency keys of the account's requests
    Calls,        \* the requests, each of which may be repeated
    KeyOf,        \* [Calls -> Keys]
    MaxTries,     \* MAX_DB_NAME_ATTEMPTS
    May,          \* which disturbances there are
    MaxTroubles,  \* bound: how many
    None

Disturbances == {"query", "crash", "over", "revoke", "rival", "collision", "unready", "slow"}

ASSUME ProvisioningAssumption ==
    /\ KeyOf \in [Calls -> Keys]
    /\ MaxTries \in Nat \ {0} /\ MaxTroubles \in Nat
    /\ May \subseteq Disturbances
    /\ None \notin Calls \cup Keys \cup {"active"}

VARIABLES
    eligible, \* pro_trial_eligibility and the membership of the billing account
    slot,     \* pro_trial_slot.current_claim
    claim,    \* pro_trial_claim; over: ends_at has passed
    ws,       \* the workspace of a slug, with its control-plane rows and its database; left:
              \* the subscription of a reservation of the slug that was released
    call,     \* the requests
    outlived, \* the keys with a request that has worked longer than its lease
    troubles

vars == <<eligible, slot, claim, ws, call, outlived, troubles>>

-----------------------------------------------------------------------------
(* State *)

NoDb == [state |-> "none", policy |-> "none", ready |-> FALSE, schema |-> FALSE, owner |-> FALSE]
NoWs == [by |-> "nobody", status |-> "provisioning", source |-> FALSE, entitled |-> FALSE,
         applied |-> FALSE, trusted |-> FALSE, index |-> FALSE, given |-> FALSE, left |-> FALSE,
         db |-> NoDb]

Init ==
    /\ eligible = TRUE
    /\ slot = None
    /\ claim = [k \in Keys |-> [state |-> "none", lease |-> None, over |-> FALSE]]
    /\ ws = [k \in Keys |-> NoWs]
    /\ call = [c \in Calls |-> [pc |-> "idle", resumed |-> FALSE, late |-> FALSE, tries |-> 0,
                                told |-> None]]
    /\ outlived = {}
    /\ troubles = 0

Mine(c) == ws[KeyOf[c]]
At(c, pc) == call[c].pc = pc
Goto(c, pc) == call' = [call EXCEPT ![c].pc = pc]
Tells(c, answer) == call' = [call EXCEPT ![c].pc = "idle", ![c].told = answer]

Trouble(what) == what \in May /\ troubles < MaxTroubles /\ troubles' = troubles + 1
Calm == UNCHANGED troubles

Becomes(c, row) == ws' = [ws EXCEPT ![KeyOf[c]] = row]
BecomesDb(c, db) == Becomes(c, [Mine(c) EXCEPT !.db = db])

\* A query that makes row of the workspace and goes on at next; or it throws, having taken
\* effect or not, and the handler is one of catch.
Writes(c, row, next, catch) ==
    /\ \/ Becomes(c, row) /\ Goto(c, next) /\ Calm
       \/ (ws' = ws \/ Becomes(c, row)) /\ (\E pc \in catch : Goto(c, pc)) /\ Trouble("query")
    /\ UNCHANGED <<eligible, slot, claim, outlived>>

\* The handler of the saga drops the database when the error names the missing capability.
SagaCatch == {"undo"}
NativeCatch == {"undo", "void"}

-----------------------------------------------------------------------------
(* SurrealTrialStore.claim *)

Started(k) == claim[k].state # "none"
Running(k) == Started(k) /\ ~claim[k].over

\* A subscription of the account stands for the trial; that of a released reservation does, too.
Subscribed(k) == ws[k].source \/ ws[k].left

\* Mutant of Busy: only the trials that already have a subscription count.
BusyWithSource == \E k \in Keys : Subscribed(k) /\ Running(k)

\* The account has a trial: the claim of its slot is not over, nor a trialing subscription.
Busy == (slot # None /\ Running(slot)) \/ \E k \in Keys : Subscribed(k) /\ Running(k)

Refused(k) ==
    \/ ~eligible
    \/ Started(k) /\ claim[k].over
    \/ ~Started(k) /\ (Busy \/ ws[k].by # "nobody")

\* The transaction: a first claim takes the slot; who finds no lease takes it.
Claims(c) ==
    LET k == KeyOf[c]
        free == claim[k].state # "active" /\ claim[k].lease = None IN
    /\ slot' = IF Started(k) THEN slot ELSE k
    /\ claim' = [claim EXCEPT ![k].state = IF Started(k) THEN @ ELSE "provisioning",
                              ![k].lease = IF free THEN c ELSE @]

Begins(c) ==
    call' = [call EXCEPT ![c] = [pc |-> "reserve", resumed |-> FALSE, late |-> FALSE, tries |-> 0,
                                 told |-> None]]

Claim(c) ==
    LET k == KeyOf[c] IN
    /\ At(c, "idle") /\ call[c].told # "active"
    /\ IF Refused(k) THEN Tells(c, "refused") /\ UNCHANGED <<slot, claim>>
       ELSE /\ Claims(c)
            /\ CASE claim[k].state = "active" -> Tells(c, "active")
                 [] claim[k].lease # None -> Tells(c, "pending")
                 [] OTHER -> Begins(c)
    /\ UNCHANGED <<eligible, ws, troubles, outlived>>

\* The answer of the transaction is lost: the lease has been taken by nobody.
ClaimThrows(c) ==
    /\ At(c, "idle") /\ call[c].told # "active" /\ ~Refused(KeyOf[c])
    /\ Trouble("query")
    /\ Claims(c) /\ Tells(c, "failed")
    /\ UNCHANGED <<eligible, ws, outlived>>

-----------------------------------------------------------------------------
(* tryCreateWorkspace and runProvisioningQuotaSaga *)

\* Mutant of Resumable: only what has not failed is taken up again.
ResumableUnfailed(row) == row.by = "owner" /\ row.status = "provisioning"

\* reserveWorkspace: the row of the slug is the caller's, and not active.
Resumable(row) == row.by = "owner" /\ row.status \in {"provisioning", "error"}

\* A name that is drawn may be that of a database nobody has registered.
Drawn(foreign) ==
    IF foreign THEN {[NoDb EXCEPT !.state = "foreign", !.policy = p] : p \in {"none", "other"}}
    ELSE {NoDb}

Reserved(c, next) ==
    LET r == call[c] IN
    call' = [call EXCEPT ![c] = [r EXCEPT !.pc = next, !.resumed = (Mine(c).by = "owner"),
                                          !.late = claim[KeyOf[c]].over, !.tries = r.tries + 1]]

\* The new row of a workspace, and what an earlier one of the slug has left.
NewRow(c, db) == [NoWs EXCEPT !.by = "owner", !.left = Mine(c).left, !.db = db]

\* The clock of the database, reserveWorkspace and loadPlan; nothing catches what they throw.
Reserve(c) ==
    /\ At(c, "reserve")
    /\ IF Mine(c).by = "nobody"
       THEN \E foreign \in BOOLEAN : \E db \in Drawn(foreign) :
                /\ Becomes(c, NewRow(c, db))
                /\ Reserved(c, "source")
                /\ IF foreign THEN Trouble("collision") ELSE Calm
       ELSE /\ Reserved(c, IF Resumable(Mine(c)) THEN "source" ELSE "finish")
            /\ UNCHANGED <<ws, troubles>>
    /\ UNCHANGED <<eligible, slot, claim, outlived>>

ReserveThrows(c) ==
    /\ At(c, "reserve") /\ Trouble("query")
    /\ \/ ws' = ws
       \/ Mine(c).by = "nobody" /\ Becomes(c, NewRow(c, NoDb))
    /\ Goto(c, "finish")
    /\ UNCHANGED <<eligible, slot, claim, outlived>>

\* persistResourceSource, and the resolution: a trial that is over gives no entitlement.
Source(c) ==
    /\ At(c, "source")
    /\ Writes(c, [Mine(c) EXCEPT !.source = TRUE], IF call[c].late THEN "undo" ELSE "entitle",
              SagaCatch)

\* persistEntitlementAndProjection and the mark that names the desired ones.
Entitle(c) ==
    /\ At(c, "entitle")
    /\ Writes(c, [Mine(c) EXCEPT !.entitled = TRUE, !.status = "provisioning"], "define", SagaCatch)

\* createPhysicalDatabase: a database that exists is one's own only when one resumes.
Define(c) ==
    /\ At(c, "define")
    /\ IF Mine(c).db.state = "none"
       THEN Writes(c, [Mine(c) EXCEPT !.db = [NoDb EXCEPT !.state = "made"]], "info", SagaCatch)
       ELSE Writes(c, Mine(c), IF call[c].resumed THEN "info" ELSE "release", SagaCatch)

\* Mutant of Again: one try too many.
AgainOnce(c) == IF call[c].tries <= MaxTries THEN "reserve" ELSE "finish"

\* The loop over names.
Again(c) == IF call[c].tries < MaxTries THEN "reserve" ELSE "finish"

\* releaseReservation deletes the workspace and its memberships, and leaves its subscription,
\* entitlement and projection behind, which no other workspace refers to; its failure is ignored.
Release(c) ==
    /\ At(c, "release")
    /\ Writes(c, [NoWs EXCEPT !.left = Subscribed(KeyOf[c])], Again(c), {Again(c)})

-----------------------------------------------------------------------------
(* The native policy *)

Info(c) ==
    /\ At(c, "info")
    /\ Writes(c, Mine(c),
              CASE Mine(c).db.policy = "none" -> "apply"
                [] Mine(c).db.policy = "other" -> "undo"
                [] OTHER -> "look",
              NativeCatch)

Apply(c) ==
    /\ At(c, "apply")
    /\ Writes(c, [Mine(c) EXCEPT !.db.policy = "own"], "look", NativeCatch)

\* The second INFO: a ledger that is not ready is rebuilt.
Look(c) ==
    /\ At(c, "look")
    /\ Writes(c, Mine(c), IF Mine(c).db.ready THEN "read" ELSE "rebuild", NativeCatch)

Rebuild(c) ==
    /\ At(c, "rebuild")
    /\ \/ Writes(c, [Mine(c) EXCEPT !.db.ready = TRUE], "read", NativeCatch)
       \/ Trouble("unready") /\ Goto(c, "read") /\ UNCHANGED <<eligible, slot, claim, ws, outlived>>

\* Mutant of ReadBack: the policy alone is looked at.
ReadBackPolicy(db) == db.policy = "own"

\* The INFO that decides: the policy is the projected one, the ledger ready and trusted.
ReadBack(db) == db.policy = "own" /\ db.ready

Read(c) ==
    /\ At(c, "read")
    /\ Writes(c, Mine(c), IF ReadBack(Mine(c).db) THEN "applied" ELSE "undo", NativeCatch)

\* markAppliedFromNative, two statements and no transaction, and the mark of policy_applied.
Applied(c) ==
    LET half == [Mine(c) EXCEPT !.applied = TRUE] IN
    /\ At(c, "applied")
    /\ \/ Writes(c, [half EXCEPT !.trusted = TRUE, !.status = "provisioning"], "template", SagaCatch)
       \/ /\ Trouble("query") /\ Becomes(c, half) /\ Goto(c, "undo")
          /\ UNCHANGED <<eligible, slot, claim, outlived>>

-----------------------------------------------------------------------------
(* The rest of tryCreateWorkspace *)

Template(c) ==
    /\ At(c, "template")
    /\ Writes(c, [Mine(c) EXCEPT !.db.schema = TRUE], "owner", {"undo"})

Owner(c) ==
    /\ At(c, "owner")
    /\ Writes(c, [Mine(c) EXCEPT !.db.owner = TRUE], "index", {"undo"})

\* The index of the member has no unique slug or database name: none of their conflicts arises.
Index(c) ==
    /\ At(c, "index")
    /\ Writes(c, [Mine(c) EXCEPT !.index = TRUE], "gate", {"undo"})

\* evaluateWorkspaceScopeGate, as if the workspace were active.
GateOpens(row) == row.entitled /\ row.applied /\ row.trusted

Gate(c) ==
    /\ At(c, "gate")
    /\ Writes(c, Mine(c), IF GateOpens(Mine(c)) THEN "deliver" ELSE "undo", {"finish"})

\* The fence of the delivery and of the activation: the lease, the period, the right.
Fenced(c) ==
    claim[KeyOf[c]].lease = c /\ ~claim[KeyOf[c]].over /\ eligible

\* deliverProTrial: the period, then product, allowance and content, and then the fence.
Deliver(c) ==
    /\ At(c, "deliver")
    /\ Writes(c, [Mine(c) EXCEPT !.given = @ \/ ~claim[KeyOf[c]].over],
              IF Fenced(c) THEN "activate" ELSE "undo", {"undo"})

\* The transaction that makes workspace and claim active.
Activates(c) ==
    /\ Becomes(c, [Mine(c) EXCEPT !.status = "active"])
    /\ claim' = [claim EXCEPT ![KeyOf[c]] = [@ EXCEPT !.state = "active", !.lease = None]]

\* Nothing catches what it throws.
Activate(c) ==
    /\ At(c, "activate")
    /\ IF Fenced(c)
       THEN \/ Activates(c) /\ Goto(c, "done") /\ Calm
            \/ Goto(c, "finish") /\ Trouble("query") /\ (Activates(c) \/ UNCHANGED <<ws, claim>>)
       ELSE Goto(c, "finish") /\ UNCHANGED <<ws, claim, troubles>>
    /\ UNCHANGED <<eligible, slot, outlived>>

\* The handlers: the row is marked as failed, if the query gets that far.
Undo(c) ==
    /\ call[c].pc \in {"undo", "void"}
    /\ Writes(c, [Mine(c) EXCEPT !.status = "error"], IF At(c, "void") THEN "drop" ELSE "finish",
              {IF At(c, "void") THEN "drop" ELSE "finish"})

\* dropPhysicalDatabase, whose failure is ignored.
Drop(c) ==
    /\ At(c, "drop")
    /\ Writes(c, [Mine(c) EXCEPT !.db = NoDb], "finish", {"finish"})

\* Mutant of Finishes: the row is written whoever has the lease.
FinishesAnyway(c, state) ==
    claim' = [claim EXCEPT ![KeyOf[c]] = [@ EXCEPT !.state = state, !.lease = None]]

\* SurrealTrialStore.finish: UPDATE ... WHERE lease = $lease.
Finishes(c, state) ==
    claim' = [claim EXCEPT ![KeyOf[c]] =
                  IF @.lease = c THEN [@ EXCEPT !.state = state, !.lease = None] ELSE @]

\* The finally of ProTrialService.start.
Finish(c) ==
    LET good == At(c, "done") IN
    /\ call[c].pc \in {"finish", "done"}
    /\ \/ /\ Finishes(c, IF good THEN "active" ELSE "provisioning")
          /\ Tells(c, IF good THEN "active" ELSE "failed") /\ Calm
       \/ /\ Trouble("query") /\ Tells(c, "failed")
          /\ claim' = claim \/ Finishes(c, IF good THEN "active" ELSE "provisioning")
    /\ UNCHANGED <<eligible, slot, ws, outlived>>

-----------------------------------------------------------------------------
(* The environment *)

AtWork(c) == call[c].pc # "idle"

\* The process of a request dies.
Crash(c) ==
    /\ AtWork(c) /\ Trouble("crash")
    /\ Tells(c, "failed")
    /\ UNCHANGED <<eligible, slot, claim, ws, outlived>>

\* lease_until passes: ten minutes, which a request that lives does not take unless it is slow
\* (bound: then nothing else goes wrong).
Lapse(k) ==
    LET c == claim[k].lease IN
    /\ c # None
    /\ IF AtWork(c)
       THEN /\ "slow" \in May /\ troubles = 0
            /\ troubles' = MaxTroubles /\ outlived' = outlived \cup {k}
       ELSE UNCHANGED <<outlived, troubles>>
    /\ claim' = [claim EXCEPT ![k].lease = None]
    /\ UNCHANGED <<eligible, slot, ws, call>>

\* Seven days after the claim.
Over(k) ==
    /\ Running(k) /\ Trouble("over")
    /\ claim' = [claim EXCEPT ![k].over = TRUE]
    /\ UNCHANGED <<eligible, slot, ws, call, outlived>>

Revoke ==
    /\ eligible /\ Trouble("revoke")
    /\ eligible' = FALSE
    /\ UNCHANGED <<slot, claim, ws, call, outlived>>

Restore ==
    /\ ~eligible
    /\ eligible' = TRUE
    /\ UNCHANGED <<slot, claim, ws, call, troubles, outlived>>

\* Somebody else registers the slug.
Rival(k) ==
    /\ ws[k].by = "nobody" /\ Trouble("rival")
    /\ ws' = [ws EXCEPT ![k].by = "rival", ![k].status = "active"]
    /\ UNCHANGED <<eligible, slot, claim, call, outlived>>

Saga(c) ==
    \/ Reserve(c) \/ ReserveThrows(c) \/ Source(c) \/ Entitle(c) \/ Define(c) \/ Release(c)
    \/ Info(c) \/ Apply(c) \/ Look(c) \/ Rebuild(c) \/ Read(c) \/ Applied(c)
    \/ Template(c) \/ Owner(c) \/ Index(c) \/ Gate(c) \/ Deliver(c) \/ Activate(c)
    \/ Undo(c) \/ Drop(c) \/ Finish(c)

Next ==
    \/ \E c \in Calls : Claim(c) \/ ClaimThrows(c) \/ Saga(c) \/ Crash(c)
    \/ \E k \in Keys : Lapse(k) \/ Over(k) \/ Rival(k)
    \/ Revoke \/ Restore

Spec == Init /\ [][Next]_vars

\* Requests that live go on, customers repeat what has not come to its end, leases lapse, and
\* who lost the right gets it back.
Fairness ==
    /\ \A c \in Calls : WF_vars(Saga(c)) /\ WF_vars(Claim(c))
    /\ \A k \in Keys : WF_vars(Lapse(k))
    /\ WF_vars(Restore)

FairSpec == Spec /\ Fairness

-----------------------------------------------------------------------------
(* Properties *)

Dbs == [state : {"none", "made", "foreign"}, policy : {"none", "own", "other"},
        ready : BOOLEAN, schema : BOOLEAN, owner : BOOLEAN]
Rows == [by : {"nobody", "owner", "rival"}, status : {"provisioning", "error", "active"},
         source : BOOLEAN, entitled : BOOLEAN, applied : BOOLEAN, trusted : BOOLEAN,
         index : BOOLEAN, given : BOOLEAN, left : BOOLEAN, db : Dbs]
Pcs == {"idle", "reserve", "source", "entitle", "define", "release", "info", "apply", "look",
        "rebuild", "read", "applied", "template", "owner", "index", "gate", "deliver", "activate",
        "undo", "void", "drop", "finish", "done"}

\* Every variable keeps its type; no request draws more names than it may.
TypeOK ==
    /\ eligible \in BOOLEAN
    /\ slot \in Keys \cup {None}
    /\ claim \in [Keys -> [state : {"none", "provisioning", "active"}, lease : Calls \cup {None},
                           over : BOOLEAN]]
    /\ ws \in [Keys -> Rows]
    /\ outlived \subseteq Keys
    /\ call \in [Calls -> [pc : Pcs, resumed : BOOLEAN, late : BOOLEAN, tries : 0..MaxTries,
                           told : {None, "active", "pending", "refused", "failed"}]]
    /\ troubles \in 0..MaxTroubles

Whole(row) ==
    /\ row.source /\ GateOpens(row) /\ row.index /\ row.given
    /\ row.db.state # "none" /\ row.db.policy = "own" /\ row.db.ready
    /\ row.db.schema /\ row.db.owner

\* A workspace that is active has all it needs, whatever attempts came to nothing before, and
\* wherever each of them stopped: its entitlement is the one its database enforces, the ledger is
\* trusted, schema, owner and membership are there, and what the trial promises was delivered.
ActiveIsWhole ==
    \A k \in Keys \ outlived : ws[k].by = "owner" /\ ws[k].status = "active" => Whole(ws[k])

\* The claim, the workspace and the customer agree: a claim is active with its workspace and never
\* without it, and who was told that the trial runs has it.
ClaimMatches ==
    /\ \A k \in Keys \ outlived :
           claim[k].state = "active" <=> ws[k].by = "owner" /\ ws[k].status = "active"
    /\ \A c \in Calls : call[c].told = "active" => claim[KeyOf[c]].state = "active"

\* The account has one trial at a time, however many requests with however many keys are made.
OneTrial == Cardinality({k \in Keys : Running(k)}) <= 1

\* Nothing is in the way that a repetition cannot overcome: the right is there, the period is not
\* over, the slug and the database are not somebody else's.
Possible(k) ==
    eligible /\ Running(k) /\ ws[k].by # "rival" /\ ws[k].db.state # "foreign"

\* A claimed trial arrives: as long as its customer repeats the request, no failure, crash or lost
\* answer leaves it where it cannot be taken up again.
TrialArrives ==
    \A k \in Keys : Possible(k) ~> claim[k].state = "active" \/ ~Possible(k)

=============================================================================
