------------------------ MODULE QuotaMaterialization ------------------------
(***************************************************************************)
(* Bringing the quota policy a workspace should have into its database:    *)
(* the operations, leases and projections of the control plane             *)
(* (server/src/quota/control-plane-store.ts, entitlement-refresh.ts,       *)
(* lifecycle-store.ts), the reconciler whose runs take them                *)
(* (reconciler.ts) and the audit that looks at the database beside them    *)
(* (native-audit-sweep.ts, quota-observation.ts).                          *)
(*                                                                         *)
(* A projection is the number of its revision in its workspace, and the    *)
(* identity of its operation.  A step is one query, on the control plane   *)
(* or on the native quota, whose policy has a generation that only grows.  *)
(***************************************************************************)
EXTENDS Integers, Sequences, FiniteSets

CONSTANTS
    Workspaces,
    Workers,     \* runs of MaterializationWorker.runOnce, in one process or several
    MaxRevision, \* bound: projections per workspace
    Content,     \* [1..MaxRevision -> policies]: the policy (its digest) of a projection
    MaxAttempts, \* attempts before a retry gives up
    Scenes,      \* bound: what may happen in one behaviour
    None, Foreign

Revisions == 1..MaxRevision
Events == {"pause", "resume", "retry", "reapply", "look",
           "answer", "query", "crash", "slow", "ledger", "foreign", "remove"}

ASSUME QuotaAssumption ==
    /\ MaxRevision \in Nat /\ MaxAttempts \in Nat
    \* the intents, audits and troubles that may come, how many of them, and the projections per workspace
    /\ Scenes \subseteq [may : SUBSET Events, most : Nat, wants : [Workspaces -> 0..MaxRevision]]
    /\ None \notin {Content[r] : r \in Revisions} /\ Foreign \notin {Content[r] : r \in Revisions}
    /\ None # Foreign

VARIABLES
    op,      \* quota_materialization_operation per workspace and revision
    ws,      \* the projections of the workspace row, and its failed operations, latest last
    rt,      \* workspace_quota_runtime
    native,  \* INFO FOR QUOTA of the database
    queue,   \* the operations in the order of created_at
    wk,      \* the runs of the workers
    look,    \* the audit of a workspace
    since,   \* the policies the database has had since the last claim
    late,    \* the statements given up by their runs that may yet take effect
    scene,   \* what may happen in this behaviour
    events   \* how often something has

vars == <<op, ws, rt, native, queue, wk, look, since, late, scene, events>>

Contents == {Content[r] : r \in Revisions}
Policies == Contents \cup {None, Foreign}
Ledgers == {"ready", "rebuilding", "unbuilt"}

NoOp == [st |-> "absent", mode |-> "normal", tries |-> 0, token |-> 0, due |-> "now", started |-> "no"]
NoObs == [pol |-> None, gen |-> 0, ledger |-> "unbuilt"]
NoOut == [kind |-> "none", gen |-> 0, sync |-> "error", unknown |-> "no"]
NoRun == [pc |-> "idle", w |-> None, r |-> 0, token |-> 0, mode |-> "normal",
          applied |-> 0, gen |-> 0, obs |-> NoObs, ddl |-> "rebuild", err |-> "none", out |-> NoOut]
NoLook == [pc |-> "idle", paused |-> "no", desired |-> 0, applied |-> 0, obs |-> NoObs]

Init ==
    /\ op = [w \in Workspaces |-> [r \in Revisions |-> NoOp]]
    /\ ws = [w \in Workspaces |-> [desired |-> 0, applied |-> 0, failed |-> <<>>]]
    /\ rt = [w \in Workspaces |-> [lease |-> "none", token |-> 0, auto |-> "on", gen |-> 0, sync |-> "pending"]]
    /\ native = [w \in Workspaces |-> [pol |-> None, gen |-> 0, ledger |-> "unbuilt"]]
    /\ queue = <<>>
    /\ wk = [x \in Workers |-> NoRun]
    /\ look = [w \in Workspaces |-> NoLook]
    /\ since = [w \in Workspaces |-> {None}]
    /\ late = [w \in Workspaces |-> {}]
    /\ scene \in Scenes /\ events = 0

At(x, pc) == wk[x].pc = pc
Goto(x, pc) == wk' = [wk EXCEPT ![x].pc = pc]
Occurs(kind) == kind \in scene.may /\ events < scene.most /\ events' = events + 1 /\ UNCHANGED scene
Event(kind) == Occurs(kind) /\ UNCHANGED late
Quietly == UNCHANGED <<scene, events, late>>

-----------------------------------------------------------------------------
(* The control plane *)

\* The commit of refreshWorkspace: a new projection with its operation; what is pending is superseded.
Desire(w) ==
    /\ ws[w].desired < scene.wants[w]
    /\ LET new == ws[w].desired + 1 IN
       /\ op' = [op EXCEPT ![w] = [r \in Revisions |->
                    IF r = new THEN [NoOp EXCEPT !.st = "pending"]
                    ELSE IF @[r].st = "pending" THEN [@[r] EXCEPT !.st = "superseded"]
                    ELSE @[r]]]
       /\ ws' = [ws EXCEPT ![w].desired = new]
       /\ queue' = Append(queue, <<w, new>>)
    /\ rt' = [rt EXCEPT ![w].sync = "pending"]
    /\ UNCHANGED <<native, wk, look, since>> /\ Quietly

\* The lease of an operation runs out with that of its workspace.
Expired(w, r) == ~(rt[w].lease = "live" /\ rt[w].token = op[w][r].token)

\* Mutant of Claimable: an operation whose worker is gone is not taken over.
ClaimablePending(w, r) == op[w][r].st = "pending" /\ op[w][r].due = "now"

Claimable(w, r) ==
    \/ op[w][r].st = "pending" /\ op[w][r].due = "now"
    \/ op[w][r].st = "applying" /\ Expired(w, r)

\* ORDER BY created_at LIMIT 1, over all workspaces.
Candidates ==
    {n \in 1..Len(queue) : /\ Claimable(queue[n][1], queue[n][2])
                           /\ \A m \in 1..(n - 1) : ~Claimable(queue[m][1], queue[m][2])}

Leasable(w, r) ==
    /\ rt[w].auto = "on" \/ op[w][r].mode = "reapply"
    /\ rt[w].lease # "live"

\* fencing_token += 1: the tokens of a workspace are only ever compared for equality, so that one that
\* neither a run nor an operation under way has any more may come again.
Tokens == 1..(Cardinality(Workers) + MaxRevision + 1)
Taken(w, t) ==
    \/ \E x \in Workers : wk[x].w = w /\ wk[x].token = t
    \/ \E r \in Revisions : op[w][r].st = "applying" /\ op[w][r].token = t
Fresh(w) == {t \in Tokens : ~Taken(w, t) /\ \A s \in 1..(t - 1) : Taken(w, s)}

\* The transaction of claimNextMaterialization; attempt_count matters up to MaxAttempts.
Claimed(w, r, t) ==
    /\ rt' = [rt EXCEPT ![w].lease = "live", ![w].token = t, ![w].sync = "applying"]
    /\ LET n == op[w][r].tries IN
       op' = [op EXCEPT ![w][r].st = "applying", ![w][r].token = t,
                        ![w][r].tries = IF n < MaxAttempts THEN n + 1 ELSE n]
    /\ since' = [since EXCEPT ![w] = {native[w].pol}]
    /\ UNCHANGED <<ws, native, queue, look>>

Claim(x) ==
    /\ At(x, "idle")
    /\ \E n \in Candidates :
         LET w == queue[n][1]
             r == queue[n][2] IN
         \E t \in Fresh(w) :
            /\ Leasable(w, r) /\ Claimed(w, r, t)
            /\ wk' = [wk EXCEPT ![x] = [NoRun EXCEPT !.pc = "load", !.w = w, !.r = r, !.token = t, !.mode = op[w][r].mode]]
    /\ Quietly

\* The claim commits, but its answer is lost: it is repeated and finds the lease held.
ClaimLost(x) ==
    /\ At(x, "idle") /\ Event("answer")
    /\ \E n \in Candidates : \E t \in Fresh(queue[n][1]) :
         Leasable(queue[n][1], queue[n][2]) /\ Claimed(queue[n][1], queue[n][2], t)
    /\ UNCHANGED wk

\* A run ends with a settlement of its attempt.
Ends(x, kind, gen, sync, unknown) ==
    wk' = [wk EXCEPT ![x].pc = "settle",
                     ![x].out = [kind |-> kind, gen |-> gen, sync |-> sync, unknown |-> unknown]]
Succeeds(x, obs) == Ends(x, "succeeded", obs.gen, "in_sync", "no")
Fails(x, sync, obs) == Ends(x, "terminal", obs.gen, sync, "no")
Retries(x, unknown, obs) == Ends(x, "retry", obs.gen, "pending", unknown)

ControlPlane == <<op, ws, rt, queue, look>>

\* loadMaterializationLease and the checks of reconcile before it asks the database.
\* Its five reads are one step here, though only each of them is one transaction.
Load(x) ==
    LET w == wk[x].w
        r == wk[x].r IN
    /\ At(x, "load")
    /\ CASE ws[w].desired # r /\ op[w][r].started = "no" -> Ends(x, "superseded", 0, "pending", "no")
         [] ~(ws[w].desired # r /\ op[w][r].started = "no") /\ rt[w].auto = "off" /\ wk[x].mode # "reapply" ->
              Fails(x, "error", NoObs)
         [] OTHER -> wk' = [wk EXCEPT ![x].pc = "info", ![x].applied = ws[w].applied, ![x].gen = rt[w].gen]
    /\ UNCHANGED <<ControlPlane, native, since>> /\ Quietly

\* renewMaterializationLease before a statement that changes the database.
Renew(x) ==
    /\ At(x, "renew")
    /\ LET w == wk[x].w IN
       IF /\ rt[w].lease = "live" /\ rt[w].token = wk[x].token
          /\ op[w][wk[x].r].st = "applying" /\ op[w][wk[x].r].token = wk[x].token
       THEN Goto(x, wk[x].ddl)
       ELSE Ends(x, "lease_lost", wk[x].obs.gen, "pending", "no")
    /\ UNCHANGED <<ControlPlane, native, since>> /\ Quietly

\* Mutant of Owns: whoever claimed the operation, any worker may settle it.
OwnsAnyway(x) == op[wk[x].w][wk[x].r].st = "applying" /\ rt[wk[x].w].lease # "none"

Owns(x) ==
    LET w == wk[x].w
        r == wk[x].r IN
    /\ op[w][r].st = "applying" /\ op[w][r].token = wk[x].token
    /\ rt[w].lease # "none" /\ rt[w].token = wk[x].token

\* The one place of r is taken out of seq.
Without(seq, r) ==
    IF \E n \in 1..Len(seq) : seq[n] = r
    THEN LET n == CHOOSE n \in 1..Len(seq) : seq[n] = r IN SubSeq(seq, 1, n - 1) \o SubSeq(seq, n + 1, Len(seq))
    ELSE seq

\* operationPatch, and the attempt that later loads count.
Settled(o, out) ==
    [o EXCEPT !.st = CASE out.kind = "succeeded" -> "succeeded"
                       [] out.kind = "terminal" -> "failed"
                       [] out.kind = "retry" -> IF o.tries >= MaxAttempts THEN "failed" ELSE "pending"
                       [] OTHER -> o.st,
              !.due = IF out.kind = "retry" THEN "later" ELSE "now",
              !.started = IF out.kind = "succeeded" \/ out.unknown = "yes" THEN "yes" ELSE @]

\* runtimePatch
SyncAfter(w, r, out) ==
    IF out.kind = "succeeded" THEN IF ws[w].desired = r THEN "in_sync" ELSE "pending"
    ELSE IF out.kind = "retry" THEN IF op[w][r].tries >= MaxAttempts THEN "error" ELSE "pending"
    ELSE out.sync

\* settleMaterialization: nothing but the attempt is written when the lease has gone to another.  And
\* nothing at all for "superseded": superseded_by is a quota_materialization_operation (005:170) and
\* reconcile gives it a projection, so that the transaction fails and reconcile throws.
Settle(x) ==
    LET w == wk[x].w
        r == wk[x].r
        out == wk[x].out
        after == Settled(op[w][r], out) IN
    /\ At(x, "settle")
    /\ IF Owns(x) /\ out.kind # "superseded"
       THEN /\ op' = [op EXCEPT ![w][r] = after]
            /\ ws' = [ws EXCEPT ![w].applied = IF out.kind = "succeeded" THEN r ELSE @,
                                ![w].failed = IF after.st = "failed" THEN Append(Without(@, r), r) ELSE @]
            /\ rt' = [rt EXCEPT ![w].lease = "none", ![w].gen = out.gen, ![w].sync = SyncAfter(w, r, out)]
       ELSE UNCHANGED <<op, ws, rt>>
    /\ wk' = [wk EXCEPT ![x] = NoRun]
    /\ UNCHANGED <<native, queue, look, since>> /\ Quietly

\* next_attempt_at passes.
Backoff(w, r) ==
    /\ op[w][r].st = "pending" /\ op[w][r].due = "later"
    /\ op' = [op EXCEPT ![w][r].due = "now"]
    /\ UNCHANGED <<ws, rt, native, queue, wk, look, since>> /\ Quietly

Held(w) == \E x \in Workers : wk[x].pc # "idle" /\ wk[x].w = w /\ wk[x].token = rt[w].token

\* The lease of a workspace runs out: its worker is gone, or slower than the lease is long.
Expire(w) ==
    /\ rt[w].lease = "live" /\ ~Held(w)
    /\ rt' = [rt EXCEPT ![w].lease = "past"]
    /\ UNCHANGED <<op, ws, native, queue, wk, look, since>> /\ Quietly

ExpireSlow(w) ==
    /\ rt[w].lease = "live" /\ Held(w) /\ Event("slow")
    /\ rt' = [rt EXCEPT ![w].lease = "past"]
    /\ UNCHANGED <<op, ws, native, queue, wk, look, since>>

\* The process stops, or a query of the control plane throws: the run is over.
Abandon(x) ==
    /\ wk[x].pc # "idle" /\ Event("crash")
    /\ wk' = [wk EXCEPT ![x] = NoRun]
    /\ UNCHANGED <<ControlPlane, native, since>>

-----------------------------------------------------------------------------
(* The native quota *)

Target(x) == Content[wk[x].r]
Observed(w) == [pol |-> native[w].pol, gen |-> IF native[w].pol = None THEN 0 ELSE native[w].gen,
                ledger |-> native[w].ledger]

\* detectDrift, against what was applied when the run loaded its lease.
Drifted(x, obs) ==
    /\ obs.pol # None
    /\ IF wk[x].applied = 0 THEN TRUE
       ELSE \/ obs.pol # Content[wk[x].applied]
            \/ wk[x].gen # 0 /\ obs.gen # wk[x].gen

\* A run goes on to a statement.
Renews(x, ddl, obs) == wk' = [wk EXCEPT ![x].pc = "renew", ![x].ddl = ddl, ![x].obs = obs]

\* What reconcile does about a policy whose ledger is ready.
Judge(x, obs) ==
    IF obs.pol = Target(x) THEN Succeeds(x, obs)
    ELSE IF Drifted(x, obs) /\ wk[x].mode # "reapply" THEN Fails(x, "external_drift", obs)
    ELSE Renews(x, "apply", obs)

Info(x) ==
    LET obs == Observed(wk[x].w) IN
    /\ At(x, "info")
    /\ CASE obs.ledger = "ready" -> Judge(x, obs)
         [] obs.ledger = "rebuilding" -> Retries(x, "no", obs)
         [] OTHER -> Renews(x, "rebuild", obs)
    /\ UNCHANGED <<ControlPlane, native, since>> /\ Quietly

InfoThrows(x) ==
    /\ At(x, "info") /\ Event("query")
    /\ Retries(x, "no", NoObs)
    /\ UNCHANGED <<ControlPlane, native, since>>

Rebuild(x) ==
    /\ At(x, "rebuild")
    /\ native' = [native EXCEPT ![wk[x].w].ledger = "ready"]
    /\ Goto(x, "reread")
    /\ UNCHANGED <<ControlPlane, since>> /\ Quietly

Reread(x) ==
    LET obs == Observed(wk[x].w) IN
    /\ At(x, "reread")
    /\ IF obs.ledger = "ready" THEN Judge(x, obs) ELSE Retries(x, "no", obs)
    /\ UNCHANGED <<ControlPlane, native, since>> /\ Quietly

Throws(x, error) == wk' = [wk EXCEPT ![x].pc = "recover", ![x].err = error]

Defined(w, pol) ==
    /\ native' = [native EXCEPT ![w].pol = pol, ![w].gen = @ + 1]
    /\ since' = [since EXCEPT ![w] = @ \cup {pol}]

\* Mutant of Guard: OVERWRITE without EXPECT GENERATION.
Unguarded(x) == (wk[x].obs.pol = None) = (native[wk[x].w].pol = None)

\* DEFINE QUOTA of applyPolicy is for a database without a policy, OVERWRITE EXPECT GENERATION for the one seen.
Meets(w, seen) ==
    IF seen.pol = None THEN native[w].pol = None
    ELSE native[w].pol # None /\ native[w].gen = seen.gen
Guard(x) == Meets(wk[x].w, wk[x].obs)

Apply(x) ==
    /\ At(x, "apply")
    /\ IF Guard(x)
       THEN Defined(wk[x].w, Target(x)) /\ Goto(x, "readback")
       ELSE /\ UNCHANGED <<native, since>>
            /\ \* quota_policy_exists and quota_policy_not_found are final, quota_policy_changed is not
               IF wk[x].obs.pol = None \/ native[wk[x].w].pol = None THEN Throws(x, "final") ELSE Throws(x, "changed")
    /\ UNCHANGED <<ControlPlane>> /\ Quietly

\* The statement of a run, as the database has it.
Statement(x) == [ddl |-> wk[x].pc, pol |-> Target(x), seen |-> wk[x].obs, mode |-> wk[x].mode]
TakesEffect(w, ddl, pol) ==
    \/ ddl = "apply" /\ Defined(w, pol)
    \/ ddl = "rebuild" /\ native' = [native EXCEPT ![w].ledger = "ready"] /\ UNCHANGED since

\* The answer of a statement is lost: it had taken effect, it never will, or it may yet.
DdlLost(x) ==
    LET w == wk[x].w IN
    /\ wk[x].pc \in {"rebuild", "apply"} /\ Occurs("answer")
    /\ \/ UNCHANGED <<native, since, late>>
       \/ (At(x, "apply") => Guard(x)) /\ TakesEffect(w, wk[x].pc, Target(x)) /\ UNCHANGED late
       \/ late' = [late EXCEPT ![w] = @ \cup {Statement(x)}] /\ UNCHANGED <<native, since>>
    /\ Throws(x, "lost")
    /\ UNCHANGED ControlPlane

\* It does, or meets another policy than the one its run had seen; nobody hears of it.
DdlLands(w) ==
    /\ \E s \in late[w] :
         /\ late' = [late EXCEPT ![w] = @ \ {s}]
         /\ IF s.ddl = "apply" => Meets(w, s.seen)
            THEN TakesEffect(w, s.ddl, s.pol) ELSE UNCHANGED <<native, since>>
    /\ UNCHANGED <<ControlPlane, wk, scene, events>>

\* INFO after the statement: only the target with a ledger that is ready is a success.
Readback(x) ==
    LET obs == Observed(wk[x].w) IN
    /\ At(x, "readback")
    /\ IF obs.pol = Target(x) /\ obs.ledger = "ready" THEN Succeeds(x, obs)
       ELSE IF Drifted(x, obs) /\ obs.pol # Target(x) THEN Fails(x, "external_drift", obs)
       ELSE Retries(x, "no", obs)
    /\ UNCHANGED <<ControlPlane, native, since>> /\ Quietly

\* recoverAfterMutation
Recover(x) ==
    LET obs == Observed(wk[x].w)
        untouched == wk[x].ddl = "apply" /\ obs.pol = wk[x].obs.pol /\ obs.gen = wk[x].obs.gen IN
    /\ At(x, "recover")
    /\ IF obs.pol = Target(x) /\ obs.ledger = "ready" THEN Succeeds(x, obs)
       ELSE IF Drifted(x, obs) /\ ~untouched THEN Fails(x, "external_drift", obs)
       ELSE IF wk[x].err = "final" THEN Fails(x, "error", obs)
       ELSE Retries(x, IF wk[x].err = "lost" THEN "yes" ELSE "no", obs)
    /\ UNCHANGED <<ControlPlane, native, since>> /\ Quietly

\* INFO after a statement throws: what became of the statement is unknown.
ReadThrows(x) ==
    /\ wk[x].pc \in {"reread", "readback", "recover"} /\ Event("query")
    /\ IF At(x, "recover") /\ wk[x].err = "final" THEN Fails(x, "error", NoObs) ELSE Retries(x, "yes", NoObs)
    /\ UNCHANGED <<ControlPlane, native, since>>

\* Somebody with root access defines or removes the policy.
DefineForeign(w) ==
    /\ native[w].pol # Foreign /\ Event("foreign") /\ Defined(w, Foreign)
    /\ UNCHANGED <<ControlPlane, wk>>

Remove(w) ==
    /\ native[w].pol # None /\ Event("remove")
    /\ native' = [native EXCEPT ![w].pol = None]
    /\ since' = [since EXCEPT ![w] = @ \cup {None}]
    /\ UNCHANGED <<ControlPlane, wk>>

LedgerLost(w) ==
    /\ native[w].ledger = "ready" /\ Event("ledger")
    /\ \E l \in {"rebuilding", "unbuilt"} : native' = [native EXCEPT ![w].ledger = l]
    /\ UNCHANGED <<ControlPlane, wk, since>>

LedgerBuilt(w) ==
    /\ native[w].ledger = "rebuilding"
    /\ native' = [native EXCEPT ![w].ledger = "ready"]
    /\ UNCHANGED <<ControlPlane, wk, since>> /\ Quietly

-----------------------------------------------------------------------------
(* The intents of operators, and the audit *)

Pause(w) ==
    /\ rt[w].auto = "on" /\ Event("pause")
    /\ rt' = [rt EXCEPT ![w].auto = "off", ![w].sync = "paused"]
    /\ UNCHANGED <<op, ws, native, queue, wk, look, since>>

Resume(w) ==
    /\ rt[w].auto = "off" /\ Event("resume")
    /\ rt' = [rt EXCEPT ![w].auto = "on", ![w].sync = "pending"]
    /\ UNCHANGED <<op, ws, native, queue, wk, look, since>>

\* materialization_retry, reconcile_now and drift_reapply: the operation that failed last is open again.
Reopen(w, mode) ==
    /\ Event(IF mode = "reapply" THEN "reapply" ELSE "retry")
    /\ IF ws[w].failed = <<>> THEN UNCHANGED <<op, ws>>
       ELSE LET r == ws[w].failed[Len(ws[w].failed)] IN
            /\ op' = [op EXCEPT ![w][r].st = "pending", ![w][r].mode = mode, ![w][r].due = "now"]
            /\ ws' = [ws EXCEPT ![w].failed = Without(@, r)]
    /\ rt' = [rt EXCEPT ![w].auto = "on", ![w].sync = "pending"]
    /\ UNCHANGED <<native, queue, wk, look, since>>

\* processPage reads the workspace, asks its database and stores what it saw, without the lease.
LookUp(w) ==
    /\ look[w].pc = "idle" /\ ws[w].desired > 0 /\ Event("look")
    /\ look' = [look EXCEPT ![w] = [pc |-> "ask", paused |-> IF rt[w].auto = "off" \/ rt[w].sync = "paused" THEN "yes" ELSE "no",
                                    desired |-> ws[w].desired, applied |-> ws[w].applied, obs |-> NoObs]]
    /\ UNCHANGED <<op, ws, rt, native, queue, wk, since>>

LookAsk(w) ==
    /\ look[w].pc = "ask"
    /\ look' = [look EXCEPT ![w].pc = "store", ![w].obs = Observed(w)]
    /\ UNCHANGED <<op, ws, rt, native, queue, wk, since>> /\ Quietly

\* syncState
SyncSeen(l) ==
    IF l.paused = "yes" THEN "paused"
    ELSE IF l.applied # 0 /\ l.obs.pol # Content[l.applied] THEN "external_drift"
    ELSE IF l.applied # 0 /\ l.desired # l.applied THEN "pending"
    ELSE "in_sync"

LookStore(w) ==
    /\ look[w].pc = "store"
    /\ rt' = [rt EXCEPT ![w].sync = SyncSeen(look[w]), ![w].gen = look[w].obs.gen]
    /\ look' = [look EXCEPT ![w] = NoLook]
    /\ UNCHANGED <<op, ws, native, queue, wk, since>> /\ Quietly

-----------------------------------------------------------------------------
Works(x) ==
    \/ Claim(x) \/ Load(x) \/ Info(x) \/ Renew(x) \/ Rebuild(x) \/ Reread(x)
    \/ Apply(x) \/ Readback(x) \/ Recover(x) \/ Settle(x)

Suffers(x) == ClaimLost(x) \/ InfoThrows(x) \/ DdlLost(x) \/ ReadThrows(x) \/ Abandon(x)

Passes(w) == Expire(w) \/ LedgerBuilt(w) \/ LookAsk(w) \/ LookStore(w)

Happens(w) ==
    \/ Desire(w) \/ Pause(w) \/ Resume(w) \/ LookUp(w) \/ \E mode \in {"normal", "reapply"} : Reopen(w, mode)
    \/ ExpireSlow(w) \/ DefineForeign(w) \/ Remove(w) \/ LedgerLost(w) \/ DdlLands(w)

Next ==
    \/ \E x \in Workers : Works(x) \/ Suffers(x)
    \/ \E w \in Workspaces : Passes(w) \/ Happens(w) \/ \E r \in Revisions : Backoff(w, r)

Spec == Init /\ [][Next]_vars

FairSpec ==
    /\ Spec
    /\ \A x \in Workers : WF_vars(Works(x))
    /\ \A w \in Workspaces : WF_vars(Passes(w)) /\ \A r \in Revisions : WF_vars(Backoff(w, r))

-----------------------------------------------------------------------------
Outs == [kind : {"none", "succeeded", "superseded", "terminal", "retry", "lease_lost"}, gen : Nat,
         sync : {"pending", "in_sync", "error", "external_drift"}, unknown : {"yes", "no"}]
Observations == [pol : Policies, gen : Nat, ledger : Ledgers]
Statements == [ddl : {"rebuild", "apply"}, pol : Contents, seen : Observations, mode : {"normal", "reapply"}]
Pcs == {"idle", "load", "info", "renew", "rebuild", "reread", "apply", "readback", "recover", "settle"}
RunStates ==
    [pc : Pcs, w : Workspaces \cup {None}, r : 0..MaxRevision, token : Nat, mode : {"normal", "reapply"},
     applied : 0..MaxRevision, gen : Nat, obs : Observations, ddl : {"rebuild", "apply"},
     err : {"none", "lost", "final", "changed"}, out : Outs]
Operations ==
    [st : {"absent", "pending", "applying", "succeeded", "failed", "superseded"}, mode : {"normal", "reapply"},
     tries : Nat, token : Nat, due : {"now", "later"}, started : {"yes", "no"}]
Projections == [desired : 0..MaxRevision, applied : 0..MaxRevision, failed : Seq(Revisions)]
Runtimes ==
    [lease : {"none", "live", "past"}, token : Nat, auto : {"on", "off"}, gen : Nat,
     sync : {"pending", "applying", "in_sync", "paused", "error", "external_drift"}]
Looks == [pc : {"idle", "ask", "store"}, paused : {"yes", "no"}, desired : 0..MaxRevision, applied : 0..MaxRevision,
          obs : Observations]

\* Type correctness; a run that is not idle has an operation of a workspace.
TypeOK ==
    /\ op \in [Workspaces -> [Revisions -> Operations]]
    /\ ws \in [Workspaces -> Projections]
    /\ rt \in [Workspaces -> Runtimes]
    /\ native \in [Workspaces -> Observations]
    /\ queue \in Seq(Workspaces \X Revisions)
    /\ wk \in [Workers -> RunStates]
    /\ \A x \in Workers : wk[x].pc # "idle" => wk[x].w \in Workspaces /\ wk[x].r \in Revisions
    /\ look \in [Workspaces -> Looks]
    /\ since \in [Workspaces -> SUBSET Policies]
    /\ late \in [Workspaces -> SUBSET Statements]
    /\ scene \in Scenes /\ events \in Nat

\* The projection a workspace is said to have applied is one whose policy its database has had since
\* the lease was claimed that says so: neither a worker that was overtaken nor a statement whose
\* answer was lost brings one that the database never had, or had only before (issue 10:62).
AppliedIsTrue ==
    [][\A w \in Workspaces : ws'[w].applied # ws[w].applied => Content[ws'[w].applied] \in since[w]]_vars

Reapplies(w) ==
    \/ \E x \in Workers : wk[x].w = w /\ wk[x].mode = "reapply"
    \/ \E s \in late[w] : s.mode = "reapply"

\* No statement of a worker, also one that lands when its run has long given it up, defines again the
\* policy that is in force, and none replaces a foreign policy unless an operator has asked for it,
\* whatever happens between INFO and the statement.
GuardedApply ==
    [][\A w \in Workspaces :
         native'[w].gen # native[w].gen /\ native'[w].pol # Foreign =>
             /\ native'[w].pol # native[w].pol
             /\ native[w].pol = Foreign => Reapplies(w)]_vars

IsOpen(w, r) == op[w][r].st \in {"pending", "applying"}
Outdated(w) == \E r \in Revisions : IsOpen(w, r) /\ r # ws[w].desired
Paused(w) == rt[w].auto = "off"

\* Every operation comes to its end, whatever the workers, their leases and the database suffer,
\* unless a workspace is paused or has an operation that a later one has overtaken.
OperationEnds ==
    \A w \in Workspaces : \A r \in Revisions :
        IsOpen(w, r) ~> ~IsOpen(w, r) \/ \E v \in Workspaces : Paused(v) \/ Outdated(v)

\* Every operation comes to its end unless a workspace is paused: an old one that has not started is
\* superseded when there is a newer projection (issue 10:50), and does not keep the newer one waiting.
OutdatedEnds ==
    \A w \in Workspaces : \A r \in Revisions :
        IsOpen(w, r) ~> ~IsOpen(w, r) \/ \E v \in Workspaces : Paused(v)
=============================================================================
