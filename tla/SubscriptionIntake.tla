------------------------- MODULE SubscriptionIntake -------------------------
(***************************************************************************)
(* What changes the plan of a workspace: the inbox of the provider's       *)
(* events, the intents of operators, and the sweep of what has come to its *)
(* end (server/src/quota/subscription-lifecycle.ts, lifecycle-store.ts,    *)
(* lifecycle-sweep.ts), each followed by the resolution of what the        *)
(* workspaces are entitled to (entitlement-refresh.ts).                    *)
(*                                                                         *)
(* Events and intents are jobs, taken under a lease by runs of the loops.  *)
(* A step is one query, or one statement of a query that is no transaction.*)
(* Trials, payers and the expiry of overrides are left out.                *)
(***************************************************************************)
EXTENDS Integers, Sequences, FiniteSets

CONSTANTS
    Workspaces, Events, Intents, Plans, Subscriptions,
    Runs,         \* runs of the loops, in one process or several
    Provided,     \* the subscription that is the provider's
    Snapshot,     \* [Events -> snapshots of Provided]
    Order,        \* [Intents -> orders of operators]
    FirstPlan,    \* [Workspaces -> Plans]: what they have of Provided to begin with
    MaxAttempts,  \* MAX_OPERATOR_INTENT_ATTEMPTS
    MaxTime,      \* bound: how far the clock goes
    Scenes,       \* bound: what comes in one behaviour
    None

Jobs == Events \cup Intents
Never == MaxTime + 1
Times == 0..Never
Kinds == {"rollout", "assign", "end", "override", "override_end"}
Troubles == {"query", "answer", "crash", "slow"}

ASSUME IntakeAssumption ==
    /\ Provided \in Subscriptions
    \* source revision; end of access for the resolver and, later perhaps, for the sweep; end of the period
    /\ Snapshot \in [Events -> [src : Nat, cut : Times, due : Times, window : Times]]
    /\ Order \in [Intents -> [kind : Kinds, w : Workspaces, sub : Subscriptions, plan : Plans,
                              window : Times, at : Times]]
    /\ FirstPlan \in [Workspaces -> Plans]
    /\ MaxAttempts \in Nat \ {0} /\ MaxTime \in Nat
    /\ Scenes \subseteq [jobs : SUBSET Jobs, time : 0..MaxTime, may : SUBSET Troubles, most : Nat]
    /\ Events \cap Intents = {} /\ Workspaces \cap Jobs = {}
    /\ None \notin Jobs \cup Workspaces \cup Plans

VARIABLES
    job,      \* provider_event_state and quota_operator_intent_state
    order,    \* the open jobs in the order of updated_at
    sub,      \* quota_subscription
    item,     \* the active quota_subscription_item of a workspace
    override, \* the intent whose override of the workspace is active
    want,     \* desired_entitlement of a workspace, with what its digest is made of
    run,      \* the runs of the loops
    now,
    moved,    \* the jobs that have changed a subscription
    sound,    \* whether the last resolution of a workspace had no other beside it and knew the present
    scene,    \* what comes in this behaviour
    troubles

vars == <<job, order, sub, item, override, want, run, now, moved, sound, scene, troubles>>
facts == <<sub, item, override, moved>>
world == <<now, scene>>

NoJob == [st |-> "absent", token |-> 0, lease |-> "none", due |-> "now", tries |-> 0, done |-> "no", hit |-> {}]
NoSub == [st |-> "none", src |-> 0, cut |-> Never, due |-> Never, window |-> Never, cause |-> None]
NoItem == [id |-> None, sub |-> Provided, plan |-> None, from |-> 0, until |-> Never]
\* The item a workspace has to begin with goes by the name of the workspace.
FirstItem(w) == [NoItem EXCEPT !.id = w, !.plan = FirstPlan[w]]
NoGoal == [item |-> NoItem, override |-> None]
NoRun == [pc |-> "idle", job |-> None, token |-> 0, at |-> 0, out |-> "applied", todo |-> {}, w |-> None,
          saw |-> 0, had |-> NoGoal, item |-> NoItem, goal |-> NoGoal, solo |-> "yes"]

\* Mutant of Resolved: what ends at this moment still counts.
ResolvedAtEnd(i, s, by, at) ==
    LET until == IF i.until < s.cut THEN i.until ELSE s.cut IN
    [item |-> IF i.id # None /\ i.from <= at /\ at <= until THEN [i EXCEPT !.until = until] ELSE NoItem,
     override |-> by]

\* resolveResourceEntitlement: the item with the end of its access, or else the retention plan.
Resolved(i, s, by, at) ==
    LET until == IF i.until < s.cut THEN i.until ELSE s.cut IN
    [item |-> IF i.id # None /\ i.from <= at /\ at < until THEN [i EXCEPT !.until = until] ELSE NoItem,
     override |-> by]

Entitled(w, at) == Resolved(item[w], sub[item[w].sub], override[w], at)

Init ==
    /\ job = [j \in Jobs |-> NoJob]
    /\ order = <<>>
    /\ sub = [s \in Subscriptions |-> IF s = Provided THEN [NoSub EXCEPT !.st = "there"] ELSE NoSub]
    /\ item = [w \in Workspaces |-> FirstItem(w)]
    /\ override = [w \in Workspaces |-> None]
    /\ want = [w \in Workspaces |-> [id |-> 0, goal |-> [item |-> FirstItem(w), override |-> None]]]
    /\ run = [x \in Runs |-> NoRun]
    /\ now = 0 /\ moved = {} /\ sound = [w \in Workspaces |-> "yes"]
    /\ scene \in Scenes /\ troubles = 0

At(x, pc) == run[x].pc = pc
\* An error ends a run, for a while or for good.
Leaves(x, pc) == run' = [run EXCEPT ![x] = [NoRun EXCEPT !.pc = pc, !.job = run[x].job, !.token = run[x].token]]
Trouble(kind) == kind \in scene.may /\ troubles < scene.most /\ troubles' = troubles + 1
Quietly == UNCHANGED troubles

-----------------------------------------------------------------------------
(* The jobs *)

Closed == {"processed", "stale", "dropped"}
\* The one place of j is taken out of the order.
Without(j) ==
    IF \E n \in 1..Len(order) : order[n] = j
    THEN LET n == CHOOSE n \in 1..Len(order) : order[n] = j
         IN SubSeq(order, 1, n - 1) \o SubSeq(order, n + 1, Len(order))
    ELSE order
Touched(j) == IF job'[j].st \in Closed THEN Without(j) ELSE Append(Without(j), j)

\* ingestProviderEvent and persistOperatorIntent; a delivery that is repeated changes nothing.
Arrive(j) ==
    /\ j \in scene.jobs /\ job[j].st = "absent"
    /\ job' = [job EXCEPT ![j].st = "pending"]
    /\ order' = Touched(j)
    /\ UNCHANGED <<facts, want, run, sound, world>> /\ Quietly

\* Mutant of Claimable: a job whose run is gone is not taken over.
ClaimablePending(j) ==
    /\ job[j].st \in {"pending", "failed"} /\ job[j].due = "now"
    /\ j \in Intents => Order[j].at <= now

Claimable(j) ==
    \/ /\ job[j].st \in {"pending", "failed"} /\ job[j].due = "now"
       /\ j \in Intents => Order[j].at <= now
    \/ job[j].st = "processing" /\ job[j].lease = "past"

Candidates(kind) ==
    {n \in 1..Len(order) : /\ order[n] \in kind /\ Claimable(order[n])
                           /\ \A m \in 1..(n - 1) : order[m] \in kind => ~Claimable(order[m])}

\* fencing_token += 1: tokens are only compared, so that one nobody has any more may come again.
Tokens == 1..(Cardinality(Runs) + 2)
Fresh(j) == {t \in Tokens : /\ t # job[j].token /\ \A x \in Runs : run[x].job = j => run[x].token # t
                            /\ \A s \in 1..(t - 1) : s = job[j].token \/ \E x \in Runs : run[x].job = j /\ run[x].token = s}

Claimed(j, t) ==
    /\ LET n == job[j].tries IN
       job' = [job EXCEPT ![j].st = "processing", ![j].token = t, ![j].lease = "live",
                          ![j].tries = IF j \in Intents /\ n <= MaxAttempts THEN n + 1 ELSE n]
    /\ order' = Touched(j)
    /\ UNCHANGED <<facts, want, sound, world>>

Takes(x, j, t, pc, at) == run' = [run EXCEPT ![x] = [NoRun EXCEPT !.pc = pc, !.job = j, !.token = t, !.at = at]]

ClaimEvent(x) ==
    /\ At(x, "idle")
    /\ \E n \in Candidates(Events) : \E t \in Fresh(order[n]) :
         Claimed(order[n], t) /\ Takes(x, order[n], t, "apply", now)
    /\ Quietly

\* An intent with too many attempts is closed without another.
ClaimIntent(x) ==
    /\ At(x, "idle")
    /\ \E n \in Candidates(Intents) : \E t \in Fresh(order[n]) :
         LET j == order[n] IN
         Claimed(j, t) /\ Takes(x, j, t, IF job[j].tries >= MaxAttempts THEN "drop" ELSE "apply", Order[j].at)
    /\ Quietly

\* The claim takes effect and its answer is lost.
ClaimLost(x) ==
    /\ At(x, "idle") /\ Trouble("answer")
    /\ \E n \in Candidates(Events) \cup Candidates(Intents) : \E t \in Fresh(order[n]) : Claimed(order[n], t)
    /\ UNCHANGED run

\* Mutant of Owns: the lease was looked at before, which was enough.
OwnsAnyway(x) == run[x].job \in Jobs

Owns(x) == job[run[x].job].st = "processing" /\ job[run[x].job].token = run[x].token

Ended(j, st, due) == [job EXCEPT ![j].st = st, ![j].lease = "none", ![j].due = due]

\* failProviderEvent and failOperatorIntent, after an error that may pass and after one that may not.
Fail(x) ==
    LET j == run[x].job
        again == At(x, "retry") /\ ~(j \in Intents /\ job[j].tries >= MaxAttempts) IN
    /\ run[x].pc \in {"retry", "drop"}
    /\ IF Owns(x)
       THEN /\ job' = IF again THEN Ended(j, "failed", "later") ELSE Ended(j, "dropped", "now")
            /\ order' = Touched(j)
       ELSE UNCHANGED <<job, order>>
    /\ run' = [run EXCEPT ![x] = NoRun]
    /\ UNCHANGED <<facts, want, sound, world>> /\ Quietly

\* settleProviderEvent and settleOperatorIntent
Settle(x) ==
    LET j == run[x].job IN
    /\ At(x, "settle")
    /\ IF Owns(x)
       THEN /\ job' = Ended(j, IF run[x].out = "stale" THEN "stale" ELSE "processed", "now")
            /\ order' = Touched(j)
       ELSE UNCHANGED <<job, order>>
    /\ run' = [run EXCEPT ![x] = NoRun]
    /\ UNCHANGED <<facts, want, sound, world>> /\ Quietly

\* next_attempt_at passes.
Backoff(j) ==
    /\ job[j].st = "failed" /\ job[j].due = "later"
    /\ job' = [job EXCEPT ![j].due = "now"]
    /\ UNCHANGED <<order, facts, want, run, sound, world>> /\ Quietly

Held(j) == \E x \in Runs : run[x].job = j /\ run[x].token = job[j].token

\* The lease of a job runs out: its run is gone, or slower than the lease is long.
Expire(j) ==
    /\ job[j].lease = "live"
    /\ IF Held(j) THEN Trouble("slow") ELSE Quietly
    /\ job' = [job EXCEPT ![j].lease = "past"]
    /\ UNCHANGED <<order, facts, want, run, sound, world>>

-----------------------------------------------------------------------------
(* What a job changes *)

\* The workspaces of a job are refreshed one after the other.
Refreshes(x, j, out, todo) ==
    run' = [run EXCEPT ![x].pc = IF todo = {} THEN "settle" ELSE "row", ![x].out = out, ![x].todo = todo]
Active(s) == {w \in Workspaces : item[w].id # None /\ item[w].sub = s}
Extended(i, s, window) ==
    IF i.id # None /\ i.sub = s /\ window # Never /\ (i.until = Never \/ i.until < window)
    THEN [i EXCEPT !.until = window] ELSE i

\* Mutant of Affected: who has applied the job before has refreshed its workspaces too.
AffectedOnce(e) == IF job[e].done = "yes" THEN {} ELSE Active(Provided)

\* The workspaces an event is for, applied now, before, or never.
Affected(e) == Active(Provided)

\* Mutant of Stale: what comes last counts.
StaleNever(e) == FALSE

Stale(e) == job[e].done = "no" /\ sub[Provided].src >= Snapshot[e].src

\* applyProviderSnapshot
Snapshots(e) ==
    IF job[e].done = "yes" \/ Stale(e) THEN UNCHANGED <<facts, job, order>>
    ELSE LET s == Snapshot[e] IN
         /\ sub' = [sub EXCEPT ![Provided] = [st |-> "there", src |-> s.src, cut |-> s.cut, due |-> s.due,
                                              window |-> s.window, cause |-> e]]
         /\ item' = [w \in Workspaces |-> Extended(item[w], Provided, s.window)]
         /\ job' = [job EXCEPT ![e].done = "yes"]
         /\ order' = Touched(e)
         /\ moved' = moved \cup {e}
         /\ UNCHANGED override

ApplyEvent(x) ==
    LET e == run[x].job IN
    /\ At(x, "apply") /\ e \in Events
    /\ IF ~Owns(x) THEN Leaves(x, "retry") /\ UNCHANGED <<facts, job, order>>
       ELSE Snapshots(e) /\ Refreshes(x, e, IF Stale(e) THEN "stale" ELSE "applied", Affected(e))
    /\ UNCHANGED <<want, sound, world>> /\ Quietly

Target(i) == IF Order[i].kind = "rollout" THEN item[Order[i].w].sub ELSE Order[i].sub
Window(i) == IF Order[i].kind = "rollout" THEN sub[Target(i)].window ELSE Order[i].window
SameItem(i) ==
    LET c == item[Order[i].w] IN c.id # None /\ c.sub = Target(i) /\ c.plan = Order[i].plan

\* The refusals of applySubscriptionUpsert: no assignment to roll out, an authority that is another's, an
\* item that would be over before it begins.
Refused(i) ==
    LET o == Order[i] IN
    /\ ~(SameItem(i) /\ item[o.w].id = i)
    /\ \/ o.kind = "rollout" /\ item[o.w].id = None
       \/ o.kind = "assign" /\ o.sub = Provided
       \/ ~SameItem(i) /\ Window(i) <= o.at

\* applySubscriptionUpsert of an intent that has not been applied before.
Upserts(i) ==
    LET o == Order[i] IN
    /\ IF o.kind = "rollout" THEN UNCHANGED <<sub, moved>>
       ELSE /\ sub' = [sub EXCEPT ![o.sub] = [NoSub EXCEPT !.st = "there", !.window = o.window, !.cause = i]]
            /\ moved' = moved \cup {i}
    /\ item' = IF SameItem(i) THEN [w \in Workspaces |-> Extended(item[w], Target(i), Window(i))]
               ELSE [item EXCEPT ![o.w] = [id |-> i, sub |-> Target(i), plan |-> o.plan, from |-> o.at,
                                           until |-> Window(i)]]

\* applySubscriptionEnd of an intent that has not been applied before.
Cancels(i) ==
    LET o == Order[i] IN
    /\ sub' = [sub EXCEPT ![o.sub].cut = o.at, ![o.sub].due = o.at, ![o.sub].cause = i]
    /\ item' = [w \in Workspaces |-> IF w \in Active(o.sub) THEN NoItem ELSE item[w]]
    /\ moved' = moved \cup {i}

Hits(i, ws) == job' = [job EXCEPT ![i].hit = ws] /\ order' = Touched(i)

ApplyUpsert(x, i) ==
    /\ Order[i].kind \in {"rollout", "assign"}
    /\ IF Refused(i) THEN Leaves(x, "drop") /\ UNCHANGED <<facts, job, order>>
       ELSE /\ IF SameItem(i) /\ item[Order[i].w].id = i THEN UNCHANGED facts
               ELSE Upserts(i) /\ UNCHANGED override
            /\ Hits(i, {Order[i].w}) /\ Refreshes(x, i, "applied", {Order[i].w})

ApplyEnd(x, i) ==
    LET s == Order[i].sub
        hit == IF Active(s) # {} THEN Active(s) ELSE job[i].hit IN
    /\ Order[i].kind = "end"
    /\ IF sub[s].st = "none" THEN Leaves(x, "drop") /\ UNCHANGED <<facts, job, order>>
       ELSE /\ IF sub[s].cause = i /\ job[i].hit # {} THEN UNCHANGED <<facts, job, order>>
               ELSE Cancels(i) /\ Hits(i, hit) /\ UNCHANGED override
            /\ Refreshes(x, i, "applied", hit)

\* applyOverrideSchedule and applyOverrideEnd
ApplyOverride(x, i) ==
    LET o == Order[i] IN
    /\ o.kind \in {"override", "override_end"}
    /\ override' = [override EXCEPT ![o.w] = IF o.kind = "override" THEN i ELSE None]
    /\ Hits(i, {o.w}) /\ Refreshes(x, i, "applied", {o.w})
    /\ UNCHANGED <<sub, item, moved>>

ApplyIntent(x) ==
    LET i == run[x].job IN
    /\ At(x, "apply") /\ i \in Intents
    /\ IF ~Owns(x) THEN Leaves(x, "retry") /\ UNCHANGED <<facts, job, order>>
       ELSE ApplyUpsert(x, i) \/ ApplyEnd(x, i) \/ ApplyOverride(x, i)
    /\ UNCHANGED <<want, sound, world>> /\ Quietly

-----------------------------------------------------------------------------
(* What follows for the workspaces *)

\* Mutant of Onward: the loop goes round once too often.
OnwardAgain(r) ==
    [NoRun EXCEPT !.pc = "row", !.job = r.job, !.token = r.token, !.at = r.at, !.out = r.out, !.todo = r.todo]

\* A run goes on with the next workspace, or when there is none it settles its job; a run that has no
\* job is a sweep.
Onward(r) ==
    LET rest == [NoRun EXCEPT !.job = r.job, !.token = r.token, !.at = r.at, !.out = r.out, !.todo = r.todo] IN
    IF r.todo # {} THEN [rest EXCEPT !.pc = "row"]
    ELSE IF r.job # None THEN [rest EXCEPT !.pc = "settle"]
    ELSE NoRun

\* A sweep passes over a workspace that fails.
GivesUp(x, pc) == IF run[x].job = None THEN run' = [run EXCEPT ![x] = Onward(run[x])] ELSE Leaves(x, pc)

Refreshing(w) == {x \in Runs : run[x].w = w}

\* refreshWorkspace reads the workspace row; the digest it points to never changes.
ReadRow(x) ==
    LET w == CHOOSE w \in run[x].todo : TRUE IN
    /\ At(x, "row")
    /\ run' = [y \in Runs |->
                 IF y = x THEN [run[x] EXCEPT !.pc = "items", !.w = w, !.todo = run[x].todo \ {w}, !.saw = want[w].id,
                                              !.had = want[w].goal,
                                              !.solo = IF Refreshing(w) = {} THEN "yes" ELSE "no"]
                 ELSE IF y \in Refreshing(w) THEN [run[y] EXCEPT !.solo = "no"] ELSE run[y]]
    /\ UNCHANGED <<job, order, facts, want, sound, world>> /\ Quietly

\* The next statement reads the items,
ReadItems(x) ==
    /\ At(x, "items")
    /\ run' = [run EXCEPT ![x].pc = "sources", ![x].item = item[run[x].w]]
    /\ UNCHANGED <<job, order, facts, want, sound, world>> /\ Quietly

Finishes(x) ==
    LET r == run[x] IN
    /\ run' = [run EXCEPT ![x] = Onward(r)]
    /\ sound' = [sound EXCEPT ![r.w] = IF r.solo = "yes" /\ r.item.from <= r.at THEN "yes" ELSE "no"]

\* and the ones after it the subscriptions and plans of the items there are by then: when what was read is
\* no longer among them the context is invalid, for good.
ReadSources(x) ==
    LET w == run[x].w
        i == run[x].item
        torn == i.id # None /\ (item[w].id = None \/ item[w].sub # i.sub \/ item[w].plan # i.plan)
        goal == Resolved(i, sub[i.sub], override[w], run[x].at) IN
    /\ At(x, "sources")
    /\ IF torn THEN GivesUp(x, "drop") /\ UNCHANGED sound
       ELSE IF goal = run[x].had THEN Finishes(x)
       ELSE run' = [run EXCEPT ![x].pc = "commit", ![x].goal = goal] /\ UNCHANGED sound
    /\ UNCHANGED <<job, order, facts, want, world>> /\ Quietly

\* Every entitlement has an id of its own; one that neither the workspace nor a run has may come again.
NewId(w) == {n \in 0..(Cardinality(Runs) + 1) :
                /\ n # want[w].id /\ \A x \in Refreshing(w) : run[x].saw # n
                /\ \A m \in 0..(n - 1) : m = want[w].id \/ \E x \in Refreshing(w) : run[x].saw = m}

\* The entitlement, its projection and its operation, unless another one has come to be desired.
Commit(x) ==
    LET w == run[x].w IN
    /\ At(x, "commit")
    /\ IF want[w].id = run[x].saw
       THEN /\ \E n \in NewId(w) : want' = [want EXCEPT ![w] = [id |-> n, goal |-> run[x].goal]]
            /\ Finishes(x)
       ELSE GivesUp(x, "retry") /\ UNCHANGED <<want, sound>>
    /\ UNCHANGED <<job, order, facts, world>> /\ Quietly

\* The sweep's query: the items that are over, by themselves or with their subscription, where the
\* workspace still wants what came of them.
Due(w) ==
    /\ item[w].id # None /\ want[w].goal.item.id = item[w].id
    /\ item[w].until <= now \/ sub[item[w].sub].due <= now

Sweep(x) ==
    /\ At(x, "idle") /\ \E w \in Workspaces : Due(w)
    /\ run' = [run EXCEPT ![x] = [NoRun EXCEPT !.pc = "row", !.at = now, !.todo = {w \in Workspaces : Due(w)}]]
    /\ UNCHANGED <<job, order, facts, want, sound, world>> /\ Quietly

\* A query throws; what it has done is either nothing or was a step of its own before.
Throws(x) ==
    /\ run[x].pc \in {"apply", "row", "items", "sources", "commit", "settle"} /\ Trouble("query")
    /\ GivesUp(x, "retry")
    /\ UNCHANGED <<job, order, facts, want, sound, world>>

\* The process stops, or the loop gives up a run.
Abandon(x) ==
    /\ ~At(x, "idle") /\ Trouble("crash")
    /\ run' = [run EXCEPT ![x] = NoRun]
    /\ UNCHANGED <<job, order, facts, want, sound, world>>

Tick ==
    /\ now < scene.time
    /\ now' = now + 1
    /\ UNCHANGED <<job, order, facts, want, run, sound, scene>> /\ Quietly

-----------------------------------------------------------------------------
Works(x) ==
    \/ ClaimEvent(x) \/ ClaimIntent(x) \/ ApplyEvent(x) \/ ApplyIntent(x) \/ ReadRow(x) \/ ReadItems(x)
    \/ ReadSources(x) \/ Commit(x) \/ Settle(x) \/ Fail(x)

Suffers(x) == ClaimLost(x) \/ Throws(x) \/ Abandon(x)

Next ==
    \/ \E x \in Runs : Works(x) \/ Sweep(x) \/ Suffers(x)
    \/ \E j \in Jobs : Arrive(j) \/ Backoff(j) \/ Expire(j)
    \/ Tick

Spec == Init /\ [][Next]_vars

FairSpec ==
    /\ Spec
    /\ \A x \in Runs : WF_vars(Works(x))
    /\ WF_vars(\E x \in Runs : Sweep(x))
    /\ \A j \in Jobs : WF_vars(Backoff(j)) /\ WF_vars(Expire(j) /\ ~Held(j))
    /\ WF_vars(Tick)

-----------------------------------------------------------------------------
JobStates ==
    [st : {"absent", "pending", "processing", "failed"} \cup Closed, token : Nat, lease : {"none", "live", "past"},
     due : {"now", "later"}, tries : Nat, done : {"yes", "no"}, hit : SUBSET Workspaces]
Subs == [st : {"none", "there"}, src : Nat, cut : Times, due : Times, window : Times, cause : Jobs \cup {None}]
Items == [id : Jobs \cup Workspaces \cup {None}, sub : Subscriptions, plan : Plans \cup {None}, from : Times, until : Times]
Goals == [item : Items, override : Intents \cup {None}]
Wants == [id : Nat, goal : Goals]
RunStates ==
    [pc : {"idle", "apply", "row", "items", "sources", "commit", "settle", "retry", "drop"},
     job : Jobs \cup {None}, token : Nat, at : Times, out : {"applied", "stale"}, todo : SUBSET Workspaces,
     w : Workspaces \cup {None}, saw : Nat, had : Goals, item : Items, goal : Goals,
     solo : {"yes", "no"}]

\* A run that works on a job has one, one that refreshes a workspace has one, and a row is of one to do.
Bound(r) ==
    /\ r.pc \in {"apply", "settle", "retry", "drop"} => r.job \in Jobs
    /\ r.pc \in {"items", "sources", "commit"} => r.w \in Workspaces
    /\ r.pc = "row" => r.todo # {}

\* Type correctness; a run that has left its loop has a job or is a sweep.
TypeOK ==
    /\ job \in [Jobs -> JobStates]
    /\ order \in Seq(Jobs)
    /\ sub \in [Subscriptions -> Subs]
    /\ item \in [Workspaces -> Items]
    /\ override \in [Workspaces -> Intents \cup {None}]
    /\ want \in [Workspaces -> Wants]
    /\ run \in [Runs -> RunStates]
    /\ \A x \in Runs : Bound(run[x])
    /\ now \in 0..MaxTime /\ moved \subseteq Jobs /\ sound \in [Workspaces -> {"yes", "no"}]
    /\ scene \in Scenes /\ troubles \in Nat

\* The provider's subscription is never behind an event that is settled, whatever the order, the
\* repetitions and the takeovers: "processed" is said of those that changed it and "stale" of those
\* that did not, and what it says is of the newest of them unless an operator has spoken (issue 06:37).
LatestSnapshot ==
    /\ \A e \in Events :
         /\ job[e].st \in {"processed", "stale"} => sub[Provided].src >= Snapshot[e].src
         /\ job[e].st = "processed" => e \in moved
         /\ job[e].st = "stale" => e \notin moved
         /\ e \in moved => sub[Provided].src >= Snapshot[e].src
    /\ sub[Provided].cause \in Events =>
         /\ sub[Provided].src = Snapshot[sub[Provided].cause].src
         /\ sub[Provided].cut = Snapshot[sub[Provided].cause].cut

Idle == \A x \in Runs : At(x, "idle")
\* Nothing is under way, and nothing was given up.
Quiet == Idle /\ \A j \in Jobs : job[j].st \in {"absent", "processed", "stale"}

\* The resolver has ended the access of w already, and the sweep's query does not ask for it yet.
Awaits(w) ==
    LET s == sub[item[w].sub] IN
    /\ item[w].id # None /\ want[w].goal.item.id = item[w].id
    /\ s.cut <= now /\ now < s.due

\* The subscriptions that operators have given to workspaces.  A workspace is lent its subscription if
\* another one has been given it as well: a change of the one is no job of the other's.
Assigned == {<<Order[i].sub, Order[i].w>> : i \in {j \in moved \cap Intents : Order[j].kind = "assign"}}
Lent == {w \in Workspaces : \E s \in Subscriptions, v \in Workspaces \ {w} : {<<s, w>>, <<s, v>>} \subseteq Assigned}

\* Once nothing is under way, a workspace wants what its subscription, its item and its override entitle
\* it to, or the sweep is to come, now or at its later date: a run that stops between a change and what
\* follows of it is made good (issue 06:39).  Provided that the last resolution had no other beside it
\* and looked at a time not before the item, and that the workspace has its subscription for itself.
WantedIsEntitled ==
    Quiet => \A w \in Workspaces :
        sound[w] = "yes" /\ w \notin Lent => want[w].goal = Entitled(w, now) \/ Due(w) \/ Awaits(w)

\* A job that is closed acts no more: no run that was overtaken changes a subscription, an item or an
\* override in its name.
ClosedActsNoMore ==
    [][\A j \in Jobs : job[j].st \in Closed =>
         /\ \A s \in Subscriptions : sub'[s].cause = j => sub[s] = sub'[s]
         /\ \A w \in Workspaces :
              /\ item'[w].id = j => item[w].id = j
              /\ override'[w] = j => override[w] = j]_vars

\* Every event and every intent that is accepted is closed: as no more come in the end, all of them are.
JobsEnd == order # <<>> ~> order = <<>>

\* What the sweep is to come for does not stay.
DueIsSwept == (\E w \in Workspaces : Due(w)) ~> ~\E w \in Workspaces : Due(w)
=============================================================================
