------------------------ MODULE SubscriptionIntakeProofs ------------------------
(***************************************************************************)
(* What the intake of subscriptions promises, for every set of workspaces, *)
(* events, orders and runs, however they come, repeat, stop and overtake   *)
(* one another.                                                            *)
(***************************************************************************)
EXTENDS SubscriptionIntake, SequenceTheorems, TLAPS

-----------------------------------------------------------------------------
(* Constants, and the records to begin with                                *)

LEMMA Constants ==
    /\ Never \in Times /\ 0 \in Times /\ \A t \in 0..MaxTime : t \in Times
    /\ None \notin Jobs /\ None \notin Workspaces /\ None \notin Plans
    /\ \A e \in Events : e \in Jobs /\ e \notin Intents
    /\ \A i \in Intents : i \in Jobs /\ i \notin Events
    /\ \A e \in Events : Snapshot[e].src \in Nat /\ Snapshot[e].cut \in Times /\ Snapshot[e].due \in Times
                         /\ Snapshot[e].window \in Times
    /\ \A i \in Intents : Order[i].w \in Workspaces /\ Order[i].sub \in Subscriptions /\ Order[i].plan \in Plans
                          /\ Order[i].window \in Times /\ Order[i].at \in Times /\ Order[i].kind \in Kinds
  BY IntakeAssumption DEF Never, Times, Jobs

LEMMA NoItemTyped == NoItem \in Items /\ NoItem.id = None
  BY Constants, IntakeAssumption DEF NoItem, Items

LEMMA FirstItemTyped == \A w \in Workspaces : FirstItem(w) \in Items
<1> SUFFICES ASSUME NEW w \in Workspaces
             PROVE  FirstItem(w) \in Items
  OBVIOUS
<1>1. FirstPlan[w] \in Plans
  BY IntakeAssumption
<1> QED
  BY <1>1, NoItemTyped DEF FirstItem, Items

LEMMA NoRunTyped == NoRun \in RunStates /\ Bound(NoRun) /\ NoRun.job = None /\ NoRun.pc = "idle"
<1>1. NoGoal \in Goals
  BY NoItemTyped DEF NoGoal, Goals
<1> QED
  BY <1>1, NoItemTyped, Constants DEF NoRun, RunStates, Bound

-----------------------------------------------------------------------------
(* The order of the open jobs                                              *)

LEMMA WithoutTyped ==
    ASSUME order \in Seq(Jobs), NEW j
    PROVE  Without(j) \in Seq(Jobs)
<1>1. CASE \E n \in 1..Len(order) : order[n] = j
  <2> DEFINE n == CHOOSE n \in 1..Len(order) : order[n] = j
  <2>1. n \in 1..Len(order)
    BY <1>1
  <2> HIDE DEF n
  <2>2. Len(order) \in Nat
    BY LenProperties
  <2>3. SubSeq(order, 1, n - 1) \in Seq(Jobs) /\ SubSeq(order, n + 1, Len(order)) \in Seq(Jobs)
    BY <2>1, <2>2, SubSeqProperties
  <2>4. SubSeq(order, 1, n - 1) \o SubSeq(order, n + 1, Len(order)) \in Seq(Jobs)
    BY <2>3, ConcatProperties
  <2> QED
    BY <1>1, <2>4 DEF Without, n
<1>2. CASE ~\E n \in 1..Len(order) : order[n] = j
  BY <1>2 DEF Without
<1> QED
  BY <1>1, <1>2

LEMMA TouchedTyped ==
    ASSUME TypeOK, NEW j \in Jobs, order' = Touched(j)
    PROVE  order' \in Seq(Jobs)
<1>1. Without(j) \in Seq(Jobs)
  BY WithoutTyped DEF TypeOK
<1>2. Append(Without(j), j) \in Seq(Jobs)
  BY <1>1, AppendProperties
<1> QED
  BY <1>1, <1>2 DEF Touched

LEMMA OrderedJobs ==
    ASSUME TypeOK, NEW kind, kind \subseteq Jobs, NEW n \in Candidates(kind)
    PROVE  order[n] \in kind /\ order[n] \in Jobs
  BY DEF Candidates

-----------------------------------------------------------------------------
(* How a run moves                                                         *)

\* A run that has its job's change behind it.
Working == {"row", "items", "sources", "commit", "settle"}

\* The run r becomes s: it has no job any more, or goes on with the one it has.
Follows(r, s) ==
    \/ s.job = None
    \/ /\ s.job = r.job /\ s.token = r.token
       /\ s.pc \in Working => r.pc \in Working /\ s.out = r.out

\* All runs have their types; those other than x stay.
RunsTyped == run' \in [Runs -> RunStates] /\ \A y \in Runs : Bound(run'[y])
Others(x) == \A y \in Runs : y # x => run'[y] = run[y]

LEMMA RunBecomes ==
    ASSUME TypeOK, NEW x \in Runs, NEW r \in RunStates, Bound(r), run' = [run EXCEPT ![x] = r]
    PROVE  RunsTyped /\ run'[x] = r /\ Others(x)
  BY DEF TypeOK, RunsTyped, Others

LEMMA RunHas ==
    ASSUME TypeOK, NEW x \in Runs
    PROVE  /\ run[x] \in RunStates /\ Bound(run[x])
           /\ run[x].token \in Nat /\ run[x].at \in Times /\ run[x].todo \subseteq Workspaces
           /\ run[x].saw \in Nat /\ run[x].had \in Goals /\ run[x].goal \in Goals /\ run[x].item \in Items
           /\ run[x].w \in Workspaces \cup {None} /\ run[x].job \in Jobs \cup {None} /\ run[x].out \in {"applied", "stale"}
  BY DEF TypeOK, RunStates

LEMMA EndMoves ==
    ASSUME TypeOK, NEW x \in Runs, run' = [run EXCEPT ![x] = NoRun]
    PROVE  RunsTyped /\ Follows(run[x], run'[x]) /\ Others(x) /\ run'[x].job = None
<1>1. RunsTyped /\ run'[x] = NoRun /\ Others(x)
  BY NoRunTyped, RunBecomes
<1> QED
  BY <1>1, NoRunTyped DEF Follows

LEMMA LeavesMoves ==
    ASSUME TypeOK, NEW x \in Runs, NEW pc \in {"retry", "drop"}, run[x].job \in Jobs, Leaves(x, pc)
    PROVE  RunsTyped /\ Follows(run[x], run'[x]) /\ Others(x)
<1> DEFINE r == [NoRun EXCEPT !.pc = pc, !.job = run[x].job, !.token = run[x].token]
<1>1. r \in RunStates /\ Bound(r) /\ r.job = run[x].job /\ r.token = run[x].token /\ r.pc \notin Working
  BY NoRunTyped, RunHas DEF RunStates, Bound, Working
<1>2. run' = [run EXCEPT ![x] = r]
  BY DEF Leaves
<1> HIDE DEF r
<1>3. RunsTyped /\ run'[x] = r /\ Others(x)
  BY <1>1, <1>2, RunBecomes
<1> QED
  BY <1>1, <1>3 DEF Follows

LEMMA OnwardTyped ==
    ASSUME NEW r \in RunStates
    PROVE  /\ Onward(r) \in RunStates /\ Bound(Onward(r))
           /\ r.pc \in Working => Follows(r, Onward(r))
<1>1. /\ r.job \in Jobs \cup {None} /\ r.token \in Nat /\ r.at \in Times /\ r.out \in {"applied", "stale"}
      /\ r.todo \in SUBSET Workspaces
  BY DEF RunStates
<1> DEFINE rest == [NoRun EXCEPT !.job = r.job, !.token = r.token, !.at = r.at, !.out = r.out, !.todo = r.todo]
<1>2. rest \in RunStates /\ rest.job = r.job /\ rest.token = r.token /\ rest.out = r.out /\ rest.todo = r.todo
  BY <1>1, NoRunTyped DEF RunStates
<1> HIDE DEF rest
<1>3. CASE r.todo # {}
  <2>1. Onward(r) = [rest EXCEPT !.pc = "row"]
    BY <1>3 DEF Onward, rest
  <2> DEFINE s == [rest EXCEPT !.pc = "row"]
  <2>2. s \in RunStates /\ s.pc = "row" /\ s.todo # {} /\ s.job = r.job /\ s.token = r.token /\ s.out = r.out
    BY <1>2, <1>3 DEF RunStates
  <2> HIDE DEF s
  <2> QED
    BY <2>1, <2>2 DEF Bound, Follows, s
<1>4. CASE r.todo = {} /\ r.job # None
  <2>1. Onward(r) = [rest EXCEPT !.pc = "settle"]
    BY <1>4 DEF Onward, rest
  <2> DEFINE s == [rest EXCEPT !.pc = "settle"]
  <2>2. s \in RunStates /\ s.pc = "settle" /\ s.job = r.job /\ s.token = r.token /\ s.out = r.out /\ s.job \in Jobs
    BY <1>1, <1>2, <1>4 DEF RunStates
  <2> HIDE DEF s
  <2> QED
    BY <2>1, <2>2 DEF Bound, Follows, s
<1>5. CASE r.todo = {} /\ r.job = None
  BY <1>5, NoRunTyped DEF Onward, Follows
<1> QED
  BY <1>3, <1>4, <1>5

LEMMA OnwardMoves ==
    ASSUME TypeOK, NEW x \in Runs, run[x].pc \in Working, run' = [run EXCEPT ![x] = Onward(run[x])]
    PROVE  RunsTyped /\ Follows(run[x], run'[x]) /\ Others(x)
<1>1. Onward(run[x]) \in RunStates /\ Bound(Onward(run[x])) /\ Follows(run[x], Onward(run[x]))
  BY RunHas, OnwardTyped
<1> QED
  BY <1>1, RunBecomes

LEMMA GivesUpMoves ==
    ASSUME TypeOK, NEW x \in Runs, run[x].pc \in Working \cup {"apply"}, NEW pc \in {"retry", "drop"}, GivesUp(x, pc)
    PROVE  RunsTyped /\ Follows(run[x], run'[x]) /\ Others(x)
<1>1. CASE run[x].job = None
  <2>1. run[x].pc # "apply"
    BY <1>1, RunHas, Constants DEF Bound
  <2> QED
    BY <1>1, <2>1, OnwardMoves DEF GivesUp
<1>2. CASE run[x].job # None
  BY <1>2, RunHas, LeavesMoves DEF GivesUp
<1> QED
  BY <1>1, <1>2

LEMMA RefreshesMoves ==
    ASSUME TypeOK, NEW x \in Runs, run[x].job \in Jobs, NEW j, NEW out \in {"applied", "stale"},
           NEW todo \in SUBSET Workspaces, Refreshes(x, j, out, todo)
    PROVE  RunsTyped /\ run'[x].job = run[x].job /\ run'[x].token = run[x].token /\ run'[x].out = out /\ Others(x)
<1> DEFINE pc == IF todo = {} THEN "settle" ELSE "row"
<1>1. pc \in {"settle", "row"} /\ (pc = "row" => todo # {})
  OBVIOUS
<1>2. run' = [run EXCEPT ![x].pc = pc, ![x].out = out, ![x].todo = todo]
  BY DEF Refreshes
<1> HIDE DEF pc
<1> DEFINE r == [run[x] EXCEPT !.pc = pc, !.out = out, !.todo = todo]
<1>3. /\ r \in RunStates /\ r.job = run[x].job /\ r.token = run[x].token /\ r.out = out
      /\ r.pc = pc /\ r.todo = todo
  BY <1>1, RunHas DEF RunStates
<1>4. run' = [run EXCEPT ![x] = r]
  BY <1>2
<1> HIDE DEF r
<1>5. Bound(r)
  BY <1>1, <1>3 DEF Bound
<1>6. RunsTyped /\ run'[x] = r /\ Others(x)
  BY <1>3, <1>4, <1>5, RunBecomes
<1> QED
  BY <1>3, <1>6

LEMMA TakesMoves ==
    ASSUME TypeOK, NEW x \in Runs, NEW j \in Jobs, NEW t \in Nat, NEW pc \in {"apply", "drop"}, NEW at \in Times,
           Takes(x, j, t, pc, at)
    PROVE  RunsTyped /\ run'[x].job = j /\ run'[x].token = t /\ run'[x].pc \notin Working /\ Others(x)
<1> DEFINE r == [NoRun EXCEPT !.pc = pc, !.job = j, !.token = t, !.at = at]
<1>1. r \in RunStates /\ Bound(r) /\ r.job = j /\ r.token = t /\ r.pc \notin Working
  BY NoRunTyped DEF RunStates, Bound, Working
<1>2. run' = [run EXCEPT ![x] = r]
  BY DEF Takes
<1> HIDE DEF r
<1>3. RunsTyped /\ run'[x] = r /\ Others(x)
  BY <1>1, <1>2, RunBecomes
<1> QED
  BY <1>1, <1>3

-----------------------------------------------------------------------------
(* Steps that concern only the runs and what the workspaces want           *)

LEMMA ResolvedTyped ==
    ASSUME NEW i \in Items, NEW s \in Subs, NEW by \in Intents \cup {None}, NEW at
    PROVE  Resolved(i, s, by, at) \in Goals
<1> DEFINE until == IF i.until < s.cut THEN i.until ELSE s.cut
<1>1. until \in Times
  BY DEF Items, Subs
<1> HIDE DEF until
<1>2. [i EXCEPT !.until = until] \in Items
  BY <1>1 DEF Items
<1> DEFINE k == IF i.id # None /\ i.from <= at /\ at < until THEN [i EXCEPT !.until = until] ELSE NoItem
<1>3. k \in Items
  BY <1>2, NoItemTyped
<1>4. Resolved(i, s, by, at) = [item |-> k, override |-> by]
  BY DEF Resolved, until
<1> HIDE DEF k
<1> QED
  BY <1>3, <1>4 DEF Goals

LEMMA SubsTyped ==
    ASSUME TypeOK
    PROVE  /\ \A s \in Subscriptions : sub[s] \in Subs
           /\ \A w \in Workspaces : item[w] \in Items /\ item[w].sub \in Subscriptions /\ override[w] \in Intents \cup {None}
           /\ \A w \in Workspaces : want[w] \in Wants /\ want[w].id \in Nat /\ want[w].goal \in Goals
  BY DEF TypeOK, Items, Wants

LEMMA ReadRowMoves ==
    ASSUME TypeOK, NEW x \in Runs, ReadRow(x)
    PROVE  RunsTyped /\ \A y \in Runs : Follows(run[y], run'[y])
<1> DEFINE w == CHOOSE w \in run[x].todo : TRUE
<1>1. run[x].pc = "row" /\ run[x].todo # {}
  BY RunHas DEF ReadRow, At, Bound
<1>2. w \in run[x].todo
  BY <1>1
<1>3. w \in Workspaces
  BY <1>2, RunHas
<1> DEFINE solo == IF Refreshing(w) = {} THEN "yes" ELSE "no"
<1> DEFINE r == [run[x] EXCEPT !.pc = "items", !.w = w, !.todo = run[x].todo \ {w}, !.saw = want[w].id,
                               !.had = want[w].goal, !.solo = solo]
<1>4. run' = [y \in Runs |-> IF y = x THEN r
                             ELSE IF y \in Refreshing(w) THEN [run[y] EXCEPT !.solo = "no"] ELSE run[y]]
  BY DEF ReadRow
<1> HIDE DEF w
<1>5. solo \in {"yes", "no"} /\ want[w].id \in Nat /\ want[w].goal \in Goals /\ run[x].todo \ {w} \in SUBSET Workspaces
  BY <1>3, RunHas, SubsTyped
<1> HIDE DEF solo
<1>6. r \in RunStates /\ r.pc = "items" /\ r.w = w /\ r.job = run[x].job /\ r.token = run[x].token /\ r.out = run[x].out
  BY <1>3, <1>5, RunHas DEF RunStates
<1> HIDE DEF r
<1>7. Bound(r) /\ Follows(run[x], r)
  BY <1>1, <1>3, <1>6 DEF Bound, Follows, Working
<1>8. ASSUME NEW y \in Runs
      PROVE  run'[y] \in RunStates /\ Bound(run'[y]) /\ Follows(run[y], run'[y])
  <2>1. CASE y = x
    BY <1>4, <1>6, <1>7, <2>1
  <2>2. CASE y # x /\ y \in Refreshing(w)
    <3> DEFINE s == [run[y] EXCEPT !.solo = "no"]
    <3>1. /\ s \in RunStates /\ s.pc = run[y].pc /\ s.job = run[y].job /\ s.token = run[y].token /\ s.out = run[y].out
          /\ s.w = run[y].w /\ s.todo = run[y].todo
      BY RunHas DEF RunStates
    <3>2. run'[y] = s
      BY <1>4, <2>2
    <3> HIDE DEF s
    <3> QED
      BY <3>1, <3>2, RunHas DEF Bound, Follows
  <2>3. CASE y # x /\ y \notin Refreshing(w)
    BY <1>4, <2>3, RunHas DEF Follows
  <2> QED
    BY <2>1, <2>2, <2>3
<1> QED
  BY <1>4, <1>8 DEF RunsTyped

LEMMA OtherFollow ==
    ASSUME NEW x \in Runs, Others(x), Follows(run[x], run'[x])
    PROVE  \A y \in Runs : Follows(run[y], run'[y])
  BY DEF Others, Follows

\* Runs go on, and nothing but what the workspaces want is written.
Proceeds ==
    /\ UNCHANGED <<job, order, facts>>
    /\ RunsTyped /\ want' \in [Workspaces -> Wants] /\ sound' \in [Workspaces -> {"yes", "no"}]
    /\ \A y \in Runs : Follows(run[y], run'[y])

LEMMA FinishesMoves ==
    ASSUME TypeOK, NEW x \in Runs, run[x].pc \in {"sources", "commit"}, Finishes(x)
    PROVE  RunsTyped /\ Follows(run[x], run'[x]) /\ Others(x) /\ sound' \in [Workspaces -> {"yes", "no"}]
<1>1. run[x].w \in Workspaces /\ run[x].pc \in Working
  BY RunHas DEF Bound, Working
<1>2. run' = [run EXCEPT ![x] = Onward(run[x])]
  BY DEF Finishes
<1>3. \E s \in {"yes", "no"} : sound' = [sound EXCEPT ![run[x].w] = s]
  BY DEF Finishes
<1> QED
  BY <1>1, <1>2, <1>3, OnwardMoves DEF TypeOK

LEMMA ReadSourcesProceeds ==
    ASSUME TypeOK, NEW x \in Runs, ReadSources(x)
    PROVE  Proceeds
<1> DEFINE i == run[x].item
<1> DEFINE goal == Resolved(i, sub[i.sub], override[run[x].w], run[x].at)
<1>1. run[x].pc = "sources" /\ run[x].w \in Workspaces /\ i \in Items /\ i.sub \in Subscriptions
  BY RunHas DEF ReadSources, At, Bound, Items
<1>2. goal \in Goals
  BY <1>1, SubsTyped, ResolvedTyped
<1>3. want' \in [Workspaces -> Wants] /\ UNCHANGED <<job, order, facts>>
  BY DEF ReadSources, TypeOK
<1>4. CASE GivesUp(x, "drop") /\ UNCHANGED sound
  <2>1. RunsTyped /\ Follows(run[x], run'[x]) /\ Others(x)
    BY <1>1, <1>4, GivesUpMoves DEF Working
  <2> QED
    BY <1>3, <1>4, <2>1, OtherFollow DEF Proceeds, TypeOK
<1>5. CASE Finishes(x)
  BY <1>1, <1>3, <1>5, FinishesMoves, OtherFollow DEF Proceeds
<1>6. CASE run' = [run EXCEPT ![x].pc = "commit", ![x].goal = goal] /\ UNCHANGED sound
  <2> HIDE DEF goal
  <2> DEFINE r == [run[x] EXCEPT !.pc = "commit", !.goal = goal]
  <2>1. /\ r \in RunStates /\ r.pc = "commit" /\ r.job = run[x].job /\ r.token = run[x].token /\ r.out = run[x].out
        /\ r.w = run[x].w
    BY <1>2, RunHas DEF RunStates
  <2>2. run' = [run EXCEPT ![x] = r]
    BY <1>6
  <2> HIDE DEF r
  <2>3. Bound(r) /\ Follows(run[x], r)
    BY <1>1, <2>1 DEF Bound, Follows, Working
  <2>4. RunsTyped /\ run'[x] = r /\ Others(x)
    BY <2>1, <2>2, <2>3, RunBecomes
  <2> QED
    BY <1>3, <1>6, <2>3, <2>4, OtherFollow DEF Proceeds, TypeOK
<1> QED
  BY <1>4, <1>5, <1>6 DEF ReadSources

LEMMA CommitProceeds ==
    ASSUME TypeOK, NEW x \in Runs, Commit(x)
    PROVE  Proceeds
<1>1. run[x].pc = "commit" /\ run[x].w \in Workspaces /\ run[x].goal \in Goals
  BY RunHas DEF Commit, At, Bound
<1>2. UNCHANGED <<job, order, facts>>
  BY DEF Commit
<1>3. CASE Finishes(x) /\ \E n \in NewId(run[x].w) : want' = [want EXCEPT ![run[x].w] = [id |-> n, goal |-> run[x].goal]]
  <2>1. PICK n \in NewId(run[x].w) : want' = [want EXCEPT ![run[x].w] = [id |-> n, goal |-> run[x].goal]]
    BY <1>3
  <2> DEFINE g == [id |-> n, goal |-> run[x].goal]
  <2>2. g \in Wants
    <3>1. n \in Nat
      BY DEF NewId
    <3> QED
      BY <1>1, <3>1 DEF Wants
  <2> HIDE DEF g
  <2>3. want' \in [Workspaces -> Wants]
    BY <2>1, <2>2 DEF TypeOK, g
  <2> QED
    BY <1>1, <1>2, <1>3, <2>3, FinishesMoves, OtherFollow DEF Proceeds
<1>4. CASE GivesUp(x, "retry") /\ UNCHANGED <<want, sound>>
  <2>1. RunsTyped /\ Follows(run[x], run'[x]) /\ Others(x)
    BY <1>1, <1>4, GivesUpMoves DEF Working
  <2> QED
    BY <1>2, <1>4, <2>1, OtherFollow DEF Proceeds, TypeOK
<1> QED
  BY <1>3, <1>4 DEF Commit

LEMMA RefreshProceeds ==
    ASSUME TypeOK, NEW x \in Runs, ReadRow(x) \/ ReadItems(x) \/ ReadSources(x) \/ Commit(x)
    PROVE  Proceeds
<1>1. CASE ReadRow(x)
  <2>1. UNCHANGED <<job, order, facts, want, sound>>
    BY <1>1 DEF ReadRow
  <2> QED
    BY <1>1, <2>1, ReadRowMoves DEF Proceeds, TypeOK
<1>2. CASE ReadItems(x)
  <2> DEFINE r == [run[x] EXCEPT !.pc = "sources", !.item = item[run[x].w]]
  <2>1. run[x].pc = "items" /\ run[x].w \in Workspaces /\ run' = [run EXCEPT ![x] = r]
        /\ UNCHANGED <<job, order, facts, want, sound>>
    BY <1>2, RunHas DEF ReadItems, At, Bound
  <2>2. item[run[x].w] \in Items
    BY <2>1, SubsTyped
  <2>3. /\ r \in RunStates /\ r.pc = "sources" /\ r.job = run[x].job /\ r.token = run[x].token /\ r.out = run[x].out
        /\ r.w = run[x].w
    BY <2>2, RunHas DEF RunStates
  <2> HIDE DEF r
  <2>4. Bound(r) /\ Follows(run[x], r)
    BY <2>1, <2>3 DEF Bound, Follows, Working
  <2>5. RunsTyped /\ run'[x] = r /\ Others(x)
    BY <2>1, <2>3, <2>4, RunBecomes
  <2> QED
    BY <2>1, <2>4, <2>5, OtherFollow DEF Proceeds, TypeOK
<1> QED
  BY <1>1, <1>2, ReadSourcesProceeds, CommitProceeds

LEMMA SweepProceeds ==
    ASSUME TypeOK, NEW x \in Runs, Sweep(x) \/ Throws(x) \/ Abandon(x)
    PROVE  Proceeds
<1>0. UNCHANGED <<job, order, facts, want, sound>>
  BY DEF Sweep, Throws, Abandon
<1>1. CASE Sweep(x)
  <2> DEFINE todo == {w \in Workspaces : Due(w)}
  <2>1. todo # {} /\ todo \in SUBSET Workspaces /\ now \in Times
    BY <1>1, Constants DEF Sweep, TypeOK
  <2> HIDE DEF todo
  <2> DEFINE r == [NoRun EXCEPT !.pc = "row", !.at = now, !.todo = todo]
  <2>2. r \in RunStates /\ r.pc = "row" /\ r.todo = todo /\ r.job = None
    BY <2>1, NoRunTyped DEF RunStates
  <2>3. run' = [run EXCEPT ![x] = r]
    BY <1>1 DEF Sweep, todo
  <2> HIDE DEF r
  <2>4. Bound(r) /\ Follows(run[x], r)
    BY <2>1, <2>2 DEF Bound, Follows
  <2>5. RunsTyped /\ run'[x] = r /\ Others(x)
    BY <2>2, <2>3, <2>4, RunBecomes
  <2> QED
    BY <1>0, <2>4, <2>5, OtherFollow DEF Proceeds, TypeOK
<1>2. CASE Throws(x)
  <2>1. run[x].pc \in Working \cup {"apply"} /\ GivesUp(x, "retry")
    BY <1>2 DEF Throws, Working
  <2> QED
    BY <1>0, <2>1, GivesUpMoves, OtherFollow DEF Proceeds, TypeOK
<1>3. CASE Abandon(x)
  BY <1>0, <1>3, EndMoves, OtherFollow DEF Abandon, Proceeds, TypeOK
<1> QED
  BY <1>1, <1>2, <1>3

LEMMA NextWorld ==
    ASSUME TypeOK, Next
    PROVE  now' \in 0..MaxTime /\ scene' \in Scenes /\ troubles' \in Nat
<1>1. CASE Tick
  <2>1. scene.time \in 0..MaxTime /\ MaxTime \in Nat /\ now \in 0..MaxTime
    BY IntakeAssumption DEF TypeOK
  <2> QED
    BY <1>1, <2>1 DEF Tick, Quietly, TypeOK
<1> DEFINE Same == UNCHANGED world /\ (troubles' = troubles \/ troubles' = troubles + 1)
<1>2. ASSUME NEW x \in Runs, Works(x) \/ Sweep(x) \/ Suffers(x)
      PROVE  Same
  <2>1. CASE ClaimEvent(x) \/ ClaimIntent(x) \/ ClaimLost(x)
    BY <2>1 DEF ClaimEvent, ClaimIntent, ClaimLost, Claimed, Trouble, Quietly
  <2>2. CASE ApplyEvent(x) \/ ApplyIntent(x)
    BY <2>2 DEF ApplyEvent, ApplyIntent, Quietly
  <2>3. CASE ReadRow(x) \/ ReadItems(x) \/ ReadSources(x) \/ Commit(x)
    BY <2>3 DEF ReadRow, ReadItems, ReadSources, Commit, Quietly
  <2>4. CASE Settle(x) \/ Fail(x) \/ Sweep(x)
    BY <2>4 DEF Settle, Fail, Sweep, Quietly
  <2>5. CASE Throws(x) \/ Abandon(x)
    BY <2>5 DEF Throws, Abandon, Trouble
  <2> QED
    BY <1>2, <2>1, <2>2, <2>3, <2>4, <2>5 DEF Works, Suffers
<1>3. ASSUME NEW j \in Jobs, Arrive(j) \/ Backoff(j) \/ Expire(j)
      PROVE  Same
  BY <1>3 DEF Arrive, Backoff, Expire, Trouble, Quietly
<1>4. CASE Same
  BY <1>4 DEF world, TypeOK
<1> QED
  BY <1>1, <1>2, <1>3, <1>4 DEF Next

-----------------------------------------------------------------------------
(* The inductive invariant                                                 *)

\* No two runs hold the same lease.
Unique ==
    \A x \in Runs, y \in Runs :
        run[x].job \in Jobs /\ run[y].job = run[x].job /\ run[y].token = run[x].token => x = y

Applied(e) == job[e].done = "yes"

\* An event is applied when it has changed the subscription, which is not behind it since.
AppliedMoved ==
    \A e \in Events : /\ e \in moved <=> Applied(e)
                      /\ e \in moved => sub[Provided].src >= Snapshot[e].src

\* The run that owns an event and has gone past it knows what became of it.
Known ==
    \A x \in Runs :
        run[x].job \in Events /\ run[x].pc \in Working /\ Owns(x) =>
            /\ sub[Provided].src >= Snapshot[run[x].job].src
            /\ run[x].out = "applied" <=> run[x].job \in moved

Kept == TypeOK /\ Unique /\ AppliedMoved /\ Known /\ LatestSnapshot

\* The run x settles its event e, and as what.
SettledBy(x, e) ==
    /\ run[x].job = e /\ run[x].pc = "settle" /\ Owns(x)
    /\ job'[e].st = IF run[x].out = "stale" THEN "stale" ELSE "processed"

\* A step that changes no subscription, item or override: jobs change their state, and runs go on.
Steady ==
    /\ TypeOK' /\ Unique' /\ UNCHANGED facts
    /\ \A e \in Events :
         /\ job'[e].done = job[e].done
         /\ \/ job'[e].st = job[e].st
            \/ job'[e].st \notin {"processed", "stale"}
            \/ \E x \in Runs : SettledBy(x, e)
    /\ \A y \in Runs :
         run'[y].job \in Events /\ run'[y].pc \in Working /\ Owns(y)' =>
             run[y].job = run'[y].job /\ run[y].pc \in Working /\ run[y].out = run'[y].out /\ Owns(y)

LEMMA SteadyKeeps ==
    ASSUME Kept, Steady
    PROVE  Kept'
<1>1. UNCHANGED <<sub, item, override, moved>>
  BY DEF Steady, facts
<1>2. AppliedMoved'
  BY <1>1 DEF Kept, Steady, AppliedMoved, Applied
<1>3. Known'
  <2> SUFFICES ASSUME NEW y \in Runs, run'[y].job \in Events, run'[y].pc \in Working, Owns(y)'
               PROVE  /\ sub[Provided].src >= Snapshot[run'[y].job].src
                      /\ run'[y].out = "applied" <=> run'[y].job \in moved
    BY <1>1 DEF Known
  <2>1. run[y].job = run'[y].job /\ run[y].pc \in Working /\ run[y].out = run'[y].out /\ Owns(y)
    BY DEF Steady
  <2> QED
    BY <2>1 DEF Kept, Known
<1>4. LatestSnapshot'
  <2>1. ASSUME NEW e \in Events
        PROVE  /\ job'[e].st \in {"processed", "stale"} => sub[Provided].src >= Snapshot[e].src
               /\ job'[e].st = "processed" => e \in moved
               /\ job'[e].st = "stale" => e \notin moved
    <3>1. CASE \E x \in Runs : SettledBy(x, e)
      <4>1. PICK x \in Runs : SettledBy(x, e)
        BY <3>1
      <4>2. run[x].out \in {"applied", "stale"}
        BY RunHas DEF Kept
      <4>3. sub[Provided].src >= Snapshot[e].src /\ (run[x].out = "applied" <=> e \in moved)
        BY <2>1, <4>1 DEF Kept, Known, SettledBy, Working
      <4> QED
        BY <4>1, <4>2, <4>3 DEF SettledBy
    <3>2. CASE job'[e].st = job[e].st \/ job'[e].st \notin {"processed", "stale"}
      BY <2>1, <3>2 DEF Kept, LatestSnapshot
    <3> QED
      BY <2>1, <3>1, <3>2 DEF Steady
  <2>2. \A e \in Events : e \in moved => sub[Provided].src >= Snapshot[e].src
    BY DEF Kept, LatestSnapshot
  <2> QED
    BY <1>1, <2>1, <2>2 DEF Kept, LatestSnapshot
<1> QED
  BY <1>2, <1>3, <1>4 DEF Kept, Steady

\* Leases stay unique while runs go on with what they have.
LEMMA FollowUnique ==
    ASSUME Unique, \A y \in Runs : Follows(run[y], run'[y])
    PROVE  Unique'
<1> SUFFICES ASSUME NEW x \in Runs, NEW y \in Runs, run'[x].job \in Jobs, run'[y].job = run'[x].job,
                    run'[y].token = run'[x].token
             PROVE  x = y
  BY DEF Unique
<1>1. run[x].job = run'[x].job /\ run[y].job = run'[y].job /\ run[x].token = run'[x].token /\ run[y].token = run'[y].token
  BY Constants DEF Follows
<1> QED
  BY <1>1 DEF Unique

LEMMA ProceedsSteady ==
    ASSUME Kept, Proceeds, now' \in 0..MaxTime, scene' \in Scenes, troubles' \in Nat
    PROVE  Steady
<1>1. TypeOK'
  BY DEF Kept, TypeOK, Proceeds, RunsTyped, facts
<1>2. Unique'
  BY FollowUnique DEF Kept, Proceeds
<1>3. ASSUME NEW y \in Runs, run'[y].job \in Events, run'[y].pc \in Working, Owns(y)'
      PROVE  run[y].job = run'[y].job /\ run[y].pc \in Working /\ run[y].out = run'[y].out /\ Owns(y)
  <2>1. Follows(run[y], run'[y]) /\ run'[y].job # None
    BY <1>3, Constants DEF Proceeds
  <2> QED
    BY <1>3, <2>1 DEF Follows, Owns, Proceeds
<1> QED
  BY <1>1, <1>2, <1>3 DEF Steady, Proceeds

-----------------------------------------------------------------------------
(* Steps of the jobs                                                       *)

LEMMA JobBecomes ==
    ASSUME TypeOK, NEW j \in Jobs, NEW o \in JobStates, job' = [job EXCEPT ![j] = o]
    PROVE  job' \in [Jobs -> JobStates] /\ job'[j] = o /\ \A k \in Jobs : k # j => job'[k] = job[k]
  BY DEF TypeOK

\* The job j becomes o, and everything but the order and the runs stays.
Changes(j, o) ==
    /\ o \in JobStates /\ job' = [job EXCEPT ![j] = o] /\ o.done = job[j].done
    /\ order' \in Seq(Jobs) /\ RunsTyped
    /\ UNCHANGED <<facts, want, sound>>

LEMMA ChangesTyped ==
    ASSUME TypeOK, NEW j \in Jobs, NEW o, Changes(j, o), now' \in 0..MaxTime, scene' \in Scenes, troubles' \in Nat
    PROVE  /\ TypeOK' /\ UNCHANGED facts /\ job'[j] = o
           /\ \A k \in Jobs : k # j => job'[k] = job[k]
           /\ \A k \in Jobs : job'[k].done = job[k].done
  BY JobBecomes DEF TypeOK, Changes, RunsTyped, facts

\* A job that is taken from its run, or stays as it was, in a step in which no run comes to have another.
LEMMA ChangesSteady ==
    ASSUME Kept, NEW j \in Jobs, NEW o, Changes(j, o), now' \in 0..MaxTime, scene' \in Scenes, troubles' \in Nat,
           \A y \in Runs : Follows(run[y], run'[y]),
           o.st = "processing" => o.st = job[j].st /\ o.token = job[j].token,
           o.st = job[j].st \/ o.st \notin {"processed", "stale"} \/ \E x \in Runs : SettledBy(x, j)
    PROVE  Steady
<1>1. /\ TypeOK' /\ UNCHANGED facts /\ job'[j] = o
      /\ \A k \in Jobs : k # j => job'[k] = job[k]
      /\ \A k \in Jobs : job'[k].done = job[k].done
  BY ChangesTyped DEF Kept
<1>2. Unique'
  BY FollowUnique DEF Kept
<1>3. ASSUME NEW y \in Runs, run'[y].job \in Events, run'[y].pc \in Working, Owns(y)'
      PROVE  run[y].job = run'[y].job /\ run[y].pc \in Working /\ run[y].out = run'[y].out /\ Owns(y)
  <2>1. run'[y].job # None /\ run'[y].job \in Jobs
    BY <1>3, Constants
  <2>2. run[y].job = run'[y].job /\ run[y].token = run'[y].token /\ run[y].pc \in Working /\ run[y].out = run'[y].out
    BY <1>3, <2>1 DEF Follows
  <2>3. Owns(y)
    <3>1. CASE run[y].job = j
      BY <1>1, <1>3, <2>2, <3>1 DEF Owns
    <3>2. CASE run[y].job # j
      BY <1>1, <1>3, <2>1, <2>2, <3>2 DEF Owns
    <3> QED
      BY <3>1, <3>2
  <2> QED
    BY <2>2, <2>3
<1>4. ASSUME NEW e \in Events
      PROVE  \/ job'[e].st = job[e].st
             \/ job'[e].st \notin {"processed", "stale"}
             \/ \E x \in Runs : SettledBy(x, e)
  <2>1. CASE e = j
    BY <1>1, <2>1
  <2>2. CASE e # j
    BY <1>1, <2>2, Constants
  <2> QED
    BY <2>1, <2>2
<1> QED
  BY <1>1, <1>2, <1>3, <1>4, Constants DEF Steady

LEMMA SameRuns ==
    ASSUME TypeOK, UNCHANGED run
    PROVE  RunsTyped /\ \A y \in Runs : Follows(run[y], run'[y])
  BY DEF TypeOK, RunsTyped, Follows

LEMMA JobHas ==
    ASSUME TypeOK, NEW j \in Jobs
    PROVE  job[j] \in JobStates /\ job[j].tries \in Nat
  BY DEF TypeOK, JobStates

LEMMA ArriveSteady ==
    ASSUME Kept, NEW j \in Jobs, Arrive(j) \/ Backoff(j) \/ Expire(j), now' \in 0..MaxTime, scene' \in Scenes, troubles' \in Nat
    PROVE  Steady
<1>0. TypeOK /\ job[j] \in JobStates
  BY JobHas DEF Kept
<1>1. CASE Arrive(j)
  <2> DEFINE o == [job[j] EXCEPT !.st = "pending"]
  <2>1. o \in JobStates /\ o.st = "pending" /\ o.done = job[j].done
    BY <1>0 DEF JobStates
  <2>2. job' = [job EXCEPT ![j] = o] /\ order' \in Seq(Jobs) /\ UNCHANGED <<facts, want, sound, run>>
    BY <1>0, <1>1, TouchedTyped DEF Arrive
  <2> HIDE DEF o
  <2>3. Changes(j, o)
    BY <1>0, <2>1, <2>2, SameRuns DEF Changes
  <2> QED
    BY <1>0, <2>1, <2>2, <2>3, SameRuns, ChangesSteady
<1>2. CASE Backoff(j)
  <2> DEFINE o == [job[j] EXCEPT !.due = "now"]
  <2>1. o \in JobStates /\ o.st = job[j].st /\ o.token = job[j].token /\ o.done = job[j].done
    BY <1>0 DEF JobStates
  <2>2. job' = [job EXCEPT ![j] = o] /\ order' \in Seq(Jobs) /\ UNCHANGED <<facts, want, sound, run>>
    BY <1>0, <1>2 DEF Backoff, TypeOK
  <2> HIDE DEF o
  <2>3. Changes(j, o)
    BY <1>0, <2>1, <2>2, SameRuns DEF Changes
  <2> QED
    BY <1>0, <2>1, <2>2, <2>3, SameRuns, ChangesSteady
<1>3. CASE Expire(j)
  <2> DEFINE o == [job[j] EXCEPT !.lease = "past"]
  <2>1. o \in JobStates /\ o.st = job[j].st /\ o.token = job[j].token /\ o.done = job[j].done
    BY <1>0 DEF JobStates
  <2>2. job' = [job EXCEPT ![j] = o] /\ order' \in Seq(Jobs) /\ UNCHANGED <<facts, want, sound, run>>
    BY <1>0, <1>3 DEF Expire, TypeOK
  <2> HIDE DEF o
  <2>3. Changes(j, o)
    BY <1>0, <2>1, <2>2, SameRuns DEF Changes
  <2> QED
    BY <1>0, <2>1, <2>2, <2>3, SameRuns, ChangesSteady
<1> QED
  BY <1>1, <1>2, <1>3

LEMMA EndedChanges ==
    ASSUME TypeOK, NEW j \in Jobs, NEW st \in {"failed"} \cup Closed, NEW due \in {"now", "later"},
           job' = Ended(j, st, due), order' = Touched(j), RunsTyped, UNCHANGED <<facts, want, sound>>
    PROVE  \E o : Changes(j, o) /\ o.st = st
<1> DEFINE o == [job[j] EXCEPT !.st = st, !.lease = "none", !.due = due]
<1>1. o \in JobStates /\ o.st = st /\ o.done = job[j].done
  BY JobHas DEF JobStates
<1>2. job' = [job EXCEPT ![j] = o]
  BY DEF Ended
<1> HIDE DEF o
<1>3. Changes(j, o)
  BY <1>1, <1>2, TouchedTyped DEF Changes
<1> QED
  BY <1>1, <1>3

LEMMA UntouchedProceeds ==
    ASSUME TypeOK, RunsTyped, \A y \in Runs : Follows(run[y], run'[y]), UNCHANGED <<job, order, facts, want, sound>>
    PROVE  Proceeds
  BY DEF Proceeds, TypeOK

LEMMA CloseSteady ==
    ASSUME Kept, NEW x \in Runs, Fail(x) \/ Settle(x), now' \in 0..MaxTime, scene' \in Scenes, troubles' \in Nat
    PROVE  Steady
<1> DEFINE j == run[x].job
<1>1. TypeOK /\ j \in Jobs /\ UNCHANGED <<facts, want, sound>> /\ run' = [run EXCEPT ![x] = NoRun]
  BY RunHas DEF Fail, Settle, At, Bound, Kept
<1>2. RunsTyped /\ \A y \in Runs : Follows(run[y], run'[y])
  BY <1>1, EndMoves, OtherFollow
<1>3. CASE ~Owns(x)
  <2>1. UNCHANGED <<job, order, facts, want, sound>>
    BY <1>1, <1>3 DEF Fail, Settle
  <2> QED
    BY <1>1, <1>2, <2>1, UntouchedProceeds, ProceedsSteady
<1>4. CASE Fail(x) /\ Owns(x)
  <2>1. PICK st \in {"failed", "dropped"}, due \in {"now", "later"} : job' = Ended(j, st, due)
    BY <1>4 DEF Fail
  <2>2. order' = Touched(j)
    BY <1>4 DEF Fail
  <2>3. st \in {"failed"} \cup Closed
    BY DEF Closed
  <2>4. PICK o : Changes(j, o) /\ o.st = st
    BY <1>1, <1>2, <2>1, <2>2, <2>3, EndedChanges
  <2> QED
    BY <1>1, <1>2, <2>4, ChangesSteady
<1>5. CASE Settle(x) /\ Owns(x)
  <2> DEFINE st == IF run[x].out = "stale" THEN "stale" ELSE "processed"
  <2>1. job' = Ended(j, st, "now") /\ order' = Touched(j)
    BY <1>5 DEF Settle
  <2>2. st \in {"failed"} \cup Closed /\ st \in {"stale", "processed"}
    BY DEF Closed
  <2>3. PICK o : Changes(j, o) /\ o.st = st
    BY <1>1, <1>2, <2>1, <2>2, EndedChanges
  <2>4. job'[j].st = st
    BY <1>1, <2>3, JobBecomes DEF Changes
  <2>5. SettledBy(x, j)
    BY <1>5, <2>4 DEF SettledBy, Settle, At
  <2>6. o.st # "processing"
    BY <2>2, <2>3
  <2> HIDE DEF st
  <2> QED
    BY <1>1, <1>2, <2>3, <2>5, <2>6, ChangesSteady
<1> QED
  BY <1>3, <1>4, <1>5

-----------------------------------------------------------------------------
(* Claims                                                                  *)

\* The lease of j goes to the token t, which no run has, and at most the run x takes it up.
Grants(j, t) ==
    /\ RunsTyped /\ Claimed(j, t) /\ t \in Fresh(j)
    /\ \/ UNCHANGED run
       \/ \E x \in Runs : Others(x) /\ run'[x].job = j /\ run'[x].token = t /\ run'[x].pc \notin Working

LEMMA GrantsSteady ==
    ASSUME Kept, NEW j \in Jobs, NEW t \in Nat, Grants(j, t), now' \in 0..MaxTime, scene' \in Scenes, troubles' \in Nat
    PROVE  Steady
<1>0. TypeOK /\ job[j] \in JobStates /\ job[j].tries \in Nat
  BY JobHas DEF Kept
<1> DEFINE n == job[j].tries
<1> DEFINE k == IF j \in Intents /\ n <= MaxAttempts THEN n + 1 ELSE n
<1>1. k \in Nat
  BY <1>0
<1>2. job' = [job EXCEPT ![j].st = "processing", ![j].token = t, ![j].lease = "live", ![j].tries = k]
  BY DEF Grants, Claimed
<1> HIDE DEF k
<1> DEFINE o == [job[j] EXCEPT !.st = "processing", !.token = t, !.lease = "live", !.tries = k]
<1>3. o \in JobStates /\ o.st = "processing" /\ o.token = t /\ o.done = job[j].done
  BY <1>0, <1>1 DEF JobStates
<1>4. job' = [job EXCEPT ![j] = o] /\ order' = Touched(j) /\ UNCHANGED <<facts, want, sound>>
  BY <1>2 DEF Grants, Claimed
<1> HIDE DEF o
<1>5. Changes(j, o)
  BY <1>0, <1>3, <1>4, TouchedTyped DEF Changes, Grants
<1>6. /\ TypeOK' /\ UNCHANGED facts /\ job'[j] = o
      /\ \A l \in Jobs : l # j => job'[l] = job[l]
      /\ \A l \in Jobs : job'[l].done = job[l].done
  BY <1>0, <1>5, ChangesTyped
<1>7. \A y \in Runs : run[y].job = j => run[y].token # t
  BY DEF Grants, Fresh
<1>8. \A y \in Runs : run'[y] = run[y] \/ (run'[y].job = j /\ run'[y].token = t /\ run'[y].pc \notin Working)
  BY DEF Grants, Others
<1>9. Unique'
  <2> SUFFICES ASSUME NEW x \in Runs, NEW y \in Runs, run'[x].job \in Jobs, run'[y].job = run'[x].job,
                      run'[y].token = run'[x].token, x # y
               PROVE  FALSE
    BY DEF Unique
  <2>1. CASE run'[x] = run[x] /\ run'[y] = run[y]
    BY <2>1 DEF Kept, Unique
  <2>2. CASE run'[x] # run[x]
    <3>1. run'[y] = run[y] /\ run'[x].job = j /\ run'[x].token = t
      BY <1>8, <2>2 DEF Grants, Others
    <3> QED
      BY <1>7, <3>1
  <2>3. CASE run'[y] # run[y]
    <3>1. run'[x] = run[x] /\ run'[y].job = j /\ run'[y].token = t
      BY <1>8, <2>3 DEF Grants, Others
    <3> QED
      BY <1>7, <3>1
  <2> QED
    BY <2>1, <2>2, <2>3
<1>10. ASSUME NEW y \in Runs, run'[y].job \in Events, run'[y].pc \in Working, Owns(y)'
       PROVE  run[y].job = run'[y].job /\ run[y].pc \in Working /\ run[y].out = run'[y].out /\ Owns(y)
  <2>1. run'[y] = run[y]
    BY <1>8, <1>10
  <2>2. run[y].job # j
    BY <1>3, <1>6, <1>7, <1>10, <2>1 DEF Owns
  <2>3. job'[run[y].job] = job[run[y].job]
    BY <1>6, <1>10, <2>1, <2>2, Constants
  <2> QED
    BY <1>10, <2>1, <2>3 DEF Owns
<1>11. \A e \in Events : job'[e].st = job[e].st \/ job'[e].st \notin {"processed", "stale"}
  BY <1>3, <1>6, Constants
<1> QED
  BY <1>6, <1>9, <1>10, <1>11, Constants DEF Steady

LEMMA ClaimGrants ==
    ASSUME TypeOK, NEW x \in Runs, ClaimEvent(x) \/ ClaimIntent(x) \/ ClaimLost(x)
    PROVE  \E j \in Jobs, t \in Nat : Grants(j, t)
<1>0. Events \subseteq Jobs /\ Intents \subseteq Jobs
  BY Constants
<1>1. CASE ClaimEvent(x)
  <2>1. PICK n \in Candidates(Events) : \E t \in Fresh(order[n]) :
           Claimed(order[n], t) /\ Takes(x, order[n], t, "apply", now)
    BY <1>1 DEF ClaimEvent
  <2>2. PICK t \in Fresh(order[n]) : Claimed(order[n], t) /\ Takes(x, order[n], t, "apply", now)
    BY <2>1
  <2>3. order[n] \in Jobs /\ t \in Nat /\ now \in Times
    BY <1>0, OrderedJobs, Constants DEF Fresh, Tokens, TypeOK
  <2>4. RunsTyped /\ run'[x].job = order[n] /\ run'[x].token = t /\ run'[x].pc \notin Working /\ Others(x)
    BY <2>2, <2>3, TakesMoves
  <2> QED
    BY <2>2, <2>3, <2>4 DEF Grants
<1>2. CASE ClaimIntent(x)
  <2>1. PICK n \in Candidates(Intents) : \E t \in Fresh(order[n]) :
           /\ Claimed(order[n], t)
           /\ Takes(x, order[n], t, IF job[order[n]].tries >= MaxAttempts THEN "drop" ELSE "apply", Order[order[n]].at)
    BY <1>2 DEF ClaimIntent
  <2>2. PICK t \in Fresh(order[n]) :
           /\ Claimed(order[n], t)
           /\ Takes(x, order[n], t, IF job[order[n]].tries >= MaxAttempts THEN "drop" ELSE "apply", Order[order[n]].at)
    BY <2>1
  <2>3. order[n] \in Jobs /\ t \in Nat /\ Order[order[n]].at \in Times
    BY <1>0, OrderedJobs, Constants DEF Fresh, Tokens
  <2>4. RunsTyped /\ run'[x].job = order[n] /\ run'[x].token = t /\ run'[x].pc \notin Working /\ Others(x)
    BY <2>2, <2>3, TakesMoves
  <2> QED
    BY <2>2, <2>3, <2>4 DEF Grants
<1>3. CASE ClaimLost(x)
  <2>1. PICK n \in Candidates(Events) \cup Candidates(Intents) : \E t \in Fresh(order[n]) : Claimed(order[n], t)
    BY <1>3 DEF ClaimLost
  <2>2. PICK t \in Fresh(order[n]) : Claimed(order[n], t)
    BY <2>1
  <2>3. order[n] \in Jobs /\ t \in Nat
    BY <1>0, OrderedJobs DEF Fresh, Tokens
  <2>4. RunsTyped /\ UNCHANGED run
    BY <1>3, SameRuns DEF ClaimLost
  <2> QED
    BY <2>2, <2>3, <2>4 DEF Grants
<1> QED
  BY <1>1, <1>2, <1>3

-----------------------------------------------------------------------------
(* What a job changes                                                      *)

\* What is written of the subscriptions has its types, the provider's one does not go back, and what it
\* says is of the event it names.
Writes ==
    /\ sub' \in [Subscriptions -> Subs] /\ item' \in [Workspaces -> Items]
    /\ override' \in [Workspaces -> Intents \cup {None}] /\ moved' \subseteq Jobs
    /\ sub'[Provided].src >= sub[Provided].src
    /\ sub'[Provided].cause \in Events =>
         /\ sub'[Provided].src = Snapshot[sub'[Provided].cause].src
         /\ sub'[Provided].cut = Snapshot[sub'[Provided].cause].cut

\* The run x, which owns its job, changes what the job is to change.
Acts(x) ==
    LET j == run[x].job IN
    /\ j \in Jobs /\ Owns(x)
    /\ Writes /\ RunsTyped /\ Others(x) /\ run'[x].job = j /\ run'[x].token = run[x].token
    /\ job' \in [Jobs -> JobStates] /\ order' \in Seq(Jobs) /\ UNCHANGED <<want, sound>>
    /\ \A k \in Jobs : /\ job'[k].st = job[k].st /\ job'[k].token = job[k].token
                       /\ k # j => job'[k].done = job[k].done
    /\ moved' = moved \/ moved' = moved \cup {j}
    /\ j \in Events => /\ j \in moved' <=> job'[j].done = "yes"
                       /\ sub'[Provided].src >= Snapshot[j].src
                       /\ run'[x].out = "applied" <=> j \in moved'

LEMMA ActsKeeps ==
    ASSUME Kept, NEW x \in Runs, Acts(x), now' \in 0..MaxTime, scene' \in Scenes, troubles' \in Nat
    PROVE  Kept'
<1> DEFINE j == run[x].job
<1> DEFINE src == sub[Provided].src
<1>0. /\ src \in Nat /\ sub'[Provided].src \in Nat /\ sub'[Provided].src >= src
      /\ \A e \in Events : Snapshot[e].src \in Nat
  <2>1. sub[Provided] \in Subs /\ sub'[Provided] \in Subs
    BY IntakeAssumption DEF Kept, TypeOK, Acts, Writes
  <2> QED
    BY <2>1, Constants DEF Acts, Writes, Subs
<1>1. TypeOK'
  BY DEF Kept, TypeOK, Acts, Writes, RunsTyped
<1>2. Unique'
  <2>1. \A y \in Runs : run'[y].job = run[y].job /\ run'[y].token = run[y].token
    BY DEF Acts, Others
  <2> QED
    BY <2>1 DEF Kept, Unique
<1>3. \A e \in Events : e # j => (e \in moved' <=> e \in moved) /\ job'[e].done = job[e].done
  BY Constants DEF Acts
<1>4. AppliedMoved'
  <2> SUFFICES ASSUME NEW e \in Events
               PROVE  /\ e \in moved' <=> job'[e].done = "yes"
                      /\ e \in moved' => sub'[Provided].src >= Snapshot[e].src
    BY DEF AppliedMoved, Applied
  <2>1. CASE e = j
    BY <2>1 DEF Acts
  <2>2. CASE e # j
    <3>1. /\ e \in moved <=> job[e].done = "yes"
          /\ e \in moved => src >= Snapshot[e].src
      BY DEF Kept, AppliedMoved, Applied
    <3> QED
      BY <1>0, <1>3, <2>2, <3>1
  <2> QED
    BY <2>1, <2>2
<1>5. Known'
  <2> SUFFICES ASSUME NEW y \in Runs, run'[y].job \in Events, run'[y].pc \in Working, Owns(y)'
               PROVE  /\ sub'[Provided].src >= Snapshot[run'[y].job].src
                      /\ run'[y].out = "applied" <=> run'[y].job \in moved'
    BY DEF Known
  <2>1. CASE y = x
    BY <2>1 DEF Acts
  <2>2. CASE y # x
    <3>1. run'[y] = run[y] /\ run[y].job \in Jobs
      BY <2>2, Constants DEF Acts, Others
    <3>2. Owns(y)
      BY <3>1 DEF Acts, Owns
    <3>3. run[y].job # j
      BY <2>2, <3>1, <3>2 DEF Acts, Owns, Kept, Unique
    <3>4. /\ src >= Snapshot[run[y].job].src
          /\ run[y].out = "applied" <=> run[y].job \in moved
      BY <3>1, <3>2 DEF Kept, Known
    <3> QED
      BY <1>0, <1>3, <3>1, <3>3, <3>4
  <2> QED
    BY <2>1, <2>2
<1>6. LatestSnapshot'
  <2>1. ASSUME NEW e \in Events
        PROVE  /\ job'[e].st \in {"processed", "stale"} => sub'[Provided].src >= Snapshot[e].src
               /\ job'[e].st = "processed" => e \in moved'
               /\ job'[e].st = "stale" => e \notin moved'
               /\ e \in moved' => sub'[Provided].src >= Snapshot[e].src
    <3>1. CASE e = j
      <4>1. job'[e].st = "processing"
        BY <3>1 DEF Acts, Owns
      <4> QED
        BY <3>1, <4>1 DEF Acts
    <3>2. CASE e # j
      <4>1. job'[e].st = job[e].st
        BY Constants DEF Acts
      <4>2. /\ job[e].st \in {"processed", "stale"} => src >= Snapshot[e].src
            /\ job[e].st = "processed" => e \in moved
            /\ job[e].st = "stale" => e \notin moved
            /\ e \in moved => src >= Snapshot[e].src
        BY DEF Kept, LatestSnapshot
      <4> QED
        BY <1>0, <1>3, <3>2, <4>1, <4>2
    <3> QED
      BY <3>1, <3>2
  <2> QED
    BY <2>1 DEF LatestSnapshot, Acts, Writes
<1> QED
  BY <1>1, <1>2, <1>4, <1>5, <1>6 DEF Kept

LEMMA ExtendedTyped ==
    ASSUME NEW i \in Items, NEW s, NEW window \in Times
    PROVE  Extended(i, s, window) \in Items /\ Extended(i, s, window).id = i.id
<1>1. [i EXCEPT !.until = window] \in Items /\ [i EXCEPT !.until = window].id = i.id
  BY DEF Items
<1> QED
  BY <1>1 DEF Extended

LEMMA SameWrites ==
    ASSUME Kept, UNCHANGED facts
    PROVE  Writes
<1>1. sub[Provided].src \in Nat
  BY IntakeAssumption DEF Kept, TypeOK, Subs
<1> QED
  BY <1>1 DEF Kept, TypeOK, LatestSnapshot, Writes, facts

\* The provider's event e replaces what its subscription says.
LEMMA SnapshotWrites ==
    ASSUME Kept, NEW e \in Events, ~Stale(e), job[e].done = "no", Snapshots(e)
    PROVE  Writes /\ moved' = moved \cup {e} /\ sub'[Provided].src = Snapshot[e].src
           /\ job' = [job EXCEPT ![e].done = "yes"] /\ order' = Touched(e)
<1> DEFINE r == [st |-> "there", src |-> Snapshot[e].src, cut |-> Snapshot[e].cut, due |-> Snapshot[e].due,
                 window |-> Snapshot[e].window, cause |-> e]
<1>1. r \in Subs /\ r.cause = e /\ r.src = Snapshot[e].src /\ r.cut = Snapshot[e].cut
  BY Constants DEF Subs
<1>2. /\ sub' = [sub EXCEPT ![Provided] = r]
      /\ item' = [w \in Workspaces |-> Extended(item[w], Provided, Snapshot[e].window)]
      /\ moved' = moved \cup {e} /\ UNCHANGED override
      /\ job' = [job EXCEPT ![e].done = "yes"] /\ order' = Touched(e)
  BY DEF Snapshots
<1> HIDE DEF r
<1>3. Provided \in Subscriptions /\ sub[Provided].src \in Nat
  BY IntakeAssumption DEF Kept, TypeOK, Subs
<1>4. sub' \in [Subscriptions -> Subs] /\ sub'[Provided] = r
  BY <1>1, <1>2, <1>3 DEF Kept, TypeOK
<1>5. item' \in [Workspaces -> Items]
  BY <1>2, ExtendedTyped, SubsTyped, Constants DEF Kept
<1>6. override' \in [Workspaces -> Intents \cup {None}] /\ moved' \subseteq Jobs
  BY <1>2, Constants DEF Kept, TypeOK
<1>7. sub'[Provided].src >= sub[Provided].src
  BY <1>1, <1>3, <1>4, Constants DEF Stale
<1> QED
  BY <1>1, <1>2, <1>4, <1>5, <1>6, <1>7 DEF Writes

LEMMA LeavesProceeds ==
    ASSUME TypeOK, NEW x \in Runs, run[x].job \in Jobs, NEW pc \in {"retry", "drop"}, Leaves(x, pc),
           UNCHANGED <<facts, job, order, want, sound>>
    PROVE  Proceeds
  BY LeavesMoves, OtherFollow, UntouchedProceeds

LEMMA EventActs ==
    ASSUME Kept, NEW x \in Runs, ApplyEvent(x)
    PROVE  Proceeds \/ Acts(x)
<1> DEFINE e == run[x].job
<1> DEFINE out == IF Stale(e) THEN "stale" ELSE "applied"
<1>1. TypeOK /\ e \in Events /\ e \in Jobs /\ UNCHANGED <<want, sound>>
  BY Constants DEF ApplyEvent, Kept
<1>2. CASE ~Owns(x)
  <2>1. Leaves(x, "retry") /\ UNCHANGED <<facts, job, order, want, sound>>
    BY <1>1, <1>2 DEF ApplyEvent
  <2> QED
    BY <1>1, <2>1, LeavesProceeds
<1>3. CASE Owns(x)
  <2>1. Snapshots(e) /\ Refreshes(x, e, out, Affected(e))
    BY <1>3 DEF ApplyEvent
  <2>2. Affected(e) \in SUBSET Workspaces /\ out \in {"applied", "stale"}
    BY DEF Affected, Active
  <2>3. RunsTyped /\ Others(x) /\ run'[x].job = e /\ run'[x].token = run[x].token /\ run'[x].out = out
    BY <1>1, <2>1, <2>2, RefreshesMoves
  <2>4. job[e].done \in {"yes", "no"} /\ sub[Provided].src \in Nat /\ Snapshot[e].src \in Nat
    BY <1>1, JobHas, SubsTyped, IntakeAssumption DEF JobStates, Subs
  <2>5. e \in moved <=> job[e].done = "yes"
    BY <1>1 DEF Kept, AppliedMoved, Applied
  <2>6. CASE job[e].done = "yes" \/ Stale(e)
    <3>1. UNCHANGED <<facts, job, order>>
      BY <2>1, <2>6 DEF Snapshots
    <3>2. Writes /\ UNCHANGED <<sub, moved>>
      BY <3>1, SameWrites DEF facts
    <3>3. sub[Provided].src >= Snapshot[e].src
      BY <1>1, <2>5, <2>6 DEF Kept, AppliedMoved, Stale
    <3>4. out = "applied" <=> e \in moved
      BY <2>5, <2>6 DEF Stale
    <3>5. job' \in [Jobs -> JobStates] /\ order' \in Seq(Jobs)
      BY <1>1, <3>1 DEF TypeOK
    <3> HIDE DEF out
    <3> QED
      BY <1>1, <1>3, <2>3, <2>5, <3>1, <3>2, <3>3, <3>4, <3>5 DEF Acts
  <2>7. CASE job[e].done = "no" /\ ~Stale(e)
    <3>1. Writes /\ moved' = moved \cup {e} /\ sub'[Provided].src = Snapshot[e].src
          /\ job' = [job EXCEPT ![e].done = "yes"] /\ order' = Touched(e)
      BY <1>1, <2>1, <2>7, SnapshotWrites
    <3> DEFINE o == [job[e] EXCEPT !.done = "yes"]
    <3>2. o \in JobStates /\ o.st = job[e].st /\ o.token = job[e].token /\ o.done = "yes"
      BY <1>1, JobHas DEF JobStates
    <3>3. job' = [job EXCEPT ![e] = o]
      BY <3>1
    <3> HIDE DEF o
    <3>4. job' \in [Jobs -> JobStates] /\ job'[e] = o /\ \A k \in Jobs : k # e => job'[k] = job[k]
      BY <1>1, <3>2, <3>3, JobBecomes
    <3>5. order' \in Seq(Jobs)
      BY <1>1, <3>1, TouchedTyped
    <3>6. out = "applied"
      BY <2>7
    <3> QED
      BY <1>1, <1>3, <2>3, <2>4, <3>1, <3>2, <3>4, <3>5, <3>6 DEF Acts
  <2> QED
    BY <2>4, <2>6, <2>7
<1> QED
  BY <1>2, <1>3

-----------------------------------------------------------------------------
(* What an intent changes                                                  *)

LEMMA UpsertsWrite ==
    ASSUME Kept, NEW i \in Intents, Upserts(i), UNCHANGED override, ~Refused(i), ~(SameItem(i) /\ item[Order[i].w].id = i),
           Order[i].kind \in {"rollout", "assign"}
    PROVE  Writes /\ (moved' = moved \/ moved' = moved \cup {i})
<1> DEFINE o == Order[i]
<1>0. TypeOK /\ i \in Jobs /\ i \notin Events /\ o.w \in Workspaces /\ o.sub \in Subscriptions
      /\ o.plan \in Plans /\ o.window \in Times /\ o.at \in Times
  BY Constants DEF Kept
<1>1. Target(i) \in Subscriptions
  BY <1>0, SubsTyped DEF Target
<1>2. Window(i) \in Times
  <2>1. sub[Target(i)] \in Subs
    BY <1>0, <1>1, SubsTyped
  <2> QED
    BY <1>0, <2>1 DEF Window, Subs
<1>3. item' \in [Workspaces -> Items]
  <2>1. CASE SameItem(i)
    <3>1. item' = [w \in Workspaces |-> Extended(item[w], Target(i), Window(i))]
      BY <2>1 DEF Upserts
    <3> QED
      BY <1>0, <1>2, <3>1, ExtendedTyped, SubsTyped
  <2>2. CASE ~SameItem(i)
    <3> DEFINE r == [id |-> i, sub |-> Target(i), plan |-> o.plan, from |-> o.at, until |-> Window(i)]
    <3>1. r \in Items
      BY <1>0, <1>1, <1>2 DEF Items
    <3>2. item' = [item EXCEPT ![o.w] = r]
      BY <2>2 DEF Upserts
    <3> HIDE DEF r
    <3> QED
      BY <1>0, <3>1, <3>2 DEF TypeOK
  <2> QED
    BY <2>1, <2>2
<1>4. CASE o.kind = "rollout"
  <2>1. UNCHANGED <<sub, moved, override>>
    BY <1>4 DEF Upserts
  <2>2. sub[Provided].src \in Nat
    BY <1>0, SubsTyped, IntakeAssumption DEF Subs
  <2> QED
    BY <1>0, <1>3, <2>1, <2>2 DEF Writes, Kept, TypeOK, LatestSnapshot
<1>5. CASE o.kind = "assign"
  <2>1. o.sub # Provided
    BY <1>5 DEF Refused
  <2> DEFINE r == [NoSub EXCEPT !.st = "there", !.window = o.window, !.cause = i]
  <2>2. r \in Subs
    BY <1>0, Constants DEF NoSub, Subs
  <2>3. sub' = [sub EXCEPT ![o.sub] = r] /\ moved' = moved \cup {i} /\ UNCHANGED override
    BY <1>5 DEF Upserts
  <2> HIDE DEF r
  <2>4. sub' \in [Subscriptions -> Subs] /\ sub'[Provided] = sub[Provided] /\ sub[Provided].src \in Nat
    BY <1>0, <2>1, <2>2, <2>3, IntakeAssumption DEF TypeOK, Subs
  <2> QED
    BY <1>0, <1>3, <2>3, <2>4 DEF Writes, Kept, TypeOK, LatestSnapshot
<1> QED
  BY <1>4, <1>5

LEMMA CancelsWrite ==
    ASSUME Kept, NEW i \in Intents, Cancels(i), UNCHANGED override
    PROVE  Writes /\ moved' = moved \cup {i}
<1> DEFINE o == Order[i]
<1>0. TypeOK /\ i \in Jobs /\ i \notin Events /\ o.sub \in Subscriptions /\ o.at \in Times
  BY Constants DEF Kept
<1> DEFINE r == [sub[o.sub] EXCEPT !.cut = o.at, !.due = o.at, !.cause = i]
<1>a. sub[o.sub] \in Subs
  BY <1>0, SubsTyped
<1>1. r \in Subs /\ r.src = sub[o.sub].src /\ r.cause = i
  BY <1>0, <1>a DEF Subs
<1>2. sub' = [sub EXCEPT ![o.sub] = r] /\ moved' = moved \cup {i}
  BY DEF Cancels
<1> HIDE DEF r
<1>3. /\ sub' \in [Subscriptions -> Subs] /\ sub'[Provided].src = sub[Provided].src /\ sub[Provided].src \in Nat
      /\ sub'[Provided] = sub[Provided] \/ sub'[Provided].cause = i
  <2>1. sub[Provided] \in Subs /\ Provided \in Subscriptions
    BY <1>0, SubsTyped, IntakeAssumption
  <2>2. sub' \in [Subscriptions -> Subs]
    BY <1>0, <1>1, <1>2 DEF TypeOK
  <2>3. CASE o.sub = Provided
    BY <1>0, <1>1, <1>2, <2>1, <2>2, <2>3 DEF TypeOK, Subs
  <2>4. CASE o.sub # Provided
    BY <1>0, <1>1, <1>2, <2>1, <2>2, <2>4 DEF TypeOK, Subs
  <2> QED
    BY <2>3, <2>4
<1>4. item' \in [Workspaces -> Items]
  <2>1. item' = [w \in Workspaces |-> IF w \in Active(o.sub) THEN NoItem ELSE item[w]]
    BY DEF Cancels
  <2> QED
    BY <1>0, <2>1, NoItemTyped, SubsTyped
<1> QED
  BY <1>0, <1>2, <1>3, <1>4 DEF Writes, Kept, TypeOK, LatestSnapshot

\* The workspaces an intent hits are written to its row.
LEMMA HitsTyped ==
    ASSUME TypeOK, NEW i \in Jobs, NEW hit \in SUBSET Workspaces, Hits(i, hit)
    PROVE  /\ job' \in [Jobs -> JobStates] /\ order' \in Seq(Jobs)
           /\ \A k \in Jobs : job'[k].st = job[k].st /\ job'[k].token = job[k].token /\ job'[k].done = job[k].done
<1> DEFINE o == [job[i] EXCEPT !.hit = hit]
<1>1. o \in JobStates /\ o.st = job[i].st /\ o.token = job[i].token /\ o.done = job[i].done
  BY JobHas DEF JobStates
<1>2. job' = [job EXCEPT ![i] = o] /\ order' = Touched(i)
  BY DEF Hits
<1> HIDE DEF o
<1>3. job' \in [Jobs -> JobStates] /\ job'[i] = o /\ \A k \in Jobs : k # i => job'[k] = job[k]
  BY <1>1, <1>2, JobBecomes
<1> QED
  BY <1>1, <1>2, <1>3, TouchedTyped

LEMMA IntentActs ==
    ASSUME Kept, NEW x \in Runs, ApplyIntent(x)
    PROVE  Proceeds \/ Acts(x)
<1> DEFINE i == run[x].job
<1>1. TypeOK /\ i \in Intents /\ i \in Jobs /\ i \notin Events /\ UNCHANGED <<want, sound>> /\ Order[i].w \in Workspaces
  BY Constants DEF ApplyIntent, Kept
<1> DEFINE Done ==
      /\ Writes /\ (moved' = moved \/ moved' = moved \cup {i})
      /\ \/ UNCHANGED <<job, order>>
         \/ \E hit \in SUBSET Workspaces : Hits(i, hit)
      /\ \E todo \in SUBSET Workspaces : Refreshes(x, i, "applied", todo)
<1> DEFINE Left == Leaves(x, "drop") /\ UNCHANGED <<facts, job, order>>
<1>2. CASE ~Owns(x)
  <2>1. Leaves(x, "retry") /\ UNCHANGED <<facts, job, order, want, sound>>
    BY <1>1, <1>2 DEF ApplyIntent
  <2> QED
    BY <1>1, <2>1, LeavesProceeds
<1>3. ASSUME ApplyUpsert(x, i)
      PROVE  Left \/ Done
  <2>1. CASE Refused(i)
    BY <1>3, <2>1 DEF ApplyUpsert
  <2>2. CASE ~Refused(i) /\ SameItem(i) /\ item[Order[i].w].id = i
    <3>1. UNCHANGED facts /\ Hits(i, {Order[i].w}) /\ Refreshes(x, i, "applied", {Order[i].w})
      BY <1>3, <2>2 DEF ApplyUpsert
    <3>2. Writes /\ moved' = moved
      BY <3>1, SameWrites DEF facts
    <3> QED
      BY <1>1, <3>1, <3>2
  <2>3. CASE ~Refused(i) /\ ~(SameItem(i) /\ item[Order[i].w].id = i)
    <3>1. /\ Upserts(i) /\ UNCHANGED override /\ Order[i].kind \in {"rollout", "assign"}
          /\ Hits(i, {Order[i].w}) /\ Refreshes(x, i, "applied", {Order[i].w})
      BY <1>3, <2>3 DEF ApplyUpsert
    <3>2. Writes /\ (moved' = moved \/ moved' = moved \cup {i})
      BY <1>1, <2>3, <3>1, UpsertsWrite
    <3> QED
      BY <1>1, <3>1, <3>2
  <2> QED
    BY <2>1, <2>2, <2>3
<1>4. ASSUME ApplyEnd(x, i)
      PROVE  Left \/ Done
  <2> DEFINE hit == IF Active(Order[i].sub) # {} THEN Active(Order[i].sub) ELSE job[i].hit
  <2>1. hit \in SUBSET Workspaces
    BY <1>1, JobHas DEF Active, JobStates
  <2>2. CASE sub[Order[i].sub].st = "none"
    BY <1>4, <2>2 DEF ApplyEnd
  <2>3. CASE UNCHANGED <<facts, job, order>> /\ Refreshes(x, i, "applied", hit)
    <3>1. Writes /\ moved' = moved
      BY <2>3, SameWrites DEF facts
    <3> QED
      BY <2>1, <2>3, <3>1
  <2>4. CASE Cancels(i) /\ Hits(i, hit) /\ UNCHANGED override /\ Refreshes(x, i, "applied", hit)
    <3>1. Writes /\ moved' = moved \cup {i}
      BY <1>1, <2>4, CancelsWrite
    <3> QED
      BY <2>1, <2>4, <3>1
  <2> QED
    BY <1>4, <2>2, <2>3, <2>4 DEF ApplyEnd
<1>5. ASSUME ApplyOverride(x, i)
      PROVE  Left \/ Done
  <2>1. /\ \E by \in {i, None} : override' = [override EXCEPT ![Order[i].w] = by]
        /\ UNCHANGED <<sub, item, moved>>
        /\ Hits(i, {Order[i].w}) /\ Refreshes(x, i, "applied", {Order[i].w})
    BY <1>5 DEF ApplyOverride
  <2>2. override' \in [Workspaces -> Intents \cup {None}]
    BY <1>1, <2>1 DEF TypeOK
  <2>3. sub[Provided].src \in Nat
    BY <1>1, SubsTyped, IntakeAssumption DEF Subs
  <2>4. Writes
    BY <1>1, <2>1, <2>2, <2>3 DEF Writes, Kept, TypeOK, LatestSnapshot
  <2> QED
    BY <1>1, <2>1, <2>4
<1>6. CASE Owns(x)
  <2>1. Left \/ Done
    BY <1>3, <1>4, <1>5, <1>6 DEF ApplyIntent
  <2>2. CASE Left
    BY <1>1, <2>2, LeavesProceeds
  <2>3. CASE Done
    <3>1. /\ job' \in [Jobs -> JobStates] /\ order' \in Seq(Jobs)
          /\ \A k \in Jobs : job'[k].st = job[k].st /\ job'[k].token = job[k].token /\ job'[k].done = job[k].done
      BY <1>1, <2>3, HitsTyped DEF TypeOK
    <3>2. RunsTyped /\ Others(x) /\ run'[x].job = i /\ run'[x].token = run[x].token
      BY <1>1, <2>3, RefreshesMoves
    <3> QED
      BY <1>1, <1>6, <2>3, <3>1, <3>2 DEF Acts
  <2> QED
    BY <2>1, <2>2, <2>3
<1> QED
  BY <1>2, <1>6

-----------------------------------------------------------------------------
(* The theorems                                                            *)

LEMMA TickProceeds ==
    ASSUME TypeOK, Tick
    PROVE  Proceeds
  BY SameRuns, UntouchedProceeds DEF Tick

\* A step changes no subscription, item or override, or it is that of a run with the job it owns.
LEMMA StepCases ==
    ASSUME Kept, Next
    PROVE  Steady \/ \E x \in Runs : Acts(x) /\ (ApplyEvent(x) \/ ApplyIntent(x))
<1>0. TypeOK /\ now' \in 0..MaxTime /\ scene' \in Scenes /\ troubles' \in Nat
  BY NextWorld DEF Kept
<1>1. ASSUME NEW x \in Runs, Works(x) \/ Sweep(x) \/ Suffers(x)
      PROVE  Steady \/ (Acts(x) /\ (ApplyEvent(x) \/ ApplyIntent(x)))
  <2>1. CASE ClaimEvent(x) \/ ClaimIntent(x) \/ ClaimLost(x)
    BY <1>0, <2>1, ClaimGrants, GrantsSteady
  <2>2. CASE ApplyEvent(x) \/ ApplyIntent(x)
    BY <1>0, <2>2, EventActs, IntentActs, ProceedsSteady
  <2>3. CASE ReadRow(x) \/ ReadItems(x) \/ ReadSources(x) \/ Commit(x) \/ Sweep(x) \/ Throws(x) \/ Abandon(x)
    BY <1>0, <2>3, RefreshProceeds, SweepProceeds, ProceedsSteady
  <2>4. CASE Settle(x) \/ Fail(x)
    BY <1>0, <2>4, CloseSteady
  <2> QED
    BY <1>1, <2>1, <2>2, <2>3, <2>4 DEF Works, Suffers
<1>2. ASSUME NEW j \in Jobs, Arrive(j) \/ Backoff(j) \/ Expire(j)
      PROVE  Steady
  BY <1>0, <1>2, ArriveSteady
<1>3. CASE Tick
  BY <1>0, <1>3, TickProceeds, ProceedsSteady
<1> QED
  BY <1>1, <1>2, <1>3 DEF Next

LEMMA KeptFirst == Init => Kept
<1> SUFFICES ASSUME Init
             PROVE  Kept
  OBVIOUS
<1>1. NoJob \in JobStates /\ NoJob.st = "absent" /\ NoJob.done = "no"
  BY DEF NoJob, JobStates
<1>2. NoSub \in Subs /\ [NoSub EXCEPT !.st = "there"] \in Subs /\ NoSub.cause = None
      /\ [NoSub EXCEPT !.st = "there"].cause = None
  BY Constants DEF NoSub, Subs
<1>3. sub \in [Subscriptions -> Subs] /\ \A s \in Subscriptions : sub[s].cause = None
  BY <1>2 DEF Init
<1>4. want \in [Workspaces -> Wants]
  <2>1. \A w \in Workspaces : [item |-> FirstItem(w), override |-> None] \in Goals
    BY FirstItemTyped DEF Goals
  <2>2. \A w \in Workspaces : [id |-> 0, goal |-> [item |-> FirstItem(w), override |-> None]] \in Wants
    BY <2>1 DEF Wants
  <2> QED
    BY <2>2 DEF Init
<1>5. item \in [Workspaces -> Items]
  BY FirstItemTyped DEF Init
<1>6. order \in Seq(Jobs)
  BY EmptySeq DEF Init
<1>7. run \in [Runs -> RunStates] /\ \A x \in Runs : Bound(run[x]) /\ run[x].job = None
  BY NoRunTyped DEF Init
<1>8. job \in [Jobs -> JobStates] /\ \A j \in Jobs : job[j].st = "absent" /\ job[j].done = "no"
  BY <1>1 DEF Init
<1>9. override \in [Workspaces -> Intents \cup {None}] /\ now \in 0..MaxTime /\ moved = {} /\ moved \subseteq Jobs
      /\ sound \in [Workspaces -> {"yes", "no"}] /\ scene \in Scenes /\ troubles \in Nat
  BY IntakeAssumption DEF Init
<1>10. TypeOK
  BY <1>3, <1>4, <1>5, <1>6, <1>7, <1>8, <1>9 DEF TypeOK
<1>11. Unique /\ Known
  BY <1>7, Constants DEF Unique, Known
<1>12. AppliedMoved /\ LatestSnapshot
  <2>1. sub[Provided].cause \notin Events
    BY <1>3, Constants, IntakeAssumption
  <2> QED
    BY <1>8, <1>9, <2>1, Constants DEF AppliedMoved, Applied, LatestSnapshot
<1> QED
  BY <1>10, <1>11, <1>12 DEF Kept

LEMMA KeptStays == Kept /\ [Next]_vars => Kept'
<1> SUFFICES ASSUME Kept, [Next]_vars
             PROVE  Kept'
  OBVIOUS
<1>1. CASE Next
  <2>1. now' \in 0..MaxTime /\ scene' \in Scenes /\ troubles' \in Nat
    BY <1>1, NextWorld DEF Kept
  <2> QED
    BY <1>1, <2>1, StepCases, SteadyKeeps, ActsKeeps
<1>2. CASE UNCHANGED vars
  BY <1>2 DEF vars, Kept, TypeOK, Unique, AppliedMoved, Applied, Known, Owns, LatestSnapshot
<1> QED
  BY <1>1, <1>2

THEOREM IntakeKept == Spec => []Kept
<1> QED
  BY KeptFirst, KeptStays, PTL DEF Spec

\* Jobs, subscriptions, items, overrides and runs have their types in every state, and a run that
\* works on a job or refreshes a workspace has one.
THEOREM IntakeTypes == Spec => []TypeOK
<1>1. Kept => TypeOK
  BY DEF Kept
<1> QED
  BY <1>1, IntakeKept, PTL

\* The provider's subscription follows the newest of its events, and every event that is settled is
\* told as what it was, whatever the order, the repetitions and the takeovers.
THEOREM SnapshotsAreLatest == Spec => []LatestSnapshot
<1>1. Kept => LatestSnapshot
  BY DEF Kept
<1> QED
  BY <1>1, IntakeKept, PTL

LEMMA ClosedStep ==
    ASSUME Kept, Next, NEW j \in Jobs, job[j].st \in Closed
    PROVE  /\ \A s \in Subscriptions : sub'[s].cause = j => sub[s] = sub'[s]
           /\ \A w \in Workspaces : /\ item'[w].id = j => item[w].id = j
                                    /\ override'[w] = j => override[w] = j
<1>1. CASE Steady
  BY <1>1 DEF Steady, facts
<1>2. CASE \E x \in Runs : Acts(x) /\ (ApplyEvent(x) \/ ApplyIntent(x))
  <2>1. PICK x \in Runs : Acts(x) /\ (ApplyEvent(x) \/ ApplyIntent(x))
    BY <1>2
  <2> DEFINE k == run[x].job
  <2>2. Owns(x) /\ k \in Jobs /\ k # j /\ TypeOK
    BY <2>1 DEF Acts, Owns, Closed, Kept
  <2> DEFINE Mine ==
        /\ \A s \in Subscriptions : sub'[s] = sub[s] \/ sub'[s].cause = k
        /\ \A w \in Workspaces : /\ item'[w].id \in {item[w].id, k, None}
                                 /\ override'[w] \in {override[w], k, None}
  <2>3. ASSUME UNCHANGED facts
        PROVE  Mine
    BY <2>3 DEF facts
  <2>e. \A w \in Workspaces, s \in Subscriptions, window \in Times : Extended(item[w], s, window).id = item[w].id
    BY <2>2, ExtendedTyped, SubsTyped
  <2>4. ASSUME ApplyEvent(x)
        PROVE  Mine
    <3>1. Snapshots(k) /\ k \in Events
      BY <2>2, <2>4 DEF ApplyEvent
    <3>2. CASE job[k].done = "yes" \/ Stale(k)
      BY <2>3, <3>1, <3>2 DEF Snapshots
    <3>3. CASE ~(job[k].done = "yes" \/ Stale(k))
      <4> DEFINE r == [st |-> "there", src |-> Snapshot[k].src, cut |-> Snapshot[k].cut, due |-> Snapshot[k].due,
                       window |-> Snapshot[k].window, cause |-> k]
      <4>1. /\ sub' = [sub EXCEPT ![Provided] = r] /\ r.cause = k
            /\ item' = [w \in Workspaces |-> Extended(item[w], Provided, Snapshot[k].window)]
            /\ UNCHANGED override
        BY <3>1, <3>3 DEF Snapshots
      <4> HIDE DEF r
      <4>2. \A s \in Subscriptions : sub'[s] = sub[s] \/ sub'[s].cause = k
        BY <2>2, <4>1 DEF TypeOK
      <4>3. \A w \in Workspaces : item'[w].id = item[w].id
        BY <2>e, <3>1, <4>1, Constants, IntakeAssumption
      <4> QED
        BY <4>1, <4>2, <4>3
    <3> QED
      BY <3>2, <3>3
  <2>5. ASSUME ApplyIntent(x)
        PROVE  Mine
    <3>0. k \in Intents /\ Order[k].w \in Workspaces /\ Order[k].sub \in Subscriptions /\ Order[k].window \in Times
      BY <2>5, Constants DEF ApplyIntent
    <3>1. CASE Upserts(k) /\ UNCHANGED override
      <4>1. \A s \in Subscriptions : sub'[s] = sub[s] \/ sub'[s].cause = k
        <5> DEFINE r == [NoSub EXCEPT !.st = "there", !.window = Order[k].window, !.cause = k]
        <5>1. r.cause = k
          BY DEF NoSub
        <5>2. UNCHANGED sub \/ sub' = [sub EXCEPT ![Order[k].sub] = r]
          BY <3>1 DEF Upserts
        <5> HIDE DEF r
        <5> QED
          BY <2>2, <3>0, <5>1, <5>2 DEF TypeOK
      <4>2. Window(k) \in Times /\ Target(k) \in Subscriptions
        <5>1. Target(k) \in Subscriptions
          BY <2>2, <3>0, SubsTyped DEF Target
        <5>2. sub[Target(k)] \in Subs
          BY <2>2, <5>1, SubsTyped
        <5> QED
          BY <3>0, <5>1, <5>2 DEF Window, Subs
      <4>3. \A w \in Workspaces : item'[w].id \in {item[w].id, k}
        <5>1. CASE SameItem(k)
          <6>1. item' = [w \in Workspaces |-> Extended(item[w], Target(k), Window(k))]
            BY <3>1, <5>1 DEF Upserts
          <6> QED
            BY <2>e, <4>2, <6>1
        <5>2. CASE ~SameItem(k)
          <6>1. \E r : r.id = k /\ item' = [item EXCEPT ![Order[k].w] = r]
            BY <3>1, <5>2 DEF Upserts
          <6> QED
            BY <2>2, <3>0, <6>1 DEF TypeOK
        <5> QED
          BY <5>1, <5>2
      <4> QED
        BY <3>1, <4>1, <4>3
    <3>2. CASE Cancels(k) /\ UNCHANGED override
      <4> DEFINE r == [sub[Order[k].sub] EXCEPT !.cut = Order[k].at, !.due = Order[k].at, !.cause = k]
      <4>1. r.cause = k
        BY <2>2, <3>0, SubsTyped DEF Subs
      <4>2. /\ sub' = [sub EXCEPT ![Order[k].sub] = r]
            /\ item' = [w \in Workspaces |-> IF w \in Active(Order[k].sub) THEN NoItem ELSE item[w]]
        BY <3>2 DEF Cancels
      <4> HIDE DEF r
      <4>3. \A s \in Subscriptions : sub'[s] = sub[s] \/ sub'[s].cause = k
        BY <2>2, <3>0, <4>1, <4>2 DEF TypeOK
      <4>4. \A w \in Workspaces : item'[w].id \in {item[w].id, None}
        BY <4>2, NoItemTyped
      <4> QED
        BY <3>2, <4>3, <4>4
    <3>3. CASE ApplyOverride(x, k)
      <4>1. /\ \E by \in {k, None} : override' = [override EXCEPT ![Order[k].w] = by]
            /\ UNCHANGED <<sub, item>>
        BY <3>3 DEF ApplyOverride
      <4> QED
        BY <2>2, <3>0, <4>1 DEF TypeOK
    <3>4. \/ UNCHANGED facts \/ (Upserts(k) /\ UNCHANGED override) \/ (Cancels(k) /\ UNCHANGED override)
          \/ ApplyOverride(x, k)
      BY <2>2, <2>5 DEF ApplyIntent, ApplyUpsert, ApplyEnd
    <3> QED
      BY <2>3, <3>1, <3>2, <3>3, <3>4
  <2>6. Mine
    BY <2>1, <2>4, <2>5
  <2>7. j # None
    BY Constants
  <2> QED
    BY <2>2, <2>6, <2>7
<1> QED
  BY <1>1, <1>2, StepCases

\* A job that is closed acts no more: no run that was overtaken changes a subscription, an item or an
\* override in its name.
THEOREM ClosedJobsRest == Spec => ClosedActsNoMore
<1>1. Kept /\ [Next]_vars =>
        [\A j \in Jobs : job[j].st \in Closed =>
           /\ \A s \in Subscriptions : sub'[s].cause = j => sub[s] = sub'[s]
           /\ \A w \in Workspaces :
                /\ item'[w].id = j => item[w].id = j
                /\ override'[w] = j => override[w] = j]_vars
  BY ClosedStep DEF vars
<1> QED
  BY <1>1, IntakeKept, PTL DEF Spec, ClosedActsNoMore

-----------------------------------------------------------------------------
(* What is owed to a workspace                                             *)

Open == {"pending", "processing", "failed"}
Before == {"apply", "retry", "drop"}
Flying == {"items", "sources", "commit"}
Owner(x, j) == run[x].job = j /\ Owns(x)
Clean == \A j \in Jobs : job[j].st # "dropped"

\* Who applies the job j again refreshes the workspace w.
Serves(j, w) ==
    IF j \in Events THEN w \in Active(Provided)
    ELSE IF Order[j].kind = "end"
         THEN w \in job[j].hit /\ (w \in Active(Order[j].sub) \/ Active(Order[j].sub) = {})
         ELSE w = Order[j].w

\* The job j owes w a refresh: it is open, and a run that owns it has that refresh before it.
Refreshable(r, w) == w \in r.todo \/ r.w = w
Owes(j, w) ==
    /\ job[j].st \in Open /\ Serves(j, w)
    /\ \A x \in Runs : Owner(x, j) => run[x].pc \in Before \/ Refreshable(run[x], w)

\* What w wants is what it is entitled to, or the item it wants has come to its end.
Over(w) ==
    /\ item[w].id # None /\ want[w].goal.item.id = item[w].id
    /\ item[w].until <= now \/ sub[item[w].sub].cut <= now
Good(w) == want[w].goal = Entitled(w, now) \/ Over(w)
Owed == Clean => \A w \in Workspaces : w \in Lent \/ sound[w] = "no" \/ Good(w) \/ \E j \in Jobs : Owes(j, w)

\* A refresh that has no other beside it,
Solo(x) == run[x].pc \in Flying /\ run[x].solo = "yes"
\* what it has read is what there is,
Current(x) ==
    LET w == run[x].w IN
    /\ run[x].pc \in {"sources", "commit"} => run[x].item = item[w]
    /\ run[x].pc = "commit" => run[x].goal = Resolved(item[w], sub[item[w].sub], override[w], run[x].at)
OwedElsewhere(x) == \E j \in Jobs : Owes(j, run[x].w) /\ ~Owner(x, j)
\* or a job it does not work on owes the workspace another.
Flights ==
    /\ \A x \in Runs : Solo(x) => want[run[x].w].goal = run[x].had
    /\ \A x, y \in Runs : Solo(x) /\ run[y].w = run[x].w => x = y
    /\ Clean => \A x \in Runs : Solo(x) => (run[x].w \in Lent \/ Current(x) \/ OwedElsewhere(x))

Framed(r) ==
    /\ r.at \in Nat
    /\ r.pc \in Flying <=> r.w # None
    /\ r.pc \notin Flying \cup {"row"} => r.todo = {}
Timely ==
    /\ \A x \in Runs : run[x].at <= now
    /\ \A i \in Intents : job[i].st \in {"processing", "failed"} => Order[i].at <= now
    /\ \A w \in Workspaces : item[w].from <= now
\* Items are of the provider's subscription or of one an operator has assigned, and those of the provider's
\* do not end before its window does.
Titles ==
    /\ \A w \in Workspaces :
         item[w].id # None =>
             /\ item[w].sub = Provided \/ <<item[w].sub, w>> \in Assigned
             /\ item[w].sub = Provided /\ sub[Provided].window # Never =>
                    item[w].until # Never /\ item[w].until >= sub[Provided].window
    /\ \A i \in Intents : Order[i].kind = "end" =>
         \A w \in job[i].hit : Order[i].sub = Provided \/ <<Order[i].sub, w>> \in Assigned

Owing == Kept /\ (\A x \in Runs : Framed(run[x])) /\ Timely /\ Titles /\ Flights /\ Owed

LEMMA NatTimes == Times \subseteq Nat /\ MaxTime \in Nat /\ Never \in Nat /\ Never = MaxTime + 1
  BY IntakeAssumption DEF Times, Never

\* What was resolved is resolved again later, unless it has come to its end.
LEMMA ResolvedLater ==
    ASSUME NEW i \in Items, NEW s \in Subs, NEW by, NEW at \in Nat, NEW later \in Nat,
           i.from <= at, at <= later
    PROVE  \/ Resolved(i, s, by, later) = Resolved(i, s, by, at)
           \/ /\ i.id # None /\ Resolved(i, s, by, at).item.id = i.id
              /\ i.until <= later \/ s.cut <= later
<1> DEFINE until == IF i.until < s.cut THEN i.until ELSE s.cut
           ended == [i EXCEPT !.until = until]
<1>1. i.from \in Nat /\ i.until \in Nat /\ s.cut \in Nat
  BY NatTimes DEF Items, Subs
<1>2. until \in Nat /\ (until = i.until \/ until = s.cut)
  BY <1>1
<1>3. ASSUME NEW t
      PROVE  Resolved(i, s, by, t) =
               [item |-> IF i.id # None /\ i.from <= t /\ t < until THEN [i EXCEPT !.until = until] ELSE NoItem,
                override |-> by]
  BY DEF Resolved
<1>4. ended.id = i.id
  BY DEF Items
<1> HIDE DEF until, ended
<1>5. CASE i.id # None /\ i.from <= at /\ at < until
  <2>1. CASE later < until
    <3>1. i.from <= later
      BY <1>1
    <3> QED
      BY <1>3, <1>5, <2>1, <3>1
  <2>2. CASE ~(later < until)
    <3>1. until <= later
      BY <1>2, <2>2
    <3>2. Resolved(i, s, by, at).item = ended
      BY <1>3, <1>5 DEF ended
    <3>3. Resolved(i, s, by, at).item.id = i.id
      BY <1>4, <3>2
    <3> QED
      BY <1>2, <1>5, <3>1, <3>3
  <2> QED
    BY <2>1, <2>2
<1>6. CASE ~(i.id # None /\ i.from <= at /\ at < until)
  <2>1. ~(i.id # None /\ i.from <= later /\ later < until)
    BY <1>1, <1>2, <1>6
  <2> QED
    BY <1>3, <1>6, <2>1
<1> QED
  BY <1>5, <1>6

\* What the resolution of w reads is the same.
SameView(w) ==
    /\ item'[w] = item[w] /\ override'[w] = override[w]
    /\ item[w].id # None => sub'[item[w].sub] = sub[item[w].sub]

LEMMA SameResolved ==
    ASSUME NEW w, SameView(w), NEW at
    PROVE  Resolved(item'[w], sub'[item'[w].sub], override'[w], at)
             = Resolved(item[w], sub[item[w].sub], override[w], at)
  BY DEF SameView, Resolved

\* Good things stay good as time passes, as long as what they rest on does.
LEMMA GoodStays ==
    ASSUME Kept, Timely, Titles, NEW w \in Workspaces, Good(w), SameView(w), want'[w] = want[w],
           now' \in Nat, now <= now'
    PROVE  Good(w)'
<1> DEFINE i == item[w]
           s == sub[item[w].sub]
           by == override[w]
<1>1. i \in Items /\ i.sub \in Subscriptions /\ s \in Subs
  BY SubsTyped DEF Kept
<1>2. now \in Nat /\ i.from <= now
  BY NatTimes DEF Kept, TypeOK, Timely
<1>3. i.until \in Nat /\ s.cut \in Nat
  BY <1>1, NatTimes DEF Items, Subs
<1>4. Entitled(w, now) = Resolved(i, s, by, now)
  BY DEF Entitled
<1>5. Entitled(w, now)' = Resolved(i, s, by, now')
  BY SameResolved DEF Entitled
<1>6. Over(w) <=> /\ i.id # None /\ want[w].goal.item.id = i.id
                  /\ i.until <= now \/ s.cut <= now
  BY DEF Over
<1>7. i.id # None => sub'[item[w].sub] = s
  BY DEF SameView
<1>8. Over(w)' <=> /\ i.id # None /\ want[w].goal.item.id = i.id
                   /\ i.until <= now' \/ s.cut <= now'
  BY <1>7 DEF Over, SameView
<1> HIDE DEF i, s, by
<1>9. CASE Over(w)
  BY <1>2, <1>3, <1>6, <1>8, <1>9 DEF Good
<1>10. CASE want[w].goal = Entitled(w, now)
  <2>1. CASE Resolved(i, s, by, now') = Resolved(i, s, by, now)
    BY <1>4, <1>5, <1>10, <2>1 DEF Good
  <2>2. CASE i.id # None /\ Resolved(i, s, by, now).item.id = i.id /\ (i.until <= now' \/ s.cut <= now')
    BY <1>4, <1>8, <1>10, <2>2 DEF Good
  <2> QED
    BY <1>1, <1>2, <2>1, <2>2, ResolvedLater
<1> QED
  BY <1>9, <1>10 DEF Good

-----------------------------------------------------------------------------
(* Steps that change nothing of what is resolved                           *)

\* A step that changes nothing of what is resolved: jobs and runs go on, and the time.
HoldsOn(y, k) ==
    /\ Owner(y, k) /\ run[y].pc \notin Before
    /\ \A w \in Workspaces : Refreshable(run[y], w) => Refreshable(run'[y], w)
FliesOn(y) ==
    /\ want[run'[y].w].goal = run'[y].had
    /\ \A z \in Runs : run'[z].w = run'[y].w => z = y
    /\ \/ Current(y)'
       \/ Solo(y) /\ run'[y].w = run[y].w /\ (Current(y) => Current(y)')
RunPasses(y) ==
    /\ Framed(run'[y]) /\ run'[y].at <= now'
    /\ \A k \in Jobs : Owner(y, k)' => run'[y].pc \in Before \/ HoldsOn(y, k)
    /\ Solo(y)' => FliesOn(y)
Passes ==
    /\ UNCHANGED <<facts, want, sound>> /\ now' \in Nat /\ now <= now'
    /\ \A k \in Jobs :
         /\ job'[k].hit = job[k].hit
         /\ job[k].st = "dropped" => job'[k].st = "dropped"
         /\ job[k].st \in Open => \/ job'[k].st \in Open \cup {"dropped"}
                                  \/ \E y \in Runs : Owner(y, k) /\ run[y].pc = "settle"
    /\ \A k \in Intents : job'[k].st \in {"processing", "failed"} => Order[k].at <= now'
    /\ \A y \in Runs : RunPasses(y)

LEMMA OpenIsNot == "dropped" \notin Open /\ "absent" \notin Open /\ Before \cap Flying = {} /\ "settle" \notin Before \cup Flying
  BY DEF Open, Before, Flying

\* What a job owes it owes still, unless it is given up.
LEMMA PassesOwes ==
    ASSUME Owing, Passes, NEW k \in Jobs, NEW w \in Workspaces, Owes(k, w), job'[k].st # "dropped"
    PROVE  Owes(k, w)'
<1>1. Serves(k, w)'
  <2>1. job'[k].hit = job[k].hit /\ item' = item
    BY DEF Passes, RunPasses, facts
  <2> QED
    BY <2>1 DEF Serves, Owes, Active
<1>2. job'[k].st \in Open
  <2>1. ASSUME NEW y \in Runs, Owner(y, k), run[y].pc = "settle"
        PROVE  FALSE
    <3>1. run[y].todo = {} /\ run[y].w = None
      BY <2>1 DEF Owing, Framed, Flying
    <3>2. Refreshable(run[y], w)
      BY <2>1 DEF Owes, Before
    <3> QED
      BY <3>1, <3>2, Constants DEF Refreshable
  <2> QED
    BY <2>1 DEF Passes, RunPasses, Owes
<1>3. ASSUME NEW y \in Runs, Owner(y, k)'
      PROVE  run'[y].pc \in Before \/ Refreshable(run'[y], w)
  <2>1. run'[y].pc \in Before \/ HoldsOn(y, k)
    BY <1>3 DEF Passes, RunPasses
  <2> QED
    BY <2>1 DEF HoldsOn, Owes
<1> QED
  BY <1>1, <1>2, <1>3 DEF Owes, Refreshable

LEMMA PassesKeeps ==
    ASSUME Owing, Kept', Passes
    PROVE  Owing'
<1>0. UNCHANGED <<sub, item, override, want, sound, moved>>
  BY DEF Passes, RunPasses, facts
<1>l. Lent' = Lent /\ Assigned' = Assigned
  BY <1>0 DEF Lent, Assigned
<1>1. \A w \in Workspaces : SameView(w) /\ want'[w] = want[w]
  BY <1>0 DEF SameView
<1>2. Clean' => Clean
  BY DEF Clean, Passes
<1>3. \A x \in Runs : Framed(run'[x])
  BY DEF Passes, RunPasses
<1>4. Timely'
  <2>0. now \in Nat /\ now' \in Nat /\ now <= now'
    BY NatTimes DEF Passes, RunPasses, Owing, Kept, TypeOK
  <2>1. \A w \in Workspaces : item[w].from \in Nat
    BY NatTimes, SubsTyped DEF Owing, Kept, Items
  <2>2. \A w \in Workspaces : item[w].from <= now'
    BY <2>0, <2>1 DEF Owing, Timely
  <2>3. \A x \in Runs : run'[x].at <= now'
    BY DEF Passes, RunPasses
  <2>4. \A k \in Intents : job'[k].st \in {"processing", "failed"} => Order[k].at <= now'
    BY DEF Passes, RunPasses
  <2> QED
    BY <1>0, <2>2, <2>3, <2>4 DEF Timely
<1>5. Titles'
  <2>1. \A i \in Intents : job'[i].hit = job[i].hit
    BY Constants DEF Passes, RunPasses
  <2> QED
    BY <1>0, <1>l, <2>1 DEF Owing, Titles
<1>6. \A w \in Workspaces : Good(w) => Good(w)'
  <2>1. Kept /\ Timely /\ Titles /\ now' \in Nat /\ now <= now'
    BY DEF Owing, Passes
  <2> QED
    BY <1>1, <2>1, GoodStays
<1>7. ASSUME Clean', NEW k \in Jobs, NEW w \in Workspaces, Owes(k, w)
      PROVE  Owes(k, w)'
  BY <1>7, PassesOwes DEF Clean
<1>8. Owed'
  <2> SUFFICES ASSUME Clean', NEW w \in Workspaces
               PROVE  w \in Lent' \/ sound'[w] = "no" \/ Good(w)' \/ \E j \in Jobs : Owes(j, w)'
    BY DEF Owed
  <2>1. w \in Lent \/ sound[w] = "no" \/ Good(w) \/ \E j \in Jobs : Owes(j, w)
    BY <1>2 DEF Owing, Owed
  <2> QED
    BY <1>0, <1>l, <1>6, <1>7, <2>1
<1>9. Flights'
  <2>1. \A y \in Runs : Solo(y)' => FliesOn(y)
    BY DEF Passes, RunPasses
  <2>2. \A x \in Runs : Solo(x)' => want'[run'[x].w].goal = run'[x].had
    BY <1>0, <2>1 DEF FliesOn
  <2>3. \A x, y \in Runs : Solo(x)' /\ run'[y].w = run'[x].w => x = y
    BY <2>1 DEF FliesOn
  <2>4. ASSUME Clean', NEW x \in Runs, Solo(x)'
        PROVE  run'[x].w \in Lent' \/ Current(x)' \/ OwedElsewhere(x)'
    <3>1. CASE Current(x)'
      BY <3>1
    <3>2. CASE Solo(x) /\ run'[x].w = run[x].w /\ ~Current(x) /\ run[x].w \notin Lent
      <4>1. PICK j \in Jobs : Owes(j, run[x].w) /\ ~Owner(x, j)
        BY <1>2, <2>4, <3>2 DEF Owing, Flights, OwedElsewhere
      <4>2. PICK w \in Workspaces : w = run[x].w
        BY <3>2, RunHas DEF Owing, Kept, TypeOK, Bound, Solo, Flying
      <4>3. Owes(j, w)'
        BY <1>7, <2>4, <4>1, <4>2
      <4>4. ~Owner(x, j)'
        <5>1. run'[x].pc \notin Before
          BY <2>4, OpenIsNot DEF Solo
        <5> QED
          BY <4>1, <5>1 DEF Passes, RunPasses, HoldsOn
      <4> QED
        BY <3>2, <4>2, <4>3, <4>4 DEF OwedElsewhere
    <3> QED
      BY <1>l, <2>1, <2>4, <3>1, <3>2 DEF FliesOn
  <2> QED
    BY <2>2, <2>3, <2>4 DEF Flights
<1> QED
  BY <1>3, <1>4, <1>5, <1>8, <1>9 DEF Owing

LEMMA NoRunFields == NoRun.pc = "idle" /\ NoRun.job = None /\ NoRun.todo = {} /\ NoRun.w = None /\ NoRun.at = 0
  BY DEF NoRun

\* A run that has left its work, or taken up another, promises nothing yet.
LEMMA LeftPasses ==
    ASSUME NEW y \in Runs, now' \in Nat, run'[y].pc \in Before \cup {"idle"}, run'[y].todo = {}, run'[y].w = None,
           run'[y].at \in Nat, run'[y].at <= now', run'[y].pc = "idle" => run'[y].job = None
    PROVE  RunPasses(y)
<1>1. ~Solo(y)' /\ Framed(run'[y])
  BY DEF Solo, Framed, Flying, Before
<1>2. \A k \in Jobs : Owner(y, k)' => run'[y].pc \in Before
  BY Constants DEF Owner
<1> QED
  BY <1>1, <1>2 DEF RunPasses

\* One that stays as it is goes on as it did.
LEMMA StillPasses ==
    ASSUME Owing, UNCHANGED <<facts, want>>, now' \in Nat, now <= now', NEW y \in Runs, run'[y] = run[y],
           \A z \in Runs : run'[z].w = run[z].w \/ run'[z].w = None \/ run'[z].w # run[y].w,
           \A k \in Jobs : Owner(y, k)' => Owner(y, k)
    PROVE  RunPasses(y)
<1>1. Framed(run'[y]) /\ run'[y].at <= now'
  <2>1. Framed(run[y]) /\ run[y].at <= now /\ now \in Nat /\ run[y].at \in Nat
    BY NatTimes DEF Owing, Timely, Kept, TypeOK, Framed
  <2> QED
    BY <2>1
<1>2. \A k \in Jobs : Owner(y, k)' => run'[y].pc \in Before \/ HoldsOn(y, k)
  BY DEF HoldsOn, Refreshable
<1>3. Solo(y)' => FliesOn(y)
  <2> SUFFICES ASSUME Solo(y)'
               PROVE  FliesOn(y)
    OBVIOUS
  <2>1. Solo(y)
    BY DEF Solo
  <2>2. run[y].w # None
    BY <2>1 DEF Owing, Framed, Solo
  <2>3. want'[run'[y].w].goal = run'[y].had
    BY <2>1 DEF Owing, Flights
  <2>4. \A z \in Runs : run'[z].w = run'[y].w => z = y
    BY <2>1, <2>2 DEF Owing, Flights
  <2>5. Current(y) => Current(y)'
    BY DEF Current, facts
  <2> QED
    BY <2>1, <2>3, <2>4, <2>5 DEF FliesOn
<1> QED
  BY <1>1, <1>2, <1>3 DEF RunPasses

LEMMA JobsSame ==
    ASSUME UNCHANGED job, Owing, now' \in Nat, now <= now'
    PROVE  /\ \A k \in Jobs :
                /\ job'[k].hit = job[k].hit
                /\ job[k].st = "dropped" => job'[k].st = "dropped"
                /\ job[k].st \in Open => job'[k].st \in Open \cup {"dropped"}
           /\ \A k \in Intents : job'[k].st \in {"processing", "failed"} => Order[k].at <= now'
<1>1. \A k \in Intents : Order[k].at \in Nat
  BY Constants, NatTimes
<1>2. now \in Nat
  BY NatTimes DEF Owing, Kept, TypeOK
<1> QED
  BY <1>1, <1>2 DEF Owing, Timely

LEMMA TimeNow == ASSUME Owing PROVE now \in Nat /\ now <= now /\ 0 <= now
  BY NatTimes DEF Owing, Kept, TypeOK

-----------------------------------------------------------------------------
(* The steps of jobs                                                       *)

LEMMA JobStepPasses ==
    ASSUME Owing, NEW j \in Jobs, Arrive(j) \/ Backoff(j) \/ Expire(j)
    PROVE  Passes
<1>1. UNCHANGED <<facts, want, sound, run>> /\ now' = now
  BY DEF Arrive, Backoff, Expire, world
<1>2. job \in [Jobs -> JobStates]
  BY DEF Owing, Kept, TypeOK
<1>3. /\ \A k \in Jobs : job'[k].hit = job[k].hit
      /\ \A k \in Jobs : job'[k].st = job[k].st \/ (job[k].st = "absent" /\ job'[k].st = "pending")
      /\ \A k \in Jobs : job'[k].token = job[k].token
  BY <1>2 DEF Arrive, Backoff, Expire, JobStates
<1>4. now' \in Nat /\ now <= now'
  BY <1>1, TimeNow
<1>5. \A k \in Intents : job'[k].st \in {"processing", "failed"} => Order[k].at <= now'
  BY <1>1, <1>3, Constants DEF Owing, Timely
<1>6. \A y \in Runs, k \in Jobs : Owner(y, k)' => Owner(y, k)
  BY <1>1, <1>3 DEF Owner, Owns
<1>7. \A y \in Runs : RunPasses(y)
  BY <1>1, <1>4, <1>6, StillPasses
<1> QED
  BY <1>1, <1>3, <1>4, <1>5, <1>7 DEF Passes, Open

\* A run that ends is idle; the job it closes is its own.
LEMMA ClosePasses ==
    ASSUME Owing, NEW x \in Runs, Fail(x) \/ Settle(x)
    PROVE  Passes
<1> DEFINE j == run[x].job
<1>1. UNCHANGED <<facts, want, sound>> /\ now' = now /\ run' = [run EXCEPT ![x] = NoRun]
  BY DEF Fail, Settle, world
<1>2. job \in [Jobs -> JobStates] /\ run \in [Runs -> RunStates] /\ j \in Jobs
  BY DEF Owing, Kept, TypeOK, Fail, Settle, Bound, At
<1>3. now' \in Nat /\ now <= now' /\ 0 <= now'
  BY <1>1, TimeNow
<1>4. run'[x] = NoRun /\ \A y \in Runs : y # x => run'[y] = run[y]
  BY <1>1, <1>2
<1>5. ASSUME NEW st, NEW due, job' = Ended(j, st, due)
      PROVE  /\ job'[j].st = st /\ \A k \in Jobs : job'[k].hit = job[k].hit /\ job'[k].token = job[k].token
             /\ \A k \in Jobs : k # j => job'[k] = job[k]
  BY <1>2, <1>5 DEF Ended, JobStates
<1>6. \/ UNCHANGED job
      \/ /\ Owns(x)
         /\ \/ At(x, "settle") /\ \E st \in {"stale", "processed"} : job' = Ended(j, st, "now")
            \/ \E st \in {"failed", "dropped"}, due \in {"later", "now"} : job' = Ended(j, st, due)
  BY DEF Fail, Settle
<1>7. /\ \A k \in Jobs : job'[k].hit = job[k].hit /\ job'[k].token = job[k].token /\ (k # j => job'[k] = job[k])
      /\ \/ job'[j] = job[j]
         \/ Owns(x) /\ job'[j].st \in {"failed", "dropped"}
         \/ Owns(x) /\ At(x, "settle") /\ job'[j].st \in {"stale", "processed"}
  BY <1>5, <1>6
<1> HIDE DEF j
<1>8. \A y \in Runs, k \in Jobs : y # x /\ Owner(y, k)' => Owner(y, k)
  <2> SUFFICES ASSUME NEW y \in Runs, NEW k \in Jobs, y # x, Owner(y, k)'
               PROVE  Owner(y, k)
    OBVIOUS
  <2>1. run'[y] = run[y] /\ run[y].job = k /\ job'[k].st = "processing" /\ job'[k].token = run[y].token
    BY <1>4 DEF Owner, Owns
  <2>2. job'[k] = job[k]
    BY <1>7, <2>1
  <2> QED
    BY <2>1, <2>2 DEF Owner, Owns
<1>9. \A y \in Runs : RunPasses(y)
  <2>1. RunPasses(x)
    BY <1>3, <1>4, NoRunFields, LeftPasses
  <2>2. \A z \in Runs : run'[z].w = run[z].w \/ run'[z].w = None
    BY <1>4, NoRunFields
  <2> QED
    BY <1>1, <1>3, <1>4, <1>8, <2>1, <2>2, StillPasses
<1>10. \A k \in Jobs : /\ job[k].st = "dropped" => job'[k].st = "dropped"
                       /\ job[k].st \in Open => \/ job'[k].st \in Open \cup {"dropped"}
                                                \/ \E y \in Runs : Owner(y, k) /\ run[y].pc = "settle"
  <2> SUFFICES ASSUME NEW k \in Jobs
               PROVE  /\ job[k].st = "dropped" => job'[k].st = "dropped"
                      /\ job[k].st \in Open => \/ job'[k].st \in Open \cup {"dropped"}
                                               \/ \E y \in Runs : Owner(y, k) /\ run[y].pc = "settle"
    OBVIOUS
  <2>1. CASE job'[k] = job[k]
    BY <2>1
  <2>2. CASE job'[k] # job[k]
    <3>1. k = j /\ Owns(x) /\ job[k].st = "processing"
      BY <1>7, <2>2 DEF Owns, j
    <3>2. Owner(x, k)
      BY <3>1 DEF Owner, j
    <3> QED
      BY <1>7, <2>2, <3>1, <3>2 DEF At, Open
  <2> QED
    BY <2>1, <2>2
<1>11. \A k \in Intents : job'[k].st \in {"processing", "failed"} => Order[k].at <= now'
  <2> SUFFICES ASSUME NEW k \in Intents, job'[k].st \in {"processing", "failed"}
               PROVE  Order[k].at <= now'
    OBVIOUS
  <2>1. job[k].st \in {"processing", "failed"}
    BY <1>7, Constants DEF Owns, j
  <2> QED
    BY <1>1, <2>1 DEF Owing, Timely
<1> QED
  BY <1>1, <1>3, <1>7, <1>9, <1>10, <1>11 DEF Passes

\* A claim: the run that takes the job has nothing behind it.
LEMMA ClaimedPasses ==
    ASSUME Owing, NEW j \in Jobs, NEW t, Claimable(j), t \in Fresh(j), Claimed(j, t),
           \/ UNCHANGED run
           \/ \E x \in Runs, pc \in {"apply", "drop"}, at \in Nat : at <= now /\ At(x, "idle") /\ Takes(x, j, t, pc, at)
    PROVE  Passes
<1>1. UNCHANGED <<facts, want, sound>> /\ now' = now
  BY DEF Claimed, world
<1>2. job \in [Jobs -> JobStates] /\ run \in [Runs -> RunStates]
  BY DEF Owing, Kept, TypeOK
<1>3. now' \in Nat /\ now <= now' /\ 0 <= now'
  BY <1>1, TimeNow
<1>4. /\ \A k \in Jobs : job'[k].hit = job[k].hit /\ (k # j => job'[k] = job[k])
      /\ job'[j].st = "processing" /\ job'[j].token = t
  BY <1>2 DEF Claimed, JobStates
<1>5. job[j].st \in Open /\ job[j].st # "dropped"
  BY DEF Claimable, Open
<1>6. j \in Intents => Order[j].at <= now
  BY DEF Claimable, Owing, Timely
<1>7. \A k \in Intents : job'[k].st \in {"processing", "failed"} => Order[k].at <= now'
  BY <1>1, <1>4, <1>6, Constants DEF Owing, Timely
<1>8. \A y \in Runs : run[y].job = j => run[y].token # t
  BY DEF Fresh
<1>9. \A y \in Runs : \/ run'[y] = run[y]
                      \/ /\ run'[y].pc \in Before /\ run'[y].todo = {} /\ run'[y].w = None
                         /\ run'[y].at \in Nat /\ run'[y].at <= now'
  <2>1. ASSUME NEW x \in Runs, NEW pc \in {"apply", "drop"}, NEW at \in Nat, at <= now, Takes(x, j, t, pc, at), NEW y \in Runs
        PROVE  \/ run'[y] = run[y]
               \/ /\ run'[y].pc \in Before /\ run'[y].todo = {} /\ run'[y].w = None
                  /\ run'[y].at \in Nat /\ run'[y].at <= now'
    <3> DEFINE r == [NoRun EXCEPT !.pc = pc, !.job = j, !.token = t, !.at = at]
    <3>1. r.pc = pc /\ r.todo = {} /\ r.w = None /\ r.at = at
      BY DEF NoRun
    <3>2. run' = [run EXCEPT ![x] = r]
      BY <2>1 DEF Takes
    <3> HIDE DEF r
    <3>3. run'[y] = IF y = x THEN r ELSE run[y]
      BY <1>2, <3>2
    <3> QED
      BY <1>1, <2>1, <3>1, <3>3 DEF Before
  <2> QED
    BY <2>1
<1>10. \A y \in Runs : run'[y].w = run[y].w \/ run'[y].w = None
  BY <1>9
<1>11. ASSUME NEW y \in Runs, run'[y] = run[y], NEW k \in Jobs, Owner(y, k)'
       PROVE  Owner(y, k)
  <2>1. run[y].job = k /\ job'[k].st = "processing" /\ job'[k].token = run[y].token
    BY <1>11 DEF Owner, Owns
  <2>2. k # j
    BY <1>4, <1>8, <2>1
  <2> QED
    BY <1>4, <2>1, <2>2 DEF Owner, Owns
<1>12. \A y \in Runs : RunPasses(y)
  <2> SUFFICES ASSUME NEW y \in Runs
               PROVE  RunPasses(y)
    OBVIOUS
  <2>1. CASE run'[y] = run[y]
    BY <1>1, <1>3, <1>10, <1>11, <2>1, StillPasses
  <2>2. CASE /\ run'[y].pc \in Before /\ run'[y].todo = {} /\ run'[y].w = None
             /\ run'[y].at \in Nat /\ run'[y].at <= now'
    BY <1>3, <2>2, LeftPasses DEF Before
  <2> QED
    BY <1>9, <2>1, <2>2
<1> QED
  BY <1>1, <1>3, <1>4, <1>5, <1>7, <1>12 DEF Passes, Open

LEMMA ClaimPasses ==
    ASSUME Owing, NEW x \in Runs, ClaimEvent(x) \/ ClaimIntent(x) \/ ClaimLost(x)
    PROVE  Passes
<1>0. Events \subseteq Jobs /\ Intents \subseteq Jobs /\ TypeOK /\ now \in Nat /\ now <= now
  BY Constants, TimeNow DEF Owing, Kept
<1>1. CASE ClaimEvent(x)
  <2>1. PICK n \in Candidates(Events) : \E t \in Fresh(order[n]) :
           Claimed(order[n], t) /\ Takes(x, order[n], t, "apply", now)
    BY <1>1 DEF ClaimEvent
  <2>2. order[n] \in Jobs /\ Claimable(order[n])
    BY <1>0, OrderedJobs DEF Candidates
  <2> QED
    BY <1>0, <1>1, <2>1, <2>2, ClaimedPasses DEF ClaimEvent
<1>2. CASE ClaimIntent(x)
  <2>1. PICK n \in Candidates(Intents) : \E t \in Fresh(order[n]) :
           /\ Claimed(order[n], t)
           /\ Takes(x, order[n], t, IF job[order[n]].tries >= MaxAttempts THEN "drop" ELSE "apply", Order[order[n]].at)
    BY <1>2 DEF ClaimIntent
  <2>2. order[n] \in Intents /\ order[n] \in Jobs /\ Claimable(order[n])
    BY <1>0, OrderedJobs DEF Candidates
  <2>3. Order[order[n]].at \in Nat /\ Order[order[n]].at <= now
    BY <2>2, Constants, NatTimes DEF Claimable, Owing, Timely
  <2> QED
    BY <1>0, <1>2, <2>1, <2>2, <2>3, ClaimedPasses DEF ClaimIntent
<1>3. CASE ClaimLost(x)
  <2>1. PICK n \in Candidates(Events) \cup Candidates(Intents) : \E t \in Fresh(order[n]) : Claimed(order[n], t)
    BY <1>3 DEF ClaimLost
  <2>2. order[n] \in Jobs /\ Claimable(order[n])
    BY <1>0, OrderedJobs DEF Candidates
  <2> QED
    BY <1>3, <2>1, <2>2, ClaimedPasses DEF ClaimLost
<1> QED
  BY <1>1, <1>2, <1>3

-----------------------------------------------------------------------------
(* The steps of runs                                                       *)

\* A step of the run x alone, which leaves the jobs and what is resolved alone.
Alone(x) == UNCHANGED <<job, facts, want, sound, now>> /\ run' \in [Runs -> RunStates] /\ Others(x)

LEMMA AlonePasses ==
    ASSUME Owing, NEW x \in Runs, Alone(x), RunPasses(x), run'[x].w = run[x].w \/ run'[x].w = None
    PROVE  Passes
<1>1. now' \in Nat /\ now <= now'
  BY TimeNow DEF Alone
<1>2. \A y \in Runs : y # x => run'[y] = run[y]
  BY DEF Alone, Others
<1>3. \A y \in Runs : y # x => \A k \in Jobs : Owner(y, k)' => Owner(y, k)
  BY <1>2 DEF Owner, Owns, Alone
<1>4. \A z \in Runs : run'[z].w = run[z].w \/ run'[z].w = None
  BY <1>2
<1>5. \A y \in Runs : y # x => RunPasses(y)
  BY <1>1, <1>2, <1>3, <1>4, StillPasses DEF Alone
<1> QED
  BY <1>1, <1>5, JobsSame DEF Passes, Alone

LEMMA LeavesFields ==
    ASSUME Owing, NEW x \in Runs, NEW pc \in {"retry", "drop"}, run[x].job \in Jobs, Leaves(x, pc), now' = now
    PROVE  RunPasses(x) /\ run'[x].w = None /\ Others(x) /\ run' \in [Runs -> RunStates]
<1> DEFINE r == [NoRun EXCEPT !.pc = pc, !.job = run[x].job, !.token = run[x].token]
<1>1. r.pc = pc /\ r.w = None /\ r.todo = {} /\ r.at = 0
  BY DEF NoRun
<1>2. run' = [run EXCEPT ![x] = r]
  BY DEF Leaves
<1> HIDE DEF r
<1>3. run'[x] = r /\ Others(x) /\ run' \in [Runs -> RunStates]
  BY <1>2, LeavesMoves DEF Owing, Kept, TypeOK, RunsTyped
<1>4. now' \in Nat /\ 0 <= now'
  BY TimeNow
<1> QED
  BY <1>1, <1>3, <1>4, LeftPasses DEF Before

LEMMA OnwardFields ==
    ASSUME NEW r \in RunStates, r.pc \in Working
    PROVE  LET s == Onward(r) IN
           /\ s.pc \notin Flying /\ s.w = None /\ s.todo = r.todo /\ s.job = r.job
           /\ s.job # None => s.token = r.token
           /\ s.at = r.at \/ s.at = 0
           /\ s.pc # "row" => r.todo = {}
<1> DEFINE rest == [NoRun EXCEPT !.job = r.job, !.token = r.token, !.at = r.at, !.out = r.out, !.todo = r.todo]
<1>1. rest.job = r.job /\ rest.token = r.token /\ rest.at = r.at /\ rest.todo = r.todo /\ rest.w = None
  BY DEF NoRun
<1>2. \A pc : LET s == [rest EXCEPT !.pc = pc] IN
        s.pc = pc /\ s.job = rest.job /\ s.token = rest.token /\ s.at = rest.at /\ s.todo = rest.todo /\ s.w = rest.w
  BY DEF NoRun
<1>3. Onward(r) = IF r.todo # {} THEN [rest EXCEPT !.pc = "row"]
                  ELSE IF r.job # None THEN [rest EXCEPT !.pc = "settle"] ELSE NoRun
  BY DEF Onward
<1> HIDE DEF rest
<1>4. CASE r.todo # {}
  BY <1>1, <1>2, <1>3, <1>4 DEF Flying
<1>5. CASE r.todo = {} /\ r.job # None
  BY <1>1, <1>2, <1>3, <1>5 DEF Flying
<1>6. CASE r.todo = {} /\ r.job = None
  BY <1>3, <1>6, NoRunFields DEF Flying
<1> QED
  BY <1>4, <1>5, <1>6

LEMMA GivesUpPasses ==
    ASSUME Owing, NEW x \in Runs, run[x].pc \in Working \cup {"apply"}, NEW pc \in {"retry", "drop"}, GivesUp(x, pc),
           UNCHANGED <<job, facts, want, sound, now>>
    PROVE  Passes
<1>0. TypeOK /\ run[x] \in RunStates /\ run[x].job \in Jobs \cup {None} /\ Bound(run[x])
  BY RunHas DEF Owing, Kept
<1>1. CASE run[x].job # None
  <2>1. Leaves(x, pc)
    BY <1>1 DEF GivesUp
  <2> QED
    BY <1>0, <1>1, <2>1, LeavesFields, AlonePasses DEF Alone
<1>2. CASE run[x].job = None
  <2>1. run' = [run EXCEPT ![x] = Onward(run[x])] /\ run[x].pc \in Working
    BY <1>0, <1>2, Constants DEF GivesUp, Bound
  <2>2. RunsTyped /\ Others(x) /\ run'[x] = Onward(run[x])
    BY <1>0, <2>1, OnwardMoves DEF TypeOK
  <2>3. /\ run'[x].pc \notin Flying /\ run'[x].w = None /\ run'[x].todo = run[x].todo /\ run'[x].job = None
        /\ run'[x].at = run[x].at \/ run'[x].at = 0
        /\ run'[x].pc # "row" => run'[x].todo = {}
    BY <1>0, <1>2, <2>1, <2>2, OnwardFields
  <2>4. run[x].at \in Nat /\ run[x].at <= now /\ 0 <= now
    BY TimeNow DEF Owing, Timely, Framed
  <2>5. Framed(run'[x]) /\ run'[x].at <= now' /\ ~Solo(x)'
    BY <2>3, <2>4 DEF Framed, Solo
  <2>6. \A k \in Jobs : ~Owner(x, k)'
    BY <2>3, Constants DEF Owner
  <2>7. RunPasses(x)
    BY <2>5, <2>6 DEF RunPasses
  <2> QED
    BY <2>2, <2>3, <2>7, AlonePasses DEF Alone, RunsTyped
<1> QED
  BY <1>1, <1>2

LEMMA ReadRowPasses ==
    ASSUME Owing, NEW x \in Runs, ReadRow(x)
    PROVE  Passes
<1> DEFINE w == CHOOSE w \in run[x].todo : TRUE
           r == [run[x] EXCEPT !.pc = "items", !.w = w, !.todo = run[x].todo \ {w}, !.saw = want[w].id,
                               !.had = want[w].goal, !.solo = IF Refreshing(w) = {} THEN "yes" ELSE "no"]
           q(y) == [run[y] EXCEPT !.solo = "no"]
<1>1. TypeOK /\ run[x] \in RunStates /\ Bound(run[x]) /\ run[x].pc = "row" /\ run[x].todo \subseteq Workspaces
  BY RunHas DEF Owing, Kept, ReadRow, At
<1>2. w \in run[x].todo /\ w \in Workspaces /\ w # None
  BY <1>1, Constants DEF Bound
<1>3. run' = [y \in Runs |-> IF y = x THEN r ELSE IF y \in Refreshing(w) THEN q(y) ELSE run[y]]
  BY DEF ReadRow
<1>4. UNCHANGED <<job, facts, want, sound>> /\ now' = now
  BY DEF ReadRow, world
<1>5. /\ r.pc = "items" /\ r.w = w /\ r.todo = run[x].todo \ {w} /\ r.had = want[w].goal /\ r.job = run[x].job
      /\ r.token = run[x].token /\ r.at = run[x].at /\ r.solo = IF Refreshing(w) = {} THEN "yes" ELSE "no"
  BY <1>1 DEF RunStates
<1>6. \A y \in Runs : /\ q(y).pc = run[y].pc /\ q(y).w = run[y].w /\ q(y).todo = run[y].todo /\ q(y).job = run[y].job
                      /\ q(y).token = run[y].token /\ q(y).at = run[y].at /\ q(y).solo = "no"
  BY <1>1 DEF TypeOK, RunStates
<1>7. now' \in Nat /\ now <= now'
  BY <1>4, TimeNow
<1> HIDE DEF w, r, q
<1>8. run'[x] = r /\ \A y \in Runs : y # x => run'[y] = (IF run[y].w = w THEN q(y) ELSE run[y])
  BY <1>3 DEF Refreshing
<1>9. run[x].w = None
  BY <1>1 DEF Owing, Framed, Flying
<1>10. RunPasses(x)
  <2>1. Framed(run'[x]) /\ run'[x].at <= now'
    BY <1>2, <1>4, <1>5, <1>8 DEF Owing, Timely, Framed, Flying
  <2>2. ASSUME NEW k \in Jobs, Owner(x, k)'
        PROVE  HoldsOn(x, k)
    <3>1. Owner(x, k)
      BY <1>4, <1>5, <1>8, <2>2 DEF Owner, Owns
    <3>2. \A v \in Workspaces : Refreshable(run[x], v) => Refreshable(run'[x], v)
      BY <1>5, <1>8, <1>9, Constants DEF Refreshable
    <3> QED
      BY <1>1, <3>1, <3>2 DEF HoldsOn, Before
  <2>3. ASSUME Solo(x)'
        PROVE  FliesOn(x)
    <3>1. Refreshing(w) = {}
      BY <1>5, <1>8, <2>3 DEF Solo
    <3>2. \A z \in Runs : run'[z].w = run'[x].w => z = x
      BY <1>5, <1>6, <1>8, <3>1 DEF Refreshing
    <3>3. Current(x)'
      BY <1>5, <1>8 DEF Current
    <3> QED
      BY <1>5, <1>8, <3>2, <3>3 DEF FliesOn
  <2> QED
    BY <2>1, <2>2, <2>3 DEF RunPasses
<1>11. ASSUME NEW y \in Runs, y # x, run[y].w = w
       PROVE  RunPasses(y)
  <2>1. run'[y] = q(y)
    BY <1>8, <1>11
  <2>2. Framed(run'[y]) /\ run'[y].at <= now' /\ ~Solo(y)'
    BY <1>4, <1>6, <2>1 DEF Owing, Timely, Framed, Solo
  <2>3. \A k \in Jobs : Owner(y, k)' => Owner(y, k)
    BY <1>4, <1>6, <2>1 DEF Owner, Owns
  <2>4. run[y].pc \notin Before
    BY <1>2, <1>11 DEF Owing, Framed, Flying, Before
  <2>5. \A v \in Workspaces : Refreshable(run[y], v) => Refreshable(run'[y], v)
    BY <1>6, <2>1 DEF Refreshable
  <2> QED
    BY <2>2, <2>3, <2>4, <2>5 DEF RunPasses, HoldsOn
<1>12. ASSUME NEW y \in Runs, y # x, run[y].w # w
       PROVE  RunPasses(y)
  <2>1. run'[y] = run[y]
    BY <1>8, <1>12
  <2>2. \A z \in Runs : run'[z].w = run[z].w \/ run'[z].w = None \/ run'[z].w # run[y].w
    BY <1>5, <1>6, <1>8, <1>12
  <2>3. \A k \in Jobs : Owner(y, k)' => Owner(y, k)
    BY <1>4, <2>1 DEF Owner, Owns
  <2> QED
    BY <1>4, <1>7, <2>1, <2>2, <2>3, StillPasses
<1>13. \A y \in Runs : RunPasses(y)
  BY <1>10, <1>11, <1>12
<1> QED
  BY <1>4, <1>7, <1>13, JobsSame DEF Passes

\* A refresh goes on reading, and what it reads is there.
LEMMA ReadsPasses ==
    ASSUME Owing, NEW x \in Runs, NEW r \in RunStates, run' = [run EXCEPT ![x] = r], Bound(r),
           UNCHANGED <<job, facts, want, sound, now>>,
           run[x].pc \in Flying, r.pc \in Flying, r.w = run[x].w, r.todo = run[x].todo, r.job = run[x].job,
           r.token = run[x].token, r.at = run[x].at, r.had = run[x].had, r.solo = run[x].solo,
           Solo(x) => (Current(x) => Current(x)')
    PROVE  Passes
<1>1. run'[x] = r /\ Others(x) /\ run' \in [Runs -> RunStates]
  BY RunBecomes DEF Owing, Kept, RunsTyped
<1>2. \A y \in Runs : run'[y].w = run[y].w
  BY <1>1 DEF Others
<1>3. Framed(run'[x]) /\ run'[x].at <= now'
  BY <1>1, Constants DEF Owing, Timely, Framed, Flying
<1>4. \A k \in Jobs : Owner(x, k)' => HoldsOn(x, k)
  BY <1>1 DEF Owner, Owns, HoldsOn, Flying, Before, Refreshable
<1>5. Solo(x)' => Solo(x)
  BY <1>1 DEF Solo
<1>6. Solo(x) => FliesOn(x)
  <2> SUFFICES ASSUME Solo(x)
               PROVE  FliesOn(x)
    OBVIOUS
  <2>1. want'[run'[x].w].goal = run'[x].had
    BY <1>1 DEF Owing, Flights
  <2>2. \A z \in Runs : run'[z].w = run'[x].w => z = x
    BY <1>2 DEF Owing, Flights
  <2> QED
    BY <1>2, <2>1, <2>2 DEF FliesOn
<1>7. RunPasses(x)
  BY <1>3, <1>4, <1>5, <1>6 DEF RunPasses
<1> QED
  BY <1>1, <1>2, <1>7, AlonePasses DEF Alone

LEMMA ReadItemsPasses ==
    ASSUME Owing, NEW x \in Runs, ReadItems(x)
    PROVE  Passes
<1> DEFINE r == [run[x] EXCEPT !.pc = "sources", !.item = item[run[x].w]]
<1>1. TypeOK /\ run[x] \in RunStates /\ Bound(run[x]) /\ run[x].pc = "items" /\ run[x].w \in Workspaces
      /\ item[run[x].w] \in Items
  BY RunHas, SubsTyped DEF Owing, Kept, ReadItems, At, Bound
<1>2. run' = [run EXCEPT ![x] = r] /\ UNCHANGED <<job, facts, want, sound, now>>
  BY DEF ReadItems, world
<1>3. /\ r \in RunStates /\ r.pc = "sources" /\ r.item = item[run[x].w] /\ r.w = run[x].w /\ r.todo = run[x].todo
      /\ r.job = run[x].job /\ r.token = run[x].token /\ r.at = run[x].at /\ r.had = run[x].had /\ r.solo = run[x].solo
  BY <1>1 DEF RunStates
<1>4. Bound(r)
  BY <1>1, <1>3 DEF Bound
<1> HIDE DEF r
<1>5. run'[x] = r
  BY <1>1, <1>2 DEF TypeOK
<1>6. Current(x)'
  BY <1>2, <1>3, <1>5 DEF Current, facts
<1> QED
  BY <1>1, <1>2, <1>3, <1>4, <1>6, ReadsPasses DEF Flying

LEMMA SweepPasses ==
    ASSUME Owing, NEW x \in Runs, Sweep(x)
    PROVE  Passes
<1> DEFINE due == {w \in Workspaces : Due(w)}
           r == [NoRun EXCEPT !.pc = "row", !.at = now, !.todo = due]
<1>1. TypeOK /\ now \in Times /\ now \in Nat /\ now <= now
  BY TimeNow, Constants DEF Owing, Kept, TypeOK
<1>2. run' = [run EXCEPT ![x] = r] /\ UNCHANGED <<job, facts, want, sound, now>>
  BY DEF Sweep, world
<1>3. due \in SUBSET Workspaces /\ due # {}
  BY DEF Sweep
<1> HIDE DEF due
<1>4. r \in RunStates /\ r.pc = "row" /\ r.at = now /\ r.todo = due /\ r.w = None /\ r.job = None
  BY <1>1, <1>3, NoRunTyped, NoRunFields DEF RunStates
<1>5. Bound(r)
  BY <1>3, <1>4 DEF Bound
<1> HIDE DEF r
<1>6. run'[x] = r /\ Others(x) /\ run' \in [Runs -> RunStates]
  BY <1>1, <1>2, <1>4, <1>5, RunBecomes DEF RunsTyped
<1>7. Framed(run'[x]) /\ run'[x].at <= now' /\ ~Solo(x)' /\ \A k \in Jobs : ~Owner(x, k)'
  BY <1>1, <1>2, <1>4, <1>6, Constants DEF Framed, Flying, Solo, Owner
<1>8. RunPasses(x)
  BY <1>7 DEF RunPasses
<1> QED
  BY <1>2, <1>4, <1>6, <1>8, AlonePasses DEF Alone

LEMMA StopsPasses ==
    ASSUME Owing, NEW x \in Runs, Throws(x) \/ Abandon(x)
    PROVE  Passes
<1>1. CASE Throws(x)
  <2>1. run[x].pc \in Working \cup {"apply"} /\ GivesUp(x, "retry") /\ UNCHANGED <<job, facts, want, sound, now>>
    BY <1>1 DEF Throws, Working, world
  <2> QED
    BY <2>1, GivesUpPasses
<1>2. CASE Abandon(x)
  <2>1. run' = [run EXCEPT ![x] = NoRun] /\ UNCHANGED <<job, facts, want, sound, now>>
    BY <1>2 DEF Abandon, world
  <2>2. RunsTyped /\ Others(x) /\ run'[x] = NoRun
    BY <2>1, EndMoves DEF Owing, Kept, TypeOK
  <2>3. now' \in Nat /\ 0 <= now'
    BY <2>1, TimeNow
  <2>4. RunPasses(x)
    BY <2>2, <2>3, NoRunFields, LeftPasses
  <2> QED
    BY <2>1, <2>2, <2>4, NoRunFields, AlonePasses DEF Alone, RunsTyped
<1> QED
  BY <1>1, <1>2

LEMMA TickPasses ==
    ASSUME Owing, Tick
    PROVE  Passes
<1>1. UNCHANGED <<job, facts, want, run, sound>> /\ now' = now + 1
  BY DEF Tick
<1>2. now' \in Nat /\ now <= now'
  BY <1>1, TimeNow
<1>3. \A y \in Runs : \A k \in Jobs : Owner(y, k)' => Owner(y, k)
  BY <1>1 DEF Owner, Owns
<1>4. \A y \in Runs : RunPasses(y)
  BY <1>1, <1>2, <1>3, StillPasses
<1> QED
  BY <1>1, <1>2, <1>4, JobsSame DEF Passes

-----------------------------------------------------------------------------
(* The end of a refresh                                                    *)

\* What is resolved of what there is, at a time not before the item, is good.
LEMMA ResolvedGood ==
    ASSUME Owing, NEW w \in Workspaces, NEW at \in Nat, item[w].from <= at, at <= now, UNCHANGED <<facts, now>>,
           want'[w].goal = Resolved(item[w], sub[item[w].sub], override[w], at)
    PROVE  Good(w)'
<1> DEFINE i == item[w]
           s == sub[item[w].sub]
           by == override[w]
<1>1. i \in Items /\ s \in Subs
  BY SubsTyped DEF Owing, Kept
<1>2. now \in Nat
  BY TimeNow
<1>3. Entitled(w, now)' = Resolved(i, s, by, now)
  BY DEF Entitled, facts
<1>4. Over(w)' <=> /\ i.id # None /\ want'[w].goal.item.id = i.id
                   /\ i.until <= now \/ s.cut <= now
  BY DEF Over, facts
<1>5. want'[w].goal = Resolved(i, s, by, at)
  OBVIOUS
<1>6. i.from <= at
  OBVIOUS
<1> HIDE DEF i, s, by
<1>7. CASE Resolved(i, s, by, now) = Resolved(i, s, by, at)
  BY <1>3, <1>5, <1>7 DEF Good
<1>8. CASE i.id # None /\ Resolved(i, s, by, at).item.id = i.id /\ (i.until <= now \/ s.cut <= now)
  BY <1>4, <1>5, <1>8 DEF Good
<1> QED
  BY <1>1, <1>2, <1>6, <1>7, <1>8, ResolvedLater

\* A refresh that comes to its end pays what its job owes, and what it leaves is good or owed by another.
LEMMA FinishKeeps ==
    ASSUME Owing, Kept', NEW x \in Runs, NEW w \in Workspaces, run[x].w = w, run[x].pc \in {"sources", "commit"}, Finishes(x),
           UNCHANGED <<job, facts, now>>, \A v \in Workspaces : v # w => want'[v] = want[v],
           Solo(x) /\ Current(x) => want'[w].goal = Resolved(item[w], sub[item[w].sub], override[w], run[x].at)
    PROVE  Owing'
<1> DEFINE r == run[x]
<1>0. TypeOK /\ r \in RunStates /\ r.pc \in Working /\ r.pc \in Flying /\ r.pc \notin Before
  BY RunHas DEF Owing, Kept, Working, Flying, Before
<1>1. /\ run'[x] = Onward(r) /\ (\A y \in Runs : y # x => run'[y] = run[y])
      /\ sound' = [sound EXCEPT ![w] = IF r.solo = "yes" /\ r.item.from <= r.at THEN "yes" ELSE "no"]
  BY <1>0 DEF Finishes, TypeOK
<1>2. /\ run'[x].pc \notin Flying /\ run'[x].w = None /\ run'[x].todo = r.todo /\ run'[x].job = r.job
      /\ run'[x].job # None => run'[x].token = r.token
      /\ run'[x].at = r.at \/ run'[x].at = 0
      /\ run'[x].pc # "row" => run'[x].todo = {}
  BY <1>0, <1>1, OnwardFields
<1>3. now \in Nat /\ 0 <= now /\ now' = now /\ r.at \in Nat /\ r.at <= now
  BY TimeNow DEF Owing, Timely, Framed
<1>4. \A y \in Runs : Framed(run'[y]) /\ run'[y].at <= now'
  BY <1>1, <1>2, <1>3 DEF Owing, Timely, Framed
<1>l. Lent' = Lent /\ Assigned' = Assigned
  BY DEF Lent, Assigned, facts
<1>5. Timely' /\ Titles'
  BY <1>4, <1>l DEF Owing, Timely, Titles, facts
<1>6. \A y \in Runs : \A k \in Jobs : Owner(y, k)' => Owner(y, k)
  BY <1>1, <1>2, Constants DEF Owner, Owns
<1>7. ASSUME NEW k \in Jobs, NEW v \in Workspaces, Owes(k, v), v # w \/ ~Owner(x, k)
      PROVE  Owes(k, v)'
  <2>1. Serves(k, v)' /\ job'[k].st \in Open
    BY <1>7 DEF Owes, Serves, Active, facts
  <2>2. ASSUME NEW y \in Runs, Owner(y, k)'
        PROVE  run'[y].pc \in Before \/ Refreshable(run'[y], v)
    <3>1. Owner(y, k)
      BY <1>6, <2>2
    <3>2. CASE y = x
      BY <1>0, <1>2, <1>7, <3>1, <3>2 DEF Owes, Refreshable
    <3>3. CASE y # x
      BY <1>1, <1>7, <3>1, <3>3 DEF Owes
    <3> QED
      BY <3>2, <3>3
  <2> QED
    BY <2>1, <2>2 DEF Owes
<1>8. ASSUME NEW v \in Workspaces, v # w, Good(v)
      PROVE  Good(v)'
  BY <1>8 DEF Good, Entitled, Over, facts
<1>9. ASSUME Solo(x), Current(x), r.item.from <= r.at
      PROVE  Good(w)'
  <2>1. CASE r.pc = "sources" \/ r.pc = "commit"
    <3>1. item[w].from <= r.at
      BY <1>9, <2>1 DEF Current
    <3> QED
      BY <1>3, <1>9, <3>1, ResolvedGood
  <2> QED
    BY <2>1
<1> HIDE DEF r
<1>10. Owed'
  <2> SUFFICES ASSUME Clean', NEW v \in Workspaces
               PROVE  v \in Lent' \/ sound'[v] = "no" \/ Good(v)' \/ \E j \in Jobs : Owes(j, v)'
    BY DEF Owed
  <2>0. Clean
    BY DEF Clean
  <2>1. CASE v # w
    <3>1. v \in Lent \/ sound[v] = "no" \/ Good(v) \/ \E j \in Jobs : Owes(j, v)
      BY <2>0 DEF Owing, Owed
    <3> QED
      BY <1>0, <1>l, <1>1, <1>7, <1>8, <2>1, <3>1 DEF TypeOK
  <2>2. CASE v = w
    <3>1. CASE ~(r.solo = "yes" /\ r.item.from <= r.at)
      BY <1>0, <1>1, <2>2, <3>1 DEF TypeOK
    <3>2. CASE r.solo = "yes" /\ r.item.from <= r.at
      <4>1. Solo(x)
        BY <1>0, <3>2 DEF Solo, r
      <4>2. CASE Current(x)
        BY <1>9, <2>2, <3>2, <4>1, <4>2
      <4>3. CASE OwedElsewhere(x)
        <5>1. PICK j \in Jobs : Owes(j, w) /\ ~Owner(x, j)
          BY <4>3 DEF OwedElsewhere
        <5> QED
          BY <1>7, <2>2, <5>1
      <4> QED
        BY <1>l, <2>0, <2>2, <4>1, <4>2, <4>3 DEF Owing, Flights
    <3> QED
      BY <3>1, <3>2
  <2> QED
    BY <2>1, <2>2
<1>11. Flights'
  <2>1. ASSUME NEW y \in Runs, Solo(y)'
        PROVE  /\ y # x /\ Solo(y) /\ run'[y] = run[y] /\ run[y].w \in Workspaces /\ run[y].w # w
               /\ want'[run'[y].w].goal = run'[y].had
               /\ \A z \in Runs : run'[z].w = run'[y].w => y = z
    <3>1. y # x /\ run'[y] = run[y] /\ Solo(y)
      BY <1>1, <1>2, <2>1 DEF Solo
    <3>2. run[y].w \in Workspaces
      BY <1>0, <3>1, RunHas DEF TypeOK, Bound, Solo, Flying
    <3>3. run[y].w # w
      BY <3>1 DEF Owing, Flights
    <3>4. \A z \in Runs : run'[z].w = run'[y].w => y = z
      BY <1>1, <1>2, <3>1, <3>2, Constants DEF Owing, Flights
    <3> QED
      BY <3>1, <3>2, <3>3, <3>4 DEF Owing, Flights
  <2>2. ASSUME Clean', NEW y \in Runs, Solo(y)'
        PROVE  run'[y].w \in Lent' \/ Current(y)' \/ OwedElsewhere(y)'
    <3>0. Clean
      BY <2>2 DEF Clean
    <3>1. PICK v \in Workspaces : v = run[y].w /\ v # w /\ run'[y] = run[y] /\ Solo(y)
      BY <2>1, <2>2
    <3>2. CASE Current(y)
      BY <3>1, <3>2 DEF Current, facts
    <3>3. CASE OwedElsewhere(y)
      <4>1. PICK j \in Jobs : Owes(j, v) /\ ~Owner(y, j)
        BY <3>1, <3>3 DEF OwedElsewhere
      <4>2. Owes(j, v)' /\ ~Owner(y, j)'
        BY <1>6, <1>7, <3>1, <4>1
      <4> QED
        BY <3>1, <4>1, <4>2 DEF OwedElsewhere
    <3> QED
      BY <1>l, <3>0, <3>1, <3>2, <3>3 DEF Owing, Flights
  <2> QED
    BY <2>1, <2>2 DEF Flights
<1> QED
  BY <1>4, <1>5, <1>10, <1>11 DEF Owing

LEMMA ReadSourcesKeeps ==
    ASSUME Owing, Kept', NEW x \in Runs, ReadSources(x)
    PROVE  Owing'
<1> DEFINE w == run[x].w
           i == run[x].item
           torn == i.id # None /\ (item[w].id = None \/ item[w].sub # i.sub \/ item[w].plan # i.plan)
           goal == Resolved(i, sub[i.sub], override[w], run[x].at)
           r == [run[x] EXCEPT !.pc = "commit", !.goal = goal]
<1>1. TypeOK /\ run[x] \in RunStates /\ Bound(run[x]) /\ run[x].pc = "sources" /\ w \in Workspaces /\ i \in Items
  BY RunHas DEF Owing, Kept, ReadSources, At, Bound
<1>2. UNCHANGED <<job, facts, want, now>>
  BY DEF ReadSources, world
<1>3. \/ torn /\ GivesUp(x, "drop") /\ UNCHANGED sound
      \/ goal = run[x].had /\ Finishes(x)
      \/ run' = [run EXCEPT ![x] = r] /\ UNCHANGED sound
  BY DEF ReadSources
<1>4. goal \in Goals
  <2>1. i.sub \in Subscriptions
    BY <1>1 DEF Items
  <2> QED
    BY <1>1, <2>1, SubsTyped, ResolvedTyped DEF TypeOK
<1> HIDE DEF torn
<1>5. CASE GivesUp(x, "drop") /\ UNCHANGED sound
  BY <1>1, <1>2, <1>5, GivesUpPasses, PassesKeeps DEF Working
<1>6. CASE goal = run[x].had /\ Finishes(x)
  <2>1. Solo(x) /\ Current(x) => want'[w].goal = Resolved(item[w], sub[item[w].sub], override[w], run[x].at)
    BY <1>1, <1>2, <1>6 DEF Owing, Flights, Current
  <2> QED
    BY <1>1, <1>2, <1>6, <2>1, FinishKeeps
<1>7. CASE run' = [run EXCEPT ![x] = r] /\ UNCHANGED sound
  <2> HIDE DEF goal
  <2>1. /\ r \in RunStates /\ r.pc = "commit" /\ r.item = i /\ r.goal = goal /\ r.w = w /\ r.todo = run[x].todo
        /\ r.job = run[x].job /\ r.token = run[x].token /\ r.at = run[x].at /\ r.had = run[x].had /\ r.solo = run[x].solo
    BY <1>1, <1>4 DEF RunStates
  <2>2. Bound(r)
    BY <1>1, <2>1 DEF Bound
  <2> HIDE DEF r
  <2>3. run'[x] = r
    BY <1>1, <1>7 DEF TypeOK
  <2>4. Current(x) => Current(x)'
    BY <1>1, <1>2, <2>1, <2>3 DEF Current, facts, goal
  <2>5. Passes
    BY <1>1, <1>2, <1>7, <2>1, <2>2, <2>4, ReadsPasses DEF Flying
  <2> QED
    BY <2>5, PassesKeeps
<1> QED
  BY <1>3, <1>5, <1>6, <1>7

LEMMA CommitKeeps ==
    ASSUME Owing, Kept', NEW x \in Runs, Commit(x)
    PROVE  Owing'
<1> DEFINE w == run[x].w
<1>1. TypeOK /\ run[x] \in RunStates /\ Bound(run[x]) /\ run[x].pc = "commit" /\ w \in Workspaces
  BY RunHas DEF Owing, Kept, Commit, At, Bound
<1>2. UNCHANGED <<job, facts, now>>
  BY DEF Commit, world
<1>3. CASE want[w].id = run[x].saw
  <2>1. PICK n \in NewId(w) : want' = [want EXCEPT ![w] = [id |-> n, goal |-> run[x].goal]]
    BY <1>3 DEF Commit
  <2>2. want'[w].goal = run[x].goal /\ \A v \in Workspaces : v # w => want'[v] = want[v]
    BY <1>1, <2>1 DEF TypeOK
  <2>3. Solo(x) /\ Current(x) => want'[w].goal = Resolved(item[w], sub[item[w].sub], override[w], run[x].at)
    BY <1>1, <2>2 DEF Current
  <2>4. Finishes(x)
    BY <1>3 DEF Commit
  <2> QED
    BY <1>1, <1>2, <2>2, <2>3, <2>4, FinishKeeps
<1>4. CASE want[w].id # run[x].saw
  <2>1. GivesUp(x, "retry") /\ UNCHANGED <<want, sound>>
    BY <1>4 DEF Commit
  <2> QED
    BY <1>1, <1>2, <2>1, GivesUpPasses, PassesKeeps DEF Working
<1> QED
  BY <1>3, <1>4

-----------------------------------------------------------------------------
(* What a job changes is owed                                              *)

\* A run applies its job: what it changes of a workspace it is to refresh, and nobody owes less by it.
Pays(x, j, w) == w \in run'[x].todo /\ Serves(j, w)'
Applies(x) ==
    LET j == run[x].job IN
    /\ j \in Jobs /\ Owns(x) /\ run[x].pc = "apply" /\ UNCHANGED <<want, sound, now>>
    /\ \A k \in Jobs : job'[k].st = job[k].st /\ job'[k].token = job[k].token
    /\ Others(x) /\ run'[x].job = j /\ run'[x].token = run[x].token
    /\ run'[x].w = run[x].w /\ run'[x].at = run[x].at
    /\ run'[x].pc = IF run'[x].todo = {} THEN "settle" ELSE "row"
    /\ moved \subseteq moved' /\ Titles'
    /\ \A w \in Workspaces :
         /\ item'[w].from <= now
         /\ \/ w \in Lent'
            \/ /\ SameView(w) \/ Pays(x, j, w)
               /\ Serves(j, w) => Pays(x, j, w)
               /\ \A k \in Jobs : k # j /\ Serves(k, w) => Serves(k, w)' \/ Pays(x, j, w)

LEMMA AppliesKeeps ==
    ASSUME Owing, Kept', NEW x \in Runs, Applies(x)
    PROVE  Owing'
<1>0. PICK j \in Jobs : j = run[x].job
  BY DEF Applies
<1>1. /\ Owns(x) /\ now' = now /\ UNCHANGED <<want, sound>>
      /\ \A y \in Runs : y # x => run'[y] = run[y]
      /\ \A k \in Jobs : job'[k].st = job[k].st /\ job'[k].token = job[k].token
      /\ run'[x].job = j /\ run'[x].token = run[x].token
  BY <1>0 DEF Applies, Others
<1>2. run[x].w = None /\ run[x].todo = {} /\ run[x].at \in Nat /\ run[x].at <= now
  BY DEF Applies, Owing, Framed, Timely, Flying
<1>3. run'[x].pc \in {"row", "settle"} /\ run'[x].w = None /\ run'[x].at = run[x].at /\ Framed(run'[x])
      /\ (run'[x].pc # "row" => run'[x].todo = {})
  BY <1>2 DEF Applies, Framed, Flying
<1>4. now \in Nat
  BY TimeNow
<1>5. ASSUME NEW w \in Workspaces, w \notin Lent'
      PROVE  /\ SameView(w) \/ Pays(x, j, w)
             /\ Serves(j, w) => Pays(x, j, w)
             /\ \A k \in Jobs : k # j /\ Serves(k, w) => Serves(k, w)' \/ Pays(x, j, w)
  BY <1>0, <1>5 DEF Applies
<1>l. Lent \subseteq Lent'
  BY DEF Applies, Lent, Assigned
<1>6. \A y \in Runs : Framed(run'[y]) /\ run'[y].at <= now'
  BY <1>1, <1>2, <1>3 DEF Owing, Timely
<1>7. Timely'
  <2>1. \A w \in Workspaces : item'[w].from <= now'
    BY <1>1 DEF Applies
  <2>2. \A i \in Intents : job'[i].st \in {"processing", "failed"} => Order[i].at <= now'
    BY <1>1, Constants DEF Owing, Timely
  <2> QED
    BY <1>6, <2>1, <2>2 DEF Timely
<1>8. Titles'
  BY DEF Applies
<1>9. \A y \in Runs, k \in Jobs : Owner(y, k)' => Owner(y, k)
  BY <1>0, <1>1 DEF Owner, Owns
<1>10. \A y \in Runs : Owner(y, j) => y = x
  BY <1>0, <1>1 DEF Owing, Kept, Unique, Owner, Owns
<1>11. ASSUME NEW w \in Workspaces, Pays(x, j, w)
       PROVE  Owes(j, w)'
  <2>1. job'[j].st \in Open /\ Serves(j, w)'
    BY <1>0, <1>1, <1>11 DEF Owns, Open, Pays
  <2>2. \A y \in Runs : Owner(y, j)' => Refreshable(run'[y], w)
    BY <1>9, <1>10, <1>11 DEF Pays, Refreshable
  <2> QED
    BY <2>1, <2>2 DEF Owes
<1>12. ASSUME NEW w \in Workspaces, w \notin Lent', ~Pays(x, j, w), NEW k \in Jobs, Owes(k, w)
       PROVE  k # j /\ Owes(k, w)'
  <2>1. k # j /\ Serves(k, w)'
    BY <1>5, <1>12 DEF Owes
  <2>2. ASSUME NEW y \in Runs, Owner(y, k)'
        PROVE  run'[y].pc \in Before \/ Refreshable(run'[y], w)
    <3>1. y # x /\ Owner(y, k)
      BY <1>0, <1>9, <2>1, <2>2 DEF Owner
    <3> QED
      BY <1>1, <1>12, <3>1 DEF Owes
  <2>3. job'[k].st \in Open
    BY <1>1, <1>12 DEF Owes
  <2> QED
    BY <2>1, <2>2, <2>3 DEF Owes
<1>13. ASSUME NEW w \in Workspaces, w \notin Lent', ~Pays(x, j, w), Good(w)
       PROVE  Good(w)'
  <2>1. SameView(w)
    BY <1>5, <1>13
  <2>2. Kept /\ Timely /\ Titles /\ want'[w] = want[w] /\ now' \in Nat /\ now <= now'
    BY <1>1, <1>4 DEF Owing
  <2> QED
    BY <1>13, <2>1, <2>2, GoodStays
<1>14. Clean' => Clean
  BY <1>1 DEF Clean
<1>15. Owed'
  <2> SUFFICES ASSUME Clean', NEW w \in Workspaces
               PROVE  w \in Lent' \/ sound'[w] = "no" \/ Good(w)' \/ \E k \in Jobs : Owes(k, w)'
    BY DEF Owed
  <2>1. w \in Lent \/ sound[w] = "no" \/ Good(w) \/ \E k \in Jobs : Owes(k, w)
    BY <1>14 DEF Owing, Owed
  <2>2. CASE Pays(x, j, w)
    BY <1>11, <2>2
  <2>3. CASE ~Pays(x, j, w)
    BY <1>l, <1>1, <1>12, <1>13, <2>1, <2>3
  <2> QED
    BY <2>2, <2>3
<1>16. Flights'
  <2>1. ASSUME NEW y \in Runs, Solo(y)'
        PROVE  /\ y # x /\ Solo(y) /\ run'[y] = run[y] /\ run[y].w \in Workspaces
               /\ want'[run'[y].w].goal = run'[y].had
               /\ \A z \in Runs : run'[z].w = run'[y].w => y = z
    <3>1. y # x /\ run'[y] = run[y] /\ Solo(y)
      BY <1>1, <1>3, <2>1 DEF Solo, Flying
    <3>2. run[y].w \in Workspaces
      BY <3>1, RunHas DEF Owing, Kept, TypeOK, Bound, Solo, Flying
    <3>3. \A z \in Runs : run'[z].w = run'[y].w => y = z
      BY <1>1, <1>3, <3>1, <3>2, Constants DEF Owing, Flights
    <3> QED
      BY <1>1, <3>1, <3>2, <3>3 DEF Owing, Flights
  <2>2. ASSUME Clean', NEW y \in Runs, Solo(y)'
        PROVE  run'[y].w \in Lent' \/ Current(y)' \/ OwedElsewhere(y)'
    <3>1. PICK w \in Workspaces : w = run[y].w /\ run'[y] = run[y] /\ Solo(y) /\ y # x
      BY <2>1, <2>2
    <3>2. CASE Pays(x, j, w)
      <4>1. Owes(j, w)' /\ ~Owner(y, j)'
        BY <1>9, <1>10, <1>11, <3>1, <3>2
      <4> QED
        BY <3>1, <4>1 DEF OwedElsewhere
    <3>3. CASE w \notin Lent' /\ ~Pays(x, j, w) /\ Current(y)
      <4>1. SameView(w)
        BY <1>5, <3>3
      <4>2. Resolved(item'[w], sub'[item'[w].sub], override'[w], run[y].at)
              = Resolved(item[w], sub[item[w].sub], override[w], run[y].at)
        BY <4>1, SameResolved
      <4> QED
        BY <3>1, <3>3, <4>1, <4>2 DEF Current, SameView
    <3>4. CASE w \notin Lent' /\ ~Pays(x, j, w) /\ OwedElsewhere(y)
      <4>1. PICK k \in Jobs : Owes(k, w) /\ ~Owner(y, k)
        BY <3>1, <3>4 DEF OwedElsewhere
      <4>2. Owes(k, w)' /\ ~Owner(y, k)'
        BY <1>9, <1>12, <3>4, <4>1
      <4> QED
        BY <3>1, <4>1, <4>2 DEF OwedElsewhere
    <3> QED
      BY <1>l, <1>14, <2>2, <3>1, <3>2, <3>3, <3>4 DEF Owing, Flights
  <2> QED
    BY <2>1, <2>2 DEF Flights
<1> QED
  BY <1>6, <1>7, <1>8, <1>15, <1>16 DEF Owing

LEMMA RefreshesFields ==
    ASSUME Owing, NEW x \in Runs, NEW j, run[x].pc = "apply", run[x].job = j, j \in Jobs, NEW out \in {"applied", "stale"},
           NEW todo \in SUBSET Workspaces, Refreshes(x, j, out, todo)
    PROVE  /\ Others(x) /\ run'[x].job = j /\ run'[x].token = run[x].token /\ run'[x].w = run[x].w /\ run'[x].at = run[x].at
           /\ run'[x].todo = todo /\ run'[x].pc = IF todo = {} THEN "settle" ELSE "row"
<1> DEFINE r == [run[x] EXCEPT !.pc = IF todo = {} THEN "settle" ELSE "row", !.out = out, !.todo = todo]
<1>1. run[x] \in RunStates /\ run \in [Runs -> RunStates]
  BY DEF Owing, Kept, TypeOK
<1>2. /\ r.job = j /\ r.token = run[x].token /\ r.w = run[x].w /\ r.at = run[x].at /\ r.todo = todo
      /\ r.pc = IF todo = {} THEN "settle" ELSE "row"
  BY <1>1 DEF RunStates
<1>3. run' = [run EXCEPT ![x] = r]
  BY DEF Refreshes
<1> HIDE DEF r
<1> QED
  BY <1>1, <1>2, <1>3 DEF Others

\* A step that leaves the job to be given up or tried again changes nothing of what is owed.
LEMMA LeavesKeeps ==
    ASSUME Owing, Kept', NEW x \in Runs, NEW pc \in {"retry", "drop"}, run[x].job \in Jobs, Leaves(x, pc),
           UNCHANGED <<facts, job, want, sound, now>>
    PROVE  Owing'
  BY LeavesFields, AlonePasses, PassesKeeps DEF Alone

LEMMA ExtendedFields ==
    ASSUME NEW i \in Items, NEW s, NEW window
    PROVE  LET n == Extended(i, s, window) IN
           /\ n.id = i.id /\ n.sub = i.sub /\ n.plan = i.plan /\ n.from = i.from
           /\ n.until = i.until \/ n.until = window
           /\ i.id = None \/ i.sub # s \/ window = Never => n = i
           /\ i.id # None /\ i.sub = s /\ window # Never => n.until # Never /\ (n.until = window \/ ~(n.until < window))
           /\ window = Never \/ (i.until # Never /\ ~(i.until < window)) => n = i
           /\ window # Never => (i.until # Never => n.until # Never) /\ (n.until = i.until \/ i.until = Never \/ i.until < window)
<1> DEFINE e == [i EXCEPT !.until = window]
<1>1. e.id = i.id /\ e.sub = i.sub /\ e.plan = i.plan /\ e.from = i.from /\ e.until = window
  BY DEF Items
<1>2. Extended(i, s, window) = IF i.id # None /\ i.sub = s /\ window # Never /\ (i.until = Never \/ i.until < window)
                               THEN e ELSE i
  BY DEF Extended
<1> HIDE DEF e
<1> QED
  BY <1>1, <1>2

\* An event changes no more than the window of the provider's items, and its subscription.
LEMMA SnapshotViews ==
    ASSUME Owing, NEW e \in Events, Snapshots(e)
    PROVE  /\ \A w \in Workspaces : /\ item'[w].id = item[w].id /\ item'[w].sub = item[w].sub /\ item'[w].from = item[w].from
                                    /\ w \notin Active(Provided) => SameView(w)
           /\ \A k \in Jobs : job'[k].hit = job[k].hit /\ job'[k].st = job[k].st /\ job'[k].token = job[k].token
           /\ Titles' /\ moved \subseteq moved'
<1>0. TypeOK /\ job \in [Jobs -> JobStates] /\ sub \in [Subscriptions -> Subs] /\ Provided \in Subscriptions
      /\ \A w \in Workspaces : item[w] \in Items
  BY IntakeAssumption, SubsTyped DEF Owing, Kept, TypeOK
<1>1. CASE UNCHANGED <<facts, job, order>>
  BY <1>1 DEF facts, SameView, Owing, Titles, Assigned
<1>2. CASE ~UNCHANGED <<facts, job, order>>
  <2> DEFINE r == [st |-> "there", src |-> Snapshot[e].src, cut |-> Snapshot[e].cut, due |-> Snapshot[e].due,
                   window |-> Snapshot[e].window, cause |-> e]
  <2>1. r.window = Snapshot[e].window
    OBVIOUS
  <2>2. /\ sub' = [sub EXCEPT ![Provided] = r]
        /\ item' = [w \in Workspaces |-> Extended(item[w], Provided, Snapshot[e].window)]
        /\ job' = [job EXCEPT ![e].done = "yes"] /\ UNCHANGED override /\ moved' = moved \cup {e}
    BY <1>2 DEF Snapshots
  <2> HIDE DEF r
  <2>3. \A w \in Workspaces : item'[w] = Extended(item[w], Provided, Snapshot[e].window)
    BY <2>2
  <2>4. \A w \in Workspaces : item'[w].id = item[w].id /\ item'[w].sub = item[w].sub /\ item'[w].from = item[w].from
    BY <1>0, <2>3, ExtendedFields
  <2>5. sub'[Provided] = r /\ \A s \in Subscriptions : s # Provided => sub'[s] = sub[s]
    BY <1>0, <2>2
  <2>6. ASSUME NEW w \in Workspaces, w \notin Active(Provided)
        PROVE  SameView(w)
    <3>1. item[w].id = None \/ item[w].sub # Provided
      BY <2>6 DEF Active
    <3>2. item'[w] = item[w]
      BY <1>0, <2>3, <3>1, ExtendedFields
    <3>3. item[w].sub \in Subscriptions
      BY <1>0 DEF Items
    <3> QED
      BY <2>2, <2>5, <3>1, <3>2, <3>3 DEF SameView
  <2>7. \A k \in Jobs : job'[k].hit = job[k].hit /\ job'[k].st = job[k].st /\ job'[k].token = job[k].token
    BY <1>0, <2>2 DEF JobStates
  <2>a. Assigned \subseteq Assigned'
    BY <2>2 DEF Assigned
  <2>8. Titles'
    <3>1. ASSUME NEW w \in Workspaces, item'[w].id # None
          PROVE  /\ item'[w].sub = Provided \/ <<item'[w].sub, w>> \in Assigned'
                 /\ item'[w].sub = Provided /\ sub'[Provided].window # Never =>
                       item'[w].until # Never /\ item'[w].until >= sub'[Provided].window
      <4>1. item[w].id # None
        BY <2>4, <3>1
      <4>2. item'[w].sub = Provided \/ <<item'[w].sub, w>> \in Assigned'
        BY <2>a, <2>4, <4>1 DEF Owing, Titles
      <4>3. ASSUME item'[w].sub = Provided, sub'[Provided].window # Never
            PROVE  item'[w].until # Never /\ item'[w].until >= sub'[Provided].window
        <5> DEFINE n == Extended(item[w], Provided, Snapshot[e].window)
        <5>1. n.until # Never /\ (n.until = Snapshot[e].window \/ ~(n.until < Snapshot[e].window))
          BY <1>0, <2>1, <2>4, <2>5, <4>1, <4>3, ExtendedFields
        <5>2. n.until \in Nat /\ Snapshot[e].window \in Nat
          BY <1>0, Constants, ExtendedTyped, NatTimes DEF Items
        <5>3. item'[w] = n
          BY <2>3
        <5> HIDE DEF n
        <5> QED
          BY <2>1, <2>5, <5>1, <5>2, <5>3
      <4> QED
        BY <4>2, <4>3
    <3>3. \A i \in Intents : Order[i].kind = "end" =>
             \A w \in job'[i].hit : Order[i].sub = Provided \/ <<Order[i].sub, w>> \in Assigned'
      BY <2>a, <2>7, Constants DEF Owing, Titles
    <3> QED
      BY <3>1, <3>3 DEF Titles
  <2> QED
    BY <2>2, <2>4, <2>6, <2>7, <2>8
<1> QED
  BY <1>1, <1>2

LEMMA EventKeeps ==
    ASSUME Owing, Kept', NEW x \in Runs, ApplyEvent(x)
    PROVE  Owing'
<1>0. PICK e \in Events : e = run[x].job
  BY DEF ApplyEvent
<1>1. e \in Jobs /\ run[x].pc = "apply" /\ UNCHANGED <<want, sound, now>>
  BY Constants DEF ApplyEvent, At, world
<1>2. CASE ~Owns(x)
  BY <1>0, <1>1, <1>2, LeavesKeeps DEF ApplyEvent
<1>3. CASE Owns(x)
  <2> DEFINE out == IF Stale(e) THEN "stale" ELSE "applied"
  <2>1. Snapshots(e) /\ Refreshes(x, e, out, Active(Provided))
    BY <1>0, <1>3 DEF ApplyEvent, Affected
  <2>2. Active(Provided) \in SUBSET Workspaces /\ out \in {"stale", "applied"}
    BY DEF Active
  <2> HIDE DEF out
  <2>3. /\ Others(x) /\ run'[x].job = e /\ run'[x].token = run[x].token /\ run'[x].w = run[x].w /\ run'[x].at = run[x].at
        /\ run'[x].todo = Active(Provided) /\ run'[x].pc = IF run'[x].todo = {} THEN "settle" ELSE "row"
    BY <1>0, <1>1, <2>1, <2>2, RefreshesFields
  <2>4. /\ \A w \in Workspaces : /\ item'[w].id = item[w].id /\ item'[w].sub = item[w].sub /\ item'[w].from = item[w].from
                                 /\ w \notin Active(Provided) => SameView(w)
        /\ \A k \in Jobs : job'[k].hit = job[k].hit /\ job'[k].st = job[k].st /\ job'[k].token = job[k].token
        /\ Titles' /\ moved \subseteq moved'
    BY <2>1, SnapshotViews
  <2>5. \A s : Active(s)' = Active(s)
    BY <2>4 DEF Active
  <2>6. \A k \in Jobs, w \in Workspaces : Serves(k, w)' = Serves(k, w)
    BY <2>4, <2>5 DEF Serves
  <2>7. \A w \in Workspaces : w \in Active(Provided) <=> Pays(x, e, w)
    BY <1>0, <2>3, <2>5, <2>6 DEF Pays, Serves
  <2>8. ASSUME NEW w \in Workspaces
        PROVE  /\ SameView(w) \/ Pays(x, e, w)
               /\ Serves(e, w) => Pays(x, e, w)
               /\ \A k \in Jobs : k # e /\ Serves(k, w) => Serves(k, w)' \/ Pays(x, e, w)
               /\ item'[w].from <= now
    BY <2>4, <2>6, <2>7 DEF Serves, Owing, Timely
  <2>9. Applies(x)
    BY <1>0, <1>1, <1>3, <2>3, <2>4, <2>8 DEF Applies
  <2> QED
    BY <2>9, AppliesKeeps
<1> QED
  BY <1>2, <1>3

LEMMA HitsFields ==
    ASSUME Owing, NEW i \in Jobs, NEW hit, Hits(i, hit)
    PROVE  /\ \A k \in Jobs : job'[k].st = job[k].st /\ job'[k].token = job[k].token /\ (k # i => job'[k].hit = job[k].hit)
           /\ job'[i].hit = hit
<1> DEFINE o == [job[i] EXCEPT !.hit = hit]
<1>1. job \in [Jobs -> JobStates]
  BY DEF Owing, Kept, TypeOK
<1>2. o.st = job[i].st /\ o.token = job[i].token /\ o.hit = hit
  BY <1>1 DEF JobStates
<1>3. job' = [job EXCEPT ![i] = o]
  BY DEF Hits
<1> HIDE DEF o
<1> QED
  BY <1>1, <1>2, <1>3

\* What an assignment or a rollout changes is of its workspace, or of one that has been given the same
\* subscription.
LEMMA UpsertViews ==
    ASSUME Owing, NEW i \in Intents, Order[i].kind \in {"rollout", "assign"}, ~Refused(i), Order[i].at <= now,
           ~(SameItem(i) /\ item[Order[i].w].id = i), Upserts(i), UNCHANGED override
    PROVE  /\ moved \subseteq moved'
           /\ \A w \in Workspaces : w # Order[i].w =>
                /\ SameView(w) \/ (item[w].sub # Provided /\ w \in Lent')
                /\ item'[w].id = item[w].id /\ item'[w].sub = item[w].sub /\ item'[w].from = item[w].from
           /\ \A s \in Subscriptions :
                Order[i].w \in Active(s)' => Order[i].w \in Active(s) \/ (s # Provided /\ <<s, Order[i].w>> \in Assigned')
           /\ item'[Order[i].w].from <= now
           /\ item'[Order[i].w].id # None /\ item'[Order[i].w].sub = Provided /\ sub'[Provided].window # Never =>
                item'[Order[i].w].until # Never /\ item'[Order[i].w].until >= sub'[Provided].window
           /\ sub'[Provided] = sub[Provided]
<1> DEFINE o == Order[i]
<1>0. /\ TypeOK /\ sub \in [Subscriptions -> Subs] /\ Provided \in Subscriptions /\ item \in [Workspaces -> Items]
      /\ o.w \in Workspaces /\ o.sub \in Subscriptions /\ o.kind \in {"rollout", "assign"}
      /\ \A w \in Workspaces : item[w] \in Items /\ item[w].sub \in Subscriptions
  BY IntakeAssumption, Constants, SubsTyped DEF Owing, Kept, TypeOK
<1>a. moved \subseteq moved' /\ Assigned \subseteq Assigned'
  BY DEF Upserts, Assigned
<1>1. o.kind = "assign" => o.sub # Provided /\ <<o.sub, o.w>> \in Assigned' /\ Target(i) = o.sub
  BY <1>0 DEF Refused, Assigned, Target, Upserts
<1>2. o.kind = "rollout" => /\ item[o.w].id # None /\ Target(i) = item[o.w].sub /\ Window(i) = sub[Target(i)].window
                            /\ UNCHANGED sub
  BY DEF Refused, Target, Window, Upserts
<1>3. \A s \in Subscriptions : s # o.sub \/ o.kind = "rollout" => sub'[s] = sub[s]
  BY <1>0, <1>2 DEF Upserts
<1>4. sub'[Provided] = sub[Provided]
  BY <1>0, <1>1, <1>3
<1>5. ASSUME NEW w \in Workspaces, item[w].id # None
      PROVE  item[w].sub = Provided \/ <<item[w].sub, w>> \in Assigned'
  BY <1>a, <1>5 DEF Owing, Titles
<1>6. ASSUME NEW s \in Subscriptions, NEW w \in Workspaces, w # o.w, <<s, o.w>> \in Assigned', <<s, w>> \in Assigned'
      PROVE  w \in Lent'
  BY <1>0, <1>6 DEF Lent
<1>7. ASSUME NEW w \in Workspaces, w # o.w, item[w].id # None
      PROVE  sub'[item[w].sub] = sub[item[w].sub] \/ (item[w].sub # Provided /\ w \in Lent')
  <2>1. CASE o.kind = "rollout" \/ item[w].sub # o.sub
    BY <1>0, <1>3, <2>1
  <2>2. CASE o.kind = "assign" /\ item[w].sub = o.sub
    <3>1. o.sub # Provided /\ <<o.sub, w>> \in Assigned' /\ <<o.sub, o.w>> \in Assigned'
      BY <1>1, <1>5, <1>7, <2>2
    <3>2. w \in Lent'
      BY <1>0, <1>6, <1>7, <3>1
    <3> QED
      BY <2>2, <3>1, <3>2
  <2> QED
    BY <1>0, <2>1, <2>2
<1>8. CASE ~SameItem(i)
  <2> DEFINE r == [id |-> i, sub |-> Target(i), plan |-> o.plan, from |-> o.at, until |-> Window(i)]
  <2>1. r.sub = Target(i) /\ r.from = o.at /\ r.until = Window(i) /\ r.id = i
    OBVIOUS
  <2>2. item' = [item EXCEPT ![o.w] = r]
    BY <1>8 DEF Upserts
  <2> HIDE DEF r
  <2>3. item'[o.w] = r /\ \A w \in Workspaces : w # o.w => item'[w] = item[w]
    BY <1>0, <2>2
  <2>4. \A w \in Workspaces : w # o.w =>
          /\ SameView(w) \/ (item[w].sub # Provided /\ w \in Lent')
          /\ item'[w].id = item[w].id /\ item'[w].sub = item[w].sub /\ item'[w].from = item[w].from
    BY <1>7, <2>3 DEF SameView
  <2>5. ASSUME NEW s \in Subscriptions, o.w \in Active(s)'
        PROVE  o.w \in Active(s) \/ (s # Provided /\ <<s, o.w>> \in Assigned')
    <3>1. s = Target(i)
      BY <2>1, <2>3, <2>5 DEF Active
    <3> QED
      BY <1>0, <1>1, <1>2, <3>1 DEF Active
  <2>6. ASSUME item'[o.w].sub = Provided, sub'[Provided].window # Never
        PROVE  item'[o.w].until # Never /\ item'[o.w].until >= sub'[Provided].window
    <3>1. Target(i) = Provided /\ o.kind = "rollout"
      BY <1>0, <1>1, <2>1, <2>3, <2>6
    <3>2. item'[o.w].until = sub'[Provided].window
      BY <1>2, <1>4, <2>1, <2>3, <3>1
    <3>3. sub'[Provided].window \in Nat
      BY <1>0, <1>4, NatTimes DEF Subs
    <3> QED
      BY <2>6, <3>2, <3>3
  <2> QED
    BY <1>a, <1>4, <2>1, <2>3, <2>4, <2>5, <2>6
<1>9. CASE SameItem(i)
  <2>0. item[o.w].id # None /\ item[o.w].sub = Target(i)
    BY <1>9 DEF SameItem
  <2>1. \A w \in Workspaces : item'[w] = Extended(item[w], Target(i), Window(i))
    BY <1>9 DEF Upserts
  <2>2. \A w \in Workspaces : item'[w].id = item[w].id /\ item'[w].sub = item[w].sub /\ item'[w].from = item[w].from
    BY <1>0, <2>1, ExtendedFields
  <2>3. ASSUME NEW w \in Workspaces, w # o.w
        PROVE  item'[w] = item[w] \/ (item[w].sub # Provided /\ w \in Lent')
    <3>1. CASE item[w].id = None \/ item[w].sub # Target(i)
      BY <1>0, <2>1, <3>1, ExtendedFields
    <3>2. CASE item[w].id # None /\ item[w].sub = Target(i) /\ Target(i) # Provided
      <4>1. <<Target(i), w>> \in Assigned' /\ <<Target(i), o.w>> \in Assigned'
        BY <1>0, <1>5, <2>0, <3>2
      <4>2. Target(i) \in Subscriptions
        BY <1>0, <3>2
      <4> QED
        BY <1>6, <2>3, <3>2, <4>1, <4>2
    <3>3. CASE item[w].id # None /\ item[w].sub = Target(i) /\ Target(i) = Provided
      <4>2. Window(i) = sub[Provided].window
        BY <1>0, <1>1, <1>2, <3>3
      <4>3. Window(i) = Never \/ (item[w].until # Never /\ item[w].until >= Window(i))
        BY <3>3, <4>2 DEF Owing, Titles
      <4>4. item[w].until \in Nat /\ Window(i) \in Nat
        BY <1>0, <4>2, NatTimes DEF Items, Subs
      <4>5. Window(i) = Never \/ (item[w].until # Never /\ ~(item[w].until < Window(i)))
        BY <4>3, <4>4
      <4> QED
        BY <1>0, <2>1, <4>5, ExtendedFields
    <3> QED
      BY <3>1, <3>2, <3>3
  <2>4. \A w \in Workspaces : w # o.w => SameView(w) \/ (item[w].sub # Provided /\ w \in Lent')
    BY <1>7, <2>3 DEF SameView
  <2>5. \A s \in Subscriptions : o.w \in Active(s)' => o.w \in Active(s)
    BY <1>0, <2>2 DEF Active
  <2>6. item'[o.w].from <= now
    BY <1>0, <2>2 DEF Owing, Timely
  <2>7. ASSUME item'[o.w].sub = Provided, sub'[Provided].window # Never
        PROVE  item'[o.w].until # Never /\ item'[o.w].until >= sub'[Provided].window
    <3>1. Target(i) = Provided /\ Window(i) = sub'[Provided].window
      BY <1>0, <1>1, <1>2, <1>4, <2>0, <2>2, <2>7
    <3> DEFINE n == Extended(item[o.w], Target(i), Window(i))
    <3>2. n.until # Never /\ (n.until = Window(i) \/ ~(n.until < Window(i)))
      BY <1>0, <2>0, <2>7, <3>1, ExtendedFields
    <3>3. Window(i) \in Times /\ Window(i) \in Nat
      BY <1>0, <1>4, <3>1, NatTimes DEF Subs
    <3>4. n.until \in Nat
      BY <1>0, <3>3, ExtendedTyped, NatTimes DEF Items
    <3>5. item'[o.w] = n
      BY <1>0, <2>1
    <3> HIDE DEF n
    <3> QED
      BY <3>1, <3>2, <3>3, <3>4, <3>5
  <2> QED
    BY <1>a, <1>4, <2>2, <2>4, <2>5, <2>6, <2>7
<1> QED
  BY <1>8, <1>9

\* An intent that is owned and applied has come into force.
LEMMA InForce ==
    ASSUME Owing, NEW x \in Runs, NEW i \in Intents, i = run[x].job, Owns(x)
    PROVE  Order[i].at <= now
  BY DEF Owns, Owing, Timely

LEMMA UpsertKeeps ==
    ASSUME Owing, Kept', NEW x \in Runs, NEW i \in Intents, i = run[x].job, run[x].pc = "apply", Owns(x),
           ApplyUpsert(x, i), UNCHANGED <<want, sound, now>>
    PROVE  Owing'
<1> DEFINE o == Order[i]
<1>0. i \in Jobs /\ i \notin Events /\ o.w \in Workspaces /\ o.at <= now /\ o.kind \in {"rollout", "assign"}
  BY Constants, InForce DEF ApplyUpsert
<1>1. CASE Refused(i)
  BY <1>0, <1>1, LeavesKeeps DEF ApplyUpsert
<1>2. CASE ~Refused(i)
  <2>1. Hits(i, {o.w}) /\ Refreshes(x, i, "applied", {o.w})
    BY <1>2 DEF ApplyUpsert
  <2>2. /\ Others(x) /\ run'[x].job = i /\ run'[x].token = run[x].token /\ run'[x].w = run[x].w /\ run'[x].at = run[x].at
        /\ run'[x].todo = {o.w} /\ run'[x].pc = IF run'[x].todo = {} THEN "settle" ELSE "row"
    <3>1. PICK todo \in SUBSET Workspaces : todo = {o.w}
      BY <1>0
    <3>2. PICK out \in {"applied", "stale"} : Refreshes(x, i, out, todo)
      BY <2>1, <3>1
    <3>3. /\ Others(x) /\ run'[x].job = i /\ run'[x].token = run[x].token /\ run'[x].w = run[x].w /\ run'[x].at = run[x].at
          /\ run'[x].todo = todo /\ run'[x].pc = IF todo = {} THEN "settle" ELSE "row"
      <4>1. i \in Jobs /\ run[x].pc = "apply" /\ run[x].job = i
        BY <1>0
      <4> QED
        BY ONLY Owing, x \in Runs, <4>1, <3>2, out \in {"applied", "stale"}, todo \in SUBSET Workspaces, RefreshesFields
    <3> QED
      BY <3>1, <3>3
  <2>3. \A k \in Jobs : job'[k].st = job[k].st /\ job'[k].token = job[k].token /\ (k # i => job'[k].hit = job[k].hit)
    BY <1>0, <2>1, HitsFields
  <2>4. /\ moved \subseteq moved'
        /\ \A w \in Workspaces : w # o.w =>
             /\ SameView(w) \/ (item[w].sub # Provided /\ w \in Lent')
             /\ item'[w].id = item[w].id /\ item'[w].sub = item[w].sub /\ item'[w].from = item[w].from
        /\ \A s \in Subscriptions : o.w \in Active(s)' => o.w \in Active(s) \/ (s # Provided /\ <<s, o.w>> \in Assigned')
        /\ item'[o.w].from <= now
        /\ item'[o.w].id # None /\ item'[o.w].sub = Provided /\ sub'[Provided].window # Never =>
             item'[o.w].until # Never /\ item'[o.w].until >= sub'[Provided].window
        /\ sub'[Provided] = sub[Provided]
    <3>1. CASE SameItem(i) /\ item[o.w].id = i
      <4>1. UNCHANGED facts
        BY <1>2, <3>1 DEF ApplyUpsert
      <4> QED
        BY <1>0, <4>1 DEF facts, SameView, Active, Owing, Titles, Timely, Assigned
    <3>2. CASE ~(SameItem(i) /\ item[o.w].id = i)
      <4>1. Upserts(i) /\ UNCHANGED override
        BY <1>2, <3>2 DEF ApplyUpsert
      <4> QED
        BY <1>0, <1>2, <3>2, <4>1, UpsertViews
    <3> QED
      BY <3>1, <3>2
  <2>a. Assigned \subseteq Assigned'
    BY <2>4 DEF Assigned
  <2>5. \A s : \A w \in Workspaces : w # o.w => (w \in Active(s)' <=> w \in Active(s))
    BY <2>4 DEF Active
  <2>6. Pays(x, i, o.w)
    BY <1>0, <2>2 DEF Pays, Serves
  <2>7. ASSUME NEW k \in Jobs, k # i, NEW w \in Workspaces, w # o.w, Serves(k, w)
        PROVE  Serves(k, w)' \/ w \in Lent'
    <3>1. CASE k \in Events
      BY <2>5, <2>7, <3>1 DEF Serves
    <3>2. CASE k \notin Events /\ Order[k].kind = "end"
      <4> DEFINE s == Order[k].sub
      <4>1. k \in Intents /\ s \in Subscriptions
        BY <3>2, Constants DEF Jobs
      <4>2. w \in job[k].hit /\ w \in job'[k].hit /\ (w \in Active(s) \/ Active(s) = {})
        BY <2>3, <2>7, <3>2 DEF Serves
      <4>3. ASSUME Active(s) = {}, NEW v \in Active(s)'
            PROVE  w \in Lent'
        <5>1. v \in Workspaces /\ v = o.w
          BY <2>5, <4>3 DEF Active
        <5>2. s # Provided /\ <<s, o.w>> \in Assigned'
          BY <2>4, <4>1, <4>3, <5>1
        <5>3. <<s, w>> \in Assigned'
          BY <2>a, <3>2, <4>1, <4>2, <5>2 DEF Owing, Titles
        <5> QED
          BY <1>0, <2>7, <4>1, <5>2, <5>3 DEF Lent
      <4>4. w \in Lent' \/ w \in Active(s)' \/ Active(s)' = {}
        BY <2>5, <2>7, <4>2, <4>3
      <4> QED
        BY <3>2, <4>2, <4>4 DEF Serves
    <3>3. CASE k \notin Events /\ Order[k].kind # "end"
      BY <2>7, <3>3 DEF Serves
    <3> QED
      BY <3>1, <3>2, <3>3
  <2>8. ASSUME NEW w \in Workspaces
        PROVE  /\ item'[w].from <= now
               /\ \/ w \in Lent'
                  \/ /\ SameView(w) \/ Pays(x, i, w)
                     /\ Serves(i, w) => Pays(x, i, w)
                     /\ \A k \in Jobs : k # i /\ Serves(k, w) => Serves(k, w)' \/ Pays(x, i, w)
    <3>1. CASE w = o.w
      BY <2>4, <2>6, <3>1
    <3>2. CASE w # o.w
      <4>1. (SameView(w) \/ w \in Lent') /\ ~Serves(i, w)
        BY <1>0, <2>4, <3>2 DEF Serves
      <4>2. item'[w].from <= now
        BY <2>4, <3>2 DEF Owing, Timely
      <4> QED
        BY <2>7, <3>2, <4>1, <4>2
    <3> QED
      BY <3>1, <3>2
  <2>9. Titles'
    <3>1. ASSUME NEW w \in Workspaces, item'[w].id # None
          PROVE  /\ item'[w].sub = Provided \/ <<item'[w].sub, w>> \in Assigned'
                 /\ item'[w].sub = Provided /\ sub'[Provided].window # Never =>
                       item'[w].until # Never /\ item'[w].until >= sub'[Provided].window
      <4>1. CASE w # o.w
        BY <2>4, <2>a, <3>1, <4>1 DEF SameView, Owing, Titles
      <4>2. CASE w = o.w
        <5>1. PICK s \in Subscriptions : s = item'[w].sub
          BY SubsTyped DEF Kept, TypeOK, Items
        <5>2. w \in Active(s)'
          BY <3>1, <5>1 DEF Active
        <5>3. w \in Active(s) => item[w].id # None /\ item[w].sub = s
          BY DEF Active
        <5>4. w \in Active(s) \/ (s # Provided /\ <<s, w>> \in Assigned')
          BY <2>4, <4>2, <5>2
        <5>5. s = Provided \/ <<s, w>> \in Assigned'
          BY <2>a, <5>3, <5>4 DEF Owing, Titles
        <5> QED
          BY <2>4, <3>1, <4>2, <5>1, <5>5
      <4> QED
        BY <4>1, <4>2
    <3>2. \A k \in Intents : Order[k].kind = "end" => \A w \in job'[k].hit : Order[k].sub = Provided \/ <<Order[k].sub, w>> \in Assigned'
      <4>1. \A k \in Intents : Order[k].kind = "end" => k \in Jobs /\ k # i
        BY <1>0, Constants
      <4> QED
        BY <2>3, <2>a, <4>1 DEF Owing, Titles
    <3> QED
      BY <3>1, <3>2 DEF Titles
  <2>10. Applies(x)
    BY <1>0, <2>2, <2>3, <2>4, <2>8, <2>9 DEF Applies
  <2> QED
    BY <2>10, AppliesKeeps
<1> QED
  BY <1>1, <1>2

\* The end of a subscription takes its items away, all of them.
LEMMA CancelViews ==
    ASSUME Owing, NEW i \in Intents, Cancels(i), UNCHANGED override
    PROVE  /\ \A w \in Workspaces : w \notin Active(Order[i].sub) => SameView(w)
           /\ \A w \in Workspaces : item'[w] = item[w] \/ item'[w] = NoItem
           /\ \A s \in Subscriptions : sub'[s].window = sub[s].window
           /\ moved \subseteq moved'
           /\ Active(Order[i].sub)' = {}
<1> DEFINE o == Order[i]
           r == [sub[o.sub] EXCEPT !.cut = o.at, !.due = o.at, !.cause = i]
<1>0. TypeOK /\ sub \in [Subscriptions -> Subs] /\ o.sub \in Subscriptions
      /\ \A w \in Workspaces : item[w] \in Items /\ item[w].sub \in Subscriptions
  BY Constants, SubsTyped DEF Owing, Kept, TypeOK
<1>1. r.window = sub[o.sub].window
  BY <1>0 DEF Subs
<1>2. sub' = [sub EXCEPT ![o.sub] = r]
  BY DEF Cancels
<1> HIDE DEF r
<1>3. sub'[o.sub] = r /\ \A s \in Subscriptions : s # o.sub => sub'[s] = sub[s]
  BY <1>0, <1>2
<1>4. \A w \in Workspaces : item'[w] = IF w \in Active(o.sub) THEN NoItem ELSE item[w]
  BY DEF Cancels
<1>5. \A w \in Workspaces : w \notin Active(o.sub) => SameView(w)
  BY <1>0, <1>3, <1>4 DEF SameView, Active
<1>6. Active(o.sub)' = {}
  BY <1>4, NoItemTyped DEF Active
<1> QED
  BY <1>1, <1>3, <1>4, <1>5, <1>6 DEF Cancels

LEMMA EndKeeps ==
    ASSUME Owing, Kept', NEW x \in Runs, NEW i \in Intents, i = run[x].job, run[x].pc = "apply", Owns(x),
           ApplyEnd(x, i), UNCHANGED <<want, sound, now>>
    PROVE  Owing'
<1> DEFINE s == Order[i].sub
           hit == IF Active(s) # {} THEN Active(s) ELSE job[i].hit
<1>0. i \in Jobs /\ i \notin Events /\ s \in Subscriptions /\ Order[i].kind = "end" /\ hit \in SUBSET Workspaces
  BY Constants, JobHas DEF ApplyEnd, Active, JobStates, Owing, Kept
<1>1. \A w \in Workspaces : Serves(i, w) => w \in hit /\ w \in job[i].hit
  BY <1>0 DEF Serves
<1>a. \A w \in Workspaces : w \in Active(s) => w \in hit
  OBVIOUS
<1>b. \A w \in hit : s = Provided \/ <<s, w>> \in Assigned
  BY <1>0 DEF Active, Owing, Titles
<1>c. \/ Leaves(x, "drop") /\ UNCHANGED <<facts, job, order>>
      \/ UNCHANGED <<facts, job, order>> /\ Refreshes(x, i, "applied", hit)
      \/ Cancels(i) /\ Hits(i, hit) /\ UNCHANGED override /\ Refreshes(x, i, "applied", hit)
  BY DEF ApplyEnd
<1> HIDE DEF hit
<1>2. CASE Leaves(x, "drop") /\ UNCHANGED <<facts, job, order>>
  BY <1>0, <1>2, LeavesKeeps
<1>3. ASSUME Refreshes(x, i, "applied", hit)
      PROVE  /\ Others(x) /\ run'[x].job = i /\ run'[x].token = run[x].token /\ run'[x].w = run[x].w /\ run'[x].at = run[x].at
             /\ run'[x].todo = hit /\ run'[x].pc = IF run'[x].todo = {} THEN "settle" ELSE "row"
  BY <1>0, <1>3, RefreshesFields
<1>4. CASE UNCHANGED <<facts, job, order>> /\ Refreshes(x, i, "applied", hit)
  <2>1. \A k \in Jobs, w \in Workspaces : Serves(k, w) => Serves(k, w)'
    BY <1>4 DEF Serves, Active, facts
  <2>2. ASSUME NEW w \in Workspaces
        PROVE  /\ SameView(w)
               /\ Serves(i, w) => Pays(x, i, w)
               /\ \A k \in Jobs : k # i /\ Serves(k, w) => Serves(k, w)'
               /\ item'[w].from <= now
    BY <1>0, <1>1, <1>3, <1>4, <2>1 DEF SameView, facts, Pays, Owing, Timely
  <2>3. Titles'
    BY <1>4 DEF Owing, Titles, facts, Assigned
  <2>4. Applies(x)
    BY <1>0, <1>3, <1>4, <2>2, <2>3 DEF Applies, facts
  <2> QED
    BY <2>4, AppliesKeeps
<1>5. CASE Cancels(i) /\ Hits(i, hit) /\ UNCHANGED override /\ Refreshes(x, i, "applied", hit)
  <2>1. /\ \A k \in Jobs : job'[k].st = job[k].st /\ job'[k].token = job[k].token /\ (k # i => job'[k].hit = job[k].hit)
        /\ job'[i].hit = hit
    BY <1>0, <1>5, HitsFields
  <2>2. /\ \A w \in Workspaces : w \notin Active(s) => SameView(w)
        /\ \A w \in Workspaces : item'[w] = item[w] \/ item'[w] = NoItem
        /\ \A t \in Subscriptions : sub'[t].window = sub[t].window
        /\ moved \subseteq moved'
        /\ Active(s)' = {}
    BY <1>5, CancelViews
  <2>3. \A w \in Workspaces : w \in hit => Pays(x, i, w)
    BY <1>0, <1>3, <1>5, <2>1, <2>2 DEF Pays, Serves
  <2>4. \A t : Active(t)' \subseteq Active(t)
    BY <2>2, NoItemTyped DEF Active
  <2>5. ASSUME NEW k \in Jobs, k # i, NEW w \in Workspaces, w \notin Active(s), Serves(k, w)
        PROVE  Serves(k, w)'
    <3>1. \A t : w \in Active(t) => w \in Active(t)'
      BY <2>2, <2>5 DEF SameView, Active
    <3>2. job'[k].hit = job[k].hit
      BY <2>1, <2>5
    <3> QED
      BY <2>4, <2>5, <3>1, <3>2 DEF Serves
  <2>6. ASSUME NEW w \in Workspaces
        PROVE  /\ SameView(w) \/ Pays(x, i, w)
               /\ Serves(i, w) => Pays(x, i, w)
               /\ \A k \in Jobs : k # i /\ Serves(k, w) => Serves(k, w)' \/ Pays(x, i, w)
               /\ item'[w].from <= now
    <3>1. NoItem.from = 0 /\ 0 <= now
      BY TimeNow DEF NoItem
    <3>2. item'[w].from <= now
      BY <2>2, <3>1 DEF Owing, Timely
    <3> QED
      BY <1>1, <1>a, <2>2, <2>3, <2>5, <3>2
  <2>7. Titles'
    <3>1. ASSUME NEW w \in Workspaces, item'[w].id # None
          PROVE  item'[w] = item[w]
      BY <2>2, <3>1, NoItemTyped
    <3>a. Assigned \subseteq Assigned'
      BY <2>2 DEF Assigned
    <3>2. \A k \in Intents : Order[k].kind = "end" => \A w \in job'[k].hit : Order[k].sub = Provided \/ <<Order[k].sub, w>> \in Assigned'
      BY <1>b, <2>1, <3>a, Constants DEF Owing, Titles
    <3>3. sub'[Provided].window = sub[Provided].window
      BY <2>2, IntakeAssumption
    <3> QED
      BY <3>1, <3>2, <3>3, <3>a DEF Owing, Titles
  <2>8. Applies(x)
    BY <1>0, <1>3, <1>5, <2>1, <2>2, <2>6, <2>7 DEF Applies
  <2> QED
    BY <2>8, AppliesKeeps
<1> QED
  BY <1>c, <1>2, <1>4, <1>5

LEMMA OverrideKeeps ==
    ASSUME Owing, Kept', NEW x \in Runs, NEW i \in Intents, i = run[x].job, run[x].pc = "apply", Owns(x),
           ApplyOverride(x, i), UNCHANGED <<want, sound, now>>
    PROVE  Owing'
<1> DEFINE o == Order[i]
<1>0. i \in Jobs /\ i \notin Events /\ o.w \in Workspaces /\ o.kind \in {"override", "override_end"}
  BY Constants DEF ApplyOverride
<1>1. /\ \E by : override' = [override EXCEPT ![o.w] = by]
      /\ UNCHANGED <<sub, item, moved>> /\ Hits(i, {o.w}) /\ Refreshes(x, i, "applied", {o.w})
  BY DEF ApplyOverride
<1>2. /\ Others(x) /\ run'[x].job = i /\ run'[x].token = run[x].token /\ run'[x].w = run[x].w /\ run'[x].at = run[x].at
      /\ run'[x].todo = {o.w} /\ run'[x].pc = IF run'[x].todo = {} THEN "settle" ELSE "row"
  <2>1. PICK todo \in SUBSET Workspaces : todo = {o.w}
    BY <1>0
  <2>2. "applied" \in {"applied", "stale"} /\ Refreshes(x, i, "applied", todo)
    BY <1>1, <2>1
  <2>3. /\ Others(x) /\ run'[x].job = i /\ run'[x].token = run[x].token /\ run'[x].w = run[x].w /\ run'[x].at = run[x].at
        /\ run'[x].todo = todo /\ run'[x].pc = IF todo = {} THEN "settle" ELSE "row"
    <3>1. i \in Jobs /\ run[x].pc = "apply" /\ run[x].job = i
      BY <1>0
    <3> QED
      BY ONLY Owing, x \in Runs, <2>2, <3>1, todo \in SUBSET Workspaces, RefreshesFields
  <2> QED
    BY <2>1, <2>3
<1>3. \A k \in Jobs : job'[k].st = job[k].st /\ job'[k].token = job[k].token /\ (k # i => job'[k].hit = job[k].hit)
  BY <1>0, <1>1, HitsFields
<1>4. \A w \in Workspaces : w # o.w => SameView(w)
  BY <1>1 DEF SameView, Owing, Kept, TypeOK
<1>5. Pays(x, i, o.w)
  BY <1>0, <1>2 DEF Pays, Serves
<1>6. \A k \in Jobs, w \in Workspaces : k # i /\ Serves(k, w) => Serves(k, w)'
  BY <1>1, <1>3 DEF Serves, Active
<1>7. \A w \in Workspaces : Serves(i, w) => w = o.w
  BY <1>0 DEF Serves
<1>8. \A w \in Workspaces : item'[w].from <= now
  BY <1>1 DEF Owing, Timely
<1>9. Titles'
  <2>1. \A k \in Intents : Order[k].kind = "end" => k \in Jobs /\ k # i
    BY <1>0, Constants
  <2> QED
    BY <1>1, <1>3, <2>1 DEF Owing, Titles, Assigned
<1>10. Applies(x)
  BY <1>0, <1>1, <1>2, <1>3, <1>4, <1>5, <1>6, <1>7, <1>8, <1>9 DEF Applies
<1> QED
  BY <1>10, AppliesKeeps

LEMMA IntentKeeps ==
    ASSUME Owing, Kept', NEW x \in Runs, ApplyIntent(x)
    PROVE  Owing'
<1>1. run[x].job \in Intents /\ run[x].job \in Jobs /\ run[x].pc = "apply" /\ UNCHANGED <<want, sound, now>>
  BY Constants DEF ApplyIntent, At, world
<1>2. CASE ~Owns(x)
  BY <1>1, <1>2, LeavesKeeps DEF ApplyIntent
<1>3. CASE Owns(x)
  <2>1. PICK i \in Intents : i = run[x].job
    BY <1>1
  <2>2. ApplyUpsert(x, i) \/ ApplyEnd(x, i) \/ ApplyOverride(x, i)
    BY <1>3, <2>1 DEF ApplyIntent
  <2> QED
    BY <1>1, <1>3, <2>1, <2>2, UpsertKeeps, EndKeeps, OverrideKeeps
<1> QED
  BY <1>2, <1>3

LEMMA OwingFirst == Init => Owing
<1> SUFFICES ASSUME Init
             PROVE  Owing
  OBVIOUS
<1>1. Kept
  BY KeptFirst
<1>2. \A x \in Runs : run[x] = NoRun
  BY DEF Init
<1>3. \A x \in Runs : Framed(run[x]) /\ run[x].at <= now /\ ~Solo(x)
  BY <1>2, NoRunFields DEF Init, Framed, Flying, Solo
<1>4. Flights
  BY <1>3 DEF Flights
<1>5. \A w \in Workspaces : item[w] = FirstItem(w) /\ override[w] = None
                           /\ want[w].goal = [item |-> FirstItem(w), override |-> None]
  BY DEF Init
<1>6. \A w \in Workspaces : LET i == FirstItem(w) IN
        i.id = w /\ i.sub = Provided /\ i.from = 0 /\ i.until = Never /\ [i EXCEPT !.until = Never] = i
  <2> SUFFICES ASSUME NEW w \in Workspaces
               PROVE  LET i == FirstItem(w) IN
                 i.id = w /\ i.sub = Provided /\ i.from = 0 /\ i.until = Never /\ [i EXCEPT !.until = Never] = i
    OBVIOUS
  <2> DEFINE i == FirstItem(w)
  <2>1. i \in Items
    BY FirstItemTyped
  <2>2. i.id = w /\ i.sub = Provided /\ i.from = 0 /\ i.until = Never
    BY DEF FirstItem, NoItem
  <2> HIDE DEF i
  <2>3. [i EXCEPT !.until = Never] = i
    BY <2>1, <2>2 DEF Items
  <2> QED
    BY <2>2, <2>3 DEF i
<1>7. \A s \in Subscriptions : sub[s].cut = Never /\ sub[s].due = Never /\ sub[s].window = Never
  <2> DEFINE r == [NoSub EXCEPT !.st = "there"]
  <2>1. /\ r.cut = Never /\ r.due = Never /\ r.window = Never
        /\ NoSub.cut = Never /\ NoSub.due = Never /\ NoSub.window = Never
    BY DEF NoSub
  <2>2. \A s \in Subscriptions : sub[s] = r \/ sub[s] = NoSub
    BY DEF Init
  <2> HIDE DEF r
  <2> QED
    BY <2>1, <2>2
<1>a. \A j \in Jobs : job[j].st = "absent" /\ job[j].hit = {}
  BY DEF Init, NoJob
<1>8. Timely
  <2>1. now = 0 /\ \A w \in Workspaces : item[w].from <= now
    BY <1>5, <1>6 DEF Init
  <2>2. \A i \in Intents : job[i].st = "absent"
    BY <1>a, Constants
  <2> QED
    BY <1>3, <2>1, <2>2 DEF Timely
<1>9. Titles
  <2>1. \A i \in Intents : job[i].hit = {}
    BY <1>a, Constants
  <2>2. Provided \in Subscriptions
    BY IntakeAssumption
  <2>3. sub[Provided].window = Never
    BY <1>7, <2>2
  <2>4. \A w \in Workspaces : item[w].sub = Provided
    BY <1>5, <1>6
  <2> QED
    BY <2>1, <2>3, <2>4 DEF Titles
<1>10. ASSUME NEW w \in Workspaces
       PROVE  Good(w)
  <2> DEFINE i == FirstItem(w)
  <2>1. 0 < Never /\ Never \in Nat /\ w # None /\ now = 0 /\ Provided \in Subscriptions
    BY NatTimes, Constants, IntakeAssumption DEF Init
  <2>2. Resolved(i, sub[Provided], None, 0) = [item |-> i, override |-> None]
    BY <1>6, <1>7, <2>1 DEF Resolved
  <2>3. Entitled(w, now) = Resolved(i, sub[Provided], None, 0)
    BY <1>5, <1>6, <2>1 DEF Entitled
  <2> QED
    BY <1>5, <2>2, <2>3 DEF Good
<1>11. Owed
  BY <1>10 DEF Owed
<1> QED
  BY <1>1, <1>3, <1>4, <1>8, <1>9, <1>11 DEF Owing

LEMMA OwingStays ==
    ASSUME Owing, [Next]_vars
    PROVE  Owing'
<1>0. Kept'
  BY KeptStays DEF Owing
<1>1. CASE Next
  <2>1. ASSUME NEW x \in Runs, Works(x) \/ Sweep(x) \/ Suffers(x)
        PROVE  Owing'
    <3>1. CASE ClaimEvent(x) \/ ClaimIntent(x) \/ ClaimLost(x)
      BY <1>0, <3>1, ClaimPasses, PassesKeeps
    <3>2. CASE ApplyEvent(x) \/ ApplyIntent(x)
      BY <1>0, <3>2, EventKeeps, IntentKeeps
    <3>3. CASE ReadRow(x) \/ ReadItems(x) \/ Sweep(x) \/ Throws(x) \/ Abandon(x)
      BY <1>0, <3>3, ReadRowPasses, ReadItemsPasses, SweepPasses, StopsPasses, PassesKeeps
    <3>4. CASE ReadSources(x) \/ Commit(x)
      BY <1>0, <3>4, ReadSourcesKeeps, CommitKeeps
    <3>5. CASE Settle(x) \/ Fail(x)
      BY <1>0, <3>5, ClosePasses, PassesKeeps
    <3> QED
      BY <2>1, <3>1, <3>2, <3>3, <3>4, <3>5 DEF Works, Suffers
  <2>2. ASSUME NEW j \in Jobs, Arrive(j) \/ Backoff(j) \/ Expire(j)
        PROVE  Owing'
    BY <1>0, <2>2, JobStepPasses, PassesKeeps
  <2>3. CASE Tick
    BY <1>0, <2>3, TickPasses, PassesKeeps
  <2> QED
    BY <1>1, <2>1, <2>2, <2>3 DEF Next
<1>2. CASE UNCHANGED vars
  <2>1. UNCHANGED <<job, facts, want, run, sound, now>>
    BY <1>2 DEF vars, facts
  <2>2. now' \in Nat /\ now <= now'
    BY <2>1, TimeNow
  <2>3. \A y \in Runs : \A k \in Jobs : Owner(y, k)' => Owner(y, k)
    BY <2>1 DEF Owner, Owns
  <2>4. \A y \in Runs : RunPasses(y)
    BY <2>1, <2>2, <2>3, StillPasses
  <2>5. Passes
    BY <2>1, <2>2, <2>4, JobsSame DEF Passes
  <2> QED
    BY <1>0, <2>5, PassesKeeps
<1> QED
  BY <1>1, <1>2

\* Once every job is closed and none was given up, nobody is owed anything.
LEMMA OwingEntitled == Owing => WantedIsEntitled
<1> SUFFICES ASSUME Owing, Quiet, NEW w \in Workspaces, sound[w] = "yes", w \notin Lent
             PROVE  want[w].goal = Entitled(w, now) \/ Due(w) \/ Awaits(w)
  BY DEF WantedIsEntitled
<1>1. Clean /\ \A j \in Jobs : job[j].st \notin Open
  BY DEF Quiet, Clean, Open
<1>2. w \in Lent \/ sound[w] = "no" \/ Good(w) \/ \E j \in Jobs : Owes(j, w)
  BY <1>1 DEF Owing, Owed
<1>3. now \in Nat /\ sub[item[w].sub].due \in Nat
  <2>1. item[w] \in Items /\ sub[item[w].sub] \in Subs
    BY SubsTyped DEF Owing, Kept, TypeOK, Items
  <2> QED
    BY <2>1, TimeNow, NatTimes DEF Subs
<1>4. Over(w) => Due(w) \/ Awaits(w)
  BY <1>3 DEF Over, Due, Awaits
<1> QED
  BY <1>1, <1>2, <1>4 DEF Good, Owes

\* Once nothing is under way a workspace that shares its subscription with no other wants what it is
\* entitled to, or the sweep is to come: what is changed of it is owed to it until a refresh that began
\* afterwards has come to its end.
THEOREM WantedEntitled == Spec => []WantedIsEntitled
<1>1. Owing /\ [Next]_vars => Owing'
  BY OwingStays
<1> QED
  BY OwingFirst, OwingEntitled, <1>1, PTL DEF Spec

=============================================================================
