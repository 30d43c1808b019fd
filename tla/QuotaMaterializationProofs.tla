---------------------- MODULE QuotaMaterializationProofs ----------------------
(***************************************************************************)
(* What the materialization of quota policies promises, for every set of   *)
(* workspaces and workers, any number of projections, and whatever their   *)
(* leases, the queries and the database suffer.                            *)
(***************************************************************************)
EXTENDS QuotaMaterialization, SequenceTheorems, TLAPS

-----------------------------------------------------------------------------
(* Types of the helpers                                                    *)

\* An operation that is taken out leaves a sequence of operations.
LEMMA WithoutKeeps ==
    ASSUME NEW S, NEW seq \in Seq(S), NEW r
    PROVE  Without(seq, r) \in Seq(S)
<1>1. CASE \E n \in 1..Len(seq) : seq[n] = r
  <2> DEFINE n == CHOOSE n \in 1..Len(seq) : seq[n] = r
  <2>1. n \in 1..Len(seq)
    BY <1>1
  <2> HIDE DEF n
  <2>2. Len(seq) \in Nat
    BY LenProperties
  <2>3. SubSeq(seq, 1, n - 1) \in Seq(S) /\ SubSeq(seq, n + 1, Len(seq)) \in Seq(S)
    BY <2>1, <2>2, SubSeqProperties
  <2>4. SubSeq(seq, 1, n - 1) \o SubSeq(seq, n + 1, Len(seq)) \in Seq(S)
    BY <2>3, ConcatProperties
  <2> QED
    BY <1>1, <2>4 DEF Without, n
<1>2. CASE ~\E n \in 1..Len(seq) : seq[n] = r
  BY <1>2 DEF Without
<1> QED
  BY <1>1, <1>2

\* What INFO sees is an observation, and the policy of a projection a policy.
LEMMA ObservedTyped ==
    ASSUME TypeOK, NEW w \in Workspaces
    PROVE  Observed(w) \in Observations /\ Observed(w).pol = native[w].pol
           /\ (native[w].pol # None => Observed(w).gen = native[w].gen)
<1>1. native[w] \in Observations
  BY DEF TypeOK
<1> QED
  BY <1>1 DEF Observations, Observed

LEMMA ContentsArePolicies ==
    \A r \in Revisions : Content[r] \in Policies /\ Content[r] # None /\ Content[r] # Foreign
  BY QuotaAssumption DEF Policies, Contents

LEMMA NoObsTyped == NoObs \in Observations
  BY DEF NoObs, Observations, Policies, Ledgers

LEMMA NoRunTyped == NoRun \in RunStates /\ NoRun.pc = "idle"
<1>1. NoOut \in Outs
  BY DEF NoOut, Outs
<1> QED
  BY <1>1, NoObsTyped, QuotaAssumption DEF NoRun, RunStates, Pcs

-----------------------------------------------------------------------------
(* How a run of a worker moves                                             *)

\* The run x goes to pc with its operation, and no other run moves.
Moved(x, pc) ==
    /\ wk' \in [Workers -> RunStates]
    /\ wk'[x].pc = pc /\ wk'[x].w = wk[x].w /\ wk'[x].r = wk[x].r
    /\ wk'[x].token = wk[x].token /\ wk'[x].mode = wk[x].mode
    /\ \A y \in Workers : y # x => wk'[y] = wk[y]

\* What it keeps when it goes.
Keeps(x) == wk'[x].obs = wk[x].obs /\ wk'[x].ddl = wk[x].ddl /\ wk'[x].out = wk[x].out

LEMMA GotoMoves ==
    ASSUME TypeOK, NEW x \in Workers, NEW pc \in Pcs, Goto(x, pc)
    PROVE  Moved(x, pc) /\ Keeps(x)
<1> DEFINE r == [wk[x] EXCEPT !.pc = pc]
<1>1. /\ r \in RunStates /\ r.pc = pc /\ r.w = wk[x].w /\ r.r = wk[x].r /\ r.token = wk[x].token
      /\ r.mode = wk[x].mode /\ r.obs = wk[x].obs /\ r.ddl = wk[x].ddl /\ r.out = wk[x].out
  BY DEF TypeOK, RunStates
<1>2. wk' = [wk EXCEPT ![x] = r]
  BY DEF Goto
<1> HIDE DEF r
<1> QED
  BY <1>1, <1>2 DEF Moved, Keeps, TypeOK

LEMMA RenewsMoves ==
    ASSUME TypeOK, NEW x \in Workers, NEW ddl \in {"rebuild", "apply"}, NEW obs \in Observations, Renews(x, ddl, obs)
    PROVE  Moved(x, "renew") /\ wk'[x].ddl = ddl /\ wk'[x].obs = obs
<1> DEFINE r == [wk[x] EXCEPT !.pc = "renew", !.ddl = ddl, !.obs = obs]
<1>1. /\ r \in RunStates /\ r.pc = "renew" /\ r.w = wk[x].w /\ r.r = wk[x].r /\ r.token = wk[x].token
      /\ r.mode = wk[x].mode /\ r.obs = obs /\ r.ddl = ddl
  BY DEF TypeOK, RunStates, Pcs
<1>2. wk' = [wk EXCEPT ![x] = r]
  BY DEF Renews
<1> HIDE DEF r
<1> QED
  BY <1>1, <1>2 DEF Moved, TypeOK

LEMMA ThrowsMoves ==
    ASSUME TypeOK, NEW x \in Workers, NEW error \in {"lost", "final", "changed"}, Throws(x, error)
    PROVE  Moved(x, "recover")
<1> DEFINE r == [wk[x] EXCEPT !.pc = "recover", !.err = error]
<1>1. /\ r \in RunStates /\ r.pc = "recover" /\ r.w = wk[x].w /\ r.r = wk[x].r /\ r.token = wk[x].token
      /\ r.mode = wk[x].mode
  BY DEF TypeOK, RunStates, Pcs
<1>2. wk' = [wk EXCEPT ![x] = r]
  BY DEF Throws
<1> HIDE DEF r
<1> QED
  BY <1>1, <1>2 DEF Moved, TypeOK

LEMMA EndsMoves ==
    ASSUME TypeOK, NEW x \in Workers, NEW gen \in Nat,
           NEW kind \in {"none", "succeeded", "superseded", "terminal", "retry", "lease_lost"},
           NEW sync \in {"pending", "in_sync", "error", "external_drift"}, NEW unknown \in {"yes", "no"},
           Ends(x, kind, gen, sync, unknown)
    PROVE  Moved(x, "settle") /\ wk'[x].out.kind = kind
<1> DEFINE out == [kind |-> kind, gen |-> gen, sync |-> sync, unknown |-> unknown]
<1>1. out \in Outs /\ out.kind = kind
  BY DEF Outs
<1>2. wk' = [wk EXCEPT ![x].pc = "settle", ![x].out = out]
  BY DEF Ends
<1> HIDE DEF out
<1> DEFINE r == [wk[x] EXCEPT !.pc = "settle", !.out = out]
<1>3. /\ r \in RunStates /\ r.pc = "settle" /\ r.w = wk[x].w /\ r.r = wk[x].r /\ r.token = wk[x].token
      /\ r.mode = wk[x].mode /\ r.out = out
  BY <1>1 DEF TypeOK, RunStates, Pcs
<1>4. wk' = [wk EXCEPT ![x] = r]
  BY <1>2
<1> HIDE DEF r
<1> QED
  BY <1>1, <1>3, <1>4 DEF Moved, TypeOK

LEMMA IdleMoves ==
    ASSUME TypeOK, NEW x \in Workers, wk' = [wk EXCEPT ![x] = NoRun]
    PROVE  wk' \in [Workers -> RunStates] /\ wk'[x].pc = "idle" /\ \A y \in Workers : y # x => wk'[y] = wk[y]
  BY NoRunTyped DEF TypeOK

\* The new record of the run x is one.
LEMMA RunBecomes ==
    ASSUME TypeOK, NEW x \in Workers, NEW r \in RunStates, wk' = [wk EXCEPT ![x] = r]
    PROVE  wk' \in [Workers -> RunStates] /\ wk'[x] = r /\ \A y \in Workers : y # x => wk'[y] = wk[y]
  BY DEF TypeOK

-----------------------------------------------------------------------------
(* What a statement may rest on                                            *)

\* The run x has looked at the database and is to change its policy.
MayApply(x) == wk[x].pc = "apply" \/ (wk[x].pc = "renew" /\ wk[x].ddl = "apply")

\* It looks now, at a policy that it may replace.
Looked(x) ==
    LET w == wk[x].w IN
    /\ wk'[x].obs = Observed(w) /\ native[w].pol # Target(x)
    /\ native[w].pol = Foreign => wk[x].mode = "reapply"

\* A step of the run x: it succeeds with what the database has, and applies after a look.
Goes(x) ==
    /\ wk[x].pc # "idle"
    /\ \E pc \in Pcs \ {"idle"} : Moved(x, pc)
    /\ wk'[x].pc = "settle" /\ wk'[x].out.kind = "succeeded" => native[wk[x].w].pol = Target(x)
    /\ MayApply(x)' => (MayApply(x) /\ wk'[x].obs = wk[x].obs) \/ Looked(x)

\* A run that settles goes, when its success is true.
LEMMA EndsGoes ==
    ASSUME TypeOK, NEW x \in Workers, wk[x].pc # "idle", NEW gen \in Nat,
           NEW kind \in {"none", "succeeded", "superseded", "terminal", "retry", "lease_lost"},
           NEW sync \in {"pending", "in_sync", "error", "external_drift"}, NEW unknown \in {"yes", "no"},
           Ends(x, kind, gen, sync, unknown), kind = "succeeded" => native[wk[x].w].pol = Target(x)
    PROVE  Goes(x)
<1>1. Moved(x, "settle") /\ wk'[x].out.kind = kind
  BY EndsMoves
<1>2. wk'[x].pc = "settle"
  BY <1>1 DEF Moved
<1> QED
  BY <1>1, <1>2 DEF Goes, MayApply, Pcs

LEMMA ObsGens == \A obs \in Observations : obs.gen \in Nat
  BY DEF Observations

LEMMA SucceedsGoes ==
    ASSUME TypeOK, NEW x \in Workers, wk[x].pc # "idle", NEW obs \in Observations, Succeeds(x, obs),
           native[wk[x].w].pol = Target(x)
    PROVE  Goes(x)
  BY EndsGoes, ObsGens DEF Succeeds

LEMMA FailsGoes ==
    ASSUME TypeOK, NEW x \in Workers, wk[x].pc # "idle", NEW obs \in Observations,
           NEW sync \in {"pending", "in_sync", "error", "external_drift"}, Fails(x, sync, obs)
    PROVE  Goes(x)
  BY EndsGoes, ObsGens DEF Fails

LEMMA RetriesGoes ==
    ASSUME TypeOK, NEW x \in Workers, wk[x].pc # "idle", NEW obs \in Observations,
           NEW unknown \in {"yes", "no"}, Retries(x, unknown, obs)
    PROVE  Goes(x)
  BY EndsGoes, ObsGens DEF Retries

LEMMA ThrowsGoes ==
    ASSUME TypeOK, NEW x \in Workers, wk[x].pc # "idle", NEW error \in {"lost", "final", "changed"}, Throws(x, error)
    PROVE  Goes(x)
<1>1. Moved(x, "recover")
  BY ThrowsMoves
<1>2. wk'[x].pc = "recover"
  BY <1>1 DEF Moved
<1> QED
  BY <1>1, <1>2 DEF Goes, MayApply, Pcs

\* A run that goes on to a statement: a rebuild, or an application after a look that allows it.
LEMMA RenewsGoes ==
    ASSUME TypeOK, NEW x \in Workers, wk[x].pc # "idle", NEW ddl \in {"rebuild", "apply"},
           NEW obs \in Observations, Renews(x, ddl, obs),
           ddl = "apply" => /\ obs = Observed(wk[x].w) /\ native[wk[x].w].pol # Target(x)
                            /\ native[wk[x].w].pol = Foreign => wk[x].mode = "reapply"
    PROVE  Goes(x)
<1>1. Moved(x, "renew") /\ wk'[x].ddl = ddl /\ wk'[x].obs = obs
  BY RenewsMoves
<1>2. wk'[x].pc = "renew"
  BY <1>1 DEF Moved
<1> QED
  BY <1>1, <1>2 DEF Goes, MayApply, Looked, Pcs

LEMMA WorkingHas ==
    ASSUME TypeOK, NEW x \in Workers, wk[x].pc # "idle"
    PROVE  wk[x].w \in Workspaces /\ wk[x].r \in Revisions /\ wk[x].ddl \in {"rebuild", "apply"}
           /\ wk[x].applied \in 0..MaxRevision /\ Observed(wk[x].w) \in Observations
           /\ Observed(wk[x].w).pol = native[wk[x].w].pol /\ wk[x].obs \in Observations
<1>1. wk[x].w \in Workspaces /\ wk[x].r \in Revisions /\ wk[x] \in RunStates
  BY DEF TypeOK
<1> QED
  BY <1>1, ObservedTyped DEF RunStates

\* A foreign policy has drifted, whatever was applied.
LEMMA ForeignDrifts ==
    ASSUME TypeOK, NEW x \in Workers, wk[x].pc # "idle", NEW obs, obs.pol = Foreign
    PROVE  Drifted(x, obs)
<1>1. Foreign # None
  BY QuotaAssumption
<1>2. wk[x].applied # 0 => wk[x].applied \in Revisions
  BY WorkingHas, QuotaAssumption DEF Revisions
<1> QED
  BY <1>1, <1>2, ContentsArePolicies DEF Drifted

LEMMA JudgeGoes ==
    ASSUME TypeOK, NEW x \in Workers, wk[x].pc # "idle", Judge(x, Observed(wk[x].w))
    PROVE  Goes(x)
<1> DEFINE obs == Observed(wk[x].w)
<1>1. obs \in Observations /\ obs.pol = native[wk[x].w].pol
  BY WorkingHas
<1>2. CASE obs.pol = Target(x)
  <2>1. Succeeds(x, obs)
    BY <1>2 DEF Judge
  <2> QED
    BY <1>1, <1>2, <2>1, SucceedsGoes
<1>3. CASE obs.pol # Target(x) /\ Drifted(x, obs) /\ wk[x].mode # "reapply"
  <2>1. Fails(x, "external_drift", obs)
    BY <1>3 DEF Judge
  <2> QED
    BY <1>1, <2>1, FailsGoes
<1>4. CASE obs.pol # Target(x) /\ ~(Drifted(x, obs) /\ wk[x].mode # "reapply")
  <2>1. Renews(x, "apply", obs)
    BY <1>4 DEF Judge
  <2>2. obs.pol = Foreign => wk[x].mode = "reapply"
    BY <1>4, ForeignDrifts
  <2> QED
    BY <1>1, <1>4, <2>1, <2>2, RenewsGoes
<1> QED
  BY <1>2, <1>3, <1>4

\* Every step of a run between its claim and its settlement goes.
Proceeds(x) ==
    \/ Load(x) \/ Info(x) \/ InfoThrows(x) \/ Renew(x) \/ Rebuild(x) \/ Reread(x)
    \/ Apply(x) \/ DdlLost(x) \/ Readback(x) \/ Recover(x) \/ ReadThrows(x)

LEMMA ProceedsGoes ==
    ASSUME TypeOK, NEW x \in Workers, Proceeds(x)
    PROVE  Goes(x)
<1> DEFINE w == wk[x].w
<1> DEFINE obs == Observed(w)
<1>0. wk[x].pc # "idle"
  BY DEF Proceeds, At, Load, Info, InfoThrows, Renew, Rebuild, Reread, Apply, DdlLost, Readback, Recover, ReadThrows
<1>h. w \in Workspaces /\ obs \in Observations /\ obs.pol = native[w].pol /\ wk[x].obs \in Observations /\ wk[x].ddl \in {"rebuild", "apply"}
  BY <1>0, WorkingHas
<1>g. wk[x].obs.gen \in Nat /\ 0 \in Nat
  BY <1>h DEF Observations
<1> HIDE DEF obs
<1>1. CASE Load(x)
  <2>1. CASE Ends(x, "superseded", 0, "pending", "no")
    BY <1>0, <1>g, <2>1, EndsGoes
  <2>2. CASE Fails(x, "error", NoObs)
    BY <1>0, <2>2, FailsGoes, NoObsTyped
  <2>3. CASE wk' = [wk EXCEPT ![x].pc = "info", ![x].applied = ws[w].applied, ![x].gen = rt[w].gen]
    <3> DEFINE r == [wk[x] EXCEPT !.pc = "info", !.applied = ws[w].applied, !.gen = rt[w].gen]
    <3>1. ws[w].applied \in 0..MaxRevision /\ rt[w].gen \in Nat
      BY <1>h DEF TypeOK, Projections, Runtimes
    <3>2. /\ r \in RunStates /\ r.pc = "info" /\ r.w = wk[x].w /\ r.r = wk[x].r /\ r.token = wk[x].token
          /\ r.mode = wk[x].mode
      BY <3>1 DEF TypeOK, RunStates, Pcs
    <3>3. wk' = [wk EXCEPT ![x] = r]
      BY <2>3
    <3> HIDE DEF r
    <3>4. Moved(x, "info") /\ wk'[x].pc = "info"
      BY <3>2, <3>3 DEF Moved, TypeOK
    <3> QED
      BY <1>0, <3>4 DEF Goes, MayApply, Pcs
  <2> QED
    BY <1>1, <2>1, <2>2, <2>3 DEF Load
<1>2. CASE Info(x)
  <2>1. CASE Judge(x, obs)
    BY <1>0, <2>1, JudgeGoes DEF obs
  <2>2. CASE Retries(x, "no", obs)
    BY <1>0, <1>h, <2>2, RetriesGoes
  <2>3. CASE Renews(x, "rebuild", obs)
    BY <1>0, <1>h, <2>3, RenewsGoes
  <2> QED
    BY <1>2, <2>1, <2>2, <2>3 DEF Info, obs
<1>3. CASE InfoThrows(x)
  BY <1>0, <1>3, RetriesGoes, NoObsTyped DEF InfoThrows
<1>4. CASE Renew(x)
  <2>1. CASE Goto(x, wk[x].ddl)
    <3>1. wk[x].ddl \in Pcs /\ wk[x].ddl # "idle"
      BY <1>h DEF Pcs
    <3>2. Moved(x, wk[x].ddl) /\ Keeps(x)
      BY <2>1, <3>1, GotoMoves
    <3>3. wk'[x].pc = wk[x].ddl /\ wk[x].pc = "renew"
      BY <1>4, <3>2 DEF Moved, Renew, At
    <3>4. wk'[x].pc # "settle" /\ wk'[x].pc # "renew"
      BY <3>3, <1>h
    <3> QED
      BY <1>0, <3>1, <3>2, <3>3, <3>4 DEF Goes, MayApply, Keeps
  <2>2. CASE Ends(x, "lease_lost", wk[x].obs.gen, "pending", "no")
    BY <1>0, <1>g, <2>2, EndsGoes
  <2> QED
    BY <1>4, <2>1, <2>2 DEF Renew
<1>5. CASE Rebuild(x)
  <2>1. Moved(x, "reread") /\ wk'[x].pc = "reread"
    BY <1>5, GotoMoves DEF Rebuild, Pcs, Moved
  <2> QED
    BY <1>0, <2>1 DEF Goes, MayApply, Pcs
<1>6. CASE Reread(x)
  <2>1. CASE Judge(x, obs)
    BY <1>0, <2>1, JudgeGoes DEF obs
  <2>2. CASE Retries(x, "no", obs)
    BY <1>0, <1>h, <2>2, RetriesGoes
  <2> QED
    BY <1>6, <2>1, <2>2 DEF Reread, obs
<1>7. CASE Apply(x)
  <2>1. CASE Goto(x, "readback")
    <3>1. Moved(x, "readback") /\ wk'[x].pc = "readback"
      BY <2>1, GotoMoves DEF Pcs, Moved
    <3> QED
      BY <1>0, <3>1 DEF Goes, MayApply, Pcs
  <2>2. CASE Throws(x, "final") \/ Throws(x, "changed")
    BY <1>0, <2>2, ThrowsGoes
  <2> QED
    BY <1>7, <2>1, <2>2 DEF Apply
<1>8. CASE DdlLost(x)
  BY <1>0, <1>8, ThrowsGoes DEF DdlLost
<1>9. CASE Readback(x)
  <2>1. CASE obs.pol = Target(x) /\ Succeeds(x, obs)
    BY <1>0, <1>h, <2>1, SucceedsGoes
  <2>2. CASE Fails(x, "external_drift", obs)
    BY <1>0, <1>h, <2>2, FailsGoes
  <2>3. CASE Retries(x, "no", obs)
    BY <1>0, <1>h, <2>3, RetriesGoes
  <2> QED
    BY <1>9, <2>1, <2>2, <2>3 DEF Readback, obs
<1>10. CASE Recover(x)
  <2>1. CASE obs.pol = Target(x) /\ Succeeds(x, obs)
    BY <1>0, <1>h, <2>1, SucceedsGoes
  <2>2. CASE Fails(x, "external_drift", obs) \/ Fails(x, "error", obs)
    BY <1>0, <1>h, <2>2, FailsGoes
  <2>3. CASE Retries(x, "no", obs) \/ Retries(x, "yes", obs)
    BY <1>0, <1>h, <2>3, RetriesGoes
  <2> QED
    BY <1>10, <2>1, <2>2, <2>3 DEF Recover, obs
<1>11. CASE ReadThrows(x)
  <2>1. CASE Fails(x, "error", NoObs)
    BY <1>0, <2>1, FailsGoes, NoObsTyped
  <2>2. CASE Retries(x, "yes", NoObs)
    BY <1>0, <2>2, RetriesGoes, NoObsTyped
  <2> QED
    BY <1>11, <2>1, <2>2 DEF ReadThrows
<1> QED
  BY <1>1, <1>2, <1>3, <1>4, <1>5, <1>6, <1>7, <1>8, <1>9, <1>10, <1>11 DEF Proceeds

-----------------------------------------------------------------------------
(* What the database goes through                                          *)

\* The policy in force is one of those since the last claim.
Present == \A w \in Workspaces : native[w].pol \in since[w]

\* Generations only grow, and while one lasts its policy stays or is removed.
Grows ==
    /\ native' \in [Workspaces -> Observations]
    /\ since' \in [Workspaces -> SUBSET Policies]
    /\ \A w \in Workspaces :
         /\ native'[w].gen >= native[w].gen
         /\ native'[w].gen = native[w].gen => native'[w].pol \in {native[w].pol, None}
         /\ since[w] \subseteq since'[w] /\ native'[w].pol \in since'[w]

LEMMA NativeTyped ==
    ASSUME TypeOK, NEW w \in Workspaces
    PROVE  native[w].gen \in Nat /\ native[w].pol \in Policies /\ since[w] \subseteq Policies
  BY DEF TypeOK, Observations

LEMMA SameGrows ==
    ASSUME TypeOK, Present, UNCHANGED <<native, since>>
    PROVE  Grows
  BY NativeTyped DEF Grows, Present, TypeOK

LEMMA DefinedGrows ==
    ASSUME TypeOK, Present, NEW w \in Workspaces, NEW pol \in Policies, Defined(w, pol)
    PROVE  Grows /\ native'[w].pol = pol /\ \A v \in Workspaces : v # w => native'[v] = native[v]
<1> DEFINE n == [native[w] EXCEPT !.pol = pol, !.gen = native[w].gen + 1]
<1>a. native[w] \in Observations /\ native[w].gen + 1 \in Nat
  BY NativeTyped DEF TypeOK
<1>1. n \in Observations /\ n.pol = pol /\ n.gen = native[w].gen + 1
  BY <1>a DEF Observations
<1>2. native' = [native EXCEPT ![w] = n]
  BY DEF Defined
<1> HIDE DEF n
<1>3. since' = [since EXCEPT ![w] = since[w] \cup {pol}]
  BY DEF Defined
<1>4. native' \in [Workspaces -> Observations] /\ since' \in [Workspaces -> SUBSET Policies]
  BY <1>1, <1>2, <1>3, NativeTyped DEF TypeOK
<1>5. native'[w] = n /\ \A v \in Workspaces : v # w => native'[v] = native[v]
  BY <1>2 DEF TypeOK
<1>6. since'[w] = since[w] \cup {pol} /\ \A v \in Workspaces : v # w => since'[v] = since[v]
  BY <1>3 DEF TypeOK
<1>7. ASSUME NEW v \in Workspaces
      PROVE  /\ native'[v].gen >= native[v].gen
             /\ native'[v].gen = native[v].gen => native'[v].pol \in {native[v].pol, None}
             /\ since[v] \subseteq since'[v] /\ native'[v].pol \in since'[v]
  <2>1. CASE v = w
    BY <1>1, <1>5, <1>6, <2>1, NativeTyped
  <2>2. CASE v # w
    BY <1>5, <1>6, <2>2, NativeTyped DEF Present
  <2> QED
    BY <2>1, <2>2
<1> QED
  BY <1>1, <1>4, <1>5, <1>7 DEF Grows

LEMMA RemoveGrows ==
    ASSUME TypeOK, Present, NEW w \in Workspaces, Remove(w)
    PROVE  Grows
<1> DEFINE n == [native[w] EXCEPT !.pol = None]
<1>1. n \in Observations /\ n.pol = None /\ n.gen = native[w].gen
  BY DEF TypeOK, Observations, Policies
<1>2. native' = [native EXCEPT ![w] = n] /\ since' = [since EXCEPT ![w] = since[w] \cup {None}]
  BY DEF Remove
<1> HIDE DEF n
<1>3. None \in Policies
  BY DEF Policies
<1>4. native' \in [Workspaces -> Observations] /\ since' \in [Workspaces -> SUBSET Policies]
  BY <1>1, <1>2, <1>3, NativeTyped DEF TypeOK
<1>5. native'[w] = n /\ \A v \in Workspaces : v # w => native'[v] = native[v]
  BY <1>2 DEF TypeOK
<1>6. since'[w] = since[w] \cup {None} /\ \A v \in Workspaces : v # w => since'[v] = since[v]
  BY <1>2 DEF TypeOK
<1>7. ASSUME NEW v \in Workspaces
      PROVE  /\ native'[v].gen >= native[v].gen
             /\ native'[v].gen = native[v].gen => native'[v].pol \in {native[v].pol, None}
             /\ since[v] \subseteq since'[v] /\ native'[v].pol \in since'[v]
  <2>1. CASE v = w
    BY <1>1, <1>5, <1>6, <2>1, NativeTyped
  <2>2. CASE v # w
    BY <1>5, <1>6, <2>2, NativeTyped DEF Present
  <2> QED
    BY <2>1, <2>2
<1> QED
  BY <1>4, <1>7 DEF Grows

LEMMA LedgerGrows ==
    ASSUME TypeOK, Present, NEW w \in Workspaces, NEW l \in Ledgers,
           native' = [native EXCEPT ![w].ledger = l], UNCHANGED since
    PROVE  Grows
<1> DEFINE n == [native[w] EXCEPT !.ledger = l]
<1>1. n \in Observations /\ n.pol = native[w].pol /\ n.gen = native[w].gen
  BY DEF TypeOK, Observations
<1>2. native' = [native EXCEPT ![w] = n]
  OBVIOUS
<1> HIDE DEF n
<1>3. native' \in [Workspaces -> Observations] /\ since' \in [Workspaces -> SUBSET Policies]
  BY <1>1, <1>2 DEF TypeOK
<1>4. \A v \in Workspaces : native'[v].pol = native[v].pol /\ native'[v].gen = native[v].gen
  BY <1>1, <1>2 DEF TypeOK
<1> QED
  BY <1>3, <1>4, NativeTyped DEF Grows, Present

LEMMA ProceedsGrows ==
    ASSUME TypeOK, Present, NEW x \in Workers, Proceeds(x)
    PROVE  Grows /\ UNCHANGED ControlPlane
<1>0. wk[x].pc # "idle"
  BY DEF Proceeds, At, Load, Info, InfoThrows, Renew, Rebuild, Reread, Apply, DdlLost, Readback, Recover, ReadThrows
<1>1. wk[x].w \in Workspaces /\ Target(x) \in Policies
  BY <1>0, WorkingHas, ContentsArePolicies DEF Target
<1>2. UNCHANGED ControlPlane
  BY DEF Proceeds, Load, Info, InfoThrows, Renew, Rebuild, Reread, Apply, DdlLost, Readback, Recover, ReadThrows
<1>3. \/ UNCHANGED <<native, since>>
      \/ Defined(wk[x].w, Target(x))
      \/ native' = [native EXCEPT ![wk[x].w].ledger = "ready"] /\ UNCHANGED since
  BY DEF Proceeds, At, TakesEffect, Load, Info, InfoThrows, Renew, Rebuild, Reread, Apply, DdlLost, Readback, Recover, ReadThrows
<1>4. "ready" \in Ledgers
  BY DEF Ledgers
<1>5. Grows
  BY <1>1, <1>3, <1>4, SameGrows, DefinedGrows, LedgerGrows
<1> QED
  BY <1>2, <1>5

-----------------------------------------------------------------------------
(* The rows of the control plane                                           *)

Rows ==
    /\ op \in [Workspaces -> [Revisions -> Operations]]
    /\ ws \in [Workspaces -> Projections]
    /\ rt \in [Workspaces -> Runtimes]
    /\ queue \in Seq(Workspaces \X Revisions)
    /\ look \in [Workspaces -> Looks]

LEMMA RowsTyped ==
    ASSUME TypeOK
    PROVE  Rows
  BY DEF TypeOK, Rows

\* No lease goes to another.
SameTokens == \A w \in Workspaces : rt'[w].token = rt[w].token

LEMMA RuntimeBecomes ==
    ASSUME Rows, NEW w \in Workspaces, NEW r \in Runtimes, rt' = [rt EXCEPT ![w] = r]
    PROVE  rt' \in [Workspaces -> Runtimes] /\ (r.token = rt[w].token => SameTokens)
  BY DEF Rows, SameTokens

LEMMA OperationBecomes ==
    ASSUME Rows, NEW w \in Workspaces, NEW r \in Revisions, NEW o \in Operations, op' = [op EXCEPT ![w][r] = o]
    PROVE  op' \in [Workspaces -> [Revisions -> Operations]]
  BY DEF Rows

LEMMA DesireRows ==
    ASSUME TypeOK, NEW w \in Workspaces, Desire(w)
    PROVE  Rows' /\ SameTokens
<1> DEFINE new == ws[w].desired + 1
<1>1. new \in Revisions
  <2>1. ws[w].desired \in Nat /\ scene \in [may : SUBSET Events, most : Nat, wants : [Workspaces -> 0..MaxRevision]]
    BY QuotaAssumption DEF TypeOK, Projections
  <2>2. scene.wants[w] \in 0..MaxRevision /\ MaxRevision \in Nat
    BY <2>1, QuotaAssumption
  <2> QED
    BY <2>1, <2>2 DEF Desire, Revisions
<1>a. new \in 0..MaxRevision
  BY <1>1, QuotaAssumption DEF Revisions
<1> HIDE DEF new
<1> DEFINE new2 == [NoOp EXCEPT !.st = "pending"]
<1>2. new2 \in Operations
  BY DEF NoOp, Operations
<1> HIDE DEF new2
<1> DEFINE os == [r \in Revisions |-> IF r = new THEN new2
                                      ELSE IF op[w][r].st = "pending" THEN [op[w][r] EXCEPT !.st = "superseded"]
                                      ELSE op[w][r]]
<1>3. os \in [Revisions -> Operations]
  <2>1. ASSUME NEW r \in Revisions
        PROVE  op[w][r] \in Operations /\ [op[w][r] EXCEPT !.st = "superseded"] \in Operations
    <3>1. op[w][r] \in Operations
      BY DEF TypeOK
    <3> QED
      BY <3>1 DEF Operations
  <2> QED
    BY <1>2, <2>1
<1>4. op' = [op EXCEPT ![w] = os]
  BY DEF Desire, new, new2
<1> HIDE DEF os
<1>5. op' \in [Workspaces -> [Revisions -> Operations]]
  BY <1>3, <1>4 DEF TypeOK
<1> DEFINE p == [ws[w] EXCEPT !.desired = new]
<1>6. p \in Projections
  BY <1>a DEF TypeOK, Projections
<1>7. ws' = [ws EXCEPT ![w] = p]
  BY DEF Desire, new
<1> HIDE DEF p
<1>8. ws' \in [Workspaces -> Projections]
  BY <1>6, <1>7 DEF TypeOK
<1> DEFINE r == [rt[w] EXCEPT !.sync = "pending"]
<1>9. r \in Runtimes /\ r.token = rt[w].token
  BY DEF TypeOK, Runtimes
<1>10. rt' = [rt EXCEPT ![w] = r]
  BY DEF Desire
<1> HIDE DEF r
<1>11. rt' \in [Workspaces -> Runtimes] /\ SameTokens
  BY <1>9, <1>10, RowsTyped, RuntimeBecomes
<1>12. queue' \in Seq(Workspaces \X Revisions)
  <2>1. <<w, new>> \in Workspaces \X Revisions /\ queue \in Seq(Workspaces \X Revisions)
    BY <1>1 DEF TypeOK
  <2>2. queue' = Append(queue, <<w, new>>)
    BY DEF Desire, new
  <2> QED
    BY <2>1, <2>2, AppendProperties
<1>13. look' \in [Workspaces -> Looks]
  BY DEF Desire, TypeOK
<1> QED
  BY <1>5, <1>8, <1>11, <1>12, <1>13 DEF Rows

LEMMA ClaimedRows ==
    ASSUME TypeOK, NEW w \in Workspaces, NEW r \in Revisions, NEW t \in Nat, Claimed(w, r, t)
    PROVE  Rows' /\ rt'[w].token = t /\ \A v \in Workspaces : v # w => rt'[v].token = rt[v].token
<1> DEFINE n == op[w][r].tries
<1> DEFINE k == IF n < MaxAttempts THEN n + 1 ELSE n
<1>1. op[w][r] \in Operations /\ n \in Nat /\ MaxAttempts \in Nat
  BY QuotaAssumption DEF TypeOK, Operations
<1>2. k \in Nat
  BY <1>1
<1> HIDE DEF k
<1> DEFINE o == [op[w][r] EXCEPT !.st = "applying", !.token = t, !.tries = k]
<1>3. o \in Operations
  BY <1>1, <1>2 DEF Operations
<1>4. op' = [op EXCEPT ![w][r] = o]
  BY DEF Claimed, k
<1> HIDE DEF o
<1>5. op' \in [Workspaces -> [Revisions -> Operations]]
  BY <1>3, <1>4, RowsTyped, OperationBecomes
<1> DEFINE run == [rt[w] EXCEPT !.lease = "live", !.token = t, !.sync = "applying"]
<1>r. rt[w] \in Runtimes
  BY DEF TypeOK
<1>6. run \in Runtimes /\ run.token = t
  BY <1>r DEF Runtimes
<1>7. rt' = [rt EXCEPT ![w] = run]
  BY DEF Claimed
<1> HIDE DEF run
<1>8. rt' \in [Workspaces -> Runtimes] /\ rt'[w].token = t /\ \A v \in Workspaces : v # w => rt'[v].token = rt[v].token
  BY <1>6, <1>7 DEF TypeOK
<1> QED
  BY <1>5, <1>8 DEF Claimed, Rows, TypeOK

LEMMA SettleRows ==
    ASSUME TypeOK, NEW x \in Workers, Settle(x)
    PROVE  Rows' /\ SameTokens
<1> DEFINE w == wk[x].w
<1> DEFINE r == wk[x].r
<1> DEFINE out == wk[x].out
<1> DEFINE after == Settled(op[w][r], out)
<1>1. w \in Workspaces /\ r \in Revisions /\ out \in Outs
  BY WorkingHas DEF Settle, At, TypeOK, RunStates
<1>2. CASE ~(Owns(x) /\ out.kind # "superseded")
  BY <1>2 DEF Settle, TypeOK, Rows, SameTokens
<1>3. CASE Owns(x) /\ out.kind # "superseded"
  <2>1. after \in Operations
    <3> DEFINE o == op[w][r]
    <3>1. o \in Operations
      BY <1>1 DEF TypeOK
    <3> HIDE DEF o
    <3>2. Settled(o, out) \in Operations
      <4> DEFINE st == CASE out.kind = "succeeded" -> "succeeded"
                         [] out.kind = "terminal" -> "failed"
                         [] out.kind = "retry" -> IF o.tries >= MaxAttempts THEN "failed" ELSE "pending"
                         [] OTHER -> o.st
      <4> DEFINE due == IF out.kind = "retry" THEN "later" ELSE "now"
      <4> DEFINE started == IF out.kind = "succeeded" \/ out.unknown = "yes" THEN "yes" ELSE o.started
      <4>1. st \in {"absent", "pending", "applying", "succeeded", "failed", "superseded"}
        BY <3>1 DEF Operations
      <4>2. due \in {"now", "later"} /\ started \in {"yes", "no"}
        BY <3>1 DEF Operations
      <4>3. Settled(o, out) = [o EXCEPT !.st = st, !.due = due, !.started = started]
        BY DEF Settled
      <4> HIDE DEF st, due, started
      <4> QED
        BY <3>1, <4>1, <4>2, <4>3 DEF Operations
    <3> QED
      BY <3>2 DEF o
  <2>2. op' = [op EXCEPT ![w][r] = after]
    BY <1>3 DEF Settle
  <2>3. op' \in [Workspaces -> [Revisions -> Operations]]
    BY <1>1, <2>1, <2>2, RowsTyped, OperationBecomes
  <2> DEFINE failed == IF after.st = "failed" THEN Append(Without(ws[w].failed, r), r) ELSE ws[w].failed
  <2>4. ws[w] \in Projections /\ ws[w].failed \in Seq(Revisions)
    BY <1>1 DEF TypeOK, Projections
  <2>5. failed \in Seq(Revisions)
    <3>1. Without(ws[w].failed, r) \in Seq(Revisions)
      BY <2>4, WithoutKeeps
    <3>2. Append(Without(ws[w].failed, r), r) \in Seq(Revisions)
      BY <1>1, <3>1, AppendProperties
    <3> QED
      BY <2>4, <3>2
  <2> DEFINE applied == IF out.kind = "succeeded" THEN r ELSE ws[w].applied
  <2>6. applied \in 0..MaxRevision
    BY <1>1, <2>4, QuotaAssumption DEF Projections, Revisions
  <2>7. ws' = [ws EXCEPT ![w].applied = applied, ![w].failed = failed]
    BY <1>3 DEF Settle
  <2> HIDE DEF failed, applied
  <2> DEFINE p == [ws[w] EXCEPT !.applied = applied, !.failed = failed]
  <2>8. p \in Projections
    BY <2>4, <2>5, <2>6 DEF Projections
  <2>9. ws' = [ws EXCEPT ![w] = p]
    BY <2>7
  <2> HIDE DEF p
  <2>10. ws' \in [Workspaces -> Projections]
    BY <1>1, <2>8, <2>9 DEF TypeOK
  <2>11. SyncAfter(w, r, out) \in {"pending", "in_sync", "error", "external_drift"} /\ out.gen \in Nat
    BY <1>1 DEF Outs, SyncAfter
  <2> DEFINE run == [rt[w] EXCEPT !.lease = "none", !.gen = out.gen, !.sync = SyncAfter(w, r, out)]
  <2>r. rt[w] \in Runtimes
    BY <1>1 DEF TypeOK
  <2>12. run \in Runtimes /\ run.token = rt[w].token
    BY <2>11, <2>r DEF Runtimes
  <2>13. rt' = [rt EXCEPT ![w] = run]
    BY <1>3 DEF Settle
  <2> HIDE DEF run
  <2>14. rt' \in [Workspaces -> Runtimes] /\ SameTokens
    BY <1>1, <2>12, <2>13, RowsTyped, RuntimeBecomes
  <2> QED
    BY <2>3, <2>10, <2>14 DEF Settle, Rows, TypeOK
<1> QED
  BY <1>2, <1>3

LEMMA BackoffRows ==
    ASSUME TypeOK, NEW w \in Workspaces, NEW r \in Revisions, Backoff(w, r)
    PROVE  Rows' /\ SameTokens
<1> DEFINE o == [op[w][r] EXCEPT !.due = "now"]
<1>a. op[w][r] \in Operations
  BY DEF TypeOK
<1>1. o \in Operations
  BY <1>a DEF Operations
<1>2. op' = [op EXCEPT ![w][r] = o]
  BY DEF Backoff
<1> HIDE DEF o
<1>3. op' \in [Workspaces -> [Revisions -> Operations]]
  BY <1>1, <1>2, RowsTyped, OperationBecomes
<1> QED
  BY <1>3 DEF Backoff, Rows, TypeOK, SameTokens

LEMMA ExpireRows ==
    ASSUME TypeOK, NEW w \in Workspaces, Expire(w) \/ ExpireSlow(w)
    PROVE  Rows' /\ SameTokens
<1> DEFINE r == [rt[w] EXCEPT !.lease = "past"]
<1>1. r \in Runtimes /\ r.token = rt[w].token
  <2>1. rt[w] \in Runtimes
    BY DEF TypeOK
  <2> QED
    BY <2>1 DEF Runtimes
<1>2. rt' = [rt EXCEPT ![w] = r]
  BY DEF Expire, ExpireSlow
<1> HIDE DEF r
<1>3. rt' \in [Workspaces -> Runtimes] /\ SameTokens
  BY <1>1, <1>2, RowsTyped, RuntimeBecomes
<1> QED
  BY <1>3 DEF Expire, ExpireSlow, Rows, TypeOK

LEMMA AutoRows ==
    ASSUME TypeOK, NEW w \in Workspaces, Pause(w) \/ Resume(w)
    PROVE  Rows' /\ SameTokens
<1>1. PICK auto \in {"on", "off"}, sync \in {"paused", "pending"} :
         rt' = [rt EXCEPT ![w].auto = auto, ![w].sync = sync]
  BY DEF Pause, Resume
<1> DEFINE r == [rt[w] EXCEPT !.auto = auto, !.sync = sync]
<1>2. r \in Runtimes /\ r.token = rt[w].token
  <2>1. rt[w] \in Runtimes
    BY DEF TypeOK
  <2> QED
    BY <2>1, <1>1 DEF Runtimes
<1>3. rt' = [rt EXCEPT ![w] = r]
  BY <1>1
<1> HIDE DEF r
<1>4. rt' \in [Workspaces -> Runtimes] /\ SameTokens
  BY <1>2, <1>3, RowsTyped, RuntimeBecomes
<1> QED
  BY <1>4 DEF Pause, Resume, Rows, TypeOK

LEMMA ReopenRows ==
    ASSUME TypeOK, NEW w \in Workspaces, NEW mode \in {"normal", "reapply"}, Reopen(w, mode)
    PROVE  Rows' /\ SameTokens
<1> DEFINE run == [rt[w] EXCEPT !.auto = "on", !.sync = "pending"]
<1>1. run \in Runtimes /\ run.token = rt[w].token
  <2>1. rt[w] \in Runtimes
    BY DEF TypeOK
  <2> QED
    BY <2>1 DEF Runtimes
<1>2. rt' = [rt EXCEPT ![w] = run]
  BY DEF Reopen
<1> HIDE DEF run
<1>3. rt' \in [Workspaces -> Runtimes] /\ SameTokens
  BY <1>1, <1>2, RowsTyped, RuntimeBecomes
<1>4. op' \in [Workspaces -> [Revisions -> Operations]] /\ ws' \in [Workspaces -> Projections]
  <2>1. CASE ws[w].failed = <<>>
    BY <2>1 DEF Reopen, TypeOK
  <2>2. CASE ws[w].failed # <<>>
    <3> DEFINE r == ws[w].failed[Len(ws[w].failed)]
    <3>1. ws[w] \in Projections /\ ws[w].failed \in Seq(Revisions)
      BY DEF TypeOK, Projections
    <3>2. Len(ws[w].failed) \in 1..Len(ws[w].failed)
      BY <2>2, <3>1, EmptySeq, LenProperties
    <3>3. r \in Revisions
      BY <3>1, <3>2, ElementOfSeq
    <3>4. op' = [op EXCEPT ![w][r].st = "pending", ![w][r].mode = mode, ![w][r].due = "now"]
          /\ ws' = [ws EXCEPT ![w].failed = Without(ws[w].failed, r)]
      BY <2>2 DEF Reopen
    <3>5. Without(ws[w].failed, r) \in Seq(Revisions)
      BY <3>1, WithoutKeeps
    <3> HIDE DEF r
    <3> DEFINE o == [op[w][r] EXCEPT !.st = "pending", !.mode = mode, !.due = "now"]
    <3>a. op[w][r] \in Operations
      BY <3>3 DEF TypeOK
    <3>6. o \in Operations
      BY <3>a DEF Operations
    <3>7. op' = [op EXCEPT ![w][r] = o]
      BY <3>4
    <3> HIDE DEF o
    <3> DEFINE p == [ws[w] EXCEPT !.failed = Without(ws[w].failed, r)]
    <3>8. p \in Projections
      BY <3>1, <3>5 DEF Projections
    <3>9. ws' = [ws EXCEPT ![w] = p]
      BY <3>4
    <3> HIDE DEF p
    <3> QED
      BY <3>3, <3>6, <3>7, <3>8, <3>9, RowsTyped, OperationBecomes DEF TypeOK
  <2> QED
    BY <2>1, <2>2
<1> QED
  BY <1>3, <1>4 DEF Reopen, Rows, TypeOK

LEMMA LookBecomes ==
    ASSUME TypeOK, NEW w \in Workspaces, NEW l \in Looks, look' = [look EXCEPT ![w] = l], UNCHANGED <<op, ws, rt, queue>>
    PROVE  Rows' /\ SameTokens
  BY DEF Rows, TypeOK, SameTokens

LEMMA LookRows ==
    ASSUME TypeOK, NEW w \in Workspaces, LookUp(w) \/ LookAsk(w) \/ LookStore(w)
    PROVE  Rows' /\ SameTokens
<1>1. CASE LookUp(w)
  <2> DEFINE paused == IF rt[w].auto = "off" \/ rt[w].sync = "paused" THEN "yes" ELSE "no"
  <2> DEFINE l == [pc |-> "ask", paused |-> paused, desired |-> ws[w].desired, applied |-> ws[w].applied, obs |-> NoObs]
  <2>1. ws[w].desired \in 0..MaxRevision /\ ws[w].applied \in 0..MaxRevision /\ paused \in {"yes", "no"}
    BY DEF TypeOK, Projections
  <2>2. look' = [look EXCEPT ![w] = l] /\ UNCHANGED <<op, ws, rt, queue>>
    BY <1>1 DEF LookUp
  <2> HIDE DEF paused
  <2>3. l \in Looks
    BY <2>1, NoObsTyped DEF Looks
  <2> HIDE DEF l
  <2> QED
    BY <2>2, <2>3, LookBecomes
<1>2. CASE LookAsk(w)
  <2> DEFINE l == [look[w] EXCEPT !.pc = "store", !.obs = Observed(w)]
  <2>1. Observed(w) \in Observations
    BY ObservedTyped
  <2>2. l \in Looks
    BY <2>1 DEF TypeOK, Looks
  <2>3. look' = [look EXCEPT ![w] = l] /\ UNCHANGED <<op, ws, rt, queue>>
    BY <1>2 DEF LookAsk
  <2> HIDE DEF l
  <2> QED
    BY <2>2, <2>3, LookBecomes
<1>3. CASE LookStore(w)
  <2>1. NoLook \in Looks
    BY NoObsTyped, QuotaAssumption DEF NoLook, Looks
  <2>2. look' \in [Workspaces -> Looks]
    BY <1>3, <2>1 DEF LookStore, TypeOK
  <2>3. look[w].obs.gen \in Nat
    BY DEF TypeOK, Looks, Observations
  <2>4. SyncSeen(look[w]) \in {"paused", "external_drift", "pending", "in_sync"}
    BY DEF SyncSeen
  <2> DEFINE r == [rt[w] EXCEPT !.sync = SyncSeen(look[w]), !.gen = look[w].obs.gen]
  <2>5. r \in Runtimes /\ r.token = rt[w].token
    BY <2>3, <2>4 DEF TypeOK, Runtimes
  <2>6. rt' = [rt EXCEPT ![w] = r]
    BY <1>3 DEF LookStore
  <2> HIDE DEF r
  <2>7. rt' \in [Workspaces -> Runtimes] /\ SameTokens
    BY <2>5, <2>6, RowsTyped, RuntimeBecomes
  <2> QED
    BY <1>3, <2>2, <2>7 DEF LookStore, Rows, TypeOK
<1> QED
  BY <1>1, <1>2, <1>3

-----------------------------------------------------------------------------
(* The inductive invariant                                                 *)

\* A success that is to be settled by the owner of the lease is one the database has had.
Told ==
    \A x \in Workers :
        /\ wk[x].pc = "settle" /\ wk[x].out.kind = "succeeded"
        /\ rt[wk[x].w].token = wk[x].token
        => Target(x) \in since[wk[x].w]

\* What was seen of a workspace before a policy is applied to it: another policy, a foreign one only
\* with the leave of an operator; and while the generation seen lasts, nothing but it is in force.
Judged(w, obs, pol, mode) ==
    LET n == native[w] IN
    /\ obs.pol # pol
    /\ obs.pol = Foreign => mode = "reapply"
    /\ obs.pol # None => /\ obs.gen <= n.gen
                         /\ obs.gen = n.gen => n.pol \in {obs.pol, None}
Seen(x) == Judged(wk[x].w, wk[x].obs, Target(x), wk[x].mode)
AllSeen == \A x \in Workers : MayApply(x) => Seen(x)

\* So it is with the statements that their runs have given up.
LateSeen == \A w \in Workspaces : \A s \in late[w] : s.ddl = "apply" => Judged(w, s.seen, s.pol, s.mode)

Truths == TypeOK /\ Present /\ Told /\ AllSeen /\ LateSeen

\* A step that is no claim: every run stays, ends or proceeds, and the leases stay where they are.
Calm ==
    /\ Rows' /\ SameTokens /\ Grows
    /\ wk' \in [Workers -> RunStates]
    /\ \A y \in Workers : wk'[y] = wk[y] \/ wk'[y].pc = "idle" \/ Goes(y)

LEMMA NextScene ==
    ASSUME TypeOK, Next
    PROVE  scene' \in Scenes /\ events' \in Nat
<1> DEFINE Quiet == UNCHANGED <<scene, events>> \/ (UNCHANGED scene /\ events' = events + 1)
<1>1. ASSUME NEW x \in Workers, Works(x) \/ Suffers(x)
      PROVE  Quiet
  <2>1. CASE Claim(x) \/ ClaimLost(x)
    BY <2>1 DEF Claim, ClaimLost, Event, Occurs, Quietly
  <2>2. CASE Load(x) \/ Info(x) \/ InfoThrows(x) \/ Renew(x)
    BY <2>2 DEF Load, Info, InfoThrows, Renew, Event, Occurs, Quietly
  <2>3. CASE Rebuild(x) \/ Reread(x) \/ ReadThrows(x)
    BY <2>3 DEF Rebuild, Reread, ReadThrows, Event, Occurs, Quietly
  <2>4. CASE Apply(x) \/ DdlLost(x) \/ Readback(x) \/ Recover(x)
    BY <2>4 DEF Apply, DdlLost, Readback, Recover, Event, Occurs, Quietly
  <2>5. CASE Settle(x) \/ Abandon(x)
    BY <2>5 DEF Settle, Abandon, Event, Occurs, Quietly
  <2> QED
    BY <1>1, <2>1, <2>2, <2>3, <2>4, <2>5 DEF Works, Suffers
<1>2. ASSUME NEW w \in Workspaces, Passes(w) \/ Happens(w) \/ \E r \in Revisions : Backoff(w, r)
      PROVE  Quiet
  <2>1. CASE Expire(w) \/ ExpireSlow(w) \/ LedgerBuilt(w) \/ LedgerLost(w)
    BY <2>1 DEF Expire, ExpireSlow, LedgerBuilt, LedgerLost, Event, Occurs, Quietly
  <2>2. CASE LookUp(w) \/ LookAsk(w) \/ LookStore(w)
    BY <2>2 DEF LookUp, LookAsk, LookStore, Event, Occurs, Quietly
  <2>3. CASE Desire(w) \/ Pause(w) \/ Resume(w) \/ \E mode \in {"normal", "reapply"} : Reopen(w, mode)
    BY <2>3 DEF Desire, Pause, Resume, Reopen, Event, Occurs, Quietly
  <2>4. CASE DefineForeign(w) \/ Remove(w) \/ DdlLands(w) \/ \E r \in Revisions : Backoff(w, r)
    BY <2>4 DEF DefineForeign, Remove, DdlLands, Backoff, Event, Occurs, Quietly
  <2> QED
    BY <1>2, <2>1, <2>2, <2>3, <2>4 DEF Passes, Happens
<1>3. Quiet
  BY <1>1, <1>2 DEF Next
<1> QED
  BY <1>3 DEF TypeOK

\* What may still land has landed in no step but DdlLands, and is new in no step but DdlLost.
Lasts(w, s) ==
    \/ s \in late[w]
    \/ \E x \in Workers : wk[x].pc \in {"rebuild", "apply"} /\ wk[x].w = w /\ s = Statement(x)
LateKept ==
    /\ late' \in [Workspaces -> SUBSET Statements]
    /\ \A w \in Workspaces : \A s \in late'[w] : Lasts(w, s)

LEMMA SameLate ==
    ASSUME TypeOK, UNCHANGED late
    PROVE  LateKept
  BY DEF TypeOK, LateKept, Lasts

LEMMA LostLate ==
    ASSUME TypeOK, NEW x \in Workers, DdlLost(x)
    PROVE  LateKept
<1> DEFINE w == wk[x].w
<1>1. wk[x].pc \in {"rebuild", "apply"} /\ w \in Workspaces /\ wk[x].r \in Revisions
  BY WorkingHas DEF DdlLost
<1>2. UNCHANGED late \/ late' = [late EXCEPT ![w] = @ \cup {Statement(x)}]
  BY DEF DdlLost
<1>3. Statement(x) \in Statements
  <2>1. wk[x].obs \in Observations /\ wk[x].mode \in {"normal", "reapply"}
    BY DEF TypeOK, RunStates
  <2>2. Target(x) \in Contents
    BY <1>1 DEF Target, Contents
  <2> QED
    BY <1>1, <2>1, <2>2 DEF Statement, Statements
<1>4. late \in [Workspaces -> SUBSET Statements]
  BY DEF TypeOK
<1>5. late' \in [Workspaces -> SUBSET Statements]
  BY <1>1, <1>2, <1>3, <1>4
<1>6. ASSUME NEW v \in Workspaces, NEW s \in late'[v]
      PROVE  s \in late[v] \/ (v = w /\ s = Statement(x))
  BY <1>1, <1>2, <1>4, <1>6
<1> QED
  BY <1>1, <1>5, <1>6 DEF LateKept, Lasts

LEMMA LandsLate ==
    ASSUME TypeOK, NEW w \in Workspaces, DdlLands(w)
    PROVE  LateKept
<1>1. PICK s \in late[w] : late' = [late EXCEPT ![w] = @ \ {s}]
  BY DEF DdlLands
<1>2. late \in [Workspaces -> SUBSET Statements]
  BY DEF TypeOK
<1>3. late' \in [Workspaces -> SUBSET Statements] /\ \A v \in Workspaces : late'[v] \subseteq late[v]
  BY <1>1, <1>2
<1> QED
  BY <1>3 DEF LateKept, Lasts

LEMMA NextLate ==
    ASSUME TypeOK, Next
    PROVE  LateKept
<1>1. ASSUME NEW x \in Workers, Works(x) \/ Suffers(x)
      PROVE  UNCHANGED late \/ DdlLost(x)
  <2>1. CASE Claim(x) \/ ClaimLost(x)
    BY <2>1 DEF Claim, ClaimLost, Event, Quietly
  <2>2. CASE Load(x) \/ Info(x) \/ InfoThrows(x) \/ Renew(x)
    BY <2>2 DEF Load, Info, InfoThrows, Renew, Event, Quietly
  <2>3. CASE Rebuild(x) \/ Reread(x) \/ ReadThrows(x)
    BY <2>3 DEF Rebuild, Reread, ReadThrows, Event, Quietly
  <2>4. CASE Apply(x) \/ Readback(x) \/ Recover(x)
    BY <2>4 DEF Apply, Readback, Recover, Event, Quietly
  <2>5. CASE Settle(x) \/ Abandon(x)
    BY <2>5 DEF Settle, Abandon, Event, Quietly
  <2> QED
    BY <1>1, <2>1, <2>2, <2>3, <2>4, <2>5 DEF Works, Suffers
<1>2. ASSUME NEW w \in Workspaces, Passes(w) \/ Happens(w) \/ \E r \in Revisions : Backoff(w, r)
      PROVE  UNCHANGED late \/ DdlLands(w)
  <2>1. CASE Expire(w) \/ ExpireSlow(w) \/ LedgerBuilt(w) \/ LedgerLost(w)
    BY <2>1 DEF Expire, ExpireSlow, LedgerBuilt, LedgerLost, Event, Quietly
  <2>2. CASE LookUp(w) \/ LookAsk(w) \/ LookStore(w)
    BY <2>2 DEF LookUp, LookAsk, LookStore, Event, Quietly
  <2>3. CASE Desire(w) \/ Pause(w) \/ Resume(w) \/ \E mode \in {"normal", "reapply"} : Reopen(w, mode)
    BY <2>3 DEF Desire, Pause, Resume, Reopen, Event, Quietly
  <2>4. CASE DefineForeign(w) \/ Remove(w) \/ \E r \in Revisions : Backoff(w, r)
    BY <2>4 DEF DefineForeign, Remove, Backoff, Event, Quietly
  <2> QED
    BY <1>2, <2>1, <2>2, <2>3, <2>4 DEF Passes, Happens
<1> QED
  BY <1>1, <1>2, SameLate, LostLate, LandsLate DEF Next

\* Steps that change no run and, but for the policy, not the database.
LEMMA StillCalm ==
    ASSUME TypeOK, Rows', SameTokens, Grows, UNCHANGED wk
    PROVE  Calm
  BY DEF Calm, TypeOK

LEMMA SameRows ==
    ASSUME TypeOK, UNCHANGED ControlPlane
    PROVE  Rows' /\ SameTokens
  BY DEF TypeOK, ControlPlane, Rows, SameTokens

LEMMA ProceedsCalm ==
    ASSUME TypeOK, Present, NEW x \in Workers, Proceeds(x)
    PROVE  Calm
<1>1. Goes(x) /\ Grows /\ Rows' /\ SameTokens
  BY ProceedsGoes, ProceedsGrows, SameRows
<1> QED
  BY <1>1 DEF Calm, Goes, Moved

LEMMA EndCalm ==
    ASSUME TypeOK, Present, NEW x \in Workers, Settle(x) \/ Abandon(x)
    PROVE  Calm
<1>1. Rows' /\ SameTokens
  BY SettleRows, SameRows DEF Abandon
<1>2. Grows
  BY SameGrows DEF Settle, Abandon
<1>3. wk' = [wk EXCEPT ![x] = NoRun]
  BY DEF Settle, Abandon
<1> QED
  BY <1>1, <1>2, <1>3, IdleMoves DEF Calm

LEMMA WorkspaceCalm ==
    ASSUME TypeOK, Present, NEW w \in Workspaces, Passes(w) \/ Happens(w) \/ \E r \in Revisions : Backoff(w, r)
    PROVE  Calm
<1>1. CASE Expire(w) \/ ExpireSlow(w)
  BY <1>1, ExpireRows, SameGrows, StillCalm DEF Expire, ExpireSlow
<1>2. CASE LookUp(w) \/ LookAsk(w) \/ LookStore(w)
  BY <1>2, LookRows, SameGrows, StillCalm DEF LookUp, LookAsk, LookStore
<1>3. CASE LedgerBuilt(w) \/ LedgerLost(w)
  <2>1. \E l \in Ledgers : native' = [native EXCEPT ![w].ledger = l]
    BY <1>3 DEF LedgerBuilt, LedgerLost, Ledgers
  <2> QED
    BY <1>3, <2>1, LedgerGrows, SameRows, StillCalm DEF LedgerBuilt, LedgerLost
<1>4. CASE Desire(w)
  BY <1>4, DesireRows, SameGrows, StillCalm DEF Desire
<1>5. CASE Pause(w) \/ Resume(w)
  BY <1>5, AutoRows, SameGrows, StillCalm DEF Pause, Resume
<1>6. CASE \E mode \in {"normal", "reapply"} : Reopen(w, mode)
  BY <1>6, ReopenRows, SameGrows, StillCalm DEF Reopen
<1>7. CASE DefineForeign(w)
  <2>1. Foreign \in Policies /\ Defined(w, Foreign)
    BY <1>7 DEF Policies, DefineForeign
  <2> QED
    BY <1>7, <2>1, DefinedGrows, SameRows, StillCalm DEF DefineForeign
<1>8. CASE Remove(w)
  BY <1>8, RemoveGrows, SameRows, StillCalm DEF Remove
<1>9. CASE \E r \in Revisions : Backoff(w, r)
  BY <1>9, BackoffRows, SameGrows, StillCalm DEF Backoff
<1>10. CASE DdlLands(w)
  <2>1. PICK s \in late[w] : UNCHANGED <<native, since>> \/ TakesEffect(w, s.ddl, s.pol)
    BY <1>10 DEF DdlLands
  <2>2. s.pol \in Policies
    BY DEF TypeOK, Statements, Policies
  <2>3. Grows
    BY <2>1, <2>2, SameGrows, DefinedGrows, LedgerGrows DEF TakesEffect, Ledgers
  <2> QED
    BY <1>10, <2>3, SameRows, StillCalm DEF DdlLands
<1> QED
  BY <1>1, <1>2, <1>3, <1>4, <1>5, <1>6, <1>7, <1>8, <1>9, <1>10 DEF Passes, Happens

-----------------------------------------------------------------------------
(* Calm steps keep it                                                      *)

LEMMA CalmRuns ==
    ASSUME TypeOK, Calm, NEW x \in Workers, wk'[x].pc # "idle"
    PROVE  /\ wk[x].pc # "idle" /\ wk[x].w \in Workspaces /\ wk[x].r \in Revisions
           /\ wk'[x].w = wk[x].w /\ wk'[x].r = wk[x].r /\ wk'[x].token = wk[x].token /\ wk'[x].mode = wk[x].mode
           /\ Target(x)' = Target(x)
<1>1. wk[x].pc # "idle" /\ wk'[x].w = wk[x].w /\ wk'[x].r = wk[x].r /\ wk'[x].token = wk[x].token /\ wk'[x].mode = wk[x].mode
  BY DEF Calm, Goes, Moved
<1> QED
  BY <1>1, WorkingHas DEF Target

LEMMA CalmTypes ==
    ASSUME TypeOK, Calm, LateKept, scene' \in Scenes, events' \in Nat
    PROVE  TypeOK'
<1>1. \A x \in Workers : wk'[x].pc # "idle" => wk'[x].w \in Workspaces /\ wk'[x].r \in Revisions
  BY CalmRuns
<1> QED
  BY <1>1 DEF TypeOK, Calm, Rows, Grows, LateKept

LEMMA CalmTold ==
    ASSUME Truths, Calm
    PROVE  Present' /\ Told'
<1>1. Present'
  BY DEF Calm, Grows, Present
<1>2. ASSUME NEW x \in Workers, wk'[x].pc = "settle", wk'[x].out.kind = "succeeded",
             rt'[wk'[x].w].token = wk'[x].token
      PROVE  Target(x)' \in since'[wk'[x].w]
  <2>1. /\ wk[x].w \in Workspaces /\ wk'[x].w = wk[x].w /\ wk'[x].token = wk[x].token /\ Target(x)' = Target(x)
        /\ since[wk[x].w] \subseteq since'[wk[x].w] /\ rt'[wk[x].w].token = rt[wk[x].w].token
    BY <1>2, CalmRuns DEF Truths, Calm, Grows, SameTokens
  <2>2. CASE wk'[x] = wk[x]
    <3>1. Target(x) \in since[wk[x].w]
      BY <1>2, <2>1, <2>2 DEF Truths, Told
    <3> QED
      BY <2>1, <3>1
  <2>3. CASE Goes(x)
    <3>1. native[wk[x].w].pol = Target(x)
      BY <1>2, <2>3 DEF Goes
    <3>2. Target(x) \in since[wk[x].w]
      BY <2>1, <3>1 DEF Truths, Present
    <3> QED
      BY <2>1, <3>2
  <2> QED
    BY <1>2, <2>2, <2>3 DEF Calm
<1> QED
  BY <1>1, <1>2 DEF Told

LEMMA CalmSeen ==
    ASSUME Truths, Calm
    PROVE  AllSeen'
<1> SUFFICES ASSUME NEW x \in Workers, MayApply(x)'
             PROVE  Seen(x)'
  BY DEF AllSeen
<1>1. wk'[x].pc # "idle"
  BY DEF MayApply
<1>2. /\ wk[x].w \in Workspaces /\ wk'[x].w = wk[x].w /\ wk'[x].mode = wk[x].mode /\ Target(x)' = Target(x)
      /\ wk[x].obs \in Observations
  BY <1>1, CalmRuns, WorkingHas DEF Truths
<1> DEFINE w == wk[x].w
<1>3. /\ native'[w].gen >= native[w].gen /\ native'[w].gen \in Nat /\ native[w].gen \in Nat
      /\ native'[w].gen = native[w].gen => native'[w].pol \in {native[w].pol, None}
      /\ native'[w].pol \in Policies /\ native[w].pol \in Policies
  BY <1>2, NativeTyped DEF Truths, Calm, Grows, Observations
<1>4. CASE MayApply(x) /\ wk'[x].obs = wk[x].obs
  <2>1. Seen(x) /\ wk[x].obs.gen \in Nat
    BY <1>2, <1>4 DEF Truths, AllSeen, Observations
  <2>2. wk[x].obs.pol # None => /\ wk[x].obs.gen <= native'[w].gen
                                /\ wk[x].obs.gen = native'[w].gen => native'[w].pol \in {wk[x].obs.pol, None}
    BY <1>3, <2>1 DEF Seen, Judged
  <2> QED
    BY <1>2, <1>4, <2>1, <2>2 DEF Seen, Judged
<1>5. CASE Looked(x)
  <2>1. /\ Observed(w).pol = native[w].pol
        /\ native[w].pol # None => Observed(w).gen = native[w].gen
    BY <1>2, ObservedTyped DEF Truths
  <2>3. wk'[x].obs.pol # None => /\ wk'[x].obs.gen <= native'[w].gen
                                 /\ wk'[x].obs.gen = native'[w].gen => native'[w].pol \in {wk'[x].obs.pol, None}
    BY <1>3, <1>5, <2>1 DEF Looked
  <2> QED
    BY <1>2, <1>5, <2>1, <2>3 DEF Seen, Judged, Looked
<1>6. CASE wk'[x] = wk[x]
  BY <1>4, <1>6 DEF MayApply
<1> QED
  BY <1>1, <1>4, <1>5, <1>6 DEF Calm, Goes

\* What a policy was judged by lasts over any step.
GensGrow ==
    /\ native' \in [Workspaces -> Observations]
    /\ \A w \in Workspaces :
         /\ native'[w].gen >= native[w].gen
         /\ native'[w].gen = native[w].gen => native'[w].pol \in {native[w].pol, None}

LEMMA JudgedLasts ==
    ASSUME TypeOK, GensGrow, NEW w \in Workspaces, NEW obs \in Observations, NEW pol, NEW mode, Judged(w, obs, pol, mode)
    PROVE  Judged(w, obs, pol, mode)'
<1>1. /\ native'[w].gen >= native[w].gen /\ native'[w].gen \in Nat /\ native[w].gen \in Nat /\ obs.gen \in Nat
      /\ native'[w].gen = native[w].gen => native'[w].pol \in {native[w].pol, None}
  BY NativeTyped DEF GensGrow, Observations
<1>2. obs.pol # None => /\ obs.gen <= native'[w].gen
                        /\ obs.gen = native'[w].gen => native'[w].pol \in {obs.pol, None}
  BY <1>1 DEF Judged
<1> QED
  BY <1>2 DEF Judged

LEMMA LateStays ==
    ASSUME Truths, GensGrow, LateKept
    PROVE  LateSeen'
<1> SUFFICES ASSUME NEW w \in Workspaces, NEW s \in late'[w], s.ddl = "apply"
             PROVE  Judged(w, s.seen, s.pol, s.mode)'
  BY DEF LateSeen
<1>1. s.seen \in Observations
  BY DEF LateKept, Statements
<1>2. Judged(w, s.seen, s.pol, s.mode)
  <2>1. CASE s \in late[w]
    BY <2>1 DEF Truths, LateSeen
  <2>2. CASE \E x \in Workers : wk[x].w = w /\ s = Statement(x)
    <3>1. PICK x \in Workers : wk[x].w = w /\ s = Statement(x)
      BY <2>2
    <3>2. /\ s.ddl = wk[x].pc /\ s.seen = wk[x].obs /\ s.pol = Target(x) /\ s.mode = wk[x].mode
      BY <3>1 DEF Statement
    <3>3. Seen(x)
      BY <3>2 DEF Truths, AllSeen, MayApply
    <3> QED
      BY <3>1, <3>2, <3>3 DEF Seen
  <2> QED
    BY <2>1, <2>2 DEF LateKept, Lasts
<1> QED
  BY <1>1, <1>2, JudgedLasts DEF Truths

-----------------------------------------------------------------------------
(* And so do claims                                                        *)

LEMMA QueuedOperations ==
    ASSUME TypeOK, NEW n \in Candidates
    PROVE  queue[n][1] \in Workspaces /\ queue[n][2] \in Revisions
<1>1. n \in 1..Len(queue) /\ queue \in Seq(Workspaces \X Revisions)
  BY DEF Candidates, TypeOK
<1>2. queue[n] \in Workspaces \X Revisions
  BY <1>1, ElementOfSeq
<1> QED
  BY <1>2

\* A claim gives the lease of w to the token t, which no run has, and changes at most the run of its worker.
Takes(w, r, t) ==
    /\ Claimed(w, r, t) /\ t \in Fresh(w)
    /\ wk' \in [Workers -> RunStates]
    /\ \A y \in Workers : wk'[y] = wk[y] \/ (wk'[y].pc = "load" /\ wk'[y].w \in Workspaces /\ wk'[y].r \in Revisions)

LEMMA ClaimTakes ==
    ASSUME TypeOK, NEW x \in Workers, Claim(x) \/ ClaimLost(x)
    PROVE  \E w \in Workspaces, r \in Revisions, t \in Nat : Takes(w, r, t)
<1>1. CASE Claim(x)
  <2>0. PICK n \in Candidates : \E t \in Fresh(queue[n][1]) :
           /\ Claimed(queue[n][1], queue[n][2], t)
           /\ wk' = [wk EXCEPT ![x] = [NoRun EXCEPT !.pc = "load", !.w = queue[n][1], !.r = queue[n][2], !.token = t,
                                                    !.mode = op[queue[n][1]][queue[n][2]].mode]]
    BY <1>1 DEF Claim
  <2>1. PICK t \in Fresh(queue[n][1]) :
           /\ Claimed(queue[n][1], queue[n][2], t)
           /\ wk' = [wk EXCEPT ![x] = [NoRun EXCEPT !.pc = "load", !.w = queue[n][1], !.r = queue[n][2], !.token = t,
                                                    !.mode = op[queue[n][1]][queue[n][2]].mode]]
    BY <2>0
  <2> DEFINE w == queue[n][1]
  <2> DEFINE r == queue[n][2]
  <2>2. w \in Workspaces /\ r \in Revisions
    BY QueuedOperations
  <2>3. t \in Nat
    BY DEF Fresh, Tokens
  <2>4. op[w][r].mode \in {"normal", "reapply"} /\ r \in 0..MaxRevision
    <3>1. op[w][r] \in Operations
      BY <2>2 DEF TypeOK
    <3> QED
      BY <2>2, <3>1, QuotaAssumption DEF Operations, Revisions
  <2> DEFINE run == [NoRun EXCEPT !.pc = "load", !.w = w, !.r = r, !.token = t, !.mode = op[w][r].mode]
  <2>5. run \in RunStates /\ run.pc = "load" /\ run.w = w /\ run.r = r
    BY <2>2, <2>3, <2>4, NoRunTyped DEF RunStates, Pcs
  <2>6. wk' = [wk EXCEPT ![x] = run]
    BY <2>1
  <2> HIDE DEF run
  <2>7. wk' \in [Workers -> RunStates] /\ wk'[x] = run /\ \A y \in Workers : y # x => wk'[y] = wk[y]
    BY <2>5, <2>6, RunBecomes
  <2> QED
    BY <2>1, <2>2, <2>3, <2>5, <2>7 DEF Takes
<1>2. CASE ClaimLost(x)
  <2>0. PICK n \in Candidates : \E t \in Fresh(queue[n][1]) : Claimed(queue[n][1], queue[n][2], t)
    BY <1>2 DEF ClaimLost
  <2>1. PICK t \in Fresh(queue[n][1]) : Claimed(queue[n][1], queue[n][2], t)
    BY <2>0
  <2>2. queue[n][1] \in Workspaces /\ queue[n][2] \in Revisions /\ t \in Nat
    BY QueuedOperations DEF Fresh, Tokens
  <2> QED
    BY <1>2, <2>1, <2>2 DEF ClaimLost, Takes, TypeOK
<1> QED
  BY <1>1, <1>2

LEMMA TakesKeeps ==
    ASSUME Truths, NEW w \in Workspaces, NEW r \in Revisions, NEW t \in Nat, Takes(w, r, t),
           LateKept, scene' \in Scenes, events' \in Nat
    PROVE  Truths'
<1>1. /\ Rows' /\ rt'[w].token = t /\ \A v \in Workspaces : v # w => rt'[v].token = rt[v].token
      /\ UNCHANGED native
  BY ClaimedRows DEF Takes, Truths, Claimed
<1>2. since' = [since EXCEPT ![w] = {native[w].pol}]
  BY DEF Takes, Claimed
<1>3. since'[w] = {native[w].pol} /\ since' \in [Workspaces -> SUBSET Policies]
      /\ \A v \in Workspaces : v # w => since'[v] = since[v]
  <2>1. native[w].pol \in Policies
    BY NativeTyped DEF Truths
  <2> QED
    BY <1>2, <2>1 DEF Truths, TypeOK
<1>4. TypeOK'
  BY <1>1, <1>3 DEF Takes, Truths, TypeOK, Rows, LateKept
<1>5. Present'
  BY <1>1, <1>3 DEF Truths, Present
<1>6. ASSUME NEW x \in Workers, wk'[x].pc = "settle", wk'[x].out.kind = "succeeded", rt'[wk'[x].w].token = wk'[x].token
      PROVE  Target(x)' \in since'[wk'[x].w]
  <2>1. wk'[x] = wk[x]
    BY <1>6 DEF Takes
  <2>2. wk[x].w \in Workspaces
    BY <1>6, <2>1 DEF Truths, TypeOK
  <2>3. CASE wk[x].w = w
    <3>1. wk[x].token # t
      BY <2>3 DEF Takes, Fresh, Taken
    <3> QED
      BY <1>1, <1>6, <2>1, <2>3, <3>1
  <2>4. CASE wk[x].w # w
    <3>1. rt'[wk[x].w].token = rt[wk[x].w].token /\ since'[wk[x].w] = since[wk[x].w]
      BY <1>1, <1>3, <2>2, <2>4
    <3>2. Target(x) \in since[wk[x].w]
      BY <1>6, <2>1, <3>1 DEF Truths, Told
    <3> QED
      BY <2>1, <3>1, <3>2 DEF Target
  <2> QED
    BY <2>3, <2>4
<1>7. ASSUME NEW x \in Workers, MayApply(x)'
      PROVE  Seen(x)'
  <2>1. wk'[x] = wk[x]
    BY <1>7 DEF Takes, MayApply
  <2>2. Seen(x)
    BY <1>7, <2>1 DEF Truths, AllSeen, MayApply
  <2> QED
    BY <1>1, <2>1, <2>2 DEF Seen, Judged, Target
<1>8. GensGrow
  BY <1>1, NativeTyped DEF Truths, TypeOK, GensGrow
<1> QED
  BY <1>4, <1>5, <1>6, <1>7, <1>8, LateStays DEF Truths, Told, AllSeen

-----------------------------------------------------------------------------
(* The theorems                                                            *)

LEMMA StepCases ==
    ASSUME TypeOK, Present, Next
    PROVE  Calm \/ \E w \in Workspaces, r \in Revisions, t \in Nat : Takes(w, r, t)
<1>1. CASE \E x \in Workers : Works(x) \/ Suffers(x)
  <2>1. PICK x \in Workers : Proceeds(x) \/ Settle(x) \/ Abandon(x) \/ Claim(x) \/ ClaimLost(x)
    BY <1>1 DEF Works, Suffers, Proceeds
  <2> QED
    BY <2>1, ProceedsCalm, EndCalm, ClaimTakes
<1>2. CASE \E w \in Workspaces : Passes(w) \/ Happens(w) \/ \E r \in Revisions : Backoff(w, r)
  BY <1>2, WorkspaceCalm
<1> QED
  BY <1>1, <1>2 DEF Next

LEMMA TruthsFirst == Init => Truths
<1> SUFFICES ASSUME Init
             PROVE  Truths
  OBVIOUS
<1>0. late = [w \in Workspaces |-> {}]
  BY DEF Init
<1>1. NoOp \in Operations /\ NoLook \in Looks
  BY NoObsTyped, QuotaAssumption DEF NoOp, Operations, NoLook, Looks
<1>2. [desired |-> 0, applied |-> 0, failed |-> <<>>] \in Projections
  BY QuotaAssumption DEF Projections
<1>3. [lease |-> "none", token |-> 0, auto |-> "on", gen |-> 0, sync |-> "pending"] \in Runtimes
  BY DEF Runtimes
<1>4. [pol |-> None, gen |-> 0, ledger |-> "unbuilt"] \in Observations
  BY NoObsTyped DEF NoObs
<1>5. TypeOK
  <2>1. op \in [Workspaces -> [Revisions -> Operations]] /\ look \in [Workspaces -> Looks]
    BY <1>1 DEF Init
  <2>2. ws \in [Workspaces -> Projections] /\ rt \in [Workspaces -> Runtimes]
    BY <1>2, <1>3 DEF Init
  <2>3. native \in [Workspaces -> Observations] /\ since \in [Workspaces -> SUBSET Policies]
    BY <1>4 DEF Init, Policies
  <2>4. wk \in [Workers -> RunStates] /\ \A x \in Workers : wk[x].pc = "idle"
    BY NoRunTyped DEF Init
  <2> QED
    BY <1>0, <2>1, <2>2, <2>3, <2>4 DEF TypeOK, Init
<1>6. Present
  BY DEF Present, Init
<1>7. \A x \in Workers : wk[x].pc = "idle"
  BY NoRunTyped DEF Init
<1> QED
  BY <1>0, <1>5, <1>6, <1>7 DEF Truths, Told, AllSeen, MayApply, LateSeen

LEMMA TruthsStay == Truths /\ [Next]_vars => Truths'
<1> SUFFICES ASSUME Truths, [Next]_vars
             PROVE  Truths'
  OBVIOUS
<1>1. CASE Next
  <2>1. scene' \in Scenes /\ events' \in Nat /\ LateKept
    BY <1>1, NextScene, NextLate DEF Truths
  <2>2. CASE Calm
    BY <2>1, <2>2, CalmTypes, CalmTold, CalmSeen, LateStays DEF Truths, Calm, Grows, GensGrow
  <2>3. CASE \E w \in Workspaces, r \in Revisions, t \in Nat : Takes(w, r, t)
    BY <2>1, <2>3, TakesKeeps
  <2> QED
    BY <1>1, <2>2, <2>3, StepCases DEF Truths
<1>2. CASE UNCHANGED vars
  BY <1>2 DEF vars, Truths, TypeOK, Present, Told, AllSeen, MayApply, Seen, Judged, LateSeen, Target
<1> QED
  BY <1>1, <1>2

THEOREM TruthsHold == Spec => []Truths
<1> QED
  BY TruthsFirst, TruthsStay, PTL DEF Spec

\* Operations, leases, runs, observations and policies have their types in every state: no answer that
\* is lost and no worker that is late leaves a row that the tables do not have.
THEOREM QuotaTypes == Spec => []TypeOK
<1>1. Truths => TypeOK
  BY DEF Truths
<1> QED
  BY <1>1, TruthsHold, PTL

LEMMA AppliedStep ==
    ASSUME Truths, Next, NEW w \in Workspaces, ws'[w].applied # ws[w].applied
    PROVE  Content[ws'[w].applied] \in since[w]
<1>1. CASE \E x \in Workers : Settle(x) /\ Owns(x)
  <2>1. PICK x \in Workers : Settle(x) /\ Owns(x)
    BY <1>1
  <2> DEFINE v == wk[x].w
  <2> DEFINE out == wk[x].out
  <2> DEFINE failed == IF Settled(op[v][wk[x].r], out).st = "failed" THEN Append(Without(ws[v].failed, wk[x].r), wk[x].r) ELSE ws[v].failed
  <2> DEFINE applied == IF out.kind = "succeeded" THEN wk[x].r ELSE ws[v].applied
  <2>2. v \in Workspaces /\ wk[x].pc = "settle" /\ rt[v].token = wk[x].token
    BY <2>1 DEF Settle, At, Owns, Truths, TypeOK
  <2>3. ws' = ws \/ ws' = [ws EXCEPT ![v].applied = applied, ![v].failed = failed]
    BY <2>1 DEF Settle
  <2> HIDE DEF failed
  <2>4. ws \in [Workspaces -> Projections]
    BY DEF Truths, TypeOK
  <2>5. w = v /\ ws'[w].applied = applied /\ out.kind = "succeeded"
    <3> DEFINE p == [ws[v] EXCEPT !.applied = applied, !.failed = failed]
    <3>1. p.applied = applied
      BY <2>2, <2>4 DEF Projections
    <3>2. ws' = ws \/ ws' = [ws EXCEPT ![v] = p]
      BY <2>3
    <3> HIDE DEF p
    <3> QED
      BY <2>2, <2>4, <3>1, <3>2
  <2>6. Target(x) \in since[v]
    BY <2>2, <2>5 DEF Truths, Told
  <2> QED
    BY <2>5, <2>6 DEF Target
<1>2. CASE UNCHANGED ws
  BY <1>2
<1>3. ws \in [Workspaces -> Projections]
  BY DEF Truths, TypeOK
<1>4. CASE \E v \in Workspaces : Desire(v)
  BY <1>3, <1>4 DEF Desire, Projections
<1>5. CASE \E v \in Workspaces : \E failed : ws' = [ws EXCEPT ![v].failed = failed]
  BY <1>3, <1>5 DEF Projections
<1>6. ASSUME NEW v \in Workspaces, NEW mode \in {"normal", "reapply"}, Reopen(v, mode)
      PROVE  UNCHANGED ws \/ \E failed : ws' = [ws EXCEPT ![v].failed = failed]
  BY <1>6 DEF Reopen
<1>7. ASSUME NEW x \in Workers, Works(x) \/ Suffers(x)
      PROVE  UNCHANGED ws \/ (Settle(x) /\ Owns(x))
  <2>1. CASE Claim(x) \/ ClaimLost(x)
    BY <2>1 DEF Claim, ClaimLost, Claimed
  <2>2. CASE Proceeds(x) \/ Abandon(x)
    BY <2>2, ProceedsGrows DEF Truths, Abandon, ControlPlane
  <2>3. CASE Settle(x)
    BY <2>3 DEF Settle
  <2> QED
    BY <1>7, <2>1, <2>2, <2>3 DEF Works, Suffers, Proceeds
<1>8. ASSUME NEW v \in Workspaces, Passes(v) \/ Happens(v) \/ \E r \in Revisions : Backoff(v, r)
      PROVE  \/ UNCHANGED ws \/ Desire(v)
             \/ \E mode \in {"normal", "reapply"} : Reopen(v, mode)
  BY <1>8 DEF Passes, Happens, Expire, ExpireSlow, LedgerBuilt, LedgerLost, LookUp, LookAsk, LookStore,
              Pause, Resume, DefineForeign, Remove, DdlLands, Backoff, ControlPlane
<1> QED
  BY <1>1, <1>2, <1>4, <1>5, <1>6, <1>7, <1>8 DEF Next

\* The projection that a workspace is said to have applied is one whose policy its database has had
\* since the lease was claimed that says so, whatever is lost, late or repeated.
THEOREM AppliedOnesWereThere == Spec => AppliedIsTrue
<1>1. Truths /\ [Next]_vars =>
        [\A w \in Workspaces : ws'[w].applied # ws[w].applied => Content[ws'[w].applied] \in since[w]]_vars
  BY AppliedStep DEF vars
<1> QED
  BY <1>1, TruthsHold, PTL DEF Spec, AppliedIsTrue

\* A statement that meets the policy it is for finds the one that was seen.
LEMMA GuardedStatement ==
    ASSUME NEW w \in Workspaces, NEW obs, NEW pol \in Contents, NEW mode, Judged(w, obs, pol, mode), Meets(w, obs)
    PROVE  /\ native[w].pol # pol
           /\ native[w].pol = Foreign => mode = "reapply"
<1>1. pol # None /\ Foreign # None
  BY QuotaAssumption DEF Contents
<1>2. CASE native[w].pol = None
  BY <1>1, <1>2
<1>3. CASE native[w].pol # None
  <2>1. native[w].pol = obs.pol
    BY <1>3 DEF Meets, Judged
  <2> QED
    BY <2>1 DEF Judged
<1> QED
  BY <1>2, <1>3

LEMMA ApplyStep ==
    ASSUME Truths, Next, NEW w \in Workspaces, native'[w].gen # native[w].gen, native'[w].pol # Foreign
    PROVE  /\ native'[w].pol # native[w].pol
           /\ native[w].pol = Foreign => Reapplies(w)
<1>0. native \in [Workspaces -> Observations]
  BY DEF Truths, TypeOK
<1>1. CASE \E x \in Workers : (Apply(x) \/ DdlLost(x)) /\ wk[x].pc = "apply" /\ Guard(x) /\ Defined(wk[x].w, Target(x))
  <2>1. PICK x \in Workers : (Apply(x) \/ DdlLost(x)) /\ wk[x].pc = "apply" /\ Guard(x) /\ Defined(wk[x].w, Target(x))
    BY <1>1
  <2>2. wk[x].w \in Workspaces /\ wk[x].r \in Revisions
    BY <2>1 DEF Truths, TypeOK
  <2>3. Target(x) \in Policies /\ Target(x) \in Contents
    BY <2>2, ContentsArePolicies DEF Target, Contents
  <2>4. native'[wk[x].w].pol = Target(x) /\ \A v \in Workspaces : v # wk[x].w => native'[v] = native[v]
    BY <2>1, <2>2, <2>3, DefinedGrows DEF Truths
  <2>5. w = wk[x].w
    BY <2>4
  <2>6. Seen(x)
    BY <2>1 DEF Truths, AllSeen, MayApply
  <2>7. native[w].pol # Target(x) /\ (native[w].pol = Foreign => wk[x].mode = "reapply")
    BY <2>1, <2>3, <2>5, <2>6, GuardedStatement DEF Seen, Guard
  <2> QED
    BY <2>4, <2>5, <2>7 DEF Reapplies
<1>2. CASE \E v \in Workspaces : DefineForeign(v)
  <2>1. PICK v \in Workspaces : DefineForeign(v)
    BY <1>2
  <2>2. Foreign \in Policies
    BY DEF Policies
  <2>3. native'[v].pol = Foreign /\ \A u \in Workspaces : u # v => native'[u] = native[u]
    BY <2>1, <2>2, DefinedGrows DEF Truths, DefineForeign
  <2> QED
    BY <2>3
<1>3. CASE \E v \in Workspaces : \E n \in Observations : n.gen = native[v].gen /\ native' = [native EXCEPT ![v] = n]
  BY <1>0, <1>3
<1>4. CASE UNCHANGED native
  BY <1>4
<1>5. ASSUME NEW v \in Workspaces, NEW l \in Ledgers, native' = [native EXCEPT ![v].ledger = l]
      PROVE  \E n \in Observations : n.gen = native[v].gen /\ native' = [native EXCEPT ![v] = n]
  <2> DEFINE n == [native[v] EXCEPT !.ledger = l]
  <2>1. n \in Observations /\ n.gen = native[v].gen
    BY <1>0 DEF Observations
  <2>2. native' = [native EXCEPT ![v] = n]
    BY <1>5
  <2> QED
    BY <2>1, <2>2
<1>6. CASE \E v \in Workspaces : Remove(v)
  <2>1. PICK v \in Workspaces : Remove(v)
    BY <1>6
  <2> DEFINE n == [native[v] EXCEPT !.pol = None]
  <2>2. n \in Observations /\ n.gen = native[v].gen
    BY <1>0 DEF Observations, Policies
  <2>3. native' = [native EXCEPT ![v] = n]
    BY <2>1 DEF Remove
  <2> HIDE DEF n
  <2> QED
    BY <1>3, <2>2, <2>3
<1>7. CASE \E v \in Workspaces : LedgerBuilt(v) \/ LedgerLost(v)
  <2>1. \E v \in Workspaces, l \in Ledgers : native' = [native EXCEPT ![v].ledger = l]
    BY <1>7 DEF LedgerBuilt, LedgerLost, Ledgers
  <2> QED
    BY <1>3, <1>5, <2>1
<1>8. CASE \E x \in Workers : Rebuild(x) \/ DdlLost(x)
  <2>1. PICK x \in Workers : Rebuild(x) \/ DdlLost(x)
    BY <1>8
  <2>2. wk[x].w \in Workspaces /\ "ready" \in Ledgers
    BY <2>1, WorkingHas DEF Rebuild, DdlLost, At, Truths, Ledgers
  <2>3. CASE native' = [native EXCEPT ![wk[x].w].ledger = "ready"]
    BY <1>3, <1>5, <2>2, <2>3
  <2> QED
    BY <1>1, <1>4, <2>1, <2>3 DEF Rebuild, DdlLost, At, TakesEffect
<1>9. CASE \E x \in Workers : Apply(x)
  BY <1>1, <1>4, <1>9 DEF Apply, At
<1>10. ASSUME NEW x \in Workers, Works(x) \/ Suffers(x)
       PROVE  UNCHANGED native \/ Rebuild(x) \/ DdlLost(x) \/ Apply(x)
  <2>1. CASE Claim(x) \/ ClaimLost(x)
    BY <2>1 DEF Claim, ClaimLost, Claimed
  <2>2. CASE Load(x) \/ Info(x) \/ InfoThrows(x) \/ Renew(x) \/ Settle(x) \/ Abandon(x)
    BY <2>2 DEF Load, Info, InfoThrows, Renew, Settle, Abandon
  <2>3. CASE Reread(x) \/ ReadThrows(x) \/ Readback(x) \/ Recover(x)
    BY <2>3 DEF Reread, ReadThrows, Readback, Recover
  <2> QED
    BY <1>10, <2>1, <2>2, <2>3 DEF Works, Suffers
<1>11. ASSUME NEW v \in Workspaces, Passes(v) \/ Happens(v) \/ \E r \in Revisions : Backoff(v, r)
       PROVE  UNCHANGED native \/ DefineForeign(v) \/ Remove(v) \/ LedgerBuilt(v) \/ LedgerLost(v) \/ DdlLands(v)
  BY <1>11 DEF Passes, Happens, Expire, ExpireSlow, LookUp, LookAsk, LookStore, Desire, Reopen,
               Pause, Resume, Backoff
<1>12. CASE \E v \in Workspaces : DdlLands(v)
  <2>1. PICK v \in Workspaces : DdlLands(v)
    BY <1>12
  <2>2. PICK s \in late[v] : IF s.ddl = "apply" => Meets(v, s.seen)
                            THEN TakesEffect(v, s.ddl, s.pol) ELSE UNCHANGED <<native, since>>
    BY <2>1 DEF DdlLands
  <2>3. s \in Statements
    BY DEF Truths, TypeOK
  <2>4. s.pol \in Contents /\ s.pol \in Policies
    BY <2>3 DEF Statements, Policies
  <2>5. CASE native' = [native EXCEPT ![v].ledger = "ready"]
    BY <1>3, <1>5, <2>5 DEF Ledgers
  <2>6. CASE s.ddl = "apply" /\ Meets(v, s.seen) /\ Defined(v, s.pol)
    <3>1. native'[v].pol = s.pol /\ \A u \in Workspaces : u # v => native'[u] = native[u]
      BY <2>4, <2>6, DefinedGrows DEF Truths
    <3>2. w = v
      BY <3>1
    <3>3. Judged(v, s.seen, s.pol, s.mode)
      BY <2>6 DEF Truths, LateSeen
    <3>4. native[v].pol # s.pol /\ (native[v].pol = Foreign => s.mode = "reapply")
      BY <2>4, <2>6, <3>3, GuardedStatement
    <3> QED
      BY <3>1, <3>2, <3>4 DEF Reapplies
  <2> QED
    BY <1>4, <2>2, <2>5, <2>6 DEF TakesEffect
<1> QED
  BY <1>2, <1>4, <1>6, <1>7, <1>8, <1>9, <1>10, <1>11, <1>12 DEF Next

\* No statement of a worker, also one that lands after its run has given it up, defines again the
\* policy that is in force, and none replaces a foreign policy without the leave of an operator,
\* whatever happens between its look and the statement.
THEOREM StatementsAreGuarded == Spec => GuardedApply
<1>1. Truths /\ [Next]_vars =>
        [\A w \in Workspaces :
           native'[w].gen # native[w].gen /\ native'[w].pol # Foreign =>
               /\ native'[w].pol # native[w].pol
               /\ native[w].pol = Foreign => Reapplies(w)]_vars
  BY ApplyStep DEF vars
<1> QED
  BY <1>1, TruthsHold, PTL DEF Spec, GuardedApply
=============================================================================
