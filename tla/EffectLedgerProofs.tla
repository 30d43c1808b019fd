------------------------- MODULE EffectLedgerProofs -------------------------
(***************************************************************************)
(* What the effect ledger promises, for every set of attempts and every    *)
(* set of results, however the attempts overlap, crash and land late.      *)
(***************************************************************************)
EXTENDS EffectLedger, TLAPS

\* The shape of the four variables is kept by every operation of the ledger
\* (runEffect: the claim, fn, the commit, and a death in between).
THEOREM TypeCorrect == Spec => []TypeOK
<1>1. Init => TypeOK
  BY DEF Init, TypeOK, Phases
<1>2. TypeOK /\ [Next]_vars => TypeOK'
  <2> SUFFICES ASSUME TypeOK, [Next]_vars PROVE TypeOK'
    OBVIOUS
  <2> USE DEF TypeOK, Phases
  <2>1. ASSUME NEW a \in Attempts, Claim(a) PROVE TypeOK'
    BY <2>1 DEF Claim, ClaimedRow
  <2>2. ASSUME NEW a \in Attempts, RunFn(a) PROVE TypeOK'
    BY <2>2 DEF RunFn
  <2>3. ASSUME NEW a \in Attempts, Commit(a) \/ CommitLands(a) PROVE TypeOK'
    BY <2>3, EffectAssumption DEF Commit, CommitLands, Landing, InFlight, Stored
  <2>4. ASSUME NEW a \in Attempts, CommitGivenUp(a) \/ Crash(a) PROVE TypeOK'
    BY <2>4 DEF CommitGivenUp, Crash
  <2>5. CASE UNCHANGED vars
    BY <2>5 DEF vars
  <2> QED
    BY <2>1, <2>2, <2>3, <2>4, <2>5 DEF Next
<1> QED
  BY <1>1, <1>2, PTL DEF Spec

-----------------------------------------------------------------------------

\* An attempt that has run fn holds a result, a committed row holds one, and who
\* returned or landed has a committed row behind it.
Durable ==
    /\ \A a \in Attempts : pc[a] \in {"ran", "sent"} => got[a] # None
    /\ \A a \in Attempts : pc[a] \in {"returned", "landed"} => row.status = "committed"
    /\ row.status = "committed" => row.result # None

\* Whoever is on its way once the row is committed was overtaken, and who wrote is past
\* its claim.
Overtaken ==
    /\ row.status = "committed" => InFlight \subseteq overtaken
    /\ \A a \in wrote : pc[a] \notin {"idle", "claimed"}

\* The promises as an invariant of the steps: durability, agreement with what landed
\* too, and one write.
LedgerInv ==
    /\ TypeOK
    /\ Durable
    /\ Overtaken
    /\ CommittedLate = {} =>
          \A a \in Attempts : pc[a] \in {"returned", "landed"} => Stored(got[a]) = row.result
    /\ OneWrite

\* The claim keeps the promises: a committed row is returned as it is.
LEMMA ClaimKeeps ==
    ASSUME LedgerInv, NEW a \in Attempts, Claim(a) PROVE LedgerInv'
<1> USE DEF LedgerInv, TypeOK, Phases, InFlight
<1>1. CASE row.status = "committed"
  <2>1. row' = row /\ pc' = [pc EXCEPT ![a] = "returned"] /\ got' = [got EXCEPT ![a] = row.result]
    BY <1>1 DEF Claim, ClaimedRow
  <2>2. UNCHANGED <<wrote, overtaken>> /\ pc[a] = "idle"
    BY DEF Claim
  <2>3. Stored(row.result) = row.result
    BY EffectAssumption DEF Stored
  <2>4. TypeOK' /\ Durable' /\ Overtaken'
    BY <1>1, <2>1, <2>2 DEF Durable, Overtaken
  <2>5. CommittedLate' = {} => CommittedLate = {}
    BY <2>1, <2>2 DEF CommittedLate
  <2>6. CommittedLate' = {} => \A b \in Attempts :
            pc'[b] \in {"returned", "landed"} => Stored(got'[b]) = row'.result
    BY <2>1, <2>3, <2>5 DEF Stored
  <2>7. OneWrite'
    BY <1>1, <2>1, <2>2 DEF OneWrite, Overtaken
  <2> QED
    BY <2>4, <2>6, <2>7 DEF Stored
<1>2. CASE row.status # "committed"
  <2>1. row'.status = "pending" /\ pc' = [pc EXCEPT ![a] = "claimed"]
        /\ row' \in [status : {"absent", "pending", "committed"}, result : Values \cup {None}]
    BY <1>2 DEF Claim, ClaimedRow
  <2>2. UNCHANGED <<got, wrote, overtaken>> /\ pc[a] = "idle"
    BY <1>2, <2>1 DEF Claim, ClaimedRow
  <2> QED
    BY <1>2, <2>1, <2>2 DEF Durable, Overtaken, OneWrite
<1> QED
  BY <1>1, <1>2

\* The commit of an attempt keeps them, answered or late: either it is the first, or
\* the attempt was overtaken.
LEMMA LandingKeeps ==
    ASSUME LedgerInv, NEW a \in Attempts, Commit(a) \/ CommitLands(a) PROVE LedgerInv'
<1> USE DEF LedgerInv, TypeOK, Phases, InFlight
<1>1. pc[a] \in {"ran", "sent"} /\ UNCHANGED <<got, wrote>>
  BY DEF Commit, CommitLands, Landing
<1>2. row' = [status |-> "committed", result |-> Stored(got[a])]
      /\ overtaken' = overtaken \cup (InFlight \ {a})
  BY DEF Commit, CommitLands, Landing
<1>3. PICK q \in {"returned", "landed"} : pc' = [pc EXCEPT ![a] = q]
  BY DEF Commit, CommitLands
<1>4. Stored(got[a]) \in Values
  BY <1>1, EffectAssumption DEF Stored, Durable
<1>5. TypeOK' /\ Durable' /\ Overtaken'
  BY <1>1, <1>2, <1>3, <1>4, EffectAssumption DEF Durable, Overtaken
<1>6. CASE row.status = "committed"
  <2>1. a \in overtaken
    BY <1>1, <1>6 DEF Overtaken
  <2>2. CommittedLate' # {}
    BY <1>2, <1>3, <2>1 DEF CommittedLate
  <2>3. OneWrite'
    BY <1>1, <1>2, <1>3, <1>6, <2>1 DEF OneWrite
  <2> QED
    BY <1>5, <2>2, <2>3
<1>7. CASE row.status # "committed"
  <2>1. \A b \in Attempts : pc'[b] \in {"returned", "landed"} => b = a
    BY <1>3, <1>7 DEF Durable
  <2>2. \A b \in Attempts :
            pc'[b] \in {"returned", "landed"} => Stored(got'[b]) = row'.result
    BY <1>1, <1>2, <2>1 DEF Stored
  <2>3. \A b \in wrote' \ overtaken' : pc'[b] # "crashed" => b = a
    <3>1. SUFFICES ASSUME NEW b \in wrote, b \notin overtaken', pc[b] # "crashed", b # a
                   PROVE FALSE
      BY <1>1, <1>3
    <3>2. b \in InFlight
      BY <1>7, <3>1 DEF Overtaken, Durable
    <3> QED
      BY <1>2, <3>1, <3>2
  <2>4. OneWrite'
    BY <2>3 DEF OneWrite
  <2> QED
    BY <1>5, <2>2, <2>4
<1> QED
  BY <1>6, <1>7

\* Every step of the ledger keeps what it promises.
LEMMA LedgerInvariant == Spec => []LedgerInv
<1>1. Init => LedgerInv
  BY DEF Init, LedgerInv, TypeOK, Phases, Durable, Overtaken, OneWrite
<1>2. LedgerInv /\ [Next]_vars => LedgerInv'
  <2> SUFFICES ASSUME LedgerInv, [Next]_vars PROVE LedgerInv'
    OBVIOUS
  <2>1. ASSUME NEW a \in Attempts, RunFn(a) PROVE LedgerInv'
    <3> USE DEF LedgerInv, TypeOK, Phases, InFlight
    <3>1. PICK v \in Values \cup {Undefined} : got' = [got EXCEPT ![a] = v]
      BY <2>1 DEF RunFn
    <3>2. pc[a] = "claimed" /\ pc' = [pc EXCEPT ![a] = "ran"] /\ wrote' = wrote \cup {a}
          /\ UNCHANGED <<row, overtaken>>
      BY <2>1 DEF RunFn
    <3>3. TypeOK' /\ Durable' /\ Overtaken'
      BY <3>1, <3>2, EffectAssumption DEF Durable, Overtaken
    <3>4. CommittedLate' = CommittedLate
      BY <3>2 DEF CommittedLate
    <3>5. OneWrite'
      BY <3>2 DEF OneWrite, Overtaken
    <3> QED
      BY <3>1, <3>2, <3>3, <3>4, <3>5 DEF Stored
  <2>2. ASSUME NEW a \in Attempts, CommitGivenUp(a) \/ Crash(a) PROVE LedgerInv'
    <3> USE DEF LedgerInv, TypeOK, Phases, InFlight
    <3>1. PICK q \in {"sent", "crashed"} : pc' = [pc EXCEPT ![a] = q]
                                           /\ (q = "sent" => pc[a] = "ran")
      BY <2>2 DEF CommitGivenUp, Crash
    <3>2. pc[a] \in {"claimed", "ran"} /\ UNCHANGED <<row, got, wrote, overtaken>>
      BY <2>2 DEF CommitGivenUp, Crash
    <3>3. TypeOK' /\ Durable' /\ Overtaken'
      BY <3>1, <3>2 DEF Durable, Overtaken
    <3>4. CommittedLate' = CommittedLate
      BY <3>1, <3>2 DEF CommittedLate
    <3>5. OneWrite'
      BY <3>1, <3>2 DEF OneWrite
    <3> QED
      BY <3>1, <3>2, <3>3, <3>4, <3>5 DEF Stored
  <2>3. CASE UNCHANGED vars
    BY <2>3 DEF LedgerInv, TypeOK, vars, Durable, Overtaken, InFlight, CommittedLate, OneWrite, Stored
  <2> QED
    BY <2>1, <2>2, <2>3, ClaimKeeps, LandingKeeps DEF Next
<1> QED
  BY <1>1, <1>2, PTL DEF Spec

\* Once some attempt has returned, the effect is committed with a result for as
\* long as the system runs, however the attempts overlap (runEffect).
THEOREM Durability == Spec => []ReturnedIsDurable
<1>1. LedgerInv => ReturnedIsDurable
  BY DEF LedgerInv, Durable, ReturnedIsDurable
<1> QED
  BY <1>1, LedgerInvariant, PTL

\* No caller of runEffect is contradicted later, unless an attempt that another one
\* had overtaken commits (the crash window the header of employee-effects.ts describes).
THEOREM ReplayIsTrue == Spec => []Replayed
<1>1. LedgerInv => Replayed
  BY DEF LedgerInv, Durable, ReturnedIsDurable, ReplayAgrees, Replayed
<1> QED
  BY <1>1, LedgerInvariant, PTL

\* Once the effect is committed, fn has run in one attempt only, apart from those that
\* crashed before their commit or were overtaken ("the business write happens exactly once").
THEOREM WriteOnce == Spec => []OneWrite
<1>1. LedgerInv => OneWrite
  BY DEF LedgerInv
<1> QED
  BY <1>1, LedgerInvariant, PTL

=============================================================================
