---------------------------- MODULE EffectLedger ----------------------------
(***************************************************************************)
(* The idempotency ledger of one side effect of a virtual employee's       *)
(* trigger (server/ai/office/employee-effects.ts): runEffect(key, fn)      *)
(* claims the employee_effect row of the key, returns the stored result    *)
(* when the row is committed, and otherwise runs fn and commits its        *)
(* result.                                                                 *)
(*                                                                         *)
(* An attempt is one execution of runEffect for the same key: the first    *)
(* run of the durable step, its replay after a crash, or the execution     *)
(* left behind by an aborted window while another window replays the step. *)
(* Attempts overlap in any way.  Two history variables remember what the   *)
(* properties need: who has run fn, and who was overtaken, that is, still  *)
(* on its way when the effect was committed by another attempt.            *)
(***************************************************************************)
EXTENDS Naturals, FiniteSets

CONSTANTS
    Attempts,   \* executions of runEffect for the one effect key
    Values,     \* results that the ledger stores, null among them
    Null,       \* the null of JSON
    Undefined,  \* what an fn without a result gives; the database stores no undefined
    None        \* no row, no result

ASSUME EffectAssumption ==
    /\ Null \in Values
    /\ None \notin Values
    /\ Undefined \notin Values
    /\ None # Undefined

VARIABLES
    row,        \* the employee_effect row: its status and its result
    pc,         \* where each attempt is
    got,        \* the result fn gave, or the ledger returned, to each attempt
    wrote,      \* history: the attempts whose fn has written to the business tables
    overtaken   \* history: the attempts on their way at another attempt's commit

vars == <<row, pc, got, wrote, overtaken>>

\* "sent": the attempt gave up its commit, whose UPDATE may still land; "landed": it did.
Phases == {"idle", "claimed", "ran", "sent", "landed", "returned", "crashed"}

InFlight == {a \in Attempts : pc[a] \in {"claimed", "ran", "sent"}}

\* { v: result ?? null }
Stored(v) == IF v = Undefined THEN Null ELSE v

-----------------------------------------------------------------------------

Init ==
    /\ row = [status |-> "absent", result |-> None]
    /\ pc = [a \in Attempts |-> "idle"]
    /\ got = [a \in Attempts |-> None]
    /\ wrote = {}
    /\ overtaken = {}

\* Mutant of ClaimedRow: the claim writes status "pending" on a duplicate key too.
MutantClaimResets == [row EXCEPT !.status = "pending"]

\* The row after INSERT ... ON DUPLICATE KEY UPDATE effect_key: a new row is
\* pending, an existing one keeps its status and its result.
ClaimedRow ==
    IF row.status = "absent" THEN [row EXCEPT !.status = "pending"] ELSE row

\* Mutant of Claim: the committed row is not returned, fn runs on every claim.
MutantClaimIgnoresCommit(a) ==
    /\ pc[a] = "idle"
    /\ row' = ClaimedRow
    /\ pc' = [pc EXCEPT ![a] = "claimed"]
    /\ UNCHANGED <<got, wrote, overtaken>>

\* The claim, and the early return when the row it reads is committed.
Claim(a) ==
    /\ pc[a] = "idle"
    /\ row' = ClaimedRow
    /\ IF row'.status = "committed"
       THEN /\ pc' = [pc EXCEPT ![a] = "returned"]
            /\ got' = [got EXCEPT ![a] = row'.result]
       ELSE /\ pc' = [pc EXCEPT ![a] = "claimed"]
            /\ UNCHANGED got
    /\ UNCHANGED <<wrote, overtaken>>

\* const result = await fn(): the business write.
RunFn(a) ==
    /\ pc[a] = "claimed"
    /\ \E v \in Values \cup {Undefined} : got' = [got EXCEPT ![a] = v]
    /\ wrote' = wrote \cup {a}
    /\ pc' = [pc EXCEPT ![a] = "ran"]
    /\ UNCHANGED <<row, overtaken>>

\* UPDATE employee_effect SET status = "committed", result = ... WHERE effect_key
\* = ... takes effect: no condition on the status it finds.
Landing(a) ==
    /\ row' = [status |-> "committed", result |-> Stored(got[a])]
    /\ overtaken' = overtaken \cup (InFlight \ {a})
    /\ UNCHANGED <<got, wrote>>

\* The commit is answered, and the attempt returns its own result.
Commit(a) ==
    /\ pc[a] = "ran"
    /\ pc' = [pc EXCEPT ![a] = "returned"]
    /\ Landing(a)

\* The UPDATE is sent and its answer never reaches the attempt: its process died, its
\* connection did, or the session's 15 seconds ran out.
CommitGivenUp(a) ==
    /\ pc[a] = "ran"
    /\ pc' = [pc EXCEPT ![a] = "sent"]
    /\ UNCHANGED <<row, got, wrote, overtaken>>

\* The UPDATE of an attempt that gave up lands, at any later time or never.
CommitLands(a) ==
    /\ pc[a] = "sent"
    /\ pc' = [pc EXCEPT ![a] = "landed"]
    /\ Landing(a)

\* The process dies, or fn throws, before the commit is sent.
Crash(a) ==
    /\ pc[a] \in {"claimed", "ran"}
    /\ pc' = [pc EXCEPT ![a] = "crashed"]
    /\ UNCHANGED <<row, got, wrote, overtaken>>

Next ==
    \E a \in Attempts :
        Claim(a) \/ RunFn(a) \/ Commit(a) \/ CommitGivenUp(a) \/ CommitLands(a) \/ Crash(a)

Spec == Init /\ [][Next]_vars

-----------------------------------------------------------------------------

\* Every variable keeps its type.
TypeOK ==
    /\ row \in [status : {"absent", "pending", "committed"}, result : Values \cup {None}]
    /\ pc \in [Attempts -> Phases]
    /\ got \in [Attempts -> Values \cup {Undefined, None}]
    /\ wrote \subseteq Attempts
    /\ overtaken \subseteq Attempts

\* An effect that some attempt has returned stays committed, with a result to
\* replay: a replay of the step that starts later finds it and never runs fn again,
\* whatever other attempts of the same key are doing (the two phases of runEffect).
ReturnedIsDurable ==
    \A a \in Attempts : pc[a] = "returned" => row.status = "committed" /\ row.result # None

\* The attempts whose commit took effect although another one's had in the meantime.
CommittedLate == {a \in overtaken : pc[a] \in {"returned", "landed"}}

\* All attempts that return, return the same result, the committed one, up to an
\* undefined that comes back as null: the replay of a durable step sees what the
\* first execution saw.  Only the commit of an attempt that another one has
\* overtaken replaces what was already returned.
ReplayAgrees ==
    CommittedLate = {} =>
        \A a \in Attempts : pc[a] = "returned" => Stored(got[a]) = row.result

\* What was answered is durable and replayed: no caller of runEffect is contradicted later.
Replayed == ReturnedIsDurable /\ ReplayAgrees

\* "The business write happens exactly once", as far as it goes: once the effect is
\* committed, fn has run in one attempt only, apart from those that died between fn
\* and the commit and those that were on their way beside the one that committed.
OneWrite ==
    row.status = "committed" =>
        \A a, b \in wrote \ overtaken : pc[a] # "crashed" /\ pc[b] # "crashed" => a = b

=============================================================================
