------------------------- MODULE AiAllowanceProofs -------------------------
(***************************************************************************)
(* Proofs about AiAllowance, for any calls, syncs, buckets and bounds.     *)
(***************************************************************************)
EXTENDS AiAllowance, SequenceTheorems, FiniteSetTheorems, TLAPS

LedgerTyped ==
    /\ bucket \in [Buckets -> Amounts]
    /\ dead \subseteq Buckets /\ ended \subseteq Sources \cup {None}
    /\ resv \in Seq(Reservation) /\ Len(resv) <= MaxHolds
    /\ notices \subseteq Periods \X {50, 80, 100}

\* A bucket that is not there is empty, a hold is of the one amount and on a bucket that is there.
Sound ==
    /\ \A b \in Buckets : ~Exists(b) => bucket[b] = NoBucket
    /\ \A i \in Holds : /\ resv[i].max = Amount /\ resv[i].charge <= Amount
                        /\ Exists(resv[i].bucket)

KeyStates == {"look", "candidates", "try", "check", "raced"}

\* What call c has read, and still relies on, when its record is r and H are the holds.
Good(c, r, H) ==
    /\ r \in CallRecord
    /\ r.pc \in KeyStates => r.key \in Keys
    /\ r.pc \in {"post", "notify"} => r.hold \in H
    /\ r.pc = "post" /\ OpIn(c, {"settle"}) => CallOf[c].charge <= Amount
    /\ r.todo \subseteq H

AllowanceInv == TypeOK /\ Sound /\ \A c \in Calls : Good(c, call[c], Holds)

Facts == LedgerTyped /\ Sound /\ now \in Nat

-----------------------------------------------------------------------------
(* Records. *)

LEMMA HeldTyped ==
    ASSUME NEW a \in Amounts, a.available >= Amount, Amount \in Nat \ {0}
    PROVE  /\ Held(a) \in Amounts
           /\ Held(a).total = a.total /\ Held(a).available = a.available - Amount
           /\ Held(a).reserved = a.reserved + Amount
           /\ Held(a).settled = a.settled /\ Held(a).lost = a.lost
BY DEF Held, Amounts

LEMMA FreedTyped ==
    ASSUME NEW a \in Amounts, NEW max \in Nat, NEW charge \in 0..max, NEW back \in BOOLEAN
    PROVE  /\ Freed(a, max, charge, back) \in Amounts
           /\ Freed(a, max, charge, back).total = a.total
           /\ ~back => Freed(a, max, charge, back).available = a.available
           /\ Freed(a, max, charge, back).reserved = a.reserved - max
           /\ Freed(a, max, charge, back).settled = a.settled + charge
           /\ back => /\ Freed(a, max, charge, back).available = a.available + (max - charge)
                      /\ Freed(a, max, charge, back).lost = a.lost
           /\ ~back => Freed(a, max, charge, back).lost = a.lost + (max - charge)
BY DEF Freed, Amounts

LEMMA EndedTyped ==
    ASSUME NEW r \in Reservation, NEW status \in {"settled", "released", "expired"},
           NEW charge \in Nat
    PROVE  /\ Ended(r, status, charge) \in Reservation
           /\ Ended(r, status, charge).max = r.max /\ Ended(r, status, charge).charge = charge
           /\ Ended(r, status, charge).bucket = r.bucket /\ Ended(r, status, charge).key = r.key
           /\ Ended(r, status, charge).status = status
BY DEF Ended, Reservation

\* What the rows of the ledger are.
LEMMA RowsTyped ==
    ASSUME LedgerTyped
    PROVE  /\ \A b \in Buckets : bucket[b] \in Amounts
           /\ Holds = 1..Len(resv) /\ Len(resv) \in Nat
           /\ \A i \in Holds : resv[i] \in Reservation /\ resv[i].bucket \in Buckets
<1>1. resv \in Seq(Reservation) /\ bucket \in [Buckets -> Amounts]
  BY DEF LedgerTyped
<1>2. Holds = 1..Len(resv) /\ Len(resv) \in Nat
  BY <1>1 DEF Holds
<1>3. \A i \in Holds : resv[i] \in Reservation
  BY <1>1, <1>2
<1>4. \A r \in Reservation : r.bucket \in Buckets
  BY DEF Reservation
<1> QED BY <1>1, <1>2, <1>3, <1>4

(* The transactions keep the ledger typed and sound. *)

\* Creating a bucket that is not there.
LEMMA CreateSound ==
    ASSUME Facts, NEW b \in Buckets, NEW n \in Nat \ {0}, ~Exists(b), CreateTx(b, n)
    PROVE  LedgerTyped' /\ Sound' /\ resv' = resv
<1> DEFINE x == Funded(n)
<1>2. x \in Amounts /\ x.total > 0
  BY DEF Amounts, Funded
<1>3. bucket' = [bucket EXCEPT ![b] = x]
  BY DEF CreateTx
<1> HIDE DEF x
<1>4. \A y \in Buckets : bucket'[y] = IF y = b THEN x ELSE bucket[y]
  BY <1>3 DEF Facts, LedgerTyped
<1>5. LedgerTyped'
  BY <1>2, <1>3 DEF Facts, LedgerTyped, CreateTx, ledger, Holds
<1>6. \A y \in Buckets : Exists(y) => Exists(y)'
  BY <1>2, <1>4 DEF Exists
<1>7. \A i \in Holds : resv[i].bucket \in Buckets
  BY RowsTyped DEF Facts
<1>8. \A y \in Buckets : ~Exists(y)' => bucket'[y] = NoBucket
  BY <1>2, <1>4, <1>6 DEF Facts, Sound, Exists
<1>9. resv' = resv /\ Holds' = Holds
  BY DEF CreateTx, Holds
<1>10. Sound'
  BY <1>6, <1>7, <1>8, <1>9 DEF Facts, Sound, Exists
<1> QED BY <1>5, <1>9, <1>10

\* Reserving under a key.
LEMMA ReserveSound ==
    ASSUME Facts, NEW k \in Keys, NEW run \in Runs, NEW b \in Buckets, NEW prefix,
           ReserveTx(k, run, b, prefix)
    PROVE  LedgerTyped' /\ Sound' /\ Len(resv') = Len(resv) + 1
<1> DEFINE x == Held(bucket[b])
           r == [key |-> k, run |-> run, bucket |-> b, max |-> Amount, charge |-> 0,
                 deadline |-> now + Window, status |-> "reserved"]
<1>1. bucket[b] \in Amounts /\ Amount \in Nat \ {0} /\ Window \in Nat /\ Exists(b)
  BY LedgerAssumption DEF Facts, LedgerTyped, ReserveTx, Fits, Consumable
<1>2. bucket[b].available >= Amount
  BY DEF ReserveTx, Fits
<1>3. x \in Amounts /\ x.total = bucket[b].total
  BY <1>1, <1>2, HeldTyped
<1>4. bucket' = [bucket EXCEPT ![b] = x] /\ resv' = Append(resv, r)
  BY DEF ReserveTx
<1>5. r \in Reservation /\ r.max = Amount /\ r.charge = 0 /\ r.bucket = b
  BY <1>1 DEF Facts, Reservation
<1> HIDE DEF x, r
<1>6. \A y \in Buckets : bucket'[y] = IF y = b THEN x ELSE bucket[y]
  BY <1>4 DEF Facts, LedgerTyped
<1>7. resv' \in Seq(Reservation) /\ Len(resv') = Len(resv) + 1
  BY <1>4, <1>5 DEF Facts, LedgerTyped
<1>8. resv \in Seq(Reservation)
  BY DEF Facts, LedgerTyped
<1>9. \A i \in 1..(Len(resv) + 1) : resv'[i] = IF i \in 1..Len(resv) THEN resv[i] ELSE r
  BY <1>4, <1>5, <1>8
<1>10. \A i \in Holds' : resv'[i] = r \/ (i \in Holds /\ resv'[i] = resv[i])
  BY <1>7, <1>8, <1>9 DEF Holds
<1>11. LedgerTyped'
  <2>1. Len(resv) < MaxHolds /\ UNCHANGED <<dead, ended, notices>>
    BY DEF ReserveTx
  <2>2. MaxHolds \in Nat /\ Len(resv) \in Nat
    BY LedgerAssumption, <1>8
  <2> QED BY <1>3, <1>4, <1>7, <2>1, <2>2 DEF Facts, LedgerTyped
<1>12. \A y \in Buckets : Exists(y)' <=> Exists(y)
  BY <1>3, <1>6 DEF Exists
<1>13. \A i \in Holds : resv[i].bucket \in Buckets
  BY RowsTyped DEF Facts
<1>14. Sound'
  <2>1. \A y \in Buckets : ~Exists(y)' => bucket'[y] = NoBucket
    BY <1>1, <1>6, <1>12 DEF Facts, Sound
  <2>2. \A i \in Holds' : resv'[i].max = Amount /\ resv'[i].charge <= Amount /\ resv'[i].bucket \in Buckets
    BY <1>1, <1>5, <1>10, <1>13 DEF Facts, Sound
  <2>3. \A i \in Holds' : Exists(resv'[i].bucket)
    BY <1>1, <1>5, <1>10, <1>13 DEF Facts, Sound
  <2>4. \A i \in Holds' : (Exists(resv[i].bucket))'
    BY <1>12, <2>2, <2>3 DEF Exists
  <2> QED BY <2>1, <2>2, <2>4 DEF Sound
<1> QED BY <1>7, <1>11, <1>14

\* What closing an open hold writes.
LEMMA CloseWrites ==
    ASSUME Facts, NEW i \in Open, NEW charge \in Nat, charge <= Amount,
           NEW status \in {"settled", "released", "expired"}, CloseTx(i, status, charge)
    PROVE  \E b \in Buckets, back \in BOOLEAN :
             LET x == Freed(bucket[b], Amount, charge, back)
                 r == Ended(resv[i], status, charge)
             IN  /\ b = resv[i].bucket /\ back = Returnable(b) /\ Exists(b)
                 /\ i \in Holds /\ bucket[b] \in Amounts /\ resv[i] \in Reservation
                 /\ resv[i].status = "reserved"
                 /\ bucket' = [bucket EXCEPT ![b] = x] /\ resv' = [resv EXCEPT ![i] = r]
                 /\ UNCHANGED <<dead, ended, notices>>
<1>1. i \in Holds /\ resv[i].status = "reserved"
  BY DEF Open
<1>2. resv[i].bucket \in Buckets /\ resv[i] \in Reservation /\ bucket[resv[i].bucket] \in Amounts
  BY <1>1, RowsTyped DEF Facts
<1>3. resv[i].max = Amount /\ Exists(resv[i].bucket)
  BY <1>1 DEF Facts, Sound
<1>4. Returnable(resv[i].bucket) \in BOOLEAN
  BY DEF Returnable, InTerm
<1> QED BY <1>1, <1>2, <1>3, <1>4 DEF CloseTx

\* Closing a hold, or finding it closed.
LEMMA CloseSound ==
    ASSUME Facts, NEW i \in Holds, NEW charge \in Nat, charge <= Amount,
           NEW status \in {"settled", "released", "expired"}, CloseTx(i, status, charge)
    PROVE  LedgerTyped' /\ Sound' /\ Len(resv') = Len(resv)
<1>1. CASE i \notin Open
  BY <1>1 DEF CloseTx, ledger, Facts, LedgerTyped, Sound, Exists, Holds
<1>2. CASE i \in Open
  <2>1. PICK b \in Buckets, back \in BOOLEAN :
             LET x == Freed(bucket[b], Amount, charge, back)
                 r == Ended(resv[i], status, charge)
             IN  /\ b = resv[i].bucket /\ back = Returnable(b) /\ Exists(b)
                 /\ i \in Holds /\ bucket[b] \in Amounts /\ resv[i] \in Reservation
                 /\ resv[i].status = "reserved"
                 /\ bucket' = [bucket EXCEPT ![b] = x] /\ resv' = [resv EXCEPT ![i] = r]
                 /\ UNCHANGED <<dead, ended, notices>>
    BY <1>2, CloseWrites
  <2> DEFINE x == Freed(bucket[b], Amount, charge, back)
             r == Ended(resv[i], status, charge)
  <2>2. x \in Amounts /\ x.total = bucket[b].total
    BY <2>1, FreedTyped, LedgerAssumption
  <2>13. resv[i].max = Amount
    BY <2>1 DEF Facts, Sound
  <2>14. resv[i] \in Reservation /\ b = resv[i].bucket
    BY <2>1
  <2>3. r \in Reservation /\ r.max = Amount /\ r.charge = charge /\ r.bucket = b
    BY <2>13, <2>14, EndedTyped
  <2>4. bucket' = [bucket EXCEPT ![b] = x] /\ resv' = [resv EXCEPT ![i] = r]
    BY <2>1
  <2> HIDE DEF x, r
  <2>5. \A y \in Buckets : bucket'[y] = IF y = b THEN x ELSE bucket[y]
    BY <2>4 DEF Facts, LedgerTyped
  <2>6. resv \in Seq(Reservation) /\ i \in 1..Len(resv)
    BY <2>1, RowsTyped DEF Facts, LedgerTyped
  <2>7. resv' \in Seq(Reservation) /\ Len(resv') = Len(resv)
    BY <2>3, <2>4, <2>6
  <2>8. Holds' = Holds /\ \A j \in Holds : resv'[j] = IF j = i THEN r ELSE resv[j]
    BY <2>4, <2>6, <2>7 DEF Holds
  <2>9. LedgerTyped'
    BY <2>1, <2>2, <2>4, <2>7 DEF Facts, LedgerTyped
  <2>10. \A y \in Buckets : Exists(y)' <=> Exists(y)
    BY <2>2, <2>5 DEF Exists
  <2>11. \A j \in Holds : resv[j].bucket \in Buckets
    BY RowsTyped DEF Facts
  <2>12. Sound'
    <3>1. \A y \in Buckets : ~Exists(y)' => bucket'[y] = NoBucket
      BY <2>1, <2>5, <2>10 DEF Facts, Sound
    <3>2. \A j \in Holds' : /\ resv'[j].max = Amount /\ resv'[j].charge <= Amount
                            /\ resv'[j].bucket \in Buckets /\ Exists(resv'[j].bucket)
      BY <2>1, <2>3, <2>8, <2>11 DEF Facts, Sound
    <3>3. \A j \in Holds' : (Exists(resv[j].bucket))'
      BY <2>10, <3>2 DEF Exists
    <3> QED BY <3>1, <3>2, <3>3 DEF Sound
  <2> QED BY <2>7, <2>9, <2>12
<1> QED BY <1>1, <1>2
-----------------------------------------------------------------------------
(* The calls move from a good record to a good record. *)

Moved(c) == \E r : Good(c, r, Holds) /\ call' = [call EXCEPT ![c] = r]

Pcs == {"idle", "gate", "scan", "sweep", "latest", "look", "candidates", "try",
        "check", "raced", "find", "load", "post", "notify", "done"}
Answers == {"none", "refused", "balance", "continued", "reused", "reserved",
            "insufficient", "contended", "failed", "nothing", "posted"}

\* What is known of the record a call has.
LEMMA RecordGood ==
    ASSUME AllowanceInv, NEW c \in Calls
    PROVE  /\ call \in [Calls -> CallRecord] /\ call[c] \in CallRecord /\ Good(c, call[c], Holds)
           /\ call[c].key \in Keys \cup {None} /\ call[c].prefix \in Sources \cup {None}
           /\ call[c].cand \subseteq Buckets /\ call[c].tries \in Nat
           /\ call[c].pc \in KeyStates => call[c].key \in Keys
           /\ call[c].pc \in {"post", "notify"} => call[c].hold \in Holds
           /\ call[c].pc = "post" /\ OpIn(c, {"settle"}) => CallOf[c].charge <= Amount
           /\ call[c].todo \subseteq Holds
           /\ Facts
           /\ Holds \subseteq Nat /\ (\A i \in Holds : resv[i].key \in Keys)
<1>1. call[c] \in CallRecord /\ Good(c, call[c], Holds) /\ call \in [Calls -> CallRecord]
  BY DEF AllowanceInv, TypeOK
<1>2. Facts
  BY DEF AllowanceInv, TypeOK, Facts, LedgerTyped
<1>3. Holds \subseteq Nat /\ \A i \in Holds : resv[i] \in Reservation
  BY <1>2, RowsTyped DEF Facts
<1>4. \A i \in Holds : resv[i].key \in Keys
  BY <1>3 DEF Reservation
<1>5. /\ call[c].key \in Keys \cup {None} /\ call[c].prefix \in Sources \cup {None}
      /\ call[c].cand \subseteq Buckets /\ call[c].tries \in Nat
  BY <1>1 DEF CallRecord
<1> QED BY <1>1, <1>2, <1>3, <1>4, <1>5 DEF Good

LEMMA GotoGood ==
    ASSUME AllowanceInv, NEW c \in Calls, NEW pc \in Pcs \ {"post"}, Goto(c, pc),
           pc \in KeyStates => call[c].key \in Keys,
           pc = "notify" => call[c].hold \in Holds
    PROVE  Moved(c)
<1> DEFINE r == [call[c] EXCEPT !.pc = pc]
<1>1. call[c] \in CallRecord /\ call \in [Calls -> CallRecord] /\ call[c].todo \subseteq Holds
  BY RecordGood
<1>2. /\ r \in CallRecord /\ r.pc = pc /\ r.key = call[c].key /\ r.hold = call[c].hold
      /\ r.todo = call[c].todo
  BY <1>1 DEF CallRecord, Pcs
<1>3. call' = [call EXCEPT ![c] = r]
  BY <1>1 DEF Goto
<1> HIDE DEF r
<1>4. Good(c, r, Holds)
  BY <1>1, <1>2 DEF Good, Pcs
<1> QED BY <1>3, <1>4 DEF Moved

LEMMA AnswerGood ==
    ASSUME AllowanceInv, NEW c \in Calls, NEW answer \in Answers, NEW hold \in Nat,
           \/ Answer(c, answer)
           \/ call' = [call EXCEPT ![c].pc = "done", ![c].answer = answer, ![c].hold = hold]
    PROVE  Moved(c)
<1>1. call[c] \in CallRecord /\ call \in [Calls -> CallRecord] /\ call[c].todo \subseteq Holds
  BY RecordGood
<1>2. CASE Answer(c, answer)
  <2> DEFINE r == [call[c] EXCEPT !.pc = "done", !.answer = answer]
  <2>1. r \in CallRecord /\ r.pc = "done" /\ r.todo = call[c].todo
    BY <1>1 DEF CallRecord, Answers
  <2>2. call' = [call EXCEPT ![c] = r]
    BY <1>1, <1>2 DEF Answer
  <2> HIDE DEF r
  <2> QED BY <1>1, <2>1, <2>2 DEF Good, Moved, KeyStates
<1>3. CASE call' = [call EXCEPT ![c].pc = "done", ![c].answer = answer, ![c].hold = hold]
  <2> DEFINE r == [call[c] EXCEPT !.pc = "done", !.answer = answer, !.hold = hold]
  <2>1. r \in CallRecord /\ r.pc = "done" /\ r.todo = call[c].todo
    BY <1>1 DEF CallRecord, Answers
  <2>2. call' = [call EXCEPT ![c] = r]
    BY <1>1, <1>3
  <2> HIDE DEF r
  <2> QED BY <1>1, <2>1, <2>2 DEF Good, Moved, KeyStates
<1> QED BY <1>2, <1>3

LEMMA FoundGood ==
    ASSUME AllowanceInv, NEW c \in Calls, NEW answer \in Answers, FoundByKey(c, answer)
    PROVE  Moved(c)
<1>1. PICK i \in WithKey(call[c].key) :
          call' = [call EXCEPT ![c].pc = "done", ![c].answer = answer, ![c].hold = i]
  BY DEF FoundByKey
<1>2. i \in Nat
  BY RecordGood DEF WithKey
<1> QED BY <1>1, <1>2, AnswerGood

\* A call that takes a key on.
LEMMA KeyGood ==
    ASSUME AllowanceInv, NEW c \in Calls, NEW key \in Keys, NEW pc \in {"gate", "load"},
           call' = [call EXCEPT ![c].key = key, ![c].pc = pc]
    PROVE  Moved(c)
<1> DEFINE r == [call[c] EXCEPT !.key = key, !.pc = pc]
<1>1. call[c] \in CallRecord /\ call \in [Calls -> CallRecord] /\ call[c].todo \subseteq Holds
  BY RecordGood
<1>2. r \in CallRecord /\ r.pc = pc /\ r.todo = call[c].todo
  BY <1>1 DEF CallRecord
<1>3. call' = [call EXCEPT ![c] = r]
  BY <1>1
<1> HIDE DEF r
<1> QED BY <1>1, <1>2, <1>3 DEF Good, Moved, KeyStates

\* The sets a call scans and thins out.
LEMMA TodoGood ==
    ASSUME AllowanceInv, NEW c \in Calls, NEW todo \in SUBSET Holds,
           call' = [call EXCEPT ![c].pc = "sweep", ![c].todo = todo]
    PROVE  Moved(c)
<1> DEFINE r == [call[c] EXCEPT !.pc = "sweep", !.todo = todo]
<1>1. call[c] \in CallRecord /\ call \in [Calls -> CallRecord] /\ Holds \subseteq Nat
  BY RecordGood
<1>2. r \in CallRecord /\ r.pc = "sweep" /\ r.todo = todo
  BY <1>1 DEF CallRecord
<1>3. call' = [call EXCEPT ![c] = r]
  BY <1>1
<1> HIDE DEF r
<1> QED BY <1>1, <1>2, <1>3 DEF Good, Moved, KeyStates

LEMMA CandidatesGood ==
    ASSUME AllowanceInv, NEW c \in Calls, NEW cand \in SUBSET Buckets, NEW pc \in {"try", "check"},
           call[c].pc \in KeyStates, call' = [call EXCEPT ![c].pc = pc, ![c].cand = cand]
    PROVE  Moved(c)
<1> DEFINE r == [call[c] EXCEPT !.pc = pc, !.cand = cand]
<1>1. /\ call[c] \in CallRecord /\ call \in [Calls -> CallRecord] /\ call[c].todo \subseteq Holds
      /\ call[c].key \in Keys
  BY RecordGood
<1>2. r \in CallRecord /\ r.pc = pc /\ r.todo = call[c].todo /\ r.key = call[c].key
  BY <1>1 DEF CallRecord
<1>3. call' = [call EXCEPT ![c] = r]
  BY <1>1
<1> HIDE DEF r
<1> QED BY <1>1, <1>2, <1>3 DEF Good, Moved

-----------------------------------------------------------------------------
(* What a step does to the ledger: one transaction at most. *)

\* The calls debit and close; what the buckets are given is left alone.
PurseStep ==
    \/ /\ UNCHANGED <<bucket, dead, ended, resv>>
       /\ notices' \subseteq Periods \X {50, 80, 100}
    \/ \E k \in Keys, run \in Runs, b \in Buckets, prefix \in Sources \cup {None} :
         ReserveTx(k, run, b, prefix)
    \/ \E i \in Holds, charge \in Nat, status \in {"settled", "released", "expired"} :
         charge <= Amount /\ CloseTx(i, status, charge)

LedgerStep ==
    \/ PurseStep
    \/ \E b \in Buckets, n \in Nat \ {0} : ~Exists(b) /\ CreateTx(b, n)
    \/ /\ UNCHANGED <<bucket, resv, notices>>
       /\ dead \subseteq dead' /\ dead' \subseteq Buckets /\ ended' \subseteq Sources \cup {None}

LEMMA StillStep ==
    ASSUME Facts, UNCHANGED ledger
    PROVE  PurseStep /\ LedgerStep
BY DEF ledger, PurseStep, LedgerStep, Facts, LedgerTyped

CallFrame == UNCHANGED <<now, live, source, sync, upgrade>> /\ cuts' \in Nat

LEMMA FrameGood ==
    ASSUME AllowanceInv, UNCHANGED Others \/ UNCHANGED <<now, live, source, sync, upgrade, cuts>>
    PROVE  CallFrame
BY DEF Others, CallFrame, AllowanceInv, TypeOK

LEMMA OnlyCallGood ==
    ASSUME AllowanceInv, OnlyCall
    PROVE  PurseStep /\ CallFrame
<1>1. Facts
  BY DEF AllowanceInv, TypeOK, Facts, LedgerTyped
<1>2. UNCHANGED ledger /\ UNCHANGED Others
  BY DEF OnlyCall
<1> QED BY <1>1, <1>2, StillStep, FrameGood

\* The calls' steps that change nothing but the call.
LEMMA QuietGood ==
    ASSUME AllowanceInv, NEW c \in Calls,
           \/ Start(c) \/ Gate(c) \/ Refused(c) \/ Scan(c) \/ Swept(c) \/ Latest(c) \/ Look(c)
           \/ Candidates(c) \/ NoneLeft(c) \/ Check(c) \/ Raced(c) \/ Find(c) \/ Load(c)
    PROVE  Moved(c) /\ PurseStep /\ CallFrame
<1>0. /\ call \in [Calls -> CallRecord] /\ call[c] \in CallRecord /\ call[c].key \in Keys \cup {None}
      /\ call[c].pc \in KeyStates => call[c].key \in Keys
      /\ call[c].todo \subseteq Holds /\ call[c].tries \in Nat
      /\ call[c].cand \subseteq Buckets /\ Holds \subseteq Nat
      /\ \A i \in Holds : resv[i].key \in Keys
  BY RecordGood
<1>01. CallOf[c].name \in Names /\ CallOf[c].charge \in Nat /\ CallOf[c].run \in Runs
  BY AllowanceAssumption
<1>02. Len(resv) \in Nat /\ Len(resv) <= MaxHolds /\ Holds = 1..Len(resv) /\ MaxHolds \in Nat
  <2>1. LedgerTyped
    BY RecordGood DEF Facts
  <2> QED BY <2>1, RowsTyped, LedgerAssumption DEF LedgerTyped
<1>03. PurseStep /\ CallFrame
  BY OnlyCallGood DEF Start, Gate, Refused, Scan, Swept, Latest, Look, Candidates, NoneLeft, Check,
                      Raced, Find, Load
<1>1. CASE Start(c)
  <2>1. <<CallOf[c].name, -1>> \in Keys
    BY <1>01, <1>02 DEF Keys
  <2> DEFINE own == OpIn(c, {"reserve", "settle", "release"})
             first == IF OpIn(c, {"reserve"}) THEN "gate" ELSE "load"
             other == IF OpIn(c, {"balance"}) THEN "scan"
                      ELSE IF OpIn(c, {"resume"}) THEN "gate" ELSE "find"
  <2>2. /\ own => call' = [call EXCEPT ![c].key = <<CallOf[c].name, -1>>, ![c].pc = first]
        /\ ~own => Goto(c, other)
    BY <1>1 DEF Start
  <2>3. /\ first \in {"gate", "load"}
        /\ other \in Pcs \ {"post"} /\ other \notin KeyStates /\ other # "notify"
    BY DEF Pcs, KeyStates
  <2> HIDE DEF own, first, other
  <2>4. CASE own
    BY <1>03, <2>1, <2>2, <2>3, <2>4, KeyGood
  <2>5. CASE ~own
    BY <1>03, <2>2, <2>3, <2>5, GotoGood
  <2> QED BY <1>03, <2>4, <2>5
<1>2. CASE Gate(c)
  <2> DEFINE r == [call[c] EXCEPT !.pc = "scan", !.prefix = source]
  <2>1. source \in Sources \cup {None}
    BY DEF AllowanceInv, TypeOK
  <2>2. r \in CallRecord /\ r.pc = "scan" /\ r.todo = call[c].todo
    BY <1>0, <2>1 DEF CallRecord
  <2>3. call' = [call EXCEPT ![c] = r]
    BY <1>0, <1>2 DEF Gate
  <2> HIDE DEF r
  <2>4. Good(c, r, Holds)
    BY <1>0, <2>2 DEF Good, KeyStates
  <2> QED BY <1>03, <2>3, <2>4 DEF Moved
<1>3. CASE Refused(c)
  BY <1>3, <1>03, AnswerGood DEF Refused, Answers
<1>4. CASE Scan(c)
  <2>1. Overdue \in SUBSET Holds
    BY DEF Overdue, Open
  <2>2. call' = [call EXCEPT ![c].pc = "sweep", ![c].todo = Overdue]
    BY <1>4 DEF Scan
  <2> QED BY <1>03, <2>1, <2>2, TodoGood
<1>5. CASE Swept(c)
  <2>1. CASE OpIn(c, {"balance"})
    BY <1>5, <2>1, AnswerGood, <1>03 DEF Swept, Answers
  <2>2. CASE ~OpIn(c, {"balance"}) /\ call[c].key = None
    BY <1>5, <2>2, GotoGood, <1>03 DEF Swept, Pcs, KeyStates
  <2>3. CASE ~OpIn(c, {"balance"}) /\ call[c].key # None
    BY <1>0, <1>5, <2>3, GotoGood, <1>03 DEF Swept, Pcs, KeyStates
  <2> QED BY <2>1, <2>2, <2>3
<1>6. CASE Latest(c)
  <2>1. <<CallOf[c].name, 0>> \in Keys /\ \A i \in Holds : <<CallOf[c].name, i>> \in Keys
    BY <1>01, <1>02 DEF Keys
  <2>2. CASE call' = [call EXCEPT ![c].pc = "gate", ![c].key = <<CallOf[c].name, 0>>]
    BY <1>03, <2>1, <2>2, KeyGood
  <2>3. CASE \E i \in Newest(OfRun(c, Holds)) :
            call' = IF resv[i].status \in {"reserved", "settled"}
                    THEN [call EXCEPT ![c].pc = "done", ![c].answer = "continued", ![c].hold = i]
                    ELSE [call EXCEPT ![c].pc = "gate", ![c].key = <<CallOf[c].name, i>>]
    <3>1. PICK i \in Holds :
            call' = IF resv[i].status \in {"reserved", "settled"}
                    THEN [call EXCEPT ![c].pc = "done", ![c].answer = "continued", ![c].hold = i]
                    ELSE [call EXCEPT ![c].pc = "gate", ![c].key = <<CallOf[c].name, i>>]
      BY <2>3 DEF Newest, OfRun
    <3>2. CASE call' = [call EXCEPT ![c].pc = "done", ![c].answer = "continued", ![c].hold = i]
      BY <1>0, <1>03, <3>2, AnswerGood DEF Answers
    <3>3. CASE call' = [call EXCEPT ![c].pc = "gate", ![c].key = <<CallOf[c].name, i>>]
      BY <1>03, <2>1, <3>3, KeyGood
    <3> QED BY <3>1, <3>2, <3>3
  <2> QED BY <1>6, <2>2, <2>3 DEF Latest
<1>7. CASE Look(c)
  <2>1. CASE FoundByKey(c, "reused")
    BY <1>03, <2>1, FoundGood DEF Answers
  <2>2. CASE Goto(c, "candidates")
    BY <1>0, <1>03, <1>7, <2>2, GotoGood DEF Look, At, Pcs, KeyStates
  <2> QED BY <1>7, <2>1, <2>2 DEF Look
<1>8. CASE Candidates(c)
  <2> DEFINE cand == {b \in Buckets : Fits(b, call[c].prefix)}
  <2>1. cand \in SUBSET Buckets /\ call' = [call EXCEPT ![c].pc = "try", ![c].cand = cand]
    BY <1>8 DEF Candidates
  <2> HIDE DEF cand
  <2> QED BY <1>03, <1>8, <2>1, CandidatesGood DEF Candidates, At, KeyStates
<1>9. CASE NoneLeft(c)
  BY <1>9, <1>03, AnswerGood DEF NoneLeft, Answers
<1>10. CASE Check(c)
  <2>1. CASE FoundByKey(c, "reserved")
    BY <1>03, <2>1, FoundGood DEF Answers
  <2>2. CASE Goto(c, "try")
    BY <1>0, <1>03, <1>10, <2>2, GotoGood DEF Check, At, Pcs, KeyStates
  <2> QED BY <1>10, <2>1, <2>2 DEF Check
<1>11. CASE Raced(c)
  <2>1. CASE FoundByKey(c, "reused")
    BY <1>03, <2>1, FoundGood DEF Answers
  <2>2. CASE Answer(c, "failed") \/ Answer(c, "contended")
    BY <1>03, <2>2, AnswerGood DEF Answers
  <2>3. CASE call' = [call EXCEPT ![c].pc = "candidates", ![c].tries = @ + 1]
    <3> DEFINE r == [call[c] EXCEPT !.pc = "candidates", !.tries = @ + 1]
    <3>0. call[c].tries + 1 \in Nat /\ call[c].key \in Keys
      BY <1>0, <1>11 DEF Raced, At, KeyStates
    <3>1. r \in CallRecord /\ r.pc = "candidates" /\ r.todo = call[c].todo /\ r.key = call[c].key
      BY <1>0, <3>0 DEF CallRecord
    <3>2. call' = [call EXCEPT ![c] = r]
      BY <1>0, <2>3
    <3> HIDE DEF r
    <3>3. Good(c, r, Holds)
      BY <1>0, <3>0, <3>1 DEF Good
    <3> QED BY <1>03, <3>2, <3>3 DEF Moved
  <2> QED BY <1>11, <2>1, <2>2, <2>3 DEF Raced
<1>12. CASE Find(c)
  <2>1. CASE Answer(c, "nothing")
    BY <1>03, <2>1, AnswerGood DEF Answers
  <2>2. CASE \E i \in Newest(OfRun(c, Open)) :
               call' = [call EXCEPT ![c].key = resv[i].key, ![c].pc = "load"]
    BY <1>0, <1>03, <2>2, KeyGood DEF Newest, OfRun, Open
  <2> QED BY <1>12, <2>1, <2>2 DEF Find
<1>13. CASE Load(c)
  <2> DEFINE of == WithKey(call[c].key) \cap (IF Charging(c) THEN Open ELSE Holds)
  <2>1. CASE Answer(c, "nothing") \/ Answer(c, "refused")
    BY <1>03, <2>1, AnswerGood DEF Answers
  <2>2. CASE \E i \in of : /\ Charging(c) => ChargeOf(c, i) <= resv[i].max
                           /\ call' = [call EXCEPT ![c].pc = "post", ![c].hold = i]
    <3>1. PICK i \in Holds : /\ Charging(c) => ChargeOf(c, i) <= resv[i].max
                             /\ call' = [call EXCEPT ![c].pc = "post", ![c].hold = i]
      BY <2>2 DEF WithKey
    <3> DEFINE r == [call[c] EXCEPT !.pc = "post", !.hold = i]
    <3>2. resv[i].max = Amount
      BY RecordGood DEF Facts, Sound
    <3>3. OpIn(c, {"settle"}) => CallOf[c].charge <= Amount
      BY <3>1, <3>2 DEF Charging, ChargeOf, OpIn
    <3>4. r \in CallRecord /\ r.pc = "post" /\ r.todo = call[c].todo /\ r.hold = i
      BY <1>0 DEF CallRecord
    <3>5. call' = [call EXCEPT ![c] = r]
      BY <1>0, <3>1
    <3> HIDE DEF r
    <3>6. Good(c, r, Holds)
      BY <1>0, <3>3, <3>4 DEF Good, KeyStates
    <3> QED BY <1>03, <3>5, <3>6 DEF Moved
  <2> QED BY <1>13, <2>1, <2>2 DEF Load
<1> QED BY <1>1, <1>2, <1>3, <1>4, <1>5, <1>6, <1>7, <1>8, <1>9, <1>10, <1>11, <1>12, <1>13

\* The calls' steps that run a transaction, or are cut.
LEMMA BusyGood ==
    ASSUME AllowanceInv, NEW c \in Calls,
           \/ SweepOne(c) \/ TryDebit(c) \/ TryThrows(c) \/ Post(c) \/ Notify(c) \/ CutCall(c)
    PROVE  Moved(c) /\ PurseStep /\ CallFrame
<1>0. /\ call \in [Calls -> CallRecord] /\ call[c] \in CallRecord /\ Facts
      /\ call[c].prefix \in Sources \cup {None}
      /\ call[c].pc \in KeyStates => call[c].key \in Keys
      /\ call[c].pc \in {"post", "notify"} => call[c].hold \in Holds
      /\ call[c].pc = "post" /\ OpIn(c, {"settle"}) => CallOf[c].charge <= Amount
      /\ call[c].todo \subseteq Holds
      /\ call[c].cand \subseteq Buckets /\ Holds \subseteq Nat
  BY RecordGood
<1>01. CallOf[c].charge \in Nat /\ CallOf[c].run \in Runs /\ Amount \in Nat /\ cuts \in Nat
  BY AllowanceAssumption, LedgerAssumption DEF AllowanceInv, TypeOK
<1>1. CASE SweepOne(c)
  <2>1. PICK i \in call[c].todo : /\ call' = [call EXCEPT ![c].todo = @ \ {i}]
                                  /\ CloseTx(i, "expired", 0)
    BY <1>1 DEF SweepOne
  <2>2. PurseStep
    BY <1>0, <1>01, <2>1 DEF PurseStep
  <2> DEFINE r == [call[c] EXCEPT !.todo = @ \ {i}]
  <2>3. r \in CallRecord /\ r.pc = call[c].pc /\ r.todo = call[c].todo \ {i}
    BY <1>0 DEF CallRecord
  <2>4. call' = [call EXCEPT ![c] = r] /\ r.pc = "sweep"
    BY <1>0, <1>1, <2>1, <2>3 DEF SweepOne, At
  <2> HIDE DEF r
  <2>5. Good(c, r, Holds)
    BY <1>0, <2>3, <2>4 DEF Good, KeyStates
  <2> QED BY <1>1, <2>2, <2>4, <2>5, FrameGood DEF SweepOne, Moved
<1>2. CASE TryDebit(c)
  <2>0. call[c].pc \in KeyStates /\ call[c].key \in Keys
    BY <1>0, <1>2 DEF TryDebit, At, KeyStates
  <2>1. PICK b \in Buckets : /\ call' = [call EXCEPT ![c].pc = "check", ![c].cand = @ \ {b}]
                             /\ Debit(c, b) \/ UNCHANGED ledger
    BY <1>0, <1>2 DEF TryDebit, First
  <2>2. PurseStep
    BY <1>0, <1>01, <2>0, <2>1, StillStep DEF PurseStep, Debit
  <2>3. call' = [call EXCEPT ![c].pc = "check", ![c].cand = call[c].cand \ {b}]
    BY <2>1
  <2>4. Moved(c)
    BY <1>0, <2>0, <2>3, CandidatesGood
  <2> QED BY <1>2, <2>2, <2>4, FrameGood DEF TryDebit
<1>3. CASE TryThrows(c)
  <2>0. call[c].pc \in KeyStates /\ call[c].key \in Keys
    BY <1>0, <1>3 DEF TryThrows, At, KeyStates
  <2>1. PICK b \in Buckets, err \in {"unique", "conflict", "lost"} :
            /\ call' = [call EXCEPT ![c].pc = "raced", ![c].err = err]
            /\ \/ UNCHANGED <<ledger, cuts>>
               \/ cuts' = cuts + 1 /\ Debit(c, b)
    BY <1>0, <1>3 DEF TryThrows, First
  <2>2. PurseStep /\ cuts' \in Nat
    BY <1>0, <1>01, <2>0, <2>1, StillStep DEF PurseStep, Debit
  <2> DEFINE r == [call[c] EXCEPT !.pc = "raced", !.err = err]
  <2>3. r \in CallRecord /\ r.pc = "raced" /\ r.todo = call[c].todo /\ r.key = call[c].key
    BY <1>0 DEF CallRecord
  <2>4. call' = [call EXCEPT ![c] = r]
    BY <1>0, <2>1
  <2> HIDE DEF r
  <2>5. Good(c, r, Holds)
    BY <1>0, <2>0, <2>3 DEF Good
  <2> QED BY <1>3, <2>2, <2>4, <2>5 DEF TryThrows, Moved, CallFrame
<1>4. CASE Post(c)
  <2>0. call[c].pc = "post" /\ call[c].hold \in Holds
    BY <1>0, <1>4 DEF Post, At
  <2>1. resv[call[c].hold].max = Amount
    BY <1>0, <2>0 DEF Facts, Sound
  <2>2. CASE Charging(c)
    <3>1. CloseTx(call[c].hold, "settled", ChargeOf(c, call[c].hold)) /\ Goto(c, "notify")
      BY <1>4, <2>2 DEF Post
    <3>2. ChargeOf(c, call[c].hold) \in Nat /\ ChargeOf(c, call[c].hold) <= Amount
      BY <1>0, <1>01, <2>0, <2>1 DEF ChargeOf
    <3>3. PurseStep
      BY <2>0, <3>1, <3>2 DEF PurseStep
    <3>4. Moved(c)
      BY <2>0, <3>1, GotoGood DEF Pcs, KeyStates
    <3> QED BY <1>4, <3>3, <3>4, FrameGood DEF Post
  <2>3. CASE ~Charging(c)
    <3>1. CloseTx(call[c].hold, "released", 0) /\ Answer(c, "posted")
      BY <1>4, <2>3 DEF Post
    <3>2. PurseStep
      BY <1>01, <2>0, <3>1 DEF PurseStep
    <3>3. Moved(c)
      BY <3>1, AnswerGood DEF Answers
    <3> QED BY <1>4, <3>2, <3>3, FrameGood DEF Post
  <2> QED BY <2>2, <2>3
<1>5. CASE Notify(c)
  <2>1. call[c].hold \in Holds
    BY <1>0, <1>5 DEF Notify, At
  <2>2. resv[call[c].hold].bucket \in Buckets
    BY <1>0, <2>1, RowsTyped DEF Facts
  <2>3. TermsOf[resv[call[c].hold].bucket].period \in Periods
    BY <2>2, LedgerAssumption DEF Terms
  <2>4. notices' \subseteq Periods \X {50, 80, 100}
    BY <1>0, <1>5, <2>3 DEF Notify, Reached, Facts, LedgerTyped
  <2>5. UNCHANGED <<bucket, dead, ended, resv>> /\ UNCHANGED Others /\ Answer(c, "posted")
    BY <1>5 DEF Notify
  <2> QED BY <2>4, <2>5, AnswerGood, FrameGood DEF PurseStep, Answers
<1>6. CASE CutCall(c)
  <2>1. PurseStep /\ Moved(c)
    BY <1>0, <1>6, StillStep, AnswerGood DEF CutCall, Answers
  <2> QED BY <1>01, <1>6, <2>1 DEF CutCall, CallFrame
<1> QED BY <1>1, <1>2, <1>3, <1>4, <1>5, <1>6

-----------------------------------------------------------------------------
(* The syncs, and what happens around them. *)

SyncRecord == [pc : {"idle", "insert", "mark", "readBase", "makeBase", "readUp", "makeUp",
                     "done", "failed"}, tries : Nat]
UpgradeRecord == [high : Nat, num : Nat, den : Nat, granted : Int, events : SUBSET STRING]

SyncTyped ==
    /\ sync \in [Syncs -> SyncRecord]
    /\ upgrade \in [Periods -> UpgradeRecord]
    /\ cuts \in Nat

SyncPcs == {"idle", "insert", "mark", "readBase", "makeBase", "readUp", "makeUp", "done", "failed"}

LEMMA SyncMoves ==
    ASSUME NEW s \in Syncs, NEW pc \in SyncPcs, NEW tries \in Nat, sync \in [Syncs -> SyncRecord],
           \/ sync' = [sync EXCEPT ![s].pc = pc]
           \/ sync' = [sync EXCEPT ![s].tries = tries, ![s].pc = pc]
           \/ sync' = [sync EXCEPT ![s].pc = pc, ![s].tries = tries]
    PROVE  sync' \in [Syncs -> SyncRecord]
<1>1. sync[s] \in SyncRecord
  OBVIOUS
<1>2. /\ [sync[s] EXCEPT !.pc = pc] \in SyncRecord
      /\ [sync[s] EXCEPT !.pc = pc, !.tries = tries] \in SyncRecord
      /\ [sync[s] EXCEPT !.tries = tries, !.pc = pc] \in SyncRecord
  BY <1>1 DEF SyncRecord, SyncPcs
<1>3. \/ sync' = [sync EXCEPT ![s] = [sync[s] EXCEPT !.pc = pc]]
      \/ sync' = [sync EXCEPT ![s] = [sync[s] EXCEPT !.tries = tries, !.pc = pc]]
      \/ sync' = [sync EXCEPT ![s] = [sync[s] EXCEPT !.pc = pc, !.tries = tries]]
  OBVIOUS
<1> QED BY <1>2, <1>3

LEMMA DirectiveTyped ==
    ASSUME NEW s \in Syncs
    PROVE  /\ DirOf[s].base \in Buckets /\ DirOf[s].up \in Buckets
           /\ DirOf[s].target \in Nat \ {0} /\ DirOf[s].den \in Nat \ {0}
           /\ DirOf[s].remaining \in Nat /\ DirOf[s].event \in STRING
           /\ DirOf[s].period \in Periods /\ DirOf[s].ends \in Sources \cup {None}
<1>1. DirOf[s] \in Directive /\ DirOf[s].target > 0 /\ DirOf[s].den > 0
  BY AllowanceAssumption
<1> QED BY <1>1 DEF Directive

\* The row of the upgrades that a raise writes.
LEMMA RaiseGood ==
    ASSUME AllowanceInv, NEW s \in Syncs, Raises(DirOf[s])
    PROVE  /\ [high |-> DirOf[s].target, num |-> Worth(DirOf[s]), den |-> DirOf[s].den,
               granted |-> upgrade[DirOf[s].period].granted + Supplement(DirOf[s]),
               events |-> upgrade[DirOf[s].period].events \cup {DirOf[s].event}] \in UpgradeRecord
           /\ Supplement(DirOf[s]) \in Int
<1> DEFINE d == DirOf[s]
<1>1. /\ d.base \in Buckets /\ d.target \in Nat \ {0} /\ d.den \in Nat \ {0} /\ d.remaining \in Nat
      /\ d.event \in STRING /\ d.period \in Periods
  BY DirectiveTyped
<1>2. upgrade[d.period] \in UpgradeRecord /\ bucket[d.base] \in Amounts
  BY <1>1 DEF AllowanceInv, TypeOK, UpgradeRecord
<1> HIDE DEF d
<1>3. /\ upgrade[d.period].high \in Nat /\ upgrade[d.period].num \in Nat
      /\ upgrade[d.period].granted \in Int /\ upgrade[d.period].events \subseteq STRING
      /\ bucket[d.base].total \in Nat
  BY <1>2 DEF UpgradeRecord, Amounts
<1>4. HighWater(d) \in Nat
  BY <1>3 DEF HighWater
<1>5. Raise(d) \in Nat
  <2>1. Raise(d) > 0
    BY DEF Raises, d
  <2> QED BY <1>1, <1>4, <2>1 DEF Raise
<1>6. Raise(d) * d.remaining \in Nat
  BY <1>1, <1>5
<1>7. Worth(d) \in Nat
  BY <1>3, <1>6 DEF Worth
<1>8. Worth(d) \div d.den \in Int
  BY <1>1, <1>7
<1>9. Supplement(d) \in Int
  BY <1>3, <1>8 DEF Supplement
<1>10. upgrade[d.period].granted + Supplement(d) \in Int
  BY <1>3, <1>9
<1>11. [high |-> d.target, num |-> Worth(d), den |-> d.den,
        granted |-> upgrade[d.period].granted + Supplement(d),
        events |-> upgrade[d.period].events \cup {d.event}] \in UpgradeRecord
  BY <1>1, <1>3, <1>7, <1>10 DEF UpgradeRecord
<1> QED BY <1>9, <1>11 DEF d

\* The steps of the syncs.
LEMMA SyncGood ==
    ASSUME AllowanceInv, NEW s \in Syncs, SyncStep(s) \/ CutSync(s)
    PROVE  LedgerStep /\ SyncTyped' /\ UNCHANGED <<now, live, source, call>>
<1>1. /\ sync \in [Syncs -> SyncRecord] /\ upgrade \in [Periods -> UpgradeRecord] /\ cuts \in Nat
      /\ sync[s].pc \in SyncPcs /\ sync[s].tries \in Nat
  BY DEF AllowanceInv, TypeOK, SyncRecord, UpgradeRecord, SyncPcs
<1>2. Facts
  BY DEF AllowanceInv, TypeOK, Facts, LedgerTyped
<1>3. /\ DirOf[s].base \in Buckets /\ DirOf[s].up \in Buckets
      /\ DirOf[s].target \in Nat \ {0} /\ DirOf[s].ends \in Sources \cup {None}
      /\ DirOf[s].period \in Periods
  BY DirectiveTyped
<1>4. CASE SyncStart(s) \/ ReadBase(s)
  <2>1. \E pc \in SyncPcs : sync' = [sync EXCEPT ![s].pc = pc, ![s].tries = 0]
    BY <1>4 DEF SyncStart, ReadBase, SyncTo, SyncPcs
  <2>2. sync' \in [Syncs -> SyncRecord]
    BY <1>1, <2>1, SyncMoves
  <2> QED BY <1>1, <1>2, <1>4, <2>2, StillStep DEF SyncStart, ReadBase, OnlySync, SyncTyped
<1>5. CASE InsertTermination(s)
  <2>1. sync' \in [Syncs -> SyncRecord]
    BY <1>1, <1>5, SyncMoves DEF InsertTermination, SyncPcs
  <2>2. LedgerStep
    BY <1>2, <1>3, <1>5 DEF InsertTermination, LedgerStep, Facts, LedgerTyped
  <2> QED BY <1>1, <1>5, <2>1, <2>2 DEF InsertTermination, OnlySync, SyncTyped
<1>6. CASE MarkTerminated(s)
  <2>1. sync' \in [Syncs -> SyncRecord]
    BY <1>1, <1>6, SyncMoves DEF MarkTerminated, SyncTo, SyncPcs
  <2>2. LedgerStep
    BY <1>2, <1>6 DEF MarkTerminated, LedgerStep, Facts, LedgerTyped
  <2> QED BY <1>1, <1>6, <2>1, <2>2 DEF MarkTerminated, OnlySync, SyncTyped
<1>7. CASE MakeBase(s)
  <2>1. sync' \in [Syncs -> SyncRecord]
    BY <1>1, <1>7, SyncMoves DEF MakeBase, SyncTo, SyncPcs
  <2>2. CASE Exists(DirOf[s].base)
    BY <1>1, <1>2, <1>7, <2>1, <2>2, StillStep DEF MakeBase, OnlySync, SyncTyped
  <2>3. CASE ~Exists(DirOf[s].base)
    <3>1. LedgerStep
      BY <1>3, <1>7, <2>3 DEF MakeBase, LedgerStep
    <3> QED BY <1>1, <1>7, <2>1, <3>1 DEF MakeBase, OnlySync, SyncTyped
  <2> QED BY <2>2, <2>3
<1>8. CASE ReadUpgrade(s)
  <2>1. \E pc \in SyncPcs : sync' = [sync EXCEPT ![s].pc = pc]
    BY <1>8 DEF ReadUpgrade, SyncPcs
  <2>2. sync' \in [Syncs -> SyncRecord]
    BY <1>1, <2>1, SyncMoves
  <2> QED BY <1>1, <1>2, <1>8, <2>2, StillStep DEF ReadUpgrade, OnlySync, SyncTyped
<1>9. CASE MakeUpgrade(s)
  <2>1. sync' \in [Syncs -> SyncRecord]
    BY <1>1, <1>9, SyncMoves DEF MakeUpgrade, SyncPcs
  <2>2. UNCHANGED <<now, live, source, call, cuts>>
    BY <1>9 DEF MakeUpgrade, OnlySync
  <2>3. CASE Raises(DirOf[s])
    <3> DEFINE row == [high |-> DirOf[s].target, num |-> Worth(DirOf[s]), den |-> DirOf[s].den,
               granted |-> upgrade[DirOf[s].period].granted + Supplement(DirOf[s]),
               events |-> upgrade[DirOf[s].period].events \cup {DirOf[s].event}]
    <3>1. row \in UpgradeRecord /\ Supplement(DirOf[s]) \in Int
      BY <2>3, RaiseGood
    <3>2. /\ upgrade' = [upgrade EXCEPT ![DirOf[s].period] = row]
          /\ IF Supplement(DirOf[s]) > 0
             THEN ~Exists(DirOf[s].up) /\ CreateTx(DirOf[s].up, Supplement(DirOf[s]))
             ELSE UNCHANGED ledger
      BY <1>9, <2>3 DEF MakeUpgrade
    <3> HIDE DEF row
    <3>3. upgrade' \in [Periods -> UpgradeRecord]
      BY <1>1, <1>3, <3>1, <3>2
    <3>4. CASE Supplement(DirOf[s]) > 0
      <4>1. Supplement(DirOf[s]) \in Nat \ {0}
        BY <3>1, <3>4
      <4> QED BY <1>1, <1>3, <2>1, <2>2, <3>2, <3>3, <3>4, <4>1 DEF LedgerStep, SyncTyped
    <3>5. CASE ~(Supplement(DirOf[s]) > 0)
      BY <1>1, <1>2, <2>1, <2>2, <3>2, <3>3, <3>5, StillStep DEF SyncTyped
    <3> QED BY <3>4, <3>5
  <2>4. CASE ~Raises(DirOf[s])
    BY <1>1, <1>2, <1>9, <2>1, <2>2, <2>4, StillStep DEF MakeUpgrade, SyncTyped
  <2> QED BY <2>3, <2>4
<1>10. CASE SyncConflict(s)
  <2>1. sync[s].tries + 1 \in Nat
    BY <1>1
  <2>2. CASE sync[s].tries + 1 < MaxTries
    <3> DEFINE pc == CASE sync[s].pc = "mark" -> "insert" [] sync[s].pc = "makeUp" -> "readUp"
                       [] OTHER -> sync[s].pc
    <3>1. sync' = [sync EXCEPT ![s].tries = sync[s].tries + 1, ![s].pc = pc]
      BY <1>1, <1>10, <2>2 DEF SyncConflict, SyncRecord
    <3>2. pc \in SyncPcs
      BY <1>1 DEF SyncPcs
    <3> HIDE DEF pc
    <3>3. sync' \in [Syncs -> SyncRecord]
      BY <1>1, <2>1, <3>1, <3>2, SyncMoves
    <3> QED BY <1>1, <1>2, <1>10, <3>3, StillStep DEF SyncConflict, OnlySync, SyncTyped
  <2>3. CASE ~(sync[s].tries + 1 < MaxTries)
    <3>1. sync' \in [Syncs -> SyncRecord]
      BY <1>1, <1>10, <2>3, SyncMoves DEF SyncConflict, SyncPcs
    <3> QED BY <1>1, <1>2, <1>10, <3>1, StillStep DEF SyncConflict, OnlySync, SyncTyped
  <2> QED BY <2>2, <2>3
<1>11. CASE CutSync(s)
  <2>1. sync' \in [Syncs -> SyncRecord]
    BY <1>1, <1>11, SyncMoves DEF CutSync, SyncPcs
  <2> QED BY <1>1, <1>2, <1>11, <2>1, StillStep DEF CutSync, SyncTyped
<1> QED BY <1>4, <1>5, <1>6, <1>7, <1>8, <1>9, <1>10, <1>11 DEF SyncStep

-----------------------------------------------------------------------------
(* The invariant. *)

\* The ledger stays typed and sound, and no hold leaves it.
LEMMA StepSound ==
    ASSUME Facts, LedgerStep
    PROVE  LedgerTyped' /\ Sound' /\ Holds \subseteq Holds'
<1>1. Holds = 1..Len(resv) /\ Len(resv) \in Nat
  BY RowsTyped DEF Facts
<1>2. CASE UNCHANGED <<bucket, dead, ended, resv>> /\ notices' \subseteq Periods \X {50, 80, 100}
  BY <1>2 DEF Facts, LedgerTyped, Sound, Exists, Holds
<1>3. CASE \E k \in Keys, run \in Runs, b \in Buckets, prefix \in Sources \cup {None} :
              ReserveTx(k, run, b, prefix)
  <2>1. LedgerTyped' /\ Sound' /\ Len(resv') = Len(resv) + 1
    BY <1>3, ReserveSound
  <2>2. (Holds = 1..Len(resv) /\ Len(resv) \in Nat)'
    BY <2>1, RowsTyped, PTL
  <2> QED BY <1>1, <2>1, <2>2
<1>4. CASE \E i \in Holds, charge \in Nat, status \in {"settled", "released", "expired"} :
              charge <= Amount /\ CloseTx(i, status, charge)
  <2>1. LedgerTyped' /\ Sound' /\ Len(resv') = Len(resv)
    BY <1>4, CloseSound
  <2>2. (Holds = 1..Len(resv) /\ Len(resv) \in Nat)'
    BY <2>1, RowsTyped, PTL
  <2> QED BY <1>1, <2>1, <2>2
<1>5. CASE \E b \in Buckets, n \in Nat \ {0} : ~Exists(b) /\ CreateTx(b, n)
  <2>1. LedgerTyped' /\ Sound' /\ resv' = resv
    BY <1>5, CreateSound
  <2> QED BY <2>1 DEF Holds
<1>6. CASE /\ UNCHANGED <<bucket, resv, notices>>
           /\ dead \subseteq dead' /\ dead' \subseteq Buckets /\ ended' \subseteq Sources \cup {None}
  BY <1>6 DEF Facts, LedgerTyped, Sound, Exists, Holds
<1> QED BY <1>2, <1>3, <1>4, <1>5, <1>6 DEF PurseStep, LedgerStep

LEMMA AllowanceInit == Init => AllowanceInv
<1> SUFFICES ASSUME Init
             PROVE  AllowanceInv
  OBVIOUS
<1>1. NoBucket \in Amounts /\ NoCall \in CallRecord /\ NoSync \in SyncRecord
      /\ NoUpgrade \in UpgradeRecord
  BY DEF NoBucket, Amounts, NoCall, CallRecord, NoSync, SyncRecord, NoUpgrade, UpgradeRecord
<1>2. resv = <<>> /\ Holds = {} /\ resv \in Seq(Reservation) /\ Len(resv) <= MaxHolds
  BY LedgerAssumption DEF Init, LedgerInit, Holds
<1>3. source \in Sources \cup {None}
  BY AllowanceAssumption DEF Init
<1>4. TypeOK
  BY <1>1, <1>2, <1>3 DEF Init, LedgerInit, TypeOK, SyncRecord, UpgradeRecord
<1>5. Sound
  BY <1>2 DEF Init, LedgerInit, Sound
<1>6. \A c \in Calls : call[c] = NoCall
  BY DEF Init
<1>7. \A c \in Calls : Good(c, call[c], Holds)
  BY <1>1, <1>6 DEF Good, NoCall, KeyStates
<1> QED BY <1>4, <1>5, <1>7 DEF AllowanceInv

\* What every step does.
LEMMA StepShape ==
    ASSUME AllowanceInv, Next
    PROVE  /\ LedgerStep \/ (UNCHANGED ledger)
           /\ now' \in Nat /\ live' = live /\ source' \in Sources \cup {None} /\ SyncTyped'
           /\ call' = call \/ \E c \in Calls : Moved(c)
<1>1. /\ now \in Nat /\ source \in Sources \cup {None} /\ SyncTyped
  BY DEF AllowanceInv, TypeOK, SyncTyped, SyncRecord, UpgradeRecord
<1>2. CASE \E c \in Calls : CallStep(c) \/ CutCall(c)
  <2>1. PICK c \in Calls : CallStep(c) \/ CutCall(c)
    BY <1>2
  <2>2. Moved(c) /\ PurseStep /\ CallFrame
    BY <2>1, QuietGood, BusyGood DEF CallStep
  <2> QED BY <1>1, <2>2 DEF CallFrame, SyncTyped, LedgerStep
<1>3. CASE \E s \in Syncs : SyncStep(s) \/ CutSync(s)
  BY <1>1, <1>3, SyncGood
<1>4. CASE \E b \in Buckets : Grant(b)
  <2>1. PICK b \in Buckets, n \in Sizes : ~Exists(b) /\ CreateTx(b, n)
    BY <1>4 DEF Grant
  <2>2. n \in Nat \ {0}
    BY AllowanceAssumption
  <2>3. LedgerStep
    BY <2>1, <2>2 DEF LedgerStep
  <2> QED BY <1>1, <1>4, <2>3 DEF Grant, SyncTyped
<1>5. CASE SourceMoves
  <2>1. source' \in Sources \cup {None}
    BY <1>1, <1>5, AllowanceAssumption DEF SourceMoves
  <2> QED BY <1>1, <1>5, <2>1 DEF SourceMoves, SyncTyped
<1>6. CASE ClockTicks
  BY <1>1, <1>6 DEF ClockTicks, Tick, SyncTyped
<1> QED BY <1>2, <1>3, <1>4, <1>5, <1>6 DEF Next

LEMMA AllowanceStep == AllowanceInv /\ [Next]_vars => AllowanceInv'
<1> SUFFICES ASSUME AllowanceInv, [Next]_vars
             PROVE  AllowanceInv'
  OBVIOUS
<1>0. Facts /\ call \in [Calls -> CallRecord] /\ live \in Together
  BY DEF AllowanceInv, TypeOK, Facts, LedgerTyped
<1>1. CASE Next
  <2>1. /\ LedgerStep \/ UNCHANGED ledger
        /\ now' \in Nat /\ live' = live /\ source' \in Sources \cup {None} /\ SyncTyped'
        /\ call' = call \/ \E c \in Calls : Moved(c)
    BY <1>1, StepShape
  <2>2. LedgerStep
    BY <1>0, <2>1, StillStep
  <2>3. LedgerTyped' /\ Sound' /\ Holds \subseteq Holds'
    BY <1>0, <2>2, StepSound
  <2>4. \A c \in Calls : \A r : Good(c, r, Holds) => Good(c, r, Holds')
    BY <2>3 DEF Good
  <2>5. call' \in [Calls -> CallRecord] /\ \A c \in Calls : Good(c, call'[c], Holds')
    <3>1. CASE call' = call
      BY <1>0, <2>4, <3>1 DEF AllowanceInv
    <3>2. CASE \E c \in Calls : Moved(c)
      <4>0. PICK c \in Calls : Moved(c)
        BY <3>2
      <4>1. PICK r : Good(c, r, Holds) /\ call' = [call EXCEPT ![c] = r]
        BY <4>0 DEF Moved
      <4>2. r \in CallRecord
        BY <4>1 DEF Good
      <4>3. \A d \in Calls : call'[d] = IF d = c THEN r ELSE call[d]
        BY <1>0, <4>1
      <4> QED BY <1>0, <2>4, <4>1, <4>2, <4>3 DEF AllowanceInv
    <3> QED BY <2>1, <3>1, <3>2
  <2>6. TypeOK'
    BY <1>0, <2>1, <2>3, <2>5 DEF TypeOK, LedgerTyped, SyncTyped, SyncRecord, UpgradeRecord
  <2>7. (\A c \in Calls : Good(c, call[c], Holds))'
    BY <2>5 DEF Good
  <2> QED BY <2>3, <2>6, <2>7 DEF AllowanceInv
<1>2. CASE UNCHANGED vars
  BY <1>2 DEF vars, ledger, AllowanceInv, TypeOK, Sound, Exists, Holds, Good, OpIn
<1> QED BY <1>1, <1>2

\* Whatever the calls and the syncs do, an available balance never goes below zero, and every
\* row keeps its type (the conditional debit of service.ts).
THEOREM AllowanceTyped == Spec => []TypeOK
<1>1. AllowanceInv => TypeOK
  BY DEF AllowanceInv
<1> QED BY <1>1, AllowanceInit, AllowanceStep, PTL DEF Spec
-----------------------------------------------------------------------------
(* What a step may never do. *)

LEMMA StepKeepsDead ==
    ASSUME Facts, LedgerStep \/ UNCHANGED ledger, NEW b \in Buckets, Exists(b),
           ~InTerm(b) \/ b \in dead
    PROVE  /\ bucket'[b].available = bucket[b].available
           /\ bucket'[b].reserved <= bucket[b].reserved
           /\ b \in dead => b \in dead'
<1>0. bucket \in [Buckets -> Amounts] /\ Amount \in Nat \ {0} /\ bucket[b].reserved \in Int
  BY LedgerAssumption DEF Facts, LedgerTyped, Amounts
<1>1. CASE UNCHANGED <<bucket, dead>>
  BY <1>0, <1>1
<1>2. CASE \E k \in Keys, run \in Runs, x \in Buckets, prefix \in Sources \cup {None} :
              ReserveTx(k, run, x, prefix)
  <2>1. PICK k \in Keys, run \in Runs, x \in Buckets, prefix \in Sources \cup {None} :
              ReserveTx(k, run, x, prefix)
    BY <1>2
  <2>2. x # b
    BY <2>1 DEF ReserveTx, Fits, Consumable
  <2>3. bucket'[b] = bucket[b] /\ dead' = dead
    BY <1>0, <2>1, <2>2 DEF ReserveTx
  <2> QED BY <1>0, <2>3
<1>3. CASE \E i \in Holds, charge \in Nat, status \in {"settled", "released", "expired"} :
              charge <= Amount /\ CloseTx(i, status, charge)
  <2>1. PICK i \in Holds, charge \in Nat, status \in {"settled", "released", "expired"} :
              charge <= Amount /\ CloseTx(i, status, charge)
    BY <1>3
  <2>2. CASE i \notin Open
    BY <1>0, <2>1, <2>2 DEF CloseTx, ledger
  <2>3. CASE i \in Open
    <3>1. PICK x \in Buckets, back \in BOOLEAN :
             /\ back = Returnable(x) /\ bucket[x] \in Amounts /\ dead' = dead
             /\ bucket' = [bucket EXCEPT ![x] = Freed(bucket[x], Amount, charge, back)]
      BY <2>1, <2>3, CloseWrites
    <3>2. CASE x = b
      <4>1. ~back
        BY <3>1, <3>2 DEF Returnable
      <4>2. /\ Freed(bucket[b], Amount, charge, back).available = bucket[b].available
            /\ Freed(bucket[b], Amount, charge, back).reserved = bucket[b].reserved - Amount
        BY <1>0, <2>1, <4>1, FreedTyped
      <4> QED BY <1>0, <3>1, <3>2, <4>2
    <3>3. CASE x # b
      BY <1>0, <3>1, <3>3
    <3> QED BY <3>2, <3>3
  <2> QED BY <2>2, <2>3
<1>4. CASE \E x \in Buckets, n \in Nat \ {0} : ~Exists(x) /\ CreateTx(x, n)
  BY <1>0, <1>4 DEF CreateTx
<1>5. CASE UNCHANGED bucket /\ dead \subseteq dead'
  BY <1>0, <1>5
<1> QED BY <1>1, <1>2, <1>3, <1>4, <1>5 DEF PurseStep, LedgerStep, ledger

\* What is left of an expired or a terminated bucket stays out of use: releases, sweeps and
\* settlements write it off, and no later event revives the bucket.
THEOREM AllowanceNoRevival == Spec => NoRevival
<1>1. ASSUME AllowanceInv, [Next]_vars
      PROVE  [\A b \in Buckets :
                (Exists(b) /\ (~InTerm(b) \/ b \in dead)) =>
                   /\ bucket'[b].available = bucket[b].available
                   /\ bucket'[b].reserved <= bucket[b].reserved
                   /\ b \in dead => b \in dead']_vars
  <2>1. CASE Next
    <3>1. Facts /\ (LedgerStep \/ UNCHANGED ledger)
      BY <1>1, <2>1, StepShape DEF AllowanceInv, TypeOK, Facts, LedgerTyped
    <3> QED BY <3>1, StepKeepsDead
  <2> QED BY <1>1, <2>1
<1> QED BY <1>1, AllowanceInit, AllowanceStep, PTL DEF Spec, NoRevival

-----------------------------------------------------------------------------
(* The ledger implements its promise. *)

LEMMA PromiseStart ==
    ASSUME Init
    PROVE  Promise!PromiseInit
<1>1. Purse = [b \in Buckets |-> Promise!NoPurse]
  BY DEF Init, LedgerInit, Purse, NoBucket, Promise!NoPurse
<1>2. Taken = <<>>
  BY DEF Init, LedgerInit, Taken, Holds
<1> QED BY <1>1, <1>2 DEF Promise!PromiseInit

Shown == [key : Keys, bucket : Buckets, amount : Nat, charge : Nat, state : {"open", "closed"}]

LEMMA SeenTyped ==
    ASSUME NEW r \in Reservation
    PROVE  /\ Seen(r) \in Shown
           /\ Seen(r).key = r.key /\ Seen(r).bucket = r.bucket /\ Seen(r).amount = r.max
           /\ r.status = "reserved" => Seen(r).state = "open"
BY DEF Seen, Shown, Reservation

LEMMA TakenTyped ==
    ASSUME Facts
    PROVE  /\ Taken \in Seq(Shown) /\ Len(Taken) = Len(resv) /\ DOMAIN Taken = Holds
           /\ \A i \in Holds : Taken[i] = Seen(resv[i])
<1>1. Holds = 1..Len(resv) /\ Len(resv) \in Nat /\ \A i \in Holds : resv[i] \in Reservation
  BY RowsTyped DEF Facts
<1>2. Taken \in [1..Len(resv) -> Shown]
  BY <1>1, SeenTyped DEF Taken
<1>3. Taken \in Seq(Shown)
  BY <1>1, <1>2, SeqDef
<1> QED BY <1>1, <1>2, <1>3, LenProperties DEF Taken

LEMMA PromiseFund ==
    ASSUME Facts, NEW b \in Buckets, NEW n \in Nat \ {0}, ~Exists(b), CreateTx(b, n)
    PROVE  Promise!PromiseNext
<1>1. bucket[b] = NoBucket /\ bucket \in [Buckets -> Amounts]
  BY DEF Facts, Sound, LedgerTyped
<1>2. bucket' = [bucket EXCEPT ![b] = Funded(n)] /\ resv' = resv
  BY DEF CreateTx
<1>3. Purse[b] = Promise!NoPurse
  BY <1>1 DEF Purse, NoBucket, Promise!NoPurse
<1>4. Taken' = Taken
  BY <1>2 DEF Taken, Holds
<1>5. Purse' = [Purse EXCEPT ![b] = [Promise!NoPurse EXCEPT !.total = n, !.free = n]]
  BY <1>1, <1>2 DEF Purse, Funded, Promise!NoPurse
<1>6. Purse'[b].total = n
  BY <1>1, <1>2 DEF Purse, Funded
<1>7. Promise!Fund(b)
  BY <1>3, <1>4, <1>5, <1>6 DEF Promise!Fund
<1> QED BY <1>7 DEF Promise!PromiseNext

LEMMA PromiseHold ==
    ASSUME Facts, NEW k \in Keys, NEW run \in Runs, NEW b \in Buckets, NEW prefix,
           ReserveTx(k, run, b, prefix)
    PROVE  Promise!PromiseNext
<1> DEFINE r == [key |-> k, run |-> run, bucket |-> b, max |-> Amount, charge |-> 0,
                 deadline |-> now + Window, status |-> "reserved"]
           h == [key |-> k, bucket |-> b, amount |-> Amount, state |-> "open", charge |-> 0]
<1>1. /\ bucket' = [bucket EXCEPT ![b] = Held(bucket[b])] /\ resv' = Append(resv, r)
      /\ WithKey(k) = {} /\ bucket[b].available >= Amount
  BY DEF ReserveTx, Fits
<1>2. bucket \in [Buckets -> Amounts] /\ resv \in Seq(Reservation) /\ Amount \in Nat \ {0}
  BY LedgerAssumption DEF Facts, LedgerTyped
<1>3. Holds = 1..Len(resv) /\ Len(resv) \in Nat
  BY RowsTyped DEF Facts
<1>4. Purse' = [Purse EXCEPT ![b].free = @ - Amount, ![b].held = @ + Amount]
  BY <1>1, <1>2 DEF Purse, Held
<1>5. \A i \in DOMAIN Taken : Taken[i].key # k
  BY <1>1 DEF Taken, Seen, WithKey
<1>6. Purse[b].free >= Amount
  BY <1>1 DEF Purse
<1>7. Taken' = Append(Taken, h)
  <2>1. Holds' = 1..(Len(resv) + 1) /\ \A i \in Holds' : resv'[i] = IF i \in Holds THEN resv[i] ELSE r
    BY <1>1, <1>2, <1>3 DEF Holds
  <2>2. Seen(r) = h /\ h \in Shown
    BY <1>2 DEF Seen, Shown
  <2>3. Taken \in Seq(Shown) /\ Len(Taken) = Len(resv) /\ \A i \in Holds : Taken[i] = Seen(resv[i])
    BY TakenTyped
  <2> HIDE DEF r, h
  <2>4. Taken' = [i \in 1..(Len(resv) + 1) |-> Seen(resv'[i])]
    BY <2>1 DEF Taken
  <2>5. \A i \in 1..(Len(resv) + 1) : Seen(resv'[i]) = IF i \in Holds THEN Taken[i] ELSE h
    BY <2>1, <2>2, <2>3
  <2>6. /\ Append(Taken, h) \in Seq(Shown) /\ Len(Append(Taken, h)) = Len(resv) + 1
        /\ \A i \in 1..Len(resv) : Append(Taken, h)[i] = Taken[i]
        /\ Append(Taken, h)[Len(resv) + 1] = h
    BY <2>2, <2>3, AppendProperties
  <2>7. \A i \in 1..(Len(resv) + 1) : Append(Taken, h)[i] = Seen(resv'[i])
    BY <1>3, <2>5, <2>6
  <2>8. Append(Taken, h) \in [1..(Len(resv) + 1) -> Shown]
    BY <2>6, LenProperties
  <2> QED BY <2>4, <2>7, <2>8
<1>8. Promise!Hold(k, b, Amount)
  BY <1>4, <1>5, <1>6, <1>7 DEF Promise!Hold
<1> QED BY <1>8 DEF Promise!PromiseNext

LEMMA PromiseClose ==
    ASSUME Facts, NEW i \in Holds, NEW charge \in Nat, charge <= Amount,
           NEW status \in {"settled", "released", "expired"}, CloseTx(i, status, charge)
    PROVE  [Promise!PromiseNext]_(Promise!promiseVars)
<1>1. CASE i \notin Open
  BY <1>1 DEF CloseTx, ledger, Purse, Taken, Holds, Promise!promiseVars
<1>2. CASE i \in Open
  <2>1. PICK b \in Buckets, back \in BOOLEAN :
             /\ b = resv[i].bucket /\ bucket[b] \in Amounts /\ resv[i] \in Reservation
             /\ resv[i].status = "reserved"
             /\ bucket' = [bucket EXCEPT ![b] = Freed(bucket[b], Amount, charge, back)]
             /\ resv' = [resv EXCEPT ![i] = Ended(resv[i], status, charge)]
    BY <1>2, CloseWrites
  <2>2. bucket \in [Buckets -> Amounts] /\ resv \in Seq(Reservation) /\ Amount \in Nat \ {0}
    BY LedgerAssumption DEF Facts, LedgerTyped
  <2>3. resv[i].max = Amount
    BY DEF Facts, Sound
  <2>4. Holds' = Holds /\ \A j \in Holds : resv'[j] = IF j = i THEN Ended(resv[i], status, charge) ELSE resv[j]
    BY <2>1, <2>2 DEF Holds
  <2>5. Taken[i].state = "open" /\ Taken[i].bucket = b /\ Taken[i].amount = Amount
    BY <2>1, <2>3, SeenTyped DEF Taken
  <2>6. Taken' = [Taken EXCEPT ![i] = Promise!Closed(Taken[i], charge)]
    <3> DEFINE r == Ended(resv[i], status, charge)
               t == Promise!Closed(Taken[i], charge)
    <3>1. /\ r.key = resv[i].key /\ r.bucket = resv[i].bucket /\ r.max = resv[i].max
          /\ r.charge = charge /\ r.status = status /\ status # "reserved"
      BY <2>1, EndedTyped
    <3>0. Taken[i] = Seen(resv[i])
      BY DEF Taken
    <3>2. t = [key |-> resv[i].key, bucket |-> resv[i].bucket, amount |-> resv[i].max,
               charge |-> charge, state |-> "closed"]
      BY <3>0 DEF Seen, Promise!Closed
    <3>3. Seen(r) = t
      BY <3>1, <3>2 DEF Seen
    <3>4. \A j \in Holds : resv'[j] = IF j = i THEN r ELSE resv[j]
      BY <2>4
    <3> HIDE DEF r, t
    <3>5. Taken' = [j \in Holds |-> Seen(resv'[j])]
      BY <2>4 DEF Taken
    <3>6. Taken' = [Taken EXCEPT ![i] = t]
      BY <3>3, <3>4, <3>5 DEF Taken
    <3> QED BY <3>6 DEF t
  <2>7. Purse' = [Purse EXCEPT ![b] = Promise!Spent(@, Amount, charge, back)]
    BY <2>1, <2>2 DEF Purse, Freed, Promise!Spent
  <2>8. Promise!Close(i, charge, back)
    BY <2>5, <2>6, <2>7 DEF Promise!Close
  <2>9. i \in DOMAIN Taken /\ charge \in 0..Taken[i].amount
    BY <2>5, LedgerAssumption DEF Taken
  <2> QED BY <2>8, <2>9 DEF Promise!PromiseNext
<1> QED BY <1>1, <1>2

LEMMA PromiseStep ==
    ASSUME Facts, LedgerStep \/ UNCHANGED ledger
    PROVE  [Promise!PromiseNext]_(Promise!promiseVars)
<1>1. CASE UNCHANGED <<bucket, resv>>
  BY <1>1 DEF Purse, Taken, Holds, Promise!promiseVars
<1>2. CASE \E k \in Keys, run \in Runs, b \in Buckets, prefix \in Sources \cup {None} :
              ReserveTx(k, run, b, prefix)
  BY <1>2, PromiseHold
<1>3. CASE \E i \in Holds, charge \in Nat, status \in {"settled", "released", "expired"} :
              charge <= Amount /\ CloseTx(i, status, charge)
  BY <1>3, PromiseClose
<1>4. CASE \E b \in Buckets, n \in Nat \ {0} : ~Exists(b) /\ CreateTx(b, n)
  BY <1>4, PromiseFund
<1> QED BY <1>1, <1>2, <1>3, <1>4 DEF PurseStep, LedgerStep, ledger

\* The calls and the syncs, with their retries, sweeps, conflicts and lost answers, implement the
\* promise: a key holds once, a hold is closed once and charged no more than was disclosed.
THEOREM AllowanceKeepsPromise == Spec => KeepsPromise
<1>1. Init => Promise!PromiseInit
  BY PromiseStart
<1>2. AllowanceInv /\ [Next]_vars => [Promise!PromiseNext]_(Promise!promiseVars)
  <2> SUFFICES ASSUME AllowanceInv, [Next]_vars
               PROVE  [Promise!PromiseNext]_(Promise!promiseVars)
    OBVIOUS
  <2>1. Facts
    BY DEF AllowanceInv, TypeOK, Facts, LedgerTyped
  <2>2. LedgerStep \/ UNCHANGED ledger
    BY StepShape DEF vars, ledger
  <2> QED BY <2>1, <2>2, PromiseStep
<1> QED BY <1>1, <1>2, AllowanceInit, AllowanceStep, PTL DEF Spec, KeepsPromise, Promise!PromiseSpec

-----------------------------------------------------------------------------
(* Sums. SumFunctionOnSet is defined by a recursive function on the subsets  *)
(* of the set.  Induction over a finite set is the existence of a minimal    *)
(* one among the sets that have no given property: strict inclusion of       *)
(* finite sets is well founded.                                              *)

Pick(S) == CHOOSE x \in S : TRUE

\* it sums f over the subsets of S.
Sums(f, S, it) == it = [s \in SUBSET S |-> IF s = {} THEN 0 ELSE f[Pick(s)] + it[s \ {Pick(s)}]]

\* Among sets of subsets of a finite set, one has no strict subset in it.
LEMMA SmallestSet ==
    ASSUME NEW S, IsFiniteSet(S), NEW T, T \subseteq SUBSET S, T # {}
    PROVE  \E U \in T : \A V \in T : V \subseteq U => V = U
<1>1. T \subseteq FiniteSubsetsOf(S)
  BY FS_Subset DEF FiniteSubsetsOf
<1>2. IsWellFoundedOn(StrictSubsetOrdering(S), FiniteSubsetsOf(S))
  BY FS_StrictSubsetOrderingWellFounded
<1>3. PICK U \in T : \A V \in T : ~ (<<V, U>> \in StrictSubsetOrdering(S))
  BY <1>1, <1>2, WFMin
<1>4. ASSUME NEW V \in T, V \subseteq U, V # U
      PROVE  FALSE
  <2>1. <<V, U>> \in (SUBSET S) \X (SUBSET S)
    OBVIOUS
  <2>2. <<V, U>> \in StrictSubsetOrdering(S)
    BY <2>1, <1>4, Zenon DEF StrictSubsetOrdering
  <2>3. QED
    BY <2>2, <1>3
<1>5. QED
  BY <1>4

LEMMA Picked ==
    ASSUME NEW S, S # {}
    PROVE  Pick(S) \in S
BY DEF Pick

LEMMA SumUnfolds ==
    ASSUME NEW f, NEW S
    PROVE  SumFunctionOnSet(f, S) = (CHOOSE it : Sums(f, S, it))[S]
BY Zenon DEF SumFunctionOnSet, FoldFunctionOnSet, MapThenFoldSet, Sums, Pick

\* Two functions that sum f over the subsets of S are the same.
LEMMA SumsUnique ==
    ASSUME NEW f, NEW S, IsFiniteSet(S), NEW a, NEW b, Sums(f, S, a), Sums(f, S, b)
    PROVE  a = b
<1> DEFINE Bad == {s \in SUBSET S : a[s] # b[s]}
<1>1. ASSUME Bad # {}
      PROVE  FALSE
  <2>1. PICK U \in Bad : \A V \in Bad : V \subseteq U => V = U
    <3>1. Bad \subseteq SUBSET S
      OBVIOUS
    <3> HIDE DEF Bad
    <3>2. QED
      BY <3>1, <1>1, SmallestSet
  <2>2. CASE U = {}
    BY <2>2, <2>1 DEF Sums
  <2>3. CASE U # {}
    <3>1. U \ {Pick(U)} \subseteq U /\ U \ {Pick(U)} # U
      BY <2>3, Picked
    <3>2. U \ {Pick(U)} \in SUBSET S
      BY <3>1
    <3>3. a[U \ {Pick(U)}] = b[U \ {Pick(U)}]
      BY <3>1, <3>2, <2>1
    <3>4. a[U] = f[Pick(U)] + a[U \ {Pick(U)}] /\ b[U] = f[Pick(U)] + b[U \ {Pick(U)}]
      BY <2>3 DEF Sums
    <3>5. QED
      BY <3>3, <3>4
  <2>4. QED
    BY <2>2, <2>3
<1>2. DOMAIN a = SUBSET S /\ DOMAIN b = SUBSET S
  BY DEF Sums
<1>3. a = [s \in SUBSET S |-> a[s]] /\ b = [s \in SUBSET S |-> b[s]]
  BY <1>2 DEF Sums
<1>4. QED
  BY <1>1, <1>3

\* The totals of its subsets sum f over the subsets of a finite set.
LEMMA SumsExist ==
    ASSUME NEW f, NEW S, IsFiniteSet(S)
    PROVE  Sums(f, S, [s \in SUBSET S |-> SumFunctionOnSet(f, s)])
<1> DEFINE T(U) == [s \in SUBSET U |-> SumFunctionOnSet(f, s)]
           Bad == {U \in SUBSET S : ~Sums(f, U, T(U))}
<1>1. ASSUME Bad # {}
      PROVE  FALSE
  <2>1. PICK U \in Bad : \A V \in Bad : V \subseteq U => V = U
    <3>1. Bad \subseteq SUBSET S
      OBVIOUS
    <3> HIDE DEF Bad
    <3>2. QED
      BY <3>1, <1>1, SmallestSet
  <2> DEFINE Value == IF U = {} THEN 0 ELSE f[Pick(U)] + SumFunctionOnSet(f, U \ {Pick(U)})
             h == [s \in SUBSET U |-> IF s = U THEN Value ELSE SumFunctionOnSet(f, s)]
  <2>2. IsFiniteSet(U)
    BY FS_Subset
  <2>3. ASSUME NEW s \in SUBSET U, s # U
        PROVE  SumFunctionOnSet(f, s) = IF s = {} THEN 0 ELSE f[Pick(s)] + SumFunctionOnSet(f, s \ {Pick(s)})
    <3>1. s \in SUBSET S /\ s \notin Bad
      BY <2>1, <2>3
    <3>2. Sums(f, s, T(s))
      BY <3>1
    <3>3. T(s)[s] = IF s = {} THEN 0 ELSE f[Pick(s)] + T(s)[s \ {Pick(s)}]
      BY <3>2 DEF Sums
    <3>4. QED
      BY <3>3
  <2>4. Sums(f, U, h)
    <3>1. ASSUME NEW s \in SUBSET U
          PROVE  h[s] = IF s = {} THEN 0 ELSE f[Pick(s)] + h[s \ {Pick(s)}]
      <4>1. CASE s = {}
        BY <4>1, <2>3
      <4>2. CASE s # {}
        <5>1. s \ {Pick(s)} \in SUBSET U /\ s \ {Pick(s)} # U
          BY <4>2, Picked
        <5>2. h[s \ {Pick(s)}] = SumFunctionOnSet(f, s \ {Pick(s)})
          BY <5>1
        <5>3. CASE s = U
          BY <5>2, <5>3, <4>2
        <5>4. CASE s # U
          BY <5>2, <5>4, <4>2, <2>3
        <5>5. QED
          BY <5>3, <5>4
      <4>3. QED
        BY <4>1, <4>2
    <3> HIDE DEF Value
    <3>2. h = [s \in SUBSET U |-> h[s]]
      OBVIOUS
    <3> HIDE DEF h
    <3>3. h = [s \in SUBSET U |-> IF s = {} THEN 0 ELSE f[Pick(s)] + h[s \ {Pick(s)}]]
      BY <3>1, <3>2, Zenon
    <3>4. QED
      BY <3>3 DEF Sums
  <2>5. SumFunctionOnSet(f, U) = Value
    <3> HIDE DEF h, Value
    <3>1. Sums(f, U, CHOOSE it : Sums(f, U, it))
      BY <2>4
    <3>2. h = (CHOOSE it : Sums(f, U, it))
      BY <3>1, <2>4, <2>2, SumsUnique
    <3>3. SumFunctionOnSet(f, U) = h[U]
      BY <3>2, SumUnfolds, Zenon
    <3> USE DEF h
    <3>4. QED
      BY <3>3
  <2>6. h = T(U)
    BY <2>5
  <2>7. QED
    BY <2>4, <2>6
<1>2. QED
  BY <1>1

\* A sum takes one element, whichever it is, and goes on with the others.
LEMMA SumStep ==
    ASSUME NEW f, NEW S, IsFiniteSet(S)
    PROVE  SumFunctionOnSet(f, S) = IF S = {} THEN 0 ELSE f[Pick(S)] + SumFunctionOnSet(f, S \ {Pick(S)})
<1> DEFINE t == [s \in SUBSET S |-> SumFunctionOnSet(f, s)]
<1>1. t = [s \in SUBSET S |-> IF s = {} THEN 0 ELSE f[Pick(s)] + t[s \ {Pick(s)}]]
  BY SumsExist DEF Sums
<1>2. t[S] = IF S = {} THEN 0 ELSE f[Pick(S)] + t[S \ {Pick(S)}]
  <2> HIDE DEF t
  <2>1. QED
    BY <1>1
<1>3. QED
  BY <1>2

LEMMA SumOfNone == ASSUME NEW f PROVE SumFunctionOnSet(f, {}) = 0
BY SumStep, FS_EmptySet

LEMMA SumTyped ==
    ASSUME NEW f, NEW S, IsFiniteSet(S), \A x \in S : f[x] \in Int
    PROVE  SumFunctionOnSet(f, S) \in Int
<1> DEFINE Bad == {U \in SUBSET S : SumFunctionOnSet(f, U) \notin Int}
<1>1. ASSUME Bad # {}
      PROVE  FALSE
  <2>1. PICK U \in Bad : \A V \in Bad : V \subseteq U => V = U
    <3>1. Bad \subseteq SUBSET S
      OBVIOUS
    <3> HIDE DEF Bad
    <3>2. QED
      BY <3>1, <1>1, SmallestSet
  <2>2. IsFiniteSet(U)
    BY FS_Subset
  <2>3. SumFunctionOnSet(f, U) = IF U = {} THEN 0 ELSE f[Pick(U)] + SumFunctionOnSet(f, U \ {Pick(U)})
    BY <2>2, SumStep
  <2>4. U # {}
    BY <2>3
  <2>5. Pick(U) \in U /\ U \ {Pick(U)} \subseteq U /\ U \ {Pick(U)} # U
    BY <2>4, Picked
  <2>6. SumFunctionOnSet(f, U \ {Pick(U)}) \in Int
    BY <2>5, <2>1
  <2>7. QED
    BY <2>3, <2>4, <2>5, <2>6
<1>2. QED
  BY <1>1

LEMMA SumRemove ==
    ASSUME NEW f, NEW S, IsFiniteSet(S), \A x \in S : f[x] \in Int, NEW x \in S
    PROVE  SumFunctionOnSet(f, S) = f[x] + SumFunctionOnSet(f, S \ {x})
<1> DEFINE Bad == {U \in SUBSET S : \E y \in U : SumFunctionOnSet(f, U) # f[y] + SumFunctionOnSet(f, U \ {y})}
<1>1. ASSUME Bad # {}
      PROVE  FALSE
  <2>1. PICK U \in Bad : \A V \in Bad : V \subseteq U => V = U
    <3>1. Bad \subseteq SUBSET S
      OBVIOUS
    <3> HIDE DEF Bad
    <3>2. QED
      BY <3>1, <1>1, SmallestSet
  <2>2. PICK y \in U : SumFunctionOnSet(f, U) # f[y] + SumFunctionOnSet(f, U \ {y})
    OBVIOUS
  <2> DEFINE p == Pick(U)
  <2>3. U # {} /\ IsFiniteSet(U) /\ p \in U /\ U \subseteq S
    BY <2>2, FS_Subset, Picked
  <2>4. SumFunctionOnSet(f, U) = f[p] + SumFunctionOnSet(f, U \ {p})
    BY <2>3, SumStep
  <2> HIDE DEF p
  <2>5. p # y
    BY <2>4, <2>2
  <2>6. U \ {p} \in SUBSET S /\ U \ {p} \subseteq U /\ U \ {p} # U /\ y \in U \ {p}
    BY <2>3, <2>5, <2>2
  <2>7. SumFunctionOnSet(f, U \ {p}) = f[y] + SumFunctionOnSet(f, (U \ {p}) \ {y})
    <3>1. U \ {p} \notin Bad
      BY <2>6, <2>1
    <3>2. QED
      BY <3>1, <2>6
  <2>8. U \ {y} \in SUBSET S /\ U \ {y} \subseteq U /\ U \ {y} # U /\ p \in U \ {y}
    BY <2>3, <2>5, <2>2
  <2>9. SumFunctionOnSet(f, U \ {y}) = f[p] + SumFunctionOnSet(f, (U \ {y}) \ {p})
    <3>1. U \ {y} \notin Bad
      BY <2>8, <2>1
    <3>2. QED
      BY <3>1, <2>8
  <2>10. (U \ {y}) \ {p} = (U \ {p}) \ {y}
    OBVIOUS
  <2> DEFINE R == (U \ {p}) \ {y}
             n == SumFunctionOnSet(f, R)
  <2>11. n \in Int /\ f[p] \in Int /\ f[y] \in Int
    <3>1. R \in SUBSET S
      BY <2>6
    <3>2. IsFiniteSet(R) /\ \A z \in R : f[z] \in Int
      BY <3>1, FS_Subset
    <3>3. QED
      BY <3>2, SumTyped, <2>3, <2>2
  <2>12. SumFunctionOnSet(f, U) = f[p] + (f[y] + n) /\ SumFunctionOnSet(f, U \ {y}) = f[p] + n
    BY <2>4, <2>7, <2>9, <2>10
  <2> HIDE DEF n
  <2>13. QED
    BY <2>12, <2>11, <2>2
<1>2. QED
  BY <1>1

LEMMA SumSame ==
    ASSUME NEW f, NEW g, NEW S, IsFiniteSet(S), \A x \in S : f[x] = g[x]
    PROVE  SumFunctionOnSet(f, S) = SumFunctionOnSet(g, S)
<1> DEFINE Bad == {U \in SUBSET S : SumFunctionOnSet(f, U) # SumFunctionOnSet(g, U)}
<1>1. ASSUME Bad # {}
      PROVE  FALSE
  <2>1. PICK U \in Bad : \A V \in Bad : V \subseteq U => V = U
    <3>1. Bad \subseteq SUBSET S
      OBVIOUS
    <3> HIDE DEF Bad
    <3>2. QED
      BY <3>1, <1>1, SmallestSet
  <2>2. IsFiniteSet(U)
    BY FS_Subset
  <2>3. /\ SumFunctionOnSet(f, U) = IF U = {} THEN 0 ELSE f[Pick(U)] + SumFunctionOnSet(f, U \ {Pick(U)})
        /\ SumFunctionOnSet(g, U) = IF U = {} THEN 0 ELSE g[Pick(U)] + SumFunctionOnSet(g, U \ {Pick(U)})
    BY <2>2, SumStep
  <2>4. U # {}
    BY <2>3
  <2>5. Pick(U) \in U /\ U \ {Pick(U)} \subseteq U /\ U \ {Pick(U)} # U
    BY <2>4, Picked
  <2>6. SumFunctionOnSet(f, U \ {Pick(U)}) = SumFunctionOnSet(g, U \ {Pick(U)})
    BY <2>5, <2>1
  <2>7. f[Pick(U)] = g[Pick(U)]
    BY <2>5
  <2>8. QED
    BY <2>3, <2>4, <2>6, <2>7
<1>2. QED
  BY <1>1

\* A set that grows by one element, and functions that differ on one.
LEMMA SumGrows ==
    ASSUME NEW f, NEW g, NEW S, IsFiniteSet(S), NEW x, x \notin S,
           \A y \in S : f[y] = g[y] /\ g[y] \in Int, g[x] \in Int
    PROVE  SumFunctionOnSet(g, S \cup {x}) = SumFunctionOnSet(f, S) + g[x]
<1> DEFINE T == S \cup {x}
<1>1. IsFiniteSet(T) /\ x \in T /\ T \ {x} = S /\ \A y \in T : g[y] \in Int
  BY FS_AddElement
<1> HIDE DEF T
<1>2. SumFunctionOnSet(g, T) = g[x] + SumFunctionOnSet(g, S)
  BY <1>1, SumRemove
<1>3. SumFunctionOnSet(f, S) = SumFunctionOnSet(g, S) /\ SumFunctionOnSet(g, S) \in Int
  BY SumSame, SumTyped
<1> QED BY <1>2, <1>3 DEF T

LEMMA SumChanges ==
    ASSUME NEW f, NEW g, NEW S, IsFiniteSet(S), NEW x \in S,
           \A y \in S : f[y] \in Int /\ g[y] \in Int,
           \A y \in S : y # x => f[y] = g[y]
    PROVE  SumFunctionOnSet(g, S) = SumFunctionOnSet(f, S) - f[x] + g[x]
<1> DEFINE T == S \ {x}
<1>1. IsFiniteSet(T) /\ \A y \in T : f[y] = g[y] /\ f[y] \in Int
  BY FS_RemoveElement
<1>2. /\ SumFunctionOnSet(f, S) = f[x] + SumFunctionOnSet(f, T)
      /\ SumFunctionOnSet(g, S) = g[x] + SumFunctionOnSet(g, T)
  BY SumRemove
<1> HIDE DEF T
<1>3. SumFunctionOnSet(f, T) = SumFunctionOnSet(g, T) /\ SumFunctionOnSet(f, T) \in Int
  BY <1>1, SumSame, SumTyped
<1> QED BY <1>2, <1>3

-----------------------------------------------------------------------------
(* The sums of the reservations. *)

\* An open hold has not been charged.
HeldInv == HeldIsOpen /\ \A i \in Open : resv[i].charge = 0

LEMMA HoldsCounted ==
    ASSUME Facts
    PROVE  /\ \A i \in Holds : /\ MaxOf[i] = resv[i].max /\ ChargedBy[i] = resv[i].charge
                               /\ MaxOf[i] \in Int /\ ChargedBy[i] \in Int
                               /\ resv[i] \in Reservation
           /\ \A b : IsFiniteSet(Mine(b)) /\ IsFiniteSet(Mine(b) \cap Open)
<1>1. Holds = 1..Len(resv) /\ Len(resv) \in Nat /\ \A i \in Holds : resv[i] \in Reservation
  BY RowsTyped DEF Facts
<1>2. \A r \in Reservation : r.max \in Int /\ r.charge \in Int
  BY DEF Reservation
<1>3. IsFiniteSet(Holds)
  BY <1>1, FS_Interval
<1>4. ASSUME NEW b
      PROVE  IsFiniteSet(Mine(b)) /\ IsFiniteSet(Mine(b) \cap Open)
  <2>1. Mine(b) \in SUBSET Holds /\ Mine(b) \cap Open \in SUBSET Holds
    BY DEF Mine
  <2> QED BY <1>3, <2>1, FS_Subset
<1> QED BY <1>1, <1>2, <1>4 DEF MaxOf, ChargedBy

\* A reservation adds its amount to what its bucket holds.
LEMMA HeldReserve ==
    ASSUME Facts, HeldInv, NEW k \in Keys, NEW run \in Runs, NEW b \in Buckets, NEW prefix,
           ReserveTx(k, run, b, prefix)
    PROVE  HeldInv'
<1> DEFINE x == Held(bucket[b])
           r == [key |-> k, run |-> run, bucket |-> b, max |-> Amount, charge |-> 0,
                 deadline |-> now + Window, status |-> "reserved"]
           n == Len(resv) + 1
<1>1. /\ bucket[b] \in Amounts /\ Amount \in Nat \ {0} /\ bucket[b].available >= Amount
      /\ \A y \in Buckets : bucket[y] \in Amounts
  BY LedgerAssumption DEF Facts, LedgerTyped, ReserveTx, Fits
<1>2. /\ x \in Amounts /\ x.total = bucket[b].total /\ x.available = bucket[b].available - Amount
      /\ x.reserved = bucket[b].reserved + Amount
      /\ x.settled = bucket[b].settled /\ x.lost = bucket[b].lost
  BY <1>1, HeldTyped
<1>3. bucket' = [bucket EXCEPT ![b] = x] /\ resv' = Append(resv, r)
  BY DEF ReserveTx
<1>4. r.max = Amount /\ r.charge = 0 /\ r.bucket = b /\ r.status = "reserved"
  OBVIOUS
<1> HIDE DEF x, r
<1>5. \A y \in Buckets : bucket'[y] = IF y = b THEN x ELSE bucket[y]
  BY <1>3 DEF Facts, LedgerTyped
<1>6. resv \in Seq(Reservation) /\ Holds = 1..Len(resv) /\ Len(resv) \in Nat
  BY RowsTyped DEF Facts, LedgerTyped
<1>7. DOMAIN resv' = 1..n /\ \A i \in 1..n : resv'[i] = IF i = n THEN r ELSE resv[i]
  BY <1>3, <1>6
<1>8. /\ Holds' = Holds \cup {n} /\ n \notin Holds /\ resv'[n] = r
      /\ \A i \in Holds : resv'[i] = resv[i]
  BY <1>6, <1>7 DEF Holds
<1> HIDE DEF n
<1>9. Open' = Open \cup {n} /\ n \notin Open
  BY <1>4, <1>8 DEF Open
<1>10. \A y \in Buckets : /\ y = b => Mine(y)' = Mine(y) \cup {n}
                          /\ y # b => Mine(y)' = Mine(y)
                          /\ n \notin Mine(y) /\ Mine(y) \subseteq Holds
  BY <1>4, <1>8 DEF Mine
<1> DEFINE f == MaxOf
           g == MaxOf'
           u == ChargedBy
           v == ChargedBy'
<1>11. /\ \A i \in Holds : f[i] \in Int /\ u[i] \in Int /\ g[i] = f[i] /\ v[i] = u[i]
       /\ g[n] = Amount /\ v[n] = 0
       /\ \A y : IsFiniteSet(Mine(y)) /\ IsFiniteSet(Mine(y) \cap Open)
  <2>1. \A i \in Holds : f[i] = resv[i].max /\ u[i] = resv[i].charge /\ f[i] \in Int /\ u[i] \in Int
    BY HoldsCounted
  <2>2. \A i \in Holds' : g[i] = resv'[i].max /\ v[i] = resv'[i].charge
    BY DEF MaxOf, ChargedBy
  <2> QED BY <1>4, <1>8, <2>1, <2>2, HoldsCounted
<1> HIDE DEF f, g, u, v
<1>12. \A y \in Buckets : /\ bucket[y].reserved = SumFunctionOnSet(f, Mine(y) \cap Open)
                          /\ bucket[y].settled = SumFunctionOnSet(u, Mine(y))
                          /\ bucket[y].total = bucket[y].available + bucket[y].reserved
                                                + bucket[y].settled + bucket[y].lost
  BY DEF HeldInv, HeldIsOpen, f, u
<1>13. ASSUME NEW y \in Buckets
       PROVE  /\ bucket'[y].reserved = SumFunctionOnSet(g, Mine(y)' \cap Open')
              /\ bucket'[y].settled = SumFunctionOnSet(v, Mine(y)')
              /\ bucket'[y].total = bucket'[y].available + bucket'[y].reserved
                                      + bucket'[y].settled + bucket'[y].lost
  <2> DEFINE M == Mine(y)
             O == Mine(y) \cap Open
  <2>1. /\ M \subseteq Holds /\ O \subseteq Holds /\ n \notin M /\ n \notin O
        /\ IsFiniteSet(M) /\ IsFiniteSet(O)
    BY <1>10, <1>11
  <2>2. CASE y = b
    <3>1. Mine(y)' = M \cup {n} /\ Mine(y)' \cap Open' = O \cup {n}
      BY <1>9, <1>10, <2>2
    <3> HIDE DEF M, O
    <3>2. SumFunctionOnSet(g, O \cup {n}) = SumFunctionOnSet(f, O) + Amount
      BY <1>1, <1>11, <2>1, SumGrows
    <3>3. SumFunctionOnSet(v, M \cup {n}) = SumFunctionOnSet(u, M) + 0
      BY <1>11, <2>1, SumGrows
    <3>4. SumFunctionOnSet(f, O) = bucket[b].reserved /\ SumFunctionOnSet(u, M) = bucket[b].settled
      BY <1>12, <2>2 DEF M, O
    <3>5. bucket'[y] = x
      BY <1>5, <2>2
    <3>6. bucket[b].reserved \in Int /\ bucket[b].settled \in Nat /\ bucket[b].available \in Nat
          /\ bucket[b].lost \in Nat
      BY <1>1 DEF Amounts
    <3>7. /\ bucket[b].total = bucket[b].available + bucket[b].reserved + bucket[b].settled
                               + bucket[b].lost
      BY <1>12
    <3>8. x.total = x.available + x.reserved + x.settled + x.lost
      BY <1>1, <1>2, <3>6, <3>7
    <3>9. /\ SumFunctionOnSet(g, O \cup {n}) = x.reserved
          /\ SumFunctionOnSet(v, M \cup {n}) = x.settled
      BY <1>2, <3>2, <3>3, <3>4, <3>6
    <3> QED BY <3>1, <3>5, <3>8, <3>9
  <2>3. CASE y # b
    <3>1. Mine(y)' = M /\ Mine(y)' \cap Open' = O
      BY <1>9, <1>10, <2>3, <2>1
    <3>2. bucket'[y] = bucket[y]
      BY <1>5, <2>3
    <3>3. SumFunctionOnSet(f, O) = bucket[y].reserved /\ SumFunctionOnSet(u, M) = bucket[y].settled
      BY <1>12
    <3> HIDE DEF M, O
    <3>4. SumFunctionOnSet(g, O) = SumFunctionOnSet(f, O) /\ SumFunctionOnSet(v, M) = SumFunctionOnSet(u, M)
      <4>1. (\A i \in O : g[i] = f[i]) /\ (\A i \in M : v[i] = u[i])
        BY <1>11, <2>1
      <4> QED BY <2>1, <4>1, SumSame
    <3> QED BY <1>12, <3>1, <3>2, <3>3, <3>4
  <2> QED BY <2>2, <2>3
<1>14. \A i \in Open' : resv'[i].charge = 0
  BY <1>4, <1>8, <1>9 DEF HeldInv, Open
<1> QED BY <1>13, <1>14 DEF HeldInv, HeldIsOpen, g, v

\* Closing takes the hold out of what its bucket holds, and settles the charge.
LEMMA HeldClose ==
    ASSUME Facts, HeldInv, NEW h \in Open, NEW charge \in Nat, charge <= Amount,
           NEW status \in {"settled", "released", "expired"}, CloseTx(h, status, charge)
    PROVE  HeldInv'
<1>1. PICK b \in Buckets, back \in BOOLEAN :
             LET x == Freed(bucket[b], Amount, charge, back)
                 r == Ended(resv[h], status, charge)
             IN  /\ b = resv[h].bucket /\ back = Returnable(b) /\ Exists(b)
                 /\ h \in Holds /\ bucket[b] \in Amounts /\ resv[h] \in Reservation
                 /\ resv[h].status = "reserved"
                 /\ bucket' = [bucket EXCEPT ![b] = x] /\ resv' = [resv EXCEPT ![h] = r]
                 /\ UNCHANGED <<dead, ended, notices>>
  BY CloseWrites
<1> DEFINE x == Freed(bucket[b], Amount, charge, back)
           r == Ended(resv[h], status, charge)
<1>2. Amount \in Nat \ {0} /\ charge \in 0..Amount /\ \A y \in Buckets : bucket[y] \in Amounts
  BY LedgerAssumption DEF Facts, LedgerTyped
<1>3. /\ x.total = bucket[b].total /\ x.reserved = bucket[b].reserved - Amount
      /\ x.settled = bucket[b].settled + charge
      /\ x.available + x.lost = bucket[b].available + bucket[b].lost + (Amount - charge)
  <2>1. /\ x.total = bucket[b].total /\ x.reserved = bucket[b].reserved - Amount
        /\ x.settled = bucket[b].settled + charge
        /\ ~back => x.available = bucket[b].available
        /\ back => /\ x.available = bucket[b].available + (Amount - charge)
                   /\ x.lost = bucket[b].lost
        /\ ~back => x.lost = bucket[b].lost + (Amount - charge)
    BY <1>1, <1>2, FreedTyped
  <2>2. bucket[b].available \in Nat /\ bucket[b].lost \in Nat
    BY <1>2 DEF Amounts
  <2> HIDE DEF x
  <2> QED BY <1>2, <2>1, <2>2
<1>4. r.max = Amount /\ r.charge = charge /\ r.bucket = b /\ r.status # "reserved"
  <2>1. resv[h].max = Amount
    BY <1>1 DEF Facts, Sound
  <2>2. resv[h] \in Reservation /\ b = resv[h].bucket
    BY <1>1
  <2> QED BY <2>1, <2>2, EndedTyped
<1>5. bucket' = [bucket EXCEPT ![b] = x] /\ resv' = [resv EXCEPT ![h] = r]
  BY <1>1
<1>6. x.available \in Int /\ x.lost \in Int /\ x.reserved \in Int /\ x.settled \in Int
  <2>1. x \in Amounts
    BY <1>1, <1>2, FreedTyped
  <2> HIDE DEF x
  <2> QED BY <2>1 DEF Amounts
<1> HIDE DEF x, r
<1>7. \A y \in Buckets : bucket'[y] = IF y = b THEN x ELSE bucket[y]
  BY <1>5 DEF Facts, LedgerTyped
<1>8. Holds' = Holds /\ h \in Holds /\ \A i \in Holds : resv'[i] = IF i = h THEN r ELSE resv[i]
  <2>1. resv \in Seq(Reservation)
    BY DEF Facts, LedgerTyped
  <2> QED BY <1>1, <1>5, <2>1 DEF Holds
<1>9. Open' = Open \ {h}
  BY <1>4, <1>8 DEF Open
<1>10. \A y \in Buckets : Mine(y)' = Mine(y) /\ Mine(y) \subseteq Holds /\ (h \in Mine(y) <=> y = b)
  BY <1>1, <1>4, <1>8 DEF Mine
<1> DEFINE f == MaxOf
           g == MaxOf'
           u == ChargedBy
           v == ChargedBy'
<1>11. /\ \A i \in Holds : f[i] \in Int /\ u[i] \in Int /\ g[i] = f[i] /\ (i # h => v[i] = u[i])
       /\ f[h] = Amount /\ u[h] = 0 /\ v[h] = charge
       /\ \A y : IsFiniteSet(Mine(y)) /\ IsFiniteSet(Mine(y) \cap Open)
  <2>1. \A i \in Holds : f[i] = resv[i].max /\ u[i] = resv[i].charge /\ f[i] \in Int /\ u[i] \in Int
    BY HoldsCounted
  <2>2. \A i \in Holds' : g[i] = resv'[i].max /\ v[i] = resv'[i].charge
    BY DEF MaxOf, ChargedBy
  <2>3. \A i \in Holds : resv[i].max = Amount
    BY DEF Facts, Sound
  <2>4. resv[h].charge = 0
    BY DEF HeldInv
  <2> QED BY <1>4, <1>8, <2>1, <2>2, <2>3, <2>4, HoldsCounted
<1> HIDE DEF f, g, u, v
<1>12. \A y \in Buckets : /\ bucket[y].reserved = SumFunctionOnSet(f, Mine(y) \cap Open)
                          /\ bucket[y].settled = SumFunctionOnSet(u, Mine(y))
                          /\ bucket[y].total = bucket[y].available + bucket[y].reserved
                                                + bucket[y].settled + bucket[y].lost
  BY DEF HeldInv, HeldIsOpen, f, u
<1>13. ASSUME NEW y \in Buckets
       PROVE  /\ bucket'[y].reserved = SumFunctionOnSet(g, Mine(y)' \cap Open')
              /\ bucket'[y].settled = SumFunctionOnSet(v, Mine(y)')
              /\ bucket'[y].total = bucket'[y].available + bucket'[y].reserved
                                      + bucket'[y].settled + bucket'[y].lost
  <2> DEFINE M == Mine(y)
             O == Mine(y) \cap Open
             P == O \ {h}
  <2>1. /\ M \subseteq Holds /\ O \subseteq Holds /\ P \subseteq Holds /\ Mine(y)' = M /\ Mine(y)' \cap Open' = P
        /\ IsFiniteSet(M) /\ IsFiniteSet(O) /\ IsFiniteSet(P)
    <3>1. IsFiniteSet(M) /\ IsFiniteSet(O)
      BY <1>11
    <3>2. Mine(y)' = M /\ M \subseteq Holds
      BY <1>10
    <3>3. Mine(y)' \cap Open' = P
      BY <1>9, <3>2
    <3>4. IsFiniteSet(P)
      <4> HIDE DEF O
      <4> QED BY <3>1, FS_RemoveElement
    <3> QED BY <3>1, <3>2, <3>3, <3>4
  <2>2. (y = b => h \in O /\ h \in M) /\ (y # b => P = O /\ h \notin M)
    BY <1>10
  <2>3. SumFunctionOnSet(f, O) = bucket[y].reserved /\ SumFunctionOnSet(u, M) = bucket[y].settled
    BY <1>12
  <2>4. O \ {h} = P
    OBVIOUS
  <2> HIDE DEF M, O, P
  <2>5. SumFunctionOnSet(g, P) = SumFunctionOnSet(f, P)
    <3>1. \A i \in P : g[i] = f[i]
      BY <1>11, <2>1
    <3> QED BY <2>1, <3>1, SumSame
  <2>6. SumFunctionOnSet(f, P) \in Int
    <3>1. \A i \in P : f[i] \in Int
      BY <1>11, <2>1
    <3> QED BY <2>1, <3>1, SumTyped
  <2>7. CASE y = b
    <3>1. SumFunctionOnSet(f, O) = Amount + SumFunctionOnSet(f, P)
      <4>1. \A i \in O : f[i] \in Int
        BY <1>11, <2>1
      <4> QED BY <1>11, <2>1, <2>2, <2>4, <2>7, <4>1, SumRemove
    <3>2. SumFunctionOnSet(v, M) = SumFunctionOnSet(u, M) - u[h] + v[h]
      <4>1. \A i \in M : u[i] \in Int /\ v[i] \in Int
        BY <1>2, <1>11, <2>1
      <4>2. \A i \in M : i # h => u[i] = v[i]
        BY <1>11, <2>1
      <4> QED BY <2>1, <2>2, <2>7, <4>1, <4>2, SumChanges
    <3>3. bucket'[y] = x
      BY <1>7, <2>7
    <3>4. bucket[b].reserved \in Int /\ bucket[b].settled \in Nat /\ bucket[b].available \in Nat
          /\ bucket[b].lost \in Nat
      BY <1>2 DEF Amounts
    <3>5. SumFunctionOnSet(v, M) = bucket[b].settled + charge
      BY <1>2, <1>11, <2>3, <2>7, <3>2, <3>4
    <3>6. SumFunctionOnSet(g, P) = bucket[b].reserved - Amount
      BY <1>2, <2>3, <2>5, <2>6, <2>7, <3>1
    <3>7. x.total = x.available + x.reserved + x.settled + x.lost
      <4>1. bucket[b].total = bucket[b].available + bucket[b].reserved + bucket[b].settled
                               + bucket[b].lost
        BY <1>12
      <4> QED BY <1>2, <1>3, <1>6, <3>4, <4>1
    <3> QED BY <1>3, <2>1, <3>3, <3>5, <3>6, <3>7
  <2>8. CASE y # b
    <3>1. bucket'[y] = bucket[y] /\ P = O
      BY <1>7, <2>2, <2>8
    <3>2. SumFunctionOnSet(v, M) = SumFunctionOnSet(u, M)
      <4>1. \A i \in M : v[i] = u[i]
        BY <1>11, <2>1, <2>2, <2>8
      <4> QED BY <2>1, <4>1, SumSame
    <3> QED BY <1>12, <2>1, <2>3, <2>5, <3>1, <3>2
  <2> QED BY <2>7, <2>8
<1>14. \A i \in Open' : resv'[i].charge = 0
  BY <1>8, <1>9 DEF HeldInv, Open
<1> QED BY <1>13, <1>14 DEF HeldInv, HeldIsOpen, g, v

\* A bucket that comes holds nothing: no reservation is on a bucket that is not there.
LEMMA HeldCreate ==
    ASSUME Facts, HeldInv, NEW b \in Buckets, NEW n \in Nat \ {0}, ~Exists(b), CreateTx(b, n)
    PROVE  HeldInv'
<1>1. resv' = resv /\ Open' = Open /\ MaxOf' = MaxOf /\ ChargedBy' = ChargedBy
      /\ \A y : Mine(y)' = Mine(y)
  BY DEF CreateTx, Open, MaxOf, ChargedBy, Mine, Holds
<1>2. \A y \in Buckets : bucket'[y] = IF y = b THEN Funded(n) ELSE bucket[y]
  BY DEF CreateTx, Facts, LedgerTyped
<1>3. Mine(b) = {} /\ Mine(b) \cap Open = {}
  BY DEF Mine, Facts, Sound
<1>4. SumFunctionOnSet(MaxOf, {}) = 0 /\ SumFunctionOnSet(ChargedBy, {}) = 0
  BY SumOfNone
<1>5. /\ Funded(n).reserved = 0 /\ Funded(n).settled = 0
      /\ Funded(n).total = Funded(n).available + Funded(n).reserved + Funded(n).settled + Funded(n).lost
  BY DEF Funded
<1>6. ASSUME NEW y \in Buckets
      PROVE  /\ bucket'[y].reserved = SumFunctionOnSet(MaxOf, Mine(y) \cap Open)
             /\ bucket'[y].settled = SumFunctionOnSet(ChargedBy, Mine(y))
             /\ bucket'[y].total = bucket'[y].available + bucket'[y].reserved
                                     + bucket'[y].settled + bucket'[y].lost
  <2>1. CASE y = b
    BY <1>2, <1>3, <1>4, <1>5, <2>1
  <2>2. CASE y # b
    BY <1>2, <2>2 DEF HeldInv, HeldIsOpen
  <2> QED BY <2>1, <2>2
<1> QED BY <1>1, <1>6 DEF HeldInv, HeldIsOpen

LEMMA HeldStill ==
    ASSUME HeldInv, UNCHANGED <<bucket, resv>>
    PROVE  HeldInv'
BY DEF HeldInv, HeldIsOpen, Open, MaxOf, ChargedBy, Mine, Holds

LEMMA HeldStep ==
    ASSUME Facts, HeldInv, LedgerStep \/ UNCHANGED ledger
    PROVE  HeldInv'
<1>1. CASE UNCHANGED <<bucket, resv>>
  BY <1>1, HeldStill
<1>2. CASE \E k \in Keys, run \in Runs, b \in Buckets, prefix \in Sources \cup {None} :
              ReserveTx(k, run, b, prefix)
  BY <1>2, HeldReserve
<1>3. CASE \E i \in Holds, charge \in Nat, status \in {"settled", "released", "expired"} :
              charge <= Amount /\ CloseTx(i, status, charge)
  <2>1. PICK i \in Holds, charge \in Nat, status \in {"settled", "released", "expired"} :
              charge <= Amount /\ CloseTx(i, status, charge)
    BY <1>3
  <2>2. CASE i \in Open
    BY <2>1, <2>2, HeldClose
  <2>3. CASE i \notin Open
    BY <2>1, <2>3, <1>1 DEF CloseTx, ledger
  <2> QED BY <2>2, <2>3
<1>4. CASE \E b \in Buckets, n \in Nat \ {0} : ~Exists(b) /\ CreateTx(b, n)
  BY <1>4, HeldCreate
<1> QED BY <1>1, <1>2, <1>3, <1>4 DEF PurseStep, LedgerStep, ledger

LEMMA HeldStart ==
    ASSUME Init
    PROVE  HeldInv
<1>1. Holds = {} /\ \A b : Mine(b) = {} /\ Mine(b) \cap Open = {}
  BY DEF Init, LedgerInit, Holds, Mine
<1>2. SumFunctionOnSet(MaxOf, {}) = 0 /\ SumFunctionOnSet(ChargedBy, {}) = 0
  BY SumOfNone
<1>3. \A b \in Buckets : bucket[b] = NoBucket
  BY DEF Init, LedgerInit
<1> QED BY <1>1, <1>2, <1>3 DEF HeldInv, HeldIsOpen, NoBucket, Open

\* However the calls are interleaved, retried, cut and swept, what a bucket holds is the sum of
\* its open reservations, what it has settled the sum of the charges, and the rest of its total
\* is available or written off: no unit of the allowance is counted twice, and none disappears
\* (the transactions of service.ts).
THEOREM AllowanceBalanced == Spec => []HeldIsOpen
<1>1. ASSUME AllowanceInv, HeldInv, [Next]_vars
      PROVE  HeldInv'
  <2>1. CASE Next
    <3>1. Facts /\ (LedgerStep \/ UNCHANGED ledger)
      BY <1>1, <2>1, StepShape DEF AllowanceInv, TypeOK, Facts, LedgerTyped
    <3> QED BY <1>1, <3>1, HeldStep
  <2>2. CASE UNCHANGED vars
    BY <1>1, <2>2, HeldStill DEF vars, ledger
  <2> QED BY <1>1, <2>1, <2>2
<1>2. HeldInv => HeldIsOpen
  BY DEF HeldInv
<1> QED BY <1>1, <1>2, HeldStart, AllowanceInit, AllowanceStep, PTL DEF Spec

-----------------------------------------------------------------------------
(* The cycles of the plans. *)

Past == {"readBase", "makeBase", "readUp", "makeUp", "done"}
Ends(s) == DirOf[s].ends # None
OfTrial(s, b) == TermsOf[b].kind = "plan_cycle" /\ TermsOf[b].src = DirOf[s].ends

\* The audit row of a trial's end is there before its buckets are marked.
EndedFirst ==
    \A s \in Syncs : sync[s].pc \in Past \cup {"mark"} /\ Ends(s) => DirOf[s].ends \in ended

\* A cycle is raised in the one transaction that gives its supplement, and after its base.
RowsFirst ==
    \A p \in Periods :
        /\ HasRow(p) => \A b \in BaseOf(p) : Exists(b)
        /\ ~HasRow(p) => upgrade[p] = NoUpgrade /\ UpBuckets(p) = {}

BaseFirst == \A s \in Syncs : sync[s].pc = "makeUp" => Exists(DirOf[s].base)

CyclesInv == EndedFirst /\ TrialStaysEnded /\ RowsFirst /\ BaseFirst /\ CycleIsBounded

\* What part of a positive amount is worth, rounded down, is no more than all of it.
LEMMA Floored ==
    ASSUME NEW x \in Nat, NEW r \in Nat, NEW d \in Nat \ {0}, r <= d
    PROVE  (x * r) \div d \in 0..x
<1> DEFINE n == x * r
           q == n \div d
<1>1. n \in Nat /\ n <= x * d
  <2>1. d - r \in Nat
    OBVIOUS
  <2>2. x * (d - r) \in Nat /\ x * r \in Nat /\ x * d \in Nat
    BY <2>1
  <2>3. x * d = x * r + x * (d - r)
    OBVIOUS
  <2> QED BY <2>2, <2>3
<1>2. q \in Int /\ d * q <= n /\ n < d * (q + 1)
  <2> HIDE DEF n
  <2> QED BY <1>1
<1> HIDE DEF n, q
<1>3. q >= 0
  <2> SUFFICES ASSUME q + 1 <= 0 PROVE FALSE
    BY <1>2
  <2>1. d * (q + 1) <= 0
    BY <1>2
  <2> QED BY <1>1, <1>2, <2>1
<1>4. q <= x
  <2> SUFFICES ASSUME q - x >= 1 PROVE FALSE
    BY <1>2
  <2>1. d * (q - x) >= d
    BY <1>2
  <2>2. d * (q - x) = d * q - d * x /\ d * x = x * d
    BY <1>2
  <2>3. d * q \in Int /\ d * x \in Int
    BY <1>2
  <2> QED BY <1>1, <1>2, <2>1, <2>2, <2>3
<1> QED BY <1>2, <1>3, <1>4 DEF n, q

LEMMA DirectiveTerms ==
    ASSUME NEW s \in Syncs
    PROVE  /\ DirOf[s].base \in Buckets /\ DirOf[s].up \in Buckets /\ DirOf[s].period \in Periods
           /\ TermsOf[DirOf[s].base].kind = "plan_cycle" /\ TermsOf[DirOf[s].up].kind = "plan_cycle"
           /\ TermsOf[DirOf[s].base].period = DirOf[s].period
           /\ TermsOf[DirOf[s].up].period = DirOf[s].period
           /\ \A t \in Syncs : DirOf[s].base # DirOf[t].up
           /\ DirOf[s].remaining \in Nat /\ DirOf[s].remaining <= DirOf[s].den
           /\ DirOf[s].den \in Nat \ {0} /\ DirOf[s].target \in Nat \ {0}
  BY DirectiveTyped, AllowanceAssumption

\* The calls leave alone what the buckets were given.
LEMMA PurseTotals ==
    ASSUME Facts, PurseStep
    PROVE  dead' = dead /\ ended' = ended /\ \A b \in Buckets : bucket'[b].total = bucket[b].total
<1>0. \A b \in Buckets : bucket[b] \in Amounts /\ bucket \in [Buckets -> Amounts]
  BY DEF Facts, LedgerTyped
<1>1. CASE UNCHANGED <<bucket, dead, ended, resv>>
  BY <1>1
<1>2. CASE \E k \in Keys, run \in Runs, b \in Buckets, prefix \in Sources \cup {None} :
              ReserveTx(k, run, b, prefix)
  <2>1. PICK k \in Keys, run \in Runs, b \in Buckets, prefix \in Sources \cup {None} :
              ReserveTx(k, run, b, prefix)
    BY <1>2
  <2> DEFINE x == Held(bucket[b])
  <2>2. bucket' = [bucket EXCEPT ![b] = x] /\ dead' = dead /\ ended' = ended
    BY <2>1 DEF ReserveTx
  <2>3. x.total = bucket[b].total
    BY DEF Held
  <2> HIDE DEF x
  <2> QED BY <1>0, <2>2, <2>3
<1>3. CASE \E i \in Holds, charge \in Nat, status \in {"settled", "released", "expired"} :
              charge <= Amount /\ CloseTx(i, status, charge)
  <2>1. PICK i \in Holds, charge \in Nat, status \in {"settled", "released", "expired"} :
              charge <= Amount /\ CloseTx(i, status, charge)
    BY <1>3
  <2>2. CASE i \notin Open
    BY <2>1, <2>2 DEF CloseTx, ledger
  <2>3. CASE i \in Open
    <3>1. PICK b \in Buckets, back \in BOOLEAN :
             /\ bucket' = [bucket EXCEPT ![b] = Freed(bucket[b], Amount, charge, back)]
             /\ dead' = dead /\ ended' = ended
      BY <2>1, <2>3, CloseWrites
    <3> DEFINE x == Freed(bucket[b], Amount, charge, back)
    <3>2. x.total = bucket[b].total
      BY DEF Freed
    <3> HIDE DEF x
    <3>3. bucket' = [bucket EXCEPT ![b] = x]
      BY <3>1 DEF x
    <3> QED BY <1>0, <3>1, <3>2, <3>3
  <2> QED BY <2>2, <2>3
<1> QED BY <1>1, <1>2, <1>3 DEF PurseStep

\* What a bucket that comes changes.
LEMMA CreateTotals ==
    ASSUME Facts, NEW b \in Buckets, NEW n, CreateTx(b, n)
    PROVE  /\ \A y \in Buckets : bucket'[y].total = IF y = b THEN n ELSE bucket[y].total
           /\ ended' = ended /\ dead \subseteq dead'
           /\ TermsOf[b].kind = "plan_cycle" /\ TermsOf[b].src \in ended => b \in dead'
BY DEF Facts, LedgerTyped, CreateTx, Funded

\* Where the syncs are after one of them has moved.
LEMMA SyncPcsMove ==
    ASSUME NEW s \in Syncs, NEW pc, NEW tries, sync \in [Syncs -> SyncRecord],
           \/ sync' = [sync EXCEPT ![s].pc = pc]
           \/ sync' = [sync EXCEPT ![s].tries = tries, ![s].pc = pc]
           \/ sync' = [sync EXCEPT ![s].pc = pc, ![s].tries = tries]
    PROVE  \A t \in Syncs : sync'[t].pc = IF t = s THEN pc ELSE sync[t].pc
<1>1. sync[s] \in SyncRecord
  OBVIOUS
<1>2. /\ [sync[s] EXCEPT !.pc = pc].pc = pc
      /\ [sync[s] EXCEPT !.pc = pc, !.tries = tries].pc = pc
      /\ [sync[s] EXCEPT !.tries = tries, !.pc = pc].pc = pc
  BY <1>1 DEF SyncRecord
<1>3. \/ sync' = [sync EXCEPT ![s] = [sync[s] EXCEPT !.pc = pc]]
      \/ sync' = [sync EXCEPT ![s] = [sync[s] EXCEPT !.tries = tries, !.pc = pc]]
      \/ sync' = [sync EXCEPT ![s] = [sync[s] EXCEPT !.pc = pc, !.tries = tries]]
  OBVIOUS
<1> QED BY <1>2, <1>3

\* A trial that has ended stays ended: a bucket of it that comes later is dead at once.
LEMMA TrialsStep ==
    ASSUME EndedFirst, TrialStaysEnded, ended \subseteq ended', dead \subseteq dead',
           \A s \in Syncs : sync'[s].pc \in Past \cup {"mark"} /\ Ends(s) =>
                              sync[s].pc \in Past \cup {"mark"} \/ DirOf[s].ends \in ended',
           \A s \in Syncs : sync'[s].pc \in Past /\ Ends(s) =>
                              \/ sync[s].pc \in Past
                              \/ \A b \in Buckets : Exists(b) /\ OfTrial(s, b) => b \in dead',
           \A b \in Buckets :
              \/ Exists(b)' => Exists(b)
              \/ TermsOf[b].kind = "plan_cycle" /\ TermsOf[b].src \in ended' => b \in dead'
    PROVE  EndedFirst' /\ TrialStaysEnded'
<1>1. EndedFirst'
  BY DEF EndedFirst, Ends
<1>2. ASSUME NEW s \in Syncs, sync'[s].pc \in Past, Ends(s),
             NEW b \in Buckets, Exists(b)', OfTrial(s, b)
      PROVE  b \in dead'
  <2>1. DirOf[s].ends \in ended'
    BY <1>1, <1>2 DEF EndedFirst, Ends
  <2>2. CASE Exists(b)
    <3>1. CASE sync[s].pc \in Past
      BY <1>2, <2>2, <3>1 DEF TrialStaysEnded, Past, OfTrial, Ends
    <3>2. CASE sync[s].pc \notin Past
      BY <1>2, <2>2, <3>2
    <3> QED BY <3>1, <3>2
  <2>3. CASE ~Exists(b)
    BY <1>2, <2>1, <2>3 DEF OfTrial
  <2> QED BY <2>2, <2>3
<1>3. TrialStaysEnded'
  BY <1>2 DEF TrialStaysEnded, Past, Ends, OfTrial
<1> QED BY <1>1, <1>3

\* The rows of the cycles, when none is raised and no supplement comes.
LEMMA RowsStep ==
    ASSUME Facts, RowsFirst, BaseFirst, CycleIsBounded, upgrade' = upgrade,
           \A b \in Buckets : \/ bucket'[b].total = bucket[b].total
                              \/ /\ ~Exists(b) /\ \A s \in Syncs : b # DirOf[s].up
                                 /\ bucket'[b].total > 0,
           \A s \in Syncs : sync'[s].pc = "makeUp" => sync[s].pc = "makeUp" \/ Exists(DirOf[s].base)
    PROVE  RowsFirst' /\ BaseFirst' /\ CycleIsBounded'
<1>1. \A b \in Buckets : Exists(b) => Exists(b)' /\ bucket'[b].total = bucket[b].total
  BY DEF Exists
<1>2. \A s \in Syncs : /\ DirOf[s].base \in Buckets /\ DirOf[s].up \in Buckets
                       /\ bucket'[DirOf[s].up].total = bucket[DirOf[s].up].total
                       /\ Exists(DirOf[s].up)' <=> Exists(DirOf[s].up)
  BY DirectiveTerms DEF Exists
<1>3. BaseFirst'
  BY <1>1, <1>2 DEF BaseFirst
<1>4. ASSUME NEW p \in Periods
      PROVE  UpBuckets(p)' = UpBuckets(p) /\ BaseOf(p)' = BaseOf(p) /\ BaseOf(p) \subseteq Buckets
             /\ (HasRow(p)' <=> HasRow(p))
  <2>1. UpBuckets(p)' = UpBuckets(p)
    BY <1>2 DEF UpBuckets
  <2>2. BaseOf(p)' = BaseOf(p) /\ BaseOf(p) \subseteq Buckets
    BY <1>2 DEF BaseOf
  <2> QED BY <2>1, <2>2 DEF HasRow
<1>5. RowsFirst'
  <2>1. ASSUME NEW p \in Periods
        PROVE  /\ HasRow(p)' => \A b \in BaseOf(p)' : Exists(b)'
               /\ ~HasRow(p)' => upgrade'[p] = NoUpgrade /\ UpBuckets(p)' = {}
    BY <1>1, <1>4 DEF RowsFirst
  <2> QED BY <2>1 DEF RowsFirst
<1>6. ASSUME NEW p \in Periods, HasRow(p)'
      PROVE  /\ upgrade'[p].granted = SumFunctionOnSet(Totals', UpBuckets(p)')
             /\ \A b \in BaseOf(p)' : bucket'[b].total + upgrade'[p].granted <= upgrade'[p].high
  <2>1. /\ upgrade[p].granted = SumFunctionOnSet(Totals, UpBuckets(p))
        /\ \A b \in BaseOf(p) : bucket[b].total + upgrade[p].granted <= upgrade[p].high
    BY <1>4, <1>6 DEF CycleIsBounded
  <2>2. \A b \in BaseOf(p) : bucket'[b].total = bucket[b].total
    BY <1>1, <1>4, <1>6 DEF RowsFirst
  <2>3. SumFunctionOnSet(Totals', UpBuckets(p)) = SumFunctionOnSet(Totals, UpBuckets(p))
    <3>1. \A b \in UpBuckets(p) : Totals'[b] = Totals[b]
      BY <1>2 DEF UpBuckets, Totals
    <3>2. IsFiniteSet(UpBuckets(p))
      <4>1. UpBuckets(p) \in SUBSET Buckets
        BY <1>2 DEF UpBuckets
      <4> QED BY <4>1, LedgerAssumption, FS_Subset
    <3> QED BY <3>1, <3>2, SumSame
  <2> QED BY <1>4, <2>1, <2>2, <2>3
<1>7. CycleIsBounded'
  BY <1>6 DEF CycleIsBounded
<1> QED BY <1>3, <1>5, <1>7

\* A step that leaves the totals, the rows and the places of the syncs alone.
LEMMA CyclesStill ==
    ASSUME Facts, CyclesInv, UNCHANGED <<sync, upgrade, dead, ended>>,
           \A b \in Buckets : bucket'[b].total = bucket[b].total
    PROVE  CyclesInv'
<1>1. \A b \in Buckets : Exists(b)' => Exists(b)
  BY DEF Exists
<1>2. EndedFirst' /\ TrialStaysEnded'
  BY <1>1, TrialsStep DEF CyclesInv
<1>3. RowsFirst' /\ BaseFirst' /\ CycleIsBounded'
  BY RowsStep DEF CyclesInv
<1> QED BY <1>2, <1>3 DEF CyclesInv

\* The raise of a cycle: there was no row, so what is granted is the one supplement.
LEMMA RaiseCycles ==
    ASSUME AllowanceInv, CyclesInv, NEW s \in Syncs, MakeUpgrade(s), Raises(DirOf[s])
    PROVE  RowsFirst' /\ BaseFirst' /\ CycleIsBounded'
<1> DEFINE d == DirOf[s]
           n == Supplement(d)
           row == [high |-> d.target, num |-> Worth(d), den |-> d.den,
                   granted |-> upgrade[d.period].granted + n,
                   events |-> upgrade[d.period].events \cup {d.event}]
<1>1. /\ d.base \in Buckets /\ d.up \in Buckets /\ d.period \in Periods
      /\ TermsOf[d.base].period = d.period /\ TermsOf[d.up].period = d.period
      /\ \A t \in Syncs : DirOf[t].base # d.up
      /\ d.remaining \in Nat /\ d.remaining <= d.den /\ d.den \in Nat \ {0} /\ d.target \in Nat \ {0}
  BY DirectiveTerms
<1>2. Facts /\ upgrade \in [Periods -> UpgradeRecord] /\ sync \in [Syncs -> SyncRecord]
  BY DEF AllowanceInv, TypeOK, Facts, LedgerTyped, UpgradeRecord, SyncRecord
<1>3. /\ upgrade' = [upgrade EXCEPT ![d.period] = row]
      /\ IF n > 0 THEN ~Exists(d.up) /\ CreateTx(d.up, n) ELSE UNCHANGED ledger
      /\ sync' = [sync EXCEPT ![s].pc = "done"]
      /\ sync[s].pc = "makeUp"
  BY DEF MakeUpgrade, SyncAt
<1>4. ~HasRow(d.period)
  <2>1. RDenOf(upgrade[d.period]) # d.den
    BY <1>1, AllowanceAssumption DEF RDenOf
  <2> QED BY <2>1 DEF Raises
<1>5. upgrade[d.period] = NoUpgrade /\ UpBuckets(d.period) = {}
  BY <1>1, <1>4 DEF CyclesInv, RowsFirst
<1>6. HighWater(d) = bucket[d.base].total /\ bucket[d.base].total \in Nat
  BY <1>1, <1>2, <1>4 DEF HighWater, Facts, LedgerTyped, Amounts
<1>7. Raise(d) \in Nat /\ Raise(d) = d.target - bucket[d.base].total
  BY <1>1, <1>6 DEF Raise, Raises
<1>8. n \in 0..Raise(d)
  <2>1. Worth(d) = Raise(d) * d.remaining
    BY <1>1, <1>5, <1>7 DEF Worth, NoUpgrade
  <2>2. (Raise(d) * d.remaining) \div d.den \in 0..Raise(d)
    BY <1>1, <1>7, Floored
  <2>3. n = (Raise(d) * d.remaining) \div d.den - 0
    BY <1>5, <2>1 DEF Supplement, NoUpgrade
  <2> QED BY <1>7, <2>2, <2>3
<1>9. row.granted = n /\ row.high = d.target /\ row.den = d.den
  BY <1>5, <1>7, <1>8 DEF NoUpgrade
<1> HIDE DEF n, row
<1>10. \A q \in Periods : upgrade'[q] = IF q = d.period THEN row ELSE upgrade[q]
  BY <1>2, <1>3
<1>11. \A y \in Buckets : bucket'[y].total = IF y = d.up /\ n > 0 THEN n ELSE bucket[y].total
  <2>1. CASE n > 0
    BY <1>1, <1>2, <1>3, <2>1, CreateTotals
  <2>2. CASE ~(n > 0)
    BY <1>3, <2>2 DEF ledger
  <2> QED BY <2>1, <2>2
<1>12. \A y \in Buckets : y # d.up => (Exists(y)' <=> Exists(y)) /\ bucket'[y].total = bucket[y].total
  BY <1>11 DEF Exists
<1>13. \A t \in Syncs : DirOf[t].base \in Buckets /\ DirOf[t].up \in Buckets /\ DirOf[t].base # d.up
  BY <1>1, DirectiveTyped
<1>14. \A t \in Syncs : sync'[t].pc = IF t = s THEN "done" ELSE sync[t].pc
  BY <1>2, <1>3, SyncPcsMove
<1>15. BaseFirst'
  BY <1>12, <1>13, <1>14 DEF BaseFirst, CyclesInv
<1>16. ASSUME NEW q \in Periods, q # d.period
       PROVE  UpBuckets(q)' = UpBuckets(q) /\ BaseOf(q)' = BaseOf(q) /\ d.up \notin UpBuckets(q)
              /\ d.up \notin BaseOf(q) /\ UpBuckets(q) \subseteq Buckets /\ BaseOf(q) \subseteq Buckets
              /\ (HasRow(q)' <=> HasRow(q)) /\ upgrade'[q] = upgrade[q]
  <2>1. d.up \notin UpBuckets(q) /\ d.up \notin BaseOf(q)
    BY <1>1, <1>16 DEF UpBuckets, BaseOf
  <2>2. UpBuckets(q) \subseteq Buckets /\ BaseOf(q) \subseteq Buckets
    BY <1>13 DEF UpBuckets, BaseOf
  <2>3. UpBuckets(q)' = UpBuckets(q)
    <3>1. \A y \in {DirOf[t].up : t \in Syncs} :
             TermsOf[y].period = q => (Exists(y)' <=> Exists(y))
      BY <1>1, <1>12, <1>13, <1>16
    <3> QED BY <3>1 DEF UpBuckets
  <2>4. upgrade'[q] = upgrade[q]
    BY <1>10, <1>16
  <2> QED BY <2>1, <2>2, <2>3, <2>4 DEF BaseOf, HasRow
<1>17. HasRow(d.period)' /\ upgrade'[d.period] = row
  BY <1>1, <1>9, <1>10 DEF HasRow
<1>18. BaseOf(d.period)' = {d.base}
  <2>1. \A t \in Syncs : TermsOf[DirOf[t].base].period = d.period => DirOf[t].base = d.base
    BY DirectiveTerms, AllowanceAssumption
  <2> QED BY <1>1, <2>1 DEF BaseOf
<1>19. Exists(d.base) /\ Exists(d.base)' /\ bucket'[d.base].total = bucket[d.base].total
  BY <1>3, <1>12, <1>13 DEF CyclesInv, BaseFirst
<1>20. SumFunctionOnSet(Totals', UpBuckets(d.period)') = n
  <2>1. \A y \in {DirOf[t].up : t \in Syncs} :
           y # d.up /\ TermsOf[y].period = d.period => ~Exists(y)'
    BY <1>5, <1>12, <1>13 DEF UpBuckets
  <2>2. CASE n > 0
    <3>1. Exists(d.up)' /\ Totals'[d.up] = n
      BY <1>1, <1>11, <2>2 DEF Exists, Totals
    <3>2. UpBuckets(d.period)' = {} \cup {d.up}
      BY <1>1, <2>1, <3>1 DEF UpBuckets
    <3>3. SumFunctionOnSet(Totals', {} \cup {d.up}) = SumFunctionOnSet(Totals', {}) + n
      <4>1. IsFiniteSet({})
        BY FS_EmptySet
      <4>2. Totals'[d.up] \in Int
        BY <1>7, <1>8, <3>1
      <4> QED BY <3>1, <4>1, <4>2, SumGrows
    <3>4. SumFunctionOnSet(Totals', {}) = 0
      BY SumOfNone
    <3> QED BY <1>8, <1>7, <3>2, <3>3, <3>4
  <2>3. CASE ~(n > 0)
    <3>1. n = 0 /\ UNCHANGED ledger
      BY <1>3, <1>7, <1>8, <2>3
    <3>2. UpBuckets(d.period)' = {}
      BY <1>5, <3>1 DEF UpBuckets, Exists, ledger
    <3> QED BY <3>1, <3>2, SumOfNone
  <2> QED BY <2>2, <2>3
<1>21. RowsFirst'
  <2>1. ASSUME NEW q \in Periods
        PROVE  /\ HasRow(q)' => \A b \in BaseOf(q)' : Exists(b)'
               /\ ~HasRow(q)' => upgrade'[q] = NoUpgrade /\ UpBuckets(q)' = {}
    <3>1. CASE q = d.period
      BY <1>17, <1>18, <1>19, <3>1
    <3>2. CASE q # d.period
      BY <1>12, <1>16, <3>2 DEF CyclesInv, RowsFirst
    <3> QED BY <3>1, <3>2
  <2> QED BY <2>1 DEF RowsFirst
<1>22. ASSUME NEW q \in Periods, HasRow(q)'
       PROVE  /\ upgrade'[q].granted = SumFunctionOnSet(Totals', UpBuckets(q)')
              /\ \A b \in BaseOf(q)' : bucket'[b].total + upgrade'[q].granted <= upgrade'[q].high
  <2>1. CASE q = d.period
    <3>1. bucket'[d.base].total + n <= d.target
      BY <1>1, <1>6, <1>7, <1>8, <1>19
    <3> QED BY <1>9, <1>17, <1>18, <1>20, <2>1, <3>1
  <2>2. CASE q # d.period
    <3>1. /\ upgrade[q].granted = SumFunctionOnSet(Totals, UpBuckets(q))
          /\ \A b \in BaseOf(q) : bucket[b].total + upgrade[q].granted <= upgrade[q].high
      BY <1>16, <1>22, <2>2 DEF CyclesInv, CycleIsBounded
    <3>2. \A b \in BaseOf(q) : bucket'[b].total = bucket[b].total
      BY <1>12, <1>16, <2>2
    <3>3. SumFunctionOnSet(Totals', UpBuckets(q)) = SumFunctionOnSet(Totals, UpBuckets(q))
      <4>1. \A b \in UpBuckets(q) : Totals'[b] = Totals[b]
        BY <1>12, <1>16, <2>2 DEF Totals
      <4>2. IsFiniteSet(UpBuckets(q))
        BY <1>16, <2>2, LedgerAssumption, FS_Subset
      <4> QED BY <4>1, <4>2, SumSame
    <3> QED BY <1>16, <2>2, <3>1, <3>2, <3>3
  <2> QED BY <2>1, <2>2
<1>23. CycleIsBounded'
  BY <1>22 DEF CycleIsBounded
<1> QED BY <1>15, <1>21, <1>23

\* The steps of the syncs keep the cycles.
LEMMA SyncCycles ==
    ASSUME AllowanceInv, CyclesInv, NEW s \in Syncs, SyncStep(s) \/ CutSync(s)
    PROVE  CyclesInv'
<1>1. /\ Facts /\ sync \in [Syncs -> SyncRecord] /\ \A b \in Buckets : bucket[b].total \in Nat
  BY DEF AllowanceInv, TypeOK, Facts, LedgerTyped, SyncRecord, Amounts
<1>2. /\ EndedFirst /\ TrialStaysEnded /\ RowsFirst /\ BaseFirst /\ CycleIsBounded
  BY DEF CyclesInv
<1>3. DirOf[s].base \in Buckets /\ \A t \in Syncs : DirOf[s].base # DirOf[t].up
  BY DirectiveTerms
\* A step that moves the sync to pc and leaves the ledger and the rows.
<1>4. ASSUME NEW pc \in SyncPcs, UNCHANGED <<ledger, upgrade>>,
             \A t \in Syncs : sync'[t].pc = IF t = s THEN pc ELSE sync[t].pc,
             pc \in Past /\ Ends(s) => sync[s].pc \in Past,
             pc = "mark" => sync[s].pc = "mark",
             pc = "makeUp" => sync[s].pc = "makeUp" \/ Exists(DirOf[s].base)
      PROVE  CyclesInv'
  <2>1. \A b \in Buckets : bucket'[b].total = bucket[b].total /\ (Exists(b)' <=> Exists(b))
    BY <1>4 DEF ledger, Exists
  <2>2. dead' = dead /\ ended' = ended
    BY <1>4 DEF ledger
  <2>3. EndedFirst' /\ TrialStaysEnded'
    BY <1>2, <1>4, <2>1, <2>2, TrialsStep
  <2>4. RowsFirst' /\ BaseFirst' /\ CycleIsBounded'
    BY <1>1, <1>2, <1>4, <2>1, RowsStep
  <2> QED BY <2>3, <2>4 DEF CyclesInv
<1>5. CASE SyncStart(s)
  <2> DEFINE pc == IF DirOf[s].ends = None THEN "readBase" ELSE "insert"
  <2>1. sync' = [sync EXCEPT ![s].pc = pc, ![s].tries = 0] /\ UNCHANGED <<ledger, upgrade>>
    BY <1>5 DEF SyncStart, SyncTo
  <2>2. pc \in SyncPcs /\ (pc \in Past => ~Ends(s)) /\ pc # "mark" /\ pc # "makeUp"
    BY DEF SyncPcs, Past, Ends
  <2> HIDE DEF pc
  <2>3. \A t \in Syncs : sync'[t].pc = IF t = s THEN pc ELSE sync[t].pc
    BY <1>1, <2>1, SyncPcsMove
  <2> QED BY <1>4, <2>1, <2>2, <2>3
<1>6. CASE InsertTermination(s)
  <2>1. /\ sync' = [sync EXCEPT ![s].pc = "mark"] /\ ended' = ended \cup {DirOf[s].ends}
        /\ UNCHANGED <<bucket, dead, upgrade>> /\ sync[s].pc = "insert"
    BY <1>6 DEF InsertTermination, SyncAt
  <2>2. \A t \in Syncs : sync'[t].pc = IF t = s THEN "mark" ELSE sync[t].pc
    BY <1>1, <2>1, SyncPcsMove
  <2>3. \A b \in Buckets : bucket'[b].total = bucket[b].total /\ (Exists(b)' <=> Exists(b))
    BY <2>1 DEF Exists
  <2>4. EndedFirst' /\ TrialStaysEnded'
    BY <1>2, <2>1, <2>2, <2>3, TrialsStep DEF Past
  <2>5. RowsFirst' /\ BaseFirst' /\ CycleIsBounded'
    BY <1>1, <1>2, <2>1, <2>2, <2>3, RowsStep
  <2> QED BY <2>4, <2>5 DEF CyclesInv
<1>7. CASE MarkTerminated(s)
  <2>1. /\ sync' = [sync EXCEPT ![s].pc = "readBase", ![s].tries = 0]
        /\ dead' = dead \cup {b \in Buckets : Exists(b) /\ OfTrial(s, b)}
        /\ UNCHANGED <<bucket, ended, upgrade>> /\ sync[s].pc = "mark"
    BY <1>7 DEF MarkTerminated, SyncAt, SyncTo, OfTrial
  <2>2. \A t \in Syncs : sync'[t].pc = IF t = s THEN "readBase" ELSE sync[t].pc
    BY <1>1, <2>1, SyncPcsMove
  <2>3. \A b \in Buckets : bucket'[b].total = bucket[b].total /\ (Exists(b)' <=> Exists(b))
    BY <2>1 DEF Exists
  <2>4. EndedFirst' /\ TrialStaysEnded'
    <3>1. \A t \in Syncs : sync'[t].pc \in Past \cup {"mark"} /\ Ends(t) =>
                              sync[t].pc \in Past \cup {"mark"} \/ DirOf[t].ends \in ended'
      BY <2>1, <2>2
    <3>2. \A t \in Syncs : sync'[t].pc \in Past /\ Ends(t) =>
                              \/ sync[t].pc \in Past
                              \/ \A b \in Buckets : Exists(b) /\ OfTrial(t, b) => b \in dead'
      BY <2>1, <2>2
    <3>3. ended \subseteq ended' /\ dead \subseteq dead' /\ \A b \in Buckets : Exists(b)' => Exists(b)
      BY <2>1, <2>3
    <3> QED BY <1>2, <3>1, <3>2, <3>3, TrialsStep
  <2>5. RowsFirst' /\ BaseFirst' /\ CycleIsBounded'
    BY <1>1, <1>2, <2>1, <2>2, <2>3, RowsStep
  <2> QED BY <2>4, <2>5 DEF CyclesInv
<1>8. CASE ReadBase(s)
  <2> DEFINE pc == IF Exists(DirOf[s].base) THEN "readUp" ELSE "makeBase"
  <2>1. sync' = [sync EXCEPT ![s].pc = pc, ![s].tries = 0] /\ UNCHANGED <<ledger, upgrade>>
        /\ sync[s].pc = "readBase"
    BY <1>8 DEF ReadBase, SyncTo, SyncAt
  <2>2. pc \in SyncPcs /\ pc # "mark" /\ pc # "makeUp" /\ sync[s].pc \in Past
    BY <2>1 DEF SyncPcs, Past
  <2> HIDE DEF pc
  <2>3. \A t \in Syncs : sync'[t].pc = IF t = s THEN pc ELSE sync[t].pc
    BY <1>1, <2>1, SyncPcsMove
  <2> QED BY <1>4, <2>1, <2>2, <2>3
<1>9. CASE MakeBase(s)
  <2>1. /\ sync' = [sync EXCEPT ![s].pc = "readUp", ![s].tries = 0] /\ sync[s].pc = "makeBase"
        /\ upgrade' = upgrade
    BY <1>9 DEF MakeBase, SyncAt, SyncTo
  <2>2. \A t \in Syncs : sync'[t].pc = IF t = s THEN "readUp" ELSE sync[t].pc
    BY <1>1, <2>1, SyncPcsMove
  <2>3. CASE Exists(DirOf[s].base)
    <3>1. UNCHANGED <<ledger, upgrade>>
      BY <1>9, <2>3 DEF MakeBase
    <3>2. "readUp" \in SyncPcs /\ sync[s].pc \in Past
      BY <2>1 DEF SyncPcs, Past
    <3> QED BY <1>4, <2>2, <3>1, <3>2
  <2>4. CASE ~Exists(DirOf[s].base)
    <3>1. CreateTx(DirOf[s].base, DirOf[s].target) /\ DirOf[s].target > 0
      BY <1>9, <2>4, AllowanceAssumption DEF MakeBase
    <3>2. /\ \A y \in Buckets : bucket'[y].total = IF y = DirOf[s].base THEN DirOf[s].target
                                                   ELSE bucket[y].total
          /\ ended' = ended /\ dead \subseteq dead'
          /\ TermsOf[DirOf[s].base].kind = "plan_cycle" /\ TermsOf[DirOf[s].base].src \in ended
               => DirOf[s].base \in dead'
      BY <1>1, <1>3, <3>1, CreateTotals
    <3>3. \A y \in Buckets : y # DirOf[s].base => (Exists(y)' <=> Exists(y))
      BY <3>2 DEF Exists
    <3>4. EndedFirst' /\ TrialStaysEnded'
      <4>1. \A t \in Syncs : sync'[t].pc \in Past \cup {"mark"} =>
                                sync[t].pc \in Past \cup {"mark"}
        BY <2>1, <2>2 DEF Past
      <4>2. \A t \in Syncs : sync'[t].pc \in Past => sync[t].pc \in Past
        BY <2>1, <2>2 DEF Past
      <4>3. \A b \in Buckets :
              \/ Exists(b)' => Exists(b)
              \/ TermsOf[b].kind = "plan_cycle" /\ TermsOf[b].src \in ended' => b \in dead'
        BY <3>2, <3>3
      <4> QED BY <1>2, <3>2, <4>1, <4>2, <4>3, TrialsStep
    <3>5. RowsFirst' /\ BaseFirst' /\ CycleIsBounded'
      BY <1>1, <1>2, <1>3, <2>1, <2>2, <2>4, <3>1, <3>2, RowsStep
    <3> QED BY <3>4, <3>5 DEF CyclesInv
  <2> QED BY <2>3, <2>4
<1>10. CASE ReadUpgrade(s)
  <2>1. PICK pc \in {"done", "makeUp"} :
           /\ sync' = [sync EXCEPT ![s].pc = pc]
           /\ pc = "makeUp" => Exists(DirOf[s].base)
    BY <1>10 DEF ReadUpgrade
  <2>2. UNCHANGED <<ledger, upgrade>> /\ sync[s].pc \in Past /\ pc \in SyncPcs
    BY <1>10 DEF ReadUpgrade, SyncAt, Past, SyncPcs
  <2>3. \A t \in Syncs : sync'[t].pc = IF t = s THEN pc ELSE sync[t].pc
    BY <1>1, <2>1, SyncPcsMove
  <2> QED BY <1>4, <2>1, <2>2, <2>3
<1>11. CASE MakeUpgrade(s)
  <2>1. sync' = [sync EXCEPT ![s].pc = "done"] /\ sync[s].pc = "makeUp"
    BY <1>11 DEF MakeUpgrade, SyncAt
  <2>2. \A t \in Syncs : sync'[t].pc = IF t = s THEN "done" ELSE sync[t].pc
    BY <1>1, <2>1, SyncPcsMove
  <2>3. CASE ~Raises(DirOf[s])
    <3>1. UNCHANGED <<ledger, upgrade>>
      BY <1>11, <2>3 DEF MakeUpgrade
    <3>2. "done" \in SyncPcs /\ sync[s].pc \in Past
      BY <2>1 DEF SyncPcs, Past
    <3> QED BY <1>4, <2>2, <3>1, <3>2
  <2>4. CASE Raises(DirOf[s])
    <3>1. RowsFirst' /\ BaseFirst' /\ CycleIsBounded'
      BY <1>11, <2>4, RaiseCycles
    <3>2. \/ UNCHANGED ledger
          \/ CreateTx(DirOf[s].up, Supplement(DirOf[s]))
      BY <1>11, <2>4 DEF MakeUpgrade
    <3>3. DirOf[s].up \in Buckets
      BY DirectiveTerms
    <3>4. /\ ended' = ended /\ dead \subseteq dead'
          /\ \A b \in Buckets :
               \/ Exists(b)' => Exists(b)
               \/ TermsOf[b].kind = "plan_cycle" /\ TermsOf[b].src \in ended' => b \in dead'
      <4>1. CASE UNCHANGED ledger
        BY <4>1 DEF ledger, Exists
      <4>2. CASE CreateTx(DirOf[s].up, Supplement(DirOf[s]))
        BY <1>1, <3>3, <4>2, CreateTotals DEF Exists
      <4> QED BY <3>2, <4>1, <4>2
    <3>5. \A t \in Syncs : /\ sync'[t].pc \in Past => sync[t].pc \in Past
                           /\ sync'[t].pc \in Past \cup {"mark"} => sync[t].pc \in Past \cup {"mark"}
      BY <2>1, <2>2 DEF Past
    <3>6. EndedFirst' /\ TrialStaysEnded'
      BY <1>2, <3>4, <3>5, TrialsStep
    <3> QED BY <3>1, <3>6 DEF CyclesInv
  <2> QED BY <2>3, <2>4
<1>12. CASE SyncConflict(s)
  <2>0. /\ sync[s].pc \in {"insert", "mark", "makeBase", "makeUp"}
        /\ UNCHANGED <<ledger, upgrade>>
    BY <1>12 DEF SyncConflict
  <2>1. CASE sync[s].tries + 1 < MaxTries
    <3> DEFINE pc == CASE sync[s].pc = "mark" -> "insert" [] sync[s].pc = "makeUp" -> "readUp"
                       [] OTHER -> sync[s].pc
               tries == sync[s].tries + 1
    <3>1. sync' = [sync EXCEPT ![s].tries = tries, ![s].pc = pc]
      BY <1>1, <1>12, <2>1 DEF SyncConflict, SyncRecord
    <3>2. /\ pc \in SyncPcs /\ pc # "mark" /\ pc # "makeUp"
          /\ pc \in Past => sync[s].pc \in Past
      BY <2>0 DEF SyncPcs, Past
    <3> HIDE DEF pc, tries
    <3>3. \A t \in Syncs : sync'[t].pc = IF t = s THEN pc ELSE sync[t].pc
      BY <1>1, <3>1, SyncPcsMove
    <3> QED BY <1>4, <2>0, <3>2, <3>3
  <2>2. CASE ~(sync[s].tries + 1 < MaxTries)
    <3>1. sync' = [sync EXCEPT ![s].pc = "failed"]
      BY <1>12, <2>2 DEF SyncConflict
    <3>2. \A t \in Syncs : sync'[t].pc = IF t = s THEN "failed" ELSE sync[t].pc
      BY <1>1, <3>1, SyncPcsMove
    <3>3. "failed" \in SyncPcs /\ "failed" \notin Past
      BY DEF SyncPcs, Past
    <3> QED BY <1>4, <2>0, <3>2, <3>3
  <2> QED BY <2>1, <2>2
<1>13. CASE CutSync(s)
  <2>1. sync' = [sync EXCEPT ![s].pc = "failed"] /\ UNCHANGED <<ledger, upgrade>>
    BY <1>13 DEF CutSync
  <2>2. \A t \in Syncs : sync'[t].pc = IF t = s THEN "failed" ELSE sync[t].pc
    BY <1>1, <2>1, SyncPcsMove
  <2>3. "failed" \in SyncPcs /\ "failed" \notin Past
    BY DEF SyncPcs, Past
  <2> QED BY <1>4, <2>1, <2>2, <2>3
<1> QED BY <1>5, <1>6, <1>7, <1>8, <1>9, <1>10, <1>11, <1>12, <1>13 DEF SyncStep

LEMMA CyclesStart ==
    ASSUME Init
    PROVE  CyclesInv
<1>1. \A s \in Syncs : sync[s].pc = "idle"
  BY DEF Init, NoSync
<1>2. \A p \in Periods : upgrade[p] = NoUpgrade /\ ~HasRow(p)
  BY DEF Init, NoUpgrade, HasRow
<1>3. \A b \in Buckets : ~Exists(b)
  BY DEF Init, LedgerInit, NoBucket, Exists
<1>4. \A p \in Periods : UpBuckets(p) = {}
  BY <1>3, DirectiveTyped DEF UpBuckets
<1> QED BY <1>1, <1>2, <1>3, <1>4 DEF CyclesInv, EndedFirst, TrialStaysEnded, RowsFirst, BaseFirst,
                                       CycleIsBounded, Past

LEMMA CyclesStep ==
    ASSUME AllowanceInv, CyclesInv, [Next]_vars
    PROVE  CyclesInv'
<1>1. Facts
  BY DEF AllowanceInv, TypeOK, Facts, LedgerTyped
<1>2. CASE \E c \in Calls : CallStep(c) \/ CutCall(c)
  <2>1. PICK c \in Calls : CallStep(c) \/ CutCall(c)
    BY <1>2
  <2>2. PurseStep /\ CallFrame
    BY <2>1, QuietGood, BusyGood DEF CallStep
  <2>3. dead' = dead /\ ended' = ended /\ \A b \in Buckets : bucket'[b].total = bucket[b].total
    BY <1>1, <2>2, PurseTotals
  <2> QED BY <1>1, <2>2, <2>3, CyclesStill DEF CallFrame
<1>3. CASE \E s \in Syncs : SyncStep(s) \/ CutSync(s)
  BY <1>3, SyncCycles
<1>4. CASE \E b \in Buckets : Grant(b)
  <2>1. PICK b \in Buckets, n \in Sizes :
           TermsOf[b].kind # "plan_cycle" /\ ~Exists(b) /\ CreateTx(b, n)
    BY <1>4 DEF Grant
  <2>2. UNCHANGED <<sync, upgrade>> /\ n > 0
    BY <1>4, AllowanceAssumption DEF Grant
  <2>3. /\ \A y \in Buckets : bucket'[y].total = IF y = b THEN n ELSE bucket[y].total
        /\ ended' = ended /\ dead \subseteq dead'
    BY <1>1, <2>1, CreateTotals
  <2>4. \A s \in Syncs : b # DirOf[s].up
    BY <2>1, DirectiveTerms
  <2>5. \A y \in Buckets : y # b => (Exists(y)' => Exists(y))
    BY <2>3 DEF Exists
  <2>6. EndedFirst' /\ TrialStaysEnded'
    BY <2>1, <2>2, <2>3, <2>5, TrialsStep DEF CyclesInv
  <2>7. RowsFirst' /\ BaseFirst' /\ CycleIsBounded'
    BY <1>1, <2>1, <2>2, <2>3, <2>4, RowsStep DEF CyclesInv
  <2> QED BY <2>6, <2>7 DEF CyclesInv
<1>5. CASE SourceMoves \/ ClockTicks \/ UNCHANGED vars
  <2>1. UNCHANGED <<ledger, sync, upgrade>>
    BY <1>5 DEF SourceMoves, ClockTicks, Tick, vars
  <2> QED BY <1>1, <2>1, CyclesStill DEF ledger
<1> QED BY <1>2, <1>3, <1>4, <1>5 DEF Next

\* Whatever order the syncs of a workspace come in, and however they are cut, repeated and
\* retried: no bucket of a trial whose end has been confirmed is consumable, not even one that a
\* delayed sync creates, and a cycle is never given more than the highest target that was
\* confirmed in it, each unit of it in a bucket (terminateTrialSourceBuckets, syncUpgradeSupplement
\* and the event ai_late_trial_bucket).
THEOREM AllowanceCyclesKept == Spec => []CyclesKept
<1>1. AllowanceInv /\ CyclesInv /\ [Next]_vars => CyclesInv'
  BY CyclesStep
<1>2. CyclesInv => CyclesKept
  BY DEF CyclesInv, CyclesKept
<1>3. Init => CyclesInv
  BY CyclesStart
<1> QED BY <1>1, <1>2, <1>3, AllowanceInit, AllowanceStep, PTL DEF Spec
=============================================================================
