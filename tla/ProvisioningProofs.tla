------------------------- MODULE ProvisioningProofs -------------------------
(***************************************************************************)
(* Proofs about Provisioning, for every set of keys and requests and every *)
(* combination of disturbances. A request that works on a key that nobody  *)
(* has outlived holds the lease of its claim (Exclusive), so that what its *)
(* steps have reached in the workspace is still there at the next one      *)
(* (Staged), up to the transaction that makes the workspace active.        *)
(***************************************************************************)
EXTENDS Provisioning, FiniteSetTheorems, TLAPS

-----------------------------------------------------------------------------
(* The inductive invariant *)

\* Who may draw another name has a try left.
TriesLeft == \A c \in Calls : At(c, "reserve") => call[c].tries < MaxTries

\* A lease is that of a claim which is not active yet.
Leased == \A k \in Keys : claim[k].lease # None => claim[k].state = "provisioning"

\* The trial that runs is the one of the slot.
Slotted == \A k \in Keys : Running(k) => slot = k

\* Who is told that the trial runs, or is about to be, has it.
Settled ==
    \A c \in Calls :
        call[c].told = "active" \/ At(c, "done") => claim[KeyOf[c]].state = "active"

Ended == {"done", "finish"}
Working == Pcs \ ({"idle"} \cup Ended)

\* A request at work has the lease, until the claim is active.
Exclusive ==
    \A c \in Calls : KeyOf[c] \notin outlived /\ AtWork(c) =>
        \/ claim[KeyOf[c]].lease = c
        \/ claim[KeyOf[c]].state = "active" /\ call[c].pc \in Ended

IsActive(row) == row.by = "owner" /\ row.status = "active"

Matched == \A k \in Keys \ outlived : claim[k].state = "active" <=> IsActive(ws[k])

\* The steps of a request, from each on to the activation.
OnActivate == {"activate"}
OnGate == {"gate", "deliver"} \cup OnActivate
OnIndex == {"index"} \cup OnGate
OnOwner == {"owner"} \cup OnIndex
OnTemplate == {"template"} \cup OnOwner
OnApplied == {"applied"} \cup OnTemplate
OnLook == {"look", "rebuild", "read"} \cup OnApplied
OnInfo == {"info", "apply"} \cup OnLook
OnDefine == {"define"} \cup OnInfo
OnEntitle == {"entitle"} \cup OnDefine
OnSource == {"source"} \cup OnEntitle

\* What the workspace has when its request is at pc.
Reached(row, pc) ==
    /\ pc \in OnSource => row.by = "owner"
    /\ pc \in OnEntitle => row.source
    /\ pc \in OnDefine => row.entitled
    /\ pc \in OnInfo => row.db.state # "none"
    /\ pc \in OnLook => row.db.policy = "own"
    /\ pc \in OnApplied => row.db.ready
    /\ pc \in OnTemplate => row.applied /\ row.trusted
    /\ pc \in OnOwner => row.db.schema
    /\ pc \in OnIndex => row.db.owner
    /\ pc \in OnGate => row.index
    /\ pc \in OnActivate => row.given

Staged == \A c \in Calls : KeyOf[c] \notin outlived => Reached(Mine(c), call[c].pc)

IInv ==
    /\ TypeOK /\ TriesLeft /\ Leased /\ Slotted /\ Settled
    /\ Exclusive /\ Matched /\ Staged /\ ActiveIsWhole

-----------------------------------------------------------------------------
(* A step of a request in its workspace *)

CallRows ==
    [pc : Pcs, resumed : BOOLEAN, late : BOOLEAN, tries : 0..MaxTries,
     told : {None, "active", "pending", "refused", "failed"}]

ClaimRows ==
    [state : {"none", "provisioning", "active"}, lease : Calls \cup {None}, over : BOOLEAN]

\* A request at work on a key that nobody has outlived works alone, and its claim is not active.
LEMMA Alone ==
    ASSUME IInv, NEW c \in Calls, call[c].pc \in Working, KeyOf[c] \notin outlived
    PROVE  /\ claim[KeyOf[c]].lease = c /\ claim[KeyOf[c]].state = "provisioning"
           /\ ~IsActive(Mine(c))
           /\ \A d \in Calls : KeyOf[d] = KeyOf[c] /\ AtWork(d) => d = c
<1>1. KeyOf[c] \in Keys /\ AtWork(c) /\ call[c].pc \notin Ended
    BY ProvisioningAssumption DEF AtWork, Working
<1>2. claim[KeyOf[c]].lease = c
    BY <1>1 DEF IInv, Exclusive
<1>3. claim[KeyOf[c]].state = "provisioning"
    BY <1>1, <1>2, ProvisioningAssumption DEF IInv, Leased
<1>4. ~IsActive(Mine(c))
    BY <1>1, <1>3 DEF IInv, Matched, Mine
<1>5. ASSUME NEW d \in Calls, KeyOf[d] = KeyOf[c], AtWork(d) PROVE d = c
    BY <1>2, <1>3, <1>5 DEF IInv, Exclusive
<1> QED BY <1>2, <1>3, <1>4, <1>5

\* A step that writes row, and after which the request is r, keeps the invariant, if the workspace
\* has what r.pc requires and is not active.
LEMMA StepKeeps ==
    ASSUME IInv, NEW c \in Calls, NEW row \in Rows, NEW r \in CallRows,
           call[c].pc \in Working,
           ws' = [ws EXCEPT ![KeyOf[c]] = row], call' = [call EXCEPT ![c] = r],
           UNCHANGED <<eligible, slot, claim, outlived>>, troubles' \in 0..MaxTroubles,
           r.pc \notin {"idle", "done"}, r.told = call[c].told,
           r.pc = "reserve" => r.tries < MaxTries,
           KeyOf[c] \notin outlived => ~IsActive(row) /\ Reached(row, r.pc)
    PROVE  IInv'
<1> DEFINE k == KeyOf[c]
<1>0. k \in Keys /\ TypeOK /\ KeyOf \in [Calls -> Keys]
    BY ProvisioningAssumption DEF IInv
<1>1. /\ ws[k] \in Rows /\ ws' \in [Keys -> Rows] /\ ws'[k] = row
      /\ \A j \in Keys \ {k} : ws'[j] = ws[j]
    BY <1>0 DEF TypeOK
<1>2. call' \in [Calls -> CallRows] /\ call'[c] = r /\ \A d \in Calls \ {c} : call'[d] = call[d]
    BY <1>0 DEF TypeOK, CallRows
<1>3. TypeOK'
    BY <1>0, <1>1, <1>2 DEF TypeOK, CallRows
<1>4. TriesLeft'
    BY <1>2 DEF IInv, TriesLeft, At
<1>5. Leased' /\ Slotted'
    BY DEF IInv, Leased, Slotted, Running, Started
<1>6. Settled'
    BY <1>2 DEF IInv, Settled, At
<1>7. Exclusive'
    <2>1. ASSUME NEW d \in Calls, KeyOf[d] \notin outlived, call'[d].pc # "idle"
          PROVE  \/ claim[KeyOf[d]].lease = d
                 \/ claim[KeyOf[d]].state = "active" /\ call'[d].pc \in Ended
        <3>1. CASE d = c
            BY <2>1, <3>1, Alone
        <3>2. CASE d # c
            BY <1>2, <2>1, <3>2 DEF IInv, Exclusive, AtWork
        <3> QED BY <3>1, <3>2
    <2> QED BY <2>1 DEF Exclusive, AtWork
<1>8. Matched'
    <2>1. ASSUME NEW j \in Keys \ outlived
          PROVE  claim[j].state = "active" <=> IsActive(ws'[j])
        <3>1. CASE j = k
            BY <1>1, <3>1, Alone
        <3>2. CASE j # k
            BY <1>1, <3>2 DEF IInv, Matched
        <3> QED BY <3>1, <3>2
    <2> QED BY <2>1 DEF Matched, IsActive
<1>9. Staged'
    <2>1. ASSUME NEW d \in Calls, KeyOf[d] \notin outlived
          PROVE  Reached(ws'[KeyOf[d]], call'[d].pc)
        <3>1. CASE d = c
            BY <1>1, <1>2, <2>1, <3>1
        <3>2. CASE d # c /\ KeyOf[d] = k
            <4>1. call'[d].pc = "idle"
                BY <1>2, <2>1, <3>2, Alone DEF AtWork
            <4> QED BY <4>1 DEF Reached, OnSource, OnEntitle, OnDefine, OnInfo, OnLook, OnApplied,
                        OnTemplate, OnOwner, OnIndex, OnGate, OnActivate
        <3>3. CASE d # c /\ KeyOf[d] # k
            BY <1>0, <1>1, <1>2, <2>1, <3>3 DEF IInv, Staged, Mine
        <3> QED BY <3>1, <3>2, <3>3
    <2> QED BY <2>1 DEF Staged, Mine, Reached
<1>10. ActiveIsWhole'
    <2>1. ASSUME NEW j \in Keys \ outlived, IsActive(ws'[j]) PROVE Whole(ws'[j])
        <3>1. j # k
            BY <1>1, <2>1
        <3> QED BY <1>1, <2>1, <3>1 DEF IInv, ActiveIsWhole, IsActive
    <2> QED BY <2>1 DEF ActiveIsWhole, IsActive, Whole, GateOpens
<1> QED BY <1>3, <1>4, <1>5, <1>6, <1>7, <1>8, <1>9, <1>10 DEF IInv

Handlers == {"undo", "void", "drop", "finish", "reserve"}

\* The same of a query that may throw: its handlers ask for nothing.
LEMMA WritesKeeps ==
    ASSUME IInv, NEW c \in Calls, NEW row \in Rows, NEW next \in Pcs \ {"idle", "done"},
           NEW catch \in SUBSET Handlers, call[c].pc \in Working,
           Writes(c, row, next, catch),
           "reserve" \in {next} \cup catch => call[c].tries < MaxTries,
           KeyOf[c] \notin outlived => ~IsActive(row) /\ Reached(row, next)
    PROVE  IInv'
<1>0. KeyOf[c] \in Keys /\ Mine(c) \in Rows /\ call[c] \in CallRows
    BY ProvisioningAssumption DEF IInv, TypeOK, Mine, CallRows
<1>1. PICK row2 \in {row, Mine(c)}, pc \in {next} \cup catch :
        /\ ws' = [ws EXCEPT ![KeyOf[c]] = row2]
        /\ call' = [call EXCEPT ![c] = [call[c] EXCEPT !.pc = pc]]
        /\ pc \in catch \/ (row2 = row /\ pc = next)
    <2>1. CASE Becomes(c, row) /\ Goto(c, next)
        BY <2>1 DEF Becomes, Goto
    <2>2. CASE Becomes(c, row) /\ \E pc \in catch : Goto(c, pc)
        BY <2>2 DEF Becomes, Goto
    <2>3. CASE ws' = ws /\ \E pc \in catch : Goto(c, pc)
        <3>1. ws' = [ws EXCEPT ![KeyOf[c]] = Mine(c)]
            BY <2>3, <1>0 DEF Mine, IInv, TypeOK
        <3> QED BY <2>3, <3>1 DEF Goto
    <2> QED BY <2>1, <2>2, <2>3 DEF Writes
<1>2. troubles' \in 0..MaxTroubles /\ UNCHANGED <<eligible, slot, claim, outlived>>
    BY ProvisioningAssumption DEF Writes, Calm, Trouble, IInv, TypeOK
<1> DEFINE r == [call[c] EXCEPT !.pc = pc]
<1>3. r \in CallRows /\ r.pc = pc /\ r.tries = call[c].tries /\ r.told = call[c].told
    BY <1>0 DEF CallRows, Handlers, Pcs
<1>4. pc \notin {"idle", "done"}
    BY DEF Handlers
<1>5. KeyOf[c] \notin outlived => ~IsActive(row2) /\ Reached(row2, pc)
    <2>1. ASSUME KeyOf[c] \notin outlived PROVE ~IsActive(row2)
        BY <2>1, Alone
    <2>2. ASSUME pc \in Handlers PROVE Reached(row2, pc)
        BY <2>2 DEF Handlers, Reached, OnSource, OnEntitle, OnDefine, OnInfo, OnLook, OnApplied,
            OnTemplate, OnOwner, OnIndex, OnGate, OnActivate
    <2> QED BY <1>1, <2>1, <2>2
<1> HIDE DEF r
<1> QED BY <1>0, <1>1, <1>2, <1>3, <1>4, <1>5, StepKeeps DEF r

-----------------------------------------------------------------------------
(* The steps of the saga *)

\* What a request at work has got so far, if nobody has outlived it.
LEMMA SoFar ==
    ASSUME IInv, NEW c \in Calls, call[c].pc \in Working
    PROVE  /\ KeyOf[c] \in Keys /\ Mine(c) \in Rows /\ call[c] \in CallRows
           /\ KeyOf[c] \notin outlived => Mine(c).status # "active" \/ Mine(c).by # "owner"
           /\ KeyOf[c] \notin outlived => Reached(Mine(c), call[c].pc)
<1>1. KeyOf[c] \in Keys /\ Mine(c) \in Rows /\ call[c] \in CallRows
    BY ProvisioningAssumption DEF IInv, TypeOK, Mine, CallRows
<1>2. KeyOf[c] \notin outlived => Mine(c).status # "active" \/ Mine(c).by # "owner"
    BY Alone DEF IsActive
<1>3. KeyOf[c] \notin outlived => Reached(Mine(c), call[c].pc)
    BY DEF IInv, Staged
<1> QED BY <1>1, <1>2, <1>3

LEMMA SourceKeeps ==
    ASSUME IInv, NEW c \in Calls, Source(c) PROVE IInv'
<1> DEFINE row == [Mine(c) EXCEPT !.source = TRUE]
           next == IF call[c].late THEN "undo" ELSE "entitle"
<1>1. call[c].pc = "source" /\ call[c].pc \in Working
    BY DEF Source, At, Working, Pcs, Ended
<1>2. row \in Rows /\ next \in Pcs \ {"idle", "done"} /\ SagaCatch \in SUBSET Handlers
    BY <1>1, SoFar DEF Rows, Dbs, Pcs, Handlers, SagaCatch
<1>3. KeyOf[c] \notin outlived => ~IsActive(row) /\ Reached(row, next)
    BY <1>1, SoFar DEF Rows, Dbs, IsActive, Reached, OnSource, OnEntitle, OnDefine, OnInfo, OnLook,
        OnApplied, OnTemplate, OnOwner, OnIndex, OnGate, OnActivate
<1>4. Writes(c, row, next, SagaCatch)
    BY DEF Source
<1> HIDE DEF row, next
<1>5. "reserve" \notin {next} \cup SagaCatch
    BY DEF next, SagaCatch
<1> QED BY <1>1, <1>2, <1>3, <1>4, <1>5, WritesKeeps

LEMMA EntitleKeeps ==
    ASSUME IInv, NEW c \in Calls, Entitle(c) PROVE IInv'
<1> DEFINE row == [Mine(c) EXCEPT !.entitled = TRUE, !.status = "provisioning"]
           next == "define"
<1>1. call[c].pc = "entitle" /\ call[c].pc \in Working
    BY DEF Entitle, At, Working, Pcs, Ended
<1>2. row \in Rows /\ next \in Pcs \ {"idle", "done"} /\ SagaCatch \in SUBSET Handlers
    BY <1>1, SoFar DEF Rows, Dbs, Pcs, Handlers, SagaCatch
<1>3. KeyOf[c] \notin outlived => ~IsActive(row) /\ Reached(row, next)
    BY <1>1, SoFar DEF Rows, Dbs, IsActive, Reached, OnSource, OnEntitle, OnDefine, OnInfo, OnLook,
        OnApplied, OnTemplate, OnOwner, OnIndex, OnGate, OnActivate
<1>4. Writes(c, row, next, SagaCatch)
    BY DEF Entitle
<1> HIDE DEF row, next
<1>5. "reserve" \notin {next} \cup SagaCatch
    BY DEF next, SagaCatch
<1> QED BY <1>1, <1>2, <1>3, <1>4, <1>5, WritesKeeps

\* The row of a released reservation, and the row of a new one.
LEMMA NewRows ==
    ASSUME IInv, NEW c \in Calls, NEW db \in Dbs
    PROVE  /\ Subscribed(KeyOf[c]) \in BOOLEAN
           /\ NewRow(c, db) \in Rows /\ ~IsActive(NewRow(c, db))
           /\ Reached(NewRow(c, db), "source") /\ Reached(NewRow(c, db), "finish")
<1>1. Mine(c).left \in BOOLEAN /\ Mine(c).source \in BOOLEAN
    BY ProvisioningAssumption DEF IInv, TypeOK, Mine, Rows
<1>2. Subscribed(KeyOf[c]) \in BOOLEAN
    BY <1>1 DEF Subscribed, Mine
<1>3. NewRow(c, db) \in Rows
    <2>1. NoWs \in Rows
        BY DEF Rows, Dbs, NoWs, NoDb
    <2> QED BY <1>1, <2>1 DEF NewRow, Rows
<1>4. NewRow(c, db).status = "provisioning" /\ NewRow(c, db).by = "owner"
    BY DEF NewRow, NoWs
<1> QED
    BY <1>2, <1>3, <1>4 DEF IsActive, Reached, OnSource, OnEntitle, OnDefine, OnInfo, OnLook,
        OnApplied, OnTemplate, OnOwner, OnIndex, OnGate, OnActivate

LEMMA ReleaseKeeps ==
    ASSUME IInv, NEW c \in Calls, Release(c) PROVE IInv'
<1> DEFINE row == [NoWs EXCEPT !.left = Subscribed(KeyOf[c])]
           next == Again(c)
<1>1. call[c].pc = "release" /\ call[c].pc \in Working
    BY DEF Release, At, Working, Pcs, Ended
<1>2. row \in Rows /\ next \in Pcs \ {"idle", "done"} /\ {Again(c)} \in SUBSET Handlers
    <2>1. NoDb \in Dbs /\ NoWs \in Rows
        BY DEF Rows, Dbs, NoWs, NoDb
    <2>2. row \in Rows
        BY <2>1, NewRows DEF Rows
    <2> QED BY <2>2 DEF Pcs, Handlers, Again
<1>3. KeyOf[c] \notin outlived => ~IsActive(row) /\ Reached(row, next)
    BY <1>1, SoFar DEF Rows, Dbs, IsActive, Again, NoWs, Reached, OnSource, OnEntitle, OnDefine, OnInfo, OnLook,
        OnApplied, OnTemplate, OnOwner, OnIndex, OnGate, OnActivate
<1>4. Writes(c, row, next, {Again(c)})
    BY DEF Release
<1>5. "reserve" \in {next} \cup {Again(c)} => call[c].tries < MaxTries
    BY DEF Again
<1> QED BY <1>1, <1>2, <1>3, <1>4, <1>5, WritesKeeps

LEMMA InfoKeeps ==
    ASSUME IInv, NEW c \in Calls, Info(c) PROVE IInv'
<1> DEFINE row == Mine(c)
           next == CASE Mine(c).db.policy = "none" -> "apply"
                     [] Mine(c).db.policy = "other" -> "undo"
                     [] OTHER -> "look"
<1>1. call[c].pc = "info" /\ call[c].pc \in Working
    BY DEF Info, At, Working, Pcs, Ended
<1>2. row \in Rows /\ next \in Pcs \ {"idle", "done"} /\ NativeCatch \in SUBSET Handlers
    BY <1>1, SoFar DEF Rows, Dbs, Pcs, Handlers, NativeCatch
<1>3. KeyOf[c] \notin outlived => ~IsActive(row) /\ Reached(row, next)
    BY <1>1, SoFar DEF Rows, Dbs, IsActive, Reached, OnSource, OnEntitle, OnDefine, OnInfo, OnLook,
        OnApplied, OnTemplate, OnOwner, OnIndex, OnGate, OnActivate
<1>4. Writes(c, row, next, NativeCatch)
    BY DEF Info
<1> HIDE DEF row, next
<1>5. "reserve" \notin {next} \cup NativeCatch
    BY DEF next, NativeCatch
<1> QED BY <1>1, <1>2, <1>3, <1>4, <1>5, WritesKeeps

LEMMA ApplyKeeps ==
    ASSUME IInv, NEW c \in Calls, Apply(c) PROVE IInv'
<1> DEFINE row == [Mine(c) EXCEPT !.db.policy = "own"]
           next == "look"
<1>1. call[c].pc = "apply" /\ call[c].pc \in Working
    BY DEF Apply, At, Working, Pcs, Ended
<1>2. row \in Rows /\ next \in Pcs \ {"idle", "done"} /\ NativeCatch \in SUBSET Handlers
    BY <1>1, SoFar DEF Rows, Dbs, Pcs, Handlers, NativeCatch
<1>3. KeyOf[c] \notin outlived => ~IsActive(row) /\ Reached(row, next)
    BY <1>1, SoFar DEF Rows, Dbs, IsActive, Reached, OnSource, OnEntitle, OnDefine, OnInfo, OnLook,
        OnApplied, OnTemplate, OnOwner, OnIndex, OnGate, OnActivate
<1>4. Writes(c, row, next, NativeCatch)
    BY DEF Apply
<1> HIDE DEF row, next
<1>5. "reserve" \notin {next} \cup NativeCatch
    BY DEF next, NativeCatch
<1> QED BY <1>1, <1>2, <1>3, <1>4, <1>5, WritesKeeps

LEMMA LookKeeps ==
    ASSUME IInv, NEW c \in Calls, Look(c) PROVE IInv'
<1> DEFINE row == Mine(c)
           next == IF Mine(c).db.ready THEN "read" ELSE "rebuild"
<1>1. call[c].pc = "look" /\ call[c].pc \in Working
    BY DEF Look, At, Working, Pcs, Ended
<1>2. row \in Rows /\ next \in Pcs \ {"idle", "done"} /\ NativeCatch \in SUBSET Handlers
    BY <1>1, SoFar DEF Rows, Dbs, Pcs, Handlers, NativeCatch
<1>3. KeyOf[c] \notin outlived => ~IsActive(row) /\ Reached(row, next)
    BY <1>1, SoFar DEF Rows, Dbs, IsActive, Reached, OnSource, OnEntitle, OnDefine, OnInfo, OnLook,
        OnApplied, OnTemplate, OnOwner, OnIndex, OnGate, OnActivate
<1>4. Writes(c, row, next, NativeCatch)
    BY DEF Look
<1> HIDE DEF row, next
<1>5. "reserve" \notin {next} \cup NativeCatch
    BY DEF next, NativeCatch
<1> QED BY <1>1, <1>2, <1>3, <1>4, <1>5, WritesKeeps

LEMMA ReadKeeps ==
    ASSUME IInv, NEW c \in Calls, Read(c) PROVE IInv'
<1> DEFINE row == Mine(c)
           next == IF ReadBack(Mine(c).db) THEN "applied" ELSE "undo"
<1>1. call[c].pc = "read" /\ call[c].pc \in Working
    BY DEF Read, At, Working, Pcs, Ended
<1>2. row \in Rows /\ next \in Pcs \ {"idle", "done"} /\ NativeCatch \in SUBSET Handlers
    BY <1>1, SoFar DEF Rows, Dbs, Pcs, Handlers, NativeCatch
<1>3. KeyOf[c] \notin outlived => ~IsActive(row) /\ Reached(row, next)
    BY <1>1, SoFar DEF Rows, Dbs, IsActive, ReadBack, Reached, OnSource, OnEntitle, OnDefine, OnInfo, OnLook,
        OnApplied, OnTemplate, OnOwner, OnIndex, OnGate, OnActivate
<1>4. Writes(c, row, next, NativeCatch)
    BY DEF Read
<1> HIDE DEF row, next
<1>5. "reserve" \notin {next} \cup NativeCatch
    BY DEF next, NativeCatch
<1> QED BY <1>1, <1>2, <1>3, <1>4, <1>5, WritesKeeps

LEMMA TemplateKeeps ==
    ASSUME IInv, NEW c \in Calls, Template(c) PROVE IInv'
<1> DEFINE row == [Mine(c) EXCEPT !.db.schema = TRUE]
           next == "owner"
<1>1. call[c].pc = "template" /\ call[c].pc \in Working
    BY DEF Template, At, Working, Pcs, Ended
<1>2. row \in Rows /\ next \in Pcs \ {"idle", "done"} /\ {"undo"} \in SUBSET Handlers
    BY <1>1, SoFar DEF Rows, Dbs, Pcs, Handlers
<1>3. KeyOf[c] \notin outlived => ~IsActive(row) /\ Reached(row, next)
    BY <1>1, SoFar DEF Rows, Dbs, IsActive, Reached, OnSource, OnEntitle, OnDefine, OnInfo, OnLook,
        OnApplied, OnTemplate, OnOwner, OnIndex, OnGate, OnActivate
<1>4. Writes(c, row, next, {"undo"})
    BY DEF Template
<1> HIDE DEF row, next
<1>5. "reserve" \notin {next} \cup {"undo"}
    BY DEF next
<1> QED BY <1>1, <1>2, <1>3, <1>4, <1>5, WritesKeeps

LEMMA OwnerKeeps ==
    ASSUME IInv, NEW c \in Calls, Owner(c) PROVE IInv'
<1> DEFINE row == [Mine(c) EXCEPT !.db.owner = TRUE]
           next == "index"
<1>1. call[c].pc = "owner" /\ call[c].pc \in Working
    BY DEF Owner, At, Working, Pcs, Ended
<1>2. row \in Rows /\ next \in Pcs \ {"idle", "done"} /\ {"undo"} \in SUBSET Handlers
    BY <1>1, SoFar DEF Rows, Dbs, Pcs, Handlers
<1>3. KeyOf[c] \notin outlived => ~IsActive(row) /\ Reached(row, next)
    BY <1>1, SoFar DEF Rows, Dbs, IsActive, Reached, OnSource, OnEntitle, OnDefine, OnInfo, OnLook,
        OnApplied, OnTemplate, OnOwner, OnIndex, OnGate, OnActivate
<1>4. Writes(c, row, next, {"undo"})
    BY DEF Owner
<1> HIDE DEF row, next
<1>5. "reserve" \notin {next} \cup {"undo"}
    BY DEF next
<1> QED BY <1>1, <1>2, <1>3, <1>4, <1>5, WritesKeeps

LEMMA IndexKeeps ==
    ASSUME IInv, NEW c \in Calls, Index(c) PROVE IInv'
<1> DEFINE row == [Mine(c) EXCEPT !.index = TRUE]
           next == "gate"
<1>1. call[c].pc = "index" /\ call[c].pc \in Working
    BY DEF Index, At, Working, Pcs, Ended
<1>2. row \in Rows /\ next \in Pcs \ {"idle", "done"} /\ {"undo"} \in SUBSET Handlers
    BY <1>1, SoFar DEF Rows, Dbs, Pcs, Handlers
<1>3. KeyOf[c] \notin outlived => ~IsActive(row) /\ Reached(row, next)
    BY <1>1, SoFar DEF Rows, Dbs, IsActive, Reached, OnSource, OnEntitle, OnDefine, OnInfo, OnLook,
        OnApplied, OnTemplate, OnOwner, OnIndex, OnGate, OnActivate
<1>4. Writes(c, row, next, {"undo"})
    BY DEF Index
<1> HIDE DEF row, next
<1>5. "reserve" \notin {next} \cup {"undo"}
    BY DEF next
<1> QED BY <1>1, <1>2, <1>3, <1>4, <1>5, WritesKeeps

LEMMA GateKeeps ==
    ASSUME IInv, NEW c \in Calls, Gate(c) PROVE IInv'
<1> DEFINE row == Mine(c)
           next == IF GateOpens(Mine(c)) THEN "deliver" ELSE "undo"
<1>1. call[c].pc = "gate" /\ call[c].pc \in Working
    BY DEF Gate, At, Working, Pcs, Ended
<1>2. row \in Rows /\ next \in Pcs \ {"idle", "done"} /\ {"finish"} \in SUBSET Handlers
    BY <1>1, SoFar DEF Rows, Dbs, Pcs, Handlers
<1>3. KeyOf[c] \notin outlived => ~IsActive(row) /\ Reached(row, next)
    BY <1>1, SoFar DEF Rows, Dbs, IsActive, GateOpens, Reached, OnSource, OnEntitle, OnDefine, OnInfo, OnLook,
        OnApplied, OnTemplate, OnOwner, OnIndex, OnGate, OnActivate
<1>4. Writes(c, row, next, {"finish"})
    BY DEF Gate
<1> HIDE DEF row, next
<1>5. "reserve" \notin {next} \cup {"finish"}
    BY DEF next
<1> QED BY <1>1, <1>2, <1>3, <1>4, <1>5, WritesKeeps

LEMMA DeliverKeeps ==
    ASSUME IInv, NEW c \in Calls, Deliver(c) PROVE IInv'
<1> DEFINE row == [Mine(c) EXCEPT !.given = @ \/ ~claim[KeyOf[c]].over]
           next == IF Fenced(c) THEN "activate" ELSE "undo"
<1>1. call[c].pc = "deliver" /\ call[c].pc \in Working
    BY DEF Deliver, At, Working, Pcs, Ended
<1>2. row \in Rows /\ next \in Pcs \ {"idle", "done"} /\ {"undo"} \in SUBSET Handlers
    BY <1>1, SoFar DEF Rows, Dbs, Pcs, Handlers
<1>3. KeyOf[c] \notin outlived => ~IsActive(row) /\ Reached(row, next)
    BY <1>1, SoFar DEF Rows, Dbs, IsActive, Fenced, Reached, OnSource, OnEntitle, OnDefine, OnInfo, OnLook,
        OnApplied, OnTemplate, OnOwner, OnIndex, OnGate, OnActivate
<1>4. Writes(c, row, next, {"undo"})
    BY DEF Deliver
<1> HIDE DEF row, next
<1>5. "reserve" \notin {next} \cup {"undo"}
    BY DEF next
<1> QED BY <1>1, <1>2, <1>3, <1>4, <1>5, WritesKeeps

LEMMA DropKeeps ==
    ASSUME IInv, NEW c \in Calls, Drop(c) PROVE IInv'
<1> DEFINE row == [Mine(c) EXCEPT !.db = NoDb]
           next == "finish"
<1>1. call[c].pc = "drop" /\ call[c].pc \in Working
    BY DEF Drop, At, Working, Pcs, Ended
<1>2. row \in Rows /\ next \in Pcs \ {"idle", "done"} /\ {"finish"} \in SUBSET Handlers
    BY <1>1, SoFar DEF Rows, Dbs, Pcs, Handlers, NoDb
<1>3. KeyOf[c] \notin outlived => ~IsActive(row) /\ Reached(row, next)
    BY <1>1, SoFar DEF Rows, Dbs, IsActive, Reached, OnSource, OnEntitle, OnDefine, OnInfo, OnLook,
        OnApplied, OnTemplate, OnOwner, OnIndex, OnGate, OnActivate
<1>4. Writes(c, row, next, {"finish"})
    BY DEF Drop
<1> HIDE DEF row, next
<1>5. "reserve" \notin {next} \cup {"finish"}
    BY DEF next
<1> QED BY <1>1, <1>2, <1>3, <1>4, <1>5, WritesKeeps

LEMMA DefineKeeps ==
    ASSUME IInv, NEW c \in Calls, Define(c) PROVE IInv'
<1>1. call[c].pc = "define" /\ call[c].pc \in Working
    BY DEF Define, At, Working, Pcs, Ended
<1>2. SagaCatch \in SUBSET Handlers /\ "reserve" \notin SagaCatch
    BY DEF SagaCatch, Handlers
<1>3. CASE Mine(c).db.state = "none"
    <2> DEFINE row == [Mine(c) EXCEPT !.db = [NoDb EXCEPT !.state = "made"]]
    <2>1. row \in Rows /\ "info" \in Pcs \ {"idle", "done"}
        BY <1>1, SoFar DEF Rows, Dbs, NoDb, Pcs
    <2>2. KeyOf[c] \notin outlived => ~IsActive(row) /\ Reached(row, "info")
        BY <1>1, SoFar DEF Rows, Dbs, NoDb, IsActive, Reached, OnSource, OnEntitle, OnDefine, OnInfo, OnLook,
        OnApplied, OnTemplate, OnOwner, OnIndex, OnGate, OnActivate
    <2>3. Writes(c, row, "info", SagaCatch)
        BY <1>3 DEF Define
    <2> HIDE DEF row
    <2> QED BY <1>1, <1>2, <2>1, <2>2, <2>3, WritesKeeps
<1>4. CASE Mine(c).db.state # "none"
    <2> DEFINE next == IF call[c].resumed THEN "info" ELSE "release"
    <2>1. Mine(c) \in Rows /\ next \in Pcs \ {"idle", "done", "reserve"}
        BY <1>1, SoFar DEF Pcs
    <2>2. KeyOf[c] \notin outlived => ~IsActive(Mine(c)) /\ Reached(Mine(c), next)
        BY <1>1, <1>4, SoFar DEF IsActive, Reached, OnSource, OnEntitle, OnDefine, OnInfo, OnLook,
        OnApplied, OnTemplate, OnOwner, OnIndex, OnGate, OnActivate
    <2>3. Writes(c, Mine(c), next, SagaCatch)
        BY <1>4 DEF Define
    <2> HIDE DEF next
    <2> QED BY <1>1, <1>2, <2>1, <2>2, <2>3, WritesKeeps
<1> QED BY <1>3, <1>4

LEMMA UndoKeeps ==
    ASSUME IInv, NEW c \in Calls, Undo(c) PROVE IInv'
<1> DEFINE row == [Mine(c) EXCEPT !.status = "error"]
           next == IF At(c, "void") THEN "drop" ELSE "finish"
<1>1. call[c].pc \in {"undo", "void"} /\ call[c].pc \in Working
    BY DEF Undo, Working, Pcs, Ended
<1>2. row \in Rows /\ next \in Pcs \ {"idle", "done"} /\ {next} \in SUBSET Handlers
    BY <1>1, SoFar DEF Rows, Pcs, Handlers
<1>3. KeyOf[c] \notin outlived => ~IsActive(row) /\ Reached(row, next)
    BY <1>1, SoFar DEF Rows, IsActive, Reached, OnSource, OnEntitle, OnDefine, OnInfo, OnLook,
        OnApplied, OnTemplate, OnOwner, OnIndex, OnGate, OnActivate
<1>4. Writes(c, row, next, {next})
    BY DEF Undo
<1>5. "reserve" # next
    OBVIOUS
<1> HIDE DEF row, next
<1> QED BY <1>1, <1>2, <1>3, <1>4, <1>5, WritesKeeps

\* A step that writes row and goes on at pc.
LEMMA MovesKeeps ==
    ASSUME IInv, NEW c \in Calls, NEW row \in Rows, NEW pc \in Pcs \ {"idle", "done", "reserve"},
           call[c].pc \in Working, ws' = [ws EXCEPT ![KeyOf[c]] = row], Goto(c, pc),
           UNCHANGED <<eligible, slot, claim, outlived>>, troubles' \in 0..MaxTroubles,
           KeyOf[c] \notin outlived => ~IsActive(row) /\ Reached(row, pc)
    PROVE  IInv'
<1> DEFINE r == [call[c] EXCEPT !.pc = pc]
<1>1. r \in CallRows /\ r.pc = pc /\ r.told = call[c].told
    BY SoFar DEF CallRows
<1>2. call' = [call EXCEPT ![c] = r]
    BY DEF Goto
<1> HIDE DEF r
<1> QED BY <1>1, <1>2, StepKeeps

LEMMA TroubleCounts ==
    ASSUME IInv, NEW what, Trouble(what) \/ Calm PROVE troubles' \in 0..MaxTroubles
BY ProvisioningAssumption DEF Trouble, Calm, IInv, TypeOK

LEMMA RebuildKeeps ==
    ASSUME IInv, NEW c \in Calls, Rebuild(c) PROVE IInv'
<1> DEFINE row == [Mine(c) EXCEPT !.db.ready = TRUE]
<1>1. call[c].pc = "rebuild" /\ call[c].pc \in Working
    BY DEF Rebuild, At, Working, Pcs, Ended
<1>2. CASE Writes(c, row, "read", NativeCatch)
    <2>1. row \in Rows /\ "read" \in Pcs \ {"idle", "done"}
        BY <1>1, SoFar DEF Rows, Dbs, Pcs
    <2>2. KeyOf[c] \notin outlived => ~IsActive(row) /\ Reached(row, "read")
        BY <1>1, SoFar DEF Rows, Dbs, IsActive, Reached, OnSource, OnEntitle, OnDefine, OnInfo, OnLook,
        OnApplied, OnTemplate, OnOwner, OnIndex, OnGate, OnActivate
    <2>3. NativeCatch \in SUBSET Handlers /\ "reserve" \notin {"read"} \cup NativeCatch
        BY DEF NativeCatch, Handlers
    <2> HIDE DEF row
    <2> QED BY <1>1, <1>2, <2>1, <2>2, <2>3, WritesKeeps
<1>3. CASE Trouble("unready") /\ Goto(c, "read") /\ UNCHANGED <<eligible, slot, claim, ws, outlived>>
    <2>1. Mine(c) \in Rows /\ "read" \in Pcs \ {"idle", "done", "reserve"}
        BY <1>1, SoFar DEF Pcs
    <2>2. KeyOf[c] \notin outlived => ~IsActive(Mine(c)) /\ Reached(Mine(c), "read")
        BY <1>1, SoFar DEF IsActive, Reached, OnSource, OnEntitle, OnDefine, OnInfo, OnLook,
        OnApplied, OnTemplate, OnOwner, OnIndex, OnGate, OnActivate
    <2>3. ws' = [ws EXCEPT ![KeyOf[c]] = Mine(c)]
        BY <1>1, <1>3, SoFar DEF IInv, TypeOK, Mine
    <2> QED BY <1>1, <1>3, <2>1, <2>2, <2>3, MovesKeeps, TroubleCounts
<1> QED BY <1>2, <1>3 DEF Rebuild

LEMMA AppliedKeeps ==
    ASSUME IInv, NEW c \in Calls, Applied(c) PROVE IInv'
<1> DEFINE half == [Mine(c) EXCEPT !.applied = TRUE]
           row == [half EXCEPT !.trusted = TRUE, !.status = "provisioning"]
<1>1. call[c].pc = "applied" /\ call[c].pc \in Working
    BY DEF Applied, At, Working, Pcs, Ended
<1>2. CASE Writes(c, row, "template", SagaCatch)
    <2>1. row \in Rows /\ "template" \in Pcs \ {"idle", "done"}
        BY <1>1, SoFar DEF Rows, Pcs
    <2>2. KeyOf[c] \notin outlived => ~IsActive(row) /\ Reached(row, "template")
        BY <1>1, SoFar DEF Rows, IsActive, Reached, OnSource, OnEntitle, OnDefine, OnInfo, OnLook,
        OnApplied, OnTemplate, OnOwner, OnIndex, OnGate, OnActivate
    <2>3. SagaCatch \in SUBSET Handlers /\ "reserve" \notin {"template"} \cup SagaCatch
        BY DEF SagaCatch, Handlers
    <2> HIDE DEF row
    <2> QED BY <1>1, <1>2, <2>1, <2>2, <2>3, WritesKeeps
<1>3. CASE /\ Trouble("query") /\ Becomes(c, half) /\ Goto(c, "undo")
           /\ UNCHANGED <<eligible, slot, claim, outlived>>
    <2>1. half \in Rows /\ "undo" \in Pcs \ {"idle", "done", "reserve"}
        BY <1>1, SoFar DEF Rows, Pcs
    <2>2. KeyOf[c] \notin outlived => ~IsActive(half) /\ Reached(half, "undo")
        BY <1>1, SoFar DEF Rows, IsActive, Reached, OnSource, OnEntitle, OnDefine, OnInfo, OnLook,
        OnApplied, OnTemplate, OnOwner, OnIndex, OnGate, OnActivate
    <2> HIDE DEF half
    <2> QED BY <1>1, <1>3, <2>1, <2>2, MovesKeeps, TroubleCounts DEF Becomes
<1> QED BY <1>2, <1>3 DEF Applied

\* The databases a name may be that of.
NoDbs == {NoDb} \cup {[NoDb EXCEPT !.state = "foreign", !.policy = p] : p \in {"none", "other"}}

LEMMA ReserveKeeps ==
    ASSUME IInv, NEW c \in Calls, Reserve(c) PROVE IInv'
<1> DEFINE r(next) == [call[c] EXCEPT !.pc = next, !.resumed = (Mine(c).by = "owner"),
                                      !.late = claim[KeyOf[c]].over, !.tries = call[c].tries + 1]
<1>1. call[c].pc = "reserve" /\ call[c].pc \in Working /\ call[c].tries < MaxTries
    BY DEF Reserve, At, Working, Pcs, Ended, IInv, TriesLeft
<1>2. KeyOf[c] \in Keys /\ claim[KeyOf[c]].over \in BOOLEAN
    BY <1>1, SoFar DEF IInv, TypeOK
<1>3. ASSUME NEW next \in {"source", "finish"}
      PROVE  r(next) \in CallRows /\ r(next).pc = next /\ r(next).told = call[c].told
    <2>1. call[c].tries + 1 \in 0..MaxTries
        BY <1>1, SoFar, ProvisioningAssumption DEF CallRows
    <2>2. next \in Pcs /\ (Mine(c).by = "owner") \in BOOLEAN
        BY DEF Pcs
    <2> QED BY <1>1, <1>2, <2>1, <2>2, SoFar DEF CallRows
<1>4. ASSUME NEW next, Reserved(c, next) PROVE call' = [call EXCEPT ![c] = r(next)]
    BY <1>4 DEF Reserved
<1>5. UNCHANGED <<eligible, slot, claim, outlived>>
    BY DEF Reserve
<1> HIDE DEF r
<1>6. CASE Mine(c).by = "nobody"
    <2>1. PICK foreign \in BOOLEAN, db \in NoDbs :
            /\ Becomes(c, NewRow(c, db))
            /\ Reserved(c, "source")
            /\ Trouble("collision") \/ Calm
        BY <1>6 DEF Reserve, Drawn, NoDbs
    <2> DEFINE row == NewRow(c, db)
    <2>2. db \in Dbs
        <3>1. NoDb \in Dbs
            BY DEF Dbs, NoDb
        <3> QED BY <3>1 DEF Dbs, NoDbs
    <2>3. row \in Rows /\ ~IsActive(row) /\ Reached(row, "source")
        BY <2>2, NewRows
    <2>4. ws' = [ws EXCEPT ![KeyOf[c]] = row]
        BY <2>1 DEF Becomes
    <2> HIDE DEF row
    <2> QED BY <1>1, <1>3, <1>4, <1>5, <2>1, <2>2, <2>3, <2>4, StepKeeps, TroubleCounts
<1>7. CASE Mine(c).by # "nobody"
    <2> DEFINE next == IF Resumable(Mine(c)) THEN "source" ELSE "finish"
    <2>1. Reserved(c, next) /\ UNCHANGED <<ws, troubles>>
        BY <1>7 DEF Reserve
    <2>2. KeyOf[c] \notin outlived => ~IsActive(Mine(c)) /\ Reached(Mine(c), next)
        BY <1>1, SoFar DEF Resumable, IsActive, Reached, OnSource, OnEntitle, OnDefine, OnInfo, OnLook,
        OnApplied, OnTemplate, OnOwner, OnIndex, OnGate, OnActivate
    <2>3. Mine(c) \in Rows /\ ws' = [ws EXCEPT ![KeyOf[c]] = Mine(c)]
        BY <1>1, <2>1, SoFar DEF IInv, TypeOK, Mine
    <2>4. troubles' \in 0..MaxTroubles
        BY <2>1 DEF IInv, TypeOK
    <2>5. next \in {"source", "finish"}
        OBVIOUS
    <2> HIDE DEF next
    <2>6. r(next) \in CallRows /\ r(next).pc = next /\ r(next).told = call[c].told
        BY <1>3, <2>5
    <2>7. call' = [call EXCEPT ![c] = r(next)]
        BY <1>4, <2>1
    <2> QED BY <1>1, <1>5, <2>2, <2>3, <2>4, <2>5, <2>6, <2>7, StepKeeps
<1> QED BY <1>6, <1>7

LEMMA ReserveThrowsKeeps ==
    ASSUME IInv, NEW c \in Calls, ReserveThrows(c) PROVE IInv'
<1> DEFINE row == NewRow(c, NoDb)
<1>1. call[c].pc = "reserve" /\ call[c].pc \in Working
    BY DEF ReserveThrows, At, Working, Pcs, Ended
<1>2. PICK row2 \in {Mine(c), row} : ws' = [ws EXCEPT ![KeyOf[c]] = row2]
    BY <1>1, SoFar DEF ReserveThrows, Becomes, Mine, IInv, TypeOK
<1>3. row2 \in Rows /\ "finish" \in Pcs \ {"idle", "done", "reserve"}
    <2>1. NoDb \in Dbs
        BY DEF Dbs, NoDb
    <2>2. row \in Rows
        BY <2>1, NewRows
    <2> HIDE DEF row
    <2> QED BY <1>1, <2>2, SoFar DEF Pcs
<1>4. KeyOf[c] \notin outlived => ~IsActive(row2) /\ Reached(row2, "finish")
    <2>1. NoDb \in Dbs
        BY DEF Dbs, NoDb
    <2>2. ~IsActive(row) /\ Reached(row, "finish")
        BY <2>1, NewRows
    <2> HIDE DEF row
    <2> QED BY <1>1, <2>2, SoFar DEF IsActive, Reached, OnSource, OnEntitle, OnDefine, OnInfo, OnLook,
        OnApplied, OnTemplate, OnOwner, OnIndex, OnGate, OnActivate
<1> HIDE DEF row
<1> QED BY <1>1, <1>2, <1>3, <1>4, MovesKeeps, TroubleCounts DEF ReserveThrows

-----------------------------------------------------------------------------
(* The claim, the activation and the end *)

\* What the fields of a claim and of a request are.
LEMMA Typed ==
    ASSUME IInv
    PROVE  /\ KeyOf \in [Calls -> Keys] /\ claim \in [Keys -> ClaimRows]
           /\ call \in [Calls -> CallRows] /\ ws \in [Keys -> Rows]
           /\ None \notin Calls \cup Keys \cup {"active"}
BY ProvisioningAssumption DEF IInv, TypeOK, ClaimRows, CallRows

\* A request that is told its answer while nothing else moves keeps the invariant.
LEMMA TellsKeeps ==
    ASSUME IInv, NEW c \in Calls, NEW answer \in {None, "active", "pending", "refused", "failed"},
           Tells(c, answer), answer = "active" => claim[KeyOf[c]].state = "active",
           UNCHANGED <<eligible, slot, claim, ws, outlived>>, troubles' \in 0..MaxTroubles
    PROVE  IInv'
<1> DEFINE r == [call[c] EXCEPT !.pc = "idle", !.told = answer]
<1>1. r \in CallRows /\ r.pc = "idle" /\ r.told = answer
    BY Typed DEF CallRows, Pcs
<1>2. call' = [call EXCEPT ![c] = r]
    BY DEF Tells
<1> HIDE DEF r
<1>3. call' \in [Calls -> CallRows] /\ call'[c] = r /\ \A d \in Calls \ {c} : call'[d] = call[d]
    BY <1>1, <1>2, Typed
<1>4. TypeOK'
    BY <1>3 DEF IInv, TypeOK, CallRows
<1>5. TriesLeft' /\ Leased' /\ Slotted' /\ Matched' /\ ActiveIsWhole'
    BY <1>1, <1>3 DEF IInv, TriesLeft, Leased, Slotted, Matched, ActiveIsWhole, IsActive, Running,
        Started, At, Whole, GateOpens
<1>6. Settled'
    BY <1>1, <1>3 DEF IInv, Settled, At
<1>7. Exclusive'
    BY <1>1, <1>3 DEF IInv, Exclusive, AtWork
<1>8. Staged'
    <2>1. ASSUME NEW d \in Calls, KeyOf[d] \notin outlived PROVE Reached(ws[KeyOf[d]], call'[d].pc)
        <3>1. CASE d = c
            BY <1>1, <1>3, <3>1 DEF Reached, OnSource, OnEntitle, OnDefine, OnInfo, OnLook,
        OnApplied, OnTemplate, OnOwner, OnIndex, OnGate, OnActivate
        <3>2. CASE d # c
            BY <1>3, <2>1, <3>2 DEF IInv, Staged, Mine
        <3> QED BY <3>1, <3>2
    <2> QED BY <2>1 DEF Staged, Mine, Reached
<1> QED BY <1>4, <1>5, <1>6, <1>7, <1>8 DEF IInv

\* A claim and what the request does with its answer: it goes to work only with the lease.
LEMMA ClaimsKeeps ==
    ASSUME IInv, NEW c \in Calls, NEW r \in CallRows,
           At(c, "idle"), ~Refused(KeyOf[c]), Claims(c), call' = [call EXCEPT ![c] = r],
           \/ r.pc = "idle"
           \/ /\ r.pc = "reserve" /\ r.tries = 0
              /\ claim[KeyOf[c]].state # "active" /\ claim[KeyOf[c]].lease = None,
           r.told = "active" => claim[KeyOf[c]].state = "active",
           UNCHANGED <<eligible, ws, outlived>>, troubles' \in 0..MaxTroubles
    PROVE  IInv'
<1> DEFINE k == KeyOf[c]
           free == claim[k].state # "active" /\ claim[k].lease = None
<1>0. k \in Keys /\ claim[k] \in ClaimRows
    BY Typed
<1>1. /\ claim'[k].state = (IF Started(k) THEN claim[k].state ELSE "provisioning")
      /\ claim'[k].lease = (IF free THEN c ELSE claim[k].lease)
      /\ claim'[k].over = claim[k].over
      /\ \A j \in Keys \ {k} : claim'[j] = claim[j]
    BY <1>0, Typed DEF Claims, ClaimRows
<1>2. claim' \in [Keys -> ClaimRows]
    <2> DEFINE state == IF Started(k) THEN claim[k].state ELSE "provisioning"
               lease == IF free THEN c ELSE claim[k].lease
    <2>1. claim' = [claim EXCEPT ![k].state = state, ![k].lease = lease]
        BY DEF Claims
    <2>2. state \in {"none", "provisioning", "active"} /\ lease \in Calls \cup {None}
        BY <1>0 DEF ClaimRows
    <2> HIDE DEF state, lease
    <2> QED BY <2>1, <2>2, Typed DEF ClaimRows
<1>3. call' \in [Calls -> CallRows] /\ call'[c] = r /\ \A d \in Calls \ {c} : call'[d] = call[d]
    BY Typed
<1>4. slot' = IF Started(k) THEN slot ELSE k
    BY DEF Claims
<1>5. TypeOK'
    BY <1>0, <1>2, <1>3, <1>4 DEF IInv, TypeOK, CallRows, ClaimRows
<1>6. TriesLeft'
    BY <1>3, ProvisioningAssumption DEF IInv, TriesLeft, At
<1>7. Leased'
    BY <1>0, <1>1, ProvisioningAssumption DEF IInv, Leased, Started, ClaimRows
<1>8. Slotted'
    <2>1. CASE Started(k)
        BY <1>0, <1>1, <1>4, <2>1 DEF IInv, Slotted, Running, Started
    <2>2. CASE ~Started(k)
        <3>1. \A j \in Keys : ~Running(j)
            BY <2>2, ProvisioningAssumption DEF Refused, Busy, IInv, Slotted
        <3> QED BY <1>0, <1>1, <1>4, <2>2, <3>1 DEF Slotted, Running, Started
    <2> QED BY <2>1, <2>2
<1>9. \A j \in Keys : claim'[j].state = "active" <=> claim[j].state = "active"
    BY <1>0, <1>1 DEF Started
<1>10. Settled'
    BY <1>3, <1>9, Typed DEF IInv, Settled, At
<1>11. Matched' /\ ActiveIsWhole'
    BY <1>9 DEF IInv, Matched, IsActive, ActiveIsWhole, Whole, GateOpens
<1>12. Exclusive'
    <2>1. ASSUME NEW d \in Calls, KeyOf[d] \notin outlived, call'[d].pc # "idle"
          PROVE  \/ claim'[KeyOf[d]].lease = d
                 \/ claim'[KeyOf[d]].state = "active" /\ call'[d].pc \in Ended
        <3>1. CASE d = c
            BY <1>1, <1>3, <2>1, <3>1
        <3>2. CASE d # c
            <4>1. \/ claim[KeyOf[d]].lease = d
                  \/ claim[KeyOf[d]].state = "active" /\ call[d].pc \in Ended
                BY <1>3, <2>1, <3>2 DEF IInv, Exclusive, AtWork
            <4>2. KeyOf[d] \in Keys /\ d # None
                BY Typed
            <4> QED BY <1>1, <1>3, <1>9, <3>2, <4>1, <4>2
        <3> QED BY <3>1, <3>2
    <2> QED BY <2>1 DEF Exclusive, AtWork
<1>13. Staged'
    <2>1. ASSUME NEW d \in Calls, KeyOf[d] \notin outlived PROVE Reached(ws[KeyOf[d]], call'[d].pc)
        <3>1. CASE d = c
            BY <1>3, <3>1 DEF Reached, OnSource, OnEntitle, OnDefine, OnInfo, OnLook,
        OnApplied, OnTemplate, OnOwner, OnIndex, OnGate, OnActivate
        <3>2. CASE d # c
            BY <1>3, <2>1, <3>2 DEF IInv, Staged, Mine
        <3> QED BY <3>1, <3>2
    <2> QED BY <2>1 DEF Staged, Mine, Reached
<1> QED BY <1>5, <1>6, <1>7, <1>8, <1>10, <1>11, <1>12, <1>13 DEF IInv

LEMMA ClaimKeeps ==
    ASSUME IInv, NEW c \in Calls, Claim(c) \/ ClaimThrows(c) PROVE IInv'
<1> DEFINE told(answer) == [call[c] EXCEPT !.pc = "idle", !.told = answer]
           begun == [pc |-> "reserve", resumed |-> FALSE, late |-> FALSE, tries |-> 0,
                     told |-> None]
<1>1. ASSUME NEW answer \in {"active", "pending", "failed"}
      PROVE  told(answer) \in CallRows /\ told(answer).pc = "idle" /\ told(answer).told = answer
    BY Typed DEF CallRows, Pcs
<1>2. ASSUME NEW answer, Tells(c, answer) PROVE call' = [call EXCEPT ![c] = told(answer)]
    BY <1>2 DEF Tells
<1>3. begun \in CallRows
    BY ProvisioningAssumption DEF CallRows, Pcs
<1>4. At(c, "idle") /\ UNCHANGED <<eligible, ws, outlived>> /\ troubles' \in 0..MaxTroubles
    BY ProvisioningAssumption DEF Claim, ClaimThrows, Trouble, IInv, TypeOK
<1> HIDE DEF told
<1>5. CASE Refused(KeyOf[c])
    <2>1. Tells(c, "refused") /\ UNCHANGED <<slot, claim>>
        BY <1>5 DEF Claim, ClaimThrows
    <2> QED BY <1>4, <2>1, TellsKeeps
<1>6. CASE ~Refused(KeyOf[c])
    <2>1. Claims(c)
        BY <1>6 DEF Claim, ClaimThrows
    <2>2. CASE Tells(c, "active") /\ claim[KeyOf[c]].state = "active"
        BY <1>1, <1>2, <1>4, <1>6, <2>1, <2>2, ClaimsKeeps
    <2>3. CASE Tells(c, "pending")
        BY <1>1, <1>2, <1>4, <1>6, <2>1, <2>3, ClaimsKeeps
    <2>4. CASE Tells(c, "failed")
        BY <1>1, <1>2, <1>4, <1>6, <2>1, <2>4, ClaimsKeeps
    <2>5. CASE Begins(c) /\ claim[KeyOf[c]].state # "active" /\ claim[KeyOf[c]].lease = None
        <3>1. call' = [call EXCEPT ![c] = begun] /\ begun.told # "active"
            BY <2>5, Typed DEF Begins
        <3> QED BY <1>3, <1>4, <1>6, <2>1, <2>5, <3>1, ClaimsKeeps
    <2> QED BY <1>6, <2>2, <2>3, <2>4, <2>5 DEF Claim, ClaimThrows
<1> QED BY <1>5, <1>6

\* A lease that ends, with or without its request, leaves nobody at work on a key that is not
\* outlived.
LEMMA LeaseEnds ==
    ASSUME IInv, NEW k \in Keys, claim' = [claim EXCEPT ![k].lease = None],
           call' \in [Calls -> CallRows],
           \A d \in Calls : call'[d] = call[d] \/ (call'[d].pc = "idle" /\ call'[d].told = "failed"),
           outlived \subseteq outlived', outlived' \subseteq Keys,
           k \notin outlived' => \A d \in Calls : KeyOf[d] = k => call'[d].pc = "idle",
           UNCHANGED <<eligible, slot, ws>>, troubles' \in 0..MaxTroubles
    PROVE  IInv'
<1>1. /\ claim' \in [Keys -> ClaimRows] /\ claim'[k].lease = None
      /\ \A j \in Keys : claim'[j].state = claim[j].state /\ claim'[j].over = claim[j].over
      /\ \A j \in Keys \ {k} : claim'[j] = claim[j]
    BY Typed DEF ClaimRows
<1>2. TypeOK'
    BY <1>1 DEF IInv, TypeOK, ClaimRows, CallRows
<1>3. TriesLeft' /\ Settled'
    BY <1>1, Typed DEF IInv, TriesLeft, Settled, At
<1>4. Leased' /\ Slotted'
    BY <1>1 DEF IInv, Leased, Slotted, Running, Started
<1>5. Matched' /\ ActiveIsWhole'
    BY <1>1 DEF IInv, Matched, IsActive, ActiveIsWhole, Whole, GateOpens
<1>6. Exclusive'
    <2>1. ASSUME NEW d \in Calls, KeyOf[d] \notin outlived', call'[d].pc # "idle"
          PROVE  \/ claim'[KeyOf[d]].lease = d
                 \/ claim'[KeyOf[d]].state = "active" /\ call'[d].pc \in Ended
        <3>1. KeyOf[d] # k /\ KeyOf[d] \in Keys /\ KeyOf[d] \notin outlived /\ call'[d] = call[d]
            BY <2>1, Typed
        <3> QED BY <1>1, <2>1, <3>1 DEF IInv, Exclusive, AtWork
    <2> QED BY <2>1 DEF Exclusive, AtWork
<1>7. Staged'
    <2>1. ASSUME NEW d \in Calls, KeyOf[d] \notin outlived' PROVE Reached(ws[KeyOf[d]], call'[d].pc)
        <3>1. CASE call'[d] = call[d]
            BY <2>1, <3>1 DEF IInv, Staged, Mine
        <3>2. CASE call'[d].pc = "idle"
            BY <3>2 DEF Reached, OnSource, OnEntitle, OnDefine, OnInfo, OnLook,
        OnApplied, OnTemplate, OnOwner, OnIndex, OnGate, OnActivate
        <3> QED BY <3>1, <3>2
    <2> QED BY <2>1 DEF Staged, Mine, Reached
<1> QED BY <1>2, <1>3, <1>4, <1>5, <1>6, <1>7 DEF IInv

LEMMA FinishKeeps ==
    ASSUME IInv, NEW c \in Calls, Finish(c) PROVE IInv'
<1> DEFINE k == KeyOf[c]
           state == IF At(c, "done") THEN "active" ELSE "provisioning"
<1>0. UNCHANGED <<eligible, slot, ws, outlived>> /\ troubles' \in 0..MaxTroubles
    BY TroubleCounts DEF Finish
<1>1. call[c].pc \in {"finish", "done"} /\ (claim' = claim \/ Finishes(c, state))
    BY DEF Finish
<1>2. PICK answer \in {"active", "failed"} :
        Tells(c, answer) /\ (answer = "active" => At(c, "done"))
    BY DEF Finish
<1>3. CASE claim' = claim
    BY <1>0, <1>2, <1>3, TellsKeeps DEF IInv, Settled
<1>4. CASE Finishes(c, state) /\ claim[k].lease # c
    <2>1. claim' = claim
        BY <1>4, Typed DEF Finishes
    <2> QED BY <1>0, <1>2, <2>1, TellsKeeps DEF IInv, Settled
<1>5. CASE Finishes(c, state) /\ claim[k].lease = c
    <2>1. k \in Keys /\ c # None
        BY Typed
    <2>2. claim[k].state = "provisioning"
        BY <1>5, <2>1 DEF IInv, Leased
    <2>3. ~At(c, "done") /\ state = "provisioning" /\ answer = "failed"
        BY <1>2, <2>2 DEF IInv, Settled
    <2>4. claim' = [claim EXCEPT ![k].lease = None]
        BY <1>5, <2>1, <2>2, <2>3, Typed DEF Finishes, ClaimRows
    <2>5. \A d \in Calls : KeyOf[d] = k /\ k \notin outlived /\ AtWork(d) => d = c
        BY <1>5, <2>2 DEF IInv, Exclusive
    <2>6. /\ call' \in [Calls -> CallRows] /\ call'[c].pc = "idle" /\ call'[c].told = "failed"
          /\ \A d \in Calls \ {c} : call'[d] = call[d]
        <3> DEFINE r == [call[c] EXCEPT !.pc = "idle", !.told = "failed"]
        <3>1. r \in CallRows /\ r.pc = "idle" /\ r.told = "failed"
            BY Typed DEF CallRows, Pcs
        <3>2. call' = [call EXCEPT ![c] = r]
            BY <1>2, <2>3 DEF Tells
        <3> HIDE DEF r
        <3> QED BY <3>1, <3>2, Typed
    <2>7. outlived' \subseteq Keys
        BY <1>0 DEF IInv, TypeOK
    <2>8. k \notin outlived' => \A d \in Calls : KeyOf[d] = k => call'[d].pc = "idle"
        BY <1>0, <2>5, <2>6 DEF AtWork
    <2> QED BY <1>0, <2>1, <2>4, <2>6, <2>7, <2>8, LeaseEnds
<1> QED BY <1>1, <1>3, <1>4, <1>5

LEMMA LapseKeeps ==
    ASSUME IInv, NEW k \in Keys, Lapse(k) PROVE IInv'
<1> DEFINE c == claim[k].lease
<1>1. /\ c \in Calls /\ claim' = [claim EXCEPT ![k].lease = None]
      /\ UNCHANGED <<eligible, slot, ws, call>>
    BY Typed DEF Lapse, ClaimRows
<1>2. call' \in [Calls -> CallRows] /\ \A d \in Calls : call'[d] = call[d]
    BY <1>1, Typed
<1>3. claim[k].state = "provisioning"
    BY <1>1, ProvisioningAssumption DEF IInv, Leased
<1>4. CASE AtWork(c)
    <2>1. troubles' = MaxTroubles /\ outlived' = outlived \cup {k}
        BY <1>4 DEF Lapse
    <2>2. troubles' \in 0..MaxTroubles /\ outlived' \subseteq Keys /\ outlived \subseteq outlived'
          /\ k \in outlived'
        BY <2>1, ProvisioningAssumption DEF IInv, TypeOK
    <2> QED BY <1>1, <1>2, <2>2, LeaseEnds
<1>5. CASE ~AtWork(c)
    <2>1. UNCHANGED <<outlived, troubles>>
        BY <1>5 DEF Lapse
    <2>2. troubles' \in 0..MaxTroubles /\ outlived' \subseteq Keys /\ outlived \subseteq outlived'
        BY <2>1 DEF IInv, TypeOK
    <2>3. k \notin outlived' => \A d \in Calls : KeyOf[d] = k => call'[d].pc = "idle"
        BY <1>1, <1>3, <1>5, <2>1 DEF IInv, Exclusive, AtWork
    <2> QED BY <1>1, <1>2, <2>2, <2>3, LeaseEnds
<1> QED BY <1>4, <1>5

\* The transaction of the activation finds all that the steps before it have reached.
LEMMA ActivatesKeeps ==
    ASSUME IInv, NEW c \in Calls, NEW pc \in Ended, At(c, "activate"), claim[KeyOf[c]].lease = c,
           Activates(c), Goto(c, pc),
           UNCHANGED <<eligible, slot, outlived>>, troubles' \in 0..MaxTroubles
    PROVE  IInv'
<1> DEFINE k == KeyOf[c]
           row == [Mine(c) EXCEPT !.status = "active"]
           r == [call[c] EXCEPT !.pc = pc]
           won == [claim[k] EXCEPT !.state = "active", !.lease = None]
<1>0. k \in Keys /\ c # None /\ call[c].pc = "activate" /\ call[c].pc \in Working
    BY Typed DEF At, Working, Pcs, Ended
<1>1. claim[k].state = "provisioning"
    BY <1>0 DEF IInv, Leased
<1>2. row \in Rows /\ row.status = "active" /\ row.by = Mine(c).by
    BY <1>0, SoFar DEF Rows
<1>3. k \notin outlived => row.by = "owner" /\ Whole(row)
    BY <1>0, SoFar DEF Rows, Dbs, Reached, Whole, GateOpens, OnSource, OnEntitle, OnDefine, OnInfo, OnLook,
        OnApplied, OnTemplate, OnOwner, OnIndex, OnGate, OnActivate
<1>4. r \in CallRows /\ r.pc = pc /\ r.told = call[c].told
    BY <1>0, SoFar DEF CallRows, Pcs, Ended
<1>5. won \in ClaimRows /\ won.state = "active" /\ won.lease = None
    BY <1>0, Typed DEF ClaimRows
<1>6. /\ ws' = [ws EXCEPT ![k] = row] /\ claim' = [claim EXCEPT ![k] = won]
      /\ call' = [call EXCEPT ![c] = r]
    BY DEF Activates, Becomes, Goto
<1> HIDE DEF row, r, won
<1>7. /\ ws' \in [Keys -> Rows] /\ ws'[k] = row /\ \A j \in Keys \ {k} : ws'[j] = ws[j]
      /\ claim' \in [Keys -> ClaimRows] /\ claim'[k] = won
      /\ \A j \in Keys \ {k} : claim'[j] = claim[j]
      /\ call' \in [Calls -> CallRows] /\ call'[c] = r /\ \A d \in Calls \ {c} : call'[d] = call[d]
    BY <1>0, <1>2, <1>4, <1>5, <1>6, Typed
<1>8. TypeOK'
    BY <1>7 DEF IInv, TypeOK, CallRows, ClaimRows
<1>9. TriesLeft'
    BY <1>4, <1>7 DEF IInv, TriesLeft, At, Ended
<1>10. Leased'
    BY <1>5, <1>7 DEF IInv, Leased
<1>11. Slotted'
    <2>1. won.over = claim[k].over
        BY <1>0, Typed DEF won, ClaimRows
    <2> QED BY <1>1, <1>5, <1>7, <2>1 DEF IInv, Slotted, Running, Started
<1>12. Settled'
    BY <1>4, <1>5, <1>7, Typed DEF IInv, Settled, At
<1>13. Exclusive'
    <2>1. ASSUME NEW d \in Calls, KeyOf[d] \notin outlived, call'[d].pc # "idle"
          PROVE  \/ claim'[KeyOf[d]].lease = d
                 \/ claim'[KeyOf[d]].state = "active" /\ call'[d].pc \in Ended
        <3>1. CASE d = c
            BY <1>4, <1>5, <1>7, <3>1
        <3>2. CASE d # c
            <4>1. KeyOf[d] # k /\ KeyOf[d] \in Keys
                BY <1>0, <1>7, <2>1, <3>2, Alone, Typed DEF AtWork
            <4> QED BY <1>7, <2>1, <3>2, <4>1 DEF IInv, Exclusive, AtWork
        <3> QED BY <3>1, <3>2
    <2> QED BY <2>1 DEF Exclusive, AtWork
<1>14. Matched'
    BY <1>2, <1>3, <1>5, <1>7 DEF IInv, Matched, IsActive
<1>15. Staged'
    <2>1. ASSUME NEW d \in Calls, KeyOf[d] \notin outlived
          PROVE  Reached(ws'[KeyOf[d]], call'[d].pc)
        <3>1. CASE d = c
            BY <1>4, <1>7, <3>1 DEF Ended, Reached, OnSource, OnEntitle, OnDefine, OnInfo, OnLook,
        OnApplied, OnTemplate, OnOwner, OnIndex, OnGate, OnActivate
        <3>2. CASE d # c /\ KeyOf[d] = k
            <4>1. call'[d].pc = "idle"
                BY <1>0, <1>7, <2>1, <3>2, Alone DEF AtWork
            <4> QED BY <4>1 DEF Reached, OnSource, OnEntitle, OnDefine, OnInfo, OnLook,
        OnApplied, OnTemplate, OnOwner, OnIndex, OnGate, OnActivate
        <3>3. CASE d # c /\ KeyOf[d] # k
            BY <1>7, <2>1, <3>3, Typed DEF IInv, Staged, Mine
        <3> QED BY <3>1, <3>2, <3>3
    <2> QED BY <2>1 DEF Staged, Mine, Reached
<1>16. ActiveIsWhole'
    <2>1. ASSUME NEW j \in Keys \ outlived, IsActive(ws'[j]) PROVE Whole(ws'[j])
        <3>1. CASE j = k
            BY <1>3, <1>7, <3>1
        <3>2. CASE j # k
            BY <1>7, <2>1, <3>2 DEF IInv, ActiveIsWhole, IsActive
        <3> QED BY <3>1, <3>2
    <2> QED BY <2>1 DEF ActiveIsWhole, IsActive, Whole, GateOpens
<1> QED BY <1>8, <1>9, <1>10, <1>11, <1>12, <1>13, <1>14, <1>15, <1>16 DEF IInv

LEMMA ActivateKeeps ==
    ASSUME IInv, NEW c \in Calls, Activate(c) PROVE IInv'
<1>1. /\ call[c].pc = "activate" /\ call[c].pc \in Working /\ At(c, "activate")
      /\ UNCHANGED <<eligible, slot, outlived>>
    BY DEF Activate, At, Working, Pcs, Ended
<1>2. troubles' \in 0..MaxTroubles
    BY TroubleCounts DEF Activate, Calm
<1>3. CASE \E pc \in Ended : Fenced(c) /\ Activates(c) /\ Goto(c, pc)
    BY <1>1, <1>2, <1>3, ActivatesKeeps DEF Fenced
<1>4. CASE Goto(c, "finish") /\ UNCHANGED <<ws, claim>>
    <2>1. Mine(c) \in Rows /\ "finish" \in Pcs \ {"idle", "done", "reserve"}
        BY <1>1, SoFar DEF Pcs
    <2>2. KeyOf[c] \notin outlived => ~IsActive(Mine(c)) /\ Reached(Mine(c), "finish")
        BY <1>1, SoFar DEF IsActive, Reached, OnSource, OnEntitle, OnDefine, OnInfo, OnLook,
        OnApplied, OnTemplate, OnOwner, OnIndex, OnGate, OnActivate
    <2>3. ws' = [ws EXCEPT ![KeyOf[c]] = Mine(c)]
        BY <1>4, Typed DEF Mine
    <2> QED BY <1>1, <1>2, <1>4, <2>1, <2>2, <2>3, MovesKeeps
<1> QED BY <1>3, <1>4 DEF Activate, Ended

-----------------------------------------------------------------------------
(* The environment *)

LEMMA CrashKeeps ==
    ASSUME IInv, NEW c \in Calls, Crash(c) PROVE IInv'
BY TellsKeeps, TroubleCounts DEF Crash

LEMMA OverKeeps ==
    ASSUME IInv, NEW k \in Keys, Over(k) PROVE IInv'
<1>1. /\ claim' = [claim EXCEPT ![k].over = TRUE] /\ UNCHANGED <<eligible, slot, ws, call, outlived>>
      /\ troubles' \in 0..MaxTroubles
    BY TroubleCounts DEF Over
<1>2. /\ claim' \in [Keys -> ClaimRows] /\ claim'[k].over
      /\ \A j \in Keys : claim'[j].state = claim[j].state /\ claim'[j].lease = claim[j].lease
      /\ \A j \in Keys \ {k} : claim'[j] = claim[j]
    BY <1>1, Typed DEF ClaimRows
<1>3. TypeOK'
    BY <1>1, <1>2 DEF IInv, TypeOK, ClaimRows, CallRows
<1>4. TriesLeft' /\ Settled' /\ Exclusive'
    BY <1>1, <1>2, Typed DEF IInv, TriesLeft, Settled, Exclusive, At, AtWork
<1>5. Leased' /\ Slotted'
    BY <1>1, <1>2 DEF IInv, Leased, Slotted, Running, Started
<1>6. Matched' /\ Staged' /\ ActiveIsWhole'
    BY <1>1, <1>2, Typed DEF IInv, Matched, Staged, Mine, Reached, ActiveIsWhole, IsActive, Whole,
        GateOpens
<1> QED BY <1>3, <1>4, <1>5, <1>6 DEF IInv

LEMMA RivalKeeps ==
    ASSUME IInv, NEW k \in Keys, Rival(k) PROVE IInv'
<1> DEFINE row == [ws[k] EXCEPT !.by = "rival", !.status = "active"]
<1>1. /\ ws[k].by = "nobody" /\ ws' = [ws EXCEPT ![k] = row]
      /\ UNCHANGED <<eligible, slot, claim, call, outlived>> /\ troubles' \in 0..MaxTroubles
    BY TroubleCounts DEF Rival
<1>2. row \in Rows /\ row.by = "rival"
    BY Typed DEF Rows
<1> HIDE DEF row
<1>3. ws' \in [Keys -> Rows] /\ ws'[k] = row /\ \A j \in Keys \ {k} : ws'[j] = ws[j]
    BY <1>1, <1>2, Typed
<1>4. TypeOK'
    BY <1>1, <1>3 DEF IInv, TypeOK
<1>5. TriesLeft' /\ Leased' /\ Slotted' /\ Settled' /\ Exclusive'
    BY <1>1 DEF IInv, TriesLeft, Leased, Slotted, Settled, Exclusive, At, AtWork, Running, Started
<1>6. Matched' /\ ActiveIsWhole'
    <2>1. ASSUME NEW j \in Keys PROVE IsActive(ws'[j]) <=> IsActive(ws[j])
        BY <1>1, <1>2, <1>3 DEF IsActive
    <2>2. ASSUME NEW j \in Keys, IsActive(ws'[j]) PROVE ws'[j] = ws[j]
        BY <1>2, <1>3, <2>2 DEF IsActive
    <2> QED BY <1>1, <2>1, <2>2 DEF IInv, Matched, ActiveIsWhole, IsActive, Whole, GateOpens
<1>7. Staged'
    <2>1. ASSUME NEW d \in Calls, KeyOf[d] \notin outlived PROVE Reached(ws'[KeyOf[d]], call[d].pc)
        <3>1. Reached(ws[KeyOf[d]], call[d].pc) /\ KeyOf[d] \in Keys
            BY <2>1, Typed DEF IInv, Staged, Mine
        <3>2. CASE KeyOf[d] = k
            BY <1>1, <3>1, <3>2 DEF Reached, OnSource, OnEntitle, OnDefine, OnInfo, OnLook,
        OnApplied, OnTemplate, OnOwner, OnIndex, OnGate, OnActivate
        <3>3. CASE KeyOf[d] # k
            BY <1>3, <3>1, <3>3
        <3> QED BY <3>2, <3>3
    <2> QED BY <1>1, <2>1 DEF Staged, Mine, Reached
<1> QED BY <1>4, <1>5, <1>6, <1>7 DEF IInv

\* The right comes and goes, or nothing happens.
LEMMA RightKeeps ==
    ASSUME IInv, eligible' \in BOOLEAN, troubles' \in 0..MaxTroubles,
           UNCHANGED <<slot, claim, ws, call, outlived>>
    PROVE  IInv'
<1>1. TypeOK'
    BY DEF IInv, TypeOK
<1>2. TriesLeft' /\ Leased' /\ Slotted' /\ Settled' /\ Exclusive'
    BY DEF IInv, TriesLeft, Leased, Slotted, Settled, Exclusive, At, AtWork, Running, Started
<1>3. Matched' /\ Staged' /\ ActiveIsWhole'
    BY DEF IInv, Matched, Staged, Mine, Reached, ActiveIsWhole, IsActive, Whole, GateOpens
<1> QED BY <1>1, <1>2, <1>3 DEF IInv

-----------------------------------------------------------------------------
(* The theorems *)

LEMMA InitHolds == Init => IInv
<1> SUFFICES ASSUME Init PROVE IInv
    OBVIOUS
<1>1. NoWs \in Rows
    BY DEF NoWs, NoDb, Rows, Dbs
<1>2. TypeOK
    BY <1>1, ProvisioningAssumption DEF Init, TypeOK, Pcs
<1>3. TriesLeft /\ Leased /\ Slotted /\ Settled /\ Exclusive
    BY ProvisioningAssumption DEF Init, TriesLeft, Leased, Slotted, Settled, Exclusive, At, AtWork,
        Running, Started
<1>4. Matched /\ Staged /\ ActiveIsWhole
    BY ProvisioningAssumption DEF Init, NoWs, Matched, Staged, Mine, Reached, ActiveIsWhole,
        IsActive, OnSource, OnEntitle, OnDefine, OnInfo, OnLook,
        OnApplied, OnTemplate, OnOwner, OnIndex, OnGate, OnActivate
<1> QED BY <1>2, <1>3, <1>4 DEF IInv

LEMMA SagaKeeps ==
    ASSUME IInv, NEW c \in Calls, Saga(c) PROVE IInv'
<1>1. CASE \/ Reserve(c) \/ ReserveThrows(c) \/ Source(c) \/ Entitle(c) \/ Define(c) \/ Release(c)
    BY <1>1, ReserveKeeps, ReserveThrowsKeeps, SourceKeeps, EntitleKeeps, DefineKeeps, ReleaseKeeps
<1>2. CASE \/ Info(c) \/ Apply(c) \/ Look(c) \/ Rebuild(c) \/ Read(c) \/ Applied(c)
    BY <1>2, InfoKeeps, ApplyKeeps, LookKeeps, RebuildKeeps, ReadKeeps, AppliedKeeps
<1>3. CASE \/ Template(c) \/ Owner(c) \/ Index(c) \/ Gate(c) \/ Deliver(c) \/ Activate(c)
    BY <1>3, TemplateKeeps, OwnerKeeps, IndexKeeps, GateKeeps, DeliverKeeps, ActivateKeeps
<1>4. CASE Undo(c) \/ Drop(c) \/ Finish(c)
    BY <1>4, UndoKeeps, DropKeeps, FinishKeeps
<1> QED BY <1>1, <1>2, <1>3, <1>4 DEF Saga

LEMMA NextKeeps == IInv /\ [Next]_vars => IInv'
<1> SUFFICES ASSUME IInv, [Next]_vars PROVE IInv'
    OBVIOUS
<1>1. CASE \E c \in Calls : Claim(c) \/ ClaimThrows(c) \/ Saga(c) \/ Crash(c)
    BY <1>1, ClaimKeeps, SagaKeeps, CrashKeeps
<1>2. CASE \E k \in Keys : Lapse(k) \/ Over(k) \/ Rival(k)
    BY <1>2, LapseKeeps, OverKeeps, RivalKeeps
<1>3. CASE Revoke
    BY <1>3, RightKeeps, TroubleCounts DEF Revoke
<1>4. CASE Restore
    <2>1. troubles' \in 0..MaxTroubles
        BY <1>4 DEF Restore, IInv, TypeOK
    <2> QED BY <1>4, <2>1, RightKeeps DEF Restore
<1>5. CASE UNCHANGED vars
    <2>1. eligible' \in BOOLEAN /\ troubles' \in 0..MaxTroubles
        BY <1>5 DEF vars, IInv, TypeOK
    <2> QED BY <1>5, <2>1, RightKeeps DEF vars
<1> QED BY <1>1, <1>2, <1>3, <1>4, <1>5 DEF Next

LEMMA Inductive == Spec => []IInv
BY InitHolds, NextKeeps, PTL DEF Spec

\* Every variable keeps its type, and the loop over names never draws more than
\* MAX_DB_NAME_ATTEMPTS, whatever is released and drawn again.
THEOREM TypeCorrect == Spec => []TypeOK
<1>1. IInv => TypeOK
    BY DEF IInv
<1> QED BY <1>1, Inductive, PTL

\* The slot of the account admits one trial at a time: a claim that runs is the one of the slot,
\* however many requests with however many keys race for it.
THEOREM TrialIsAlone == Spec => []OneTrial
<1>1. IInv => OneTrial
    <2> SUFFICES ASSUME IInv PROVE Cardinality({k \in Keys : Running(k)}) <= 1
        BY DEF OneTrial
    <2>1. {k \in Keys : Running(k)} \subseteq {slot}
        BY DEF IInv, Slotted
    <2>2. IsFiniteSet({slot}) /\ Cardinality({slot}) = 1
        BY FS_Singleton
    <2>3. Cardinality({k \in Keys : Running(k)}) <= Cardinality({slot})
        BY <2>1, <2>2, FS_Subset
    <2> QED BY <2>2, <2>3
<1> QED BY <1>1, Inductive, PTL

\* The lease fences the activation: claim and workspace become active together, and a customer is
\* told so only then, wherever requests crash, answers get lost or a lease lapses.
THEOREM ClaimAndWorkspaceAgree == Spec => []ClaimMatches
<1>1. IInv => ClaimMatches
    BY DEF IInv, ClaimMatches, Matched, Settled, IsActive
<1> QED BY <1>1, Inductive, PTL

\* No attempt, resumed wherever an earlier one stopped, activates a workspace that lacks a part.
THEOREM NothingIsHalf == Spec => []ActiveIsWhole
<1>1. IInv => ActiveIsWhole
    BY DEF IInv
<1> QED BY <1>1, Inductive, PTL

=============================================================================
