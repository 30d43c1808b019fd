---------------------------- MODULE EmployeeProofs -----------------------------
(* Theorems of EmployeeSessions, for every set of calls of the registry, and of *)
(* EmployeeLifecycle, for every set of operations above them.                   *)
EXTENDS EmployeeLifecycle, TLAPS

-----------------------------------------------------------------------------
(* What the moves of a call do to the calls                                *)

Pcs == {"idle", "credential", "dropped", "draining", "queued", "closing", "closed", "signin",
        "undo", "registered"} \cup Ended

\* Call j moves to pc and no other call moves.
Moves(j, pc) ==
    /\ job' \in [Jobs -> JobStates]
    /\ job'[j].pc = pc
    /\ \A i \in Jobs : i # j => job'[i] = job[i]

\* Goto moves the call and keeps the rest of it.
LEMMA GotoMoves ==
    ASSUME NEW j \in Jobs, NEW pc \in Pcs, TypeOK, Goto(j, pc)
    PROVE  /\ Moves(j, pc)
           /\ job'[j].cur = job[j].cur /\ job'[j].todo = job[j].todo
           /\ job'[j].waits = job[j].waits /\ job'[j].epoch = job[j].epoch
<1> DEFINE r == [job[j] EXCEPT !.pc = pc]
<1>1. job[j] \in JobStates
  BY DEF TypeOK
<1>2. /\ r \in JobStates /\ r.pc = pc /\ r.cur = job[j].cur /\ r.todo = job[j].todo
      /\ r.waits = job[j].waits /\ r.epoch = job[j].epoch
  BY <1>1 DEF JobStates, Pcs, Ended
<1>3. job' = [job EXCEPT ![j] = r]
  BY DEF Goto
<1> HIDE DEF r
<1> QED
  BY <1>2, <1>3 DEF Moves, TypeOK

\* A call whose work is over leaves the chain, unless it is stop().
LEMMA LeavesMoves ==
    ASSUME NEW j \in Jobs, NEW pc \in Pcs, TypeOK, Leaves(j, pc)
    PROVE  Moves(j, pc) /\ job'[j].waits = job[j].waits
<1> DEFINE r == [job[j] EXCEPT !.pc = pc, !.cur = None, !.todo = {}]
<1>1. job[j] \in JobStates
  BY DEF TypeOK
<1>2. r \in JobStates /\ r.pc = pc /\ r.waits = job[j].waits
  BY <1>1 DEF JobStates, Pcs, Ended
<1>3. job' = [job EXCEPT ![j] = r]
  BY DEF Leaves
<1> HIDE DEF r
<1> QED
  BY <1>2, <1>3 DEF Moves, TypeOK

\* A call that is queued joins the end of the chain.
LEMMA QueuedMoves ==
    ASSUME NEW j \in Jobs, NEW e \in Nat, TypeOK, Queued(j, e)
    PROVE  Moves(j, "queued")
<1> DEFINE r == [job[j] EXCEPT !.pc = "queued", !.epoch = e]
<1>1. job[j] \in JobStates
  BY DEF TypeOK
<1>2. r \in JobStates /\ r.pc = "queued"
  BY <1>1 DEF JobStates, Ended
<1>3. job' = [job EXCEPT ![j] = r]
  BY DEF Queued
<1> HIDE DEF r
<1> QED
  BY <1>2, <1>3 DEF Moves, TypeOK

\* closeConnection begins with a connection of the rest, or has nothing left to close.
LEMMA ClosesNextMoves ==
    ASSUME NEW j \in Jobs, NEW rest \in SUBSET Jobs, TypeOK, ClosesNext(j, rest)
    PROVE  /\ job'[j].waits = job[j].waits
           /\ \/ /\ rest = {} /\ Moves(j, "closed") /\ confirmed' = confirmed
                 /\ job'[j].cur = None /\ job'[j].todo = {}
              \/ /\ Moves(j, "closing") /\ confirmed' = "null"
                 /\ job'[j].cur \in rest /\ job'[j].todo = rest \ {job'[j].cur}
<1>1. job[j] \in JobStates
  BY DEF TypeOK
<1>2. CASE rest = {}
  <2> DEFINE r == [job[j] EXCEPT !.pc = "closed", !.cur = None, !.todo = {}]
  <2>1. r \in JobStates /\ r.pc = "closed" /\ r.waits = job[j].waits /\ r.cur = None /\ r.todo = {}
    BY <1>1 DEF JobStates, Ended
  <2>2. job' = [job EXCEPT ![j] = r] /\ confirmed' = confirmed
    BY <1>2 DEF ClosesNext
  <2> HIDE DEF r
  <2> QED
    BY <1>2, <2>1, <2>2 DEF Moves, TypeOK
<1>3. CASE rest # {}
  <2>1. PICK c \in rest :
           /\ job' = [job EXCEPT ![j].pc = "closing", ![j].cur = c, ![j].todo = rest \ {c}]
           /\ confirmed' = "null"
    BY <1>3 DEF ClosesNext
  <2> DEFINE r == [job[j] EXCEPT !.pc = "closing", !.cur = c, !.todo = rest \ {c}]
  <2>2. /\ r \in JobStates /\ r.pc = "closing" /\ r.waits = job[j].waits /\ r.cur = c
        /\ r.todo = rest \ {c}
    BY <1>1 DEF JobStates, Ended
  <2>3. job' = [job EXCEPT ![j] = r] /\ confirmed' = "null"
    BY <2>1
  <2> HIDE DEF r
  <2> QED
    BY <2>2, <2>3 DEF Moves, TypeOK
<1> QED
  BY <1>2, <1>3

\* A connection that is given up is closed next.
LEMMA UndoesMoves ==
    ASSUME NEW j \in Jobs, TypeOK, Undoes(j)
    PROVE  Moves(j, "undo") /\ job'[j].cur = j /\ job'[j].waits = job[j].waits
<1> DEFINE r == [job[j] EXCEPT !.pc = "undo", !.cur = j]
<1>1. job[j] \in JobStates
  BY DEF TypeOK
<1>2. r \in JobStates /\ r.pc = "undo" /\ r.cur = j /\ r.waits = job[j].waits
  BY <1>1 DEF JobStates, Ended
<1>3. job' = [job EXCEPT ![j] = r]
  BY DEF Undoes
<1> HIDE DEF r
<1> QED
  BY <1>2, <1>3 DEF Moves, TypeOK

-----------------------------------------------------------------------------
(* The inductive invariant                                                 *)

Works == {"queued", "closing", "closed", "signin", "undo"}
Busy == Works \ {"queued"}

\* The chain lists exactly the works under way, each once; all but the first wait.
ChainInv ==
    /\ \A i, k \in 1 .. Len(chain) : chain[i] = chain[k] => i = k
    /\ \A i \in 1 .. Len(chain) :
          /\ KindOf[chain[i]] # "stop" /\ job[chain[i]].pc \in Works
          /\ i # 1 => job[chain[i]].pc = "queued"
    /\ \A j \in Jobs : KindOf[j] # "stop" /\ job[j].pc \in Works
                       => \E i \in 1 .. Len(chain) : chain[i] = j

\* Which kinds of call may be where.
KindAt(j, pc) ==
    /\ pc \in {"credential", "registered"} => KindOf[j] = "open"
    /\ pc \in {"signin", "undo"} => Registers(j)
    /\ pc = "dropped" => KindOf[j] = "idle"
    /\ pc = "draining" => KindOf[j] = "stop"
    /\ pc = "queued" => KindOf[j] # "stop"

KindInv == \A j \in Jobs : KindAt(j, job[j].pc)

LineInv == TypeOK /\ ChainInv /\ KindInv

Connected(i) == job[i].pc \in {"signin", "undo"}

\* Once stop() has drained the chain no connection is opened any more.
StopInv ==
    \A s \in Jobs : KindOf[s] = "stop" /\ job[s].pc # "idle" =>
        /\ gate.stopped
        /\ \A i \in Jobs : Connected(i) => job[s].pc = "draining" /\ i \in job[s].waits

\* A work that closes has the only connection in hand; one that has closed leaves none.
WorkInv ==
    \A j \in Jobs :
        /\ job[j].pc \in Busy => session = None
        /\ job[j].pc = "closing" =>
              job[j].cur \in Jobs /\ job[j].todo = {} /\ conns \subseteq {job[j].cur}
        /\ job[j].pc = "closed" => conns = {}
        /\ job[j].pc = "signin" => j \in conns

ConnInv ==
    /\ OneConnection
    /\ NoneLost
    /\ closing \subseteq conns
    /\ session # None => session \in conns
    /\ confirmed = "yes" => closing = {}
    /\ LaneIsCurrent
    /\ StopLeavesNothing

GateInv == gate.suspended => gate.blocked

HandInv == StopInv /\ WorkInv /\ ConnInv /\ GateInv

-----------------------------------------------------------------------------
(* The chain                                                               *)

\* Only the first work of the chain runs.
LEMMA HeadOnly ==
    ASSUME LineInv, NEW j \in Jobs, KindOf[j] # "stop", job[j].pc \in Busy
    PROVE  /\ chain # <<>> /\ Head(chain) = j /\ chain[1] = j
           /\ \A i \in Jobs : KindOf[i] # "stop" /\ job[i].pc \in Busy => i = j
<1>1. chain \in Seq(Jobs)
  BY DEF LineInv, TypeOK
<1>2. \A k \in Jobs : KindOf[k] # "stop" /\ job[k].pc \in Busy
                     => Len(chain) > 0 /\ chain[1] = k
  BY <1>1 DEF LineInv, ChainInv, Works, Busy
<1> QED
  BY <1>1, <1>2

\* Nothing runs while the first work of the chain waits.
LEMMA HeadWaits ==
    ASSUME LineInv, NEW j \in Jobs, job[j].pc = "queued", chain # <<>>, Head(chain) = j
    PROVE  /\ chain[1] = j
           /\ \A i \in Jobs : KindOf[i] # "stop" => job[i].pc \notin Busy
<1>1. chain \in Seq(Jobs)
  BY DEF LineInv, TypeOK
<1>2. chain[1] = j
  BY <1>1
<1> QED
  BY <1>1, <1>2, HeadOnly DEF Busy

\* The first work leaves the chain.
LEMMA ChainLeft ==
    ASSUME LineInv, NEW j \in Jobs, NEW pc \in Ended \cup {"registered"}, Moves(j, pc),
           KindOf[j] # "stop", chain # <<>>, chain[1] = j, chain' = Tail(chain)
    PROVE  chain' \in Seq(Jobs) /\ ChainInv'
<1>1. chain \in Seq(Jobs) /\ chain # <<>>
  BY DEF LineInv, TypeOK
<1>2. /\ chain' \in Seq(Jobs) /\ Len(chain') = Len(chain) - 1
      /\ \A i \in 1 .. Len(chain') : chain'[i] = chain[i + 1]
  BY <1>1
<1>3. \A i \in 1 .. Len(chain') : i + 1 \in 1 .. Len(chain) /\ chain'[i] \in Jobs /\ chain'[i] # j
  BY <1>1, <1>2 DEF LineInv, ChainInv
<1>4. \A i, k \in 1 .. Len(chain') : chain'[i] = chain'[k] => i = k
  BY <1>1, <1>2, <1>3 DEF LineInv, ChainInv
<1>5. \A i \in 1 .. Len(chain') : KindOf[chain'[i]] # "stop" /\ job'[chain'[i]].pc = "queued"
  BY <1>1, <1>2, <1>3 DEF LineInv, ChainInv, Moves
<1>6. ASSUME NEW k \in Jobs, KindOf[k] # "stop", job'[k].pc \in Works
      PROVE  \E i \in 1 .. Len(chain') : chain'[i] = k
  <2>1. k # j /\ job[k].pc \in Works
    BY <1>6 DEF Moves, Works, Ended
  <2>2. PICK i \in 1 .. Len(chain) : chain[i] = k
    BY <1>6, <2>1 DEF LineInv, ChainInv
  <2>3. i # 1 /\ i - 1 \in 1 .. Len(chain') /\ (i - 1) + 1 = i
    BY <1>1, <1>2, <2>1, <2>2
  <2>4. chain'[i - 1] = k
    BY <1>2, <2>2, <2>3
  <2> QED
    BY <2>3, <2>4
<1> QED
  BY <1>2, <1>4, <1>5, <1>6 DEF ChainInv, Works

\* A call joins the end of the chain.
LEMMA ChainJoined ==
    ASSUME LineInv, NEW j \in Jobs, Moves(j, "queued"), KindOf[j] # "stop",
           job[j].pc \notin Works, chain' = Append(chain, j)
    PROVE  chain' \in Seq(Jobs) /\ ChainInv'
<1>1. chain \in Seq(Jobs)
  BY DEF LineInv, TypeOK
<1>2. /\ chain' \in Seq(Jobs) /\ Len(chain') = Len(chain) + 1 /\ chain'[Len(chain) + 1] = j
      /\ \A i \in 1 .. Len(chain) : chain'[i] = chain[i] /\ chain[i] \in Jobs
  BY <1>1
<1>3. \A i \in 1 .. Len(chain) : chain[i] # j
  BY <1>1 DEF LineInv, ChainInv
<1>4. \A i, k \in 1 .. Len(chain') : chain'[i] = chain'[k] => i = k
  BY <1>1, <1>2, <1>3 DEF LineInv, ChainInv
<1>5. \A i \in 1 .. Len(chain') :
         /\ KindOf[chain'[i]] # "stop" /\ job'[chain'[i]].pc \in Works
         /\ i # 1 => job'[chain'[i]].pc = "queued"
  <2>1. "queued" \in Works
    BY DEF Works
  <2>2. \A i \in 1 .. Len(chain) :
           /\ KindOf[chain'[i]] # "stop" /\ job'[chain'[i]].pc \in Works
           /\ i # 1 => job'[chain'[i]].pc = "queued"
    BY <1>1, <1>2, <1>3 DEF LineInv, ChainInv, Moves
  <2> QED
    BY <1>1, <1>2, <2>1, <2>2 DEF Moves
<1>6. ASSUME NEW k \in Jobs, KindOf[k] # "stop", job'[k].pc \in Works
      PROVE  \E i \in 1 .. Len(chain') : chain'[i] = k
  <2>1. CASE k = j
    BY <1>1, <1>2, <2>1
  <2>2. CASE k # j
    <3>1. PICK i \in 1 .. Len(chain) : chain[i] = k
      BY <1>6, <2>2 DEF LineInv, ChainInv, Moves
    <3> QED
      BY <1>1, <1>2, <3>1
  <2> QED
    BY <2>1, <2>2
<1> QED
  BY <1>2, <1>4, <1>5, <1>6 DEF ChainInv

\* A call moves outside the chain, or at its head.
LEMMA ChainKept ==
    ASSUME LineInv, NEW j \in Jobs, NEW pc \in Pcs, Moves(j, pc), chain' = chain,
           \/ KindOf[j] = "stop"
           \/ job[j].pc \notin Works /\ pc \notin Works
           \/ job[j].pc \in Works /\ pc \in Works /\ chain[1] = j
    PROVE  chain' \in Seq(Jobs) /\ ChainInv'
<1>1. chain \in Seq(Jobs) /\ chain' = chain /\ \A i \in 1 .. Len(chain) : chain[i] \in Jobs
  BY DEF LineInv, TypeOK
<1>2. \A i \in 1 .. Len(chain) :
         /\ KindOf[chain[i]] # "stop" /\ job'[chain[i]].pc \in Works
         /\ i # 1 => job'[chain[i]].pc = "queued"
  BY <1>1 DEF LineInv, ChainInv, Moves
<1>3. \A k \in Jobs : KindOf[k] # "stop" /\ job'[k].pc \in Works => job[k].pc \in Works
  BY DEF Moves
<1> QED
  BY <1>1, <1>2, <1>3 DEF LineInv, ChainInv

\* What a move makes of LineInv.
LEMMA LineMoves ==
    ASSUME LineInv, NEW j \in Jobs, NEW pc \in Pcs, Moves(j, pc), KindAt(j, pc),
           chain' \in Seq(Jobs) /\ ChainInv',
           gate' \in [blocked : BOOLEAN, suspended : BOOLEAN, retired : BOOLEAN, stopped : BOOLEAN],
           epoch' \in Nat, session' \in Jobs \cup {None}, conns' \in SUBSET Jobs,
           closing' \in SUBSET Jobs, confirmed' \in {"null", "yes", "no"},
           lane' \in Jobs \cup {None}
    PROVE  LineInv'
<1>1. TypeOK'
  BY DEF TypeOK, Moves
<1>2. KindInv'
  BY DEF LineInv, KindInv, KindAt, Registers, Moves
<1> QED
  BY <1>1, <1>2 DEF LineInv

-----------------------------------------------------------------------------
(* Types and the chain, action by action                                   *)

\* The calls that reach no work keep the types and the chain.
LEMMA CallsKeepLine ==
    ASSUME LineInv, NEW j \in Jobs,
           \/ OpenSession(j) \/ CredentialMissing(j) \/ OpenReturns(j) \/ LaneDrops(j) \/ Stop(j)
    PROVE  LineInv'
<1> USE SessionsAssumption
<1>0. TypeOK /\ KindAt(j, job[j].pc) /\ job[j] \in JobStates
  BY DEF LineInv, KindInv, TypeOK
<1>1. CASE OpenSession(j)
  <2>1. CASE ~Allowed(epoch)
    <3>1. Moves(j, "refused") /\ chain' = chain
      BY <1>0, <1>1, <2>1, GotoMoves DEF OpenSession, Pcs, Ended
    <3>2. chain' \in Seq(Jobs) /\ ChainInv'
      BY <1>1, <3>1, ChainKept DEF OpenSession, At, Works, Pcs, Ended
    <3> QED
      BY <1>0, <1>1, <2>1, <3>1, <3>2, LineMoves DEF OpenSession, KindAt, Pcs, Ended, TypeOK
  <2>2. CASE Allowed(epoch) /\ session # None
    <3>1. Moves(j, "done") /\ chain' = chain
      BY <1>0, <1>1, <2>2, GotoMoves DEF OpenSession, Pcs, Ended
    <3>2. chain' \in Seq(Jobs) /\ ChainInv'
      BY <1>1, <3>1, ChainKept DEF OpenSession, At, Works, Pcs, Ended
    <3> QED
      BY <1>0, <1>1, <2>2, <3>1, <3>2, LineMoves DEF OpenSession, KindAt, Pcs, Ended, TypeOK
  <2>3. CASE Allowed(epoch) /\ session = None
    <3> DEFINE r == [job[j] EXCEPT !.pc = "credential", !.epoch = epoch]
    <3>0. job[j] \in JobStates /\ epoch \in Nat
      BY <1>0 DEF TypeOK
    <3>1. r \in JobStates /\ r.pc = "credential"
      BY <3>0 DEF JobStates
    <3>2. job' = [job EXCEPT ![j] = r] /\ UNCHANGED <<lane, gate, epoch, session, conns, closing,
                                                     confirmed, chain>>
      BY <1>1, <2>3 DEF OpenSession
    <3> HIDE DEF r
    <3>3. Moves(j, "credential")
      BY <1>0, <3>1, <3>2 DEF Moves, TypeOK
    <3>4. chain' \in Seq(Jobs) /\ ChainInv'
      BY <1>1, <3>2, <3>3, ChainKept DEF OpenSession, At, Works, Pcs
    <3> QED
      BY <1>0, <1>1, <3>2, <3>3, <3>4, LineMoves DEF OpenSession, KindAt, Pcs, TypeOK
  <2> QED
    BY <2>1, <2>2, <2>3
<1>2. CASE CredentialMissing(j)
  <2>1. Moves(j, "failed") /\ chain' = chain
    BY <1>0, <1>2, GotoMoves DEF CredentialMissing, Pcs, Ended
  <2>2. chain' \in Seq(Jobs) /\ ChainInv'
    BY <1>2, <2>1, ChainKept DEF CredentialMissing, At, Works, Pcs, Ended
  <2> QED
    BY <1>0, <1>2, <2>1, <2>2, LineMoves DEF CredentialMissing, KindAt, Pcs, Ended, TypeOK
<1>3. CASE OpenReturns(j)
  <2>1. PICK pc \in {"done", "failed"} : Moves(j, pc) /\ chain' = chain
    BY <1>0, <1>3, GotoMoves DEF OpenReturns, Pcs, Ended
  <2>2. chain' \in Seq(Jobs) /\ ChainInv'
    BY <1>3, <2>1, ChainKept DEF OpenReturns, At, Works, Pcs, Ended
  <2>3. lane' \in Jobs \cup {None}
    BY <1>0, <1>3 DEF OpenReturns, Usable, TypeOK
  <2> QED
    BY <1>0, <1>3, <2>1, <2>2, <2>3, LineMoves DEF OpenReturns, KindAt, Pcs, Ended, TypeOK
<1>4. CASE LaneDrops(j)
  <2>1. Moves(j, "dropped") /\ chain' = chain
    BY <1>0, <1>4, GotoMoves DEF LaneDrops, Pcs
  <2>2. chain' \in Seq(Jobs) /\ ChainInv'
    BY <1>4, <2>1, ChainKept DEF LaneDrops, At, Works, Pcs
  <2> QED
    BY <1>0, <1>4, <2>1, <2>2, LineMoves DEF LaneDrops, KindAt, Pcs, TypeOK
<1>5. CASE Stop(j)
  <2> DEFINE w == {chain[i] : i \in 1 .. Len(chain)}
             r == [job[j] EXCEPT !.pc = "draining", !.waits = w]
  <2>1. w \in SUBSET Jobs /\ job[j] \in JobStates
    BY <1>0 DEF TypeOK
  <2> HIDE DEF w
  <2>2. r \in JobStates /\ r.pc = "draining"
    BY <2>1 DEF JobStates
  <2>3. job' = [job EXCEPT ![j] = r] /\ chain' = chain
    BY <1>5 DEF Stop, w
  <2> HIDE DEF r
  <2>4. Moves(j, "draining")
    BY <1>0, <2>2, <2>3 DEF Moves, TypeOK
  <2>5. chain' \in Seq(Jobs) /\ ChainInv'
    BY <1>5, <2>3, <2>4, ChainKept DEF Stop, Pcs
  <2> QED
    BY <1>0, <1>5, <2>3, <2>4, <2>5, LineMoves DEF Stop, KindAt, Pcs, TypeOK
<1> QED
  BY <1>1, <1>2, <1>3, <1>4, <1>5

\* The calls that queue a work keep the types and the chain.
LEMMA QueuesKeepLine ==
    ASSUME LineInv, NEW j \in Jobs, OpenRegister(j) \/ Activate(j) \/ Close(j)
    PROVE  LineInv'
<1>0. TypeOK /\ KindAt(j, job[j].pc) /\ epoch \in Nat
  BY DEF LineInv, KindInv, TypeOK
<1>1. CASE OpenRegister(j) /\ Allowed(job[j].epoch)
  <2>1. Moves(j, "queued") /\ chain' = Append(chain, j)
    BY <1>0, <1>1, QueuedMoves DEF OpenRegister, Queued
  <2>2. KindOf[j] # "stop" /\ job[j].pc \notin Works
    BY <1>0, <1>1 DEF OpenRegister, At, KindAt, Works
  <2>3. chain' \in Seq(Jobs) /\ ChainInv'
    BY <2>1, <2>2, ChainJoined
  <2> QED
    BY <1>0, <1>1, <2>1, <2>2, <2>3, LineMoves DEF OpenRegister, KindAt, Pcs, TypeOK
<1>2. CASE OpenRegister(j) /\ ~Allowed(job[j].epoch)
  <2>1. Moves(j, "refused") /\ chain' = chain
    BY <1>0, <1>2, GotoMoves DEF OpenRegister, Pcs, Ended
  <2>2. chain' \in Seq(Jobs) /\ ChainInv'
    BY <1>2, <2>1, ChainKept DEF OpenRegister, At, Works, Pcs, Ended
  <2> QED
    BY <1>0, <1>2, <2>1, <2>2, LineMoves DEF OpenRegister, KindAt, Pcs, Ended, TypeOK
<1>3. CASE Activate(j)
  <2>1. Moves(j, "queued") /\ chain' = Append(chain, j)
    BY <1>0, <1>3, QueuedMoves DEF Activate, Queued
  <2>2. KindOf[j] # "stop" /\ job[j].pc \notin Works
    BY <1>3 DEF Activate, At, Works
  <2>3. chain' \in Seq(Jobs) /\ ChainInv'
    BY <2>1, <2>2, ChainJoined
  <2>4. gate' \in [blocked : BOOLEAN, suspended : BOOLEAN, retired : BOOLEAN, stopped : BOOLEAN]
    BY <1>0, <1>3 DEF Activate, TypeOK
  <2> QED
    BY <1>0, <1>3, <2>1, <2>2, <2>3, <2>4, LineMoves DEF Activate, KindAt, Pcs, TypeOK
<1>4. CASE Close(j)
  <2>0. epoch + 1 \in Nat /\ Queued(j, epoch + 1)
    BY <1>0, <1>4 DEF Close
  <2>1. Moves(j, "queued") /\ chain' = Append(chain, j)
    BY <1>0, <2>0, QueuedMoves DEF Queued
  <2>2. KindOf[j] # "stop" /\ job[j].pc \notin Works
    BY <1>4 DEF Close, At, Works
  <2>3. chain' \in Seq(Jobs) /\ ChainInv'
    BY <2>1, <2>2, ChainJoined
  <2>4. gate' \in [blocked : BOOLEAN, suspended : BOOLEAN, retired : BOOLEAN, stopped : BOOLEAN]
    BY <1>0, <1>4 DEF Close, TypeOK
  <2>5. confirmed' \in {"null", "yes", "no"} /\ epoch' \in Nat
    BY <1>0, <1>4 DEF Close, TypeOK
  <2> QED
    BY <1>0, <1>4, <2>1, <2>2, <2>3, <2>4, <2>5, LineMoves DEF Close, KindAt, Pcs, TypeOK
<1> QED
  BY <1>1, <1>2, <1>3, <1>4

\* What closeSession does to the types.
LEMMA CloseSessionTypes ==
    ASSUME LineInv, NEW j \in Jobs, CloseSession(j)
    PROVE  /\ \E pc \in {"closing", "closed"} : Moves(j, pc)
           /\ session' = None /\ lane' \in Jobs \cup {None} /\ closing' \in SUBSET Jobs
           /\ confirmed' \in {"null", "yes", "no"}
<1>0. TypeOK
  BY DEF LineInv
<1> DEFINE all == closing \cup ({session} \ {None})
<1>1. all \in SUBSET Jobs
  BY <1>0 DEF TypeOK
<1>2. ClosesNext(j, all) /\ closing' = closing \cup ({job'[j].cur} \ {None})
  BY DEF CloseSession
<1>3. /\ \E pc \in {"closing", "closed"} : Moves(j, pc)
      /\ job'[j].cur \in Jobs \cup {None} /\ confirmed' \in {confirmed, "null"}
  <2> HIDE DEF all
  <2> QED
    BY <1>0, <1>1, <1>2, ClosesNextMoves
<1>4. session' = None /\ lane' \in {None, lane}
  BY DEF CloseSession, Unregistered
<1> HIDE DEF all
<1> QED
  BY <1>0, <1>2, <1>3, <1>4 DEF TypeOK

\* The works that go on keep the types and the chain.
LEMMA WorksKeepLine ==
    ASSUME LineInv, NEW j \in Jobs, RunWork(j) \/ StopCloses(j) \/ CloseConfirmed(j)
    PROVE  LineInv'
<1>0. TypeOK /\ KindAt(j, job[j].pc)
  BY DEF LineInv, KindInv
<1>1. CASE RunWork(j) /\ Registers(j) /\ ~Allowed(job[j].epoch)
  <2>1. Leaves(j, "refused") /\ Moves(j, "refused")
    BY <1>0, <1>1, LeavesMoves DEF RunWork, Pcs, Ended
  <2>2. KindOf[j] # "stop" /\ chain' = Tail(chain)
    BY <1>1, <2>1 DEF Registers, Leaves
  <2>3. chain # <<>> /\ chain[1] = j
    <3>1. \E i \in 1 .. Len(chain) : chain[i] = j
      BY <1>1, <2>2 DEF LineInv, ChainInv, RunWork, At, Works
    <3>2. chain \in Seq(Jobs) /\ Len(chain) \in Nat /\ Head(chain) = j
      BY <1>0, <1>1 DEF TypeOK, RunWork
    <3> QED
      BY <3>1, <3>2
  <2>4. chain' \in Seq(Jobs) /\ ChainInv'
    BY <2>1, <2>2, <2>3, ChainLeft DEF Ended
  <2> QED
    BY <1>0, <1>1, <2>1, <2>4, LineMoves DEF RunWork, KindAt, Pcs, Ended, TypeOK
<1>2. CASE RunWork(j) /\ ~(Registers(j) /\ ~Allowed(job[j].epoch))
  <2>1. /\ CloseSession(j) /\ chain' = chain /\ gate' = gate /\ epoch' = epoch /\ conns' = conns
        /\ job[j].pc = "queued" /\ Head(chain) = j
    BY <1>2 DEF RunWork, At
  <2>2. PICK pc \in {"closing", "closed"} : Moves(j, pc)
    BY <2>1, CloseSessionTypes
  <2>3. chain[1] = j
    <3>1. \E i \in 1 .. Len(chain) : chain[i] = j
      BY <1>0, <2>1 DEF LineInv, ChainInv, Works, KindAt
    <3>2. chain \in Seq(Jobs) /\ Len(chain) \in Nat
      BY <1>0 DEF TypeOK
    <3> QED
      BY <2>1, <3>1, <3>2
  <2>4. chain' \in Seq(Jobs) /\ ChainInv'
    BY <2>1, <2>2, <2>3, ChainKept DEF Works, Pcs
  <2>5. pc \in Pcs /\ KindAt(j, pc)
    BY DEF KindAt, Pcs
  <2>6. /\ session' \in Jobs \cup {None} /\ lane' \in Jobs \cup {None}
        /\ closing' \in SUBSET Jobs /\ confirmed' \in {"null", "yes", "no"}
    BY <2>1, CloseSessionTypes
  <2>7. /\ gate' \in [blocked : BOOLEAN, suspended : BOOLEAN, retired : BOOLEAN, stopped : BOOLEAN]
        /\ epoch' \in Nat /\ conns' \in SUBSET Jobs
    BY <1>0, <2>1 DEF TypeOK
  <2> QED
    BY <2>2, <2>4, <2>5, <2>6, <2>7, LineMoves
<1>3. CASE StopCloses(j)
  <2>1. /\ CloseSession(j) /\ chain' = chain /\ gate' = gate /\ epoch' = epoch /\ conns' = conns
        /\ KindOf[j] = "stop"
    BY <1>0, <1>3 DEF StopCloses, At, KindAt
  <2>2. PICK pc \in {"closing", "closed"} : Moves(j, pc)
    BY <2>1, CloseSessionTypes
  <2>4. chain' \in Seq(Jobs) /\ ChainInv'
    BY <2>1, <2>2, ChainKept DEF Pcs
  <2>5. pc \in Pcs /\ KindAt(j, pc)
    BY DEF KindAt, Pcs
  <2>6. /\ session' \in Jobs \cup {None} /\ lane' \in Jobs \cup {None}
        /\ closing' \in SUBSET Jobs /\ confirmed' \in {"null", "yes", "no"}
    BY <2>1, CloseSessionTypes
  <2>7. /\ gate' \in [blocked : BOOLEAN, suspended : BOOLEAN, retired : BOOLEAN, stopped : BOOLEAN]
        /\ epoch' \in Nat /\ conns' \in SUBSET Jobs
    BY <1>0, <2>1 DEF TypeOK
  <2> QED
    BY <2>2, <2>4, <2>5, <2>6, <2>7, LineMoves
<1>4. CASE CloseConfirmed(j)
  <2>1. /\ job[j].pc = "closing" /\ chain' = chain
        /\ \E pc \in {"closing", "closed"} : Moves(j, pc)
        /\ confirmed' \in {"null", "yes", "no"} /\ job'[j].cur \in Jobs \cup {None}
    <3>1. CASE job[j].todo = {}
      <4> DEFINE r == [job[j] EXCEPT !.pc = "closed", !.cur = None]
      <4>1. job[j] \in JobStates
        BY <1>0 DEF TypeOK
      <4>2. r \in JobStates /\ r.pc = "closed" /\ r.cur = None
        BY <4>1 DEF JobStates
      <4>3. /\ job' = [job EXCEPT ![j] = r] /\ confirmed' \in {"yes", "no"} /\ chain' = chain
            /\ job[j].pc = "closing"
        BY <1>4, <3>1 DEF CloseConfirmed, At
      <4> HIDE DEF r
      <4> QED
        BY <1>0, <4>2, <4>3 DEF Moves, TypeOK
    <3>2. CASE job[j].todo # {}
      <4>1. job[j].todo \in SUBSET Jobs
        BY <1>0 DEF TypeOK, JobStates
      <4>2. ClosesNext(j, job[j].todo) /\ chain' = chain /\ job[j].pc = "closing"
        BY <1>4, <3>2 DEF CloseConfirmed, At
      <4>3. /\ \/ job[j].todo = {} /\ Moves(j, "closed") /\ confirmed' = confirmed
                  /\ job'[j].cur = None
               \/ /\ Moves(j, "closing") /\ confirmed' = "null"
                  /\ job'[j].cur \in job[j].todo
        BY <1>0, <4>1, <4>2, ClosesNextMoves
      <4> QED
        BY <3>2, <4>1, <4>2, <4>3
    <3> QED
      BY <3>1, <3>2
  <2>2. PICK pc \in {"closing", "closed"} : Moves(j, pc)
    BY <2>1
  <2>3. KindOf[j] = "stop" \/ chain[1] = j
    BY <2>1, HeadOnly DEF Busy, Works
  <2>4. chain' \in Seq(Jobs) /\ ChainInv'
    BY <2>1, <2>2, <2>3, ChainKept DEF Works, Pcs
  <2>5. pc \in Pcs /\ KindAt(j, pc)
    BY DEF KindAt, Pcs
  <2>6. closing' \in SUBSET Jobs /\ conns' \in SUBSET Jobs
    BY <1>0, <1>4, <2>1 DEF CloseConfirmed, TypeOK
  <2>7. UNCHANGED <<gate, epoch, session, lane>>
    BY <1>4 DEF CloseConfirmed
  <2> QED
    BY <1>0, <2>1, <2>2, <2>4, <2>5, <2>6, <2>7, LineMoves DEF TypeOK
<1> QED
  BY <1>1, <1>2, <1>3, <1>4

\* A work that ends leaves the chain, unless it is stop().
LEMMA EndKeepsChain ==
    ASSUME LineInv, NEW j \in Jobs, NEW pc \in Ended \cup {"registered"}, Leaves(j, pc),
           job[j].pc \in Busy
    PROVE  Moves(j, pc) /\ chain' \in Seq(Jobs) /\ ChainInv'
<1>1. TypeOK /\ pc \in Pcs /\ pc \notin Works
  BY DEF LineInv, Pcs, Ended, Works
<1>2. Moves(j, pc)
  BY <1>1, LeavesMoves
<1>3. CASE KindOf[j] = "stop"
  BY <1>1, <1>2, <1>3, ChainKept DEF Leaves
<1>4. CASE KindOf[j] # "stop"
  <2>1. chain # <<>> /\ chain[1] = j
    BY <1>4, HeadOnly
  <2> QED
    BY <1>2, <1>4, <2>1, ChainLeft DEF Leaves
<1> QED
  BY <1>2, <1>3, <1>4

\* The works that end, connect or sign in keep the types and the chain.
LEMMA EndsKeepLine ==
    ASSUME LineInv, NEW j \in Jobs,
           \/ CloseFails(j) \/ Connects(j) \/ CloseEnds(j)
           \/ SignsIn(j) \/ SigninFails(j) \/ Undone(j)
    PROVE  LineInv'
<1>0. TypeOK /\ KindAt(j, job[j].pc)
  BY DEF LineInv, KindInv
<1>1. CASE CloseFails(j)
  <2>1. Moves(j, "failed") /\ chain' \in Seq(Jobs) /\ ChainInv'
    BY <1>1, EndKeepsChain DEF CloseFails, At, Busy, Works, Ended
  <2> QED
    BY <1>0, <1>1, <2>1, LineMoves DEF CloseFails, KindAt, Pcs, Ended, TypeOK
<1>2. CASE Connects(j) /\ Allowed(job[j].epoch)
  <2>1. Moves(j, "signin") /\ chain' = chain
    BY <1>0, <1>2, GotoMoves DEF Connects, Pcs
  <2>2. chain[1] = j
    BY <1>2, HeadOnly DEF Connects, At, Registers, Busy, Works
  <2>3. chain' \in Seq(Jobs) /\ ChainInv'
    BY <1>2, <2>1, <2>2, ChainKept DEF Connects, At, Works, Pcs
  <2> QED
    BY <1>0, <1>2, <2>1, <2>3, LineMoves DEF Connects, KindAt, Pcs, TypeOK
<1>3. CASE Connects(j) /\ ~Allowed(job[j].epoch)
  <2>1. Moves(j, "refused") /\ chain' \in Seq(Jobs) /\ ChainInv'
    BY <1>3, EndKeepsChain DEF Connects, At, Busy, Works, Ended
  <2> QED
    BY <1>0, <1>3, <2>1, LineMoves DEF Connects, KindAt, Pcs, Ended, TypeOK
<1>4. CASE CloseEnds(j)
  <2>1. Moves(j, "done") /\ chain' \in Seq(Jobs) /\ ChainInv'
    BY <1>4, EndKeepsChain DEF CloseEnds, At, Busy, Works, Ended
  <2>2. gate' \in [blocked : BOOLEAN, suspended : BOOLEAN, retired : BOOLEAN, stopped : BOOLEAN]
    BY <1>0, <1>4 DEF CloseEnds, TypeOK
  <2> QED
    BY <1>0, <1>4, <2>1, <2>2, LineMoves DEF CloseEnds, KindAt, Pcs, Ended, TypeOK
<1>5. CASE SignsIn(j) /\ Allowed(job[j].epoch)
  <2>1. PICK pc \in {"registered", "done"} :
           Leaves(j, pc) /\ (pc = "registered" => KindOf[j] = "open")
    BY <1>5 DEF SignsIn
  <2>2. Moves(j, pc) /\ chain' \in Seq(Jobs) /\ ChainInv'
    BY <1>5, <2>1, EndKeepsChain DEF SignsIn, At, Busy, Works, Ended
  <2> QED
    BY <1>0, <1>5, <2>1, <2>2, LineMoves DEF SignsIn, KindAt, Pcs, Ended, TypeOK
<1>6. CASE (SignsIn(j) /\ ~Allowed(job[j].epoch)) \/ SigninFails(j)
  <2>1. /\ Undoes(j) /\ job[j].pc = "signin" /\ UNCHANGED <<gate, epoch, conns, lane>>
    BY <1>6 DEF SignsIn, SigninFails, At
  <2>2. Moves(j, "undo") /\ chain' = chain /\ session' = session
    BY <1>0, <2>1, UndoesMoves DEF Undoes
  <2>3. Registers(j) /\ chain[1] = j
    BY <1>0, <2>1, HeadOnly DEF KindAt, Registers, Busy, Works
  <2>4. chain' \in Seq(Jobs) /\ ChainInv'
    BY <2>1, <2>2, <2>3, ChainKept DEF Works, Pcs
  <2>5. closing' \in SUBSET Jobs /\ confirmed' = "null"
    BY <1>0, <2>1 DEF Undoes, TypeOK
  <2> QED
    BY <1>0, <2>1, <2>2, <2>3, <2>4, <2>5, LineMoves DEF KindAt, Pcs, TypeOK
<1>7. CASE Undone(j)
  <2>1. Moves(j, "failed") /\ chain' \in Seq(Jobs) /\ ChainInv'
    BY <1>7, EndKeepsChain DEF Undone, At, Busy, Works, Ended
  <2>2. /\ conns' \in SUBSET Jobs /\ closing' \in SUBSET Jobs
        /\ confirmed' \in {"null", "yes", "no"}
    BY <1>0, <1>7 DEF Undone, TypeOK
  <2> QED
    BY <1>0, <1>7, <2>1, <2>2, LineMoves DEF Undone, KindAt, Pcs, Ended, TypeOK
<1> QED
  BY <1>1, <1>2, <1>3, <1>4, <1>5, <1>6, <1>7

-----------------------------------------------------------------------------
(* The connections, action by action                                       *)

\* A call that begins or ends no work changes no connection.
LEMMA QuietKeepsHand ==
    ASSUME LineInv, HandInv, NEW j \in Jobs, NEW pc \in Pcs \ Busy, Moves(j, pc),
           job[j].pc \notin Busy, KindOf[j] # "stop",
           session' = session, conns' = conns, closing' = closing,
           confirmed' = "yes" => closing = {},
           lane' # None => lane' = session,
           gate'.stopped = gate.stopped, gate'.suspended => gate'.blocked
    PROVE  HandInv'
<1>1. StopInv'
  BY DEF HandInv, StopInv, Moves, Connected, Busy, Works
<1>2. WorkInv'
  BY DEF HandInv, WorkInv, Moves, Busy, Works
<1>3. ConnInv'
  <2>1. OneConnection' /\ closing' \subseteq conns' /\ (session' # None => session' \in conns')
        /\ (confirmed' = "yes" => closing' = {}) /\ LaneIsCurrent'
    BY DEF HandInv, ConnInv, OneConnection, LaneIsCurrent
  <2>2. NoneLost'
    <3>1. \A c \in conns : c \in Jobs
      BY DEF LineInv, TypeOK
    <3>2. \A c \in Jobs : job[c].pc = "signin" => job'[c].pc = "signin"
      BY DEF Moves, Busy, Works
    <3> QED
      BY <3>1, <3>2 DEF HandInv, ConnInv, NoneLost, At
  <2>3. StopLeavesNothing'
    BY DEF HandInv, ConnInv, StopLeavesNothing, At, Moves
  <2> QED
    BY <2>1, <2>2, <2>3 DEF ConnInv
<1> QED
  BY <1>1, <1>2, <1>3 DEF HandInv, GateInv

\* The calls, up to the queueing of their works.
LEMMA CallsKeepHand ==
    ASSUME LineInv, HandInv, NEW j \in Jobs,
           \/ OpenSession(j) \/ OpenRegister(j) \/ CredentialMissing(j) \/ OpenReturns(j)
           \/ Activate(j) \/ LaneDrops(j) \/ Close(j)
    PROVE  HandInv'
<1>0. /\ TypeOK /\ KindAt(j, job[j].pc) /\ epoch \in Nat
      /\ gate \in [blocked : BOOLEAN, suspended : BOOLEAN, retired : BOOLEAN, stopped : BOOLEAN]
      /\ (lane # None => lane = session) /\ (gate.suspended => gate.blocked)
      /\ (confirmed = "yes" => closing = {})
  BY DEF LineInv, KindInv, TypeOK, HandInv, ConnInv, LaneIsCurrent, GateInv
<1>1. CASE OpenSession(j)
  <2>1. \E pc \in {"refused", "done", "credential"} : Moves(j, pc)
    <3>1. CASE Goto(j, "refused") \/ Goto(j, "done")
      BY <1>0, <3>1, GotoMoves DEF Pcs, Ended
    <3>2. CASE job' = [job EXCEPT ![j].pc = "credential", ![j].epoch = epoch]
      <4> DEFINE r == [job[j] EXCEPT !.pc = "credential", !.epoch = epoch]
      <4>1. job[j] \in JobStates
        BY <1>0 DEF TypeOK
      <4>2. r \in JobStates /\ r.pc = "credential"
        BY <1>0, <4>1 DEF JobStates
      <4>3. job' = [job EXCEPT ![j] = r]
        BY <3>2
      <4> HIDE DEF r
      <4> QED
        BY <1>0, <4>2, <4>3 DEF Moves, TypeOK
    <3> QED
      BY <1>1, <3>1, <3>2 DEF OpenSession
  <2>2. /\ UNCHANGED <<gate, session, conns, closing, confirmed>>
        /\ lane' # None => lane' = session
        /\ job[j].pc = "idle" /\ KindOf[j] = "open"
    BY <1>0, <1>1 DEF OpenSession, At
  <2> QED
    BY <1>0, <2>1, <2>2, QuietKeepsHand DEF Pcs, Ended, Busy, Works
<1>2. CASE OpenRegister(j)
  <2>1. \E pc \in {"refused", "queued"} : Moves(j, pc)
    <3>1. CASE Queued(j, epoch)
      BY <1>0, <3>1, QueuedMoves
    <3>2. CASE Goto(j, "refused")
      BY <1>0, <3>2, GotoMoves DEF Pcs, Ended
    <3> QED
      BY <1>2, <3>1, <3>2 DEF OpenRegister
  <2>2. /\ UNCHANGED <<gate, session, conns, closing, confirmed, lane>>
        /\ job[j].pc = "credential" /\ KindOf[j] = "open"
    BY <1>0, <1>2 DEF OpenRegister, At, KindAt
  <2> QED
    BY <1>0, <2>1, <2>2, QuietKeepsHand DEF Pcs, Ended, Busy, Works
<1>3. CASE CredentialMissing(j)
  <2>1. Moves(j, "failed")
    BY <1>0, <1>3, GotoMoves DEF CredentialMissing, Pcs, Ended
  <2>2. /\ UNCHANGED <<gate, session, conns, closing, confirmed, lane>>
        /\ job[j].pc = "credential" /\ KindOf[j] = "open"
    BY <1>0, <1>3 DEF CredentialMissing, At, KindAt
  <2> QED
    BY <1>0, <2>1, <2>2, QuietKeepsHand DEF Pcs, Ended, Busy, Works
<1>4. CASE OpenReturns(j)
  <2>1. \E pc \in {"done", "failed"} : Moves(j, pc)
    BY <1>0, <1>4, GotoMoves DEF OpenReturns, Pcs, Ended
  <2>2. /\ UNCHANGED <<gate, session, conns, closing, confirmed>>
        /\ lane' # None => lane' = session
        /\ job[j].pc = "registered" /\ KindOf[j] = "open"
    BY <1>0, <1>4 DEF OpenReturns, Usable, At, KindAt
  <2> QED
    BY <1>0, <2>1, <2>2, QuietKeepsHand DEF Pcs, Ended, Busy, Works
<1>5. CASE Activate(j)
  <2>1. Moves(j, "queued")
    BY <1>0, <1>5, QueuedMoves DEF Activate
  <2>2. /\ UNCHANGED <<session, conns, closing, confirmed, lane>>
        /\ job[j].pc = "idle" /\ KindOf[j] # "stop"
    BY <1>5 DEF Activate, At
  <2>3. gate'.stopped = gate.stopped /\ (gate'.suspended => gate'.blocked)
    BY <1>0, <1>5 DEF Activate
  <2> QED
    BY <1>0, <2>1, <2>2, <2>3, QuietKeepsHand DEF Pcs, Ended, Busy, Works
<1>6. CASE LaneDrops(j)
  <2>1. Moves(j, "dropped")
    BY <1>0, <1>6, GotoMoves DEF LaneDrops, Pcs
  <2>2. /\ UNCHANGED <<gate, session, conns, closing, confirmed>> /\ lane' = None
        /\ job[j].pc = "idle" /\ KindOf[j] = "idle"
    BY <1>6 DEF LaneDrops, At
  <2> QED
    BY <1>0, <2>1, <2>2, QuietKeepsHand DEF Pcs, Ended, Busy, Works
<1>7. CASE Close(j)
  <2>0. epoch + 1 \in Nat /\ Queued(j, epoch + 1)
    BY <1>0, <1>7 DEF Close
  <2>1. Moves(j, "queued")
    BY <1>0, <2>0, QueuedMoves
  <2>2. /\ UNCHANGED <<session, conns, closing, lane>> /\ confirmed' \in {confirmed, "null"}
        /\ job[j].pc \in {"idle", "dropped"} /\ KindOf[j] # "stop"
    BY <1>7 DEF Close, At
  <2>3. gate'.stopped = gate.stopped /\ (gate'.suspended => gate'.blocked)
    BY <1>0, <1>7 DEF Close
  <2> QED
    BY <1>0, <2>1, <2>2, <2>3, QuietKeepsHand DEF Pcs, Ended, Busy, Works
<1> QED
  BY <1>1, <1>2, <1>3, <1>4, <1>5, <1>6, <1>7

\* stop() notes the works it has to wait for.
LEMMA StopKeepsHand ==
    ASSUME LineInv, HandInv, NEW j \in Jobs, Stop(j)
    PROVE  HandInv'
<1> DEFINE w == {chain[i] : i \in 1 .. Len(chain)}
           r == [job[j] EXCEPT !.pc = "draining", !.waits = w]
<1>0. TypeOK /\ KindInv /\ ChainInv
  BY DEF LineInv
<1>1. w \in SUBSET Jobs /\ job[j] \in JobStates
  BY <1>0 DEF TypeOK
<1>2. \A i \in Jobs : Connected(i) => i \in w
  <2>1. \A i \in Jobs : Connected(i) => KindOf[i] # "stop" /\ job[i].pc \in Works
    BY <1>0 DEF KindInv, KindAt, Registers, Connected, Works
  <2> QED
    BY <1>0, <2>1 DEF ChainInv
<1>3. /\ job' = [job EXCEPT ![j] = r]
      /\ UNCHANGED <<session, conns, closing, confirmed, lane>>
      /\ gate' = [gate EXCEPT !.stopped = TRUE] /\ job[j].pc = "idle" /\ KindOf[j] = "stop"
  BY DEF Stop, At
<1> HIDE DEF w
<1>4. r \in JobStates /\ r.pc = "draining" /\ r.waits = w
  BY <1>1 DEF JobStates
<1> HIDE DEF r
<1>5. Moves(j, "draining") /\ job'[j].waits = w
  BY <1>0, <1>3, <1>4 DEF Moves, TypeOK
<1>6. /\ gate'.stopped /\ gate'.suspended = gate.suspended /\ gate'.blocked = gate.blocked
  BY <1>0, <1>3 DEF TypeOK
<1>7. StopInv'
  <2>1. \A i \in Jobs : Connected(i)' => Connected(i)
    BY <1>5 DEF Connected, Moves
  <2>2. \A s \in Jobs : KindOf[s] = "stop" => s = j
    BY <1>3, SessionsAssumption
  <2> QED
    BY <1>2, <1>5, <1>6, <2>1, <2>2 DEF StopInv, Moves
<1>8. WorkInv'
  BY <1>3, <1>5 DEF HandInv, WorkInv, Moves, Busy, Works
<1>9. ConnInv'
  <2>1. OneConnection' /\ closing' \subseteq conns' /\ (session' # None => session' \in conns')
        /\ (confirmed' = "yes" => closing' = {}) /\ LaneIsCurrent'
    BY <1>3 DEF HandInv, ConnInv, OneConnection, LaneIsCurrent
  <2>2. NoneLost'
    BY <1>3, <1>5 DEF HandInv, ConnInv, NoneLost, At, Moves
  <2>3. StopLeavesNothing'
    BY <1>3, <1>5 DEF HandInv, ConnInv, StopLeavesNothing, At, Moves
  <2> QED
    BY <2>1, <2>2, <2>3 DEF ConnInv
<1> QED
  BY <1>6, <1>7, <1>8, <1>9 DEF HandInv, GateInv

\* closeSession, while no connection is being opened.
LEMMA CloseSessionKeepsHand ==
    ASSUME LineInv, HandInv, NEW j \in Jobs, CloseSession(j), UNCHANGED <<gate, conns>>,
           job[j].pc \in {"queued", "draining"}, KindOf[j] = "stop" => job[j].pc = "draining",
           \A i \in Jobs : ~Connected(i)
    PROVE  HandInv'
<1> DEFINE all == closing \cup ({session} \ {None})
<1>0. TypeOK /\ all \in SUBSET Jobs /\ conns \in SUBSET Jobs /\ session \in Jobs \cup {None}
  BY DEF LineInv, TypeOK
<1>1. all = conns /\ \A c, d \in conns : c = d
  BY <1>0, SessionsAssumption DEF HandInv, ConnInv, OneConnection, NoneLost, At, Connected
<1>2. /\ ClosesNext(j, all) /\ closing' = closing \cup ({job'[j].cur} \ {None})
      /\ session' = None /\ lane' = (IF session # None THEN None ELSE lane)
  BY DEF CloseSession, Unregistered
<1> HIDE DEF all
<1>3. /\ job'[j].waits = job[j].waits
      /\ \/ /\ conns = {} /\ Moves(j, "closed") /\ confirmed' = confirmed
            /\ job'[j].cur = None
         \/ /\ Moves(j, "closing") /\ confirmed' = "null"
            /\ job'[j].cur \in conns /\ job'[j].todo = {}
  BY <1>0, <1>1, <1>2, ClosesNextMoves
<1>4. \A i \in Jobs : i # j => job'[i] = job[i]
  BY <1>3 DEF Moves
<1>5. job'[j].pc \in {"closed", "closing"}
  BY <1>3 DEF Moves
<1>6. StopInv'
  <2>1. \A i \in Jobs : ~Connected(i)'
    BY <1>4, <1>5 DEF Connected
  <2>2. \A s \in Jobs : KindOf[s] = "stop" /\ job'[s].pc # "idle" => job[s].pc # "idle"
    BY <1>4
  <2> QED
    BY <2>1, <2>2 DEF HandInv, StopInv
<1>7. WorkInv'
  <2>1. job'[j].pc = "closing" =>
           job'[j].cur \in Jobs /\ job'[j].todo = {} /\ conns \subseteq {job'[j].cur}
    BY <1>0, <1>1, <1>3 DEF Moves
  <2>2. job'[j].pc = "closed" => conns = {}
    BY <1>3 DEF Moves
  <2> QED
    BY <1>2, <1>4, <1>5, <2>1, <2>2 DEF HandInv, WorkInv
<1>8. ConnInv'
  <2>1. closing' \subseteq conns' /\ (confirmed' = "yes" => closing' = {})
    BY <1>0, <1>2, <1>3 DEF HandInv, ConnInv
  <2>2. NoneLost'
    <3>1. conns # {} => job'[j].cur \in conns /\ job'[j].cur # None
      BY <1>0, <1>3, SessionsAssumption
    <3> QED
      BY <1>1, <1>2, <3>1 DEF NoneLost
  <2>3. OneConnection' /\ LaneIsCurrent'
    BY <1>1, <1>2 DEF HandInv, ConnInv, OneConnection, LaneIsCurrent
  <2>4. StopLeavesNothing'
    BY <1>4, <1>5 DEF HandInv, ConnInv, StopLeavesNothing, At
  <2> QED
    BY <1>2, <2>1, <2>2, <2>3, <2>4 DEF ConnInv
<1> QED
  BY <1>6, <1>7, <1>8 DEF HandInv, GateInv

\* A work that ends with the connections as they are.
LEMMA EndKeepsHand ==
    ASSUME LineInv, HandInv, NEW j \in Jobs, NEW pc \in Ended, Moves(j, pc),
           job[j].pc \in {"queued", "closing", "closed"},
           pc = "done" => conns = {},
           UNCHANGED <<session, conns, closing, lane>>,
           confirmed' = "yes" => closing = {},
           gate'.stopped = gate.stopped, gate'.suspended => gate'.blocked
    PROVE  HandInv'
<1>1. StopInv'
  BY DEF HandInv, StopInv, Moves, Connected, Ended
<1>2. WorkInv'
  BY DEF HandInv, WorkInv, Moves, Busy, Works, Ended
<1>3. ConnInv'
  <2>1. OneConnection' /\ closing' \subseteq conns' /\ (session' # None => session' \in conns')
        /\ (confirmed' = "yes" => closing' = {}) /\ LaneIsCurrent'
    BY DEF HandInv, ConnInv, OneConnection, LaneIsCurrent
  <2>2. NoneLost'
    <3>1. \A c \in conns : c \in Jobs
      BY DEF LineInv, TypeOK
    <3>2. \A c \in Jobs : job[c].pc = "signin" => job'[c].pc = "signin"
      BY DEF Moves
    <3> QED
      BY <3>1, <3>2 DEF HandInv, ConnInv, NoneLost, At
  <2>3. StopLeavesNothing'
    BY DEF HandInv, ConnInv, StopLeavesNothing, At, Moves
  <2> QED
    BY <2>1, <2>2, <2>3 DEF ConnInv
<1> QED
  BY <1>1, <1>2, <1>3 DEF HandInv, GateInv

\* The works up to the end of their closes.
LEMMA ClosesKeepHand ==
    ASSUME LineInv, HandInv, NEW j \in Jobs,
           \/ RunWork(j) \/ StopCloses(j) \/ CloseConfirmed(j) \/ CloseFails(j) \/ CloseEnds(j)
    PROVE  HandInv'
<1>0. /\ TypeOK /\ KindInv /\ (gate.suspended => gate.blocked)
      /\ gate \in [blocked : BOOLEAN, suspended : BOOLEAN, retired : BOOLEAN, stopped : BOOLEAN]
      /\ (confirmed = "yes" => closing = {})
  BY DEF LineInv, TypeOK, HandInv, GateInv, ConnInv
<1>1. \A i \in Jobs : Connected(i) => KindOf[i] # "stop" /\ job[i].pc \in Busy
  BY <1>0 DEF KindInv, KindAt, Registers, Connected, Busy, Works
<1>2. CASE RunWork(j) /\ Registers(j) /\ ~Allowed(job[j].epoch)
  <2>1. Moves(j, "refused") /\ job[j].pc = "queued"
        /\ UNCHANGED <<session, conns, closing, confirmed, lane, gate>>
    BY <1>0, <1>2, LeavesMoves DEF RunWork, At, Pcs, Ended
  <2> QED
    BY <1>0, <2>1, EndKeepsHand DEF Ended
<1>3. CASE RunWork(j) /\ ~(Registers(j) /\ ~Allowed(job[j].epoch))
  <2>1. /\ CloseSession(j) /\ gate' = gate /\ conns' = conns
        /\ job[j].pc = "queued" /\ Head(chain) = j /\ KindOf[j] # "stop"
    BY <1>0, <1>3 DEF RunWork, At, KindInv, KindAt
  <2>2. chain # <<>>
    BY <1>0, <2>1 DEF LineInv, ChainInv, TypeOK, Works
  <2>3. \A i \in Jobs : ~Connected(i)
    BY <1>1, <2>1, <2>2, HeadWaits
  <2> QED
    BY <2>1, <2>3, CloseSessionKeepsHand
<1>4. CASE StopCloses(j)
  <2>1. /\ CloseSession(j) /\ gate' = gate /\ conns' = conns /\ job[j].pc = "draining"
        /\ KindOf[j] = "stop" /\ \A i \in job[j].waits : job[i].pc \in Ended \cup {"registered"}
    BY <1>0, <1>4 DEF StopCloses, At, KindInv, KindAt
  <2>2. \A i \in Jobs : ~Connected(i)
    BY <2>1 DEF HandInv, StopInv, Connected, Ended
  <2> QED
    BY <2>1, <2>2, CloseSessionKeepsHand
<1>5. CASE CloseConfirmed(j)
  <2> DEFINE c == job[j].cur
             r == [job[j] EXCEPT !.pc = "closed", !.cur = None]
  <2>1. /\ job[j].pc = "closing" /\ job[j] \in JobStates /\ session = None
        /\ c \in Jobs /\ job[j].todo = {} /\ conns \subseteq {c} /\ closing \subseteq conns
    BY <1>0, <1>5 DEF CloseConfirmed, At, HandInv, WorkInv, ConnInv, TypeOK, Busy, Works
  <2>2. /\ job' = [job EXCEPT ![j] = r] /\ conns' = conns \ {c}
        /\ closing' = (closing \ {c}) \cup ({job'[j].cur} \ {None})
        /\ UNCHANGED <<gate, session, lane>>
    BY <1>5, <2>1 DEF CloseConfirmed
  <2>3. r \in JobStates /\ r.pc = "closed" /\ r.cur = None
    BY <2>1 DEF JobStates
  <2> HIDE DEF r
  <2>4. Moves(j, "closed") /\ conns' = {} /\ closing' = {}
    BY <1>0, <2>1, <2>2, <2>3 DEF Moves, TypeOK
  <2>5. \A i \in Jobs : ~Connected(i)
    <3>1. CASE KindOf[j] = "stop"
      BY <2>1, <3>1 DEF HandInv, StopInv
    <3>2. CASE KindOf[j] # "stop"
      BY <1>1, <2>1, <3>2, HeadOnly DEF Connected, Busy, Works
    <3> QED
      BY <3>1, <3>2
  <2>6. StopInv'
    BY <2>1, <2>2, <2>4, <2>5 DEF HandInv, StopInv, Connected, Moves
  <2>7. WorkInv'
    BY <2>1, <2>2, <2>4, <2>5 DEF HandInv, WorkInv, Connected, Moves
  <2>8. ConnInv'
    BY <2>1, <2>2, <2>4 DEF HandInv, ConnInv, OneConnection, NoneLost, LaneIsCurrent,
                            StopLeavesNothing, At, Moves
  <2> QED
    BY <2>2, <2>6, <2>7, <2>8 DEF HandInv, GateInv
<1>6. CASE CloseFails(j)
  <2>1. Moves(j, "failed") /\ job[j].pc = "closing" /\ confirmed' = "no"
        /\ UNCHANGED <<session, conns, closing, lane, gate>>
    BY <1>0, <1>6, LeavesMoves DEF CloseFails, At, Pcs, Ended
  <2> QED
    BY <1>0, <2>1, EndKeepsHand DEF Ended
<1>7. CASE CloseEnds(j)
  <2>1. Moves(j, "done") /\ job[j].pc = "closed"
        /\ UNCHANGED <<session, conns, closing, confirmed, lane>>
    BY <1>0, <1>7, LeavesMoves DEF CloseEnds, At, Pcs, Ended
  <2>2. gate'.stopped = gate.stopped /\ (gate'.suspended => gate'.blocked)
    BY <1>0, <1>7 DEF CloseEnds, Reopens
  <2>3. conns = {}
    BY <2>1 DEF HandInv, WorkInv
  <2> QED
    BY <1>0, <2>1, <2>2, <2>3, EndKeepsHand DEF Ended
<1> QED
  BY <1>2, <1>3, <1>4, <1>5, <1>6, <1>7

\* The works that open a connection, sign in, or give it up.
LEMMA SigninsKeepHand ==
    ASSUME LineInv, HandInv, NEW j \in Jobs,
           Connects(j) \/ SignsIn(j) \/ SigninFails(j) \/ Undone(j)
    PROVE  HandInv'
<1>0. /\ TypeOK /\ KindInv /\ (gate.suspended => gate.blocked)
      /\ (confirmed = "yes" => closing = {}) /\ conns \in SUBSET Jobs
  BY DEF LineInv, TypeOK, HandInv, GateInv, ConnInv
\* Whoever has the connection is alone, and nobody has stopped the registry beyond it.
<1>1. ASSUME job[j].pc \in Busy, Registers(j)
      PROVE  /\ \A i \in Jobs : KindOf[i] # "stop" /\ job[i].pc \in Busy => i = j
             /\ KindOf[j] # "stop" /\ session = None /\ lane = None
  BY <1>1, HeadOnly DEF Registers, HandInv, WorkInv, ConnInv, LaneIsCurrent
<1>2. CASE Connects(j) /\ Allowed(job[j].epoch)
  <2>1. /\ job[j].pc = "closed" /\ Registers(j) /\ ~gate.stopped /\ conns' = conns \cup {j}
        /\ Moves(j, "signin") /\ UNCHANGED <<gate, session, closing, confirmed, lane>>
    BY <1>0, <1>2, GotoMoves DEF Connects, Allowed, At, Pcs
  <2>2. conns = {} /\ closing = {} /\ conns' = {j}
    BY <2>1 DEF HandInv, WorkInv, ConnInv
  <2>3. \A s \in Jobs : KindOf[s] = "stop" => job[s].pc = "idle"
    BY <2>1 DEF HandInv, StopInv
  <2>4. KindOf[j] # "stop" /\ session = None /\ \A i \in Jobs : job[i].pc \in Busy => i = j
    BY <1>1, <2>1, <2>3 DEF Busy, Works
  <2>5. StopInv'
    BY <2>3, <2>4, <2>1 DEF StopInv, Moves
  <2>6. WorkInv'
    BY <2>1, <2>2, <2>4 DEF WorkInv, Moves, Busy, Works
  <2>7. ConnInv'
    BY <2>1, <2>2, <2>3, <2>4 DEF HandInv, ConnInv, OneConnection, NoneLost, LaneIsCurrent,
                                  StopLeavesNothing, At, Moves
  <2> QED
    BY <1>0, <2>1, <2>5, <2>6, <2>7 DEF HandInv, GateInv
<1>3. CASE Connects(j) /\ ~Allowed(job[j].epoch)
  <2>1. Moves(j, "refused") /\ job[j].pc = "closed"
        /\ UNCHANGED <<gate, session, conns, closing, confirmed, lane>>
    BY <1>0, <1>3, LeavesMoves DEF Connects, At, Pcs, Ended
  <2> QED
    BY <1>0, <2>1, EndKeepsHand DEF Ended
<1>4. CASE SignsIn(j) /\ Allowed(job[j].epoch)
  <2>1. /\ job[j].pc = "signin" /\ session' = j
        /\ \E pc \in {"registered", "done"} : Moves(j, pc)
        /\ UNCHANGED <<gate, conns, closing, confirmed, lane>>
    BY <1>0, <1>4, LeavesMoves DEF SignsIn, At, Pcs, Ended
  <2>2. Registers(j) /\ Connected(j) /\ ~gate.stopped
    BY <1>0, <1>4, <2>1 DEF KindInv, KindAt, Connected, Allowed, SignsIn
  <2>3. /\ KindOf[j] # "stop" /\ lane = None
        /\ \A i \in Jobs : job[i].pc \in Busy => i = j
    BY <1>1, <2>1, <2>2 DEF Busy, Works, HandInv, StopInv
  <2>4. conns = {j}
    BY <1>0, <2>1 DEF HandInv, WorkInv, ConnInv, OneConnection
  <2>5. StopInv'
    BY <2>1, <2>2 DEF HandInv, StopInv, Moves
  <2>6. WorkInv'
    BY <2>1, <2>3 DEF WorkInv, Moves, Busy, Works
  <2>7. ConnInv'
    BY <2>1, <2>3, <2>4 DEF HandInv, ConnInv, OneConnection, NoneLost, LaneIsCurrent,
                            StopLeavesNothing, At, Moves
  <2> QED
    BY <1>0, <2>1, <2>5, <2>6, <2>7 DEF HandInv, GateInv
<1>5. CASE (SignsIn(j) /\ ~Allowed(job[j].epoch)) \/ SigninFails(j)
  <2>1. /\ job[j].pc = "signin" /\ Moves(j, "undo") /\ UNCHANGED <<gate, session, conns, lane>>
        /\ closing' = closing \cup {j} /\ confirmed' = "null"
    BY <1>0, <1>5, UndoesMoves DEF SignsIn, SigninFails, Undoes, At
  <2>2. /\ Registers(j) /\ KindOf[j] # "stop" /\ Connected(j) /\ session = None
        /\ conns = {j} /\ j \in conns
    BY <1>0, <2>1 DEF KindInv, KindAt, Registers, Connected, HandInv, WorkInv, ConnInv,
                      OneConnection, Busy, Works
  <2>3. StopInv'
    BY <2>1, <2>2 DEF HandInv, StopInv, Moves, Connected
  <2>4. WorkInv'
    BY <2>1, <2>2 DEF HandInv, WorkInv, Moves, Busy, Works
  <2>5. ConnInv'
    BY <2>1, <2>2 DEF HandInv, ConnInv, OneConnection, NoneLost, LaneIsCurrent,
                      StopLeavesNothing, At, Moves
  <2> QED
    BY <1>0, <2>1, <2>3, <2>4, <2>5 DEF HandInv, GateInv
<1>6. CASE Undone(j)
  <2>1. /\ job[j].pc = "undo" /\ Moves(j, "failed") /\ UNCHANGED <<gate, session, lane>>
        /\ \/ /\ conns' = conns \ {j} /\ closing' = closing \ {j}
              /\ confirmed' = "yes" => closing' = {}
           \/ conns' = conns /\ closing' = closing /\ confirmed' = "no"
    BY <1>0, <1>6, LeavesMoves DEF Undone, At, Pcs, Ended
  <2>2. /\ Registers(j) /\ KindOf[j] # "stop" /\ session = None
        /\ \A i \in Jobs : KindOf[i] # "stop" /\ job[i].pc \in Busy => i = j
    BY <1>0, <1>1, <2>1 DEF KindInv, KindAt, Busy, Works
  <2>3. StopInv'
    BY <2>1, <2>2 DEF HandInv, StopInv, Moves, Connected
  <2>4. \A i \in Jobs : Connected(i) => i = j
    BY <1>0, <2>2 DEF KindInv, KindAt, Registers, Connected, Busy, Works
  <2>5. WorkInv'
    <3>1. conns' \subseteq conns
      BY <2>1
    <3>2. \A i \in Jobs : job'[i].pc # "signin"
      BY <2>1, <2>4 DEF Moves, Connected
    <3> QED
      BY <2>1, <3>1, <3>2 DEF HandInv, WorkInv, Moves, Busy, Works
  <2>6. ConnInv'
    <3>1. \A c \in conns : c \in closing \/ c = j
      BY <1>0, <2>2, <2>4, SessionsAssumption DEF HandInv, ConnInv, NoneLost, At, Connected
    <3>2. \A c \in conns : c \in closing \/ ~At(c, "signin")
      BY <1>0, <2>1, <3>1 DEF At
    <3>3. NoneLost'
      BY <2>1, <2>2, <3>2, <1>0 DEF HandInv, ConnInv, NoneLost
    <3>4. /\ OneConnection' /\ closing' \subseteq conns' /\ (session' # None => session' \in conns')
          /\ (confirmed' = "yes" => closing' = {}) /\ LaneIsCurrent'
      BY <2>1, <2>2 DEF HandInv, ConnInv, OneConnection, LaneIsCurrent
    <3>5. StopLeavesNothing'
      BY <2>1, <2>2 DEF HandInv, ConnInv, StopLeavesNothing, At, Moves
    <3> QED
      BY <3>3, <3>4, <3>5 DEF ConnInv
  <2> QED
    BY <1>0, <2>1, <2>3, <2>5, <2>6 DEF HandInv, GateInv
<1> QED
  BY <1>2, <1>3, <1>4, <1>5, <1>6

-----------------------------------------------------------------------------
(* Theorems                                                                *)

\* Types and chain, and the connections in hand.
Inv == LineInv /\ HandInv

\* The invariant holds initially.
LEMMA InvInit == Init => Inv
<1> SUFFICES ASSUME Init PROVE Inv
  OBVIOUS
<1>1. TypeOK
  BY DEF Init, TypeOK, NoJob, JobStates, Open, Ended
<1>2. ChainInv /\ KindInv
  BY DEF Init, ChainInv, KindInv, KindAt, NoJob, Works
<1>3. StopInv /\ WorkInv /\ GateInv
  BY DEF Init, StopInv, WorkInv, GateInv, NoJob, Open, Busy, Works
<1>4. ConnInv
  BY DEF Init, ConnInv, OneConnection, NoneLost, LaneIsCurrent, StopLeavesNothing, At, NoJob
<1> QED
  BY <1>1, <1>2, <1>3, <1>4 DEF Inv, LineInv, HandInv

\* Every step keeps the invariant.
LEMMA InvStep == Inv /\ [Next]_vars => Inv'
<1> SUFFICES ASSUME Inv, [Next]_vars PROVE Inv'
  OBVIOUS
<1>0. LineInv /\ HandInv
  BY DEF Inv
<1>1. CASE UNCHANGED vars
  <2>1. LineInv'
    BY <1>0, <1>1 DEF vars, LineInv, TypeOK, ChainInv, KindInv
  <2>2. HandInv'
    BY <1>0, <1>1 DEF vars, HandInv, StopInv, WorkInv, ConnInv, GateInv, OneConnection, NoneLost,
                      LaneIsCurrent, StopLeavesNothing, At, Connected
  <2> QED
    BY <2>1, <2>2 DEF Inv
<1>2. CASE Next
  <2>1. PICK j \in Jobs : Call(j) \/ Step(j)
    BY <1>2 DEF Next
  <2>2. LineInv'
    BY <1>0, <2>1, CallsKeepLine, QueuesKeepLine, WorksKeepLine, EndsKeepLine DEF Call, Step
  <2>3. HandInv'
    BY <1>0, <2>1, CallsKeepHand, StopKeepsHand, ClosesKeepHand, SigninsKeepHand DEF Call, Step
  <2> QED
    BY <2>2, <2>3 DEF Inv
<1> QED
  BY <1>1, <1>2

\* The invariant of the registry.
LEMMA Invariance == Spec => []Inv
  BY InvInit, InvStep, PTL DEF Spec

\* The registry keeps its types for every set of calls and faults.
THEOREM TypeCorrect == Spec => []TypeOK
<1>1. Inv => TypeOK
  BY DEF Inv, LineInv
<1> QED
  BY <1>1, Invariance, PTL

\* Whatever closes and sign-ins fail or race, an employee has one connection at most
\* (doRegister, closeSession).
THEOREM SingleConnection == Spec => []OneConnection
<1>1. Inv => OneConnection
  BY DEF Inv, HandInv, ConnInv
<1> QED
  BY <1>1, Invariance, PTL

\* A connection that may be open is the session, or waits to be closed, or is signing in.
THEOREM NothingLost == Spec => []NoneLost
<1>1. Inv => NoneLost
  BY DEF Inv, HandInv, ConnInv
<1> QED
  BY <1>1, Invariance, PTL

\* The lane never holds a session that the registry has closed (onSessionClosed).
THEOREM LaneFollows == Spec => []LaneIsCurrent
<1>1. Inv => LaneIsCurrent
  BY DEF Inv, HandInv, ConnInv
<1> QED
  BY <1>1, Invariance, PTL

\* closeConfirmed is never reported while something may be open.
THEOREM ConfirmationHolds == Spec => []ConfirmedIsTrue
<1>1. Inv => ConfirmedIsTrue
  <2> SUFFICES ASSUME Inv, confirmed = "yes", session = None, \A j \in Jobs : ~At(j, "signin"),
                      NEW c \in conns
               PROVE  FALSE
    BY DEF ConfirmedIsTrue
  <2>1. c \in Jobs
    BY DEF Inv, LineInv, TypeOK
  <2> QED
    BY <2>1, SessionsAssumption DEF Inv, HandInv, ConnInv, NoneLost
<1> QED
  BY <1>1, Invariance, PTL

\* A stop() that returns leaves no connection behind, now or later.
THEOREM StopIsComplete == Spec => []StopLeavesNothing
<1>1. Inv => StopLeavesNothing
  BY DEF Inv, HandInv, ConnInv
<1> QED
  BY <1>1, Invariance, PTL

\* While an employee is paused or retired no session appears, wherever its sign-in is.
THEOREM PausedStaysOut == Spec => NoSessionWhilePaused
<1>1. Inv /\ [Next]_vars => (gate.suspended /\ session' # session => session' = None)
  <2> SUFFICES ASSUME Inv, [Next]_vars, gate.suspended, session' # session
               PROVE  session' = None
    OBVIOUS
  <2>1. gate.blocked
    BY DEF Inv, HandInv, GateInv
  <2>2. PICK j \in Jobs : Call(j) \/ Step(j)
    BY DEF Next, vars
  <2>3. RunWork(j) \/ StopCloses(j) \/ SignsIn(j)
    BY <2>2 DEF Call, Step, OpenSession, Activate, LaneDrops, Stop, OpenRegister, CredentialMissing,
                OpenReturns, Close, CloseConfirmed, CloseFails, Connects, CloseEnds, SigninFails,
                Undoes, Undone
  <2> QED
    BY <2>1, <2>3 DEF RunWork, StopCloses, SignsIn, CloseSession, Unregistered, Allowed, Undoes
<1>2. Inv /\ [Next]_vars => [gate.suspended /\ session' # session => session' = None]_vars
  BY <1>1
<1> QED
  BY <1>2, Invariance, PTL DEF Spec, NoSessionWhilePaused

\* Every connection that may be open is accounted for, and there is one at the most.
THEOREM ConnectionsAccounted == Spec => []Accounted
<1>1. OneConnection /\ NoneLost /\ LaneIsCurrent => Accounted
  BY DEF Accounted
<1> QED
  BY <1>1, SingleConnection, NothingLost, LaneFollows, PTL

\* What is reported or returned as closed is closed.
THEOREM ClosedIsClosed == Spec => []ClosedMeansClosed
<1>1. ConfirmedIsTrue /\ StopLeavesNothing => ClosedMeansClosed
  BY DEF ClosedMeansClosed
<1> QED
  BY <1>1, ConfirmationHolds, StopIsComplete, PTL

-----------------------------------------------------------------------------
(* Why an employee stays blocked                                           *)

\* The last work of the chain is the close that was called last.
LastCloses ==
    LET w == chain[Len(chain)]
    IN KindOf[w] \notin {"open", "activate"} /\ job[w].epoch = epoch

\* Whatever is queued behind a close either lifts the block or blocks anew, so the close that
\* lifts it is the last of the chain; when it fails it leaves its connection.
CauseInv ==
    /\ gate.retired => gate.suspended
    /\ gate.blocked /\ ~gate.suspended /\ ~gate.stopped
       => IF chain = <<>> THEN closing # {} ELSE LastCloses

EpochsKept == epoch' = epoch /\ \A i \in Jobs : job'[i].epoch = job[i].epoch

\* A step that neither shuts the gate nor moves the chain.
LEMMA StillCause ==
    ASSUME LineInv, CauseInv, gate' = gate, chain' = chain, EpochsKept,
           chain = <<>> /\ closing # {} => closing' # {}
    PROVE  CauseInv'
<1>1. chain \in Seq(Jobs)
  BY DEF LineInv, TypeOK
<1>2. chain # <<>> => chain[Len(chain)] \in Jobs
  BY <1>1
<1>3. chain # <<>> /\ LastCloses => LastCloses'
  BY <1>2 DEF LastCloses, EpochsKept
<1> QED
  BY <1>3 DEF CauseInv

\* The first work leaves the chain: a register, a close that leaves a connection, or a close
\* that does not lift the block.
LEMMA LeftCause ==
    ASSUME LineInv, CauseInv, NEW j \in Jobs, gate' = gate, EpochsKept,
           chain # <<>>, chain[1] = j, chain' = Tail(chain),
           Registers(j) \/ closing' # {} \/ ~Reopens(j)
    PROVE  CauseInv'
<1>1. chain \in Seq(Jobs) /\ chain # <<>>
  BY DEF LineInv, TypeOK
<1>2. CASE Len(chain) = 1
  <2>1. chain' = <<>> /\ chain[Len(chain)] = j
    BY <1>1, <1>2
  <2>2. gate.blocked /\ ~gate.suspended /\ ~gate.stopped => closing' # {}
    BY <1>1, <2>1 DEF CauseInv, LastCloses, Registers, Reopens
  <2> QED
    BY <2>1, <2>2 DEF CauseInv
<1>3. CASE Len(chain) # 1
  <2>1. /\ chain' \in Seq(Jobs) /\ Len(chain) \in Nat /\ Len(chain') = Len(chain) - 1
        /\ \A i \in 1 .. Len(chain') : chain'[i] = chain[i + 1]
    BY <1>1
  <2>2. Len(chain) > 1
    BY <1>1, <1>3, <2>1
  <2>3. /\ chain' # <<>> /\ chain'[Len(chain')] = chain[Len(chain)]
        /\ chain[Len(chain)] \in Jobs
    BY <1>1, <2>1, <2>2
  <2>4. LastCloses => LastCloses'
    BY <2>3 DEF LastCloses, EpochsKept
  <2> QED
    BY <1>1, <2>3, <2>4 DEF CauseInv
<1> QED
  BY <1>2, <1>3

\* Every step but the calls that take an epoch keeps the epochs.
LEMMA EpochsAreKept ==
    ASSUME TypeOK, NEW j \in Jobs, epoch' = epoch,
           \/ \E pc \in Pcs : Goto(j, pc) \/ Leaves(j, pc)
           \/ Undoes(j)
           \/ \E rest \in SUBSET Jobs : ClosesNext(j, rest)
    PROVE  EpochsKept
<1>1. job \in [Jobs -> JobStates] /\ job[j] \in JobStates
  BY DEF TypeOK
<1>2. ASSUME NEW r, job' = [job EXCEPT ![j] = r], r.epoch = job[j].epoch
      PROVE  EpochsKept
  BY <1>1, <1>2 DEF EpochsKept
<1>3. ASSUME NEW pc \in Pcs, Goto(j, pc)
      PROVE  EpochsKept
  <2> DEFINE r == [job[j] EXCEPT !.pc = pc]
  <2>1. r.epoch = job[j].epoch
    BY <1>1 DEF JobStates
  <2>2. job' = [job EXCEPT ![j] = r]
    BY <1>3 DEF Goto
  <2> HIDE DEF r
  <2> QED
    BY <1>2, <2>1, <2>2
<1>4. ASSUME NEW pc \in Pcs, Leaves(j, pc)
      PROVE  EpochsKept
  <2> DEFINE r == [job[j] EXCEPT !.pc = pc, !.cur = None, !.todo = {}]
  <2>1. r.epoch = job[j].epoch
    BY <1>1 DEF JobStates
  <2>2. job' = [job EXCEPT ![j] = r]
    BY <1>4 DEF Leaves
  <2> HIDE DEF r
  <2> QED
    BY <1>2, <2>1, <2>2
<1>5. ASSUME Undoes(j)
      PROVE  EpochsKept
  <2> DEFINE r == [job[j] EXCEPT !.pc = "undo", !.cur = j]
  <2>1. r.epoch = job[j].epoch
    BY <1>1 DEF JobStates
  <2>2. job' = [job EXCEPT ![j] = r]
    BY <1>5 DEF Undoes
  <2> HIDE DEF r
  <2> QED
    BY <1>2, <2>1, <2>2
<1>6. ASSUME NEW rest \in SUBSET Jobs, ClosesNext(j, rest)
      PROVE  EpochsKept
  <2>1. PICK pc \in {"closed", "closing"}, c \in Jobs \cup {None}, t \in SUBSET Jobs :
           job' = [job EXCEPT ![j].pc = pc, ![j].cur = c, ![j].todo = t]
    BY <1>6 DEF ClosesNext
  <2> DEFINE r == [job[j] EXCEPT !.pc = pc, !.cur = c, !.todo = t]
  <2>2. r.epoch = job[j].epoch
    BY <1>1 DEF JobStates
  <2>3. job' = [job EXCEPT ![j] = r]
    BY <2>1
  <2> HIDE DEF r
  <2> QED
    BY <1>2, <2>2, <2>3
<1> QED
  BY <1>3, <1>4, <1>5, <1>6

\* A call that is queued joins the end of the chain, with the epoch it was called in.
LEMMA JoinedCause ==
    ASSUME TypeOK, CauseInv, NEW j \in Jobs, Queued(j, epoch'), epoch' \in Nat,
           gate'.retired => gate'.suspended,
           \/ KindOf[j] \notin {"open", "activate"}
           \/ ~gate'.blocked \/ gate'.suspended \/ gate'.stopped
    PROVE  CauseInv'
<1>1. chain \in Seq(Jobs) /\ job \in [Jobs -> JobStates] /\ job[j] \in JobStates
  BY DEF TypeOK
<1>2. chain' # <<>> /\ chain'[Len(chain')] = j
  BY <1>1 DEF Queued
<1> DEFINE r == [job[j] EXCEPT !.pc = "queued", !.epoch = epoch']
<1>3. r.epoch = epoch'
  BY <1>1 DEF JobStates
<1>4. job' = [job EXCEPT ![j] = r]
  BY DEF Queued
<1> HIDE DEF r
<1>5. job'[j].epoch = epoch'
  BY <1>1, <1>3, <1>4
<1> QED
  BY <1>2, <1>5 DEF CauseInv, LastCloses

\* The calls keep the cause.
LEMMA CallsKeepCause ==
    ASSUME LineInv, CauseInv, NEW j \in Jobs, Call(j) \/ OpenRegister(j) \/ CredentialMissing(j)
                                              \/ OpenReturns(j) \/ Close(j)
    PROVE  CauseInv'
<1>0. /\ TypeOK /\ KindAt(j, job[j].pc) /\ job[j] \in JobStates /\ epoch \in Nat
      /\ gate \in [blocked : BOOLEAN, suspended : BOOLEAN, retired : BOOLEAN, stopped : BOOLEAN]
  BY DEF LineInv, KindInv, TypeOK
<1>1. CASE OpenSession(j)
  <2>1. CASE \E pc \in Pcs : Goto(j, pc)
    BY <1>0, <1>1, <2>1, EpochsAreKept, StillCause DEF OpenSession
  <2>2. CASE job' = [job EXCEPT ![j].pc = "credential", ![j].epoch = epoch] /\ Allowed(epoch)
    <3>1. ~gate'.blocked /\ gate' = gate
      BY <1>1, <2>2 DEF OpenSession, Allowed
    <3> QED
      BY <3>1 DEF CauseInv
  <2> QED
    BY <1>1, <2>1, <2>2 DEF OpenSession, Pcs, Ended
<1>2. CASE OpenRegister(j)
  <2>1. CASE Allowed(job[j].epoch)
    <3>1. ~gate'.blocked /\ gate' = gate
      BY <1>2, <2>1 DEF OpenRegister, Allowed
    <3> QED
      BY <3>1 DEF CauseInv
  <2>2. CASE ~Allowed(job[j].epoch)
    BY <1>0, <1>2, <2>2, EpochsAreKept, StillCause DEF OpenRegister, Pcs, Ended
  <2> QED
    BY <2>1, <2>2
<1>3. CASE CredentialMissing(j)
  BY <1>0, <1>3, EpochsAreKept, StillCause DEF CredentialMissing, Pcs, Ended
<1>4. CASE OpenReturns(j)
  <2>1. \E pc \in Pcs : Goto(j, pc)
    BY <1>4 DEF OpenReturns, Pcs, Ended
  <2> QED
    BY <1>0, <1>4, <2>1, EpochsAreKept, StillCause DEF OpenReturns
<1>5. CASE Activate(j)
  <2>1. Queued(j, epoch') /\ epoch' \in Nat
    BY <1>0, <1>5 DEF Activate
  <2>2. /\ gate'.retired => gate'.suspended
        /\ ~gate'.blocked \/ gate'.suspended \/ gate'.stopped
    BY <1>0, <1>5 DEF Activate, CauseInv
  <2> QED
    BY <1>0, <2>1, <2>2, JoinedCause
<1>6. CASE LaneDrops(j)
  BY <1>0, <1>6, EpochsAreKept, StillCause DEF LaneDrops, Pcs
<1>7. CASE Close(j)
  <2>1. Queued(j, epoch') /\ epoch' \in Nat
    BY <1>0, <1>7 DEF Close
  <2>2. KindOf[j] \notin {"open", "activate"}
    BY <1>0, <1>7 DEF Close
  <2>3. gate'.retired => gate'.suspended
    BY <1>0, <1>7, <2>2 DEF Close, CauseInv
  <2> QED
    BY <1>0, <2>1, <2>2, <2>3, JoinedCause
<1>8. CASE Stop(j)
  <2>1. gate'.stopped /\ (gate'.retired => gate'.suspended)
    BY <1>0, <1>8 DEF Stop, CauseInv
  <2> QED
    BY <2>1 DEF CauseInv
<1> QED
  BY <1>1, <1>2, <1>3, <1>4, <1>5, <1>6, <1>7, <1>8 DEF Call

\* A work that ends leaves the chain to the next one.
LEMMA EndKeepsCause ==
    ASSUME Inv, CauseInv, NEW j \in Jobs, NEW pc \in Pcs, Leaves(j, pc),
           job[j].pc \in Busy, UNCHANGED <<gate, epoch>>,
           Registers(j) \/ closing' # {} \/ ~Reopens(j)
    PROVE  CauseInv'
<1>1. LineInv /\ StopInv /\ TypeOK
  BY DEF Inv, HandInv, LineInv
<1>2. EpochsKept
  BY <1>1, EpochsAreKept
<1>3. CASE KindOf[j] = "stop"
  <2>1. gate.stopped
    BY <1>1, <1>3 DEF StopInv, Busy, Works
  <2> QED
    BY <2>1 DEF CauseInv
<1>4. CASE KindOf[j] # "stop"
  <2>1. chain # <<>> /\ chain[1] = j /\ chain' = Tail(chain)
    BY <1>1, <1>4, HeadOnly DEF Leaves
  <2> QED
    BY <1>1, <1>2, <2>1, LeftCause
<1> QED
  BY <1>3, <1>4

\* While stop() has not been called, what a work closes is listed in closing.
ClosingInv == ~gate.stopped /\ closing = {} => \A k \in Jobs : job[k].pc # "closing"

\* A call that moves anywhere but to a close keeps ClosingInv, unless it empties closing.
LEMMA QuietClosing ==
    ASSUME ClosingInv, NEW j \in Jobs, NEW pc \in Pcs \ {"closing"}, Moves(j, pc),
           closing' = {} => closing = {}, gate.stopped => gate'.stopped
    PROVE  ClosingInv'
BY DEF ClosingInv, Moves

\* A call that closes the last of closing is the only one that was closing.
LEMMA LastClosing ==
    ASSUME Inv, NEW j \in Jobs, NEW pc \in Pcs \ {"closing"}, Moves(j, pc),
           job[j].pc \in Busy, gate' = gate
    PROVE  ClosingInv'
<1> SUFFICES ASSUME ~gate.stopped, NEW k \in Jobs, job'[k].pc = "closing"
             PROVE  FALSE
  BY DEF ClosingInv
<1>1. LineInv /\ StopInv
  BY DEF Inv, HandInv
<1>2. k # j /\ job[k].pc = "closing"
  BY DEF Moves
<1>3. KindOf[k] # "stop" /\ KindOf[j] # "stop"
  BY <1>1, <1>2 DEF StopInv, Busy, Works
<1> QED
  BY <1>1, <1>2, <1>3, HeadOnly DEF Busy, Works

\* Every step keeps what a work closes in closing.
LEMMA ClosingStep ==
    ASSUME Inv, ClosingInv, NEW j \in Jobs, Call(j) \/ Step(j)
    PROVE  ClosingInv'
<1>0. /\ LineInv /\ TypeOK /\ WorkInv /\ job[j] \in JobStates /\ epoch \in Nat
      /\ closing \in SUBSET Jobs /\ session \in Jobs \cup {None}
      /\ gate \in [blocked : BOOLEAN, suspended : BOOLEAN, retired : BOOLEAN, stopped : BOOLEAN]
  BY DEF Inv, LineInv, TypeOK, HandInv
<1>1. ASSUME CloseSession(j), gate' = gate
      PROVE  ClosingInv'
  <2> DEFINE all == closing \cup ({session} \ {None})
  <2>1. all \in SUBSET Jobs
    BY <1>0
  <2>2. ClosesNext(j, all) /\ closing' = closing \cup ({job'[j].cur} \ {None})
    BY <1>1 DEF CloseSession
  <2> HIDE DEF all
  <2>3. Moves(j, "closed") \/ job'[j].cur \in Jobs
    BY <1>0, <2>1, <2>2, ClosesNextMoves
  <2>4. CASE Moves(j, "closed")
    <3>1. "closed" \in Pcs \ {"closing"} /\ (closing' = {} => closing = {})
      BY <2>2 DEF Pcs
    <3> QED
      BY <1>1, <2>4, <3>1, QuietClosing
  <2>5. CASE job'[j].cur \in Jobs
    BY <2>2, <2>5, SessionsAssumption DEF ClosingInv
  <2> QED
    BY <2>3, <2>4, <2>5
<1>2. CASE OpenSession(j) \/ CredentialMissing(j) \/ OpenReturns(j) \/ LaneDrops(j) \/ Stop(j)
  <2>1. PICK pc \in Pcs \ {"closing"} : job'[j].pc = pc
                                        /\ \A i \in Jobs : i # j => job'[i] = job[i]
    BY <1>0, <1>2 DEF OpenSession, CredentialMissing, OpenReturns, LaneDrops, Stop, Goto, Pcs,
                      Ended, TypeOK, JobStates
  <2>2. closing' = closing /\ (gate.stopped => gate'.stopped)
    BY <1>0, <1>2 DEF OpenSession, CredentialMissing, OpenReturns, LaneDrops, Stop
  <2> QED
    BY <2>1, <2>2 DEF ClosingInv
<1>3. CASE Activate(j) \/ Close(j) \/ (OpenRegister(j) /\ Allowed(job[j].epoch))
  <2>1. \E e \in Nat : Queued(j, e)
    BY <1>0, <1>3 DEF Activate, Close, OpenRegister
  <2>2. Moves(j, "queued") /\ "queued" \in Pcs \ {"closing"}
    BY <1>0, <2>1, QueuedMoves DEF Pcs
  <2>3. closing' = closing /\ (gate.stopped => gate'.stopped)
    BY <1>0, <1>3 DEF Activate, Close, OpenRegister
  <2> QED
    BY <2>2, <2>3, QuietClosing
<1>4. CASE (OpenRegister(j) /\ ~Allowed(job[j].epoch)) \/ (Connects(j) /\ Allowed(job[j].epoch))
  <2>1. PICK pc \in Pcs \ {"closing"} : Goto(j, pc)
    BY <1>4 DEF OpenRegister, Connects, Pcs, Ended
  <2>2. Moves(j, pc) /\ closing' = closing /\ gate' = gate
    BY <1>0, <1>4, <2>1, GotoMoves DEF OpenRegister, Connects
  <2> QED
    BY <2>2, QuietClosing
<1>5. CASE \/ RunWork(j) /\ Registers(j) /\ ~Allowed(job[j].epoch)
           \/ CloseFails(j) \/ CloseEnds(j) \/ (Connects(j) /\ ~Allowed(job[j].epoch))
           \/ SignsIn(j) /\ Allowed(job[j].epoch)
  <2>1. PICK pc \in Pcs \ {"closing"} : Leaves(j, pc)
    BY <1>5 DEF RunWork, CloseFails, CloseEnds, Connects, SignsIn, Pcs, Ended
  <2>2. closing' = closing /\ gate'.stopped = gate.stopped
    BY <1>0, <1>5 DEF RunWork, CloseFails, CloseEnds, Connects, SignsIn
  <2> QED
    BY <1>0, <2>1, <2>2, LeavesMoves, QuietClosing
<1>6. CASE (RunWork(j) /\ ~(Registers(j) /\ ~Allowed(job[j].epoch))) \/ StopCloses(j)
  BY <1>1, <1>6 DEF RunWork, StopCloses
<1>7. CASE CloseConfirmed(j)
  <2>1. job[j].pc \in Busy /\ job[j].todo = {} /\ gate' = gate
    BY <1>0, <1>7 DEF CloseConfirmed, At, WorkInv, Busy, Works
  <2> DEFINE r == [job[j] EXCEPT !.pc = "closed", !.cur = None]
  <2>2. r \in JobStates /\ r.pc = "closed"
    BY <1>0 DEF JobStates, Ended
  <2>3. job' = [job EXCEPT ![j] = r]
    BY <1>7, <2>1 DEF CloseConfirmed
  <2> HIDE DEF r
  <2>4. Moves(j, "closed") /\ "closed" \in Pcs \ {"closing"}
    BY <1>0, <2>2, <2>3 DEF Moves, TypeOK, Pcs
  <2> QED
    BY <2>1, <2>4, LastClosing
<1>8. CASE (SignsIn(j) /\ ~Allowed(job[j].epoch)) \/ SigninFails(j)
  <2>1. Undoes(j) /\ gate' = gate
    BY <1>8 DEF SignsIn, SigninFails
  <2>2. closing' # {}
    BY <2>1 DEF Undoes
  <2> QED
    BY <2>2 DEF ClosingInv
<1>9. CASE Undone(j)
  <2>1. /\ job[j].pc \in Busy /\ gate' = gate /\ Leaves(j, "failed")
        /\ "failed" \in Pcs \ {"closing"}
    BY <1>9 DEF Undone, At, Busy, Works, Pcs, Ended
  <2> QED
    BY <1>0, <2>1, LeavesMoves, LastClosing
<1> QED
  BY <1>2, <1>3, <1>4, <1>5, <1>6, <1>7, <1>8, <1>9 DEF Call, Step

\* The works keep the cause.
LEMMA WorksKeepCause ==
    ASSUME Inv, CauseInv, ClosingInv, NEW j \in Jobs,
           \/ RunWork(j) \/ StopCloses(j) \/ CloseConfirmed(j) \/ CloseFails(j) \/ Connects(j)
           \/ CloseEnds(j) \/ SignsIn(j) \/ SigninFails(j) \/ Undone(j)
    PROVE  CauseInv'
<1>0. /\ LineInv /\ TypeOK /\ KindAt(j, job[j].pc) /\ StopInv /\ WorkInv
      /\ closing \in SUBSET Jobs /\ session \in Jobs \cup {None}
      /\ chain \in Seq(Jobs) /\ job[j] \in JobStates
      /\ gate \in [blocked : BOOLEAN, suspended : BOOLEAN, retired : BOOLEAN, stopped : BOOLEAN]
  BY DEF Inv, LineInv, KindInv, TypeOK, HandInv
<1>1. ASSUME CloseSession(j), UNCHANGED <<gate, epoch, chain>>
      PROVE  CauseInv'
  <2>1. EpochsKept
    <3> DEFINE all == closing \cup ({session} \ {None})
    <3>1. all \in SUBSET Jobs
      BY <1>0
    <3>2. ClosesNext(j, all)
      BY <1>1 DEF CloseSession
    <3> HIDE DEF all
    <3> QED
      BY <1>0, <1>1, <3>1, <3>2, EpochsAreKept
  <2>2. closing # {} => closing' # {}
    BY <1>1 DEF CloseSession
  <2> QED
    BY <1>0, <1>1, <2>1, <2>2, StillCause
<1>2. CASE RunWork(j) /\ Registers(j) /\ ~Allowed(job[j].epoch)
  <2>1. Leaves(j, "refused") /\ "refused" \in Pcs /\ gate' = gate /\ epoch' = epoch
    BY <1>2 DEF RunWork, Pcs, Ended
  <2>2. job[j].pc = "queued" /\ KindOf[j] # "stop"
    BY <1>2 DEF RunWork, At, Registers
  <2>3. chain # <<>> /\ chain[1] = j /\ chain' = Tail(chain)
    <3>1. \E i \in 1 .. Len(chain) : chain[i] = j
      BY <1>0, <2>2 DEF LineInv, ChainInv, Works
    <3>2. chain # <<>>
      BY <1>0, <3>1
    <3> QED
      BY <1>0, <1>2, <2>1, <2>2, <3>2, HeadWaits DEF RunWork, Leaves
  <2> QED
    BY <1>0, <1>2, <2>1, <2>3, EpochsAreKept, LeftCause
<1>3. CASE (RunWork(j) /\ ~(Registers(j) /\ ~Allowed(job[j].epoch))) \/ StopCloses(j)
  BY <1>1, <1>3 DEF RunWork, StopCloses
<1>4. CASE CloseConfirmed(j)
  <2>1. job[j].pc = "closing" /\ job[j].todo = {}
    BY <1>0, <1>4 DEF CloseConfirmed, At, WorkInv
  <2>2. CASE KindOf[j] = "stop"
    <3>1. gate'.stopped /\ gate' = gate
      BY <1>0, <1>4, <2>1, <2>2 DEF StopInv, CloseConfirmed
    <3> QED
      BY <3>1 DEF CauseInv
  <2>3. CASE KindOf[j] # "stop"
    <3>1. chain # <<>>
      BY <1>0, <2>1, <2>3, HeadOnly DEF Busy, Works
    <3>2. job' = [job EXCEPT ![j].pc = "closed", ![j].cur = None]
      BY <1>4, <2>1 DEF CloseConfirmed
    <3>3. EpochsKept
      <4> DEFINE r == [job[j] EXCEPT !.pc = "closed", !.cur = None]
      <4>1. r.epoch = job[j].epoch
        BY <1>0 DEF JobStates
      <4>2. job' = [job EXCEPT ![j] = r] /\ job \in [Jobs -> JobStates] /\ epoch' = epoch
        BY <1>0, <1>4, <3>2 DEF TypeOK, CloseConfirmed
      <4> HIDE DEF r
      <4> QED
        BY <4>1, <4>2 DEF EpochsKept
    <3> QED
      BY <1>0, <1>4, <3>1, <3>3, StillCause DEF CloseConfirmed
  <2> QED
    BY <2>2, <2>3
<1>5. CASE CloseFails(j)
  <2>1. /\ job[j].pc \in Busy /\ Leaves(j, "failed") /\ "failed" \in Pcs
        /\ UNCHANGED <<gate, epoch, closing>>
    BY <1>5 DEF CloseFails, At, Busy, Works, Pcs, Ended
  <2>2. closing # {} \/ gate.stopped
    BY <1>5 DEF CloseFails, At, ClosingInv
  <2>3. CASE gate.stopped
    BY <2>1, <2>3 DEF CauseInv
  <2> QED
    BY <2>1, <2>2, <2>3, EndKeepsCause
<1>6. CASE Connects(j) /\ Allowed(job[j].epoch)
  <2>1. ~gate'.blocked /\ gate' = gate
    BY <1>6 DEF Connects, Allowed
  <2> QED
    BY <2>1 DEF CauseInv
<1>7. CASE Connects(j) /\ ~Allowed(job[j].epoch)
  <2>1. /\ job[j].pc \in Busy /\ Leaves(j, "refused") /\ "refused" \in Pcs
        /\ UNCHANGED <<gate, epoch>> /\ Registers(j)
    BY <1>7 DEF Connects, At, Busy, Works, Pcs, Ended
  <2> QED
    BY <2>1, EndKeepsCause
<1>8. CASE CloseEnds(j)
  <2>1. /\ job[j].pc \in Busy /\ Leaves(j, "done") /\ "done" \in Pcs /\ epoch' = epoch
    BY <1>8 DEF CloseEnds, At, Busy, Works, Pcs, Ended
  <2>2. CASE KindOf[j] # "stop" /\ Reopens(j)
    <3>1. ~gate'.blocked /\ (gate'.retired => gate'.suspended)
      BY <1>0, <1>8, <2>2 DEF CloseEnds, CauseInv
    <3> QED
      BY <3>1 DEF CauseInv
  <2>3. CASE KindOf[j] = "stop"
    <3>1. gate.stopped /\ gate' = gate
      BY <1>0, <1>8, <2>1, <2>3 DEF CloseEnds, StopInv, Busy, Works
    <3> QED
      BY <3>1 DEF CauseInv
  <2>4. CASE ~Reopens(j)
    <3>1. gate' = gate
      BY <1>8, <2>4 DEF CloseEnds
    <3> QED
      BY <2>1, <2>4, <3>1, EndKeepsCause
  <2> QED
    BY <2>2, <2>3, <2>4
<1>9. CASE SignsIn(j) /\ Allowed(job[j].epoch)
  <2>1. ~gate'.blocked /\ gate' = gate
    BY <1>9 DEF SignsIn, Allowed
  <2> QED
    BY <2>1 DEF CauseInv
<1>10. CASE (SignsIn(j) /\ ~Allowed(job[j].epoch)) \/ SigninFails(j)
  <2>1. Undoes(j) /\ UNCHANGED <<gate, epoch>>
    BY <1>10 DEF SignsIn, SigninFails
  <2>2. chain' = chain /\ closing' # {}
    BY <2>1 DEF Undoes
  <2> QED
    BY <1>0, <2>1, <2>2, EpochsAreKept, StillCause
<1>11. CASE Undone(j)
  <2>1. /\ job[j].pc \in Busy /\ Leaves(j, "failed") /\ "failed" \in Pcs
        /\ UNCHANGED <<gate, epoch>> /\ Registers(j)
    BY <1>0, <1>11 DEF Undone, KindAt, At, Busy, Works, Pcs, Ended
  <2> QED
    BY <2>1, EndKeepsCause
<1> QED
  BY <1>2, <1>3, <1>4, <1>5, <1>6, <1>7, <1>8, <1>9, <1>10, <1>11

\* An employee that nobody suspended stays blocked only behind a connection that a failed close
\* has left, or until stop() (close, closeSession).
THEOREM BlockIsCaused == Spec => []BlockedForCause
<1>1. Init => CauseInv /\ ClosingInv
  BY DEF Init, CauseInv, ClosingInv, Open, NoJob
<1>2. Inv /\ CauseInv /\ ClosingInv /\ [Next]_vars => (CauseInv /\ ClosingInv)'
  <2> SUFFICES ASSUME Inv, CauseInv, ClosingInv, [Next]_vars
               PROVE  (CauseInv /\ ClosingInv)'
    OBVIOUS
  <2>1. CASE UNCHANGED vars
    BY <2>1 DEF vars, CauseInv, LastCloses, ClosingInv
  <2>2. CASE Next
    <3>1. PICK j \in Jobs : Call(j) \/ Step(j)
      BY <2>2 DEF Next
    <3>2. CauseInv'
      <4>1. CASE Call(j) \/ OpenRegister(j) \/ CredentialMissing(j) \/ OpenReturns(j) \/ Close(j)
        BY <4>1, CallsKeepCause DEF Inv
      <4>2. CASE \/ RunWork(j) \/ StopCloses(j) \/ CloseConfirmed(j) \/ CloseFails(j)
                 \/ Connects(j) \/ CloseEnds(j) \/ SignsIn(j) \/ SigninFails(j) \/ Undone(j)
        BY <4>2, WorksKeepCause
      <4> QED
        BY <3>1, <4>1, <4>2 DEF Step
    <3>3. ClosingInv'
      BY <3>1, ClosingStep
    <3> QED
      BY <3>2, <3>3
  <2> QED
    BY <2>1, <2>2
<1>3. CauseInv => BlockedForCause
  BY DEF CauseInv, BlockedForCause
<1> QED
  BY <1>1, <1>2, <1>3, Invariance, PTL DEF Spec

-----------------------------------------------------------------------------
(* The registry below is the registry                                      *)

\* A step of the lifecycle service is a step of the registry or leaves it alone.
LEMMA OpStepsKeep ==
    ASSUME NEW o \in Ops, OpStep(o)
    PROVE  [Next]_vars
<1>1. CASE OpCalls(o)
  <2>1. Activate(o) \/ Close(o)
    BY <1>1 DEF OpCalls
  <2> QED
    BY <2>1, LifecycleAssumption DEF Next, Call, Step
<1>2. CASE ~OpCalls(o)
  BY <1>2 DEF OpStep, OpCalled, OpReads, OpReadFails, OpInserts, OpInsertFails, OpEnsures,
              OpEnsureFails, OpWrites, OpWriteFails, OpRotates, OpRotateFails, OpReturns,
              OpRereadFails
<1> QED
  BY <1>1, <1>2

\* A registry step under the employee's access rule is a registry step: a sign-in the
\* rule denies is one that fails.
LEMMA RegistryStepsKeep ==
    ASSUME "signin" \in Faults, NEW j \in Jobs, RegistryStep(j)
    PROVE  Next
<1>1. CASE SigninDenied(j)
  <2>1. SigninFails(j)
    BY <1>1 DEF SigninDenied, SigninFails
  <2> QED
    BY <2>1 DEF Next, Step
<1>2. CASE ~SigninDenied(j)
  BY <1>2 DEF RegistryStep, Next, Call, Step
<1> QED
  BY <1>1, <1>2

\* A step of the composition is a registry step or leaves the registry alone.
LEMMA NextKept ==
    ASSUME "signin" \in Faults, [LNext]_allVars
    PROVE  [Next]_vars
<1>1. CASE UNCHANGED allVars
  BY <1>1 DEF allVars
<1>2. CASE LNext
  BY <1>2, OpStepsKeep, RegistryStepsKeep DEF LNext
<1> QED
  BY <1>1, <1>2

-----------------------------------------------------------------------------
(* The inductive invariant                                                 *)

Statuses == {"absent", "provisioning", "active", "paused", "retired"}
OpPcs == {"idle", "read", "insert", "credential", "write", "rotate", "call", "called", "ended"}
OpStates == [pc : OpPcs, saw : Statuses, secret : Nat, answer : {"none", "ok", "refused", "failed"}]

\* Past its read an operation has the record to itself.
PastRead == OpPcs \ {"idle", "read", "ended"}

\* The operations called wait in life; only the first one is past its read.
QueueInv ==
    /\ \A o \in Ops : op[o].pc \notin {"idle", "ended"} => \E i \in 1 .. Len(life) : life[i] = o
    /\ \A o \in Ops : op[o].pc \in PastRead => Head(life) = o

\* What operation o knows of the record at each step still holds.
Held(o) ==
    /\ op[o].pc = "insert" => OpKindOf[o] = "create" /\ status = "absent"
    /\ op[o].pc = "credential" =>
          /\ OpKindOf[o] \in {"create", "resume"} /\ status = op[o].saw
          /\ op[o].saw # "absent" /\ (OpKindOf[o] = "resume" => op[o].saw = "paused")
    /\ op[o].pc = "write" =>
          /\ status = op[o].saw /\ <<op[o].saw, Writes(o)>> \in Legal
          /\ Writes(o) = "active" => secret # 0

HeldInv == \A o \in Ops : Held(o)

Shuts(o) == OpKindOf[o] \in {"pause", "retire"}

\* The registry call of an operation begins with its "call" and, for a pause or a
\* retirement, keeps the gate shut from there and ends without a connection.
CallInv ==
    \A o \in Ops :
        /\ op[o].pc \notin {"called", "ended"} => job[o].pc = "idle"
        /\ op[o].pc = "called" => job[o].pc # "idle"
        /\ op[o].pc = "called" /\ Shuts(o) =>
              gate.suspended /\ (job[o].pc = "done" => conns = {})

\* The inductive invariant.
LInv == Inv /\ LTypeOK /\ QueueInv /\ HeldInv /\ ActiveHasCredential /\ CallInv

-----------------------------------------------------------------------------
(* What the moves of an operation do to the operations                     *)

\* Operation o moves to pc and no other operation moves.
OpMoves(o, pc) ==
    /\ op' \in [Ops -> OpStates]
    /\ op'[o].pc = pc
    /\ \A p \in Ops : p # o => op'[p] = op[p]

\* OpGoto moves the operation and keeps what it knows.
LEMMA OpGotoMoves ==
    ASSUME NEW o \in Ops, NEW pc \in OpPcs, LTypeOK, OpGoto(o, pc)
    PROVE  OpMoves(o, pc) /\ op'[o].saw = op[o].saw /\ op'[o].answer = op[o].answer
<1> DEFINE r == [op[o] EXCEPT !.pc = pc]
<1>1. op \in [Ops -> OpStates]
  BY DEF LTypeOK, OpStates, OpPcs, Statuses
<1>2. r \in OpStates /\ r.pc = pc /\ r.saw = op[o].saw /\ r.answer = op[o].answer
  BY <1>1 DEF OpStates
<1>3. op' = [op EXCEPT ![o] = r]
  BY DEF OpGoto
<1> HIDE DEF r
<1> QED
  BY <1>1, <1>2, <1>3 DEF OpMoves

\* An operation that goes on may note the status it saw and the secret it got.
LEMMA OpNotesMoves ==
    ASSUME NEW o \in Ops, NEW pc \in OpPcs, NEW saw \in Statuses, NEW s \in Nat, LTypeOK,
           op' = [op EXCEPT ![o].pc = pc, ![o].saw = saw, ![o].secret = s]
    PROVE  OpMoves(o, pc) /\ op'[o].saw = saw /\ op'[o].answer = op[o].answer
<1> DEFINE r == [op[o] EXCEPT !.pc = pc, !.saw = saw, !.secret = s]
<1>1. op \in [Ops -> OpStates]
  BY DEF LTypeOK, OpStates, OpPcs, Statuses
<1>2. r \in OpStates /\ r.pc = pc /\ r.saw = saw /\ r.answer = op[o].answer
  BY <1>1 DEF OpStates
<1>3. op' = [op EXCEPT ![o] = r]
  OBVIOUS
<1> HIDE DEF r
<1> QED
  BY <1>1, <1>2, <1>3 DEF OpMoves

\* An operation that returns has ended, with its answer.
LEMMA OpEndsMoves ==
    ASSUME NEW o \in Ops, NEW answer \in {"ok", "refused", "failed"}, LTypeOK, OpEnds(o, answer)
    PROVE  OpMoves(o, "ended") /\ op'[o].answer = answer
<1> DEFINE r == [op[o] EXCEPT !.pc = "ended", !.answer = answer]
<1>1. op \in [Ops -> OpStates]
  BY DEF LTypeOK, OpStates, OpPcs, Statuses
<1>2. r \in OpStates /\ r.pc = "ended" /\ r.answer = answer
  BY <1>1 DEF OpStates, OpPcs
<1>3. op' = [op EXCEPT ![o] = r]
  BY DEF OpEnds
<1> HIDE DEF r
<1> QED
  BY <1>1, <1>2, <1>3 DEF OpMoves

-----------------------------------------------------------------------------
(* The queue of operations                                                 *)

\* Only one operation is past its read, and it is the first.
LEMMA OneAtATime ==
    ASSUME LTypeOK, QueueInv, NEW o \in Ops,
           \/ op[o].pc \in PastRead
           \/ op[o].pc = "read" /\ Head(life) = o
    PROVE  /\ life # <<>> /\ Head(life) = o
           /\ \A p \in Ops : op[p].pc \in PastRead => p = o
<1>1. life \in Seq(Ops) /\ op[o].pc \notin {"idle", "ended"}
  BY DEF LTypeOK, PastRead
<1>2. PICK i \in 1 .. Len(life) : life[i] = o
  BY <1>1 DEF QueueInv
<1> QED
  BY <1>1, <1>2 DEF QueueInv

\* The first operation goes on.
LEMMA QueueKept ==
    ASSUME LTypeOK, QueueInv, NEW o \in Ops, NEW pc \in OpPcs \ {"idle", "ended"},
           OpMoves(o, pc), op[o].pc \notin {"idle", "ended"}, Head(life) = o, life' = life
    PROVE  QueueInv'
  BY DEF QueueInv, OpMoves

\* The first operation returns and the next one may run.
LEMMA QueueEnds ==
    ASSUME LTypeOK, QueueInv, NEW o \in Ops, OpMoves(o, "ended"), life' = Tail(life),
           \/ op[o].pc \in PastRead
           \/ op[o].pc = "read" /\ Head(life) = o
    PROVE  QueueInv' /\ life' \in Seq(Ops)
<1>1. /\ life # <<>> /\ Head(life) = o
      /\ \A p \in Ops : op[p].pc \in PastRead => p = o
  BY OneAtATime
<1>2. life \in Seq(Ops)
  BY DEF LTypeOK
<1>3. life' \in Seq(Ops) /\ Len(life') = Len(life) - 1
      /\ \A i \in 1 .. Len(life') : life'[i] = life[i + 1]
  BY <1>1, <1>2
<1>4. \A p \in Ops : op'[p].pc \notin {"idle", "ended"} => \E i \in 1 .. Len(life') : life'[i] = p
  <2> SUFFICES ASSUME NEW p \in Ops, op'[p].pc \notin {"idle", "ended"}
               PROVE  \E i \in 1 .. Len(life') : life'[i] = p
    OBVIOUS
  <2>1. p # o /\ op[p].pc \notin {"idle", "ended"}
    BY DEF OpMoves
  <2>2. PICK k \in 1 .. Len(life) : life[k] = p
    BY <2>1 DEF QueueInv
  <2>3. k # 1 /\ Len(life) \in Nat
    BY <1>1, <1>2, <2>1, <2>2
  <2>4. k - 1 \in 1 .. Len(life') /\ life'[k - 1] = p
    BY <1>3, <2>2, <2>3
  <2> QED
    BY <2>4
<1>5. \A p \in Ops : op'[p].pc \in PastRead => Head(life') = p
  BY <1>1 DEF OpMoves, PastRead
<1> QED
  BY <1>3, <1>4, <1>5 DEF QueueInv

\* An operation that is called joins the queue.
LEMMA QueueJoins ==
    ASSUME LTypeOK, QueueInv, NEW o \in Ops, OpMoves(o, "read"), life' = Append(life, o)
    PROVE  QueueInv' /\ life' \in Seq(Ops)
<1>1. life \in Seq(Ops) /\ Len(life) \in Nat
  BY DEF LTypeOK
<1>2. /\ life' \in Seq(Ops) /\ Len(life') = Len(life) + 1
      /\ \A i \in 1 .. Len(life) : life'[i] = life[i]
      /\ life'[Len(life) + 1] = o
  BY <1>1
<1>3. \A p \in Ops : op'[p].pc \notin {"idle", "ended"} => \E i \in 1 .. Len(life') : life'[i] = p
  <2> SUFFICES ASSUME NEW p \in Ops, op'[p].pc \notin {"idle", "ended"}
               PROVE  \E i \in 1 .. Len(life') : life'[i] = p
    OBVIOUS
  <2>1. CASE p = o
    <3>1. Len(life) + 1 \in 1 .. Len(life')
      BY <1>1, <1>2
    <3> QED
      BY <1>2, <2>1, <3>1
  <2>2. CASE p # o
    <3>1. PICK k \in 1 .. Len(life) : life[k] = p
      BY <2>2 DEF OpMoves, QueueInv
    <3>2. k \in 1 .. Len(life') /\ life'[k] = p
      BY <1>1, <1>2, <3>1
    <3> QED
      BY <3>2
  <2> QED
    BY <2>1, <2>2
<1>4. \A p \in Ops : op'[p].pc \in PastRead => Head(life') = p
  <2> SUFFICES ASSUME NEW p \in Ops, op'[p].pc \in PastRead
               PROVE  Head(life') = p
    OBVIOUS
  <2>1. p # o /\ op[p].pc \in PastRead
    BY DEF OpMoves, PastRead
  <2>2. life # <<>> /\ Head(life) = p
    BY <2>1, OneAtATime
  <2> QED
    BY <1>1, <2>2
<1> QED
  BY <1>2, <1>3, <1>4 DEF QueueInv

-----------------------------------------------------------------------------
(* The record and what the operations know of it                           *)

\* Types of the record, the operations and their queue.
RecordTypes ==
    /\ status \in Statuses /\ secret \in Nat
    /\ op \in [Ops -> OpStates] /\ life \in Seq(Ops) /\ failures \in 0 .. MaxFail

RecordInv == RecordTypes /\ QueueInv /\ HeldInv /\ ActiveHasCredential

\* What the others know survives: they are not past their read, or the record stays.
LEMMA HeldKept ==
    ASSUME LTypeOK, QueueInv, HeldInv, NEW o \in Ops, NEW pc \in OpPcs, OpMoves(o, pc),
           \/ op[o].pc \in PastRead
           \/ UNCHANGED record,
           Held(o)'
    PROVE  HeldInv'
<1> SUFFICES ASSUME NEW p \in Ops, p # o PROVE Held(p)'
  BY DEF HeldInv
<1>1. op'[p] = op[p] /\ Held(p)
  BY DEF OpMoves, HeldInv
<1>2. CASE op[o].pc \in PastRead
  <2>1. op[p].pc \notin PastRead
    BY <1>2, OneAtATime
  <2> QED
    BY <1>1, <2>1 DEF Held, PastRead, OpPcs
<1>3. CASE UNCHANGED record
  BY <1>1, <1>3 DEF Held, record, Writes
<1> QED
  BY <1>2, <1>3

\* An operation that is over knows nothing any more.
LEMMA HeldEnds ==
    ASSUME LTypeOK, QueueInv, HeldInv, NEW o \in Ops, OpMoves(o, "ended"),
           \/ op[o].pc \in PastRead
           \/ UNCHANGED record
    PROVE  HeldInv'
<1>1. Held(o)'
  BY DEF Held, OpMoves
<1> QED
  BY <1>1, HeldKept DEF OpPcs

\* A query that throws ends its operation.
LEMMA ThrowsKeepRecord ==
    ASSUME LTypeOK, RecordInv, NEW o \in Ops, NEW effect \in BOOLEAN, OpThrows(o, effect),
           \/ op[o].pc \in PastRead
           \/ op[o].pc = "read" /\ Head(life) = o /\ ~effect,
           effect => status' \in Statuses /\ secret' \in Nat /\ (status' = "active" => secret' # 0)
    PROVE  RecordInv'
<1>1. OpMoves(o, "ended") /\ life' = Tail(life)
  BY OpEndsMoves DEF OpThrows, OpEnds
<1>2. QueueInv' /\ life' \in Seq(Ops)
  BY <1>1, QueueEnds DEF RecordInv
<1>3. HeldInv'
  BY <1>1, HeldEnds DEF RecordInv, OpThrows
<1>4. status' \in Statuses /\ secret' \in Nat /\ ActiveHasCredential'
  BY DEF OpThrows, record, RecordInv, RecordTypes, ActiveHasCredential
<1>5. failures' \in 0 .. MaxFail
  BY LifecycleAssumption DEF OpThrows, RecordInv, RecordTypes
<1> QED
  BY <1>1, <1>2, <1>3, <1>4, <1>5 DEF RecordInv, RecordTypes, OpMoves

\* The call and the read of the status.
LEMMA ReadsKeepRecord ==
    ASSUME LTypeOK, RecordInv, NEW o \in Ops, OpCalled(o) \/ OpReads(o) \/ OpReadFails(o)
    PROVE  RecordInv'
<1>1. CASE OpCalled(o)
  <2>1. OpMoves(o, "read") /\ life' = Append(life, o) /\ UNCHANGED <<record, failures>>
    BY <1>1, OpGotoMoves DEF OpCalled, OpPcs
  <2>2. QueueInv' /\ life' \in Seq(Ops)
    BY <2>1, QueueJoins DEF RecordInv
  <2>3. Held(o)'
    BY <2>1 DEF Held, OpMoves
  <2>4. HeldInv'
    BY <2>1, <2>3, HeldKept DEF RecordInv, OpPcs
  <2> QED
    BY <2>1, <2>2, <2>4 DEF RecordInv, RecordTypes, OpMoves, record, ActiveHasCredential
<1>2. CASE OpReads(o) /\ Begins(o, status) \in {"refused", "nothing"}
  <2>1. PICK answer \in {"ok", "refused"} : OpEnds(o, answer)
    BY <1>2 DEF OpReads
  <2>2. /\ OpMoves(o, "ended") /\ life' = Tail(life) /\ UNCHANGED <<record, failures>>
        /\ op[o].pc = "read" /\ Head(life) = o
    BY <1>2, <2>1, OpEndsMoves DEF OpEnds, OpReads, OpAt
  <2>3. QueueInv' /\ life' \in Seq(Ops) /\ HeldInv'
    BY <2>2, QueueEnds, HeldEnds DEF RecordInv
  <2> QED
    BY <2>2, <2>3 DEF RecordInv, RecordTypes, OpMoves, record, ActiveHasCredential
<1>3. CASE OpReads(o) /\ Begins(o, status) \notin {"refused", "nothing"}
  <2> DEFINE goes == Begins(o, status)
  <2>1. /\ op' = [op EXCEPT ![o].pc = goes, ![o].saw = status]
        /\ life' = life /\ UNCHANGED <<record, failures>>
        /\ op[o].pc = "read" /\ Head(life) = o
    BY <1>3 DEF OpReads, OpAt
  <2>2. /\ goes \in {"insert", "credential", "write", "call"}
        /\ goes = "insert" => OpKindOf[o] = "create" /\ status = "absent"
        /\ goes = "credential" => /\ OpKindOf[o] \in {"create", "resume"} /\ status # "absent"
                                  /\ OpKindOf[o] = "resume" => status = "paused"
        /\ goes = "write" => <<status, Writes(o)>> \in Legal /\ Writes(o) # "active"
    BY <1>3 DEF Begins, Writes, Legal
  <2> DEFINE r == [op[o] EXCEPT !.pc = goes, !.saw = status]
  <2>3. r \in OpStates /\ r.pc = goes /\ r.saw = status
    BY <2>2 DEF RecordInv, RecordTypes, OpStates, OpPcs
  <2>4. op' = [op EXCEPT ![o] = r]
    BY <2>1
  <2> HIDE DEF r, goes
  <2>5. OpMoves(o, goes) /\ op'[o].saw = status
    BY <2>3, <2>4 DEF OpMoves, RecordInv, RecordTypes
  <2>6. QueueInv'
    BY <2>1, <2>2, <2>5, QueueKept DEF RecordInv, OpPcs
  <2>7. Held(o)'
    BY <2>1, <2>2, <2>5 DEF Held, OpMoves, record, Writes
  <2>8. HeldInv'
    BY <2>1, <2>2, <2>5, <2>7, HeldKept DEF RecordInv, OpPcs
  <2> QED
    BY <2>1, <2>5, <2>6, <2>8 DEF RecordInv, RecordTypes, OpMoves, record, ActiveHasCredential
<1>4. CASE OpReadFails(o)
  BY <1>4, ThrowsKeepRecord DEF OpReadFails, OpAt
<1> QED
  BY <1>1, <1>2, <1>3, <1>4

\* The steps that create the row and its credential.
LEMMA CreatesKeepRecord ==
    ASSUME LTypeOK, RecordInv, NEW o \in Ops,
           OpInserts(o) \/ OpInsertFails(o) \/ OpEnsures(o) \/ OpEnsureFails(o)
    PROVE  RecordInv'
<1>0. Held(o)
  BY DEF RecordInv, HeldInv
<1>1. CASE OpInserts(o)
  <2>1. /\ status = "absent" /\ status' = "provisioning" /\ OpKindOf[o] = "create"
        /\ op[o].pc = "insert" /\ UNCHANGED <<secret, life, failures>>
    BY <1>0, <1>1 DEF OpInserts, OpAt, Created, Held
  <2> DEFINE r == [op[o] EXCEPT !.pc = "credential", !.saw = status']
  <2>2. r \in OpStates /\ r.pc = "credential" /\ r.saw = status'
    BY <2>1 DEF RecordInv, RecordTypes, OpStates, OpPcs, Statuses
  <2>3. op' = [op EXCEPT ![o] = r]
    BY <1>1 DEF OpInserts
  <2> HIDE DEF r
  <2>4. OpMoves(o, "credential") /\ op'[o].saw = status'
    BY <2>2, <2>3 DEF OpMoves, RecordInv, RecordTypes
  <2>5. QueueInv'
    BY <2>1, <2>4, QueueKept DEF RecordInv, OpPcs, QueueInv, PastRead
  <2>6. Held(o)'
    BY <2>1, <2>4 DEF Held, OpMoves
  <2>7. HeldInv'
    BY <2>1, <2>4, <2>6, HeldKept DEF RecordInv, OpPcs, PastRead
  <2> QED
    BY <2>1, <2>4, <2>5, <2>7
    DEF RecordInv, RecordTypes, OpMoves, ActiveHasCredential, Statuses
<1>2. CASE OpInsertFails(o)
  BY <1>2, ThrowsKeepRecord
  DEF OpInsertFails, OpAt, PastRead, OpPcs, Created, RecordInv, RecordTypes, Statuses,
      ActiveHasCredential
<1>3. CASE OpEnsures(o) /\ AfterCredential(o, op[o].saw) = "nothing"
  <2>1. /\ OpEnds(o, "ok") /\ op[o].pc = "credential" /\ UNCHANGED <<status, failures>>
        /\ secret' \in Nat \ {0}
    BY <1>3 DEF OpEnsures, OpAt, Ensured, RecordInv, RecordTypes
  <2>2. OpMoves(o, "ended") /\ life' = Tail(life)
    BY <2>1, OpEndsMoves DEF OpEnds
  <2>3. QueueInv' /\ life' \in Seq(Ops) /\ HeldInv'
    BY <2>1, <2>2, QueueEnds, HeldEnds DEF RecordInv, PastRead, OpPcs
  <2> QED
    BY <2>1, <2>2, <2>3 DEF RecordInv, RecordTypes, OpMoves, ActiveHasCredential
<1>4. CASE OpEnsures(o) /\ AfterCredential(o, op[o].saw) # "nothing"
  <2> DEFINE goes == AfterCredential(o, op[o].saw)
  <2>1. /\ op' = [op EXCEPT ![o].pc = goes, ![o].secret = secret']
        /\ op[o].pc = "credential" /\ UNCHANGED <<status, life, failures>>
        /\ secret' \in Nat \ {0}
    BY <1>4 DEF OpEnsures, OpAt, Ensured, RecordInv, RecordTypes
  <2>2. /\ goes \in {"write", "call"}
        /\ goes = "write" => <<op[o].saw, Writes(o)>> \in Legal
    BY <1>0, <1>4, <2>1 DEF AfterCredential, Held, Writes, Legal
  <2> DEFINE r == [op[o] EXCEPT !.pc = goes, !.secret = secret']
  <2>3. r \in OpStates /\ r.pc = goes /\ r.saw = op[o].saw
    BY <2>1, <2>2 DEF RecordInv, RecordTypes, OpStates, OpPcs
  <2>4. op' = [op EXCEPT ![o] = r]
    BY <2>1
  <2> HIDE DEF r, goes
  <2>5. OpMoves(o, goes) /\ op'[o].saw = op[o].saw
    BY <2>3, <2>4 DEF OpMoves, RecordInv, RecordTypes
  <2>6. QueueInv'
    BY <2>1, <2>2, <2>5, QueueKept DEF RecordInv, OpPcs, QueueInv, PastRead
  <2>7. Held(o)'
    BY <1>0, <2>1, <2>2, <2>5 DEF Held, OpMoves, Writes
  <2>8. HeldInv'
    BY <2>1, <2>2, <2>5, <2>7, HeldKept DEF RecordInv, OpPcs, PastRead
  <2> QED
    BY <2>1, <2>5, <2>6, <2>8 DEF RecordInv, RecordTypes, OpMoves, ActiveHasCredential
<1>5. CASE OpEnsureFails(o)
  <2> DEFINE effect == Ensured /\ UNCHANGED status
  <2>1. OpThrows(o, effect) /\ op[o].pc = "credential" /\ effect \in BOOLEAN
    BY <1>5 DEF OpEnsureFails, OpAt
  <2>2. effect => status' \in Statuses /\ secret' \in Nat \ {0}
    BY DEF Ensured, RecordInv, RecordTypes
  <2> HIDE DEF effect
  <2> QED
    BY <2>1, <2>2, ThrowsKeepRecord DEF PastRead, OpPcs
<1> QED
  BY <1>1, <1>2, <1>3, <1>4, <1>5

\* The steps that write the status and rotate the secret.
LEMMA WritesKeepRecord ==
    ASSUME LTypeOK, RecordInv, NEW o \in Ops,
           OpWrites(o) \/ OpWriteFails(o) \/ OpRotates(o) \/ OpRotateFails(o)
    PROVE  RecordInv'
<1>0. Held(o) /\ Writes(o) \in Statuses
  BY DEF RecordInv, HeldInv, Writes, Statuses
<1>1. CASE OpWrites(o)
  <2>1. PICK pc \in {"rotate", "call"} : OpGoto(o, pc)
    BY <1>1 DEF OpWrites
  <2>2. /\ OpMoves(o, pc) /\ op[o].pc = "write" /\ status' = Writes(o)
        /\ UNCHANGED <<secret, life, failures>> /\ (Writes(o) = "active" => secret # 0)
    BY <1>0, <1>1, <2>1, OpGotoMoves DEF OpWrites, OpAt, OpPcs, Held
  <2>3. QueueInv'
    BY <2>1, <2>2, QueueKept DEF RecordInv, OpPcs, QueueInv, PastRead
  <2>4. Held(o)'
    BY <2>1, <2>2 DEF Held, OpMoves
  <2>5. HeldInv'
    BY <2>1, <2>2, <2>4, HeldKept DEF RecordInv, OpPcs, PastRead
  <2> QED
    BY <1>0, <2>2, <2>3, <2>5 DEF RecordInv, RecordTypes, OpMoves, ActiveHasCredential
<1>2. CASE OpWriteFails(o)
  BY <1>0, <1>2, ThrowsKeepRecord
  DEF OpWriteFails, OpAt, PastRead, OpPcs, RecordInv, RecordTypes, Held
<1>3. CASE OpRotates(o)
  <2>1. /\ OpMoves(o, "call") /\ op[o].pc = "rotate" /\ UNCHANGED <<status, life, failures>>
        /\ secret' \in Nat /\ (secret # 0 => secret' # 0)
    BY <1>3, OpGotoMoves DEF OpRotates, OpAt, OpPcs, Rotated, RecordInv, RecordTypes
  <2>2. QueueInv'
    BY <2>1, QueueKept DEF RecordInv, OpPcs, QueueInv, PastRead
  <2>3. Held(o)'
    BY <2>1 DEF Held, OpMoves
  <2>4. HeldInv'
    BY <2>1, <2>3, HeldKept DEF RecordInv, OpPcs, PastRead
  <2> QED
    BY <2>1, <2>2, <2>4 DEF RecordInv, RecordTypes, OpMoves, ActiveHasCredential
<1>4. CASE OpRotateFails(o)
  <2> DEFINE effect == Rotated /\ UNCHANGED status
  <2>1. OpThrows(o, effect) /\ op[o].pc = "rotate" /\ effect \in BOOLEAN
    BY <1>4 DEF OpRotateFails, OpAt
  <2>2. effect => status' \in Statuses /\ secret' \in Nat /\ (status' = "active" => secret' # 0)
    BY DEF Rotated, RecordInv, RecordTypes, ActiveHasCredential
  <2> HIDE DEF effect
  <2> QED
    BY <2>1, <2>2, ThrowsKeepRecord DEF PastRead, OpPcs
<1> QED
  BY <1>1, <1>2, <1>3, <1>4

\* The call of the registry and the return.
LEMMA CallsKeepRecord ==
    ASSUME LTypeOK, RecordInv, NEW o \in Ops, OpCalls(o) \/ OpReturns(o) \/ OpRereadFails(o)
    PROVE  RecordInv'
<1>1. CASE OpCalls(o)
  <2>1. /\ OpMoves(o, "called") /\ op[o].pc = "call" /\ UNCHANGED <<record, life, failures>>
    BY <1>1, OpGotoMoves DEF OpCalls, OpAt, OpPcs
  <2>2. QueueInv'
    BY <2>1, QueueKept DEF RecordInv, OpPcs, QueueInv, PastRead
  <2>3. Held(o)'
    BY <2>1 DEF Held, OpMoves
  <2>4. HeldInv'
    BY <2>1, <2>3, HeldKept DEF RecordInv, OpPcs, PastRead
  <2> QED
    BY <2>1, <2>2, <2>4 DEF RecordInv, RecordTypes, OpMoves, record, ActiveHasCredential
<1>2. CASE OpReturns(o)
  <2>1. PICK answer \in {"ok", "failed"} : OpEnds(o, answer)
    BY <1>2 DEF OpReturns
  <2>2. /\ OpMoves(o, "ended") /\ life' = Tail(life) /\ UNCHANGED <<record, failures>>
        /\ op[o].pc = "called"
    BY <1>2, <2>1, OpEndsMoves DEF OpEnds, OpReturns, OpAt
  <2>3. QueueInv' /\ life' \in Seq(Ops) /\ HeldInv'
    BY <2>2, QueueEnds, HeldEnds DEF RecordInv, PastRead, OpPcs
  <2> QED
    BY <2>2, <2>3 DEF RecordInv, RecordTypes, OpMoves, record, ActiveHasCredential
<1>3. CASE OpRereadFails(o)
  <2>1. op[o].pc \in PastRead
    BY <1>3 DEF OpRereadFails, OpAt, PastRead, OpPcs
  <2> QED
    BY <1>3, <2>1, ThrowsKeepRecord DEF OpRereadFails
<1> QED
  BY <1>1, <1>2, <1>3

\* A registry step leaves the record and the operations alone.
LEMMA RegistryKeepsRecord ==
    ASSUME RecordInv, UNCHANGED lifeVars
    PROVE  RecordInv'
<1>1. UNCHANGED <<status, secret, op, life, failures>>
  BY DEF lifeVars
<1>2. RecordTypes' /\ QueueInv' /\ ActiveHasCredential'
  BY <1>1 DEF RecordInv, RecordTypes, QueueInv, ActiveHasCredential
<1>3. HeldInv'
  BY <1>1 DEF RecordInv, HeldInv, Held, Writes
<1> QED
  BY <1>2, <1>3 DEF RecordInv

\* Every step keeps the record and what the operations know of it.
LEMMA RecordStep ==
    ASSUME LTypeOK, RecordInv, [LNext]_allVars
    PROVE  RecordInv'
<1>1. CASE UNCHANGED lifeVars
  BY <1>1, RegistryKeepsRecord
<1>2. ASSUME NEW o \in Ops, OpStep(o) PROVE RecordInv'
  BY <1>2, ReadsKeepRecord, CreatesKeepRecord, WritesKeepRecord, CallsKeepRecord DEF OpStep
<1> QED
  BY <1>1, <1>2 DEF LNext, allVars

-----------------------------------------------------------------------------
(* The registry call of an operation                                       *)

\* A registry step is no step of a call that has not begun; a pause or a retirement
\* ends without a connection; none is opened and no suspension lifted behind the gate.
Behind(j) ==
    /\ \A i \in Jobs : i # j => job'[i] = job[i]
    /\ job'[j].pc # "idle"
    /\ job'[j].pc = "done" /\ KindOf[j] \in {"pause", "retire"} => conns' = {}
    /\ KindOf[j] \in {"activate", "pause", "retire"} => job[j].pc # "idle"
    /\ gate.suspended => gate'.suspended
    /\ gate.blocked /\ conns = {} => conns' = {}

\* A call that moves and leaves gate and connections alone.
LEMMA QuietBehind ==
    ASSUME NEW j \in Jobs, NEW pc \in Pcs \ {"idle"}, Moves(j, pc), conns' \subseteq conns,
           gate' = gate,
           pc = "done" => KindOf[j] \notin {"pause", "retire"} \/ conns = {},
           KindOf[j] \in {"activate", "pause", "retire"} => job[j].pc # "idle"
    PROVE  Behind(j)
  BY DEF Behind, Moves

\* The calls of a window, of the lane and of stop().
LEMMA CallsBehind ==
    ASSUME Inv, NEW j \in Jobs,
           \/ OpenSession(j) \/ LaneDrops(j) \/ Stop(j) \/ OpenRegister(j)
           \/ CredentialMissing(j) \/ OpenReturns(j) \/ (KindOf[j] = "idle" /\ Close(j))
    PROVE  Behind(j)
<1>0. TypeOK /\ KindAt(j, job[j].pc)
  BY DEF Inv, LineInv, KindInv
<1>1. CASE OpenSession(j) /\ job' # [job EXCEPT ![j].pc = "credential", ![j].epoch = epoch]
  <2>1. PICK pc \in {"refused", "done"} : Goto(j, pc)
    BY <1>1 DEF OpenSession
  <2> QED
    BY <1>0, <1>1, <2>1, GotoMoves, QuietBehind DEF OpenSession, Pcs, Ended
<1>2. CASE OpenSession(j) /\ job' = [job EXCEPT ![j].pc = "credential", ![j].epoch = epoch]
  <2> DEFINE r == [job[j] EXCEPT !.pc = "credential", !.epoch = epoch]
  <2>1. job' = [job EXCEPT ![j] = r]
    BY <1>2
  <2>2. job[j] \in JobStates /\ epoch \in Nat
    BY <1>0 DEF TypeOK
  <2>3. r \in JobStates /\ r.pc = "credential"
    BY <2>2 DEF JobStates, Ended
  <2> HIDE DEF r
  <2>4. Moves(j, "credential")
    BY <1>0, <2>1, <2>3 DEF Moves, TypeOK
  <2> QED
    BY <1>2, <2>4, QuietBehind DEF OpenSession, Pcs
<1>3. CASE LaneDrops(j)
  BY <1>0, <1>3, GotoMoves, QuietBehind DEF LaneDrops, Pcs
<1>4. CASE Stop(j)
  <2> DEFINE all == {chain[i] : i \in 1 .. Len(chain)}
  <2> DEFINE r == [job[j] EXCEPT !.pc = "draining", !.waits = all]
  <2>1. job' = [job EXCEPT ![j] = r] /\ gate' = [gate EXCEPT !.stopped = TRUE]
        /\ conns' = conns /\ KindOf[j] = "stop"
    BY <1>4 DEF Stop
  <2>2. all \in SUBSET Jobs
    BY <1>0 DEF TypeOK
  <2> HIDE DEF all
  <2>3. r.pc = "draining"
    BY <1>0, <2>2 DEF TypeOK, JobStates, Ended
  <2> HIDE DEF r
  <2>4. gate'.suspended = gate.suspended
    BY <1>0, <2>1 DEF TypeOK
  <2> QED
    BY <1>0, <2>1, <2>3, <2>4 DEF Behind, TypeOK
<1>5. CASE OpenRegister(j) /\ Allowed(job[j].epoch)
  BY <1>0, <1>5, QueuedMoves, QuietBehind DEF OpenRegister, At, Pcs, TypeOK
<1>6. CASE OpenRegister(j) /\ ~Allowed(job[j].epoch)
  BY <1>0, <1>6, GotoMoves, QuietBehind DEF OpenRegister, At, Pcs, Ended
<1>7. CASE CredentialMissing(j)
  BY <1>0, <1>7, GotoMoves, QuietBehind DEF CredentialMissing, At, Pcs, Ended
<1>8. CASE OpenReturns(j)
  <2>1. PICK pc \in {"done", "failed"} : Goto(j, pc)
    BY <1>8 DEF OpenReturns
  <2> QED
    BY <1>0, <1>8, <2>1, GotoMoves, QuietBehind DEF OpenReturns, At, Pcs, Ended, KindAt
<1>9. CASE KindOf[j] = "idle" /\ Close(j)
  <2>1. epoch + 1 \in Nat
    BY <1>0 DEF TypeOK
  <2>2. Moves(j, "queued")
    BY <1>0, <1>9, <2>1, QueuedMoves DEF Close
  <2>3. gate'.suspended = gate.suspended
    BY <1>0, <1>9 DEF Close, TypeOK
  <2> QED
    BY <1>9, <2>2, <2>3 DEF Behind, Moves, Close
<1> QED
  BY <1>1, <1>2, <1>3, <1>4, <1>5, <1>6, <1>7, <1>8, <1>9

\* The works up to the end of their closes.
LEMMA ClosesBehind ==
    ASSUME Inv, NEW j \in Jobs,
           RunWork(j) \/ StopCloses(j) \/ CloseConfirmed(j) \/ CloseFails(j) \/ CloseEnds(j)
    PROVE  Behind(j)
<1>0. TypeOK /\ KindAt(j, job[j].pc)
  BY DEF Inv, LineInv, KindInv
<1>1. CASE RunWork(j) /\ Leaves(j, "refused")
  BY <1>0, <1>1, LeavesMoves, QuietBehind DEF RunWork, At, Pcs, Ended
<1>2. CASE (RunWork(j) \/ StopCloses(j)) /\ CloseSession(j)
  <2> DEFINE all == closing \cup ({session} \ {None})
  <2>1. all \in SUBSET Jobs /\ ClosesNext(j, all)
    BY <1>0, <1>2 DEF CloseSession, TypeOK
  <2> HIDE DEF all
  <2>2. PICK pc \in {"closing", "closed"} : Moves(j, pc)
    BY <1>0, <2>1, ClosesNextMoves
  <2> QED
    BY <1>2, <2>2, QuietBehind DEF RunWork, StopCloses, At, Pcs
<1>3. CASE CloseConfirmed(j) /\ job[j].todo = {}
  <2> DEFINE r == [job[j] EXCEPT !.pc = "closed", !.cur = None]
  <2>1. job' = [job EXCEPT ![j] = r]
    BY <1>3 DEF CloseConfirmed
  <2>2. job[j] \in JobStates /\ epoch \in Nat
    BY <1>0 DEF TypeOK
  <2>3. r \in JobStates /\ r.pc = "closed"
    BY <2>2 DEF JobStates, Ended
  <2> HIDE DEF r
  <2>4. Moves(j, "closed")
    BY <1>0, <2>1, <2>3 DEF Moves, TypeOK
  <2> QED
    BY <1>3, <2>4, QuietBehind DEF CloseConfirmed, At, Pcs
<1>4. CASE CloseConfirmed(j) /\ job[j].todo # {}
  <2>1. job[j].todo \in SUBSET Jobs /\ ClosesNext(j, job[j].todo)
    BY <1>0, <1>4 DEF CloseConfirmed, TypeOK, JobStates
  <2>2. PICK pc \in {"closing", "closed"} : Moves(j, pc)
    BY <1>0, <2>1, ClosesNextMoves
  <2> QED
    BY <1>4, <2>2, QuietBehind DEF CloseConfirmed, At, Pcs
<1>5. CASE CloseFails(j)
  BY <1>0, <1>5, LeavesMoves, QuietBehind DEF CloseFails, At, Pcs, Ended
<1>6. CASE CloseEnds(j)
  <2>1. Moves(j, "done")
    BY <1>0, <1>6, LeavesMoves DEF CloseEnds, Pcs, Ended
  <2>2. conns = {} /\ conns' = conns
    BY <1>6 DEF CloseEnds, At, Inv, HandInv, WorkInv
  <2>3. gate'.suspended = gate.suspended
    BY <1>0, <1>6 DEF CloseEnds, TypeOK
  <2> QED
    BY <1>6, <2>1, <2>2, <2>3 DEF Behind, Moves, CloseEnds, At
<1>7. RunWork(j) => Leaves(j, "refused") \/ CloseSession(j)
  BY DEF RunWork
<1> QED
  BY <1>1, <1>2, <1>3, <1>4, <1>5, <1>6, <1>7 DEF StopCloses

\* The works that connect and sign in.
LEMMA SigninsBehind ==
    ASSUME Inv, NEW j \in Jobs,
           Connects(j) \/ SigninFails(j) \/ Undone(j) \/ SigninDenied(j) \/ SignsIn(j)
    PROVE  Behind(j)
<1>0. TypeOK /\ KindAt(j, job[j].pc)
  BY DEF Inv, LineInv, KindInv
<1>1. CASE Connects(j) /\ Allowed(job[j].epoch)
  <2>1. Moves(j, "signin")
    BY <1>0, <1>1, GotoMoves DEF Connects, Pcs
  <2> QED
    BY <1>1, <2>1 DEF Behind, Moves, Connects, At, Allowed
<1>2. CASE Connects(j) /\ ~Allowed(job[j].epoch)
  BY <1>0, <1>2, LeavesMoves, QuietBehind DEF Connects, At, Pcs, Ended
<1>3. CASE (SigninFails(j) \/ SigninDenied(j) \/ SignsIn(j)) /\ Undoes(j)
  BY <1>0, <1>3, UndoesMoves, QuietBehind
  DEF SigninFails, SigninDenied, SignsIn, At, Pcs
<1>4. CASE SignsIn(j) /\ Allowed(job[j].epoch)
  <2>1. PICK pc \in {"registered", "done"} : Leaves(j, pc)
    BY <1>4 DEF SignsIn
  <2> QED
    BY <1>0, <1>4, <2>1, LeavesMoves, QuietBehind
    DEF SignsIn, At, Pcs, Ended, KindAt, Registers
<1>5. CASE Undone(j)
  BY <1>0, <1>5, LeavesMoves, QuietBehind DEF Undone, At, Pcs, Ended
<1>6. SignsIn(j) => Allowed(job[j].epoch) \/ Undoes(j)
  BY DEF SignsIn
<1> QED
  BY <1>1, <1>2, <1>3, <1>4, <1>5, <1>6 DEF SigninFails, SigninDenied

\* Every registry step is one of these.
LEMMA RegistryBehind ==
    ASSUME Inv, NEW j \in Jobs, RegistryStep(j)
    PROVE  Behind(j)
  BY CallsBehind, ClosesBehind, SigninsBehind DEF RegistryStep

-----------------------------------------------------------------------------
(* Every step keeps the invariant                                          *)

\* What a step of an operation, other than its call of the registry, may do to it: it
\* leaves "called" only by returning, and a pause or a retirement answers ok only when
\* the registry is done with its call.
Answers(o) ==
    /\ op[o].pc \in {"called", "ended"} => op[o].pc = "called" /\ op'[o].pc = "ended"
    /\ op'[o].pc # "called"
    /\ op'[o].answer = "ok" /\ op[o].answer = "none" /\ Shuts(o) =>
          op[o].pc = "called" /\ job[o].pc = "done"

LEMMA OpStepMoves ==
    ASSUME LTypeOK, RecordInv, NEW o \in Ops, OpStep(o), ~OpCalls(o)
    PROVE  /\ UNCHANGED vars
           /\ \A p \in Ops : p # o => op'[p] = op[p]
           /\ Answers(o)
<1>0. op \in [Ops -> OpStates] /\ op[o] \in OpStates /\ Held(o)
  BY DEF RecordInv, RecordTypes, HeldInv
<1>1. ASSUME NEW pc \in OpPcs \ {"called", "ended"}, op'[o].pc = pc,
             op'[o].answer = op[o].answer, op[o].pc \notin {"called", "ended"}
      PROVE  Answers(o)
  BY <1>1 DEF Answers
<1>2. ASSUME NEW answer \in {"ok", "refused", "failed"}, OpEnds(o, answer),
             op[o].pc # "ended",
             answer = "ok" /\ Shuts(o) => op[o].pc = "called" /\ job[o].pc = "done"
      PROVE  Answers(o) /\ \A p \in Ops : p # o => op'[p] = op[p]
  BY <1>2, OpEndsMoves DEF Answers, OpMoves
<1>3. ASSUME NEW effect, OpThrows(o, effect), op[o].pc # "ended"
      PROVE  Answers(o) /\ \A p \in Ops : p # o => op'[p] = op[p]
  BY <1>2, <1>3 DEF OpThrows
<1>4. ASSUME NEW pc \in OpPcs \ {"called", "ended"}, OpGoto(o, pc),
             op[o].pc \notin {"called", "ended"}
      PROVE  Answers(o) /\ \A p \in Ops : p # o => op'[p] = op[p]
  BY <1>1, <1>4, OpGotoMoves DEF OpMoves
<1>5. CASE OpCalled(o) \/ OpWrites(o) \/ OpRotates(o)
  BY <1>4, <1>5 DEF OpCalled, OpWrites, OpRotates, OpAt, OpPcs
<1>6. CASE OpReadFails(o) \/ OpInsertFails(o) \/ OpEnsureFails(o) \/ OpWriteFails(o)
           \/ OpRotateFails(o) \/ OpRereadFails(o)
  BY <1>3, <1>6 DEF OpReadFails, OpInsertFails, OpEnsureFails, OpWriteFails, OpRotateFails,
                    OpRereadFails, OpAt
<1>7. CASE OpReads(o)
  <2> DEFINE goes == Begins(o, status)
  <2>1. op[o].pc = "read" /\ UNCHANGED vars
    BY <1>7 DEF OpReads, OpAt
  <2>2. CASE goes = "refused"
    BY <1>2, <1>7, <2>1, <2>2 DEF OpReads
  <2>3. CASE goes = "nothing"
    <3>1. ~Shuts(o) /\ OpEnds(o, "ok")
      BY <1>7, <2>3 DEF OpReads, Begins, Shuts
    <3> QED
      BY <1>2, <2>1, <3>1
  <2>4. CASE goes \notin {"refused", "nothing"}
    <3>1. op' = [op EXCEPT ![o].pc = goes, ![o].saw = status]
      BY <1>7, <2>4 DEF OpReads
    <3>2. goes \in {"insert", "credential", "write", "call"}
      BY <2>4 DEF Begins
    <3> DEFINE r == [op[o] EXCEPT !.pc = goes, !.saw = status]
    <3>3. r.pc = goes /\ r.answer = op[o].answer
      BY <1>0 DEF OpStates
    <3>4. op' = [op EXCEPT ![o] = r]
      BY <3>1
    <3> HIDE DEF r, goes
    <3> QED
      BY <1>0, <1>1, <2>1, <3>2, <3>3, <3>4 DEF OpPcs
  <2> QED
    BY <2>2, <2>3, <2>4
<1>8. CASE OpInserts(o)
  <2> DEFINE r == [op[o] EXCEPT !.pc = "credential", !.saw = status']
  <2>1. op[o].pc = "insert" /\ UNCHANGED vars /\ op' = [op EXCEPT ![o] = r]
    BY <1>8 DEF OpInserts, OpAt
  <2>2. r.pc = "credential" /\ r.answer = op[o].answer
    BY <1>0 DEF OpStates
  <2> HIDE DEF r
  <2> QED
    BY <1>0, <1>1, <2>1, <2>2 DEF OpPcs
<1>9. CASE OpEnsures(o)
  <2> DEFINE goes == AfterCredential(o, op[o].saw)
  <2>1. op[o].pc = "credential" /\ UNCHANGED vars /\ ~Shuts(o)
    BY <1>0, <1>9 DEF OpEnsures, OpAt, Held, Shuts
  <2>2. CASE goes = "nothing"
    BY <1>2, <1>9, <2>1, <2>2 DEF OpEnsures
  <2>3. CASE goes # "nothing"
    <3>1. op' = [op EXCEPT ![o].pc = goes, ![o].secret = secret']
      BY <1>9, <2>3 DEF OpEnsures
    <3>2. goes \in {"write", "call"}
      BY <2>3 DEF AfterCredential
    <3> DEFINE r == [op[o] EXCEPT !.pc = goes, !.secret = secret']
    <3>3. r.pc = goes /\ r.answer = op[o].answer
      BY <1>0 DEF OpStates
    <3>4. op' = [op EXCEPT ![o] = r]
      BY <3>1
    <3> HIDE DEF r, goes
    <3> QED
      BY <1>0, <1>1, <2>1, <3>2, <3>3, <3>4 DEF OpPcs
  <2> QED
    BY <2>2, <2>3
<1>10. CASE OpReturns(o)
  BY <1>2, <1>10 DEF OpReturns, OpAt
<1> QED
  BY <1>5, <1>6, <1>7, <1>8, <1>9, <1>10
  DEF OpStep, OpCalled, OpWrites, OpRotates, OpReadFails, OpInsertFails, OpEnsureFails,
      OpWriteFails, OpRotateFails, OpReturns, OpRereadFails

\* The registry call of an operation keeps the link between the two.
LEMMA CallsKeepCall ==
    ASSUME LInv, NEW o \in Ops, OpCalls(o)
    PROVE  CallInv'
<1>0. TypeOK /\ LTypeOK /\ QueueInv /\ epoch \in Nat /\ epoch + 1 \in Nat /\ o \in Jobs
  BY LifecycleAssumption DEF LInv, Inv, LineInv, TypeOK
<1>1. /\ OpMoves(o, "called") /\ op[o].pc = "call"
      /\ \A p \in Ops : p # o => op[p].pc # "called"
  <2>1. OpMoves(o, "called") /\ op[o].pc = "call"
    BY <1>0, OpGotoMoves DEF OpCalls, OpAt, OpPcs
  <2> QED
    BY <1>0, <2>1, OneAtATime DEF PastRead, OpPcs
<1>2. PICK e \in {epoch, epoch + 1} : Queued(o, e)
  BY DEF OpCalls, Activate, Close
<1>3. Moves(o, "queued")
  BY <1>0, <1>2, QueuedMoves
<1>4. Shuts(o) => gate'.suspended
  <2> SUFFICES ASSUME Shuts(o) PROVE gate'.suspended
    OBVIOUS
  <2>1. KindOf[o] \in {"pause", "retire"}
    BY LifecycleAssumption DEF Shuts, JobKind
  <2> QED
    BY <1>0, <2>1 DEF OpCalls, Activate, Close, TypeOK
<1>5. \A p \in Ops : p \in Jobs
  BY LifecycleAssumption
<1> QED
  BY <1>1, <1>3, <1>4, <1>5 DEF LInv, CallInv, OpMoves, Moves

\* Whatever happens the link between an operation and its registry call holds.
LEMMA CallStep ==
    ASSUME LInv, [LNext]_allVars
    PROVE  CallInv'
<1>0. \A p \in Ops : p \in Jobs /\ (op[p].pc = "called" /\ Shuts(p) => gate.blocked)
  BY LifecycleAssumption DEF LInv, CallInv, Inv, HandInv, GateInv
<1>1. CASE UNCHANGED allVars
  BY <1>1 DEF LInv, CallInv, allVars, vars, lifeVars
<1>2. ASSUME NEW o \in Ops, OpStep(o), ~OpCalls(o) PROVE CallInv'
  <2>1. /\ UNCHANGED vars
        /\ \A p \in Ops : p # o => op'[p] = op[p]
        /\ Answers(o)
    BY <1>2, OpStepMoves DEF LInv, RecordInv, RecordTypes, LTypeOK, OpStates, OpPcs, Statuses
  <2> QED
    BY <2>1 DEF LInv, CallInv, Answers, vars
<1>3. ASSUME NEW j \in Jobs, RegistryStep(j), UNCHANGED lifeVars PROVE CallInv'
  <2>1. Behind(j)
    BY <1>3, RegistryBehind DEF LInv
  <2>2. j \in Ops => job[j].pc # "idle"
    BY <2>1, LifecycleAssumption DEF Behind, JobKind
  <2>3. \A p \in Ops : Shuts(p) => KindOf[p] \in {"pause", "retire"}
    BY LifecycleAssumption DEF Shuts, JobKind
  <2> QED
    BY <1>0, <1>3, <2>1, <2>2, <2>3 DEF LInv, CallInv, Behind, lifeVars
<1> QED
  BY <1>1, <1>2, <1>3, CallsKeepCall DEF LNext

-----------------------------------------------------------------------------
(* Theorems                                                                *)

LEMMA LInvInit == LInit => LInv
<1> SUFFICES ASSUME LInit PROVE LInv
  OBVIOUS
<1>1. Inv /\ TypeOK
  BY InvInit DEF LInit, Inv, LineInv
<1>2. op \in [Ops -> OpStates] /\ \A o \in Ops : op[o].pc = "idle"
  BY DEF LInit, NoOp, OpStates, OpPcs, Statuses
<1>3. RecordInv
  BY <1>2, LifecycleAssumption
  DEF LInit, RecordInv, RecordTypes, QueueInv, HeldInv, Held, ActiveHasCredential, Statuses,
      PastRead, OpPcs
<1>4. LTypeOK
  BY <1>1, <1>3 DEF LTypeOK, RecordInv, RecordTypes, OpStates, OpPcs, Statuses
<1>5. CallInv
  BY <1>2, LifecycleAssumption DEF LInit, Init, NoJob, CallInv
<1> QED
  BY <1>1, <1>3, <1>4, <1>5 DEF LInv, RecordInv

LEMMA LInvStep ==
    ASSUME "signin" \in Faults, LInv, [LNext]_allVars
    PROVE  LInv'
<1>1. LTypeOK /\ RecordInv
  BY DEF LInv, RecordInv, RecordTypes, LTypeOK, OpStates, OpPcs, Statuses
<1>2. Inv' /\ TypeOK'
  <2>1. [Next]_vars
    BY NextKept
  <2> QED
    BY <2>1, InvStep DEF LInv, Inv, LineInv
<1>3. RecordInv'
  BY <1>1, RecordStep
<1>4. LTypeOK'
  BY <1>2, <1>3 DEF LTypeOK, RecordInv, RecordTypes, OpStates, OpPcs, Statuses
<1> QED
  BY <1>2, <1>3, <1>4, CallStep DEF LInv, RecordInv

LEMMA LInvariance ==
    ASSUME "signin" \in Faults
    PROVE  LSpec => []LInv
<1>1. LInv /\ [LNext]_allVars => LInv'
  BY LInvStep
<1> QED
  BY <1>1, LInvInit, PTL DEF LSpec

\* The lifecycle keeps its types, whichever operations run and queries throw.
THEOREM LifecycleTypes ==
    ASSUME "signin" \in Faults
    PROVE  LSpec => []LTypeOK
<1>1. LInv => LTypeOK
  BY DEF LInv
<1> QED
  BY <1>1, LInvariance, PTL

\* Wherever a query of a create or a resume throws, and whatever is called after it, an
\* employee that is active has a credential to sign in with (provision, ensureCredential).
THEOREM CredentialBehindStatus ==
    ASSUME "signin" \in Faults
    PROVE  LSpec => []ActiveHasCredential
<1>1. LInv => ActiveHasCredential
  BY DEF LInv
<1> QED
  BY <1>1, LInvariance, PTL

\* Only the operation at its insert or at its write changes the status, as it may.
LEMMA StatusStep ==
    ASSUME LInv, [LNext]_allVars, status' # status
    PROVE  <<status, status'>> \in Legal
<1>1. PICK o \in Ops : OpStep(o)
  BY DEF LNext, allVars, lifeVars
<1>2. Held(o)
  BY DEF LInv, HeldInv
<1>3. CASE op[o].pc = "insert" /\ Created
  BY <1>2, <1>3 DEF Held, Created, Legal
<1>4. CASE op[o].pc = "write" /\ status' = Writes(o)
  BY <1>2, <1>4 DEF Held
<1>5. \/ op[o].pc = "insert" /\ Created
      \/ op[o].pc = "write" /\ status' = Writes(o)
  BY <1>1
  DEF OpStep, OpCalled, OpReads, OpReadFails, OpInserts, OpInsertFails, OpEnsures, OpEnsureFails,
      OpWrites, OpWriteFails, OpRotates, OpRotateFails, OpCalls, OpReturns, OpRereadFails,
      OpThrows, OpAt, record
<1> QED
  BY <1>3, <1>4, <1>5

\* The operations of one process make only the transitions that transit allows, although
\* their writes do not check the status they replace: the queue keeps what they read true.
THEOREM TransitionsAreLegal ==
    ASSUME "signin" \in Faults
    PROVE  LSpec => LegalTransitions
<1>1. LInv /\ [LNext]_allVars => [status' # status => <<status, status'>> \in Legal]_allVars
  BY StatusStep
<1> QED
  BY <1>1, LInvariance, PTL DEF LSpec, LegalTransitions

\* Only the return of a call that the registry has done lets a pause answer ok.
LEMMA AnswerStep ==
    ASSUME LInv, [LNext]_allVars, NEW o \in Ops,
           op'[o].answer = "ok", op[o].answer = "none", OpKindOf[o] \in {"pause", "retire"}
    PROVE  gate'.suspended /\ Usable' = None /\ conns' = {}
<1>1. PICK p \in Ops : OpStep(p)
  BY DEF LNext, allVars, lifeVars
<1>2. ~OpCalls(p)
  <2> SUFFICES ASSUME OpCalls(p) PROVE FALSE
    OBVIOUS
  <2>1. op'[p].answer = op[p].answer /\ \A q \in Ops : q # p => op'[q] = op[q]
    BY OpGotoMoves DEF OpCalls, OpMoves, LInv, OpPcs
  <2> QED
    BY <2>1
<1>3. UNCHANGED vars /\ Answers(p) /\ \A q \in Ops : q # p => op'[q] = op[q]
  BY <1>1, <1>2, OpStepMoves
  DEF LInv, RecordInv, RecordTypes, LTypeOK, OpStates, OpPcs, Statuses
<1>4. p = o /\ op[o].pc = "called" /\ job[o].pc = "done"
  BY <1>3 DEF Answers, Shuts
<1>5. gate.suspended /\ gate.blocked /\ conns = {}
  BY <1>4 DEF LInv, CallInv, Shuts, Inv, HandInv, GateInv
<1> QED
  BY <1>3, <1>5 DEF vars, Usable

\* A pause or a retirement that answers ok has left the employee without a connection in
\* this process, and the gate shut, whatever windows, failed queries and failed closes
\* came in between (transit, close).
THEOREM AnsweredIsShut ==
    ASSUME "signin" \in Faults
    PROVE  LSpec => ShutWhenAnswered
<1>1. LInv /\ [LNext]_allVars =>
        [\A o \in Ops :
            /\ op'[o].answer = "ok" /\ op[o].answer = "none"
            /\ OpKindOf[o] \in {"pause", "retire"}
            => gate'.suspended /\ Usable' = None /\ conns' = {}]_allVars
  BY AnswerStep
<1> QED
  BY <1>1, LInvariance, PTL DEF LSpec, ShutWhenAnswered

\* Transitions are legal, and what they answer is so.
THEOREM TransitionsAreKept ==
    ASSUME "signin" \in Faults
    PROVE  LSpec => TransitionsHold
<1> QED
  BY TransitionsAreLegal, AnsweredIsShut DEF TransitionsHold

=============================================================================
