------------------------------ MODULE ChatRuns ------------------------------
(***************************************************************************)
(* One chat run of one user: the requests that reach it                    *)
(* (server/src/routes/ai-chat.ts), its executions in the background        *)
(* (ai/chat-service.ts), the rows they share (chat_delivery, workflow_run  *)
(* and chat_write_fence) and the allowance that is held for it, whose      *)
(* operations are atomic here (AiAllowance implements them).               *)
(*                                                                         *)
(* A step is what a request or an execution does between two awaits.  A    *)
(* query may throw, without effect or after it, and the process may stop.  *)
(***************************************************************************)
EXTENDS Integers, Sequences, FiniteSets

CONSTANTS
    Requests,   \* HTTP requests; one that starts an execution goes on as that execution
    KindOf,     \* [Requests -> Kinds]
    DecisionOf, \* [Requests -> Decisions], what a resume submits
    MaxSuspends,\* bound: how often the run suspends
    MaxTroubles,\* bound: queries that throw, and crashes
    Together,   \* bound: the sets of requests that come beside each other
    None

Kinds == {"send", "recover", "resume", "write"}
Decisions == {"write-confirmed", "write-rejected"}

ASSUME ChatAssumption ==
    /\ KindOf \in [Requests -> Kinds]
    /\ DecisionOf \in [Requests -> Decisions]
    /\ MaxSuspends \in Nat /\ MaxTroubles \in Nat
    /\ Together \subseteq SUBSET Requests
    /\ None \notin Requests

\* Suspend path keys: the run's counter suspendSeq, here without the step's name.
Keys == 0..MaxSuspends

VARIABLES
    live,       \* the requests of this behaviour
    req,        \* the requests
    row,        \* status of chat_delivery
    wf,         \* workflow_run: status, key of the suspend it is at, suspends so far
    fence,      \* chat_write_fence
    window,     \* the resume that has claimed the resume window, or None
    known,      \* the run is in the registry of the process
    hold,       \* what the allowance has for the run
    charges,    \* how often the run was charged
    shown,      \* keys whose card a tab has seen
    written,    \* business writes per key
    decided,    \* decisions the run was resumed with, per key
    troubles

vars == <<live, req, row, wf, fence, window, known, hold, charges, shown, written, decided, troubles>>

NoRequest == [pc |-> "idle", key |-> 0, ended |-> "no", prev |-> "none", out |-> "none"]
NoFence == [st |-> "none", by |-> "none"]

Init ==
    /\ live \in Together
    /\ req = [q \in Requests |-> NoRequest]
    /\ row = "none"
    /\ wf = [status |-> "none", key |-> 0, n |-> 0]
    /\ fence = [k \in Keys |-> NoFence]
    /\ window = None
    /\ known = "no"
    /\ hold = "none" /\ charges = 0
    /\ shown = {}
    /\ written = [k \in Keys |-> 0]
    /\ decided = [k \in Keys |-> <<>>]
    /\ troubles = 0

At(q, pc) == req[q].pc = pc
Goto(q, pc) == req' = [req EXCEPT ![q].pc = pc]
Yields(q, pc, out) == req' = [req EXCEPT ![q].pc = pc, ![q].out = out]
Ends(q, out) == Yields(q, "find", out)
Starts(q, kind) == At(q, "idle") /\ q \in live /\ KindOf[q] = kind
Trouble == troubles < MaxTroubles /\ troubles' = troubles + 1

Rows == <<row, wf, fence, window>>
Money == <<hold, charges>>
Marks == <<shown, written, decided>>

-----------------------------------------------------------------------------
(* The allowance, at the level of AllowancePromise. *)

\* Mutant of Finish: a success is charged whatever became of its hold.
FinishAgain(success) ==
    /\ hold' = IF success THEN "charged" ELSE "returned"
    /\ charges' = IF success THEN charges + 1 ELSE charges

\* finishByRun: an open hold is charged or returned; there is nothing to do without one.
Finish(success) ==
    IF hold = "open"
    THEN /\ hold' = IF success THEN "charged" ELSE "returned"
         /\ charges' = IF success THEN charges + 1 ELSE charges
    ELSE UNCHANGED Money

\* The hold expires and is swept, at any time: it outlives the execution that took it, but
\* allowance.resume continues an open one without a new deadline.
Sweep ==
    /\ hold = "open"
    /\ hold' = "returned"
    /\ UNCHANGED <<live, req, Rows, known, charges, Marks, troubles>>

-----------------------------------------------------------------------------
(* chat_delivery *)

\* ChatDeliveryStore.status and save: only a row that runs or waits.
Marked(status) == row' = IF row \in {"running", "suspended"} THEN status ELSE row

-----------------------------------------------------------------------------
(* POST /api/chat *)

\* The INSERT of the delivery: the first request of the key is the fresh one.
Claim(q) ==
    /\ Starts(q, "send")
    /\ row' = IF row = "none" THEN "running" ELSE row
    /\ Goto(q, IF row = "none" THEN "register" ELSE "read")
    /\ UNCHANGED <<live, wf, fence, window, known, Money, Marks, troubles>>

ClaimThrows(q) ==
    /\ Starts(q, "send") /\ Trouble
    /\ row' \in {row, IF row = "none" THEN "running" ELSE row}
    /\ Goto(q, "done")
    /\ UNCHANGED <<live, wf, fence, window, known, Money, Marks>>

Register(q) ==
    /\ At(q, "register")
    /\ known' = "yes"
    /\ Goto(q, "reserve")
    /\ UNCHANGED <<live, Rows, Money, Marks, troubles>>

\* A metered action reserves or is refused; one that is not metered goes on without a hold.
Reserve(q) ==
    /\ At(q, "reserve")
    /\ \/ hold' \in {hold, "open"} /\ Goto(q, "begin")
       \/ hold' = hold /\ Goto(q, "refused")
    /\ UNCHANGED <<live, Rows, known, charges, Marks, troubles>>

Refused(q) ==
    /\ At(q, "refused")
    /\ Marked("failed")
    /\ Goto(q, "done")
    /\ UNCHANGED <<live, wf, fence, window, known, Money, Marks, troubles>>

\* Mutant of Abandon: the row is left as it is.
AbandonQuietly(q) ==
    /\ At(q, "abandon")
    /\ Goto(q, "giveBack")
    /\ UNCHANGED <<live, Rows, known, Money, Marks, troubles>>

\* startChat returns at once and the run goes on in the background.
Begin(q) ==
    /\ At(q, "begin")
    /\ known' = "yes"
    /\ \/ wf' = [wf EXCEPT !.status = "running"] /\ Goto(q, "run")
       \/ wf' = wf /\ Goto(q, "abandon")      \* internalAiGate.bind throws
    /\ UNCHANGED <<live, row, fence, window, Money, Marks, troubles>>

\* What is left of a run that could not be started: the row, then the hold.
Abandon(q) ==
    /\ At(q, "abandon")
    /\ Marked("failed")
    /\ Goto(q, "giveBack")
    /\ UNCHANGED <<live, wf, fence, window, known, Money, Marks, troubles>>

GiveBack(q) ==
    /\ At(q, "giveBack")
    /\ Finish(FALSE)
    /\ Goto(q, "done")
    /\ UNCHANGED <<live, Rows, known, Marks, troubles>>

-----------------------------------------------------------------------------
(* recoverRun, asked for by the client or by a repeated send. *)

RecoverAsked(q) ==
    /\ Starts(q, "recover") /\ row # "none"
    /\ Goto(q, "read")
    /\ UNCHANGED <<live, Rows, known, Money, Marks, troubles>>

\* A run that is not in the registry has been interrupted; one that is gets its stream back.
Read(q) ==
    /\ At(q, "read")
    /\ Goto(q, CASE row = "complete" -> "reconcile"
                 [] row = "suspended" -> "card"
                 [] row = "running" /\ known = "no" -> "interrupted"
                 [] OTHER -> "done")
    /\ UNCHANGED <<live, Rows, known, Money, Marks, troubles>>

\* A suspended run gets its card again.
Card(q) ==
    /\ At(q, "card")
    /\ shown' = IF wf.status = "suspended" THEN shown \cup {wf.key} ELSE shown
    /\ Goto(q, "done")
    /\ UNCHANGED <<live, Rows, known, Money, written, decided, troubles>>

\* The stored answer is handed out and charged, unless its authorization has changed.
Reconcile(q) ==
    /\ At(q, "reconcile")
    /\ Finish(TRUE) \/ UNCHANGED Money
    /\ Goto(q, "done")
    /\ UNCHANGED <<live, Rows, known, Marks, troubles>>

Interrupted(q) ==
    /\ At(q, "interrupted")
    /\ Marked("failed")
    /\ Goto(q, "giveBack")
    /\ UNCHANGED <<live, wf, fence, window, known, Money, Marks, troubles>>

-----------------------------------------------------------------------------
(* confirmProposalWrite *)

Terminal(status) == status \in {"success", "cancelled"}

\* The key the persisted state yields: that of the suspend, or #0 when it shows none.
StateKeys == IF wf.status = "suspended" THEN {wf.key} ELSE {0, wf.key}

Loads(q, k, pc) ==
    req' = [req EXCEPT ![q].pc = pc, ![q].key = k, ![q].ended = IF Terminal(wf.status) THEN "yes" ELSE "no"]

WriteLoads(q) ==
    /\ Starts(q, "write")
    /\ \E k \in shown : Loads(q, k, IF ~Terminal(wf.status) /\ k \in StateKeys THEN "consume" ELSE "done")
    /\ UNCHANGED <<live, Rows, known, Money, Marks, troubles>>

\* Mutant of Consumable: a row that is consumed already is taken for a retry.
ConsumableAgain(k) == fence[k].st \in {"pending", "consumed"}

\* What the UPDATE of the write's transaction asks for.
Consumable(k) == fence[k].st = "pending"

\* One transaction: the suspend is consumed and the business row written, or neither is.
Consume(q) ==
    /\ At(q, "consume")
    /\ LET k == req[q].key
       IN  IF Consumable(k)
           THEN /\ fence' = [fence EXCEPT ![k] = [st |-> "consumed", by |-> "write-confirmed"]]
                /\ written' = [written EXCEPT ![k] = @ + 1]
           ELSE UNCHANGED <<fence, written>>
    /\ Goto(q, "done")
    /\ UNCHANGED <<live, row, wf, window, known, Money, shown, decided, troubles>>

\* The write fails and takes the consumption back with it.
ConsumeThrows(q) ==
    /\ At(q, "consume")
    /\ Goto(q, "done")
    /\ UNCHANGED <<live, Rows, known, Money, Marks, troubles>>

-----------------------------------------------------------------------------
(* resumeRun *)

\* A card has been shown; the key is the one it carries, or the one the persisted state yields.
ResumeLoads(q) ==
    /\ Starts(q, "resume")
    /\ shown # {}
    /\ \E k \in shown \cup StateKeys : Loads(q, k, "delivered")
    /\ UNCHANGED <<live, Rows, known, Money, Marks, troubles>>

Delivered(q) ==
    /\ At(q, "delivered")
    /\ Goto(q, IF row = "complete" THEN "read" ELSE "claim")
    /\ UNCHANGED <<live, Rows, known, Money, Marks, troubles>>

\* Mutant of Claimable: the status of the suspend is not asked for.
ClaimableAnyStatus(q) == fence[req[q].key].st # "none"

\* claimSuspendDecision: a suspend takes one decision, after a write only the one that confirms it.
Claimable(q) ==
    LET f == fence[req[q].key] IN
    \/ f.st = "pending"
    \/ f.st = "consumed" /\ f.by = "write-confirmed" /\ DecisionOf[q] = "write-confirmed"

Claims(q) == req' = [req EXCEPT ![q].pc = "window", ![q].prev = fence[req[q].key].st]

ClaimDecision(q) ==
    /\ At(q, "claim")
    /\ LET k == req[q].key
       IN  IF Claimable(q)
           THEN /\ fence' = [fence EXCEPT ![k] = [st |-> "resumed", by |-> DecisionOf[q]]]
                /\ Claims(q)
           ELSE /\ Goto(q, IF fence[k].st # "none" \/ req[q].ended = "yes" THEN "done" ELSE "window")
                /\ UNCHANGED fence
    /\ UNCHANGED <<live, row, wf, window, known, Money, Marks, troubles>>

\* What the UPDATE of the resume window asks for.
WindowFree == window = None /\ wf.status \in {"suspended", "success"}

\* claimResumeWindow
ClaimWindow(q) ==
    /\ At(q, "window")
    /\ IF WindowFree THEN window' = q /\ Goto(q, "continue")
       ELSE UNCHANGED window /\ Goto(q, "undo")
    /\ UNCHANGED <<live, row, wf, fence, known, Money, Marks, troubles>>

\* allowance.resume: what is open or charged is continued, otherwise a new hold is taken.
Continue(q) ==
    /\ At(q, "continue")
    /\ \/ hold' \in (IF hold \in {"open", "charged"} THEN {hold} ELSE {hold, "open"}) /\ Goto(q, "go")
       \/ hold' = hold /\ Goto(q, "undo")
    /\ UNCHANGED <<live, Rows, known, charges, Marks, troubles>>

Go(q) ==
    /\ At(q, "go")
    /\ known' = "yes"
    /\ Goto(q, "resuming") \/ Goto(q, "undo")       \* internalAiGate.bind throws
    /\ UNCHANGED <<live, Rows, Money, Marks, troubles>>

\* A query of the request throws, with or without effect: a claim whose answer is lost stays.
ClaimDecisionThrows(q) ==
    /\ At(q, "claim") /\ Trouble
    /\ LET k == req[q].key
       IN  fence' \in {fence, IF Claimable(q)
                              THEN [fence EXCEPT ![k] = [st |-> "resumed", by |-> DecisionOf[q]]]
                              ELSE fence}
    /\ Goto(q, "done")
    /\ UNCHANGED <<live, row, wf, window, known, Money, Marks>>

ResumeThrows(q) ==
    /\ req[q].pc \in {"window", "continue"} /\ Trouble
    /\ window' \in IF At(q, "window") /\ WindowFree THEN {None, q} ELSE {window}
    /\ Goto(q, "undo")
    /\ UNCHANGED <<live, row, wf, fence, known, Money, Marks>>

\* Mutant of Undone: the consumer is not restored with the status.
UndoneInPart(q) == [st |-> req[q].prev, by |-> req[q].prev]

\* releaseSuspendDecision restores what was claimed, if it is still this claim.
Undone(q) == [st |-> req[q].prev,
              by |-> IF req[q].prev = "consumed" THEN "write-confirmed" ELSE "none"]

Undo(q) ==
    /\ At(q, "undo")
    /\ LET k == req[q].key
       IN  fence' = IF req[q].prev # "none" /\ fence[k] = [st |-> "resumed", by |-> DecisionOf[q]]
                    THEN [fence EXCEPT ![k] = Undone(q)] ELSE fence
    /\ Goto(q, "release")
    /\ UNCHANGED <<live, row, wf, window, known, Money, Marks, troubles>>

UndoThrows(q) ==
    /\ At(q, "undo") /\ Trouble
    /\ Goto(q, "release")
    /\ UNCHANGED <<live, Rows, known, Money, Marks>>

-----------------------------------------------------------------------------
(* An execution of the run. *)

\* The resumer reads the snapshot: one that has succeeded is delivered again, or research is
\* asked to start anew; any other is resumed with the decision.
Resuming(q) ==
    /\ At(q, "resuming")
    /\ \/ /\ wf.status = "success"
          /\ \/ Yields(q, "save", "success")
             \/ Ends(q, "suspended")
          /\ UNCHANGED <<wf, decided>>
       \/ /\ wf.status = "suspended"
          /\ wf' = [wf EXCEPT !.status = "running"]
          /\ decided' = [decided EXCEPT ![req[q].key] = Append(@, DecisionOf[q])]
          /\ Goto(q, "run")
       \/ /\ wf.status \notin {"suspended", "success"}
          /\ Ends(q, "failed")
          /\ UNCHANGED <<wf, decided>>
    /\ UNCHANGED <<live, row, fence, window, known, Money, shown, written, troubles>>

ResumingThrows(q) ==
    /\ At(q, "resuming") /\ Trouble
    /\ Ends(q, "failed")
    /\ UNCHANGED <<live, Rows, known, Money, Marks>>

\* registerSuspendFence never reopens a suspend.
Fenced(f) == IF f.st = "none" THEN [st |-> "pending", by |-> "none"] ELSE f

\* suspendGuarded: the fence, which may fail, then the card, and at last the snapshot.
RaiseFence(q) ==
    /\ At(q, "run") /\ wf.n < MaxSuspends
    /\ \/ fence' = [fence EXCEPT ![wf.n] = Fenced(@)] /\ UNCHANGED troubles
       \/ UNCHANGED fence /\ Trouble
    /\ shown' = shown \cup {wf.n}
    /\ Goto(q, "suspending")
    /\ UNCHANGED <<live, row, wf, window, known, Money, written, decided>>

Suspend(q) ==
    /\ At(q, "suspending") /\ wf.n < MaxSuspends
    /\ wf' = [status |-> "suspended", key |-> wf.n, n |-> wf.n + 1]
    /\ Ends(q, "suspended")
    /\ UNCHANGED <<live, row, fence, window, known, Money, Marks, troubles>>

Succeed(q) ==
    /\ At(q, "run")
    /\ wf' = [wf EXCEPT !.status = "success"]
    /\ Yields(q, "save", "success")
    /\ UNCHANGED <<live, row, fence, window, known, Money, Marks, troubles>>

\* The runner throws, or the deadline passes and the run is cancelled.
Fail(q) ==
    /\ req[q].pc \in {"run", "suspending"}
    /\ wf' \in {wf, [wf EXCEPT !.status = "cancelled"]}
    /\ Ends(q, "failed")
    /\ UNCHANGED <<live, row, fence, window, known, Money, Marks, troubles>>

\* onResult: the answer is stored and read back before it counts.
Save(q) ==
    /\ At(q, "save")
    /\ Marked("complete")
    /\ Ends(q, IF row \in {"running", "suspended"} THEN "success" ELSE "failed")
    /\ UNCHANGED <<live, wf, fence, window, known, Money, Marks, troubles>>

SaveThrows(q) ==
    /\ At(q, "save") /\ Trouble
    /\ Marked("complete") \/ UNCHANGED row
    /\ Ends(q, "failed")
    /\ UNCHANGED <<live, wf, fence, window, known, Money, Marks>>

\* onTerminal looks whether the answer is stored after all, and does not stop when that throws.
Find(q) ==
    /\ At(q, "find")
    /\ IF row = "complete" THEN Yields(q, "meter", "success")
       ELSE Goto(q, "mark")
    /\ UNCHANGED <<live, Rows, known, Money, Marks, troubles>>

FindThrows(q) ==
    /\ At(q, "find") /\ Trouble
    /\ Goto(q, "mark")
    /\ UNCHANGED <<live, Rows, known, Money, Marks>>

Mark(q) ==
    /\ At(q, "mark")
    /\ Marked(IF req[q].out = "suspended" THEN "suspended" ELSE "failed")
    /\ Goto(q, "meter")
    /\ UNCHANGED <<live, wf, fence, window, known, Money, Marks, troubles>>

\* A suspended run keeps its hold.
Meter(q) ==
    /\ At(q, "meter")
    /\ IF req[q].out = "suspended" THEN UNCHANGED Money ELSE Finish(req[q].out = "success")
    /\ Goto(q, "release")
    /\ UNCHANGED <<live, Rows, known, Marks, troubles>>

MarkThrows(q) ==
    /\ req[q].pc \in {"mark", "meter"} /\ Trouble
    /\ Goto(q, IF At(q, "mark") THEN "meter" ELSE "release")
    /\ UNCHANGED <<live, Rows, known, Money, Marks>>

\* The window of a resume is released by the resume that has it.
Release(q) ==
    /\ At(q, "release")
    /\ window' = IF window = q THEN None ELSE window
    /\ Goto(q, "done")
    /\ UNCHANGED <<live, row, wf, fence, known, Money, Marks, troubles>>

ReleaseThrows(q) ==
    /\ At(q, "release") /\ Trouble
    /\ Goto(q, "done")
    /\ UNCHANGED <<live, Rows, known, Money, Marks>>

-----------------------------------------------------------------------------
(* Time and the process. *)

\* resume_until outlives the deadline of the execution that took the window.
WindowLapses ==
    /\ window # None /\ At(window, "done")
    /\ window' = None
    /\ UNCHANGED <<live, req, row, wf, fence, known, Money, Marks, troubles>>

\* The registry retains a run for ten minutes.
Forget ==
    /\ known = "yes" /\ known' = "no"
    /\ UNCHANGED <<live, req, Rows, Money, Marks, troubles>>

Crash ==
    /\ \E q \in Requests : req[q].pc \notin {"idle", "done"}
    /\ Trouble
    /\ known' = "no"
    /\ req' = [q \in Requests |-> IF At(q, "idle") THEN req[q] ELSE [req[q] EXCEPT !.pc = "done"]]
    /\ UNCHANGED <<live, Rows, Money, Marks>>

Serve(q) ==
    \/ Claim(q) \/ ClaimThrows(q) \/ Register(q) \/ Reserve(q) \/ Refused(q) \/ Begin(q) \/ Abandon(q)
    \/ GiveBack(q) \/ RecoverAsked(q) \/ Read(q) \/ Card(q) \/ Reconcile(q) \/ Interrupted(q)
    \/ WriteLoads(q) \/ Consume(q) \/ ConsumeThrows(q)
    \/ ResumeLoads(q) \/ Delivered(q) \/ ClaimDecision(q) \/ ClaimDecisionThrows(q) \/ ClaimWindow(q) \/ Continue(q) \/ Go(q)
    \/ ResumeThrows(q) \/ Undo(q) \/ UndoThrows(q)
Execute(q) ==
    \/ Resuming(q) \/ ResumingThrows(q) \/ RaiseFence(q) \/ Suspend(q) \/ Succeed(q) \/ Fail(q)
    \/ Save(q) \/ SaveThrows(q) \/ Find(q) \/ FindThrows(q) \/ Mark(q) \/ Meter(q) \/ MarkThrows(q)
    \/ Release(q) \/ ReleaseThrows(q)

Next ==
    \/ \E q \in Requests : Serve(q) \/ Execute(q)
    \/ Sweep \/ WindowLapses \/ Forget \/ Crash

Spec == Init /\ [][Next]_vars

\* A request that has been accepted and an execution go on: their queries answer or throw, and
\* an execution ends or meets its deadline.
GoesOn(q) == ~At(q, "idle") /\ (Serve(q) \/ Execute(q))
FairSpec == Spec /\ \A q \in Requests : WF_vars(GoesOn(q))

-----------------------------------------------------------------------------

\* Where an execution is.
RunStages == {"resuming", "run", "suspending", "save", "find", "mark", "meter", "release"}

RequestRecord == [pc : {"idle", "register", "reserve", "begin", "refused", "abandon", "giveBack", "read",
                        "card", "reconcile", "interrupted", "consume", "delivered", "claim", "window", "continue",
                        "go", "undo", "done"} \cup RunStages,
                  key : Keys, ended : {"yes", "no"}, prev : {"none", "pending", "consumed"},
                  out : {"none", "success", "suspended", "failed"}]

Fences == [st : {"none", "pending", "consumed", "resumed"}, by : Decisions \cup {"none"}]

\* The types of the variables.
TypeOK ==
    /\ live \in Together
    /\ req \in [Requests -> RequestRecord]
    /\ row \in {"none", "running", "suspended", "complete", "failed"}
    /\ wf \in [status : {"none", "running", "suspended", "success", "cancelled"}, key : Keys, n : Keys]
    /\ fence \in [Keys -> Fences]
    /\ window \in Requests \cup {None}
    /\ known \in {"yes", "no"}
    /\ hold \in {"none", "open", "charged", "returned"} /\ charges \in Nat
    /\ shown \subseteq Keys
    /\ written \in [Keys -> Nat]
    /\ decided \in [Keys -> Seq(Decisions)]
    /\ troubles \in Nat

\* Whatever tabs confirm, reject and retry, a suspend is written at most once, and what was written
\* stays closed: it is never pending again, and never counts as rejected.
WrittenOnce ==
    \A k \in Keys : written[k] > 0 =>
        /\ written[k] = 1
        /\ fence[k].st \in {"consumed", "resumed"} /\ fence[k].by = "write-confirmed"

\* Every suspend of the run has its fence: none was lost when it was raised.
AllFenced == \A k \in 0..(wf.n - 1) : fence[k].st # "none"

\* While no fence was lost, a suspend takes one decision, and takes it when the run is at that suspend;
\* with or without, nothing is written for a suspend that has been decided.
OneDecision ==
    [][\A k \in Keys :
         /\ decided'[k] # decided[k] /\ AllFenced => wf.key = k /\ decided[k] = <<>>
         /\ written'[k] # written[k] => decided[k] = <<>>]_vars

\* A run is charged once at the most, and only when its answer is stored.
ChargedIsDelivered ==
    charges > 0 => charges = 1 /\ hold = "charged" /\ row = "complete"

\* An answer that is stored is never given up.
CompleteStays == [][row = "complete" => row' = "complete"]_vars

\* A run that was accepted does not stay running: its answer is stored, it waits for a decision, or
\* it has failed, unless a query threw or the process stopped.
RowEnds == row = "running" ~> row # "running" \/ troubles > 0

\* The row of a run settles, and an answer that is stored is never given up.
RowSettles == RowEnds /\ CompleteStays
=============================================================================
