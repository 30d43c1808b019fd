-------------------------- MODULE AllowancePromise --------------------------
(***************************************************************************)
(* What the AI allowance of a workspace promises, whatever the calls that  *)
(* are under way (the contract at the head of                              *)
(* server/src/ai-allowance/service.ts): a bucket is funded once, an        *)
(* idempotency key holds at most once, a hold takes no more than its       *)
(* bucket has free, and it is closed exactly once, for no more than was    *)
(* disclosed.  AiAllowance implements this module.                         *)
(***************************************************************************)
EXTENDS Integers, Sequences

CONSTANTS
    Buckets,    \* every bucket that may ever be created
    Keys,       \* idempotency keys
    Amounts     \* what a hold may take: positive numbers

VARIABLES
    purse,      \* bucket -> its amounts; NoPurse until it is funded
    hold        \* the holds, in the order they were taken

promiseVars == <<purse, hold>>

NoPurse == [total |-> 0, free |-> 0, held |-> 0, spent |-> 0, lost |-> 0]

PromiseInit ==
    /\ purse = [b \in Buckets |-> NoPurse]
    /\ hold = <<>>

\* A bucket is funded, with any amount.
Fund(b) ==
    LET n == purse'[b].total IN
    /\ purse[b] = NoPurse
    /\ n \in Nat \ {0}
    /\ purse' = [purse EXCEPT ![b] = [NoPurse EXCEPT !.total = n, !.free = n]]
    /\ UNCHANGED hold

Hold(k, b, n) ==
    /\ hold' = Append(hold, [key |-> k, bucket |-> b, amount |-> n,
                             state |-> "open", charge |-> 0])
    /\ \A i \in DOMAIN hold : hold[i].key # k
    /\ purse[b].free >= n
    /\ purse' = [purse EXCEPT ![b].free = @ - n, ![b].held = @ + n]

\* A hold ends: a part is charged, the rest goes back to the bucket or is written off.
Spent(p, amount, charge, back) ==
    LET rest == amount - charge
    IN  [total |-> p.total, held |-> p.held - amount, spent |-> p.spent + charge,
         free |-> IF back THEN p.free + rest ELSE p.free,
         lost |-> IF back THEN p.lost ELSE p.lost + rest]

Closed(h, charge) == [key |-> h.key, bucket |-> h.bucket, amount |-> h.amount,
                      state |-> "closed", charge |-> charge]

Close(i, charge, back) ==
    LET h == hold[i]
    IN  /\ h.state = "open"
        /\ hold' = [hold EXCEPT ![i] = Closed(h, charge)]
        /\ purse' = [purse EXCEPT ![h.bucket] = Spent(@, h.amount, charge, back)]

PromiseNext ==
    \/ \E b \in Buckets : Fund(b)
    \/ \E k \in Keys, b \in Buckets, n \in Amounts : Hold(k, b, n)
    \/ \E i \in DOMAIN hold, back \in BOOLEAN :
         \E charge \in 0..hold[i].amount : Close(i, charge, back)

PromiseSpec == PromiseInit /\ [][PromiseNext]_promiseVars
=============================================================================
