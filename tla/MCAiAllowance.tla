---------------------------- MODULE MCAiAllowance ----------------------------
(* Instances of AiAllowance for TLC. *)
EXTENDS AiAllowance, TLC

CONSTANTS gift, tbase, tup, pbase, pup1, k1, k2, r1, c1, c2, c3, c4, c5, c6, c7, c8, s1, s2, s3

\* A compensation, the base and the supplement of a trial's cycle, and the base and the supplement of a paid one.
TermsAll ==
    gift  :> [kind |-> "compensation", src |-> None, period |-> "gift", from |-> 0, until |-> 1]
 @@ tbase :> [kind |-> "plan_cycle", src |-> "trial", period |-> "trial1", from |-> 0, until |-> 1]
 @@ tup   :> [kind |-> "plan_cycle", src |-> "trial", period |-> "trial1", from |-> 0, until |-> 1]
 @@ pbase :> [kind |-> "plan_cycle", src |-> "sub", period |-> "paid1", from |-> 0, until |-> 2]
 @@ pup1  :> [kind |-> "plan_cycle", src |-> "sub", period |-> "paid1", from |-> 0, until |-> 2]
TermsHere == [b \in Buckets |-> TermsAll[b]]

CallAll ==
    c1 :> [op |-> "reserve", name |-> k1, run |-> r1, charge |-> 0]
 @@ c2 :> [op |-> "finish", name |-> k1, run |-> r1, charge |-> 0]
 @@ c3 :> [op |-> "resume", name |-> k2, run |-> r1, charge |-> 0]
 @@ c4 :> [op |-> "settle", name |-> k1, run |-> r1, charge |-> 1]
 @@ c5 :> [op |-> "release", name |-> k1, run |-> r1, charge |-> 0]
 @@ c6 :> [op |-> "fail", name |-> k1, run |-> r1, charge |-> 0]
 @@ c7 :> [op |-> "balance", name |-> k1, run |-> r1, charge |-> 0]
 @@ c8 :> [op |-> "reserve", name |-> k1, run |-> r1, charge |-> 0]
CallsHere == [c \in Calls |-> CallAll[c]]

Trial == [src |-> "trial", period |-> "trial1", base |-> tbase, up |-> tup, target |-> 4,
          event |-> "t", remaining |-> 0, den |-> 3, ends |-> None]
Paid == [src |-> "sub", period |-> "paid1", base |-> pbase, up |-> pup1, target |-> 2,
         event |-> "item1", remaining |-> 3, den |-> 3, ends |-> "trial"]
DirAll ==
    s1 :> Trial
 @@ s2 :> Paid
 @@ s3 :> [Paid EXCEPT !.target = 4, !.event = "item2"]
DirsHere == [s \in Syncs |-> DirAll[s]]

\* A trial that converts, and ends.
MovesHere == [x \in Sources \cup {None} |->
                CASE x = "trial" -> {"sub"} [] x = "sub" -> {None} [] OTHER -> {}]
TogetherHere == {{c1, c2, c3}, {c1, c4, s1, s2}, {c1, c4, c5}, {c1, c6, c7}, {c1, c8, s1}, {s1, s2, s3}}
=============================================================================
