----------------------------- MODULE MCChatRuns -----------------------------
(* Instances of ChatRuns for TLC. *)
EXTENDS ChatRuns, TLC

CONSTANTS s1, s2, v1, w1, w2, yes1, no1

KindAll == s1 :> "send" @@ s2 :> "send" @@ v1 :> "recover" @@ w1 :> "write" @@ w2 :> "write"
           @@ yes1 :> "resume" @@ no1 :> "resume"
KindsHere == [q \in Requests |-> KindAll[q]]
DecisionsHere == [q \in Requests |-> IF q = no1 THEN "write-rejected" ELSE "write-confirmed"]

\* A repeated send with a recovery; tabs that confirm twice, confirm and reject, or come back.
TogetherHere == {{s1, s2, v1}, {s1, w1, w2, yes1}, {s1, w1, no1}, {s1, yes1, no1}, {s1, yes1, v1}}
=============================================================================
