------------------------- MODULE MCEmployeeLifecycle --------------------------
(* Instances of EmployeeLifecycle for TLC. *)
EXTENDS EmployeeLifecycle, TLC

CONSTANTS o1, c1, c2, p1, r1, t1, t2

\* A window beside two creates, a pause, a resume and two retirements.
KindOfAll == (o1 :> "open" @@ c1 :> "activate" @@ c2 :> "activate" @@ p1 :> "pause"
           @@ r1 :> "activate" @@ t1 :> "retire" @@ t2 :> "retire")
KindsHere == [j \in Jobs |-> KindOfAll[j]]
OpKindOfAll == (c1 :> "create" @@ c2 :> "create" @@ p1 :> "pause" @@ r1 :> "resume"
             @@ t1 :> "retire" @@ t2 :> "retire")
OpKindsHere == [o \in Ops |-> OpKindOfAll[o]]
=============================================================================
