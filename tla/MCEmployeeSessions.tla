-------------------------- MODULE MCEmployeeSessions --------------------------
(* Instances of EmployeeSessions for TLC. *)
EXTENDS EmployeeSessions, TLC

CONSTANTS o1, o2, i1, i2, a1, p1, r1, s1

\* Windows, the lane's own closes, a resume, a pause, a retirement and stop().
Life == (o1 :> "open" @@ o2 :> "open" @@ i1 :> "idle" @@ i2 :> "idle" @@ a1 :> "activate"
         @@ p1 :> "pause" @@ r1 :> "retire" @@ s1 :> "stop")
KindsHere == [j \in Jobs |-> Life[j]]
=============================================================================
