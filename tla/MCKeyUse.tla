------------------------------ MODULE MCKeyUse ------------------------------
(* Instances of KeyUse for TLC. *)
EXTENDS KeyUse, TLC

CONSTANTS a1, c1, c2, c3, u1, u2

\* Two creations and a deletion race with a task and a refresh.
RaceOp == c1 :> "create" @@ c2 :> "create" @@ c3 :> "delete"
RaceFor == c1 :> a1 @@ c2 :> a1 @@ c3 :> a1
RaceKind == u1 :> "task" @@ u2 :> "refresh"
RaceBy == u1 :> a1 @@ u2 :> a1
=============================================================================
