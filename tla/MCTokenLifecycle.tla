------------------------- MODULE MCTokenLifecycle -------------------------
(* Instances of TokenLifecycle for TLC. *)
EXTENDS TokenLifecycle, TLC

CONSTANTS a1, c1, c2, c3, c4

\* Two creations; the agent and the administrator both delete.
RetryOp == c1 :> "create" @@ c4 :> "create" @@ c2 :> "delete" @@ c3 :> "revoke"
RetryFor == c1 :> a1 @@ c4 :> a1 @@ c2 :> a1 @@ c3 :> a1
=============================================================================
