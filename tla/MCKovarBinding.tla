--------------------------- MODULE MCKovarBinding ---------------------------
(* Instances of KovarBinding for TLC. *)
EXTENDS KovarBinding, TLC

CONSTANTS a1, u1, u2, u3, c1, c2, c3, c4, c5, c6

Ask(op, owner, claim) == [op |-> op, agent |-> a1, owner |-> owner, claim |-> claim]

\* Two users log in for one agent and continue with their codes, a third one's
\* login is complete at once, and its access token is presented as the second's.
MixedInput ==
  c1 :> Ask("login", u1, u1) @@ c2 :> Ask("login", u2, u2) @@
  c3 :> Ask("2fa", u1, u1) @@ c4 :> Ask("2fa", u2, u2) @@
  c5 :> Ask("login", u3, u3) @@ c6 :> Ask("bind", u3, u2)
=============================================================================
