----------------------------- MODULE MCUpstream -----------------------------
(* Instance of Upstream: a read and a write.  Calls share no state. *)
EXTENDS Upstream

CONSTANTS get, post

MethodOf == [c \in Calls |-> IF c = get THEN "GET" ELSE "POST"]
=============================================================================
