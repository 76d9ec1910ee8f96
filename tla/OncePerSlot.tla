----------------------------- MODULE OncePerSlot -----------------------------
(***************************************************************************)
(* What an idempotency key promises, whoever implements it.  Requests with *)
(* one agent, operation and key share a slot.  A slot is taken once; for a *)
(* taken slot without an outcome at most one of its requests is carried    *)
(* out, once; and the outcome, once there is one, stays.                   *)
(*                                                                         *)
(* Nothing says that a taken slot is ever carried out or gets an outcome:  *)
(* a crash may leave it as it is, and then nobody carries it out again.    *)
(***************************************************************************)
EXTENDS Naturals

CONSTANTS
  Requests,  \* the requests
  Slots,     \* the slots
  Slot,      \* the slot of each request
  Outcomes   \* what may become of a slot

VARIABLES
  taken,     \* the slots somebody has taken
  runs,      \* how often each request was carried out
  outcome    \* the slots that have an outcome, each with its outcome

slots == <<taken, runs, outcome>>

Init ==
  /\ taken = {}
  /\ runs = [r \in Requests |-> 0]
  /\ outcome = {}

Undecided(s) == s \in taken /\ \A o \in Outcomes : <<s, o>> \notin outcome

Take(s) ==
  /\ s \notin taken
  /\ taken' = taken \cup {s}
  /\ UNCHANGED <<runs, outcome>>

\* The side effect: nobody with this slot has caused it before.
Run(r) ==
  /\ Undecided(Slot[r])
  /\ \A t \in Requests : Slot[t] = Slot[r] => runs[t] = 0
  /\ runs' = [runs EXCEPT ![r] = 1]
  /\ UNCHANGED <<taken, outcome>>

Decide(s) ==
  /\ Undecided(s)
  /\ \E o \in Outcomes : outcome' = outcome \cup {<<s, o>>}
  /\ UNCHANGED <<taken, runs>>

Next ==
  \/ \E s \in Slots : Take(s) \/ Decide(s)
  \/ \E r \in Requests : Run(r)

Spec == Init /\ [][Next]_slots
=============================================================================
