------------------------------ MODULE Upstream ------------------------------
(***************************************************************************)
(* The HTTP client that every call to Kovar goes through: Do, Read and     *)
(* JSON of internal/platform/upstream/client.go, and the envelope of the   *)
(* management client on top of them.                                       *)
(*                                                                         *)
(* Between Do and Kovar is net/http's transport.  It sends nothing under a *)
(* context that has ended, and when a kept-alive connection breaks it      *)
(* sends a request again that it takes for replayable: a GET, or one with  *)
(* an Idempotency-Key header, which the pay-as-you-go calls set.           *)
(***************************************************************************)
EXTENDS Naturals

CONSTANTS
  Calls,       \* calls of Do
  Method,      \* the HTTP method of each
  Keyed,       \* the calls with an Idempotency-Key header
  MaxResends   \* times the transport may send one attempt again

ASSUME CallsAssumption ==
  /\ Method \in [Calls -> {"GET", "POST", "DELETE"}]
  /\ Keyed \subseteq Calls
  /\ MaxResends \in Nat

VARIABLES
  at,        \* the step each call is at
  attempt,   \* the counter of Do's loop
  answer,    \* what http.Do returned last
  resends,   \* times the transport sent the current attempt again
  sent,      \* how often the request left for Kovar
  ended,     \* the calls whose context has ended
  result     \* what the caller is told

vars == <<at, attempt, answer, resends, sent, ended, result>>

\* http.Do's errors, and statuses: success, 429, 502, 503 or 504, and any other.
Errors == {"broken", "timeout", "cancelled"}
Statuses == {"ok", "transient", "final"}

\* What a caller is told: a body it can use, or why there is none.
Bodies == {"VALUE", "UNREADABLE"}
Failures == {"CANCELLED", "UPSTREAM_TIMEOUT", "UPSTREAM_UNAVAILABLE", "HTTP_ERROR"}
None == "none"

Replayable(c) == Method[c] = "GET" \/ c \in Keyed

Init ==
  /\ at = [c \in Calls |-> "idle"]
  /\ attempt = [c \in Calls |-> 0]
  /\ answer = [c \in Calls |-> None]
  /\ resends = [c \in Calls |-> 0]
  /\ sent = [c \in Calls |-> 0]
  /\ ended = {}
  /\ result = [c \in Calls |-> None]

\* A caller calls Do.
Begin(c) ==
  /\ at[c] = "idle"
  /\ at' = [at EXCEPT ![c] = "try"]
  /\ UNCHANGED <<attempt, answer, resends, sent, ended, result>>

(***************************************************************************)
(* The transport.                                                          *)
(***************************************************************************)

Send(c) ==
  /\ at[c] = "try" /\ c \notin ended
  /\ at' = [at EXCEPT ![c] = "flight"]
  /\ sent' = [sent EXCEPT ![c] = @ + 1]
  /\ resends' = [resends EXCEPT ![c] = 0]
  /\ UNCHANGED <<attempt, answer, ended, result>>

\* No connection is made, or the context ended before.
SendFails(c) ==
  /\ at[c] = "try"
  /\ at' = [at EXCEPT ![c] = "answered"]
  /\ answer' = [answer EXCEPT ![c] = IF c \in ended THEN "cancelled" ELSE "broken"]
  /\ UNCHANGED <<attempt, resends, sent, ended, result>>

\* The connection broke under a replayable request.
Resend(c) ==
  /\ at[c] = "flight" /\ Replayable(c) /\ c \notin ended
  /\ resends[c] < MaxResends
  /\ resends' = [resends EXCEPT ![c] = @ + 1]
  /\ sent' = [sent EXCEPT ![c] = @ + 1]
  /\ UNCHANGED <<at, attempt, answer, ended, result>>

\* Kovar answers, or the connection breaks, the client's timeout passes or the
\* context ends; whether the request took effect is then unknown.
Respond(c) ==
  /\ at[c] = "flight"
  /\ at' = [at EXCEPT ![c] = "answered"]
  /\ \E a \in Statuses \cup Errors :
       /\ a = "cancelled" => c \in ended
       /\ answer' = [answer EXCEPT ![c] = a]
  /\ UNCHANGED <<attempt, resends, sent, ended, result>>

(***************************************************************************)
(* Do.                                                                     *)
(***************************************************************************)

Transient(a) == a \in Errors \cup {"transient"}

\* Mutant: any method is tried again.
RetryAny(c) == attempt[c] < 2 /\ Transient(answer[c])

\* The condition for another attempt.
Retry(c) == Method[c] = "GET" /\ attempt[c] < 2 /\ Transient(answer[c])

\* Mutant: the loop does not count.
NextAttemptSame(n) == n

NextAttempt(n) == n + 1

\* What Do tells its caller when it gives up.
Failure(c) ==
  CASE answer[c] \in Errors /\ c \in ended -> "CANCELLED"
    [] answer[c] = "timeout" /\ c \notin ended -> "UPSTREAM_TIMEOUT"
    [] answer[c] \in {"broken", "cancelled"} /\ c \notin ended -> "UPSTREAM_UNAVAILABLE"
    [] OTHER -> "HTTP_ERROR"

Pause(c) ==
  /\ at[c] = "answered" /\ Retry(c) /\ c \notin ended
  /\ at' = [at EXCEPT ![c] = "pause"]
  /\ UNCHANGED <<attempt, answer, resends, sent, ended, result>>

\* The timer fires; if the context has ended too, select may choose either.
Elapse(c) ==
  /\ at[c] = "pause"
  /\ at' = [at EXCEPT ![c] = "try"]
  /\ attempt' = [attempt EXCEPT ![c] = NextAttempt(@)]
  /\ UNCHANGED <<answer, resends, sent, ended, result>>

PauseEnds(c) ==
  /\ at[c] = "pause" /\ c \in ended
  /\ at' = [at EXCEPT ![c] = "done"]
  /\ result' = [result EXCEPT ![c] = "CANCELLED"]
  /\ UNCHANGED <<attempt, answer, resends, sent, ended>>

GiveUp(c) ==
  /\ at[c] = "answered" /\ ~ (Retry(c) /\ c \notin ended)
  /\ answer[c] # "ok"
  /\ at' = [at EXCEPT ![c] = "done"]
  /\ result' = [result EXCEPT ![c] = Failure(c)]
  /\ UNCHANGED <<attempt, answer, resends, sent, ended>>

Succeed(c) ==
  /\ at[c] = "answered" /\ answer[c] = "ok"
  /\ at' = [at EXCEPT ![c] = "body"]
  /\ UNCHANGED <<attempt, answer, resends, sent, ended, result>>

\* Read, JSON and the management envelope: the body may break off, be too long,
\* be no JSON, report a failure or lack the success field.
ReadBody(c) ==
  /\ at[c] = "body"
  /\ at' = [at EXCEPT ![c] = "done"]
  /\ \E b \in Bodies : result' = [result EXCEPT ![c] = b]
  /\ UNCHANGED <<attempt, answer, resends, sent, ended>>

\* The client leaves, or the gateway shuts down.
Leave(c) ==
  /\ c \notin ended
  /\ ended' = ended \cup {c}
  /\ UNCHANGED <<at, attempt, answer, resends, sent, result>>

Step(c) ==
  \/ Send(c) \/ SendFails(c) \/ Resend(c) \/ Respond(c)
  \/ Pause(c) \/ Elapse(c) \/ PauseEnds(c) \/ GiveUp(c) \/ Succeed(c) \/ ReadBody(c)

Next == \E c \in Calls : Begin(c) \/ Step(c) \/ Leave(c)

\* A call goes on: the client's timeout bounds what the transport waits for,
\* and the timer of a pause fires.
Spec == Init /\ [][Next]_vars /\ \A c \in Calls : WF_vars(Step(c))

(***************************************************************************)
(* Properties.                                                             *)
(***************************************************************************)

\* Every variable has its type.
TypeOK ==
  /\ at \in [Calls -> {"idle", "try", "flight", "answered", "pause", "body", "done"}]
  /\ attempt \in [Calls -> 0 .. 2]
  /\ answer \in [Calls -> Statuses \cup Errors \cup {None}]
  /\ resends \in [Calls -> 0 .. MaxResends]
  /\ sent \in [Calls -> Nat]
  /\ ended \subseteq Calls
  /\ result \in [Calls -> Bodies \cup Failures \cup {None}]

\* The calls neither Do nor the transport may send twice: the billable POSTs of
\* the model client, the creation of tokens, and their deletion.
Writes == {c \in Calls : ~ Replayable(c)}

Abstract == INSTANCE OncePerSlot WITH
  Requests <- Writes,
  Slots <- Writes,
  Slot <- [c \in Writes |-> c],
  Outcomes <- Bodies \cup Failures,
  taken <- {c \in Writes : at[c] # "idle"},
  runs <- [c \in Writes |-> sent[c]],
  outcome <- {<<c, result[c]>> : c \in {w \in Writes : result[w] # None}}

\* A write leaves for Kovar at most once, before its caller is told anything,
\* whatever breaks, times out or is cancelled (README: POST and DELETE are not
\* retried): the assumption under which the modules of tasks, tokens and
\* idempotent calls model a call to Kovar as one step.
WritesOncePerCall == Abstract!Spec

\* Every call returns, also when Kovar never answers and the caller stays.
CallsReturn == \A c \in Calls : at[c] # "idle" ~> at[c] = "done"
=============================================================================
