--------------------------- MODULE IdempotentCall ---------------------------
(***************************************************************************)
(* Server.idempotent (internal/app/server.go): the wrapper around every    *)
(* agent endpoint that writes at Kovar (registration, login, 2FA, binding, *)
(* key creation, pay-as-you-go sessions, top-up).  The record is claimed   *)
(* and committed, the endpoint runs, its answer is stored and returned.    *)
(*                                                                         *)
(* A slot is the primary key (agent_id, operation, idempotency_key).  The  *)
(* hash is taken of the body alone, while the endpoint also sees the       *)
(* request's path: the resource it names is the request's target.          *)
(***************************************************************************)
EXTENDS IdempotencyRecords, Naturals

CONSTANTS
  Requests,    \* the requests that reach the wrapper
  Slots,       \* idempotency keys, with their agent and operation
  Bodies,      \* request bodies; the HMAC tells them apart
  Targets,     \* the resources requests name
  Input,       \* slot, body and target of each request
  Leavers,     \* requests whose client may disconnect
  Faults,      \* whether a database call may fail
  MaxCrashes,  \* bound: crashes of the gateway process
  NoBody,      \* the hash of a record that does not exist
  NoAnswer     \* the answer of a request that has none

ASSUME InputAssumption ==
  Input \in [Requests -> [slot : Slots, body : Bodies, target : Targets]]

ASSUME BoundAssumption ==
  /\ Leavers \subseteq Requests
  /\ Faults \in BOOLEAN
  /\ MaxCrashes \in Nat
  /\ NoBody \notin Bodies

VARIABLES
  record,   \* idempotency_records
  written,  \* the targets the operation took effect on at Kovar
  runs,     \* how often the endpoint ran for each request
  pc,       \* where each request stands
  answer,   \* what the endpoint answered, before it is stored
  gone,     \* whether the request's context is cancelled
  reply,    \* what each request was answered
  crashes   \* crashes so far

vars == <<record, written, runs, pc, answer, gone, reply, crashes>>

\* An endpoint's answer: its status, and the request it was computed for.
Answers == [status : {"OK", "ERROR"}, of : Requests] \cup {NoAnswer}

Running == {"call", "return", "complete"}

Replies == [kind : {"NONE", "ANSWER", "CONFLICT", "IN_PROGRESS", "FAULT"},
            answer : Answers]

TypeOK ==
  /\ record \in [Slots -> [status : {"NONE", "PROCESSING", "COMPLETED"},
                           hash : Bodies \cup {NoBody}, answer : Answers]]
  /\ written \subseteq Targets
  /\ runs \in [Requests -> Nat]
  /\ pc \in [Requests -> {"idle", "read", "done", "dead"} \cup Running]
  /\ answer \in [Requests -> Answers]
  /\ gone \in [Requests -> BOOLEAN]
  /\ reply \in [Requests -> Replies]
  /\ crashes \in Nat

Init ==
  /\ record = [s \in Slots |-> NoRecord(NoBody, NoAnswer)]
  /\ written = {}
  /\ runs = [r \in Requests |-> 0]
  /\ pc = [r \in Requests |-> "idle"]
  /\ answer = [r \in Requests |-> NoAnswer]
  /\ gone = [r \in Requests |-> FALSE]
  /\ reply = [r \in Requests |-> [kind |-> "NONE", answer |-> NoAnswer]]
  /\ crashes = 0

-----------------------------------------------------------------------------
SlotOf(r) == Input[r].slot

\* hmac.Write(i.Body)
HashOf(r) == Input[r].body

Goto(r, step) == pc' = [pc EXCEPT ![r] = step] /\ UNCHANGED reply

Return(r, kind, a) ==
  /\ pc' = [pc EXCEPT ![r] = "done"]
  /\ reply' = [reply EXCEPT ![r] = [kind |-> kind, answer |-> a]]

-----------------------------------------------------------------------------
(* Claim *)

\* The insertion either takes the slot, and is committed before the endpoint
\* runs, or changes nothing, and the row is read by a second statement.
Claim(r) ==
  /\ pc[r] = "idle" /\ ~gone[r]
  /\ IF Claimable(record[SlotOf(r)])
       THEN /\ record' = [record EXCEPT ![SlotOf(r)] = ClaimedBy(HashOf(r), NoAnswer)]
            /\ Goto(r, "call")
       ELSE Goto(r, "read") /\ UNCHANGED record
  /\ UNCHANGED <<written, runs, answer, gone, crashes>>

\* The insertion took effect but Claim saw an error.
ClaimUnknown(r) ==
  /\ pc[r] = "idle" /\ (gone[r] \/ Faults)
  /\ Claimable(record[SlotOf(r)])
  /\ record' = [record EXCEPT ![SlotOf(r)] = ClaimedBy(HashOf(r), NoAnswer)]
  /\ Return(r, "FAULT", NoAnswer)
  /\ UNCHANGED <<written, runs, answer, gone, crashes>>

\* The row that was in the way is read: a replay, a conflict, or a refusal.
Read(r) ==
  LET rec == record[SlotOf(r)]
      verdict == Verdict(rec, HashOf(r))
  IN  /\ pc[r] = "read" /\ ~gone[r]
      /\ IF verdict = "REPLAY" THEN Return(r, "ANSWER", rec.answer)
                               ELSE Return(r, verdict, NoAnswer)
      /\ UNCHANGED <<record, written, runs, answer, gone, crashes>>

\* Claim fails without effect.
ClaimFails(r) ==
  /\ pc[r] \in {"idle", "read"} /\ (gone[r] \/ Faults)
  /\ Return(r, "FAULT", NoAnswer)
  /\ UNCHANGED <<record, written, runs, answer, gone, crashes>>

-----------------------------------------------------------------------------
(* The endpoint *)

\* The endpoint runs: Kovar carries the operation out, or it does not.  With a
\* cancelled context nothing is sent.
Perform(r) ==
  /\ pc[r] = "call"
  /\ UNCHANGED written \/ (~gone[r] /\ written' = written \cup {Input[r].target})
  /\ runs' = [runs EXCEPT ![r] = @ + 1]
  /\ Goto(r, "return")
  /\ UNCHANGED <<record, answer, gone, crashes>>

\* It answers success only for an operation that was carried out.  An error
\* tells nothing: the answer may have been lost.
Respond(r) ==
  /\ pc[r] = "return"
  /\ \E status \in {"OK", "ERROR"} :
       /\ status = "OK" => Input[r].target \in written
       /\ answer' = [answer EXCEPT ![r] = [status |-> status, of |-> r]]
  /\ Goto(r, "complete")
  /\ UNCHANGED <<record, written, runs, gone, crashes>>

-----------------------------------------------------------------------------
(* Complete *)

Store(r) ==
  /\ Completable(record[SlotOf(r)])
  /\ record' = [record EXCEPT ![SlotOf(r)] = Completed(@, answer[r])]

\* Mutant: the handler gives up when the client has left.
CompleteCancelled(r) ==
  /\ pc[r] = "complete"
  /\ IF gone[r] THEN Goto(r, "done") /\ UNCHANGED record
                ELSE Store(r) /\ Return(r, "ANSWER", answer[r])
  /\ UNCHANGED <<written, runs, answer, gone, crashes>>

\* Mutant: the claim is released when the endpoint fails.
CompleteReleased(r) ==
  /\ pc[r] = "complete"
  /\ IF answer[r].status = "ERROR"
       THEN record' = [record EXCEPT ![SlotOf(r)] = NoRecord(NoBody, NoAnswer)]
       ELSE Store(r)
  /\ Return(r, "ANSWER", answer[r])
  /\ UNCHANGED <<written, runs, answer, gone, crashes>>

\* The answer, an error too, is stored under a context of its own and returned.
Complete(r) ==
  /\ pc[r] = "complete"
  /\ Store(r)
  /\ Return(r, "ANSWER", answer[r])
  /\ UNCHANGED <<written, runs, answer, gone, crashes>>

\* Complete reports an error, whether or not it took effect.
CompleteFails(r) ==
  /\ pc[r] = "complete" /\ Faults
  /\ UNCHANGED record \/ Store(r)
  /\ Return(r, "FAULT", NoAnswer)
  /\ UNCHANGED <<written, runs, answer, gone, crashes>>

-----------------------------------------------------------------------------
\* The client closes the connection.
Disconnect(r) ==
  /\ r \in Leavers /\ ~gone[r]
  /\ pc[r] \in {"idle", "read"} \cup Running
  /\ gone' = [gone EXCEPT ![r] = TRUE]
  /\ UNCHANGED <<record, written, runs, pc, answer, reply, crashes>>

\* The process dies; only the committed records remain.
Crash ==
  /\ crashes < MaxCrashes
  /\ crashes' = crashes + 1
  /\ pc' = [r \in Requests |-> IF pc[r] \in {"read"} \cup Running THEN "dead" ELSE pc[r]]
  /\ UNCHANGED <<record, written, runs, answer, gone, reply>>

RequestStep(r) ==
  \/ Claim(r) \/ Read(r) \/ ClaimFails(r)
  \/ Perform(r) \/ Respond(r) \/ Complete(r)

FaultStep(r) == ClaimUnknown(r) \/ CompleteFails(r) \/ Disconnect(r)

\* Every request has been answered: the model may stop here, and nowhere else.
Finished ==
  /\ \A r \in Requests : pc[r] \in {"done", "dead"}
  /\ UNCHANGED vars

Next ==
  \/ \E r \in Requests : RequestStep(r) \/ FaultStep(r)
  \/ Crash
  \/ Finished

Spec == Init /\ [][Next]_vars

\* A handler runs until it returns: its calls have deadlines.
FairSpec == Spec /\ \A r \in Requests : WF_vars(RequestStep(r))

-----------------------------------------------------------------------------
(* Safety *)

\* idempotency/service.go: an ambiguous outcome is never retried, even after a
\* crash.  The endpoint runs at most once for all requests with one key.
RunsOncePerSlot ==
  \A r \in Requests :
    /\ runs[r] <= 1
    /\ \A t \in Requests \ {r} : SlotOf(r) = SlotOf(t) => runs[r] + runs[t] <= 1

\* Whoever gets an answer for a key gets the same one, whether it ran the
\* endpoint, retried, or retried after the answer to the first was lost; and
\* it is an answer to a request with the same body.
AnswersAgree ==
  \A r, t \in Requests :
    reply[r].kind = "ANSWER" /\ reply[t].kind = "ANSWER" /\ SlotOf(r) = SlotOf(t)
    => reply[r].answer = reply[t].answer /\ HashOf(r) = HashOf(t)

\* A key is stuck in PROCESSING without a handler at work only because the
\* process died or because a request was answered with an internal error.
PendingExplained ==
  \A s \in Slots : record[s].status = "PROCESSING" =>
    \E r \in Requests :
      /\ SlotOf(r) = s
      /\ pc[r] \in Running \cup {"dead"} \/ reply[r].kind = "FAULT"

\* idempotency/service.go:48: a key that was used with a different request is
\* a conflict.  A request that is answered with success was carried out: the
\* operation took effect on the resource the request names.
SuccessIsForTarget ==
  \A r \in Requests :
    reply[r].kind = "ANSWER" /\ reply[r].answer.status = "OK" => Input[r].target \in written

-----------------------------------------------------------------------------
(* The inductive invariant behind the properties above *)

\* The request has claimed its slot and runs, or ran, the endpoint.
Holder(r) == pc[r] \in Running \/ runs[r] > 0

\* The row of a slot that somebody holds stays PROCESSING while it runs.
ClaimHeld(r) ==
  /\ pc[r] \in Running => /\ record[SlotOf(r)].status = "PROCESSING"
                          /\ record[SlotOf(r)].hash = HashOf(r)
  /\ runs[r] > 0 => record[SlotOf(r)].status # "NONE"

RunsFollowCode(r) ==
  /\ runs[r] \in {0, 1}
  /\ pc[r] \in {"idle", "read", "call"} => runs[r] = 0

\* Whoever was answered was answered with what the row says.
AnswerStored(r) ==
  /\ pc[r] # "done" => reply[r].kind = "NONE"
  /\ reply[r].kind = "ANSWER" =>
       /\ record[SlotOf(r)].status = "COMPLETED"
       /\ record[SlotOf(r)].answer = reply[r].answer
       /\ record[SlotOf(r)].hash = HashOf(r)

SoleHolder ==
  \A r, t \in Requests : Holder(r) /\ Holder(t) /\ SlotOf(r) = SlotOf(t) => r = t

\* A committed claim has one holder at most, across retries, faults and
\* crashes, and its row tells what the holder has done and answered.
ClaimInvariant ==
  /\ \A r \in Requests : ClaimHeld(r) /\ RunsFollowCode(r) /\ AnswerStored(r)
  /\ SoleHolder
  /\ PendingExplained

-----------------------------------------------------------------------------
(* Action property and liveness *)

\* An answer that was stored is never replaced or lost.
AnswersStay ==
  [][\A s \in Slots : record[s].status = "COMPLETED" => record'[s] = record[s]]_vars

Abstract == INSTANCE OncePerSlot WITH
  Slot     <- [r \in Requests |-> SlotOf(r)],
  Outcomes <- Answers,
  taken    <- {s \in Slots : record[s].status # "NONE"},
  outcome  <- {<<s, record[s].answer>> : s \in {z \in Slots : record[z].status = "COMPLETED"}}

\* idempotency/service.go: an ambiguous outcome is never retried, even after a
\* crash.  The records keep the promise of a key: the claim takes the slot, the
\* endpoint runs once for all its requests and before the answer is stored, and
\* a stored answer is never replaced or lost.
CallsOncePerSlot == Abstract!Spec

\* Every claim that a handler has seen is completed, even if the client leaves
\* while the endpoint runs, unless the process dies or the database refuses.
ClaimsComplete ==
  \A r \in Requests :
    pc[r] = "call" ~> \/ record[SlotOf(r)].status = "COMPLETED"
                      \/ pc[r] = "dead" \/ reply[r].kind = "FAULT"
=============================================================================
