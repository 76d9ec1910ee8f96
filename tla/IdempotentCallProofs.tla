----------------------- MODULE IdempotentCallProofs -----------------------
(***************************************************************************)
(* Proofs about IdempotentCall for any requests, keys, faults and crashes. *)
(***************************************************************************)
EXTENDS IdempotentCall, TLAPS

\* What InputAssumption says of one request.
LEMMA InputType ==
  \A r \in Requests : SlotOf(r) \in Slots /\ HashOf(r) \in Bodies /\ Input[r].target \in Targets
BY InputAssumption DEF SlotOf, HashOf

\* The types hold initially.
LEMMA InitType == Init => TypeOK
<1> SUFFICES ASSUME Init PROVE TypeOK
  OBVIOUS
<1>1. NoAnswer \in Answers
  BY DEF Answers
<1>2. \A s \in Slots : record[s] \in [status : {"NONE", "PROCESSING", "COMPLETED"},
                                      hash : Bodies \cup {NoBody}, answer : Answers]
  BY <1>1 DEF Init, NoRecord
<1>3. reply \in [Requests -> Replies]
  BY <1>1 DEF Init, Replies
<1> QED
  BY <1>1, <1>2, <1>3 DEF Init, TypeOK, NoRecord

\* A handler that returns is answered.
LEMMA ReturnType ==
  ASSUME TypeOK, NEW r \in Requests, NEW a \in Answers,
         NEW kind \in {"NONE", "ANSWER", "CONFLICT", "IN_PROGRESS", "FAULT"},
         Return(r, kind, a)
  PROVE  /\ pc' \in [Requests -> {"idle", "read", "done", "dead"} \cup Running]
         /\ reply' \in [Requests -> Replies]
<1>1. [kind |-> kind, answer |-> a] \in Replies
  BY DEF Replies
<1> QED
  BY <1>1 DEF Return, TypeOK

\* A claim and a completion write well-formed rows.
LEMMA StoreType ==
  ASSUME TypeOK, NEW r \in Requests,
         \/ record' = record
         \/ record' = [record EXCEPT ![SlotOf(r)] = ClaimedBy(HashOf(r), NoAnswer)]
         \/ Store(r)
  PROVE  record' \in [Slots -> [status : {"NONE", "PROCESSING", "COMPLETED"},
                                hash : Bodies \cup {NoBody}, answer : Answers]]
<1>1. SlotOf(r) \in Slots /\ HashOf(r) \in Bodies
  BY InputType
<1>2. ClaimedBy(HashOf(r), NoAnswer)
        \in [status : {"NONE", "PROCESSING", "COMPLETED"},
             hash : Bodies \cup {NoBody}, answer : Answers]
  BY <1>1 DEF ClaimedBy, Answers
<1>3. Completed(record[SlotOf(r)], answer[r])
        \in [status : {"NONE", "PROCESSING", "COMPLETED"},
             hash : Bodies \cup {NoBody}, answer : Answers]
  BY <1>1 DEF Completed, TypeOK
<1> QED
  BY <1>1, <1>2, <1>3 DEF TypeOK, Store

\* Every step keeps the types.
LEMMA NextType == TypeOK /\ [Next]_vars => TypeOK'
<1> SUFFICES ASSUME TypeOK, [Next]_vars PROVE TypeOK'
  OBVIOUS
<1>a. NoAnswer \in Answers /\ \A s \in Slots : record[s].answer \in Answers
  BY DEF Answers, TypeOK
<1>1. ASSUME NEW r \in Requests, RequestStep(r) \/ FaultStep(r) PROVE TypeOK'
  <2>1. CASE Claim(r)
    BY <2>1, StoreType DEF Claim, Goto, TypeOK, Running
  <2>2. CASE ClaimUnknown(r)
    BY <2>2, <1>a, StoreType, ReturnType DEF ClaimUnknown, TypeOK
  <2>3. CASE Read(r)
    <3>1. SlotOf(r) \in Slots
      BY InputType
    <3>2. Verdict(record[SlotOf(r)], HashOf(r)) \in {"REPLAY", "CONFLICT", "IN_PROGRESS"}
      BY DEF Verdict
    <3> QED BY <2>3, <3>1, <3>2, <1>a, ReturnType DEF Read, TypeOK
  <2>4. CASE ClaimFails(r)
    BY <2>4, <1>a, ReturnType DEF ClaimFails, TypeOK
  <2>5. CASE Perform(r)
    BY <2>5, InputType DEF Perform, Goto, TypeOK, Running
  <2>6. CASE Respond(r)
    <3>1. \A status \in {"OK", "ERROR"} : [status |-> status, of |-> r] \in Answers
      BY DEF Answers
    <3> QED BY <2>6, <3>1 DEF Respond, Goto, TypeOK, Running
  <2>7. CASE Complete(r)
    BY <2>7, StoreType, ReturnType DEF Complete, TypeOK
  <2>8. CASE CompleteFails(r)
    BY <2>8, <1>a, StoreType, ReturnType DEF CompleteFails, TypeOK
  <2>9. CASE Disconnect(r)
    BY <2>9 DEF Disconnect, TypeOK
  <2> QED
    BY <1>1, <2>1, <2>2, <2>3, <2>4, <2>5, <2>6, <2>7, <2>8, <2>9
       DEF RequestStep, FaultStep
<1>2. CASE Crash
  BY <1>2 DEF Crash, TypeOK
<1>3. CASE Finished \/ UNCHANGED vars
  BY <1>3 DEF Finished, vars, TypeOK
<1> QED
  BY <1>1, <1>2, <1>3 DEF Next

\* The rows of idempotency_records and the handlers' variables always have the
\* values the schema and the code allow.
THEOREM TypeCorrect == Spec => []TypeOK
<1> QED
  BY InitType, NextType, PTL DEF Spec

-----------------------------------------------------------------------------
(* The invariant *)

\* What a step of request r leaves alone: the state of the other requests.
Own(r) ==
  \A t \in Requests \ {r} :
    pc'[t] = pc[t] /\ runs'[t] = runs[t] /\ reply'[t] = reply[t]

\* Nothing has been claimed.
LEMMA InitInvariant == Init => ClaimInvariant
<1> SUFFICES ASSUME Init PROVE ClaimInvariant
  OBVIOUS
<1>1. \A r \in Requests : pc[r] = "idle" /\ runs[r] = 0 /\ reply[r].kind = "NONE"
  BY DEF Init
<1>2. \A s \in Slots : record[s].status = "NONE"
  BY DEF Init, NoRecord
<1> QED
  BY <1>1, <1>2 DEF ClaimInvariant, ClaimHeld, RunsFollowCode, AnswerStored, SoleHolder,
                    Holder, PendingExplained, Running

\* A claim finds the slot free, so that nobody else holds it.
LEMMA ClaimStep ==
  ASSUME TypeOK, ClaimInvariant, NEW r \in Requests,
         Claim(r) \/ ClaimUnknown(r)
  PROVE  ClaimInvariant'
<1> DEFINE s == SlotOf(r)
<1>s. s \in Slots
  BY InputType
<1>1. pc[r] = "idle" /\ runs[r] = 0 /\ reply[r].kind = "NONE"
  BY DEF Claim, ClaimUnknown, ClaimInvariant, RunsFollowCode, AnswerStored
<1>2. Own(r) /\ runs' = runs
  BY DEF Claim, ClaimUnknown, Goto, Return, Own, TypeOK
<1>3. CASE record' = [record EXCEPT ![s] = ClaimedBy(HashOf(r), NoAnswer)]
           /\ record[s].status = "NONE"
  <2>1. /\ record'[s].status = "PROCESSING" /\ record'[s].hash = HashOf(r)
        /\ \A z \in Slots \ {s} : record'[z] = record[z]
    BY <1>3, <1>s DEF ClaimedBy, TypeOK
  <2>2. \A t \in Requests : SlotOf(t) = s => ~Holder(t) /\ reply[t].kind # "ANSWER"
    BY <1>3 DEF ClaimInvariant, ClaimHeld, AnswerStored, Holder
  <2>3. \/ pc'[r] = "call" /\ reply'[r] = reply[r]
        \/ pc'[r] = "done" /\ reply'[r].kind = "FAULT"
    BY <1>3, <1>s DEF Claim, ClaimUnknown, Claimable, Goto, Return, TypeOK
  <2>4. ASSUME NEW t \in Requests PROVE (ClaimHeld(t) /\ RunsFollowCode(t) /\ AnswerStored(t))'
    <3>1. CASE t = r
      BY <1>1, <1>2, <2>1, <2>3, <3>1
         DEF ClaimHeld, RunsFollowCode, AnswerStored, Running, SlotOf, HashOf
    <3>2. CASE t # r
      BY <1>2, <2>1, <2>2, <3>2, InputType
         DEF ClaimInvariant, ClaimHeld, RunsFollowCode, AnswerStored, Own, Holder,
             SlotOf, HashOf
    <3> QED BY <3>1, <3>2
  <2>5. SoleHolder'
    BY <1>2, <2>2 DEF ClaimInvariant, SoleHolder, Holder, Own, SlotOf
  <2>6. PendingExplained'
    <3> SUFFICES ASSUME NEW z \in Slots, record'[z].status = "PROCESSING"
                 PROVE  \E t \in Requests :
                          /\ SlotOf(t) = z
                          /\ pc'[t] \in Running \cup {"dead"} \/ reply'[t].kind = "FAULT"
      BY DEF PendingExplained, SlotOf
    <3>1. CASE z = s
      BY <2>3, <3>1 DEF Running
    <3>2. CASE z # s
      <4>1. PICK t \in Requests :
              /\ SlotOf(t) = z
              /\ pc[t] \in Running \cup {"dead"} \/ reply[t].kind = "FAULT"
        BY <2>1, <3>2 DEF ClaimInvariant, PendingExplained
      <4> QED BY <1>2, <3>2, <4>1 DEF Own
    <3> QED BY <3>1, <3>2
  <2> QED BY <2>4, <2>5, <2>6 DEF ClaimInvariant
<1>4. CASE record' = record
  <2>1. \/ pc'[r] = "read" /\ reply'[r] = reply[r]
        \/ pc'[r] = "done" /\ reply'[r].kind = "FAULT"
    <3>1. CASE Claim(r)
      <4>1. ~Claimable(record[s])
        <5> SUFFICES ASSUME Claimable(record[s]) PROVE FALSE
          OBVIOUS
        <5>1. record' = [record EXCEPT ![s] = ClaimedBy(HashOf(r), NoAnswer)]
          BY <3>1 DEF Claim
        <5>2. record'[s].status = "PROCESSING"
          BY <5>1, <1>s DEF ClaimedBy, TypeOK
        <5> QED BY <5>2, <1>4 DEF Claimable
      <4> QED BY <3>1, <4>1 DEF Claim, Goto, TypeOK
    <3>2. CASE ClaimUnknown(r)
      BY <3>2 DEF ClaimUnknown, Return, TypeOK
    <3> QED BY <3>1, <3>2
  <2>2. ASSUME NEW t \in Requests PROVE (ClaimHeld(t) /\ RunsFollowCode(t) /\ AnswerStored(t))'
    BY <1>1, <1>2, <1>4, <2>1
       DEF ClaimInvariant, ClaimHeld, RunsFollowCode, AnswerStored, Own, Running, SlotOf, HashOf
  <2>3. SoleHolder'
    BY <1>1, <1>2, <2>1 DEF ClaimInvariant, SoleHolder, Holder, Own, SlotOf, Running
  <2>4. PendingExplained'
    BY <1>1, <1>2, <1>4 DEF ClaimInvariant, PendingExplained, Own, SlotOf, Running
  <2> QED BY <2>2, <2>3, <2>4 DEF ClaimInvariant
<1> QED
  BY <1>3, <1>4 DEF Claim, ClaimUnknown, Claimable

\* A request that finds the row taken is answered from it or refused.
LEMMA ReadStep ==
  ASSUME TypeOK, ClaimInvariant, NEW r \in Requests, Read(r) \/ ClaimFails(r)
  PROVE  ClaimInvariant'
<1>1. pc[r] \in {"idle", "read"} /\ runs[r] = 0 /\ reply[r].kind = "NONE"
  BY DEF Read, ClaimFails, ClaimInvariant, RunsFollowCode, AnswerStored
<1>2. Own(r) /\ runs' = runs /\ record' = record /\ pc'[r] = "done"
  BY DEF Read, ClaimFails, Return, Own, TypeOK
<1>3. reply'[r].kind = "ANSWER" =>
        /\ record[SlotOf(r)].status = "COMPLETED"
        /\ record[SlotOf(r)].answer = reply'[r].answer
        /\ record[SlotOf(r)].hash = HashOf(r)
  BY DEF Read, ClaimFails, Return, Verdict, TypeOK
<1>4. ASSUME NEW t \in Requests PROVE (ClaimHeld(t) /\ RunsFollowCode(t) /\ AnswerStored(t))'
  BY <1>1, <1>2, <1>3
     DEF ClaimInvariant, ClaimHeld, RunsFollowCode, AnswerStored, Own, Running, SlotOf, HashOf
<1>5. SoleHolder'
  BY <1>1, <1>2 DEF ClaimInvariant, SoleHolder, Holder, Own, SlotOf, Running
<1>6. PendingExplained'
  BY <1>1, <1>2 DEF ClaimInvariant, PendingExplained, Own, SlotOf, Running
<1> QED
  BY <1>4, <1>5, <1>6 DEF ClaimInvariant

\* The endpoint runs for the holder of the slot, once.
LEMMA EndpointStep ==
  ASSUME TypeOK, ClaimInvariant, NEW r \in Requests, Perform(r) \/ Respond(r)
  PROVE  ClaimInvariant'
<1>1. /\ pc[r] \in {"call", "return"} /\ pc'[r] \in {"return", "complete"}
      /\ Own(r) /\ record' = record /\ reply' = reply
  BY DEF Perform, Respond, Goto, Own, TypeOK
<1>2. runs'[r] \in {0, 1}
  BY DEF Perform, Respond, TypeOK, ClaimInvariant, RunsFollowCode
<1>3. ASSUME NEW t \in Requests PROVE (ClaimHeld(t) /\ RunsFollowCode(t) /\ AnswerStored(t))'
  BY <1>1, <1>2
     DEF ClaimInvariant, ClaimHeld, RunsFollowCode, AnswerStored, Own, Running, SlotOf, HashOf
<1>4. SoleHolder'
  BY <1>1 DEF ClaimInvariant, SoleHolder, Holder, Own, SlotOf, Running
<1>5. PendingExplained'
  BY <1>1 DEF ClaimInvariant, PendingExplained, Own, SlotOf, Running
<1> QED
  BY <1>3, <1>4, <1>5 DEF ClaimInvariant

\* The holder stores its answer: nobody was answered for this slot before.
LEMMA CompleteStep ==
  ASSUME TypeOK, ClaimInvariant, NEW r \in Requests, Complete(r) \/ CompleteFails(r)
  PROVE  ClaimInvariant'
<1> DEFINE s == SlotOf(r)
<1>s. s \in Slots
  BY InputType
<1>1. /\ pc[r] = "complete" /\ runs' = runs /\ Own(r) /\ pc'[r] = "done"
      /\ record[s].status = "PROCESSING" /\ record[s].hash = HashOf(r)
  BY DEF Complete, CompleteFails, Return, Own, TypeOK, ClaimInvariant, ClaimHeld, Running
<1>2. CASE record' = record
  <2>1. reply'[r].kind = "FAULT"
    <3>1. CASE Complete(r)
      <4>1. record'[s].status = "COMPLETED"
        BY <3>1, <1>s DEF Complete, Store, Completed, TypeOK
      <4> QED BY <1>1, <1>2, <4>1
    <3>2. CASE CompleteFails(r)
      BY <3>2 DEF CompleteFails, Return, TypeOK
    <3> QED BY <3>1, <3>2
  <2>2. ASSUME NEW t \in Requests PROVE (ClaimHeld(t) /\ RunsFollowCode(t) /\ AnswerStored(t))'
    BY <1>1, <1>2, <2>1
       DEF ClaimInvariant, ClaimHeld, RunsFollowCode, AnswerStored, Own, Running, SlotOf, HashOf
  <2>3. SoleHolder'
    BY <1>1 DEF ClaimInvariant, SoleHolder, Holder, Own, SlotOf, Running
  <2>4. PendingExplained'
    <3>1. \A t \in Requests :
            pc[t] \in Running \cup {"dead"} \/ reply[t].kind = "FAULT"
            => pc'[t] \in Running \cup {"dead"} \/ reply'[t].kind = "FAULT"
      BY <1>1, <2>1 DEF Own
    <3> QED BY <1>2, <3>1 DEF ClaimInvariant, PendingExplained, SlotOf
  <2> QED BY <2>2, <2>3, <2>4 DEF ClaimInvariant
<1>3. CASE Store(r)
  <2>1. /\ record'[s].status = "COMPLETED" /\ record'[s].hash = HashOf(r)
        /\ record'[s].answer = answer[r]
        /\ \A z \in Slots \ {s} : record'[z] = record[z]
    BY <1>1, <1>3, <1>s DEF Store, Completed, TypeOK
  <2>2. \/ reply'[r].kind = "FAULT"
        \/ reply'[r].kind = "ANSWER" /\ reply'[r].answer = answer[r]
    BY DEF Complete, CompleteFails, Return, TypeOK
  <2>3. \A t \in Requests \ {r} :
          SlotOf(t) = s => ~Holder(t) /\ reply[t].kind # "ANSWER"
    BY <1>1 DEF ClaimInvariant, SoleHolder, Holder, AnswerStored, Running
  <2>4. ASSUME NEW t \in Requests PROVE (ClaimHeld(t) /\ RunsFollowCode(t) /\ AnswerStored(t))'
    <3>1. CASE t = r
      BY <1>1, <2>1, <2>2, <3>1
         DEF ClaimInvariant, ClaimHeld, RunsFollowCode, AnswerStored, Running, SlotOf, HashOf
    <3>2. CASE t # r
      BY <1>1, <2>1, <2>3, <3>2, InputType
         DEF ClaimInvariant, ClaimHeld, RunsFollowCode, AnswerStored, Own, Holder,
             SlotOf, HashOf
    <3> QED BY <3>1, <3>2
  <2>5. SoleHolder'
    BY <1>1 DEF ClaimInvariant, SoleHolder, Holder, Own, SlotOf, Running
  <2>6. PendingExplained'
    <3> SUFFICES ASSUME NEW z \in Slots, record'[z].status = "PROCESSING"
                 PROVE  \E t \in Requests :
                          /\ SlotOf(t) = z
                          /\ pc'[t] \in Running \cup {"dead"} \/ reply'[t].kind = "FAULT"
      BY DEF PendingExplained, SlotOf
    <3>1. z # s /\ record[z].status = "PROCESSING"
      BY <2>1
    <3>2. PICK t \in Requests :
            /\ SlotOf(t) = z
            /\ pc[t] \in Running \cup {"dead"} \/ reply[t].kind = "FAULT"
      BY <3>1 DEF ClaimInvariant, PendingExplained
    <3> QED BY <1>1, <3>1, <3>2 DEF Own
  <2> QED BY <2>4, <2>5, <2>6 DEF ClaimInvariant
<1> QED
  BY <1>2, <1>3 DEF Complete, CompleteFails

\* A crash turns the holders that run into dead ones.
LEMMA CrashStep ==
  ASSUME TypeOK, ClaimInvariant, Crash
  PROVE  ClaimInvariant'
<1>1. record' = record /\ runs' = runs /\ reply' = reply
  BY DEF Crash
<1>2. \A r \in Requests :
        /\ pc[r] \in {"read"} \cup Running => pc'[r] = "dead"
        /\ pc[r] \notin {"read"} \cup Running => pc'[r] = pc[r]
  BY DEF Crash
<1>3. ASSUME NEW t \in Requests PROVE (ClaimHeld(t) /\ RunsFollowCode(t) /\ AnswerStored(t))'
  BY <1>1, <1>2
     DEF ClaimInvariant, ClaimHeld, RunsFollowCode, AnswerStored, Running, SlotOf, HashOf
<1>4. SoleHolder'
  BY <1>1, <1>2 DEF ClaimInvariant, SoleHolder, Holder, SlotOf, Running
<1>5. PendingExplained'
  BY <1>1, <1>2 DEF ClaimInvariant, PendingExplained, SlotOf, Running
<1> QED
  BY <1>3, <1>4, <1>5 DEF ClaimInvariant

\* Every step preserves the invariant.
LEMMA NextInvariant == TypeOK /\ ClaimInvariant /\ [Next]_vars => ClaimInvariant'
<1> SUFFICES ASSUME TypeOK, ClaimInvariant, [Next]_vars PROVE ClaimInvariant'
  OBVIOUS
<1>1. CASE UNCHANGED <<record, runs, pc, reply>>
  <2>1. \A t \in Requests : (ClaimHeld(t) /\ RunsFollowCode(t) /\ AnswerStored(t))'
    BY <1>1 DEF ClaimInvariant, ClaimHeld, RunsFollowCode, AnswerStored, SlotOf, HashOf
  <2>2. SoleHolder' /\ PendingExplained'
    BY <1>1 DEF ClaimInvariant, SoleHolder, PendingExplained, Holder, SlotOf
  <2> QED BY <2>1, <2>2 DEF ClaimInvariant
<1>2. ASSUME NEW r \in Requests, RequestStep(r) \/ FaultStep(r) PROVE ClaimInvariant'
  <2>1. CASE Disconnect(r)
    BY <2>1, <1>1 DEF Disconnect
  <2> QED
    BY <1>2, <2>1, ClaimStep, ReadStep, EndpointStep, CompleteStep DEF RequestStep, FaultStep
<1>3. CASE Crash
  BY <1>3, CrashStep
<1>4. CASE Finished \/ UNCHANGED vars
  BY <1>1, <1>4 DEF Finished, vars
<1> QED
  BY <1>2, <1>3, <1>4 DEF Next

\* A committed claim has at most one holder, and the row tells what it did, for
\* any number of requests, keys, faults and crashes.
THEOREM ClaimsAreHeld == Spec => []ClaimInvariant
<1> QED
  BY InitInvariant, NextInvariant, TypeCorrect, PTL DEF Spec

\* A key stays PROCESSING without a handler only after a crash or an internal
\* error, for any number of requests, keys, faults and crashes.
THEOREM PendingIsExplained == Spec => []PendingExplained
<1>1. ClaimInvariant => PendingExplained
  BY DEF ClaimInvariant
<1> QED
  BY <1>1, ClaimsAreHeld, PTL

\* Claim and Complete never let the endpoint run twice for one key.
THEOREM RunsOnce == Spec => []RunsOncePerSlot
<1>1. TypeOK /\ ClaimInvariant => RunsOncePerSlot
  <2> SUFFICES ASSUME ClaimInvariant, NEW r \in Requests
               PROVE  /\ runs[r] <= 1
                      /\ \A t \in Requests \ {r} :
                           SlotOf(r) = SlotOf(t) => runs[r] + runs[t] <= 1
    BY DEF RunsOncePerSlot
  <2>1. \A t \in Requests : runs[t] \in {0, 1}
    BY DEF ClaimInvariant, RunsFollowCode
  <2>2. \A t \in Requests \ {r} : SlotOf(r) = SlotOf(t) => runs[r] = 0 \/ runs[t] = 0
    BY <2>1 DEF ClaimInvariant, SoleHolder, Holder
  <2> QED BY <2>1, <2>2
<1> QED
  BY <1>1, TypeCorrect, ClaimsAreHeld, PTL

\* All answers given for one key are the one that was stored.
THEOREM OneAnswer == Spec => []AnswersAgree
<1>1. ClaimInvariant => AnswersAgree
  BY DEF ClaimInvariant, AnswerStored, AnswersAgree
<1> QED
  BY <1>1, ClaimsAreHeld, PTL

\* Complete is the only writer of a claimed row, and writes it once.
THEOREM AnswersAreKept == Spec => AnswersStay
<1>1. TypeOK /\ ClaimInvariant /\ [Next]_vars
        => [\A s \in Slots : record[s].status = "COMPLETED" => record'[s] = record[s]]_vars
  <2> SUFFICES ASSUME TypeOK, ClaimInvariant, [Next]_vars,
                      NEW s \in Slots, record[s].status = "COMPLETED"
               PROVE  record'[s] = record[s]
    OBVIOUS
  <2>1. ASSUME NEW r \in Requests, RequestStep(r) \/ FaultStep(r)
        PROVE  record'[s] = record[s]
    <3>1. SlotOf(r) \in Slots
      BY InputType
    <3>2. CASE record' = record
      BY <3>2
    <3>3. CASE record' = [record EXCEPT ![SlotOf(r)] = ClaimedBy(HashOf(r), NoAnswer)]
               /\ record[SlotOf(r)].status = "NONE"
      BY <3>1, <3>3 DEF TypeOK
    <3>4. CASE Store(r)
      BY <3>1, <3>4 DEF Store, Completable, TypeOK
    <3> QED
      BY <2>1, <3>2, <3>3, <3>4
         DEF RequestStep, FaultStep, Claim, ClaimUnknown, Claimable, Read, ClaimFails,
             Perform, Respond, Complete, CompleteFails, Disconnect
  <2> QED
    BY <2>1 DEF Next, Crash, Finished, vars
<1> QED
  BY <1>1, TypeCorrect, ClaimsAreHeld, PTL DEF Spec, AnswersStay

-----------------------------------------------------------------------------
(* Refinement *)

\* A claim takes a free slot.
LEMMA ClaimTakes ==
  ASSUME TypeOK, NEW r \in Requests, UNCHANGED runs,
         record[SlotOf(r)].status = "NONE",
         record' = [record EXCEPT ![SlotOf(r)] = ClaimedBy(HashOf(r), NoAnswer)]
  PROVE  Abstract!Next
<1> DEFINE s == SlotOf(r)
<1>1. s \in Slots
  BY InputType
<1>2. record'[s].status = "PROCESSING" /\ \A z \in Slots \ {s} : record'[z] = record[z]
  BY <1>1 DEF ClaimedBy, TypeOK
<1>3. {z \in Slots : record'[z].status # "NONE"}
        = {z \in Slots : record[z].status # "NONE"} \cup {s}
  BY <1>1, <1>2
<1>4. {z \in Slots : record'[z].status = "COMPLETED"}
        = {z \in Slots : record[z].status = "COMPLETED"}
  BY <1>1, <1>2
<1>5. {<<z, record'[z].answer>> : z \in {y \in Slots : record'[y].status = "COMPLETED"}}
        = {<<z, record[z].answer>> : z \in {y \in Slots : record[y].status = "COMPLETED"}}
  <2>1. \A z \in Slots : record[z].status = "COMPLETED" => record'[z] = record[z]
    BY <1>2
  <2> QED BY <1>4, <2>1
<1>6. Abstract!Take(s)
  BY <1>1, <1>3, <1>5 DEF Abstract!Take
<1> QED
  BY <1>1, <1>6 DEF Abstract!Next

\* The endpoint runs for a taken slot that has no answer, and for nobody else.
LEMMA PerformRuns ==
  ASSUME TypeOK, ClaimInvariant, NEW r \in Requests, Perform(r)
  PROVE  Abstract!Next
<1> DEFINE s == SlotOf(r)
           slot == [t \in Requests |-> SlotOf(t)]
<1>1. s \in Slots /\ slot[r] = s
  BY InputType
<1>2. pc[r] = "call" /\ record[s].status = "PROCESSING" /\ runs[r] = 0
  BY DEF Perform, ClaimInvariant, ClaimHeld, RunsFollowCode, Running
<1>3. \A t \in Requests : slot[t] = slot[r] => runs[t] = 0
  BY <1>2 DEF ClaimInvariant, SoleHolder, Holder, RunsFollowCode, Running
<1>4. runs' = [runs EXCEPT ![r] = 1] /\ record' = record
  BY <1>2 DEF Perform, TypeOK
<1>5. Abstract!Undecided(s)
  BY <1>1, <1>2 DEF Abstract!Undecided
<1>6. Abstract!Run(r)
  BY <1>1, <1>3, <1>4, <1>5 DEF Abstract!Run
<1> QED
  BY <1>6 DEF Abstract!Next

\* A stored answer is the first of its slot.
LEMMA StoreDecides ==
  ASSUME TypeOK, NEW r \in Requests, UNCHANGED runs, Store(r)
  PROVE  Abstract!Next
<1> DEFINE s == SlotOf(r)
           decided == {<<z, record[z].answer>> : z \in {y \in Slots : record[y].status = "COMPLETED"}}
<1>1. s \in Slots /\ record[s].status = "PROCESSING" /\ answer[r] \in Answers
  BY InputType DEF Store, Completable, TypeOK
<1>2. /\ record'[s].status = "COMPLETED" /\ record'[s].answer = answer[r]
      /\ \A z \in Slots \ {s} : record'[z] = record[z]
  BY <1>1 DEF Store, Completed, TypeOK
<1>3. {z \in Slots : record'[z].status # "NONE"} = {z \in Slots : record[z].status # "NONE"}
  BY <1>1, <1>2
<1>4. decided' = decided \cup {<<s, answer[r]>>}
  <2>1. {z \in Slots : record'[z].status = "COMPLETED"}
          = {z \in Slots : record[z].status = "COMPLETED"} \cup {s}
    BY <1>1, <1>2
  <2>2. \A z \in Slots : record[z].status = "COMPLETED" => record'[z] = record[z]
    BY <1>1, <1>2
  <2> QED BY <1>2, <2>1, <2>2
<1>5. Abstract!Undecided(s)
  BY <1>1 DEF Abstract!Undecided
<1>6. Abstract!Decide(s)
  BY <1>1, <1>3, <1>4, <1>5 DEF Abstract!Decide
<1> QED
  BY <1>1, <1>6 DEF Abstract!Next

\* Every step of the wrapper is a step of the promise, or none.
LEMMA StepImplements ==
  TypeOK /\ ClaimInvariant /\ [Next]_vars => [Abstract!Next]_(Abstract!slots)
<1> SUFFICES ASSUME TypeOK, ClaimInvariant, [Next]_vars
             PROVE  Abstract!Next \/ UNCHANGED Abstract!slots
  OBVIOUS
<1>1. CASE UNCHANGED <<record, runs>>
  BY <1>1 DEF Abstract!slots
<1>2. ASSUME NEW r \in Requests, RequestStep(r) \/ FaultStep(r)
      PROVE  Abstract!Next \/ UNCHANGED Abstract!slots
  <2>1. CASE Claim(r) \/ ClaimUnknown(r)
    BY <1>1, <2>1, ClaimTakes DEF Claim, ClaimUnknown, Claimable
  <2>2. CASE Perform(r)
    BY <2>2, PerformRuns
  <2>3. CASE Complete(r) \/ CompleteFails(r)
    BY <1>1, <2>3, StoreDecides DEF Complete, CompleteFails
  <2>4. CASE Read(r) \/ ClaimFails(r) \/ Respond(r) \/ Disconnect(r)
    BY <1>1, <2>4 DEF Read, ClaimFails, Respond, Disconnect
  <2> QED
    BY <1>2, <2>1, <2>2, <2>3, <2>4 DEF RequestStep, FaultStep
<1>3. CASE Crash \/ Finished \/ UNCHANGED vars
  BY <1>1, <1>3 DEF Crash, Finished, vars
<1> QED
  BY <1>2, <1>3 DEF Next

\* The wrapper and its records implement the promise of an idempotency key, for
\* any number of requests, keys, faults and crashes.
THEOREM CallsImplement == Spec => CallsOncePerSlot
<1>1. Init => Abstract!Init
  BY DEF Init, NoRecord, Abstract!Init
<1> QED
  BY <1>1, StepImplements, TypeCorrect, ClaimsAreHeld, PTL
     DEF Spec, CallsOncePerSlot, Abstract!Spec
=============================================================================
