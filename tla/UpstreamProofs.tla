--------------------------- MODULE UpstreamProofs ---------------------------
(***************************************************************************)
(* That a write leaves for Kovar at most once, for any number of calls.    *)
(*                                                                         *)
(* The counter sent says nothing of itself: the invariant has to say that  *)
(* a write at "try" has not been sent yet, since nothing leads a write     *)
(* back there, and that results exist exactly where Do has returned.       *)
(***************************************************************************)
EXTENDS Upstream, TLAPS

ReturnedIffTold(c) == at[c] = "done" <=> result[c] # None

SentFollowsCode(c) ==
  /\ at[c] \in {"idle", "try"} => sent[c] = 0
  /\ sent[c] \in {0, 1}
  /\ at[c] # "pause"

\* Only the first two attempts are followed by a pause.
PauseCounted(c) == at[c] = "pause" => attempt[c] < 2

\* Where a write stands tells how often it was sent.
CallInvariant ==
  /\ \A c \in Calls : ReturnedIffTold(c) /\ PauseCounted(c)
  /\ \A c \in Writes : SentFollowsCode(c)

IInv == TypeOK /\ CallInvariant

USE CallsAssumption

\* None is not a result.
LEMMA NoneIsNoResult == None \notin Bodies \cup Failures
  BY DEF None, Bodies, Failures

\* A call that fails is told one of the failures.
LEMMA FailureIsOne == \A c \in Calls : Failure(c) \in Failures
  BY DEF Failure, Failures

\* No call has begun.
LEMMA InitInvariant == Init => IInv
  BY DEF Init, IInv, TypeOK, CallInvariant, ReturnedIffTold,
         PauseCounted, SentFollowsCode, Writes, None

\* Every step keeps the types.
LEMMA NextType == IInv /\ [Next]_vars => TypeOK'
<1> SUFFICES ASSUME IInv, [Next]_vars PROVE TypeOK'
  OBVIOUS
<1> USE DEF IInv, TypeOK
<1>1. CASE UNCHANGED vars
  BY <1>1 DEF vars
<1>2. ASSUME NEW c \in Calls, Begin(c) PROVE TypeOK'
  BY <1>2 DEF Begin
<1>3. ASSUME NEW c \in Calls, Send(c) PROVE TypeOK'
  BY <1>3 DEF Send
<1>4. ASSUME NEW c \in Calls, SendFails(c) PROVE TypeOK'
  BY <1>4 DEF SendFails, Errors
<1>5. ASSUME NEW c \in Calls, Resend(c) PROVE TypeOK'
  BY <1>5 DEF Resend
<1>6. ASSUME NEW c \in Calls, Respond(c) PROVE TypeOK'
  BY <1>6 DEF Respond
<1>7. ASSUME NEW c \in Calls, Pause(c) PROVE TypeOK'
  BY <1>7 DEF Pause
<1>8. ASSUME NEW c \in Calls, Elapse(c) PROVE TypeOK'
  BY <1>8 DEF Elapse, NextAttempt, CallInvariant, PauseCounted
<1>9. ASSUME NEW c \in Calls, PauseEnds(c) PROVE TypeOK'
  BY <1>9 DEF PauseEnds, Failures
<1>10. ASSUME NEW c \in Calls, GiveUp(c) PROVE TypeOK'
  BY <1>10, FailureIsOne DEF GiveUp
<1>11. ASSUME NEW c \in Calls, Succeed(c) PROVE TypeOK'
  BY <1>11 DEF Succeed
<1>12. ASSUME NEW c \in Calls, ReadBody(c) PROVE TypeOK'
  BY <1>12 DEF ReadBody
<1>13. ASSUME NEW c \in Calls, Leave(c) PROVE TypeOK'
  BY <1>13 DEF Leave
<1>14. QED
  BY <1>1, <1>2, <1>3, <1>4, <1>5, <1>6, <1>7, <1>8, <1>9, <1>10, <1>11, <1>12, <1>13
     DEF Next, Step

\* Every step keeps what is known of each call.
LEMMA NextCalls == IInv /\ [Next]_vars => CallInvariant'
<1> SUFFICES ASSUME IInv, [Next]_vars PROVE CallInvariant'
  OBVIOUS
<1> USE DEF IInv, TypeOK, CallInvariant, ReturnedIffTold, PauseCounted, SentFollowsCode,
            Writes, Replayable
<1>1. CASE UNCHANGED vars
  BY <1>1 DEF vars
<1>2. ASSUME NEW c \in Calls, Begin(c) PROVE CallInvariant'
  BY <1>2 DEF Begin
<1>3. ASSUME NEW c \in Calls, Send(c) PROVE CallInvariant'
  BY <1>3 DEF Send
<1>4. ASSUME NEW c \in Calls, SendFails(c) PROVE CallInvariant'
  BY <1>4 DEF SendFails
<1>5. ASSUME NEW c \in Calls, Resend(c) PROVE CallInvariant'
  BY <1>5 DEF Resend
<1>6. ASSUME NEW c \in Calls, Respond(c) PROVE CallInvariant'
  BY <1>6 DEF Respond
<1>7. ASSUME NEW c \in Calls, Pause(c) PROVE CallInvariant'
  BY <1>7 DEF Pause, Retry
<1>8. ASSUME NEW c \in Calls, Elapse(c) PROVE CallInvariant'
  BY <1>8 DEF Elapse
<1>9. ASSUME NEW c \in Calls, PauseEnds(c) PROVE CallInvariant'
  BY <1>9 DEF PauseEnds, None
<1>10. ASSUME NEW c \in Calls, GiveUp(c) PROVE CallInvariant'
  BY <1>10, FailureIsOne, NoneIsNoResult DEF GiveUp
<1>11. ASSUME NEW c \in Calls, Succeed(c) PROVE CallInvariant'
  BY <1>11 DEF Succeed
<1>12. ASSUME NEW c \in Calls, ReadBody(c) PROVE CallInvariant'
  BY <1>12, NoneIsNoResult DEF ReadBody
<1>13. ASSUME NEW c \in Calls, Leave(c) PROVE CallInvariant'
  BY <1>13 DEF Leave
<1>14. QED
  BY <1>1, <1>2, <1>3, <1>4, <1>5, <1>6, <1>7, <1>8, <1>9, <1>10, <1>11, <1>12, <1>13
     DEF Next, Step

\* The invariant of calls holds in every reachable state.
LEMMA Invariance == Spec => []IInv
<1>1. IInv /\ [Next]_vars => IInv'
  BY NextType, NextCalls DEF IInv
<1>2. QED
  BY InitInvariant, <1>1, PTL DEF Spec

\* In every reachable state of Do and the transport, the variables have their
\* types; in particular no call makes more than three attempts.
THEOREM TypeCorrect == Spec => []TypeOK
  BY Invariance, PTL DEF IInv

-----------------------------------------------------------------------------
(* Refinement *)

\* A step that begins no write, sends none and tells no caller of one anything.
LEMMA QuietStutters ==
  ASSUME \A w \in Writes : /\ at[w] = "idle" <=> at'[w] = "idle"
                           /\ sent'[w] = sent[w]
                           /\ result'[w] = result[w]
  PROVE  UNCHANGED Abstract!slots
<1>1. {w \in Writes : at'[w] # "idle"} = {w \in Writes : at[w] # "idle"}
  OBVIOUS
<1>2. [w \in Writes |-> sent'[w]] = [w \in Writes |-> sent[w]]
  OBVIOUS
<1>3. {<<w, result'[w]>> : w \in {z \in Writes : result'[z] # None}}
        = {<<w, result[w]>> : w \in {z \in Writes : result[z] # None}}
  OBVIOUS
<1> QED
  BY <1>1, <1>2, <1>3 DEF Abstract!slots, Writes, Replayable

\* The call of Do takes its slot.
LEMMA BeginTakes ==
  ASSUME IInv, NEW c \in Writes, Begin(c)
  PROVE  Abstract!Next
<1>1. at[c] = "idle" /\ at' = [at EXCEPT ![c] = "try"] /\ sent' = sent /\ result' = result
  BY DEF Begin
<1>2. {w \in Writes : at'[w] # "idle"} = {w \in Writes : at[w] # "idle"} \cup {c}
  BY <1>1 DEF IInv, TypeOK, Writes
<1>3. Abstract!Take(c)
  BY <1>1, <1>2 DEF Abstract!Take, Writes, Replayable
<1> QED
  BY <1>3 DEF Abstract!Next

\* What leaves for Kovar runs the call, which has not run before.
LEMMA SendRuns ==
  ASSUME IInv, NEW c \in Writes, Send(c)
  PROVE  Abstract!Next
<1> DEFINE runs == [w \in Writes |-> sent[w]]
           slot == [w \in Writes |-> w]
<1>1. /\ at[c] = "try" /\ at' = [at EXCEPT ![c] = "flight"]
      /\ sent' = [sent EXCEPT ![c] = @ + 1] /\ result' = result
  BY DEF Send
<1>2. c \in Calls /\ sent[c] = 0 /\ result[c] = None
  BY <1>1 DEF IInv, CallInvariant, SentFollowsCode, ReturnedIffTold, Writes
<1>3. {w \in Writes : at'[w] # "idle"} = {w \in Writes : at[w] # "idle"}
  BY <1>1 DEF IInv, TypeOK, Writes
<1>4. [w \in Writes |-> sent'[w]] = [runs EXCEPT ![c] = 1]
  <2>1. sent'[c] = 1 /\ \A w \in Writes \ {c} : sent'[w] = sent[w]
    BY <1>1, <1>2 DEF IInv, TypeOK, Writes
  <2> QED BY <2>1
<1>5. Abstract!Undecided(slot[c])
  BY <1>1, <1>2 DEF Abstract!Undecided
<1>6. \A w \in Writes : slot[w] = slot[c] => runs[w] = 0
  BY <1>2
<1>7. Abstract!Run(c)
  BY <1>1, <1>3, <1>4, <1>5, <1>6 DEF Abstract!Run, Writes, Replayable
<1> QED
  BY <1>7 DEF Abstract!Next

\* What the caller is told is the call's outcome.
LEMMA ReturnDecides ==
  ASSUME IInv, NEW c \in Writes, NEW told \in Bodies \cup Failures,
         at[c] \notin {"idle", "done"}, at' = [at EXCEPT ![c] = "done"],
         result' = [result EXCEPT ![c] = told], sent' = sent
  PROVE  Abstract!Next
<1> DEFINE decided == {<<w, result[w]>> : w \in {z \in Writes : result[z] # None}}
<1>1. c \in Calls /\ result[c] = None
  BY DEF IInv, CallInvariant, ReturnedIffTold, Writes
<1>2. {w \in Writes : at'[w] # "idle"} = {w \in Writes : at[w] # "idle"}
  BY <1>1 DEF IInv, TypeOK, Writes
<1>3. /\ result'[c] = told /\ told # None
      /\ \A w \in Writes \ {c} : result'[w] = result[w]
  BY <1>1, NoneIsNoResult DEF IInv, TypeOK, Writes
<1>4. decided' = decided \cup {<<c, told>>}
  <2>1. {w \in Writes : result'[w] # None} = {w \in Writes : result[w] # None} \cup {c}
    BY <1>3
  <2> QED BY <1>1, <1>3, <2>1 DEF Writes, Replayable
<1>5. Abstract!Undecided(c)
  BY <1>1 DEF Abstract!Undecided
<1>6. Abstract!Decide(c)
  BY <1>2, <1>4, <1>5 DEF Abstract!Decide, Writes, Replayable
<1> QED
  BY <1>6 DEF Abstract!Next

\* Every step of the client and the transport is a step of the promise, or none.
LEMMA StepImplements ==
  IInv /\ [Next]_vars => [Abstract!Next]_(Abstract!slots)
<1> SUFFICES ASSUME IInv, [Next]_vars
             PROVE  Abstract!Next \/ UNCHANGED Abstract!slots
  OBVIOUS
<1>1. CASE UNCHANGED vars
  BY <1>1, QuietStutters DEF vars
<1>2. ASSUME NEW c \in Calls \ Writes, Begin(c) \/ Step(c) \/ Leave(c)
      PROVE  UNCHANGED Abstract!slots
  BY <1>2, QuietStutters
     DEF Begin, Step, Leave, Send, SendFails, Resend, Respond, Pause, Elapse, PauseEnds,
         GiveUp, Succeed, ReadBody, IInv, TypeOK, Writes
<1>3. ASSUME NEW c \in Writes, Begin(c) \/ Step(c) \/ Leave(c)
      PROVE  Abstract!Next \/ UNCHANGED Abstract!slots
  <2> c \in Calls
    BY DEF Writes
  <2>1. CASE Begin(c)
    BY <2>1, BeginTakes
  <2>2. CASE Send(c)
    BY <2>2, SendRuns
  <2>3. CASE SendFails(c) \/ Respond(c) \/ Pause(c) \/ Elapse(c) \/ Succeed(c) \/ Leave(c)
    BY <2>3, QuietStutters
       DEF SendFails, Respond, Pause, Elapse, Succeed, Leave, IInv, TypeOK, Writes
  <2>4. ~ Resend(c)
    BY DEF Resend, Writes
  <2>5. CASE PauseEnds(c)
    BY <2>5, ReturnDecides DEF PauseEnds, Failures
  <2>6. CASE GiveUp(c)
    BY <2>6, ReturnDecides, FailureIsOne DEF GiveUp
  <2>7. CASE ReadBody(c)
    BY <2>7, ReturnDecides DEF ReadBody
  <2> QED
    BY <1>3, <2>1, <2>2, <2>3, <2>4, <2>5, <2>6, <2>7 DEF Step
<1> QED
  BY <1>1, <1>2, <1>3 DEF Next

\* For any calls, methods and headers: a POST or DELETE that carries no
\* Idempotency-Key leaves for Kovar at most once, whatever fails on the way, and
\* what its caller is told is final.
THEOREM WritesImplement == Spec => WritesOncePerCall
<1>1. Init => Abstract!Init
  BY DEF Init, Writes, Replayable, Abstract!Init
<1> QED
  BY <1>1, StepImplements, Invariance, PTL DEF Spec, WritesOncePerCall, Abstract!Spec
=============================================================================
