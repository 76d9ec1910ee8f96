-------------------------- MODULE RequestGateProofs --------------------------
(***************************************************************************)
(* That a signed request is authenticated once, and that rate windows hold *)
(* their limits, for any number of agents, messages and deliveries, any    *)
(* skew, retention and length of windows, and every drift and delay that   *)
(* DriftAssumption allows.                                                 *)
(*                                                                         *)
(* What the sweep forgets is out of reach by then.  A statement takes      *)
(* effect so soon after the reading it works with that a message whose     *)
(* nonce may have been swept is too old for its timestamp check, and that  *)
(* a window which may have been swept is no longer computed by anybody.    *)
(***************************************************************************)
EXTENDS RequestGate, TLAPS

\* The clock stays between the bounds that keep every reading a window of the
\* model.
ClockBounded == MaxDrift <= now /\ now <= MaxNow + MaxDrift

\* A delivery that waits for a statement took its reading a short time ago, and
\* one that waits for Authenticate's passed the check of its timestamp.
ReadingRecent(d) ==
  pc[d] \in Waiting =>
    /\ read[d] <= now /\ now <= read[d] + MaxDelay
    /\ read[d] - MaxDrift <= clock[d] /\ clock[d] <= now + MaxDrift
    /\ pc[d] = "insert" => Timestamp(MessageOf(d).ts, clock[d])

\* An authenticated message is remembered by its own row, or too old for ever.
NonceRemembered(m) ==
  /\ accepted[m] <= 1
  /\ accepted[m] = 1 => \/ challenge[Signed[m].nonce] = Expiry(Signed[m])
                        \/ Expiry(Signed[m]) + Retention < now

\* A window counts at least what it let through, or it is over for ever.
WindowCounts(s, w) ==
  /\ passed[s][w] <= Limit[s]
  /\ passed[s][w] <= counter[s][w] \/ StaleWindow(w)

\* The inductive invariant.
GateInvariant ==
  /\ TypeOK /\ ClockBounded
  /\ \A d \in Attempts : ReadingRecent(d)
  /\ \A m \in Messages : NonceRemembered(m)
  /\ \A s \in Subjects : \A w \in Windows : WindowCounts(s, w)

-----------------------------------------------------------------------------
(* Windows *)

\* Going back by at most j windows of time goes back by at most j windows.
LEMMA Division ==
  ASSUME NEW k \in Nat \ {0}
  PROVE  /\ \A x \in Nat : x \div k \in Nat
         /\ \A x, y \in Nat : x <= y => x \div k <= y \div k
         /\ \A x, y, j \in Nat : y - j * k <= x => y \div k - j <= x \div k
<1>1. \A x \in Nat : x \div k \in Nat
  OBVIOUS
<1>2. \A x, y \in Nat : x <= y => x \div k <= y \div k
  OBVIOUS
<1>3. ASSUME NEW x \in Nat, NEW y \in Nat, NEW j \in Nat, y - j * k <= x
      PROVE  y \div k - j <= x \div k
  BY <1>3
<1> QED BY <1>1, <1>2, <1>3

\* A count of at most one is zero or one.
LEMMA Bit == \A n \in Nat : n <= 1 => n \in {0, 1}
  OBVIOUS

\* The window of a moment.
WindowOf(t) == t \div Window

\* Windows follow the clock.
LEMMA WindowOrder ==
  /\ \A x \in Nat : WindowOf(x) \in Nat
  /\ \A x, y \in Nat : x <= y => WindowOf(x) <= WindowOf(y)
  /\ \A x, y, j \in Nat : y - j * Window <= x => WindowOf(y) - j <= WindowOf(x)
<1>1. Window \in Nat \ {0}
  BY ClockAssumption
<1> QED BY <1>1, Division, Zenon DEF WindowOf

USE MessageAssumption, ClockAssumption

\* The window a waiting delivery counts in is one of the model's, and no sweep
\* has reached it.
LEMMA WindowOpen ==
  ASSUME TypeOK, ClockBounded, NEW d \in Attempts, ReadingRecent(d), pc[d] \in Waiting
  PROVE  clock[d] \div Window \in Windows /\ ~StaleWindow(clock[d] \div Window)
<1>1. /\ clock[d] \in Nat /\ now \in Nat /\ read[d] \in Nat
      /\ clock[d] <= MaxNow + 2 * MaxDrift
  BY DEF TypeOK, ClockBounded, ReadingRecent
<1>2. WindowOf(clock[d]) \in Nat /\ WindowOf(now) \in Nat
  BY <1>1, WindowOrder
<1>3. WindowOf(clock[d]) <= WindowOf(MaxNow + 2 * MaxDrift) /\ WindowOf(MaxNow + 2 * MaxDrift) \in Nat
  BY <1>1, WindowOrder
<1>4. now - (MaxDrift + MaxDelay) <= clock[d]
  BY <1>1 DEF ReadingRecent
<1>5. now - Kept * Window <= clock[d]
  <2>1. Kept * Window \in Nat
    OBVIOUS
  <2> QED BY <1>1, <1>4, <2>1, DriftAssumption
<1>6. WindowOf(now) - Kept <= WindowOf(clock[d])
  BY <1>1, <1>5, WindowOrder
<1>7. ~(WindowOf(clock[d]) < WindowOf(now) - Kept)
  BY <1>2, <1>6
<1>8. WindowOf(clock[d]) \in 0 .. WindowOf(MaxNow + 2 * MaxDrift)
  BY <1>2, <1>3
<1> QED BY <1>7, <1>8, Zenon DEF Windows, StaleWindow, WindowOf

\* A window that is over stays over.
LEMMA StaleForEver ==
  ASSUME now \in Nat, now' \in Nat, now <= now', NEW w \in Windows, StaleWindow(w)
  PROVE  StaleWindow(w)'
<1>1. WindowOf(now) <= WindowOf(now') /\ WindowOf(now) \in Nat /\ WindowOf(now') \in Nat
  BY WindowOrder
<1>2. w < WindowOf(now) - Kept /\ w \in Int
  BY DEF StaleWindow, Windows, WindowOf
<1>3. w < WindowOf(now') - Kept
  BY <1>1, <1>2
<1> QED BY <1>3, Zenon DEF StaleWindow, WindowOf

-----------------------------------------------------------------------------
(* What each part of the invariant depends on *)

\* A message was authenticated once or not at all.
LEMMA AcceptedBit ==
  ASSUME TypeOK, NEW m \in Messages, NonceRemembered(m)
  PROVE  accepted[m] \in {0, 1}
<1>1. accepted[m] \in Nat
  BY DEF TypeOK
<1>2. accepted[m] <= 1
  BY DEF NonceRemembered
<1> QED BY <1>1, <1>2, Bit

\* Nonces stay remembered while time passes.
LEMMA NonceFrame ==
  ASSUME TypeOK, now' \in Nat, now <= now', UNCHANGED <<challenge, accepted>>,
         \A m \in Messages : NonceRemembered(m)
  PROVE  \A m \in Messages : NonceRemembered(m)'
<1> SUFFICES ASSUME NEW m \in Messages PROVE NonceRemembered(m)'
  OBVIOUS
<1>1. Expiry(Signed[m]) \in Int /\ now \in Nat
  BY DEF TypeOK, Expiry
<1>2. NonceRemembered(m) /\ Expiry(Signed[m])' = Expiry(Signed[m])
  BY DEF Expiry
<1> QED BY <1>1, <1>2 DEF NonceRemembered

\* Windows stay counted while time passes.
LEMMA WindowFrame ==
  ASSUME TypeOK, now' \in Nat, now <= now', UNCHANGED <<counter, passed>>,
         \A s \in Subjects : \A w \in Windows : WindowCounts(s, w)
  PROVE  \A s \in Subjects : \A w \in Windows : WindowCounts(s, w)'
  BY StaleForEver DEF TypeOK, WindowCounts

\* One delivery moves on; what it now works with is recent.
LEMMA ReadingFrame ==
  ASSUME TypeOK, NEW d \in Attempts, NEW step, NEW c, NEW t, UNCHANGED now,
         pc' = [pc EXCEPT ![d] = step],
         clock' = [clock EXCEPT ![d] = c], read' = [read EXCEPT ![d] = t],
         ReadingRecent(d)', \A e \in Attempts : ReadingRecent(e)
  PROVE  \A e \in Attempts : ReadingRecent(e)'
<1> SUFFICES ASSUME NEW e \in Attempts, e # d PROVE ReadingRecent(e)'
  OBVIOUS
<1>1. pc'[e] = pc[e] /\ clock'[e] = clock[e] /\ read'[e] = read[e]
  BY DEF TypeOK
<1> QED BY <1>1 DEF ReadingRecent, Timestamp, MessageOf

\* What MessageAssumption says of one delivery.
LEMMA MessageType ==
  ASSUME NEW d \in Attempts
  PROVE  /\ Delivery[d].message \in Messages /\ Delivery[d].source \in Sources
         /\ MessageOf(d) = Signed[Delivery[d].message]
         /\ MessageOf(d).agent \in Agents /\ MessageOf(d).nonce \in Nonces
         /\ MessageOf(d).ts \in Int /\ Expiry(MessageOf(d)) \in Int
  BY DEF MessageOf, Expiry

-----------------------------------------------------------------------------
(* The steps of a delivery *)

\* A delivery takes a reading for its next statement.
LEMMA ReadClockStep ==
  ASSUME GateInvariant, NEW d \in Attempts, Arrive(d) \/ Verify(d) \/ ToAgentRate(d)
  PROVE  GateInvariant'
<1> USE DEF GateInvariant
<1>0. UNCHANGED <<now, agent, challenge, counter, accepted, passed, sweep>>
  BY DEF Arrive, Verify, ToAgentRate
<1>1. CASE Forget(d) /\ Goto(d, "refused")
  <2>1. TypeOK' /\ ClockBounded'
    BY <1>0, <1>1 DEF TypeOK, Forget, Goto, ClockBounded, Waiting
  <2>2. ReadingRecent(d)'
    BY <1>1 DEF Goto, TypeOK, ReadingRecent, Waiting
  <2>3. \A e \in Attempts : ReadingRecent(e)'
    BY <1>0, <1>1, <2>2, ReadingFrame DEF Forget, Goto
  <2> QED BY <1>0, <2>1, <2>3, NonceFrame, WindowFrame DEF TypeOK
<1>2. CASE ~(Forget(d) /\ Goto(d, "refused"))
  <2>1. PICK o \in Offsets :
          /\ ReadClock(d, now + o)
          /\ \/ Goto(d, "ip") \/ Goto(d, "agent")
             \/ Goto(d, "insert") /\ Timestamp(MessageOf(d).ts, now + o)
    BY <1>2 DEF Arrive, Verify, ToAgentRate
  <2>2. o \in Int /\ -MaxDrift <= o /\ o <= MaxDrift /\ now \in Nat /\ now + o \in Nat
    BY DEF TypeOK, ClockBounded
  <2>3. TypeOK' /\ ClockBounded'
    BY <1>0, <2>1, <2>2 DEF TypeOK, ReadClock, Goto, ClockBounded, Waiting
  <2>4. pc'[d] \in Waiting /\ clock'[d] = now + o /\ read'[d] = now
    BY <2>1 DEF TypeOK, ReadClock, Goto, Waiting
  <2>5. pc'[d] = "insert" => Timestamp(MessageOf(d).ts, now + o)
    BY <2>1 DEF TypeOK, Goto
  <2>6. ReadingRecent(d)'
    BY <1>0, <2>2, <2>4, <2>5 DEF ReadingRecent, Timestamp, MessageOf
  <2>7. \A e \in Attempts : ReadingRecent(e)'
    BY <1>0, <2>1, <2>6, ReadingFrame DEF ReadClock, Goto
  <2> QED BY <1>0, <2>3, <2>7, NonceFrame, WindowFrame DEF TypeOK
<1> QED BY <1>1, <1>2

\* A delivery whose statement failed or came too late is refused.
LEMMA ExpireStep ==
  ASSUME GateInvariant, NEW d \in Attempts, Expire(d)
  PROVE  GateInvariant'
<1> USE DEF GateInvariant
<1>1. TypeOK' /\ ClockBounded'
  BY DEF TypeOK, Expire, Forget, Goto, ClockBounded, Waiting
<1>2. ReadingRecent(d)'
  BY DEF Expire, Goto, TypeOK, ReadingRecent, Waiting
<1>3. \A e \in Attempts : ReadingRecent(e)'
  BY <1>2, ReadingFrame DEF Expire, Forget, Goto
<1> QED BY <1>1, <1>3, NonceFrame, WindowFrame DEF TypeOK, Expire

\* A delivery counts in a window that no sweep has reached.
LEMMA RateStep ==
  ASSUME GateInvariant, NEW d \in Attempts, pc[d] \in Waiting, NEW s \in Subjects,
         NEW next \in {"verify", "admitted"}, Rate(d, s, next)
  PROVE  GateInvariant'
<1> USE DEF GateInvariant
<1> DEFINE w == clock[d] \div Window
           n == Count(s, w)
           p == IF n <= Limit[s] THEN passed[s][w] + 1 ELSE passed[s][w]
<1>0. w \in Windows /\ ~StaleWindow(w)
  BY WindowOpen
<1>1. /\ Limit[s] \in Nat /\ counter[s][w] \in Nat /\ passed[s][w] \in Nat
      /\ counter[s] \in [Windows -> Nat] /\ passed[s] \in [Windows -> Nat]
  BY <1>0 DEF TypeOK
<1>2. passed[s][w] <= Limit[s] /\ passed[s][w] <= counter[s][w]
  BY <1>0 DEF WindowCounts
<1>3. n \in Nat /\ p \in Nat /\ p <= Limit[s] /\ p <= n
  BY <1>1, <1>2 DEF Count
<1>4. /\ counter' = [counter EXCEPT ![s] = [counter[s] EXCEPT ![w] = n]]
      /\ passed' = [passed EXCEPT ![s] = [passed[s] EXCEPT ![w] = p]]
      /\ pc' = [pc EXCEPT ![d] = pc'[d]] /\ pc'[d] \in {"verify", "admitted", "refused"}
      /\ Forget(d) /\ UNCHANGED <<now, agent, challenge, accepted, sweep>>
  BY <1>0 DEF Rate, Goto, TypeOK
<1>5. counter' \in [Subjects -> [Windows -> Nat]] /\ passed' \in [Subjects -> [Windows -> Nat]]
  BY <1>0, <1>1, <1>3, <1>4 DEF TypeOK
<1>6. TypeOK' /\ ClockBounded'
  BY <1>4, <1>5 DEF TypeOK, Forget, ClockBounded, Waiting
<1>7. \A e \in Attempts : ReadingRecent(e)'
  <2>1. ReadingRecent(d)'
    BY <1>4 DEF ReadingRecent, Waiting
  <2> QED BY <1>4, <2>1, ReadingFrame DEF Forget
<1>8. ASSUME NEW t \in Subjects, NEW v \in Windows PROVE WindowCounts(t, v)'
  <2>1. CASE t = s /\ v = w
    BY <1>0, <1>3, <1>4, <2>1 DEF TypeOK, WindowCounts
  <2>2. CASE ~(t = s /\ v = w)
    <3>1. counter'[t][v] = counter[t][v] /\ passed'[t][v] = passed[t][v]
      BY <1>0, <1>1, <1>4, <2>2 DEF TypeOK
    <3> QED BY <1>4, <3>1 DEF WindowCounts, StaleWindow
  <2> QED BY <2>1, <2>2
<1> QED BY <1>4, <1>6, <1>7, <1>8, NonceFrame DEF TypeOK

\* The nonce of the message is free and its timestamp passed a moment ago: the
\* message has not been authenticated before.  Whoever was remembered by a row
\* of that nonce is too old.
LEMMA RememberStep ==
  ASSUME GateInvariant, NEW d \in Attempts, pc[d] = "insert",
         Fresh(MessageOf(d).nonce), Remember(MessageOf(d)), UNCHANGED now,
         \/ UNCHANGED accepted
         \/ accepted' = [accepted EXCEPT ![Delivery[d].message] = @ + 1]
  PROVE  \A m \in Messages : NonceRemembered(m)'
<1> USE DEF GateInvariant
<1> DEFINE own == Delivery[d].message
<1>0. /\ own \in Messages /\ MessageOf(d) = Signed[own] /\ Signed[own].nonce \in Nonces
      /\ Signed[own].ts \in Int /\ Expiry(Signed[own]) \in Int
  BY MessageType
<1>1. now <= Expiry(Signed[own]) + Retention
  <2>1. /\ now <= read[d] + MaxDelay /\ read[d] - MaxDrift <= clock[d]
        /\ clock[d] - Skew <= Signed[own].ts
    BY <1>0 DEF ReadingRecent, Waiting, Timestamp
  <2>2. now \in Nat /\ read[d] \in Nat /\ clock[d] \in Nat
    BY DEF TypeOK
  <2> QED BY <1>0, <2>1, <2>2, DriftAssumption DEF Expiry
<1>2. ASSUME NEW m \in Messages, Signed[m].nonce = Signed[own].nonce, accepted[m] = 1
      PROVE  Expiry(Signed[m]) + Retention < now /\ m # own
  <2>1. Expiry(Signed[m]) \in Int /\ challenge[Signed[m].nonce] = NoRow
    BY <1>0, <1>2 DEF Fresh, Expiry
  <2>2. Expiry(Signed[m]) + Retention < now
    BY <1>2, <2>1 DEF NonceRemembered
  <2> QED BY <1>0, <1>1, <2>1, <2>2 DEF TypeOK
<1>3. accepted[own] = 0
  <2>1. accepted[own] \in {0, 1}
    BY <1>0, AcceptedBit
  <2>2. accepted[own] # 1
    BY <1>0, <1>2
  <2> QED BY <2>1, <2>2
<1>4. challenge' = [challenge EXCEPT ![Signed[own].nonce] = Expiry(Signed[own])]
  BY <1>0 DEF Remember
<1>5. ASSUME NEW m \in Messages PROVE NonceRemembered(m)'
  <2>0. Expiry(Signed[m])' = Expiry(Signed[m]) /\ NonceRemembered(m) /\ Signed[m].nonce \in Nonces
    BY DEF Expiry
  <2>1. CASE m = own
    BY <1>0, <1>3, <1>4, <2>0, <2>1 DEF NonceRemembered, TypeOK
  <2>2. CASE m # own
    <3>1. accepted'[m] = accepted[m]
      BY <1>0, <2>2 DEF TypeOK
    <3>2. CASE Signed[m].nonce = Signed[own].nonce
      BY <1>2, <2>0, <3>1, <3>2 DEF NonceRemembered
    <3>3. CASE Signed[m].nonce # Signed[own].nonce
      BY <1>0, <1>4, <2>0, <3>1, <3>3 DEF NonceRemembered, TypeOK
    <3> QED BY <3>2, <3>3
  <2> QED BY <2>1, <2>2
<1> QED BY <1>5

\* The statement of Authenticate, with or without its answer.
LEMMA AuthenticateStep ==
  ASSUME GateInvariant, NEW d \in Attempts, Authenticate(d) \/ AuthenticateUnknown(d)
  PROVE  GateInvariant'
<1> USE DEF GateInvariant
<1>0. /\ pc[d] = "insert" /\ Forget(d) /\ UNCHANGED <<now, agent, counter, passed, sweep>>
      /\ pc' = [pc EXCEPT ![d] = pc'[d]] /\ pc'[d] \in {"authenticated", "refused"}
  BY DEF Authenticate, AuthenticateUnknown, Goto, TypeOK
<1>1. \/ UNCHANGED <<challenge, accepted>>
      \/ /\ Fresh(MessageOf(d).nonce) /\ Remember(MessageOf(d))
         /\ \/ UNCHANGED accepted
            \/ accepted' = [accepted EXCEPT ![Delivery[d].message] = @ + 1]
  BY DEF Authenticate, AuthenticateUnknown
<1>2. challenge' \in [Nonces -> Int \cup {NoRow}] /\ accepted' \in [Messages -> Nat]
  <2>1. Delivery[d].message \in Messages /\ Expiry(MessageOf(d)) \in Int
    BY MessageType
  <2>2. CASE UNCHANGED <<challenge, accepted>>
    BY <2>2 DEF TypeOK
  <2>3. CASE Remember(MessageOf(d))
    <3>1. MessageOf(d).nonce \in Nonces
      BY MessageType
    <3>2. challenge' \in [Nonces -> Int \cup {NoRow}]
      BY <2>1, <2>3, <3>1 DEF TypeOK, Remember
    <3>3. accepted[Delivery[d].message] + 1 \in Nat
      BY <2>1 DEF TypeOK
    <3>4. accepted' \in [Messages -> Nat]
      BY <1>1, <2>1, <3>3 DEF TypeOK
    <3> QED BY <3>2, <3>4
  <2> QED BY <1>1, <2>2, <2>3
<1>3. TypeOK' /\ ClockBounded'
  BY <1>0, <1>2 DEF TypeOK, Forget, ClockBounded, Waiting
<1>4. ReadingRecent(d)'
  BY <1>0 DEF ReadingRecent, Waiting
<1>5. \A e \in Attempts : ReadingRecent(e)'
  BY <1>0, <1>4, ReadingFrame DEF Forget
<1>6. \A m \in Messages : NonceRemembered(m)'
  BY <1>0, <1>1, NonceFrame, RememberStep DEF TypeOK
<1> QED BY <1>0, <1>3, <1>5, <1>6, WindowFrame DEF TypeOK

\* Every step of a delivery preserves the invariant.
LEMMA DeliveryInvariant == ASSUME GateInvariant, NEW d \in Attempts, DeliveryStep(d)
                           PROVE  GateInvariant'
<1>1. CASE RateSource(d)
  BY <1>1, RateStep, MessageType DEF RateSource, Waiting, Subjects
<1>2. CASE RateAgent(d)
  BY <1>2, RateStep, MessageType DEF RateAgent, Waiting, Subjects
<1> QED BY <1>1, <1>2, ReadClockStep, AuthenticateStep, ExpireStep DEF DeliveryStep

-----------------------------------------------------------------------------
(* The sweep, reviews and the clock *)

\* A row that is swept is the row of a message that is too old.
LEMMA SweepNoncesStep == ASSUME GateInvariant, SweepNonces PROVE GateInvariant'
<1> USE DEF GateInvariant, SweepNonces
<1>1. TypeOK' /\ ClockBounded' /\ \A d \in Attempts : ReadingRecent(d)'
  BY DEF TypeOK, ClockBounded, ReadingRecent, Timestamp, MessageOf
<1>2. ASSUME NEW m \in Messages PROVE NonceRemembered(m)'
  <2>1. /\ Expiry(Signed[m]) \in Int /\ Signed[m].nonce \in Nonces /\ now \in Nat
        /\ Expiry(Signed[m])' = Expiry(Signed[m]) /\ NonceRemembered(m)
    BY DEF Expiry, TypeOK
  <2>2. challenge'[Signed[m].nonce] =
          IF challenge[Signed[m].nonce] # NoRow /\ Stale(challenge[Signed[m].nonce])
            THEN NoRow ELSE challenge[Signed[m].nonce]
    BY <2>1
  <2> QED BY <2>1, <2>2 DEF NonceRemembered, Stale
<1> QED BY <1>1, <1>2, WindowFrame DEF TypeOK

\* The sweep deletes counters of windows that are over.
LEMMA SweepWindowsStep == ASSUME GateInvariant, SweepWindows PROVE GateInvariant'
<1> USE DEF GateInvariant, SweepWindows
<1>1. TypeOK' /\ ClockBounded' /\ \A d \in Attempts : ReadingRecent(d)'
  BY DEF TypeOK, ClockBounded, ReadingRecent, Timestamp, MessageOf
<1>2. \A s \in Subjects : \A w \in Windows : WindowCounts(s, w)'
  BY DEF WindowCounts, StaleWindow
<1> QED BY <1>1, <1>2, NonceFrame DEF TypeOK

\* Time passes, and no waiting delivery becomes late by it.
LEMMA TickStep == ASSUME GateInvariant, Tick PROVE GateInvariant'
<1> USE DEF GateInvariant, Tick
<1>1. TypeOK' /\ ClockBounded' /\ now <= now'
  BY DEF TypeOK, ClockBounded
<1>2. ASSUME NEW d \in Attempts PROVE ReadingRecent(d)'
  BY DEF ReadingRecent, Timestamp, MessageOf, TypeOK
<1> QED BY <1>1, <1>2, NonceFrame, WindowFrame DEF TypeOK

\* A review leads from a row to a row.
LEMMA TransitionType == \A action \in ReviewActions : TransitionTo(action) \in AgentRows
  BY DEF ReviewActions, TransitionTo, AgentRows, Statuses, Whitelists

\* Reviews and the other sweeps touch neither nonces nor windows.
LEMMA OtherStep ==
  ASSUME GateInvariant,
         \/ SweepSessions \/ UNCHANGED vars
         \/ \E a \in Agents : \E action \in Reviews : Review(a, action)
  PROVE  GateInvariant'
<1> USE DEF GateInvariant
<1>0. UNCHANGED <<now, challenge, counter, pc, clock, read, accepted, passed>>
  BY DEF SweepSessions, Review, vars
<1>1. agent' \in [Agents -> AgentRows] /\ sweep' \in {"idle", "sessions", "windows"}
  <2>1. CASE SweepSessions \/ UNCHANGED vars
    BY <2>1 DEF SweepSessions, vars, TypeOK
  <2>2. ASSUME NEW a \in Agents, NEW action \in Reviews, Review(a, action)
        PROVE  agent' \in [Agents -> AgentRows] /\ UNCHANGED sweep
    <3>1. TransitionTo(action) \in AgentRows
      BY TransitionType
    <3> QED BY <2>2, <3>1 DEF Review, TypeOK
  <2> QED BY <2>1, <2>2 DEF TypeOK
<1>2. TypeOK' /\ ClockBounded' /\ \A d \in Attempts : ReadingRecent(d)'
  BY <1>0, <1>1 DEF TypeOK, ClockBounded, ReadingRecent, Timestamp, MessageOf
<1> QED BY <1>0, <1>2, NonceFrame, WindowFrame DEF TypeOK

\* Nothing is accepted or counted.
LEMMA InitInvariant == Init => GateInvariant
<1> SUFFICES ASSUME Init PROVE GateInvariant
  OBVIOUS
<1>1. TypeOK
  BY DEF Init, TypeOK, AgentRows, Statuses, Whitelists
<1>2. ClockBounded /\ \A d \in Attempts : ReadingRecent(d)
  BY DEF Init, ClockBounded, ReadingRecent, Waiting
<1>3. \A m \in Messages : NonceRemembered(m)
  BY DEF Init, NonceRemembered
<1>4. \A s \in Subjects : \A w \in Windows : WindowCounts(s, w)
  BY DEF Init, WindowCounts
<1> QED BY <1>1, <1>2, <1>3, <1>4 DEF GateInvariant

\* Readings, nonces and windows agree in every reachable state.
LEMMA Invariance == Spec => []GateInvariant
<1>1. GateInvariant /\ [Next]_vars => GateInvariant'
  BY DeliveryInvariant, SweepNoncesStep, SweepWindowsStep, TickStep, OtherStep DEF Next
<1> QED BY InitInvariant, <1>1, PTL DEF Spec

-----------------------------------------------------------------------------
(* The theorems *)

\* Every reachable state is well typed; in particular a clock that is behind
\* never yields a window the counters do not have.
THEOREM TypeCorrect == Spec => []TypeOK
<1>1. GateInvariant => TypeOK
  BY DEF GateInvariant
<1> QED BY <1>1, Invariance, PTL

\* Authenticate accepts a signed request at most once, whatever is delivered
\* again, whenever Cleanup sweeps, as long as drift and delay stay within a day.
THEOREM AuthenticatedOnce == Spec => []AcceptedOnce
<1>1. GateInvariant => AcceptedOnce
  BY DEF GateInvariant, AcceptedOnce, NonceRemembered
<1> QED BY <1>1, Invariance, PTL

\* Rate never lets more requests of a subject through a window than its limit,
\* as long as drift and delay stay within the windows Cleanup keeps.
THEOREM RatesHold == Spec => []RateBounded
<1>1. GateInvariant => RateBounded
  BY DEF GateInvariant, RateBounded, WindowCounts
<1> QED BY <1>1, Invariance, PTL
=============================================================================
