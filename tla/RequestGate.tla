---------------------------- MODULE RequestGate ----------------------------
(***************************************************************************)
(* What a request of an agent passes before its endpoint runs: the rate    *)
(* limit of its source address (Server.middleware), Authenticate, and the  *)
(* rate limit of its agent (Server.endpoint), while the minute ticker of   *)
(* cmd/gateway sweeps expired nonces and rate windows.                     *)
(*                                                                         *)
(* Two clocks are involved.  The code compares timestamps and computes     *)
(* windows with time.Now() of its process, and the sweep uses now() of the *)
(* database, which is the clock of the model.  A process reads a clock     *)
(* that is off by one of Offsets, and the statement it uses the reading in *)
(* takes effect up to MaxDelay later.                                      *)
(***************************************************************************)
EXTENDS AgentStatus, Integers

CONSTANTS
  Agents,      \* the registered agents
  Sources,     \* source addresses
  Messages,    \* signed requests
  Nonces,      \* the nonces they carry
  Signed,      \* agent, nonce and timestamp of each message
  Attempts,    \* deliveries of messages: a message may arrive again
  Delivery,    \* the message and the source of each delivery
  Reviews,     \* review actions an administrator may take
  Skew,        \* AGENT_SIGNATURE_MAX_CLOCK_SKEW
  Retention,   \* how long a nonce is kept after it expires: one day
  Window,      \* length of a rate window: one minute
  Kept,        \* how many past windows the sweep keeps: two
  Limit,       \* requests a rate window admits, for each subject
  Offsets,     \* by how much a process's clock may be off
  MaxDrift,    \* bound: the largest of them, in absolute value
  MaxDelay,    \* bound: longest time between reading a clock and its use
  MaxNow,      \* bound: the last moment
  Faults,      \* whether a database call may fail
  NoRow        \* the expiry of a nonce that is not stored

Subjects == Agents \cup Sources

ASSUME MessageAssumption ==
  /\ Signed \in [Messages -> [agent : Agents, nonce : Nonces, ts : Int]]
  /\ Delivery \in [Attempts -> [message : Messages, source : Sources]]

ASSUME ClockAssumption ==
  /\ Skew \in Nat /\ Retention \in Nat /\ Window \in Nat \ {0} /\ Kept \in Nat
  /\ MaxDrift \in Nat /\ MaxDelay \in Nat /\ MaxNow \in Nat
  /\ Offsets \subseteq -MaxDrift..MaxDrift
  /\ NoRow \notin Int
  /\ Limit \in [Subjects -> Nat]
  /\ Reviews \subseteq ReviewActions
  /\ Faults \in BOOLEAN

\* What the deployment has to provide: clocks that agree and requests that end
\* within what the sweep leaves in place.
ASSUME DriftAssumption ==
  /\ MaxDrift + MaxDelay <= Retention
  /\ MaxDrift + MaxDelay <= Kept * Window

VARIABLES
  now,        \* the database clock
  agent,      \* agents and agent_whitelist
  challenge,  \* agent_challenges: when each stored nonce expires
  counter,    \* rate_limit_windows: requests of each subject, by window
  pc,         \* where each delivery stands
  clock,      \* the reading of time.Now() that it works with
  read,       \* when it was taken
  accepted,   \* how often each message was authenticated
  passed,     \* requests each window let through, by subject
  sweep       \* where the minute ticker stands

vars == <<now, agent, challenge, counter, pc, clock, read, accepted, passed, sweep>>

Windows == 0..((MaxNow + 2 * MaxDrift) \div Window)

Waiting == {"ip", "insert", "agent"}

TypeOK ==
  /\ now \in Nat
  /\ agent \in [Agents -> AgentRows]
  /\ challenge \in [Nonces -> Int \cup {NoRow}]
  /\ counter \in [Subjects -> [Windows -> Nat]]
  /\ pc \in [Attempts -> {"idle", "verify", "authenticated", "admitted", "refused"}
                           \cup Waiting]
  /\ clock \in [Attempts -> Nat]
  /\ read \in [Attempts -> Nat]
  /\ accepted \in [Messages -> Nat]
  /\ passed \in [Subjects -> [Windows -> Nat]]
  /\ sweep \in {"idle", "sessions", "windows"}

Init ==
  /\ now = MaxDrift
  /\ agent = [a \in Agents |-> [status |-> "ACTIVE", whitelist |-> "APPROVED"]]
  /\ challenge = [n \in Nonces |-> NoRow]
  /\ counter = [s \in Subjects |-> [w \in Windows |-> 0]]
  /\ pc = [d \in Attempts |-> "idle"]
  /\ clock = [d \in Attempts |-> 0]
  /\ read = [d \in Attempts |-> 0]
  /\ accepted = [m \in Messages |-> 0]
  /\ passed = [s \in Subjects |-> [w \in Windows |-> 0]]
  /\ sweep = "idle"

-----------------------------------------------------------------------------
MessageOf(d) == Signed[Delivery[d].message]

Expiry(m) == m.ts + Skew

Goto(d, step) == pc' = [pc EXCEPT ![d] = step]

\* Mutant: the window is computed from the previous second.
ReadClockEarly(d, reading) ==
  /\ clock' = [clock EXCEPT ![d] = reading - 1]
  /\ read' = [read EXCEPT ![d] = now]

\* time.Now() in the process that handles the delivery.
ReadClock(d, reading) ==
  /\ clock' = [clock EXCEPT ![d] = reading]
  /\ read' = [read EXCEPT ![d] = now]

\* The reading has been used.
Forget(d) ==
  /\ clock' = [clock EXCEPT ![d] = 0]
  /\ read' = [read EXCEPT ![d] = 0]

\* Mutant: the count saturates at the limit, so that it is never above it.
CountSaturated(s, w) == IF counter[s][w] < Limit[s] THEN counter[s][w] + 1 ELSE Limit[s]

\* LEAST(requests+1, limit+1): the count the upsert returns.
Count(s, w) == IF counter[s][w] <= Limit[s] THEN counter[s][w] + 1 ELSE Limit[s] + 1

\* Rate for one subject, in the window of the clock reading.
Rate(d, s, next) ==
  LET w == clock[d] \div Window
      within == Count(s, w) <= Limit[s]
  IN  /\ counter' = [counter EXCEPT ![s][w] = Count(s, w)]
      /\ passed' = [passed EXCEPT ![s][w] = IF within THEN @ + 1 ELSE @]
      /\ Goto(d, IF within THEN next ELSE "refused")
      /\ Forget(d)
      /\ UNCHANGED <<now, agent, challenge, accepted, sweep>>

-----------------------------------------------------------------------------
(* Middleware and endpoint *)

\* The request arrives; the window of its source is computed.
Arrive(d) ==
  /\ pc[d] = "idle"
  /\ \E o \in Offsets : ReadClock(d, now + o)
  /\ Goto(d, "ip")
  /\ UNCHANGED <<now, agent, challenge, counter, accepted, passed, sweep>>

RateSource(d) == pc[d] = "ip" /\ Rate(d, Delivery[d].source, "verify")

\* secure.Timestamp
Timestamp(ts, reading) == reading - Skew <= ts /\ ts <= reading + Skew

\* The checks of Authenticate before its transaction.
Verify(d) ==
  /\ pc[d] = "verify"
  /\ \E o \in Offsets :
       IF Timestamp(MessageOf(d).ts, now + o)
         THEN ReadClock(d, now + o) /\ Goto(d, "insert")
         ELSE Forget(d) /\ Goto(d, "refused")
  /\ UNCHANGED <<now, agent, challenge, counter, accepted, passed, sweep>>

\* INSERT ... ON CONFLICT(nonce) DO NOTHING affects one row.
Fresh(n) == challenge[n] = NoRow

Remember(m) == challenge' = [challenge EXCEPT ![m.nonce] = Expiry(m)]

\* The transaction of Authenticate: LockActive, the nonce, last_seen_at.
Authenticate(d) ==
  LET m == MessageOf(d)
  IN  /\ pc[d] = "insert"
      /\ IF Usable(agent[m.agent]) /\ Fresh(m.nonce)
           THEN /\ Remember(m)
                /\ accepted' = [accepted EXCEPT ![Delivery[d].message] = @ + 1]
                /\ Goto(d, "authenticated")
           ELSE Goto(d, "refused") /\ UNCHANGED <<challenge, accepted>>
      /\ Forget(d)
      /\ UNCHANGED <<now, agent, counter, passed, sweep>>

\* It commits, but Authenticate sees an error and refuses the request.
AuthenticateUnknown(d) ==
  LET m == MessageOf(d)
  IN  /\ pc[d] = "insert" /\ Faults
      /\ Usable(agent[m.agent]) /\ Fresh(m.nonce)
      /\ Remember(m)
      /\ Goto(d, "refused") /\ Forget(d)
      /\ UNCHANGED <<now, agent, counter, accepted, passed, sweep>>

\* The window of the agent is computed.
ToAgentRate(d) ==
  /\ pc[d] = "authenticated"
  /\ \E o \in Offsets : ReadClock(d, now + o)
  /\ Goto(d, "agent")
  /\ UNCHANGED <<now, agent, challenge, counter, accepted, passed, sweep>>

RateAgent(d) == pc[d] = "agent" /\ Rate(d, MessageOf(d).agent, "admitted")

\* A statement fails or the deadline of the request passes.
Expire(d) ==
  /\ pc[d] \in Waiting
  /\ Faults \/ now >= read[d] + MaxDelay
  /\ Goto(d, "refused") /\ Forget(d)
  /\ UNCHANGED <<now, agent, challenge, counter, accepted, passed, sweep>>

-----------------------------------------------------------------------------
(* The sweep, the administrator and the clock *)

\* Mutant: nonces are dropped as soon as they have expired.
StaleAtExpiry(e) == e < now

\* expires_at < now() - interval '1 day'
Stale(e) == e < now - Retention

\* Cleanup's statements commit one by one, and a failure skips the rest.
SweepNonces ==
  /\ sweep = "idle"
  /\ challenge' = [n \in Nonces |->
       IF challenge[n] # NoRow /\ Stale(challenge[n]) THEN NoRow ELSE challenge[n]]
  /\ sweep' = "sessions"
  /\ UNCHANGED <<now, agent, counter, pc, clock, read, accepted, passed>>

\* The sessions of administrators are not part of this module.
SweepSessions ==
  /\ sweep = "sessions"
  /\ sweep' = "windows" \/ (Faults /\ sweep' = "idle")
  /\ UNCHANGED <<now, agent, challenge, counter, pc, clock, read, accepted, passed>>

\* window_start < now()/60 - 2
StaleWindow(w) == w < now \div Window - Kept

SweepWindows ==
  /\ sweep = "windows"
  /\ counter' = [s \in Subjects |-> [w \in Windows |->
       IF StaleWindow(w) THEN 0 ELSE counter[s][w]]]
  /\ sweep' = "idle"
  /\ UNCHANGED <<now, agent, challenge, pc, clock, read, accepted, passed>>

Review(a, action) ==
  /\ TransitionAllowed(agent[a], action)
  /\ agent' = [agent EXCEPT ![a] = TransitionTo(action)]
  /\ UNCHANGED <<now, challenge, counter, pc, clock, read, accepted, passed, sweep>>

\* Time passes; no statement waits longer than MaxDelay.
Tick ==
  /\ now < MaxNow + MaxDrift
  /\ \A d \in Attempts : pc[d] \in Waiting => now < read[d] + MaxDelay
  /\ now' = now + 1
  /\ UNCHANGED <<agent, challenge, counter, pc, clock, read, accepted, passed, sweep>>

DeliveryStep(d) ==
  \/ Arrive(d) \/ RateSource(d) \/ Verify(d) \/ Authenticate(d)
  \/ AuthenticateUnknown(d) \/ ToAgentRate(d) \/ RateAgent(d) \/ Expire(d)

Next ==
  \/ \E d \in Attempts : DeliveryStep(d)
  \/ SweepNonces \/ SweepSessions \/ SweepWindows
  \/ \E a \in Agents : \E action \in Reviews : Review(a, action)
  \/ Tick

Spec == Init /\ [][Next]_vars

-----------------------------------------------------------------------------
(* Safety *)

\* A signed request is authenticated at most once, however often and whenever
\* it is delivered, although the sweep forgets nonces and the two clocks differ.
AcceptedOnce == \A m \in Messages : accepted[m] <= 1

\* A rate window never lets more requests of a subject through than its limit,
\* although the sweep deletes windows while processes compute them with clocks
\* that are behind.
RateBounded == \A s \in Subjects : \A w \in Windows : passed[s][w] <= Limit[s]
=============================================================================
