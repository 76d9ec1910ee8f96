---------------------------- MODULE Registration ----------------------------
(***************************************************************************)
(* Registration of agents (Challenge and Register of                       *)
(* internal/identity/service.go): a challenge is stored, the signed answer *)
(* claims its idempotency key in a statement of its own, and one           *)
(* transaction then consumes the challenge, creates the agent and          *)
(* completes the key, while administrators review agents and the minute    *)
(* ticker deletes old challenges.                                          *)
(*                                                                         *)
(* The statements of the transaction are steps of their own, because it    *)
(* waits for locks between them: it holds the challenge row from its first *)
(* statement on and the agent's primary key from its second.  Its writes   *)
(* become visible when it commits.                                         *)
(***************************************************************************)
EXTENDS AgentStatus, IdempotencyRecords, Integers, FiniteSets

CONSTANTS
  Addresses,   \* wallet addresses
  Nonces,      \* challenge nonces, each issued at most once: secure.Random
  Keys,        \* idempotency keys
  Requests,    \* calls of Register
  Input,       \* what each of them carries
  Reviews,     \* review actions an administrator may take
  TTL,         \* AGENT_NONCE_TTL
  Skew,        \* AGENT_SIGNATURE_MAX_CLOCK_SKEW
  Retention,   \* how long a challenge is kept after it expires: one day
  Offsets,     \* by how much a process's clock may be off
  MaxNow,      \* bound: the last moment
  MaxCrashes,  \* bound: crashes of the gateway process
  Faults,      \* whether a database call may fail or a client leave
  NoRow        \* an agent, a challenge or a request that does not exist

\* signed says whether the signature is the address's own.
ASSUME InputAssumption ==
  Input \in [Requests -> [address : Addresses, nonce : Nonces, ts : Int,
                          signed : BOOLEAN, key : Keys]]

ASSUME BoundAssumption ==
  /\ Reviews \subseteq ReviewActions
  /\ TTL \in Nat /\ Skew \in Nat /\ Retention \in Nat
  /\ Offsets \subseteq Int /\ MaxNow \in Nat /\ MaxCrashes \in Nat
  /\ Faults \in BOOLEAN
  /\ NoRow \notin Requests \cup AgentRows

VARIABLES
  now,        \* the database clock
  agent,      \* agents, agent_whitelist and agent_budget_policies
  challenge,  \* agent_challenges with purpose REGISTER
  issued,     \* the nonces handed out so far
  record,     \* idempotency_records of the operation "register"
  pc,         \* where each request stands
  reply,      \* what each request was answered
  crashes     \* crashes so far

vars == <<now, agent, challenge, issued, record, pc, reply, crashes>>

Slots == Addresses \X Keys
Challenges == [owner : Addresses, expires : Int, used : BOOLEAN]
InTransaction == {"create", "complete"}
Running == {"read", "consume"} \cup InTransaction

TypeOK ==
  /\ now \in Nat
  /\ agent \in [Addresses -> AgentRows \cup {NoRow}]
  /\ challenge \in [Nonces -> Challenges \cup {NoRow}]
  /\ issued \subseteq Nonces
  /\ record \in [Slots -> [status : {"NONE", "PROCESSING", "COMPLETED"},
                           hash : Requests \cup {NoRow},
                           answer : Requests \cup {NoRow}]]
  /\ pc \in [Requests -> {"idle", "done", "dead"} \cup Running]
  /\ reply \in [Requests -> {"NONE", "REGISTERED", "REFUSED", "CONFLICT",
                             "IN_PROGRESS", "FAULT"}]
  /\ crashes \in Nat

Init ==
  /\ now = 0
  /\ agent = [a \in Addresses |-> NoRow]
  /\ challenge = [n \in Nonces |-> NoRow]
  /\ issued = {}
  /\ record = [s \in Slots |-> NoRecord(NoRow, NoRow)]
  /\ pc = [r \in Requests |-> "idle"]
  /\ reply = [r \in Requests |-> "NONE"]
  /\ crashes = 0

-----------------------------------------------------------------------------
SlotOf(r) == <<Input[r].address, Input[r].key>>

\* secure.Hash of the whole registration; two requests have the same hash when
\* they carry the same registration.  A hash is named by such a request.
HashOf(r) ==
  CHOOSE t \in Requests : [Input[t] EXCEPT !.key = Input[r].key] = Input[r]

Goto(r, step) == pc' = [pc EXCEPT ![r] = step] /\ UNCHANGED reply

\* The request returns; a transaction it has open is rolled back.
Return(r, code) ==
  /\ pc' = [pc EXCEPT ![r] = "done"]
  /\ reply' = [reply EXCEPT ![r] = code]

\* A transaction has the challenge row of the nonce locked.
NonceHeld(n) == \E r \in Requests : pc[r] \in InTransaction /\ Input[r].nonce = n

\* Mutant: the insertion does not run in the transaction that holds the locks.
AddressHeldByOwn(a) ==
  \E r \in Requests : pc[r] \in InTransaction /\ Input[r].address = a

\* A transaction has inserted the address and not ended.
AddressHeld(a) == \E r \in Requests : pc[r] = "complete" /\ Input[r].address = a

\* secure.Timestamp
Timestamp(ts, reading) == reading - Skew <= ts /\ ts <= reading + Skew

-----------------------------------------------------------------------------
(* Challenge and Register *)

\* Challenge stores a fresh nonce for an address.
Challenge(a, n) ==
  /\ n \notin issued
  /\ issued' = issued \cup {n}
  /\ \E o \in Offsets :
       challenge' = [challenge EXCEPT ![n] =
                       [owner |-> a, expires |-> now + o + TTL, used |-> FALSE]]
  /\ UNCHANGED <<now, agent, record, pc, reply, crashes>>

\* The timestamp and the signature pass at a reading of the clock.
Genuine(r) ==
  Input[r].signed /\ \E o \in Offsets : Timestamp(Input[r].ts, now + o)

\* They do not.
Reject(r) ==
  /\ pc[r] = "idle"
  /\ ~Input[r].signed \/ \E o \in Offsets : ~Timestamp(Input[r].ts, now + o)
  /\ Return(r, "REFUSED")
  /\ UNCHANGED <<now, agent, challenge, issued, record, crashes>>

\* The insertion of Claim, committed at once.
Claim(r) ==
  /\ pc[r] = "idle" /\ Genuine(r)
  /\ IF Claimable(record[SlotOf(r)])
       THEN /\ record' = [record EXCEPT ![SlotOf(r)] = ClaimedBy(HashOf(r), NoRow)]
            /\ Goto(r, "consume")
       ELSE Goto(r, "read") /\ UNCHANGED record
  /\ UNCHANGED <<now, agent, challenge, issued, crashes>>

\* The insertion took effect but Claim saw an error.
ClaimUnknown(r) ==
  /\ pc[r] = "idle" /\ Genuine(r) /\ Faults
  /\ Claimable(record[SlotOf(r)])
  /\ record' = [record EXCEPT ![SlotOf(r)] = ClaimedBy(HashOf(r), NoRow)]
  /\ Return(r, "FAULT")
  /\ UNCHANGED <<now, agent, challenge, issued, crashes>>

\* The second statement of Claim.
Read(r) ==
  LET verdict == Verdict(record[SlotOf(r)], HashOf(r))
  IN  /\ pc[r] = "read"
      /\ Return(r, IF verdict = "REPLAY" THEN "REGISTERED" ELSE verdict)
      /\ UNCHANGED <<now, agent, challenge, issued, record, crashes>>

\* Mutant: consumeChallenge does not compare the challenge's owner.
ConsumableByAnyone(r, reading) ==
  LET c == challenge[Input[r].nonce]
  IN  c # NoRow /\ ~c.used /\ reading < c.expires

\* consumeChallenge: the challenge exists, belongs to the address, is unused
\* and has not expired.
Consumable(r, reading) ==
  LET c == challenge[Input[r].nonce]
  IN  /\ c # NoRow
      /\ c.owner = Input[r].address
      /\ ~c.used
      /\ reading < c.expires

\* SELECT ... FOR UPDATE waits for the row, and its checks follow.
Consume(r) ==
  /\ pc[r] = "consume"
  /\ ~NonceHeld(Input[r].nonce)
  /\ \E o \in Offsets : IF Consumable(r, now + o) THEN Goto(r, "create")
                                                  ELSE Return(r, "REFUSED")
  /\ UNCHANGED <<now, agent, challenge, issued, record, crashes>>

\* Mutant: the insertion overwrites the row of a registered agent.
InsertableAlways(a) == TRUE

\* INSERT INTO agents does not meet the primary key.
Insertable(a) == agent[a] = NoRow

\* The insertion waits for one that is not committed, and then succeeds or
\* answers AGENT_ALREADY_REGISTERED.
Create(r) ==
  /\ pc[r] = "create"
  /\ ~AddressHeld(Input[r].address)
  /\ IF Insertable(Input[r].address) THEN Goto(r, "complete") ELSE Return(r, "REFUSED")
  /\ UNCHANGED <<now, agent, challenge, issued, record, crashes>>

\* Mutant: the key is not completed in the transaction.
CommittedUncompleted(r) ==
  /\ challenge' = [challenge EXCEPT ![Input[r].nonce].used = TRUE]
  /\ agent' = [agent EXCEPT ![Input[r].address] =
                 [status |-> "REGISTERED", whitelist |-> "PENDING"]]
  /\ UNCHANGED record

\* What the transaction makes visible when it commits.
Committed(r) ==
  /\ challenge' = [challenge EXCEPT ![Input[r].nonce].used = TRUE]
  /\ agent' = [agent EXCEPT ![Input[r].address] =
                 [status |-> "REGISTERED", whitelist |-> "PENDING"]]
  /\ record' = [record EXCEPT ![SlotOf(r)] = Completed(@, r)]

\* Complete, in the transaction, and Commit.  The claim is exclusive, so the key
\* is still PROCESSING: NoWaitingCircle says so where others wait for it.
Complete(r) ==
  /\ pc[r] = "complete"
  /\ Completable(record[SlotOf(r)])
  /\ Committed(r)
  /\ Return(r, "REGISTERED")
  /\ UNCHANGED <<now, issued, crashes>>

\* The commit took effect but Register saw an error.
CommitUnknown(r) ==
  /\ pc[r] = "complete" /\ Faults
  /\ Completable(record[SlotOf(r)])
  /\ Committed(r)
  /\ Return(r, "FAULT")
  /\ UNCHANGED <<now, issued, crashes>>

\* A statement fails: the transaction is rolled back, the claim stays.
Fail(r) ==
  /\ pc[r] \in {"idle"} \cup Running /\ Faults
  /\ Return(r, "FAULT")
  /\ UNCHANGED <<now, agent, challenge, issued, record, crashes>>

-----------------------------------------------------------------------------
(* Reviews, the sweep, the clock and crashes *)

\* Review locks the agent row; an agent that is not committed is not found.
Review(a, action) ==
  /\ agent[a] # NoRow
  /\ TransitionAllowed(agent[a], action)
  /\ agent' = [agent EXCEPT ![a] = TransitionTo(action)]
  /\ UNCHANGED <<now, challenge, issued, record, pc, reply, crashes>>

\* expires_at < now() - interval '1 day'
Stale(n) == challenge[n] # NoRow /\ challenge[n].expires < now - Retention

\* The DELETE of Cleanup waits for rows that a registration holds.
Sweep ==
  /\ \A n \in Nonces : Stale(n) => ~NonceHeld(n)
  /\ challenge' = [n \in Nonces |-> IF Stale(n) THEN NoRow ELSE challenge[n]]
  /\ UNCHANGED <<now, agent, issued, record, pc, reply, crashes>>

Tick ==
  /\ now < MaxNow
  /\ now' = now + 1
  /\ UNCHANGED <<agent, challenge, issued, record, pc, reply, crashes>>

\* The process dies; open transactions are rolled back.
Crash ==
  /\ crashes < MaxCrashes
  /\ crashes' = crashes + 1
  /\ pc' = [r \in Requests |-> IF pc[r] \in Running THEN "dead" ELSE pc[r]]
  /\ UNCHANGED <<now, agent, challenge, issued, record, reply>>

RequestStep(r) ==
  \/ Reject(r) \/ Claim(r) \/ Read(r) \/ Consume(r) \/ Create(r) \/ Complete(r)

FaultStep(r) == ClaimUnknown(r) \/ CommitUnknown(r) \/ Fail(r)

Next ==
  \/ \E a \in Addresses : \E n \in Nonces : Challenge(a, n)
  \/ \E r \in Requests : RequestStep(r) \/ FaultStep(r)
  \/ \E a \in Addresses : \E action \in Reviews : Review(a, action)
  \/ Sweep \/ Tick \/ Crash

Spec == Init /\ [][Next]_vars

-----------------------------------------------------------------------------
(* Safety *)

CompletedSlots(a) == {s \in Slots : s[1] = a /\ record[s].status = "COMPLETED"}

SpentNonces(a) ==
  {n \in Nonces : challenge[n] # NoRow /\ challenge[n].owner = a /\ challenge[n].used}

\* README.md:114: consuming the nonce, creating the agent and storing the
\* idempotent answer commit together.  However registrations of one address
\* with several nonces and keys interleave, fail and crash, a registered
\* address has exactly one completed key and at most one spent nonce, and an
\* unregistered one has none.
RegistrationAtomic ==
  \A a \in Addresses :
    LET n == IF agent[a] = NoRow THEN 0 ELSE 1
    IN  Cardinality(CompletedSlots(a)) = n /\ Cardinality(SpentNonces(a)) <= n

\* A request answered with a registered agent was signed by that agent over a
\* challenge issued to that agent, and the registration its key stands for is
\* the one it carries.
RegistrationsGenuine ==
  \A r \in Requests : reply[r] = "REGISTERED" =>
    /\ agent[Input[r].address] # NoRow
    /\ Input[r].signed
    /\ \/ challenge[Input[r].nonce] = NoRow
       \/ challenge[Input[r].nonce].owner = Input[r].address
    /\ record[SlotOf(r)].status = "COMPLETED"
    /\ Input[record[SlotOf(r)].answer].nonce = Input[r].nonce

\* A request waits for the challenge row or the primary key that t has locked.
Blocks(t, r) ==
  \/ /\ pc[r] = "consume" /\ pc[t] \in InTransaction
     /\ Input[t].nonce = Input[r].nonce
  \/ /\ pc[r] = "create" /\ pc[t] = "complete"
     /\ Input[t].address = Input[r].address

\* The next statement of a transaction waits for nobody and takes effect.
CanGoOn(t) ==
  \/ pc[t] = "create" /\ ~AddressHeld(Input[t].address)
  \/ pc[t] = "complete" /\ Completable(record[SlotOf(t)])

\* Registrations hold a challenge row while they wait for the primary key of
\* their address, and others wait for that row.  They never wait for each other
\* in a circle, because consumeChallenge and create take their locks in one
\* order, nor for a transaction whose key somebody else has completed: whoever
\* blocks another is able to go on, or waits for one that is.
NoWaitingCircle ==
  \A r, t \in Requests : Blocks(t, r) =>
    CanGoOn(t) \/ \E u \in Requests : Blocks(u, t) /\ CanGoOn(u)

\* A revocation is final: no challenge, no retry and no replay of an old
\* registration brings a revoked agent back.
RevokedStaysRevoked ==
  [][\A a \in Addresses :
       agent[a] # NoRow /\ agent[a] = TransitionTo("revoke")
       => agent'[a] = agent[a]]_vars
=============================================================================
