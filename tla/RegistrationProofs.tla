------------------------- MODULE RegistrationProofs -------------------------
(***************************************************************************)
(* That registrations are atomic, genuine and final, and never wait for    *)
(* each other in a circle, for any number of addresses, challenges, keys,  *)
(* requests and crashes.                                                   *)
(*                                                                         *)
(* Three exclusions carry everything: a key is claimed by one request, a   *)
(* challenge row is locked by one transaction, and the primary key of an   *)
(* address is inserted by one transaction.  Each request that is past one  *)
(* of them may rely on what it found there until it commits.               *)
(***************************************************************************)
EXTENDS Registration, FiniteSetTheorems, TLAPS

\* The steps at which a request holds its key.
Claimed == {"consume"} \cup InTransaction

\* The request that claimed a key is alone with it, and it was signed.
ClaimAlone(r) ==
  /\ pc[r] \in Running => Input[r].signed
  /\ pc[r] \in Claimed =>
       /\ record[SlotOf(r)].status = "PROCESSING"
       /\ record[SlotOf(r)].hash = HashOf(r)
       /\ \A t \in Requests : pc[t] \in Claimed /\ SlotOf(t) = SlotOf(r) => t = r

\* The transaction that locked a challenge row is alone with it, and the
\* challenge is as consumeChallenge found it.
NonceAlone(r) ==
  pc[r] \in InTransaction =>
    /\ challenge[Input[r].nonce] # NoRow
    /\ challenge[Input[r].nonce].owner = Input[r].address
    /\ ~challenge[Input[r].nonce].used
    /\ \A t \in Requests :
         pc[t] \in InTransaction /\ Input[t].nonce = Input[r].nonce => t = r

\* The transaction that inserted an address is alone with it.
AddressAlone(r) ==
  pc[r] = "complete" =>
    /\ agent[Input[r].address] = NoRow
    /\ \A t \in Requests :
         pc[t] = "complete" /\ Input[t].address = Input[r].address => t = r

\* A challenge that was issued to the address, if it is still stored.
OwnedBy(n, a) == n \in issued /\ (challenge[n] = NoRow \/ challenge[n].owner = a)

\* The registration a completed key stands for.
AnswerGenuine(s) ==
  record[s].status = "COMPLETED" =>
    /\ record[s].answer \in Requests
    /\ record[s].hash = HashOf(record[s].answer)
    /\ OwnedBy(Input[record[s].answer].nonce, s[1])
    /\ agent[s[1]] # NoRow

\* What an address has to show for its registration.
RegisteredOnce(a) ==
  /\ agent[a] = NoRow => CompletedSlots(a) = {} /\ SpentNonces(a) = {}
  /\ agent[a] # NoRow => /\ \E s \in Slots : CompletedSlots(a) = {s}
                         /\ \A m, n \in SpentNonces(a) : m = n

\* A request answered with an agent has a completed key that carries its hash.
ReplyGenuine(r) ==
  reply[r] = "REGISTERED" =>
    /\ Input[r].signed
    /\ record[SlotOf(r)].status = "COMPLETED"
    /\ record[SlotOf(r)].hash = HashOf(r)

\* The inductive invariant.
RegInvariant ==
  /\ TypeOK
  /\ \A n \in Nonces : challenge[n] # NoRow => n \in issued
  /\ \A r \in Requests : ClaimAlone(r) /\ NonceAlone(r) /\ AddressAlone(r) /\ ReplyGenuine(r)
  /\ \A s \in Slots : AnswerGenuine(s)
  /\ \A a \in Addresses : RegisteredOnce(a)

USE InputAssumption, BoundAssumption

-----------------------------------------------------------------------------
(* Inputs, hashes and records *)

\* What InputAssumption says of one request.
LEMMA InputType ==
  ASSUME NEW r \in Requests
  PROVE  /\ Input[r].address \in Addresses /\ Input[r].nonce \in Nonces
         /\ Input[r].key \in Keys /\ SlotOf(r) \in Slots
         /\ SlotOf(r)[1] = Input[r].address
  BY DEF SlotOf, Slots

\* Requests with one hash carry one registration.
LEMMA HashSound ==
  ASSUME NEW r \in Requests
  PROVE  HashOf(r) \in Requests /\ Input[HashOf(r)].nonce = Input[r].nonce
<1> DEFINE P(t) == [Input[t] EXCEPT !.key = Input[r].key] = Input[r]
<1>1. \E t \in Requests : P(t)
  <2>1. P(r)
    OBVIOUS
  <2> QED BY <2>1
<1>2. HashOf(r) \in Requests /\ P(HashOf(r))
  BY <1>1 DEF HashOf
<1>3. Input[HashOf(r)] \in [address : Addresses, nonce : Nonces, ts : Int,
                            signed : BOOLEAN, key : Keys]
  BY <1>2
<1>4. [Input[HashOf(r)] EXCEPT !.key = Input[r].key].nonce = Input[HashOf(r)].nonce
  BY <1>3
<1> QED BY <1>2, <1>4

\* The rows of idempotency_records.
Records == [status : {"NONE", "PROCESSING", "COMPLETED"},
            hash : Requests \cup {NoRow}, answer : Requests \cup {NoRow}]

\* Claim and Complete write records, and Complete keeps the hash.
LEMMA RecordType ==
  ASSUME NEW r \in Requests, NEW rec \in Records
  PROVE  /\ ClaimedBy(HashOf(r), NoRow) \in Records
         /\ ClaimedBy(HashOf(r), NoRow).status = "PROCESSING"
         /\ ClaimedBy(HashOf(r), NoRow).hash = HashOf(r)
         /\ Completed(rec, r) \in Records
         /\ Completed(rec, r).status = "COMPLETED"
         /\ Completed(rec, r).hash = rec.hash
         /\ Completed(rec, r).answer = r
  BY HashSound DEF ClaimedBy, Completed, Records

\* A review leads from a row to a row.
LEMMA TransitionType ==
  \A action \in ReviewActions : TransitionTo(action) \in AgentRows /\ TransitionTo(action) # NoRow
<1>1. \A action \in ReviewActions : TransitionTo(action) \in AgentRows
  BY DEF ReviewActions, TransitionTo, AgentRows, Statuses, Whitelists
<1> QED BY <1>1

\* Nothing is issued, claimed or registered.
LEMMA InitInvariant == Init => RegInvariant
<1> SUFFICES ASSUME Init PROVE RegInvariant
  OBVIOUS
<1>1. TypeOK
  BY DEF Init, TypeOK, NoRecord
<1>2. \A s \in Slots : record[s].status = "NONE"
  BY DEF Init, NoRecord
<1>3. \A r \in Requests : ClaimAlone(r) /\ NonceAlone(r) /\ AddressAlone(r) /\ ReplyGenuine(r)
  BY DEF Init, ClaimAlone, NonceAlone, AddressAlone, ReplyGenuine, Running, Claimed, InTransaction
<1>4. \A s \in Slots : AnswerGenuine(s)
  BY <1>2 DEF AnswerGenuine
<1>5. \A a \in Addresses : RegisteredOnce(a)
  BY <1>2 DEF Init, RegisteredOnce, CompletedSlots, SpentNonces
<1> QED BY <1>1, <1>3, <1>4, <1>5 DEF RegInvariant, Init

-----------------------------------------------------------------------------
(* Steps that leave the rows alone *)

\* One request moves to another step, and the rows are as they were.
Moves(r, step) ==
  /\ pc' = [pc EXCEPT ![r] = step]
  /\ reply' = [reply EXCEPT ![r] = reply'[r]]
  /\ reply'[r] \in {"NONE", "REGISTERED", "REFUSED", "CONFLICT", "IN_PROGRESS", "FAULT"}

\* Going on to a step moves one request.
LEMMA GotoMoves ==
  ASSUME TypeOK, NEW r \in Requests, NEW step, Goto(r, step)
  PROVE  Moves(r, step) /\ reply'[r] = reply[r]
  BY DEF TypeOK, Goto, Moves

\* Returning moves one request to its end.
LEMMA ReturnMoves ==
  ASSUME TypeOK, NEW r \in Requests,
         NEW code \in {"REGISTERED", "REFUSED", "CONFLICT", "IN_PROGRESS", "FAULT"},
         Return(r, code)
  PROVE  Moves(r, "done") /\ reply'[r] = code
  BY DEF TypeOK, Return, Moves

\* The parts about rows stay when the rows stay.
LEMMA RowsFrame ==
  ASSUME RegInvariant, UNCHANGED <<agent, challenge, issued, record>>
  PROVE  /\ \A n \in Nonces : challenge'[n] # NoRow => n \in issued'
         /\ \A s \in Slots : AnswerGenuine(s)'
         /\ \A a \in Addresses : RegisteredOnce(a)'
  BY DEF RegInvariant, AnswerGenuine, OwnedBy, RegisteredOnce, CompletedSlots, SpentNonces

\* A request returns, and its answer is what the row says if it is REGISTERED.
LEMMA ReturnStep ==
  ASSUME RegInvariant, NEW r \in Requests, Moves(r, "done"), ReplyGenuine(r)',
         UNCHANGED <<now, agent, challenge, issued, record, crashes>>
  PROVE  RegInvariant'
<1> USE DEF RegInvariant, Moves
<1>1. TypeOK'
  BY DEF TypeOK
<1>2. \A t \in Requests \ {r} : pc'[t] = pc[t] /\ reply'[t] = reply[t]
  BY DEF TypeOK
<1>3. pc'[r] = "done"
  BY DEF TypeOK
<1>4. ASSUME NEW t \in Requests
      PROVE  ClaimAlone(t)' /\ NonceAlone(t)' /\ AddressAlone(t)' /\ ReplyGenuine(t)'
  BY <1>2, <1>3 DEF ClaimAlone, NonceAlone, AddressAlone, ReplyGenuine,
                    Running, Claimed, InTransaction
<1> QED BY <1>1, <1>4, RowsFrame

\* Requests that are refused or fail.
LEMMA RefuseStep ==
  ASSUME RegInvariant, NEW r \in Requests, NEW code \in {"REFUSED", "CONFLICT", "IN_PROGRESS", "FAULT"},
         Return(r, code), UNCHANGED <<now, agent, challenge, issued, record, crashes>>
  PROVE  RegInvariant'
<1>1. Moves(r, "done") /\ reply'[r] = code
  BY ReturnMoves DEF RegInvariant
<1>2. ReplyGenuine(r)'
  BY <1>1 DEF ReplyGenuine
<1> QED BY <1>1, <1>2, ReturnStep

\* A replay answers with the registration of the same hash.
LEMMA ReadStep == ASSUME RegInvariant, NEW r \in Requests, Read(r) PROVE RegInvariant'
<1> DEFINE rec == record[SlotOf(r)]
           verdict == Verdict(rec, HashOf(r))
<1>0. TypeOK /\ Input[r].signed
  BY DEF RegInvariant, ClaimAlone, Read, Running
<1>1. CASE verdict = "REPLAY"
  <2>1. rec.status = "COMPLETED" /\ rec.hash = HashOf(r)
    BY <1>1 DEF Verdict
  <2>2. Moves(r, "done")
    BY <1>0, <1>1, ReturnMoves DEF Read
  <2>3. ReplyGenuine(r)'
    BY <1>0, <2>1 DEF ReplyGenuine, Read
  <2> QED BY <2>2, <2>3, ReturnStep DEF Read
<1>2. CASE verdict # "REPLAY"
  <2>1. verdict \in {"CONFLICT", "IN_PROGRESS"}
    BY <1>2 DEF Verdict
  <2>2. Return(r, verdict)
    BY <1>2 DEF Read
  <2> QED BY <2>1, <2>2, RefuseStep DEF Read
<1> QED BY <1>1, <1>2

-----------------------------------------------------------------------------
(* The claim *)

\* Nobody is past the claim of a key that has no row.
LEMMA ClaimedStep ==
  ASSUME RegInvariant, NEW r \in Requests, pc[r] = "idle", Input[r].signed,
         Claimable(record[SlotOf(r)]),
         record' = [record EXCEPT ![SlotOf(r)] = ClaimedBy(HashOf(r), NoRow)],
         NEW step \in {"consume", "done"}, Moves(r, step), reply'[r] # "REGISTERED",
         UNCHANGED <<now, agent, challenge, issued, crashes>>
  PROVE  RegInvariant'
<1> USE DEF RegInvariant, Moves
<1> DEFINE s == SlotOf(r)
<1>0. /\ s \in Slots /\ record[s].status = "NONE" /\ record[s] \in Records
      /\ record \in [Slots -> Records]
  BY InputType DEF TypeOK, Records, Claimable
<1>1. record' \in [Slots -> Records] /\ record'[s].status = "PROCESSING"
      /\ record'[s].hash = HashOf(r) /\ \A q \in Slots \ {s} : record'[q] = record[q]
  BY <1>0, RecordType
<1>2. TypeOK'
  <2>1. pc' \in [Requests -> {"idle", "done", "dead"} \cup Running]
    BY DEF TypeOK, Running
  <2> QED BY <1>1, <2>1 DEF TypeOK, Records
<1>3. \A t \in Requests \ {r} : pc'[t] = pc[t] /\ reply'[t] = reply[t]
  BY DEF TypeOK
<1>4. pc'[r] = step
  BY DEF TypeOK
<1>5. \A t \in Requests : SlotOf(t) = s => pc[t] \notin Claimed /\ reply[t] # "REGISTERED"
  BY <1>0 DEF ClaimAlone, ReplyGenuine
<1>6. ASSUME NEW t \in Requests PROVE ClaimAlone(t)'
  <2>1. CASE t = r
    BY <1>1, <1>3, <1>4, <1>5, <2>1 DEF ClaimAlone, Claimed, InTransaction
  <2>2. CASE t # r
    <3>1. pc'[t] = pc[t] /\ ClaimAlone(t)
      BY <1>3, <2>2
    <3>2. CASE SlotOf(t) = s
      BY <1>5, <3>1, <3>2 DEF ClaimAlone
    <3>3. CASE SlotOf(t) # s
      <4>1. record'[SlotOf(t)] = record[SlotOf(t)]
        BY <1>1, <3>3, InputType
      <4> QED BY <1>3, <3>1, <3>3, <4>1 DEF ClaimAlone
    <3> QED BY <3>2, <3>3
  <2> QED BY <2>1, <2>2
<1>7. ASSUME NEW t \in Requests PROVE NonceAlone(t)' /\ AddressAlone(t)'
  BY <1>3, <1>4 DEF NonceAlone, AddressAlone, InTransaction
<1>8. ASSUME NEW t \in Requests PROVE ReplyGenuine(t)'
  <2>1. CASE SlotOf(t) = s
    BY <1>3, <1>5, <2>1 DEF ReplyGenuine
  <2>2. CASE SlotOf(t) # s
    <3>1. record'[SlotOf(t)] = record[SlotOf(t)]
      BY <1>1, <2>2, InputType
    <3> QED BY <1>3, <2>2, <3>1 DEF ReplyGenuine
  <2> QED BY <2>1, <2>2
<1>9. ASSUME NEW q \in Slots PROVE AnswerGenuine(q)'
  BY <1>1 DEF AnswerGenuine, OwnedBy
<1>10. ASSUME NEW a \in Addresses PROVE RegisteredOnce(a)'
  <2>1. CompletedSlots(a)' = CompletedSlots(a) /\ SpentNonces(a)' = SpentNonces(a)
    BY <1>0, <1>1 DEF CompletedSlots, SpentNonces
  <2> QED BY <2>1 DEF RegisteredOnce
<1> QED BY <1>2, <1>6, <1>7, <1>8, <1>9, <1>10

\* A request that finds the key taken goes on to read the row.
LEMMA TakenStep ==
  ASSUME RegInvariant, NEW r \in Requests, pc[r] = "idle", Input[r].signed, Goto(r, "read"),
         UNCHANGED <<now, agent, challenge, issued, record, crashes>>
  PROVE  RegInvariant'
<1> USE DEF RegInvariant, Goto
<1>1. TypeOK'
  BY DEF TypeOK, Running
<1>2. \A t \in Requests \ {r} : pc'[t] = pc[t]
  BY DEF TypeOK
<1>3. pc'[r] = "read"
  BY DEF TypeOK
<1>4. ASSUME NEW t \in Requests
      PROVE  ClaimAlone(t)' /\ NonceAlone(t)' /\ AddressAlone(t)' /\ ReplyGenuine(t)'
  BY <1>2, <1>3 DEF ClaimAlone, NonceAlone, AddressAlone, ReplyGenuine,
                    Claimed, InTransaction
<1> QED BY <1>1, <1>4, RowsFrame

\* The claim of the key, with or without its answer.
LEMMA ClaimStep ==
  ASSUME RegInvariant, NEW r \in Requests, Claim(r) \/ ClaimUnknown(r)
  PROVE  RegInvariant'
<1>0. TypeOK /\ pc[r] = "idle" /\ Input[r].signed
  BY DEF RegInvariant, Claim, ClaimUnknown, Genuine
<1>1. reply[r] # "REGISTERED" \/ record[SlotOf(r)].status = "COMPLETED"
  BY DEF RegInvariant, ReplyGenuine
<1>2. CASE Claim(r) /\ Claimable(record[SlotOf(r)])
  BY <1>0, <1>1, <1>2, GotoMoves, ClaimedStep DEF Claim, Claimable
<1>3. CASE Claim(r) /\ ~Claimable(record[SlotOf(r)])
  BY <1>0, <1>3, TakenStep DEF Claim
<1>4. CASE ClaimUnknown(r)
  BY <1>0, <1>4, ReturnMoves, ClaimedStep DEF ClaimUnknown
<1> QED BY <1>2, <1>3, <1>4

-----------------------------------------------------------------------------
(* The transaction *)

\* The challenge row is free, and its owner has an unused challenge.
LEMMA LockNonceStep ==
  ASSUME RegInvariant, NEW r \in Requests, pc[r] = "consume", ~NonceHeld(Input[r].nonce),
         NEW reading, Consumable(r, reading), Goto(r, "create"),
         UNCHANGED <<now, agent, challenge, issued, record, crashes>>
  PROVE  RegInvariant'
<1> USE DEF RegInvariant, Goto
<1>1. TypeOK'
  BY DEF TypeOK, Running, InTransaction
<1>2. \A t \in Requests \ {r} : pc'[t] = pc[t]
  BY DEF TypeOK
<1>3. pc'[r] = "create"
  BY DEF TypeOK
<1>4. ASSUME NEW t \in Requests PROVE ClaimAlone(t)'
  BY <1>2, <1>3 DEF ClaimAlone, Running, Claimed, InTransaction
<1>5. ASSUME NEW t \in Requests PROVE NonceAlone(t)'
  BY <1>2, <1>3 DEF NonceAlone, NonceHeld, Consumable, InTransaction
<1>6. ASSUME NEW t \in Requests PROVE AddressAlone(t)' /\ ReplyGenuine(t)'
  BY <1>2, <1>3 DEF AddressAlone, ReplyGenuine
<1> QED BY <1>1, <1>4, <1>5, <1>6, RowsFrame

\* consumeChallenge locks a row that nobody else holds.
LEMMA ConsumeStep == ASSUME RegInvariant, NEW r \in Requests, Consume(r) PROVE RegInvariant'
<1>1. PICK o \in Offsets : IF Consumable(r, now + o) THEN Goto(r, "create")
                                                    ELSE Return(r, "REFUSED")
  BY DEF Consume
<1>2. CASE Consumable(r, now + o)
  BY <1>1, <1>2, LockNonceStep DEF Consume
<1>3. CASE ~Consumable(r, now + o)
  BY <1>1, <1>3, RefuseStep DEF Consume
<1> QED BY <1>2, <1>3

\* The address is free, and not registered.
LEMMA LockAddressStep ==
  ASSUME RegInvariant, NEW r \in Requests, pc[r] = "create", ~AddressHeld(Input[r].address),
         Insertable(Input[r].address), Goto(r, "complete"),
         UNCHANGED <<now, agent, challenge, issued, record, crashes>>
  PROVE  RegInvariant'
<1> USE DEF RegInvariant, Goto
<1>1. TypeOK'
  BY DEF TypeOK, Running, InTransaction
<1>2. \A t \in Requests \ {r} : pc'[t] = pc[t]
  BY DEF TypeOK
<1>3. pc'[r] = "complete"
  BY DEF TypeOK
<1>4. ASSUME NEW t \in Requests PROVE ClaimAlone(t)'
  BY <1>2, <1>3 DEF ClaimAlone, Running, Claimed, InTransaction
<1>5. ASSUME NEW t \in Requests PROVE NonceAlone(t)'
  BY <1>2, <1>3 DEF NonceAlone, InTransaction
<1>6. ASSUME NEW t \in Requests PROVE AddressAlone(t)' /\ ReplyGenuine(t)'
  BY <1>2, <1>3 DEF AddressAlone, AddressHeld, Insertable, ReplyGenuine
<1> QED BY <1>1, <1>4, <1>5, <1>6, RowsFrame

\* create inserts an address that nobody else is inserting.
LEMMA CreateStep == ASSUME RegInvariant, NEW r \in Requests, Create(r) PROVE RegInvariant'
<1>1. CASE Insertable(Input[r].address)
  BY <1>1, LockAddressStep DEF Create
<1>2. CASE ~Insertable(Input[r].address)
  BY <1>2, RefuseStep DEF Create
<1> QED BY <1>1, <1>2

\* The commit adds to an address that has nothing yet, and touches nothing that
\* another request relies on.
LEMMA CommittedStep ==
  ASSUME RegInvariant, NEW r \in Requests, pc[r] = "complete", Committed(r),
         Moves(r, "done"), UNCHANGED <<now, issued, crashes>>
  PROVE  RegInvariant'
<1> USE DEF RegInvariant, Moves
<1> DEFINE a == Input[r].address
           n == Input[r].nonce
           s == SlotOf(r)
<1>0. a \in Addresses /\ n \in Nonces /\ s \in Slots /\ s[1] = a
  BY InputType
<1>1. /\ record[s].status = "PROCESSING" /\ record[s].hash = HashOf(r) /\ Input[r].signed
      /\ \A t \in Requests : pc[t] \in Claimed /\ SlotOf(t) = s => t = r
  BY DEF ClaimAlone, Running, Claimed, InTransaction
<1>2. /\ challenge[n] # NoRow /\ challenge[n].owner = a /\ ~challenge[n].used
      /\ \A t \in Requests : pc[t] \in InTransaction /\ Input[t].nonce = n => t = r
  BY DEF NonceAlone, InTransaction
<1>3. /\ agent[a] = NoRow
      /\ \A t \in Requests : pc[t] = "complete" /\ Input[t].address = a => t = r
  BY DEF AddressAlone
<1>4. /\ record' \in [Slots -> Records] /\ \A q \in Slots \ {s} : record'[q] = record[q]
      /\ record'[s].status = "COMPLETED" /\ record'[s].hash = HashOf(r)
      /\ record'[s].answer = r
  <2>1. record \in [Slots -> Records] /\ record[s] \in Records
    BY <1>0 DEF TypeOK, Records
  <2>2. record' = [record EXCEPT ![s] = Completed(record[s], r)]
    BY DEF Committed
  <2> QED BY <1>0, <1>1, <2>1, <2>2, RecordType
<1>5. /\ challenge' \in [Nonces -> Challenges \cup {NoRow}]
      /\ \A m \in Nonces \ {n} : challenge'[m] = challenge[m]
      /\ challenge'[n].owner = a
  <2>1. challenge[n] \in Challenges
    BY <1>0, <1>2 DEF TypeOK
  <2>2. challenge' = [challenge EXCEPT ![n] = [challenge[n] EXCEPT !.used = TRUE]]
    BY DEF Committed
  <2>3. /\ [challenge[n] EXCEPT !.used = TRUE] \in Challenges
        /\ [challenge[n] EXCEPT !.used = TRUE].owner = a
    BY <1>2, <2>1 DEF Challenges
  <2> QED BY <1>0, <2>2, <2>3 DEF TypeOK
<1>6. /\ agent' \in [Addresses -> AgentRows \cup {NoRow}]
      /\ \A b \in Addresses \ {a} : agent'[b] = agent[b]
      /\ agent'[a] # NoRow
  <2>1. [status |-> "REGISTERED", whitelist |-> "PENDING"] \in AgentRows
    BY DEF AgentRows, Statuses, Whitelists
  <2> QED BY <1>0, <2>1 DEF Committed, TypeOK
<1>7. /\ \A t \in Requests \ {r} : pc'[t] = pc[t] /\ reply'[t] = reply[t]
      /\ pc'[r] = "done"
  BY DEF TypeOK
<1>8. TypeOK'
  BY <1>4, <1>5, <1>6 DEF TypeOK, Records
<1>9. ASSUME NEW m \in Nonces, challenge'[m] # NoRow PROVE m \in issued'
  BY <1>2, <1>5, <1>9
<1>10. ASSUME NEW t \in Requests PROVE ClaimAlone(t)'
  <2>1. CASE t = r
    BY <1>1, <1>7, <2>1 DEF ClaimAlone, Claimed, InTransaction
  <2>2. CASE t # r /\ SlotOf(t) = s
    BY <1>1, <1>7, <2>2 DEF ClaimAlone
  <2>3. CASE t # r /\ SlotOf(t) # s
    <3>1. record'[SlotOf(t)] = record[SlotOf(t)]
      BY <1>4, <2>3, InputType
    <3> QED BY <1>7, <2>3, <3>1 DEF ClaimAlone
  <2> QED BY <2>1, <2>2, <2>3
<1>11. ASSUME NEW t \in Requests PROVE NonceAlone(t)'
  <2>1. CASE pc'[t] \notin InTransaction
    BY <2>1 DEF NonceAlone
  <2>2. CASE pc'[t] \in InTransaction
    <3>1. t # r /\ pc[t] \in InTransaction /\ Input[t].nonce \in Nonces \ {n}
      BY <1>2, <1>7, <2>2, InputType DEF InTransaction
    <3> QED BY <1>5, <1>7, <3>1 DEF NonceAlone
  <2> QED BY <2>1, <2>2
<1>12. ASSUME NEW t \in Requests PROVE AddressAlone(t)'
  <2>1. CASE pc'[t] # "complete"
    BY <2>1 DEF AddressAlone
  <2>2. CASE pc'[t] = "complete"
    <3>1. t # r /\ pc[t] = "complete" /\ Input[t].address \in Addresses \ {a}
      BY <1>3, <1>7, <2>2, InputType
    <3> QED BY <1>6, <1>7, <3>1 DEF AddressAlone
  <2> QED BY <2>1, <2>2
<1>13. ASSUME NEW t \in Requests PROVE ReplyGenuine(t)'
  <2>1. CASE t = r
    BY <1>1, <1>4, <2>1 DEF ReplyGenuine
  <2>2. CASE t # r /\ SlotOf(t) = s
    BY <1>1, <1>7, <2>2 DEF ReplyGenuine
  <2>3. CASE t # r /\ SlotOf(t) # s
    <3>1. record'[SlotOf(t)] = record[SlotOf(t)]
      BY <1>4, <2>3, InputType
    <3> QED BY <1>7, <2>3, <3>1 DEF ReplyGenuine
  <2> QED BY <2>1, <2>2, <2>3
<1>14. ASSUME NEW q \in Slots PROVE AnswerGenuine(q)'
  <2>1. CASE q = s
    <3>1. n \in issued
      BY <1>0, <1>2
    <3> QED BY <1>0, <1>4, <1>5, <1>6, <2>1, <3>1 DEF AnswerGenuine, OwnedBy
  <2>2. CASE q # s
    <3>0. record'[q] = record[q]
      BY <1>4, <2>2
    <3> SUFFICES ASSUME record[q].status = "COMPLETED" PROVE AnswerGenuine(q)'
      BY <3>0 DEF AnswerGenuine
    <3> DEFINE m == Input[record[q].answer].nonce
    <3>1. /\ record[q].answer \in Requests /\ record[q].hash = HashOf(record[q].answer)
          /\ OwnedBy(m, q[1]) /\ agent[q[1]] # NoRow
      BY DEF AnswerGenuine
    <3>2. m \in Nonces /\ q[1] \in Addresses
      BY <3>1, InputType DEF Slots
    <3>3. agent'[q[1]] # NoRow
      BY <1>3, <1>6, <3>1, <3>2
    <3>4. m \in issued' /\ (challenge'[m] = NoRow \/ challenge'[m].owner = q[1])
      BY <1>2, <1>5, <3>1, <3>2 DEF OwnedBy
    <3> QED BY <3>0, <3>1, <3>3, <3>4 DEF AnswerGenuine, OwnedBy
  <2> QED BY <2>1, <2>2
<1>15. ASSUME NEW b \in Addresses PROVE RegisteredOnce(b)'
  <2>1. CASE b = a
    <3>1. CompletedSlots(a) = {} /\ SpentNonces(a) = {}
      BY <1>0, <1>3 DEF RegisteredOnce
    <3>2. CompletedSlots(a)' = {s}
      BY <1>0, <1>4, <3>1 DEF CompletedSlots
    <3>3. \A m \in SpentNonces(a)' : m = n
      BY <1>5, <3>1 DEF SpentNonces
    <3> QED BY <1>0, <1>6, <2>1, <3>2, <3>3 DEF RegisteredOnce
  <2>2. CASE b # a
    <3>1. CompletedSlots(b)' = CompletedSlots(b)
      BY <1>0, <1>4, <2>2 DEF CompletedSlots
    <3>2. SpentNonces(b)' = SpentNonces(b)
      BY <1>0, <1>2, <1>5, <2>2 DEF SpentNonces
    <3> QED BY <1>6, <2>2, <3>1, <3>2 DEF RegisteredOnce
  <2> QED BY <2>1, <2>2
<1> QED BY <1>8, <1>9, <1>10, <1>11, <1>12, <1>13, <1>14, <1>15

\* Challenge, agent and answer become visible together.
LEMMA CommitStep ==
  ASSUME RegInvariant, NEW r \in Requests, Complete(r) \/ CommitUnknown(r)
  PROVE  RegInvariant'
<1>1. Moves(r, "done")
  BY ReturnMoves DEF RegInvariant, Complete, CommitUnknown
<1> QED BY <1>1, CommittedStep DEF Complete, CommitUnknown

\* Every step of a request preserves the invariant.
LEMMA RequestStepInvariant ==
  ASSUME RegInvariant, NEW r \in Requests, RequestStep(r) \/ FaultStep(r)
  PROVE  RegInvariant'
<1>1. CASE Reject(r) \/ Fail(r)
  BY <1>1, RefuseStep DEF Reject, Fail
<1> QED BY <1>1, ClaimStep, ReadStep, ConsumeStep, CreateStep, CommitStep
        DEF RequestStep, FaultStep

-----------------------------------------------------------------------------
(* Challenges, reviews, the sweep, the clock and crashes *)

\* A nonce that was never issued belongs to nobody.
LEMMA ChallengeStep ==
  ASSUME RegInvariant, NEW a \in Addresses, NEW n \in Nonces, Challenge(a, n)
  PROVE  RegInvariant'
<1> USE DEF RegInvariant
<1>0. PICK c \in Challenges : challenge' = [challenge EXCEPT ![n] = c] /\ ~c.used
  <2>1. PICK o \in Offsets :
          challenge' = [challenge EXCEPT ![n] =
                          [owner |-> a, expires |-> now + o + TTL, used |-> FALSE]]
    BY DEF Challenge
  <2>2. now + o + TTL \in Int
    BY DEF TypeOK
  <2>3. [owner |-> a, expires |-> now + o + TTL, used |-> FALSE] \in Challenges
    BY <2>2 DEF Challenges
  <2> QED BY <2>1, <2>3
<1>1. /\ n \notin issued /\ issued' = issued \cup {n} /\ challenge[n] = NoRow
      /\ challenge'[n] = c /\ \A m \in Nonces \ {n} : challenge'[m] = challenge[m]
      /\ UNCHANGED <<now, agent, record, pc, reply, crashes>>
  BY <1>0 DEF Challenge, TypeOK
<1>2. TypeOK'
  BY <1>0, <1>1 DEF TypeOK
<1>3. \A m \in Nonces : challenge'[m] # NoRow => m \in issued'
  BY <1>1
<1>4. ASSUME NEW r \in Requests
      PROVE  ClaimAlone(r)' /\ AddressAlone(r)' /\ ReplyGenuine(r)'
  BY <1>1 DEF ClaimAlone, AddressAlone, ReplyGenuine
<1>5. ASSUME NEW r \in Requests PROVE NonceAlone(r)'
  BY <1>1, InputType DEF NonceAlone
<1>6. ASSUME NEW s \in Slots PROVE AnswerGenuine(s)'
  BY <1>1, InputType DEF AnswerGenuine, OwnedBy
<1>7. ASSUME NEW b \in Addresses PROVE RegisteredOnce(b)'
  <2>1. CompletedSlots(b)' = CompletedSlots(b)
    BY <1>1 DEF CompletedSlots
  <2>2. SpentNonces(b)' = SpentNonces(b)
    BY <1>0, <1>1 DEF SpentNonces
  <2> QED BY <1>1, <2>1, <2>2 DEF RegisteredOnce
<1> QED BY <1>2, <1>3, <1>4, <1>5, <1>6, <1>7

\* A review finds a registered agent and leaves one.
LEMMA ReviewStep ==
  ASSUME RegInvariant, NEW a \in Addresses, NEW action \in Reviews, Review(a, action)
  PROVE  RegInvariant'
<1> USE DEF RegInvariant
<1>0. /\ agent' \in [Addresses -> AgentRows \cup {NoRow}]
      /\ \A b \in Addresses : agent'[b] = NoRow <=> agent[b] = NoRow
      /\ UNCHANGED <<now, challenge, issued, record, pc, reply, crashes>>
  BY TransitionType DEF Review, TypeOK
<1>1. TypeOK'
  BY <1>0 DEF TypeOK
<1>2. ASSUME NEW r \in Requests
      PROVE  ClaimAlone(r)' /\ NonceAlone(r)' /\ AddressAlone(r)' /\ ReplyGenuine(r)'
  BY <1>0, InputType DEF ClaimAlone, NonceAlone, AddressAlone, ReplyGenuine
<1>3. ASSUME NEW s \in Slots PROVE AnswerGenuine(s)'
  BY <1>0 DEF AnswerGenuine, OwnedBy, Slots
<1>4. ASSUME NEW b \in Addresses PROVE RegisteredOnce(b)'
  BY <1>0 DEF RegisteredOnce, CompletedSlots, SpentNonces
<1> QED BY <1>0, <1>1, <1>2, <1>3, <1>4

\* The sweep waits for locked challenges.
LEMMA SweepStep == ASSUME RegInvariant, Sweep PROVE RegInvariant'
<1> USE DEF RegInvariant
<1>0. /\ UNCHANGED <<now, agent, issued, record, pc, reply, crashes>>
      /\ \A n \in Nonces : challenge'[n] = challenge[n] \/ (challenge'[n] = NoRow /\ ~NonceHeld(n))
  BY DEF Sweep
<1>1. TypeOK'
  BY <1>0 DEF TypeOK, Sweep
<1>2. \A n \in Nonces : challenge'[n] # NoRow => n \in issued'
  BY <1>0
<1>3. ASSUME NEW r \in Requests
      PROVE  ClaimAlone(r)' /\ AddressAlone(r)' /\ ReplyGenuine(r)'
  BY <1>0 DEF ClaimAlone, AddressAlone, ReplyGenuine
<1>4. ASSUME NEW r \in Requests PROVE NonceAlone(r)'
  BY <1>0, InputType DEF NonceAlone, NonceHeld
<1>5. ASSUME NEW s \in Slots PROVE AnswerGenuine(s)'
  BY <1>0, InputType DEF AnswerGenuine, OwnedBy
<1>6. ASSUME NEW a \in Addresses PROVE RegisteredOnce(a)'
  <2>1. CompletedSlots(a)' = CompletedSlots(a)
    BY <1>0 DEF CompletedSlots
  <2>2. SpentNonces(a)' \subseteq SpentNonces(a)
    BY <1>0 DEF SpentNonces
  <2> QED BY <1>0, <2>1, <2>2 DEF RegisteredOnce
<1> QED BY <1>1, <1>2, <1>3, <1>4, <1>5, <1>6

\* A crash ends every request and rolls its transaction back.
LEMMA OtherStep == ASSUME RegInvariant, Tick \/ Crash \/ UNCHANGED vars PROVE RegInvariant'
<1> USE DEF RegInvariant
<1>0. /\ UNCHANGED <<agent, challenge, issued, record, reply>>
      /\ \A r \in Requests : pc'[r] = pc[r] \/ pc'[r] = "dead"
  BY DEF Tick, Crash, vars
<1>1. TypeOK'
  BY DEF TypeOK, Tick, Crash, vars
<1>2. ASSUME NEW r \in Requests
      PROVE  ClaimAlone(r)' /\ NonceAlone(r)' /\ AddressAlone(r)' /\ ReplyGenuine(r)'
  BY <1>0 DEF ClaimAlone, NonceAlone, AddressAlone, ReplyGenuine,
              Running, Claimed, InTransaction
<1> QED BY <1>0, <1>1, <1>2, RowsFrame

\* Every step preserves the invariant.
LEMMA NextInvariant == RegInvariant /\ [Next]_vars => RegInvariant'
  BY RequestStepInvariant, ChallengeStep, ReviewStep, SweepStep, OtherStep DEF Next

\* The exclusions hold in every reachable state.
LEMMA Invariance == Spec => []RegInvariant
  BY InitInvariant, NextInvariant, PTL DEF Spec

-----------------------------------------------------------------------------
(* The theorems *)

\* Every reachable state is well typed.
THEOREM TypeCorrect == Spec => []TypeOK
<1>1. RegInvariant => TypeOK
  BY DEF RegInvariant
<1> QED BY <1>1, Invariance, PTL

\* consumeChallenge, create and Complete take effect together or not at all: a
\* registered address has one completed key and at most one spent nonce.
THEOREM RegistrationsAreAtomic == Spec => []RegistrationAtomic
<1>1. RegInvariant => RegistrationAtomic
  <2> SUFFICES ASSUME RegInvariant, NEW a \in Addresses
               PROVE  LET n == IF agent[a] = NoRow THEN 0 ELSE 1
                      IN  /\ Cardinality(CompletedSlots(a)) = n
                          /\ Cardinality(SpentNonces(a)) <= n
    BY DEF RegistrationAtomic
  <2>0. Cardinality({}) = 0 /\ \A x : Cardinality({x}) = 1
    BY FS_EmptySet, FS_Singleton
  <2>1. RegisteredOnce(a)
    BY DEF RegInvariant
  <2>2. CASE agent[a] = NoRow
    BY <2>0, <2>1, <2>2 DEF RegisteredOnce
  <2>3. CASE agent[a] # NoRow
    <3>1. Cardinality(CompletedSlots(a)) = 1
      BY <2>0, <2>1, <2>3 DEF RegisteredOnce
    <3>2. SpentNonces(a) = {} \/ \E n : SpentNonces(a) = {n}
      <4>1. \A m, n \in SpentNonces(a) : m = n
        BY <2>1, <2>3 DEF RegisteredOnce
      <4> SUFFICES ASSUME NEW n \in SpentNonces(a) PROVE SpentNonces(a) = {n}
        OBVIOUS
      <4> QED BY <4>1
    <3>3. Cardinality(SpentNonces(a)) \in {0, 1}
      BY <2>0, <3>2
    <3> QED BY <2>3, <3>1, <3>3
  <2> QED BY <2>2, <2>3
<1> QED BY <1>1, Invariance, PTL

\* Register answers with an agent only what that agent signed over its own
\* challenge, and replays only the registration the key stands for.
THEOREM AnswersAreGenuine == Spec => []RegistrationsGenuine
<1>1. RegInvariant => RegistrationsGenuine
  <2> SUFFICES ASSUME RegInvariant, NEW r \in Requests, reply[r] = "REGISTERED"
               PROVE  /\ agent[Input[r].address] # NoRow
                      /\ Input[r].signed
                      /\ \/ challenge[Input[r].nonce] = NoRow
                         \/ challenge[Input[r].nonce].owner = Input[r].address
                      /\ record[SlotOf(r)].status = "COMPLETED"
                      /\ Input[record[SlotOf(r)].answer].nonce = Input[r].nonce
    BY DEF RegistrationsGenuine
  <2> DEFINE rec == record[SlotOf(r)]
  <2>1. Input[r].signed /\ rec.status = "COMPLETED" /\ rec.hash = HashOf(r)
    BY DEF RegInvariant, ReplyGenuine
  <2>2. /\ rec.answer \in Requests /\ rec.hash = HashOf(rec.answer)
        /\ OwnedBy(Input[rec.answer].nonce, Input[r].address)
        /\ agent[Input[r].address] # NoRow
    BY <2>1, InputType DEF RegInvariant, AnswerGenuine
  <2>3. Input[rec.answer].nonce = Input[r].nonce
    BY <2>1, <2>2, HashSound
  <2> QED BY <2>1, <2>2, <2>3 DEF OwnedBy
<1> QED BY <1>1, Invariance, PTL

\* Whoever blocks a registration is able to go on, or waits for one that is:
\* no circle of waits, and no transaction that finds its key completed.
THEOREM WaitsEnd == Spec => []NoWaitingCircle
<1>1. RegInvariant => NoWaitingCircle
  <2> SUFFICES ASSUME RegInvariant, NEW r \in Requests, NEW t \in Requests, Blocks(t, r)
               PROVE  CanGoOn(t) \/ \E u \in Requests : Blocks(u, t) /\ CanGoOn(u)
    BY DEF NoWaitingCircle
  <2>1. \A u \in Requests : pc[u] = "complete" => CanGoOn(u)
    BY DEF RegInvariant, ClaimAlone, Claimed, InTransaction, CanGoOn, Completable
  <2>2. pc[t] \in {"create", "complete"}
    BY DEF Blocks, InTransaction
  <2>3. CASE pc[t] = "create"
    BY <2>1, <2>3 DEF CanGoOn, AddressHeld, Blocks
  <2> QED BY <2>1, <2>2, <2>3
<1> QED BY <1>1, Invariance, PTL

\* No review and no registration changes a revoked agent: Transition only
\* repeats the revocation, and create meets the primary key.
THEOREM RevocationsStay == Spec => RevokedStaysRevoked
<1>1. ASSUME RegInvariant, [Next]_vars, NEW a \in Addresses,
             agent[a] # NoRow, agent[a] = TransitionTo("revoke")
      PROVE  agent'[a] = agent[a]
  <2>0. agent \in [Addresses -> AgentRows \cup {NoRow}]
    BY <1>1 DEF RegInvariant, TypeOK
  <2>1. CASE UNCHANGED agent
    BY <2>1
  <2>2. ASSUME NEW r \in Requests, Complete(r) \/ CommitUnknown(r)
        PROVE  agent'[a] = agent[a]
    <3>1. Input[r].address # a
      BY <1>1, <2>2 DEF RegInvariant, AddressAlone, Complete, CommitUnknown
    <3> QED BY <2>0, <2>2, <3>1 DEF Complete, CommitUnknown, Committed
  <2>3. ASSUME NEW b \in Addresses, NEW action \in Reviews, Review(b, action)
        PROVE  agent'[a] = agent[a]
    <3>1. CASE b # a
      BY <2>0, <2>3, <3>1 DEF Review
    <3>2. CASE b = a
      <4>1. agent[a].status = "REVOKED"
        BY <1>1 DEF TransitionTo
      <4>2. action = "revoke"
        BY <2>3, <3>2, <4>1 DEF Review, TransitionAllowed
      <4> QED BY <1>1, <2>0, <2>3, <3>2, <4>2 DEF Review
    <3> QED BY <3>1, <3>2
  <2> QED BY <1>1, <2>1, <2>2, <2>3
          DEF Next, vars, Challenge, RequestStep, FaultStep, Reject, Claim, Read, Consume,
              Create, ClaimUnknown, Fail, Sweep, Tick, Crash
<1>2. RegInvariant /\ [Next]_vars =>
        [\A a \in Addresses :
           agent[a] # NoRow /\ agent[a] = TransitionTo("revoke") => agent'[a] = agent[a]]_vars
  BY <1>1
<1> QED BY <1>2, Invariance, PTL DEF Spec, RevokedStaysRevoked
=============================================================================
