---------------------------- MODULE KeyUseProofs ----------------------------
(***************************************************************************)
(* That an agent has one token at Kovar, that its row tells the truth      *)
(* about it, and that the token whose quota was checked is the one that    *)
(* pays, for any number of agents, calls, users, tokens and crashes.       *)
(*                                                                         *)
(* Everything rests on two facts.  A call between the reservation and the  *)
(* end of CreateKey is alone with a row that is CREATING; and the ids of   *)
(* tokens are never used again, so that a DeleteKey or a task with an old  *)
(* id can only mean a token that is gone, or the one the row still names.  *)
(***************************************************************************)
EXTENDS KeyUse, FiniteSetTheorems, TLAPS

\* What the row of an agent says about its tokens at Kovar.
RowTruthful(a) ==
  /\ live[a] \subseteq 1 .. next - 1
  /\ \A i, j \in live[a] : i = j
  /\ tok[a].status \in {"NONE", "CREATING", "UNKNOWN"} => tok[a].id = 0
  /\ tok[a].status \in {"ACTIVE", "DELETE_PENDING", "DELETED"} =>
       tok[a].id \in 1 .. next - 1 /\ live[a] \subseteq {tok[a].id}
  /\ tok[a].status \in {"NONE", "DELETED"} => live[a] = {}
  /\ tok[a].status = "ACTIVE" => tok[a].key /\ tok[a].id \in live[a]

\* CreateKey, once it has reserved the row.
CreatorAlone(c) ==
  pc[c] \in Creating =>
    /\ tok[For[c]].status = "CREATING"
    /\ pc[c] = "post" => live[For[c]] = {}
    /\ pc[c] \in {"identify", "store"} => live[For[c]] = {mine[c]}
    /\ \A d \in Calls : pc[d] \in Creating /\ For[d] = For[c] => d = c

\* DeleteKey, once it has read the row.
DeleterRight(c) ==
  /\ pc[c] = "mark" => /\ lock[For[c]] = c
                       /\ tok[For[c]].id = mine[c] /\ mine[c] # 0
  /\ pc[c] \in {"erase", "settle"} =>
       /\ mine[c] \in 1 .. next - 1
       /\ mine[c] \in live[For[c]] =>
            tok[For[c]].id = mine[c] /\ tok[For[c]].status = "DELETE_PENDING"
  /\ pc[c] = "settle" => mine[c] \notin live[For[c]]

KeyInvariant ==
  /\ \A a \in Agents : RowTruthful(a)
  /\ \A c \in Calls : CreatorAlone(c)
  /\ \A c \in Calls : DeleterRight(c)

IInv == TypeOK /\ KeyInvariant

USE CallAssumption, BoundAssumption

\* No call has begun and no token exists.
LEMMA InitInvariant == Init => IInv
  BY DEF Init, IInv, TypeOK, KeyInvariant, RowTruthful, CreatorAlone, DeleterRight,
         Creating, Deleting, Row, AgentRows, Statuses, Whitelists

\* A review leads from a row to a row.
LEMMA TransitionType == \A action \in ReviewActions : TransitionTo(action) \in AgentRows
  BY DEF ReviewActions, TransitionTo, AgentRows, Statuses, Whitelists

\* A step of one call touches its own place, and the rows of its own agent.
Local(c) ==
  /\ \A d \in Calls \ {c} : pc'[d] = pc[d] /\ mine'[d] = mine[d]
  /\ \A b \in Agents \ {For[c]} : tok'[b] = tok[b] /\ live'[b] = live[b] /\ lock'[b] = lock[b]
  /\ next' >= next

\* The ids given out so far stay given out.
LEMMA IntervalGrows ==
  ASSUME NEW m \in Nat, NEW n \in Nat, n >= m
  PROVE  1 .. m - 1 \subseteq 1 .. n - 1
  OBVIOUS

\* Such a step has to be looked at for that agent only.
LEMMA LocalPreserves ==
  ASSUME IInv, TypeOK', NEW c \in Calls, Local(c), RowTruthful(For[c])',
         \A d \in Calls : For[d] = For[c] => CreatorAlone(d)' /\ DeleterRight(d)'
  PROVE  IInv'
<1> USE DEF IInv, KeyInvariant, TypeOK
<1>1. \A b \in Agents : RowTruthful(b)'
  <2> SUFFICES ASSUME NEW b \in Agents, b # For[c] PROVE RowTruthful(b)'
    OBVIOUS
  <2>1. tok'[b] = tok[b] /\ live'[b] = live[b] /\ RowTruthful(b)
    BY DEF Local
  <2>2. next \in Nat /\ next' \in Nat /\ next' >= next
    BY DEF Local
  <2>3. 1 .. next - 1 \subseteq 1 .. next' - 1
    BY <2>2, IntervalGrows
  <2> QED BY <2>1, <2>3 DEF RowTruthful
<1>2. \A d \in Calls : CreatorAlone(d)'
  BY DEF Local, CreatorAlone
<1>3. \A d \in Calls : DeleterRight(d)'
  BY DEF Local, DeleterRight
<1> QED BY <1>1, <1>2, <1>3

\* How Goto and Return move a call.
Moves(c, step, i) ==
  /\ pc' = [pc EXCEPT ![c] = step] /\ mine' = [mine EXCEPT ![c] = i]
  /\ result' \in [Calls -> {"NONE", "OK", "REFUSED", "RECONCILE", "ERROR"}]
  /\ crashes' = crashes

\* Going on to a step moves one call.
LEMMA GotoMoves ==
  ASSUME TypeOK, NEW c \in Calls, NEW step, NEW i, Goto(c, step, i)
  PROVE  Moves(c, step, i)
  BY DEF TypeOK, Goto, Moves

\* Returning moves one call to its end.
LEMMA ReturnMoves ==
  ASSUME TypeOK, NEW c \in Calls, NEW code \in {"OK", "REFUSED", "RECONCILE", "ERROR"},
         Return(c, code)
  PROVE  Moves(c, "done", 0)
  BY DEF TypeOK, Return, Moves

\* A call that returns without touching a row.
LEMMA ReturnOnly ==
  ASSUME IInv, NEW c \in Calls, Moves(c, "done", 0), UNCHANGED <<agent, lock, tok, live, next>>
  PROVE  IInv'
<1> USE DEF IInv, KeyInvariant, Moves
<1>1. TypeOK' /\ Local(c)
  BY DEF TypeOK, Local
<1>2. RowTruthful(For[c])'
  BY DEF RowTruthful
<1>3. \A d \in Calls : CreatorAlone(d)' /\ DeleterRight(d)'
  BY DEF CreatorAlone, DeleterRight, TypeOK, Creating
<1> QED BY <1>1, <1>2, <1>3, LocalPreserves

-----------------------------------------------------------------------------
(* CreateKey *)

\* The reservation finds no token at Kovar and nobody at the row.
LEMMA ReserveStep ==
  ASSUME IInv, NEW c \in Calls, LockFree(For[c]), Vacant(For[c]), Reserve(For[c]),
         Moves(c, "post", 0) \/ Moves(c, "done", 0), UNCHANGED <<agent, lock, live, next>>
  PROVE  IInv'
<1> USE DEF IInv, KeyInvariant, Moves
<1> DEFINE a == For[c]
<1>0. /\ tok' \in [Agents -> Row] /\ \A b \in Agents \ {a} : tok'[b] = tok[b]
      /\ tok'[a].status = "CREATING" /\ tok'[a].id = 0
  <2>1. tok[a] \in Row
    BY DEF TypeOK
  <2>2. tok' = [tok EXCEPT ![a] = [tok[a] EXCEPT !.status = "CREATING", !.id = 0, !.key = FALSE]]
    BY DEF Reserve, TypeOK
  <2>3. [tok[a] EXCEPT !.status = "CREATING", !.id = 0, !.key = FALSE] \in Row
    BY <2>1 DEF Row
  <2> QED BY <2>1, <2>2, <2>3 DEF TypeOK, Row
<1>1. TypeOK' /\ Local(c)
  BY <1>0 DEF TypeOK, Local, Creating
<1>2. live[a] = {}
  BY DEF Vacant, RowTruthful
<1>3. RowTruthful(a)'
  BY <1>0, <1>2 DEF RowTruthful, TypeOK
<1>4. \A d \in Calls : For[d] = a => pc[d] \notin Creating \cup {"mark"}
  BY DEF Vacant, LockFree, CreatorAlone, DeleterRight
<1>5. \A d \in Calls : For[d] = a => CreatorAlone(d)'
  BY <1>0, <1>2, <1>4 DEF CreatorAlone, TypeOK, Creating
<1>6. \A d \in Calls : For[d] = a => DeleterRight(d)'
  BY <1>0, <1>2, <1>4 DEF DeleterRight, TypeOK
<1> QED BY <1>1, <1>3, <1>5, <1>6, LocalPreserves

\* The reservation: the row was free, so no other CreateKey is at work.
LEMMA AdmitStep ==
  ASSUME IInv, NEW c \in Calls,
         CreateAdmit(c) \/ CreateInvalid(c) \/ CreateAdmitUnknown(c)
  PROVE  IInv'
<1>0. TypeOK
  BY DEF IInv
<1>1. CASE CreateAdmit(c)
  <2>1. CASE Usable(agent[For[c]]) /\ Vacant(For[c])
    BY <1>0, <1>1, <2>1, GotoMoves, ReserveStep DEF CreateAdmit
  <2>2. CASE ~ (Usable(agent[For[c]]) /\ Vacant(For[c]))
    BY <1>0, <1>1, <2>2, ReturnMoves, ReturnOnly DEF CreateAdmit
  <2> QED BY <2>1, <2>2
<1>2. CASE CreateInvalid(c)
  BY <1>0, <1>2, ReturnMoves, ReturnOnly DEF CreateInvalid
<1>3. CASE CreateAdmitUnknown(c)
  BY <1>0, <1>3, ReturnMoves, ReserveStep DEF CreateAdmitUnknown
<1> QED BY <1>1, <1>2, <1>3

\* Kovar creates a token with a new id.
LEMMA PostStep ==
  ASSUME IInv, NEW c \in Calls, CreatePost(c)
  PROVE  IInv'
<1> USE DEF IInv, KeyInvariant
<1> DEFINE a == For[c]
<1>0. /\ Moves(c, "identify", next) /\ pc[c] = "post" /\ next' = next + 1
      /\ live' = [live EXCEPT ![a] = live[a] \cup {next}]
      /\ UNCHANGED <<agent, lock, tok>>
  BY GotoMoves DEF CreatePost
<1>1. TypeOK' /\ Local(c)
  BY <1>0 DEF TypeOK, Local, Creating, Moves
<1>2. tok[a].status = "CREATING" /\ live[a] = {}
  BY <1>0 DEF CreatorAlone, Creating
<1>3. live'[a] = {next}
  BY <1>0, <1>2 DEF TypeOK
<1>4. RowTruthful(a)'
  BY <1>0, <1>2, <1>3 DEF RowTruthful, TypeOK
<1>5. \A d \in Calls : For[d] = a => CreatorAlone(d)'
  BY <1>0, <1>2, <1>3 DEF CreatorAlone, TypeOK, Creating, Moves
<1>6. \A d \in Calls : For[d] = a => DeleterRight(d)'
  BY <1>0, <1>2, <1>3 DEF DeleterRight, TypeOK, Moves
<1> QED BY <1>1, <1>4, <1>5, <1>6, LocalPreserves

\* CreateKey goes on with the token that is there, or gives it up.
LEMMA IdentifyStep ==
  ASSUME IInv, NEW c \in Calls, CreatePostFails(c) \/ CreateIdentify(c) \/ CreateIdentifyFails(c)
  PROVE  IInv'
<1> USE DEF IInv, KeyInvariant
<1> DEFINE a == For[c]
<1>0. /\ pc[c] \in {"post", "identify"} /\ UNCHANGED <<agent, lock, tok, live, next>>
      /\ \/ Moves(c, "fail", 0)
         \/ pc[c] = "identify" /\ \E i \in Identified(c) : Moves(c, "store", i)
  BY GotoMoves DEF CreatePostFails, CreateIdentify, CreateIdentifyFails
<1>1. pc[c] = "identify" => Identified(c) = {mine[c]} /\ mine[c] \in Nat
  BY DEF CreatorAlone, Creating, Identified, TypeOK
<1>2. Moves(c, "fail", 0) \/ (pc[c] = "identify" /\ Moves(c, "store", mine[c]))
  BY <1>0, <1>1
<1>3. TypeOK' /\ Local(c)
  BY <1>0, <1>1, <1>2 DEF TypeOK, Local, Creating, Moves
<1>4. RowTruthful(a)'
  BY <1>0 DEF RowTruthful
<1>5. \A d \in Calls : For[d] = a => CreatorAlone(d)'
  BY <1>0, <1>2 DEF CreatorAlone, TypeOK, Creating, Moves
<1>6. \A d \in Calls : For[d] = a => DeleterRight(d)'
  BY <1>0, <1>2 DEF DeleterRight, TypeOK, Moves
<1> QED BY <1>3, <1>4, <1>5, <1>6, LocalPreserves

\* A CreateKey that gives up marks its row UNKNOWN, if it can.
LEMMA FailureStep ==
  ASSUME IInv, NEW c \in Calls, RecordKeyFailure(c)
  PROVE  IInv'
<1> USE DEF IInv, KeyInvariant
<1> DEFINE a == For[c]
<1>0. /\ Moves(c, "done", 0) /\ pc[c] = "fail" /\ UNCHANGED <<agent, lock, live, next>>
      /\ tok' = [tok EXCEPT ![a].status = "UNKNOWN"] \/ UNCHANGED tok
  BY ReturnMoves DEF RecordKeyFailure
<1>1. tok[a].status = "CREATING" /\ tok[a] \in Row
  BY <1>0 DEF CreatorAlone, Creating, TypeOK
<1>2. CASE UNCHANGED tok
  BY <1>0, <1>2, ReturnOnly
<1>3. CASE tok' = [tok EXCEPT ![a].status = "UNKNOWN"]
  <2>0. tok'[a] \in Row /\ tok'[a].status = "UNKNOWN" /\ tok'[a].id = tok[a].id
    BY <1>1, <1>3 DEF Row, TypeOK
  <2>1. TypeOK' /\ Local(c)
    BY <1>0, <1>3, <2>0 DEF TypeOK, Local, Moves
  <2>2. RowTruthful(a)'
    BY <1>0, <1>1, <2>0 DEF RowTruthful
  <2>3. \A d \in Calls : For[d] = a => CreatorAlone(d)'
    BY <1>0, <1>3 DEF CreatorAlone, TypeOK, Creating, Moves
  <2>4. \A d \in Calls : For[d] = a => DeleterRight(d)'
    BY <1>0, <1>1, <2>0 DEF DeleterRight, TypeOK, Moves
  <2> QED BY <2>1, <2>2, <2>3, <2>4, LocalPreserves
<1> QED BY <1>0, <1>2, <1>3

\* The key is stored under the id of the only token the agent has.
LEMMA StoredStep ==
  ASSUME IInv, NEW c \in Calls, pc[c] = "store", LockFree(For[c]), Store(c),
         Moves(c, "done", 0) \/ Moves(c, "select", 0), UNCHANGED <<agent, lock, live, next>>
  PROVE  IInv'
<1> USE DEF IInv, KeyInvariant
<1> DEFINE a == For[c]
<1>0. /\ tok' = [tok EXCEPT ![a] = tok'[a]]
      /\ tok'[a] \in Row /\ tok'[a].id = mine[c] /\ tok'[a].key
      /\ tok'[a].status \in {"ACTIVE", "DELETE_PENDING"}
  BY DEF Store, StoreStatus, TypeOK, Row
<1>1. tok[a].status = "CREATING" /\ live[a] = {mine[c]} /\ tok[a].id = 0
  BY DEF CreatorAlone, Creating, RowTruthful
<1>2. TypeOK' /\ Local(c)
  BY <1>0 DEF TypeOK, Local, Moves, Deleting
<1>3. RowTruthful(a)'
  BY <1>0, <1>1 DEF RowTruthful, TypeOK
<1>4. \A d \in Calls : For[d] = a => CreatorAlone(d)'
  BY <1>0 DEF CreatorAlone, TypeOK, Creating, Moves
<1>5. \A d \in Calls : For[d] = a => DeleterRight(d)'
  BY <1>0, <1>1 DEF DeleterRight, TypeOK, Moves, LockFree
<1> QED BY <1>2, <1>3, <1>4, <1>5, LocalPreserves

\* The key is stored: the row names the one token that exists.
LEMMA StoreStep ==
  ASSUME IInv, NEW c \in Calls, CreateStore(c) \/ CreateStoreFails(c)
  PROVE  IInv'
<1>0. TypeOK
  BY DEF IInv
<1>1. CASE CreateStore(c)
  BY <1>0, <1>1, GotoMoves, ReturnMoves, StoredStep DEF CreateStore
<1>2. CASE CreateStoreFails(c)
  BY <1>0, <1>2, ReturnMoves, ReturnOnly, StoredStep DEF CreateStoreFails
<1> QED BY <1>1, <1>2

-----------------------------------------------------------------------------
(* DeleteKey and revoke *)

\* DeleteKey reads the id it will work on.
LEMMA SelectStep ==
  ASSUME IInv, NEW c \in Calls, DeleteSelect(c)
  PROVE  IInv'
<1> USE DEF IInv, KeyInvariant
<1> DEFINE a == For[c]
<1>0. TypeOK
  OBVIOUS
<1>1. CASE UNCHANGED lock
  BY <1>0, <1>1, ReturnMoves, ReturnOnly DEF DeleteSelect, LockFree, TypeOK
<1>2. CASE ~ UNCHANGED lock
  <2>0. /\ Moves(c, "mark", tok[a].id) /\ LockFree(a) /\ pc[c] \in {"select", "idle"}
        /\ tok[a].status \in {"ACTIVE", "DELETE_PENDING"}
        /\ lock' = [lock EXCEPT ![a] = c]
        /\ UNCHANGED <<agent, tok, live, next>>
    BY <1>0, <1>2, GotoMoves DEF DeleteSelect
  <2>1. TypeOK' /\ Local(c)
    BY <2>0 DEF TypeOK, Local, Moves, Deleting, Row
  <2>2. RowTruthful(a)'
    BY <2>0 DEF RowTruthful
  <2>3. \A d \in Calls : For[d] = a => CreatorAlone(d)'
    BY <2>0 DEF CreatorAlone, TypeOK, Creating, Moves
  <2>4. \A d \in Calls : For[d] = a => DeleterRight(d)'
    BY <2>0 DEF DeleterRight, TypeOK, Moves, LockFree, RowTruthful
  <2> QED BY <2>1, <2>2, <2>3, <2>4, LocalPreserves
<1> QED BY <1>1, <1>2

\* The transaction ends, with or without effect.
LEMMA MarkStep ==
  ASSUME IInv, NEW c \in Calls, DeleteMark(c) \/ DeleteMarkFails(c)
  PROVE  IInv'
<1> USE DEF IInv, KeyInvariant
<1> DEFINE a == For[c]
<1>0. /\ pc[c] = "mark" /\ Unlock(c) /\ UNCHANGED <<agent, live, next>>
      /\ Mark(c) \/ (UNCHANGED tok /\ Moves(c, "done", 0))
      /\ Moves(c, "done", 0) \/ Moves(c, "erase", mine[c])
  BY GotoMoves, ReturnMoves DEF DeleteMark, DeleteMarkFails
<1>1. /\ tok[a].id = mine[c] /\ mine[c] # 0 /\ lock[a] = c /\ tok[a] \in Row
      /\ tok[a].status \in {"ACTIVE", "DELETE_PENDING", "DELETED"}
  BY <1>0 DEF DeleterRight, RowTruthful, TypeOK, Row
<1>2. /\ tok' \in [Agents -> Row] /\ \A b \in Agents \ {a} : tok'[b] = tok[b]
      /\ tok'[a].id = tok[a].id
      /\ tok'[a].status = "DELETE_PENDING" \/ (tok'[a] = tok[a] /\ Moves(c, "done", 0))
  <2>1. CASE UNCHANGED tok /\ Moves(c, "done", 0)
    BY <2>1 DEF TypeOK
  <2>2. CASE Mark(c)
    BY <1>1, <2>2 DEF Mark, TypeOK, Row
  <2> QED BY <1>0, <2>1, <2>2
<1>3. TypeOK' /\ Local(c)
  <2>1. /\ pc' \in [Calls -> {"idle", "done", "dead"} \cup Creating \cup Deleting]
        /\ mine' \in [Calls -> Nat]
        /\ \A d \in Calls \ {c} : pc'[d] = pc[d] /\ mine'[d] = mine[d]
    BY <1>0 DEF TypeOK, Moves, Deleting
  <2>2. /\ lock' \in [Agents -> Calls \cup {NoCall}]
        /\ \A b \in Agents \ {a} : lock'[b] = lock[b]
    BY <1>0 DEF TypeOK, Unlock
  <2> QED BY <1>0, <1>2, <2>1, <2>2 DEF TypeOK, Local, Moves
<1>4. RowTruthful(a)'
  BY <1>0, <1>1, <1>2 DEF RowTruthful
<1>5. \A d \in Calls : For[d] = a => CreatorAlone(d)'
  BY <1>0, <1>1 DEF CreatorAlone, TypeOK, Creating, Moves
<1>6. \A d \in Calls : For[d] = a => DeleterRight(d)'
  <2> SUFFICES ASSUME NEW d \in Calls, For[d] = a PROVE DeleterRight(d)'
    OBVIOUS
  <2>1. CASE d # c
    BY <1>0, <1>1, <1>2, <2>1 DEF DeleterRight, TypeOK, Moves
  <2>2. CASE d = c
    BY <1>0, <1>1, <1>2, <2>2 DEF DeleterRight, TypeOK, Moves, RowTruthful
  <2> QED BY <2>1, <2>2
<1> QED BY <1>3, <1>4, <1>5, <1>6, LocalPreserves

\* The deletion at Kovar, whose answer may be lost.
LEMMA EraseStep ==
  ASSUME IInv, NEW c \in Calls, DeleteErase(c) \/ DeleteEraseFails(c)
  PROVE  IInv'
<1> USE DEF IInv, KeyInvariant
<1> DEFINE a == For[c]
<1>0. /\ pc[c] = "erase" /\ UNCHANGED <<agent, lock, tok, next>>
      /\ live' = [live EXCEPT ![a] = live'[a]]
      /\ live'[a] \in {live[a], live[a] \ {mine[c]}}
      /\ \/ Moves(c, "done", 0)
         \/ Moves(c, "settle", mine[c]) /\ live'[a] = live[a] \ {mine[c]}
  BY GotoMoves, ReturnMoves DEF DeleteErase, DeleteEraseFails, EraseFailed, Erase, TypeOK
<1>1. TypeOK' /\ Local(c)
  BY <1>0 DEF TypeOK, Local, Moves, Deleting
<1>2. /\ mine[c] \in 1 .. next - 1
      /\ mine[c] \in live[a] => tok[a].id = mine[c] /\ tok[a].status = "DELETE_PENDING"
  BY <1>0 DEF DeleterRight
<1>3. RowTruthful(a)'
  BY <1>0, <1>2 DEF RowTruthful
<1>4. \A d \in Calls : For[d] = a => CreatorAlone(d)'
  BY <1>0, <1>2 DEF CreatorAlone, TypeOK, Creating, Moves
<1>5. \A d \in Calls : For[d] = a => DeleterRight(d)'
  BY <1>0, <1>2 DEF DeleterRight, TypeOK, Moves
<1> QED BY <1>1, <1>3, <1>4, <1>5, LocalPreserves

\* The last transaction of DeleteKey, which holds no lock.
LEMMA SettleStep ==
  ASSUME IInv, NEW c \in Calls, DeleteSettle(c) \/ DeleteSettleFails(c)
  PROVE  IInv'
<1> USE DEF IInv, KeyInvariant
<1> DEFINE a == For[c]
<1>0. /\ pc[c] = "settle" /\ Moves(c, "done", 0) /\ UNCHANGED <<agent, lock, live, next>>
      /\ Settle(c) \/ UNCHANGED tok
  BY ReturnMoves DEF DeleteSettle, DeleteSettleFails
<1>1. CASE UNCHANGED tok
  BY <1>0, <1>1, ReturnOnly
<1>2. CASE ~ UNCHANGED tok
  <2>0. tok[a].id = mine[c] /\ mine[c] \in 1 .. next - 1 /\ mine[c] \notin live[a]
    BY <1>0, <1>2 DEF Settle, DeleterRight
  <2>1. tok[a].status \in {"DELETE_PENDING", "DELETED"} /\ live[a] = {}
    BY <2>0 DEF RowTruthful, TypeOK, Row
  <2>2. /\ tok' = [tok EXCEPT ![a] = tok'[a]]
        /\ tok'[a] \in Row /\ tok'[a].status = "DELETED" /\ tok'[a].id = tok[a].id
    BY <1>0, <1>2, <2>0 DEF Settle, TypeOK, Row
  <2>3. TypeOK' /\ Local(c)
    BY <1>0, <2>2 DEF TypeOK, Local, Moves
  <2>4. RowTruthful(a)'
    BY <1>0, <2>0, <2>1, <2>2 DEF RowTruthful
  <2>5. \A d \in Calls : For[d] = a => CreatorAlone(d)'
    BY <1>0, <2>1 DEF CreatorAlone, TypeOK, Creating, Moves
  <2>6. \A d \in Calls : For[d] = a => DeleterRight(d)'
    BY <1>0, <2>1, <2>2 DEF DeleterRight, TypeOK, Moves
  <2> QED BY <2>3, <2>4, <2>5, <2>6, LocalPreserves
<1> QED BY <1>1, <1>2

\* The revocation changes the agent's status and begins a deletion.
LEMMA RevokeStep ==
  ASSUME IInv, NEW c \in Calls, Revoke(c)
  PROVE  IInv'
<1> USE DEF IInv, KeyInvariant
<1>0. Moves(c, "select", 0) /\ UNCHANGED <<lock, tok, live, next>>
  BY GotoMoves DEF Revoke
<1>1. agent' \in [Agents -> AgentRows]
  BY TransitionType DEF Revoke, TypeOK, ReviewActions
<1>2. TypeOK' /\ Local(c)
  BY <1>0, <1>1 DEF TypeOK, Local, Moves, Deleting
<1>3. RowTruthful(For[c])'
  BY <1>0 DEF RowTruthful
<1>4. \A d \in Calls : CreatorAlone(d)' /\ DeleterRight(d)'
  BY <1>0 DEF CreatorAlone, DeleterRight, TypeOK, Creating, Moves
<1> QED BY <1>2, <1>3, <1>4, LocalPreserves

\* Every step of a call preserves the invariant.
LEMMA CallStepInvariant == ASSUME IInv, NEW c \in Calls, CallStep(c) PROVE IInv'
  BY AdmitStep, PostStep, IdentifyStep, FailureStep, StoreStep, SelectStep, MarkStep,
     EraseStep, SettleStep, RevokeStep DEF CallStep, CreateStep, DeleteStep

\* Steps that no call takes by itself.
LEMMA OtherStepInvariant ==
  ASSUME IInv, \/ \E c \in Calls : Repeat(c)
               \/ \E a \in Agents : \E action \in Reviews : Review(a, action)
               \/ Crash \/ UNCHANGED vars
  PROVE  IInv'
<1> USE DEF IInv, KeyInvariant
<1>1. TypeOK'
  BY TransitionType DEF TypeOK, Repeat, Review, Crash, vars
<1>2. UNCHANGED <<tok, live, next>>
  BY DEF Repeat, Review, Crash, vars
<1>3. \A a \in Agents : RowTruthful(a)'
  BY <1>2 DEF RowTruthful
<1>4. \A c \in Calls : CreatorAlone(c)'
  BY <1>2 DEF CreatorAlone, TypeOK, Creating, Repeat, Review, Crash, vars
<1>5. \A c \in Calls : DeleterRight(c)'
  BY <1>2 DEF DeleterRight, TypeOK, Deleting, Repeat, Review, Crash, vars
<1> QED BY <1>1, <1>3, <1>4, <1>5

-----------------------------------------------------------------------------
(* Keys of revoked agents *)

\* The revoke that has yet to mark the key of agent a.
Excuse(c, a) ==
  /\ Op[c] = "revoke" /\ For[c] = a
  /\ \/ pc[c] \in {"select", "mark", "dead"}
     \/ pc[c] = "done" /\ result[c] = "ERROR"
     \/ pc[c] = "idle" /\ c \in Repeating

\* A key becomes ACTIVE only while its agent is usable.
LEMMA ActiveOrigin ==
  ASSUME TypeOK, NEW c \in Calls, CallStep(c), NEW a \in Agents,
         agent'[a].status = "REVOKED", tok'[a].status = "ACTIVE"
  PROVE  tok[a].status = "ACTIVE"
<1> USE DEF TypeOK
<1>0. tok[a] \in Row
  OBVIOUS
<1>1. CASE UNCHANGED tok
  BY <1>1
<1>2. CASE Store(c) /\ UNCHANGED agent
  <2>1. CASE a # For[c]
    BY <1>2, <2>1 DEF Store
  <2>2. CASE a = For[c]
    BY <1>2, <2>2 DEF Store, StoreStatus, Usable
  <2> QED BY <2>1, <2>2
<1>3. CASE Reserve(For[c])
  <2>1. CASE a # For[c]
    BY <1>3, <2>1 DEF Reserve
  <2>2. CASE a = For[c]
    <3>1. tok'[a] = [tok[a] EXCEPT !.status = "CREATING", !.id = 0, !.key = FALSE]
      BY <1>3, <2>2 DEF Reserve
    <3> QED BY <1>0, <3>1 DEF Row
  <2> QED BY <2>1, <2>2
<1>4. CASE Mark(c) \/ Settle(c) \/ tok' = [tok EXCEPT ![For[c]].status = "UNKNOWN"]
  BY <1>0, <1>4 DEF Mark, Settle, Row
<1> QED
  BY <1>1, <1>2, <1>3, <1>4
     DEF CallStep, CreateStep, DeleteStep, Revoke, CreateAdmit, CreateInvalid,
         CreateAdmitUnknown, CreatePost, CreatePostFails, CreateIdentify,
         CreateIdentifyFails, RecordKeyFailure, CreateStore, CreateStoreFails,
         DeleteSelect, DeleteMark, DeleteMarkFails, DeleteErase, DeleteEraseFails,
         DeleteSettle, DeleteSettleFails

\* An agent becomes REVOKED only when a revoke begins.
LEMMA RevokedOrigin ==
  ASSUME TypeOK, NEW c \in Calls, CallStep(c), NEW a \in Agents,
         agent'[a].status = "REVOKED"
  PROVE  agent[a].status = "REVOKED" \/ Excuse(c, a)'
<1> USE DEF TypeOK
<1>1. CASE UNCHANGED agent
  BY <1>1
<1>2. CASE Revoke(c)
  <2>1. CASE a # For[c]
    BY <1>2, <2>1 DEF Revoke
  <2>2. CASE a = For[c]
    BY <1>2, <2>2 DEF Revoke, Goto, Excuse
  <2> QED BY <2>1, <2>2
<1> QED
  BY <1>1, <1>2
     DEF CallStep, CreateStep, DeleteStep, CreateAdmit, CreateInvalid,
         CreateAdmitUnknown, CreatePost, CreatePostFails, CreateIdentify,
         CreateIdentifyFails, RecordKeyFailure, CreateStore, CreateStoreFails,
         DeleteSelect, DeleteMark, DeleteMarkFails, DeleteErase, DeleteEraseFails,
         DeleteSettle, DeleteSettleFails

\* A revoke stops excusing only when the key is marked.
LEMMA ExcuseKept ==
  ASSUME TypeOK, NEW c \in Calls, NEW d \in Calls, CallStep(c), NEW a \in Agents,
         Excuse(d, a), tok[a].status = "ACTIVE", tok'[a].status = "ACTIVE"
  PROVE  Excuse(d, a)'
<1> USE DEF TypeOK
<1>1. CASE d # c
  <2>1. pc'[d] = pc[d] /\ result'[d] = result[d]
    BY <1>1 DEF CallStep, CreateStep, DeleteStep, Revoke, CreateAdmit, CreateInvalid,
         CreateAdmitUnknown, CreatePost, CreatePostFails, CreateIdentify,
         CreateIdentifyFails, RecordKeyFailure, CreateStore, CreateStoreFails,
         DeleteSelect, DeleteMark, DeleteMarkFails, DeleteErase, DeleteEraseFails, EraseFailed,
         DeleteSettle, DeleteSettleFails, Goto, Return
  <2> QED BY <2>1 DEF Excuse
<1>2. CASE d = c
  <2>0. Op[c] = "revoke" /\ For[c] = a /\ pc[c] \in {"select", "mark", "dead", "done", "idle"}
    BY <1>2 DEF Excuse
  <2>1. CASE Revoke(c)
    BY <1>2, <2>0, <2>1 DEF Revoke, Goto, Excuse
  <2>2. CASE DeleteSelect(c)
    BY <1>2, <2>0, <2>2 DEF DeleteSelect, Goto, Excuse
  <2>3. CASE DeleteMark(c)
    <3>1. tok'[a].status = "DELETE_PENDING"
      BY <2>0, <2>3 DEF DeleteMark, Mark, Row
    <3> QED BY <3>1
  <2>4. CASE DeleteMarkFails(c)
    BY <1>2, <2>0, <2>4 DEF DeleteMarkFails, Return, Excuse
  <2> QED
    BY <2>0, <2>1, <2>2, <2>3, <2>4
       DEF CallStep, CreateStep, DeleteStep, CreateAdmit, CreateInvalid,
           CreateAdmitUnknown, CreatePost, CreatePostFails, CreateIdentify,
           CreateIdentifyFails, RecordKeyFailure, CreateStore, CreateStoreFails,
           DeleteErase, DeleteEraseFails, DeleteSettle, DeleteSettleFails
<1> QED BY <1>1, <1>2

\* RevokedKeyExcused is inductive, given the types.
LEMMA ExcusedStep ==
  ASSUME TypeOK, RevokedKeyExcused, [Next]_vars
  PROVE  RevokedKeyExcused'
<1> SUFFICES ASSUME NEW a \in Agents, agent'[a].status = "REVOKED", tok'[a].status = "ACTIVE"
             PROVE  \E d \in Calls : Excuse(d, a)'
  BY DEF RevokedKeyExcused, Excuse
<1>0. ASSUME agent[a].status = "REVOKED", tok[a].status = "ACTIVE"
      PROVE  \E d \in Calls : Excuse(d, a)
  BY <1>0 DEF RevokedKeyExcused, Excuse
<1>1. ASSUME NEW c \in Calls, CallStep(c) PROVE \E d \in Calls : Excuse(d, a)'
  <2>1. tok[a].status = "ACTIVE"
    BY <1>1, ActiveOrigin
  <2>2. CASE agent[a].status = "REVOKED"
    <3>1. PICK d \in Calls : Excuse(d, a)
      BY <1>0, <2>1, <2>2
    <3>2. Excuse(d, a)'
      BY <1>1, <2>1, <3>1, ExcuseKept
    <3> QED BY <3>2
  <2>3. CASE agent[a].status # "REVOKED"
    BY <1>1, <2>3, RevokedOrigin
  <2> QED BY <2>2, <2>3
<1>2. ASSUME NEW c \in Calls, Repeat(c) PROVE \E d \in Calls : Excuse(d, a)'
  <2>1. PICK d \in Calls : Excuse(d, a)
    BY <1>0, <1>2 DEF Repeat
  <2>2. Excuse(d, a)'
    BY <1>2, <2>1 DEF Repeat, Excuse, TypeOK
  <2> QED BY <2>2
<1>3. ASSUME NEW b \in Agents, NEW action \in Reviews, Review(b, action)
      PROVE  \E d \in Calls : Excuse(d, a)'
  <2>1. action \in ReviewActions /\ action # "revoke"
    OBVIOUS
  <2>2. agent[a].status = "REVOKED"
    <3>1. CASE b # a
      BY <1>3, <3>1 DEF Review, TypeOK
    <3>2. CASE b = a
      <4>1. agent'[a] = TransitionTo(action)
        BY <1>3, <3>2 DEF Review, TypeOK
      <4>2. TransitionTo(action).status # "REVOKED"
        BY <2>1 DEF TransitionTo, ReviewActions
      <4> QED BY <4>1, <4>2
    <3> QED BY <3>1, <3>2
  <2>3. PICK d \in Calls : Excuse(d, a)
    BY <1>0, <1>3, <2>2 DEF Review
  <2> QED BY <1>3, <2>3 DEF Review, Excuse
<1>4. CASE Crash
  <2>1. PICK d \in Calls : Excuse(d, a)
    BY <1>0, <1>4 DEF Crash
  <2>2. Excuse(d, a)'
    BY <1>4, <2>1 DEF Crash, Excuse, TypeOK, Deleting, Creating
  <2> QED BY <2>2
<1>5. CASE UNCHANGED vars
  BY <1>0, <1>5 DEF vars, Excuse
<1> QED BY <1>1, <1>2, <1>3, <1>4, <1>5 DEF Next, Finished

-----------------------------------------------------------------------------
(* The users of the key *)

\* What admitted the POST of a task.
Checked(u) ==
  \/ quota[u] = [of |-> secret[u], seen |-> "FRESH"]
  \/ quota[u].seen = "DELETE_PENDING"

\* A secret whose token still exists is the one the row names, whatever the row
\* has been through, and the quota is that token's.
UserRight(u) ==
  /\ secret[u] \in 0 .. next - 1
  /\ secret[u] \in live[By[u]] =>
       /\ tok[By[u]].id = secret[u]
       /\ at[u] \in {"fetch", "write"} => asked[u] = secret[u]
       /\ at[u] \in {"admit", "post"} => Checked(u)
  /\ at[u] = "write" => quota[u] = [of |-> asked[u], seen |-> "FRESH"]
  /\ u \in paid => at[u] \in {"done", "dead"} /\ Checked(u)

UseInvariant ==
  /\ UseTypeOK /\ KeyInvariant
  /\ \A u \in Users : UserRight(u)

USE UserAssumption

\* No user has begun either.
LEMMA InitUse == UseInit => UseInvariant
  BY InitInvariant
     DEF UseInit, UseInvariant, UseTypeOK, UsePCs, NoQuota, UserRight, Init, IInv

\* What a step of the keys does to ids: new tokens have new ids, and a row that
\* names a token gives it up only when it is DELETED.
IdsStay ==
  /\ next' \in Nat /\ next' >= next
  /\ \A a \in Agents :
       /\ live'[a] \subseteq live[a] \cup {next}
       /\ tok'[a].status \in {"NONE", "CREATING", "UNKNOWN"}
            => tok[a].status \in {"NONE", "CREATING", "UNKNOWN", "DELETED"}

\* CreateKey gives a row an id only when it had none.
LEMMA CreateStepIds ==
  ASSUME TypeOK, NEW c \in Calls, CreateStep(c)
  PROVE  IdsStay
<1> USE DEF TypeOK, IdsStay
<1>1. CASE CreateAdmit(c) \/ CreateAdmitUnknown(c)
  <2>1. CASE UNCHANGED <<tok, live, next>>
    BY <2>1
  <2>2. CASE Vacant(For[c]) /\ Reserve(For[c]) /\ UNCHANGED <<live, next>>
    <3>1. \A a \in Agents : a # For[c] => tok'[a] = tok[a]
      BY <2>2 DEF Reserve
    <3>2. tok[For[c]].status \in {"NONE", "DELETED"}
      BY <2>2 DEF Vacant
    <3> QED BY <2>2, <3>1, <3>2
  <2> QED BY <1>1, <2>1, <2>2 DEF CreateAdmit, CreateAdmitUnknown
<1>2. CASE CreatePost(c)
  BY <1>2 DEF CreatePost
<1>3. CASE \/ CreateInvalid(c) \/ CreatePostFails(c)
           \/ CreateIdentify(c) \/ CreateIdentifyFails(c)
  BY <1>3 DEF CreateInvalid, CreatePostFails, CreateIdentify, CreateIdentifyFails
<1>4. CASE RecordKeyFailure(c) \/ CreateStore(c) \/ CreateStoreFails(c)
  <2>1. UNCHANGED <<live, next>>
    BY <1>4 DEF RecordKeyFailure, CreateStore, CreateStoreFails
  <2>2. tok' = tok \/ tok[For[c]].status = "CREATING"
    BY <1>4 DEF RecordKeyFailure, CreateStore, CreateStoreFails, Store
  <2>3. \A a \in Agents : a # For[c] => tok'[a] = tok[a]
    BY <1>4 DEF RecordKeyFailure, CreateStore, CreateStoreFails, Store
  <2> QED BY <2>1, <2>2, <2>3
<1> QED BY <1>1, <1>2, <1>3, <1>4 DEF CreateStep

\* DeleteKey changes the status of a row, not its id, unless the row is DELETED.
LEMMA DeleteStepIds ==
  ASSUME TypeOK, NEW c \in Calls, DeleteStep(c)
  PROVE  IdsStay
<1> USE DEF TypeOK, IdsStay
<1>1. CASE DeleteSelect(c)
  BY <1>1 DEF DeleteSelect
<1>2. CASE DeleteMark(c) \/ DeleteMarkFails(c)
  <2>1. CASE UNCHANGED <<tok, live, next>>
    BY <2>1
  <2>2. CASE Mark(c) /\ UNCHANGED <<live, next>>
    <3>1. \A a \in Agents : tok'[a] = tok[a] \/ tok'[a].status = "DELETE_PENDING"
      BY <2>2 DEF Mark, Row
    <3> QED BY <2>2, <3>1
  <2> QED BY <1>2, <2>1, <2>2 DEF DeleteMark, DeleteMarkFails
<1>3. CASE DeleteErase(c) \/ DeleteEraseFails(c)
  <2>1. /\ UNCHANGED <<tok, next>>
        /\ \A a \in Agents : live'[a] \subseteq live[a]
    BY <1>3 DEF DeleteErase, DeleteEraseFails, Erase
  <2> QED BY <2>1
<1>4. CASE DeleteSettle(c) \/ DeleteSettleFails(c)
  <2>1. UNCHANGED <<live, next>>
    BY <1>4 DEF DeleteSettle, DeleteSettleFails
  <2>2. CASE UNCHANGED tok
    BY <2>1, <2>2
  <2>3. CASE Settle(c)
    <3>1. \A a \in Agents : tok'[a] = tok[a] \/ tok'[a].status = "DELETED"
      BY <2>3 DEF Settle, Row
    <3> QED BY <2>1, <3>1
  <2> QED BY <1>4, <2>2, <2>3 DEF DeleteSettle, DeleteSettleFails
<1> QED BY <1>1, <1>2, <1>3, <1>4 DEF DeleteStep

\* No step takes the id from a row that names a token.
LEMMA KeyStepIds ==
  ASSUME TypeOK, \/ \E c \in Calls : CallStep(c) \/ Repeat(c)
                 \/ \E a \in Agents : \E action \in Reviews : Review(a, action)
                 \/ Crash \/ UNCHANGED vars
  PROVE  IdsStay
<1>1. CASE UNCHANGED <<tok, live, next>>
  BY <1>1 DEF TypeOK, IdsStay
<1>2. CASE \E c \in Calls : CreateStep(c) \/ DeleteStep(c)
  BY <1>2, CreateStepIds, DeleteStepIds
<1> QED BY <1>1, <1>2 DEF CallStep, Revoke, Repeat, Review, Crash, vars

\* A secret means what it meant before.
LEMMA SecretStays ==
  ASSUME IInv, IInv', IdsStay, NEW a \in Agents, NEW i \in 0 .. next - 1,
         i \in live'[a], i \in live[a] => tok[a].id = i
  PROVE  i \in live[a] /\ tok'[a].id = i
<1>1. next \in Nat /\ next' \in Nat /\ next' >= next /\ i \in Nat /\ i < next /\ i # next
  BY DEF IdsStay, IInv, TypeOK
<1>2. i \in live[a] /\ tok[a].id = i
  BY <1>1 DEF IdsStay
<1>3. RowTruthful(a) /\ RowTruthful(a)' /\ tok[a] \in Row /\ tok'[a] \in Row
  BY DEF IInv, KeyInvariant, TypeOK
<1>4. i # 0 /\ tok[a].status \in {"ACTIVE", "DELETE_PENDING"}
  BY <1>1, <1>2, <1>3 DEF RowTruthful, Row
<1>5. tok'[a].status \in {"ACTIVE", "DELETE_PENDING", "DELETED"}
  BY <1>3, <1>4 DEF IdsStay, Row
<1>6. tok'[a].id = i
  BY <1>3, <1>5 DEF RowTruthful
<1> QED BY <1>2, <1>6

\* The steps of the keys, seen by the users.
LEMMA UsersKept ==
  ASSUME UseInvariant, TypeOK', KeyInvariant', IdsStay,
         UNCHANGED <<secret, asked, quota, paid>>, at' \in [Users -> UsePCs],
         \A u \in Users : at'[u] = at[u] \/ at'[u] = "dead"
  PROVE  UseInvariant'
<1>1. UseTypeOK'
  BY DEF UseInvariant, UseTypeOK
<1>2. ASSUME NEW u \in Users PROVE UserRight(u)'
  <2>1. UserRight(u) /\ By[u] \in Agents /\ IInv /\ IInv'
    BY DEF UseInvariant, UseTypeOK, IInv
  <2>2. secret[u] \in live'[By[u]] => secret[u] \in live[By[u]] /\ tok'[By[u]].id = secret[u]
    BY <2>1, SecretStays DEF UserRight
  <2>3. secret[u] \in 0 .. next' - 1
    BY <2>1 DEF UserRight, IdsStay, IInv, TypeOK
  <2> QED BY <2>1, <2>2, <2>3 DEF UserRight, Checked
<1> QED BY <1>1, <1>2 DEF UseInvariant

\* The steps of keys leave what users know right.
LEMMA KeyStepInvariant ==
  ASSUME UseInvariant, KeyStep \/ UseFinished \/ UNCHANGED <<vars, use>>
  PROVE  UseInvariant'
<1>1. IInv
  BY DEF UseInvariant, UseTypeOK, IInv
<1>2. \/ \E c \in Calls : CallStep(c) \/ Repeat(c)
      \/ \E a \in Agents : \E action \in Reviews : Review(a, action)
      \/ Crash \/ UNCHANGED vars
  BY DEF KeyStep, UseFinished, Finished
<1>3. IInv' /\ IdsStay
  BY <1>1, <1>2, CallStepInvariant, OtherStepInvariant, KeyStepIds DEF IInv
<1>4. /\ UNCHANGED <<secret, asked, quota, paid>>
      /\ at' \in [Users -> UsePCs] /\ \A u \in Users : at'[u] = at[u] \/ at'[u] = "dead"
  BY DEF KeyStep, UseFinished, use, UseInvariant, UseTypeOK, UsePCs
<1> QED BY <1>3, <1>4, UsersKept DEF IInv

\* A step of one user changes no row but the stored quota.
LEMMA UserStepInvariant ==
  ASSUME UseInvariant, NEW u \in Users, UseStep(u)
  PROVE  UseInvariant'
<1> DEFINE a == By[u]
           row == tok[a]
<1>0. /\ TypeOK /\ UserRight(u) /\ RowTruthful(a) /\ row \in Row /\ a \in Agents
      /\ row.status = "ACTIVE" => row.key
  BY DEF UseInvariant, UseTypeOK, KeyInvariant, TypeOK, RowTruthful
<1>1. /\ UNCHANGED <<agent, lock, live, next, pc, mine, result, crashes>>
      /\ tok' \in [Agents -> Row]
      /\ \A b \in Agents : /\ tok'[b].status = tok[b].status /\ tok'[b].id = tok[b].id
                           /\ tok'[b].key = tok[b].key
  <2>1. CASE UNCHANGED vars
    BY <1>0, <2>1 DEF vars, TypeOK
  <2>2. CASE Write(u)
    BY <1>0, <2>2 DEF Write, TypeOK, Row, UseInvariant, UseTypeOK
  <2> QED BY <2>1, <2>2 DEF UseStep, Begin, Models, Usage, LocalToken, Fetch, Admit, Post, Abandon
<1>2. TypeOK'
  BY <1>0, <1>1 DEF TypeOK
<1>3. KeyInvariant'
  <2>1. \A b \in Agents : RowTruthful(b)'
    BY <1>1 DEF UseInvariant, KeyInvariant, RowTruthful
  <2>2. \A c \in Calls : CreatorAlone(c)' /\ DeleterRight(c)'
    BY <1>1 DEF UseInvariant, KeyInvariant, CreatorAlone, DeleterRight
  <2> QED BY <2>1, <2>2 DEF KeyInvariant
<1>4. /\ UseTypeOK'
      /\ \A v \in Users \ {u} : /\ at'[v] = at[v] /\ secret'[v] = secret[v]
                                /\ asked'[v] = asked[v] /\ quota'[v] = quota[v]
                                /\ v \in paid' <=> v \in paid
  <2> USE <1>0, <1>2 DEF UseInvariant, UseTypeOK, UsePCs, UGoto, Unless
  <2>1. CASE Begin(u)
    <3>1. row.id \in Nat
      BY DEF Row
    <3>2. secret' \in [Users -> Nat] /\ \A v \in Users \ {u} : secret'[v] = secret[v]
      BY <2>1, <3>1 DEF Begin
    <3>3. at' \in [Users -> UsePCs] /\ \A v \in Users \ {u} : at'[v] = at[v]
      BY <2>1 DEF Begin
    <3> QED BY <2>1, <3>2, <3>3 DEF Begin
  <2>2. CASE Models(u) \/ Usage(u) \/ Admit(u) \/ Abandon(u)
    BY <2>2 DEF Models, Usage, Admit, Abandon
  <2>3. CASE LocalToken(u)
    <3>1. row.id \in Nat /\ row.quota \in Nat
      BY DEF Row
    <3>2. ~Refreshes(a) => row.status \in {"NONE", "CREATING", "DELETE_PENDING", "DELETED", "UNKNOWN"}
      BY DEF Refreshes, Bound, Row
    <3>3. CASE Refreshes(a)
      BY <2>3, <3>1, <3>3 DEF LocalToken
    <3>4. CASE ~Refreshes(a)
      BY <2>3, <3>1, <3>2, <3>4 DEF LocalToken
    <3> QED BY <3>3, <3>4
  <2>4. CASE Fetch(u)
    BY <2>4 DEF Fetch
  <2>5. CASE Write(u)
    BY <2>5 DEF Write
  <2>6. CASE Post(u)
    BY <2>6 DEF Post
  <2> QED BY <2>1, <2>2, <2>3, <2>4, <2>5, <2>6 DEF UseStep
<1>5. \A v \in Users \ {u} : UserRight(v)'
  BY <1>1, <1>4 DEF UseInvariant, UserRight, Checked
<1>6. UserRight(u)'
  <2> USE <1>0, <1>1 DEF UserRight, Checked, UseInvariant, UseTypeOK, UGoto, Unless
  <2>1. CASE Begin(u)
    BY <2>1 DEF Begin, Bound, RowTruthful, TypeOK
  <2>2. CASE Models(u) \/ Usage(u) \/ Admit(u) \/ Abandon(u)
    BY <2>2 DEF Models, Usage, Admit, Abandon
  <2>3. CASE LocalToken(u)
    BY <2>3 DEF LocalToken, Refreshes, Bound, RowTruthful, Row
  <2>4. CASE Fetch(u)
    BY <2>4 DEF Fetch
  <2>5. CASE Write(u)
    BY <2>5 DEF Write
  <2>6. CASE Post(u)
    BY <2>6 DEF Post
  <2> QED BY <2>1, <2>2, <2>3, <2>4, <2>5, <2>6 DEF UseStep
<1> QED BY <1>3, <1>4, <1>5, <1>6 DEF UseInvariant

\* Rows, tokens, calls and users agree in every reachable state.
LEMMA Invariance == UseSpec => []UseInvariant
<1>1. UseInvariant /\ [UseNext]_<<vars, use>> => UseInvariant'
  BY KeyStepInvariant, UserStepInvariant DEF UseNext
<1> QED BY InitUse, <1>1, PTL DEF UseSpec

-----------------------------------------------------------------------------
(* The theorems; without users they are about CreateKey, DeleteKey and revoke *)

\* Every reachable state is well typed.
THEOREM TypeCorrect == UseSpec => []UseTypeOK
<1>1. UseInvariant => UseTypeOK
  BY DEF UseInvariant
<1> QED BY <1>1, Invariance, PTL

\* CreateKey, DeleteKey and revoke never leave an agent with two tokens.
THEOREM TokensAreSingle == UseSpec => []OneLiveToken
<1>1. UseInvariant => OneLiveToken
  <2> SUFFICES ASSUME UseInvariant, NEW a \in Agents PROVE Cardinality(live[a]) <= 1
    BY DEF OneLiveToken
  <2>1. \A i, j \in live[a] : i = j
    BY DEF UseInvariant, KeyInvariant, RowTruthful
  <2>2. CASE live[a] = {}
    BY <2>2, FS_EmptySet
  <2>3. CASE live[a] # {}
    <3>1. PICK i : i \in live[a]
      BY <2>3
    <3>2. live[a] = {i}
      BY <2>1, <3>1
    <3>3. Cardinality({i}) = 1
      BY FS_Singleton
    <3> QED BY <3>2, <3>3
  <2> QED BY <2>2, <2>3
<1> QED BY <1>1, Invariance, PTL

\* A row that says DELETED, or is absent, means that Kovar has no token.
THEOREM DeletedAreGone == UseSpec => []DeletedMeansGone
<1>1. UseInvariant => DeletedMeansGone
  BY DEF UseInvariant, KeyInvariant, RowTruthful, DeletedMeansGone
<1> QED BY <1>1, Invariance, PTL

\* A key that tasks can read exists at Kovar.
THEOREM ActiveKeysExist == UseSpec => []ActiveKeyExists
<1>1. UseInvariant => ActiveKeyExists
  BY DEF UseInvariant, KeyInvariant, RowTruthful, ActiveKeyExists
<1> QED BY <1>1, Invariance, PTL

\* A revoked agent has a readable key only while a revoke has yet to mark it, or
\* failed or died before it could; CreateKey never hands it a new one.
THEOREM RevokedKeysAreExcused == Spec => []RevokedKeyExcused
<1>1. Init => RevokedKeyExcused
  BY DEF Init, RevokedKeyExcused
<1>2. IInv /\ RevokedKeyExcused /\ [Next]_vars => IInv' /\ RevokedKeyExcused'
  <2> SUFFICES ASSUME IInv, RevokedKeyExcused, [Next]_vars
               PROVE  IInv' /\ RevokedKeyExcused'
    OBVIOUS
  <2>1. IInv'
    BY CallStepInvariant, OtherStepInvariant DEF Next, Finished
  <2>2. RevokedKeyExcused'
    BY ExcusedStep DEF IInv
  <2> QED BY <2>1, <2>2
<1> QED BY InitInvariant, <1>1, <1>2, PTL DEF Spec

\* The token whose quota was checked is the one that pays.
THEOREM CheckedTokensPay == UseSpec => []CheckedTokenPays
<1>1. UseInvariant => CheckedTokenPays
  BY DEF UseInvariant, UseTypeOK, UserRight, Checked, CheckedTokenPays
<1> QED BY <1>1, Invariance, PTL
=============================================================================
