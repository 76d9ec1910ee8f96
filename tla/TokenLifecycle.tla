-------------------------- MODULE TokenLifecycle --------------------------
(***************************************************************************)
(* The Kovar key an agent owns (internal/binding/service.go): CreateKey,   *)
(* DeleteKey and the administrator's revoke, which commits the revocation  *)
(* and then calls DeleteKey (internal/app/service.go), over the token row  *)
(* in PostgreSQL and the tokens that exist at Kovar.                       *)
(*                                                                         *)
(* Every transaction here starts by locking the agent row, except the last *)
(* one of DeleteKey and the update of recordKeyFailure, which lock nothing *)
(* but the token row they write.  Only the first transaction of DeleteKey  *)
(* reads the token row before it writes it, so only that one is split.     *)
(***************************************************************************)
EXTENDS AgentStatus, Naturals, FiniteSets

CONSTANTS
  Agents,      \* the registered agents, each with a bound Kovar user
  Calls,       \* calls of CreateKey, DeleteKey and revoke
  Op,          \* which of the three each call is
  For,         \* the agent each call is for
  Reviews,     \* other review actions an administrator may take
  Repeating,   \* calls that are made again after they returned
  Faults,      \* whether a database call or an upstream answer may be lost
  GoneIsOk,    \* whether Kovar answers success for a token it no longer has
  MaxIds,      \* bound: tokens Kovar ever creates
  MaxCrashes,  \* bound: crashes of the gateway process
  NoCall       \* no call: the value of a free lock

ASSUME CallAssumption ==
  /\ Op \in [Calls -> {"create", "delete", "revoke"}]
  /\ For \in [Calls -> Agents]
  /\ Repeating \subseteq Calls
  /\ NoCall \notin Calls

ASSUME BoundAssumption ==
  /\ Reviews \subseteq ReviewActions \ {"revoke"}
  /\ Faults \in BOOLEAN /\ GoneIsOk \in BOOLEAN
  /\ MaxIds \in Nat /\ MaxCrashes \in Nat

VARIABLES
  agent,    \* agents and agent_whitelist
  lock,     \* which DeleteKey holds the agent row FOR UPDATE
  tok,      \* agent_kovar_tokens; id 0 is NULL, quota is whose quota is stored
  live,     \* the tokens each agent has at Kovar
  next,     \* the id of the next token Kovar creates
  pc,       \* where each call stands
  mine,     \* the token id each call works on
  result,   \* how each call ended
  crashes   \* crashes so far

vars == <<agent, lock, tok, live, next, pc, mine, result, crashes>>

Row == [status : {"NONE", "CREATING", "ACTIVE", "DELETE_PENDING", "DELETED", "UNKNOWN"},
        id : Nat, key : BOOLEAN, quota : Nat]

Creating == {"post", "identify", "store", "fail"}
Deleting == {"select", "mark", "erase", "settle"}

TypeOK ==
  /\ agent \in [Agents -> AgentRows]
  /\ lock \in [Agents -> Calls \cup {NoCall}]
  /\ tok \in [Agents -> Row]
  /\ live \in [Agents -> SUBSET Nat]
  /\ next \in Nat \ {0}
  /\ pc \in [Calls -> {"idle", "done", "dead"} \cup Creating \cup Deleting]
  /\ mine \in [Calls -> Nat]
  /\ result \in [Calls -> {"NONE", "OK", "REFUSED", "RECONCILE", "ERROR"}]
  /\ crashes \in Nat

Init ==
  /\ agent = [a \in Agents |-> [status |-> "ACTIVE", whitelist |-> "APPROVED"]]
  /\ lock = [a \in Agents |-> NoCall]
  /\ tok = [a \in Agents |-> [status |-> "NONE", id |-> 0, key |-> FALSE, quota |-> 0]]
  /\ live = [a \in Agents |-> {}]
  /\ next = 1
  /\ pc = [c \in Calls |-> "idle"]
  /\ mine = [c \in Calls |-> 0]
  /\ result = [c \in Calls |-> "NONE"]
  /\ crashes = 0

-----------------------------------------------------------------------------
(* Helpers *)

LockFree(a) == lock[a] = NoCall

\* The call goes on at another step, working on token i.
Goto(c, step, i) ==
  /\ pc' = [pc EXCEPT ![c] = step]
  /\ mine' = [mine EXCEPT ![c] = i]
  /\ UNCHANGED <<result, crashes>>

\* The call returns.  CreateKey answers 403 however the DeleteKey at its end
\* went; Review answers the agent together with DeleteKey's error.
Return(c, code) ==
  /\ pc' = [pc EXCEPT ![c] = "done"]
  /\ mine' = [mine EXCEPT ![c] = 0]
  /\ result' = [result EXCEPT ![c] =
       IF Op[c] = "create" /\ pc[c] \in Deleting THEN "REFUSED" ELSE code]
  /\ UNCHANGED crashes

-----------------------------------------------------------------------------
(* CreateKey *)

\* Mutant: a key whose deletion is not confirmed may be replaced.
VacantPending(a) == tok[a].status \in {"NONE", "DELETED", "DELETE_PENDING"}

\* ON CONFLICT(agent_address) DO UPDATE ... WHERE status='DELETED'
Vacant(a) == tok[a].status \in {"NONE", "DELETED"}

\* The quota columns are left as they are.
Reserve(a) ==
  tok' = [tok EXCEPT ![a] = [@ EXCEPT !.status = "CREATING", !.id = 0, !.key = FALSE]]

\* The first transaction: the agent is locked and authorized, and the only
\* slot for its key is taken before anything is sent to Kovar.
CreateAdmit(c) ==
  LET a == For[c]
  IN  /\ pc[c] = "idle" /\ Op[c] = "create"
      /\ LockFree(a)
      /\ IF Usable(agent[a]) /\ Vacant(a)
           THEN Reserve(a) /\ Goto(c, "post", 0)
           ELSE Return(c, "REFUSED") /\ UNCHANGED tok
      /\ UNCHANGED <<agent, lock, live, next>>

\* The quota or the expiry asked for is outside the policy.
CreateInvalid(c) ==
  /\ pc[c] = "idle" /\ Op[c] = "create"
  /\ LockFree(For[c])
  /\ Return(c, "REFUSED")
  /\ UNCHANGED <<agent, lock, tok, live, next>>

\* Its commit took effect but CreateKey saw an error.
CreateAdmitUnknown(c) ==
  LET a == For[c]
  IN  /\ pc[c] = "idle" /\ Op[c] = "create" /\ Faults
      /\ LockFree(a) /\ Usable(agent[a]) /\ Vacant(a)
      /\ Reserve(a)
      /\ Return(c, "ERROR")
      /\ UNCHANGED <<agent, lock, live, next>>

\* POST /api/token/ creates a token at Kovar.
CreatePost(c) ==
  /\ pc[c] = "post" /\ next <= MaxIds
  /\ live' = [live EXCEPT ![For[c]] = @ \cup {next}]
  /\ next' = next + 1
  /\ Goto(c, "identify", next)
  /\ UNCHANGED <<agent, lock, tok>>

\* The POST is rejected or never arrives.
CreatePostFails(c) ==
  /\ pc[c] = "post"
  /\ Goto(c, "fail", 0)
  /\ UNCHANGED <<agent, lock, tok, live, next>>

\* The token CreateToken takes for the new one: the one in the answer, or the
\* only one the search by the agent's token name returns.
Identified(c) ==
  {mine[c]} \cup {i \in live[For[c]] : live[For[c]] = {i}}

\* The token is identified and its full key fetched.
CreateIdentify(c) ==
  /\ pc[c] = "identify"
  /\ \E i \in Identified(c) : Goto(c, "store", i)
  /\ UNCHANGED <<agent, lock, tok, live, next>>

\* The answer is lost, the search is not conclusive or the key not available.
CreateIdentifyFails(c) ==
  /\ pc[c] = "identify"
  /\ Goto(c, "fail", 0)
  /\ UNCHANGED <<agent, lock, tok, live, next>>

\* recordKeyFailure: its update is best effort and nobody holds a lock.
RecordKeyFailure(c) ==
  LET a == For[c]
  IN  /\ pc[c] = "fail"
      /\ \/ tok' = IF tok[a].status = "CREATING"
                     THEN [tok EXCEPT ![a].status = "UNKNOWN"] ELSE tok
         \/ Faults /\ UNCHANGED tok
      /\ Return(c, "ERROR")
      /\ UNCHANGED <<agent, lock, live, next>>

\* Mutant: the agent's status is not checked again after the upstream call.
StoreActive(a) == "ACTIVE"

\* The agent may have lost its authorization while Kovar made the token.
StoreStatus(a) == IF Usable(agent[a]) THEN "ACTIVE" ELSE "DELETE_PENDING"

\* UPDATE ... WHERE status='CREATING'
Store(c) ==
  /\ tok[For[c]].status = "CREATING"
  /\ tok' = [tok EXCEPT ![For[c]] =
               [status |-> StoreStatus(For[c]), id |-> mine[c], key |-> TRUE,
                quota |-> mine[c]]]

\* The second transaction; a key that must not be used is deleted at once.  The
\* reservation is exclusive, so the row is still CREATING: if it were not, the
\* step would be disabled and the search for deadlocks would tell.
CreateStore(c) ==
  /\ pc[c] = "store"
  /\ LockFree(For[c])
  /\ Store(c)
  /\ IF StoreStatus(For[c]) = "ACTIVE" THEN Return(c, "OK") ELSE Goto(c, "select", 0)
  /\ UNCHANGED <<agent, lock, live, next>>

\* The second transaction reports an error, whether or not it took effect.
\* Nothing marks the row UNKNOWN then.
CreateStoreFails(c) ==
  /\ pc[c] = "store" /\ Faults
  /\ UNCHANGED tok \/ (LockFree(For[c]) /\ Store(c))
  /\ Return(c, "ERROR")
  /\ UNCHANGED <<agent, lock, live, next>>

-----------------------------------------------------------------------------
(* DeleteKey *)

\* Its first transaction locks the agent row and reads the token row, which
\* the lock does not protect from the last transaction of another DeleteKey.
DeleteSelect(c) ==
  LET a == For[c]
  IN  /\ pc[c] = "select" \/ (pc[c] = "idle" /\ Op[c] = "delete")
      /\ LockFree(a)
      /\ \/ /\ tok[a].status \in {"NONE", "DELETED"}
            /\ Return(c, "OK") /\ UNCHANGED lock
         \/ /\ tok[a].status \in {"CREATING", "UNKNOWN"}
            /\ Return(c, "RECONCILE") /\ UNCHANGED lock
         \/ /\ tok[a].status \in {"ACTIVE", "DELETE_PENDING"}
            /\ Goto(c, "mark", tok[a].id)
            /\ lock' = [lock EXCEPT ![a] = c]
      /\ UNCHANGED <<agent, tok, live, next>>

Unlock(c) == lock' = [lock EXCEPT ![For[c]] = NoCall]

\* Mutant: DeleteKey leaves the local key in use while Kovar deletes it.
MarkNothing(c) == UNCHANGED tok

\* UPDATE ... SET status='DELETE_PENDING' WHERE agent_address=$1
Mark(c) == tok' = [tok EXCEPT ![For[c]].status = "DELETE_PENDING"]

\* The rest of that transaction: from here on the key cannot be read.
DeleteMark(c) ==
  /\ pc[c] = "mark"
  /\ Mark(c)
  /\ Unlock(c)
  /\ Goto(c, "erase", mine[c])
  /\ UNCHANGED <<agent, live, next>>

\* The transaction reports an error, whether or not it took effect.
DeleteMarkFails(c) ==
  /\ pc[c] = "mark" /\ Faults
  /\ UNCHANGED tok \/ Mark(c)
  /\ Unlock(c)
  /\ Return(c, "ERROR")
  /\ UNCHANGED <<agent, live, next>>

Erase(c) == live' = [live EXCEPT ![For[c]] = @ \ {mine[c]}]

\* DELETE /api/token/{id} is answered: success, or KOVAR_NOT_FOUND for a token
\* that is gone, which DeleteKey returns as a failure.
DeleteErase(c) ==
  /\ pc[c] = "erase"
  /\ Erase(c)
  /\ IF mine[c] \in live[For[c]] \/ GoneIsOk THEN Goto(c, "settle", mine[c])
                                              ELSE Return(c, "ERROR")
  /\ UNCHANGED <<agent, lock, tok, next>>

\* Mutant: DeleteKey goes on although Kovar did not confirm.
EraseAnyway(c) == Goto(c, "settle", mine[c])

\* err != nil: the error is audited and returned, the row stays as it is.
EraseFailed(c) == Return(c, "ERROR")

\* No credential, no connection, or a deletion whose answer is lost.
DeleteEraseFails(c) ==
  /\ pc[c] = "erase" /\ Faults
  /\ UNCHANGED live \/ Erase(c)
  /\ EraseFailed(c)
  /\ UNCHANGED <<agent, lock, tok, next>>

\* Mutant: the last transaction looks for the status the first one replaced.
SettleActive(c) ==
  tok' = IF tok[For[c]].id = mine[c] /\ tok[For[c]].status = "ACTIVE"
           THEN [tok EXCEPT ![For[c]].status = "DELETED", ![For[c]].key = FALSE]
           ELSE tok

\* UPDATE ... SET status='DELETED' WHERE agent_address=$1 AND kovar_token_id=$2,
\* which locks nothing and waits for nobody.
Settle(c) ==
  tok' = IF tok[For[c]].id = mine[c]
           THEN [tok EXCEPT ![For[c]].status = "DELETED", ![For[c]].key = FALSE]
           ELSE tok

DeleteSettle(c) ==
  /\ pc[c] = "settle"
  /\ Settle(c)
  /\ Return(c, "OK")
  /\ UNCHANGED <<agent, lock, live, next>>

DeleteSettleFails(c) ==
  /\ pc[c] = "settle" /\ Faults
  /\ UNCHANGED tok \/ Settle(c)
  /\ Return(c, "ERROR")
  /\ UNCHANGED <<agent, lock, live, next>>

-----------------------------------------------------------------------------
(* Reviews, repetition and crashes *)

\* Mutant: the revocation is committed and the key left as it is.
RevokeOnly(c) ==
  LET a == For[c]
  IN  /\ pc[c] = "idle" /\ Op[c] = "revoke"
      /\ LockFree(a)
      /\ TransitionAllowed(agent[a], "revoke")
      /\ agent' = [agent EXCEPT ![a] = TransitionTo("revoke")]
      /\ Return(c, "OK")
      /\ UNCHANGED <<lock, tok, live, next>>

\* app.Review("revoke"): the revocation is committed first, then DeleteKey runs.
Revoke(c) ==
  LET a == For[c]
  IN  /\ pc[c] = "idle" /\ Op[c] = "revoke"
      /\ LockFree(a)
      /\ TransitionAllowed(agent[a], "revoke")
      /\ agent' = [agent EXCEPT ![a] = TransitionTo("revoke")]
      /\ Goto(c, "select", 0)
      /\ UNCHANGED <<lock, tok, live, next>>

Review(a, action) ==
  /\ LockFree(a)
  /\ TransitionAllowed(agent[a], action)
  /\ agent' = [agent EXCEPT ![a] = TransitionTo(action)]
  /\ UNCHANGED <<lock, tok, live, next, pc, mine, result, crashes>>

\* The caller makes the same call again, once it was answered or its
\* connection broke.
Repeat(c) ==
  /\ c \in Repeating /\ pc[c] \in {"done", "dead"}
  /\ pc' = [pc EXCEPT ![c] = "idle"]
  /\ result' = [result EXCEPT ![c] = "NONE"]
  /\ UNCHANGED <<agent, lock, tok, live, next, mine, crashes>>

\* The process dies; open transactions are rolled back.
Crash ==
  /\ crashes < MaxCrashes
  /\ crashes' = crashes + 1
  /\ pc' = [c \in Calls |-> IF pc[c] \in Creating \cup Deleting THEN "dead" ELSE pc[c]]
  /\ mine' = [c \in Calls |-> 0]
  /\ lock' = [a \in Agents |-> NoCall]
  /\ UNCHANGED <<agent, tok, live, next, result>>

-----------------------------------------------------------------------------
(* The specification *)

CreateStep(c) ==
  \/ CreateAdmit(c) \/ CreateInvalid(c) \/ CreateAdmitUnknown(c)
  \/ CreatePost(c) \/ CreatePostFails(c)
  \/ CreateIdentify(c) \/ CreateIdentifyFails(c) \/ RecordKeyFailure(c)
  \/ CreateStore(c) \/ CreateStoreFails(c)

DeleteStep(c) ==
  \/ DeleteSelect(c) \/ DeleteMark(c) \/ DeleteMarkFails(c)
  \/ DeleteErase(c) \/ DeleteEraseFails(c)
  \/ DeleteSettle(c) \/ DeleteSettleFails(c)

CallStep(c) == CreateStep(c) \/ DeleteStep(c) \/ Revoke(c)

\* Every call has returned: the model may stop here, and nowhere else.
Finished ==
  /\ \A c \in Calls : pc[c] \in {"done", "dead"}
  /\ UNCHANGED vars

Next ==
  \/ \E c \in Calls : CallStep(c) \/ Repeat(c)
  \/ \E a \in Agents : \E action \in Reviews : Review(a, action)
  \/ Crash
  \/ Finished

Spec == Init /\ [][Next]_vars

\* A call runs until it returns.  Whoever repeats a call goes on doing so, and
\* does not fail at the same step for ever.
Fairness ==
  /\ \A c \in Calls : WF_vars(CallStep(c))
  /\ \A c \in Repeating :
       /\ WF_vars(Repeat(c))
       /\ SF_vars(DeleteSelect(c)) /\ SF_vars(DeleteMark(c))
       /\ SF_vars(DeleteErase(c)) /\ SF_vars(DeleteSettle(c))

FairSpec == Spec /\ Fairness

-----------------------------------------------------------------------------
(* Safety *)

\* README: one agent owns one Kovar API key.  However CreateKey, DeleteKey and
\* revoke interleave, fail and crash, an agent never has two tokens at Kovar,
\* not even tokens the gateway lost track of.
OneLiveToken ==
  \A a \in Agents : Cardinality(live[a]) <= 1

\* DELETED is written only when Kovar confirmed the deletion: the row never
\* says DELETED, nor is it absent, while the agent has a token at Kovar.
DeletedMeansGone ==
  \A a \in Agents : tok[a].status \in {"NONE", "DELETED"} => live[a] = {}

\* docs/gateway-api.md: local use of the key stops before Kovar deletes it.  A
\* key that tasks can read is one that exists at Kovar.
ActiveKeyExists ==
  \A a \in Agents : tok[a].status = "ACTIVE" => tok[a].key /\ tok[a].id \in live[a]

\* A revoked agent has a readable key only while a revoke has yet to mark it, is
\* about to be repeated, or failed or died before it could.  In particular a
\* CreateKey that was waiting for Kovar during the revocation never activates
\* its key.
RevokedKeyExcused ==
  \A a \in Agents : agent[a].status = "REVOKED" /\ tok[a].status = "ACTIVE" =>
    \E c \in Calls :
      /\ Op[c] = "revoke" /\ For[c] = a
      /\ \/ pc[c] \in {"select", "mark", "dead"}
         \/ pc[c] = "done" /\ result[c] = "ERROR"
         \/ pc[c] = "idle" /\ c \in Repeating

-----------------------------------------------------------------------------
(* Liveness *)

\* A revocation reaches the key: sooner or later it cannot be read any more.
RevocationReachesKey ==
  \A a \in Agents :
    agent[a].status = "REVOKED" ~> [](tok[a].status # "ACTIVE")

\* README: a repeated revoke retries the deletion.  While an administrator
\* repeats it, a pending deletion is confirmed in the end.
PendingDeletionSettles ==
  \A a \in Agents :
    tok[a].status = "DELETE_PENDING" ~> tok[a].status = "DELETED"
=============================================================================
