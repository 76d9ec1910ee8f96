---------------------------- MODULE KovarBinding ----------------------------
(***************************************************************************)
(* Binding an agent to its Kovar user (Login, TwoFA and Bind of            *)
(* internal/binding/service.go): the agent's credential is checked by      *)
(* Kovar, in one or two steps, confirmed by GET /api/user/self and stored  *)
(* under the agent's row lock, while other calls of the same agent, its    *)
(* administrator and the minute ticker work on the same rows.              *)
(*                                                                         *)
(* A credential is an account's session or access token together with the  *)
(* user id it is presented with.  Whose it is, only Kovar knows.           *)
(***************************************************************************)
EXTENDS AgentStatus, Naturals

CONSTANTS
  Agents,      \* the registered agents
  Users,       \* Kovar users
  TwoFactor,   \* the users who have to confirm a login with a code
  Calls,       \* calls of Login, TwoFA and Bind
  Input,       \* what each of them is and carries
  Reviews,     \* review actions an administrator may take
  TTL,         \* how long a pending login is valid: five minutes
  MaxNow,      \* bound: the last moment
  MaxCrashes,  \* bound: crashes of the gateway process
  Faults,      \* whether a database call may fail
  None         \* no user, no credential, no row

\* owner is the user whose password, code or access token the call carries,
\* claim the user id that a call of Bind gives with it.
ASSUME InputAssumption ==
  Input \in [Calls -> [op : {"login", "2fa", "bind"}, agent : Agents,
                       owner : Users, claim : Users]]

Credentials == [owner : Users, claim : Users \cup {None}]
Bindings == [user : Users, cred : Credentials]
Pendings == [cred : Credentials, expires : Nat]

ASSUME BoundAssumption ==
  /\ TwoFactor \subseteq Users
  /\ Reviews \subseteq ReviewActions
  /\ TTL \in Nat /\ MaxNow \in Nat /\ MaxCrashes \in Nat
  /\ Faults \in BOOLEAN
  /\ None \notin Users \cup Bindings

VARIABLES
  now,      \* the database clock
  agent,    \* agents and agent_whitelist
  binding,  \* agent_user_bindings
  pending,  \* pending_kovar_logins
  pc,       \* where each call stands
  cred,     \* the credential it works with
  reply,    \* what each call was answered
  crashes   \* crashes so far

vars == <<now, agent, binding, pending, pc, cred, reply, crashes>>
rows == <<now, agent, binding, pending>>

Running == {"login", "pending", "2fa", "active", "self", "store"}

TypeOK ==
  /\ now \in Nat
  /\ agent \in [Agents -> AgentRows]
  /\ binding \in [Agents -> Bindings \cup {None}]
  /\ pending \in [Agents -> Pendings \cup {None}]
  /\ pc \in [Calls -> {"idle", "done", "dead"} \cup Running]
  /\ cred \in [Calls -> Credentials \cup {None}]
  /\ reply \in [Calls -> {"NONE", "BOUND", "CONTINUE", "REFUSED", "FAULT"}]
  /\ crashes \in Nat

Init ==
  /\ now = 0
  /\ agent = [a \in Agents |-> [status |-> "ACTIVE", whitelist |-> "APPROVED"]]
  /\ binding = [a \in Agents |-> None]
  /\ pending = [a \in Agents |-> None]
  /\ pc = [c \in Calls |-> "idle"]
  /\ cred = [c \in Calls |-> None]
  /\ reply = [c \in Calls |-> "NONE"]
  /\ crashes = 0

-----------------------------------------------------------------------------
AgentOf(c) == Input[c].agent

Goto(c, step, k) ==
  /\ pc' = [pc EXCEPT ![c] = step]
  /\ cred' = [cred EXCEPT ![c] = k]
  /\ UNCHANGED <<reply, crashes>>

Return(c, code) ==
  /\ pc' = [pc EXCEPT ![c] = "done"]
  /\ cred' = [cred EXCEPT ![c] = None]
  /\ reply' = [reply EXCEPT ![c] = code]
  /\ UNCHANGED crashes

\* identity.Active, without a lock, and on to the next step or an error.
CheckActive(c, step, k) ==
  IF Usable(agent[AgentOf(c)]) THEN Goto(c, step, k) ELSE Return(c, "REFUSED")

-----------------------------------------------------------------------------
(* Login and TwoFA *)

LoginStart(c) ==
  /\ pc[c] = "idle" /\ Input[c].op = "login"
  /\ CheckActive(c, "login", None)
  /\ UNCHANGED rows

\* Kovar accepts the password and names the user: Login goes on with Bind.
LoginComplete(c) ==
  /\ pc[c] = "login" /\ Input[c].owner \notin TwoFactor
  /\ Goto(c, "active", [owner |-> Input[c].owner, claim |-> Input[c].owner])
  /\ UNCHANGED rows

\* Mutant: the validity is counted backwards.
SuspendBackwards(a, k) == pending' = [pending EXCEPT ![a] = [cred |-> k, expires |-> now - TTL]]

\* The upsert of the agent's pending login, without any lock.
Suspend(a, k) == pending' = [pending EXCEPT ![a] = [cred |-> k, expires |-> now + TTL]]

\* It accepts the password but names no user: the session is kept for TwoFA.
LoginSuspend(c) ==
  /\ pc[c] = "login" /\ Input[c].owner \in TwoFactor
  /\ Suspend(AgentOf(c), [owner |-> Input[c].owner, claim |-> None])
  /\ Return(c, "CONTINUE")
  /\ UNCHANGED <<now, agent, binding>>

\* The upsert took effect but Login saw an error.
LoginSuspendUnknown(c) ==
  /\ pc[c] = "login" /\ Input[c].owner \in TwoFactor /\ Faults
  /\ Suspend(AgentOf(c), [owner |-> Input[c].owner, claim |-> None])
  /\ Return(c, "FAULT")
  /\ UNCHANGED <<now, agent, binding>>

TwoFAStart(c) ==
  /\ pc[c] = "idle" /\ Input[c].op = "2fa"
  /\ CheckActive(c, "pending", None)
  /\ UNCHANGED rows

\* The session of the pending login is read, if it has not expired.
TwoFARead(c) ==
  LET p == pending[AgentOf(c)]
  IN  /\ pc[c] = "pending"
      /\ IF p # None /\ p.expires > now THEN Goto(c, "2fa", p.cred)
                                        ELSE Return(c, "REFUSED")
      /\ UNCHANGED rows

\* Kovar accepts a code of the user whose session it was given, whatever login
\* the agent has pending by now, and names that user.
TwoFAConfirm(c) ==
  /\ pc[c] = "2fa" /\ Input[c].owner = cred[c].owner
  /\ Goto(c, "active", [cred[c] EXCEPT !.claim = cred[c].owner])
  /\ UNCHANGED rows

\* Kovar rejects the password or the code, or does not answer.
Rejected(c) ==
  /\ pc[c] \in {"login", "2fa"}
  /\ Return(c, "REFUSED")
  /\ UNCHANGED rows

-----------------------------------------------------------------------------
(* Bind *)

BindStart(c) ==
  /\ pc[c] = "idle" /\ Input[c].op = "bind"
  /\ Goto(c, "active", [owner |-> Input[c].owner, claim |-> Input[c].claim])
  /\ UNCHANGED rows

BindActive(c) ==
  /\ pc[c] = "active"
  /\ CheckActive(c, "self", cred[c])
  /\ UNCHANGED rows

\* Mutant: the user of the answer is not compared with the claimed one.
ConfirmsAnyone(k) == TRUE

\* u.ID = cred.UserID in Self: Kovar answers with the credential's owner.
Confirms(k) == k.owner = k.claim

\* GET /api/user/self; it may fail, too.
Self(c) ==
  /\ pc[c] = "self"
  /\ (Confirms(cred[c]) /\ Goto(c, "store", cred[c])) \/ Return(c, "REFUSED")
  /\ UNCHANGED rows

\* Mutant: a binding is replaced by the latest one.
RebindAllowed(a, u) == TRUE

\* existing != u.ID is KOVAR_USER_REBIND_FORBIDDEN.
MayBind(a, u) == binding[a] # None => binding[a].user = u

\* Mutant: the transaction of Bind locks the agent but does not look at it.
AuthorizedBefore(a) == TRUE

\* The LockActive of Bind's transaction.
Authorized(a) == Usable(agent[a])

\* The binding is stored, or the session of the existing one replaced, and the
\* agent's pending login deleted.
Stored(c) ==
  LET a == AgentOf(c)
  IN  /\ binding' = [binding EXCEPT ![a] =
            IF @ = None THEN [user |-> cred[c].owner, cred |-> cred[c]]
                        ELSE [@ EXCEPT !.cred = cred[c]]]
      /\ pending' = [pending EXCEPT ![a] = None]
      /\ UNCHANGED <<now, agent>>

\* The transaction of Bind: the binding is written under the agent's row lock
\* only, so the transaction is one step.
Bind(c) ==
  LET a == AgentOf(c)
  IN  /\ pc[c] = "store"
      /\ IF Authorized(a) /\ MayBind(a, cred[c].owner)
           THEN Stored(c) /\ Return(c, "BOUND")
           ELSE Return(c, "REFUSED") /\ UNCHANGED rows

\* Its commit took effect but Bind saw an error.
BindUnknown(c) ==
  LET a == AgentOf(c)
  IN  /\ pc[c] = "store" /\ Faults
      /\ Authorized(a) /\ MayBind(a, cred[c].owner)
      /\ Stored(c)
      /\ Return(c, "FAULT")

\* A database call fails without effect.
Fail(c) ==
  /\ pc[c] \in Running /\ Faults
  /\ Return(c, "FAULT")
  /\ UNCHANGED rows

-----------------------------------------------------------------------------
(* The administrator, the sweep, the clock and crashes *)

Review(a, action) ==
  /\ TransitionAllowed(agent[a], action)
  /\ agent' = [agent EXCEPT ![a] = TransitionTo(action)]
  /\ UNCHANGED <<now, binding, pending, pc, cred, reply, crashes>>

\* binding.Cleanup
Sweep ==
  /\ pending' = [a \in Agents |->
       IF pending[a] # None /\ pending[a].expires < now THEN None ELSE pending[a]]
  /\ UNCHANGED <<now, agent, binding, pc, cred, reply, crashes>>

Tick ==
  /\ now < MaxNow
  /\ now' = now + 1
  /\ UNCHANGED <<agent, binding, pending, pc, cred, reply, crashes>>

\* The process dies; what it knew of sessions is lost.
Crash ==
  /\ crashes < MaxCrashes
  /\ crashes' = crashes + 1
  /\ pc' = [c \in Calls |-> IF pc[c] \in Running THEN "dead" ELSE pc[c]]
  /\ cred' = [c \in Calls |-> None]
  /\ UNCHANGED <<now, agent, binding, pending, reply>>

CallStep(c) ==
  \/ LoginStart(c) \/ LoginComplete(c) \/ LoginSuspend(c)
  \/ TwoFAStart(c) \/ TwoFARead(c) \/ TwoFAConfirm(c) \/ Rejected(c)
  \/ BindStart(c) \/ BindActive(c) \/ Self(c) \/ Bind(c)

FaultStep(c) == LoginSuspendUnknown(c) \/ BindUnknown(c) \/ Fail(c)

Next ==
  \/ \E c \in Calls : CallStep(c) \/ FaultStep(c)
  \/ \E a \in Agents : \E action \in Reviews : Review(a, action)
  \/ Sweep \/ Tick \/ Crash

Spec == Init /\ [][Next]_vars

-----------------------------------------------------------------------------
(* Safety *)

\* Credential's check c.UserID = b.UserID never fails, and the stored session
\* is one of the bound user: however logins of several users, continued with
\* codes, and direct bindings of one agent mix, a binding is never left with a
\* credential of somebody else.
CredentialOfUser ==
  \A a \in Agents : binding[a] # None =>
    binding[a].cred = [owner |-> binding[a].user, claim |-> binding[a].user]

\* A call of Login, TwoFA or Bind that was answered with a binding carried the
\* bound user's own password, code or access token, although a code may meet
\* the session of a login that another call has left since.
BoundByOwner ==
  \A c \in Calls : reply[c] = "BOUND" =>
    binding[AgentOf(c)] # None /\ binding[AgentOf(c)].user = Input[c].owner

\* README.md:9: an agent is bound to one Kovar user; the binding is stored, or
\* its session refreshed, only while the agent is active and approved, and
\* never goes over to another user.
BoundToOneUser ==
  [][\A a \in Agents : binding'[a] # binding[a] =>
       /\ agent[a] = [status |-> "ACTIVE", whitelist |-> "APPROVED"]
       /\ binding[a] # None => binding'[a].user = binding[a].user]_vars
=============================================================================
