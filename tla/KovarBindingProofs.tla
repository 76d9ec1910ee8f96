------------------------- MODULE KovarBindingProofs -------------------------
(***************************************************************************)
(* That an agent is bound to one user by that user's own credential, for   *)
(* any number of agents, users and calls.                                  *)
(*                                                                         *)
(* A pending login may be anybody's and may be replaced at any time, so    *)
(* nothing is said of it.  What carries the proof is what a call knows of  *)
(* the credential it holds: from the answer to its code or password on it  *)
(* is its own user's, and after Self that user's in both respects.         *)
(***************************************************************************)
EXTENDS KovarBinding, TLAPS

\* What each step of a call has established about its credential.
CredentialFollowsCode(c) ==
  /\ pc[c] \in {"2fa", "active", "self", "store"} => cred[c] \in Credentials
  /\ pc[c] \in {"active", "self", "store"} => cred[c].owner = Input[c].owner
  /\ pc[c] = "store" => cred[c].claim = Input[c].owner

IInv ==
  /\ TypeOK
  /\ \A c \in Calls : CredentialFollowsCode(c)
  /\ CredentialOfUser
  /\ BoundByOwner

USE InputAssumption, BoundAssumption DEF AgentOf

\* A review leads from a row to a row.
LEMMA TransitionType == \A action \in ReviewActions : TransitionTo(action) \in AgentRows
  BY DEF ReviewActions, TransitionTo, AgentRows, Statuses, Whitelists

\* Nothing is bound and no call has begun.
LEMMA InitInvariant == Init => IInv
  BY DEF Init, IInv, TypeOK, CredentialFollowsCode, CredentialOfUser, BoundByOwner,
         AgentRows, Statuses, Whitelists

\* The steps that leave the bindings alone and do not answer BOUND.
Elsewhere(c) ==
  /\ UNCHANGED binding
  /\ pc' = [pc EXCEPT ![c] = pc'[c]]
  /\ cred' = [cred EXCEPT ![c] = cred'[c]]
  /\ reply' = [reply EXCEPT ![c] = reply'[c]]
  /\ reply'[c] # "BOUND" \/ reply'[c] = reply[c]

\* A step of one call that leaves the bindings alone preserves what is known,
\* if it preserves the types and what the call itself knows.
LEMMA ElsewherePreserves ==
  ASSUME IInv, NEW c \in Calls, Elsewhere(c), TypeOK', CredentialFollowsCode(c)'
  PROVE  IInv'
<1> USE DEF IInv
<1>1. \A d \in Calls : CredentialFollowsCode(d)'
  BY DEF Elsewhere, TypeOK, CredentialFollowsCode
<1>2. CredentialOfUser'
  BY DEF Elsewhere, CredentialOfUser
<1>3. BoundByOwner'
  BY DEF Elsewhere, TypeOK, BoundByOwner
<1> QED BY <1>1, <1>2, <1>3

\* Goto and Return, where the rows keep their types.
LEMMA GotoPreserves ==
  ASSUME IInv, NEW c \in Calls, NEW step \in Running, NEW k \in Credentials \cup {None},
         Goto(c, step, k), UNCHANGED <<agent, binding, now>>,
         pending' \in [Agents -> Pendings \cup {None}],
         step \in {"2fa", "active", "self", "store"} => k \in Credentials,
         step \in {"active", "self", "store"} => k.owner = Input[c].owner,
         step = "store" => k.claim = Input[c].owner
  PROVE  IInv'
<1>1. TypeOK'
  BY DEF IInv, TypeOK, Goto
<1>2. CredentialFollowsCode(c)'
  BY DEF IInv, TypeOK, Goto, CredentialFollowsCode
<1>3. Elsewhere(c)
  BY DEF IInv, TypeOK, Goto, Elsewhere
<1> QED BY <1>1, <1>2, <1>3, ElsewherePreserves

\* A call that returns without a binding asserts nothing.
LEMMA ReturnPreserves ==
  ASSUME IInv, NEW c \in Calls, NEW code \in {"CONTINUE", "REFUSED", "FAULT"},
         Return(c, code), UNCHANGED <<agent, binding, now>>,
         pending' \in [Agents -> Pendings \cup {None}]
  PROVE  IInv'
<1>1. TypeOK'
  BY DEF IInv, TypeOK, Return
<1>2. CredentialFollowsCode(c)'
  BY DEF IInv, TypeOK, Return, CredentialFollowsCode
<1>3. Elsewhere(c)
  BY DEF IInv, TypeOK, Return, Elsewhere
<1> QED BY <1>1, <1>2, <1>3, ElsewherePreserves

\* A step that writes no row keeps their types.
LEMMA RowsKept ==
  ASSUME IInv, UNCHANGED rows
  PROVE  UNCHANGED <<agent, binding, now>> /\ pending' \in [Agents -> Pendings \cup {None}]
  BY DEF IInv, TypeOK, rows

\* Login and TwoFA up to the credential that Bind is called with.
LEMMA LoginStep ==
  ASSUME IInv, NEW c \in Calls,
         LoginStart(c) \/ LoginComplete(c) \/ TwoFAStart(c) \/ TwoFARead(c)
           \/ TwoFAConfirm(c) \/ Rejected(c) \/ Fail(c)
  PROVE  IInv'
<1> UNCHANGED <<agent, binding, now>> /\ pending' \in [Agents -> Pendings \cup {None}]
  BY RowsKept DEF LoginStart, LoginComplete, TwoFAStart, TwoFARead, TwoFAConfirm, Rejected, Fail
<1>1. CASE LoginStart(c)
  BY <1>1, GotoPreserves, ReturnPreserves DEF LoginStart, CheckActive, Running
<1>2. CASE LoginComplete(c)
  <2> DEFINE k == [owner |-> Input[c].owner, claim |-> Input[c].owner]
  <2>1. k \in Credentials /\ k.owner = Input[c].owner
    BY DEF Credentials
  <2>2. Goto(c, "active", k)
    BY <1>2 DEF LoginComplete
  <2> QED BY <2>1, <2>2, GotoPreserves DEF Running
<1>3. CASE TwoFAStart(c)
  BY <1>3, GotoPreserves, ReturnPreserves DEF TwoFAStart, CheckActive, Running
<1>4. CASE TwoFARead(c)
  <2>1. CASE Return(c, "REFUSED")
    BY <2>1, ReturnPreserves
  <2>2. CASE pending[AgentOf(c)] # None /\ Goto(c, "2fa", pending[AgentOf(c)].cred)
    <3>1. pending[AgentOf(c)].cred \in Credentials
      BY <2>2 DEF IInv, TypeOK, Pendings
    <3> QED BY <2>2, <3>1, GotoPreserves DEF Running
  <2> QED BY <1>4, <2>1, <2>2 DEF TwoFARead
<1>5. CASE TwoFAConfirm(c)
  <2> DEFINE k == [cred[c] EXCEPT !.claim = cred[c].owner]
  <2>1. cred[c] \in Credentials
    BY <1>5 DEF TwoFAConfirm, IInv, CredentialFollowsCode
  <2>2. k \in Credentials /\ k.owner = Input[c].owner
    BY <1>5, <2>1 DEF TwoFAConfirm, Credentials
  <2>3. Goto(c, "active", k)
    BY <1>5 DEF TwoFAConfirm
  <2> QED BY <2>2, <2>3, GotoPreserves DEF Running
<1>6. CASE Rejected(c) \/ Fail(c)
  BY <1>6, ReturnPreserves DEF Rejected, Fail
<1> QED BY <1>1, <1>2, <1>3, <1>4, <1>5, <1>6

\* The pending login is written; nothing is known of it but its type.
LEMMA SuspendStep ==
  ASSUME IInv, NEW c \in Calls, LoginSuspend(c) \/ LoginSuspendUnknown(c)
  PROVE  IInv'
<1>1. PICK code \in {"CONTINUE", "FAULT"} :
        /\ Suspend(AgentOf(c), [owner |-> Input[c].owner, claim |-> None])
        /\ Return(c, code)
        /\ UNCHANGED <<now, agent, binding>>
  BY DEF LoginSuspend, LoginSuspendUnknown
<1>2. [owner |-> Input[c].owner, claim |-> None] \in Credentials
  BY DEF Credentials
<1>3. pending' \in [Agents -> Pendings \cup {None}]
  BY <1>1, <1>2 DEF Suspend, Pendings, IInv, TypeOK
<1> QED BY <1>1, <1>3, ReturnPreserves

\* Bind up to its transaction: Self makes the credential its owner's.
LEMMA ConfirmStep ==
  ASSUME IInv, NEW c \in Calls, BindStart(c) \/ BindActive(c) \/ Self(c)
  PROVE  IInv'
<1> UNCHANGED <<agent, binding, now>> /\ pending' \in [Agents -> Pendings \cup {None}]
  BY RowsKept DEF BindStart, BindActive, Self
<1>1. CASE BindStart(c)
  <2> DEFINE k == [owner |-> Input[c].owner, claim |-> Input[c].claim]
  <2>1. k \in Credentials /\ k.owner = Input[c].owner
    BY DEF Credentials
  <2>2. Goto(c, "active", k)
    BY <1>1 DEF BindStart
  <2> QED BY <2>1, <2>2, GotoPreserves DEF Running
<1>2. CASE BindActive(c)
  <2>1. cred[c] \in Credentials /\ cred[c].owner = Input[c].owner
    BY <1>2 DEF BindActive, IInv, CredentialFollowsCode
  <2> QED BY <1>2, <2>1, GotoPreserves, ReturnPreserves DEF BindActive, CheckActive, Running
<1>3. CASE Self(c)
  <2>1. cred[c] \in Credentials /\ cred[c].owner = Input[c].owner
    BY <1>3 DEF Self, IInv, CredentialFollowsCode
  <2>2. CASE Return(c, "REFUSED")
    BY <2>2, ReturnPreserves
  <2>3. CASE Confirms(cred[c]) /\ Goto(c, "store", cred[c])
    BY <2>1, <2>3, GotoPreserves DEF Confirms, Running
  <2> QED BY <1>3, <2>2, <2>3 DEF Self
<1> QED BY <1>1, <1>2, <1>3

\* The transaction that stores the binding.
LEMMA StoredPreserves ==
  ASSUME IInv, NEW c \in Calls, NEW code \in {"BOUND", "FAULT"},
         pc[c] = "store", MayBind(AgentOf(c), cred[c].owner), Stored(c), Return(c, code)
  PROVE  /\ IInv'
         /\ \A a \in Agents : binding[a] # None => binding'[a].user = binding[a].user
<1> DEFINE a == AgentOf(c)
           own == [owner |-> Input[c].owner, claim |-> Input[c].owner]
<1>1. cred[c] \in Credentials /\ cred[c] = own
  BY DEF IInv, CredentialFollowsCode, Credentials
<1>2. binding'[a] \in Bindings /\ binding'[a].user = Input[c].owner /\ binding'[a].cred = own
  <2>1. CASE binding[a] = None
    BY <1>1, <2>1 DEF Stored, Bindings, IInv, TypeOK
  <2>2. CASE binding[a] # None
    BY <1>1, <2>2 DEF Stored, Bindings, IInv, TypeOK, MayBind
  <2> QED BY <2>1, <2>2
<1>3. \A b \in Agents \ {a} : binding'[b] = binding[b]
  BY DEF Stored, IInv, TypeOK
<1>4. \A b \in Agents : binding[b] # None => binding'[b] # None /\ binding'[b].user = binding[b].user
  BY <1>1, <1>2, <1>3 DEF MayBind
<1>5. TypeOK'
  <2>1. binding' \in [Agents -> Bindings \cup {None}]
    BY <1>2, <1>3 DEF Stored, IInv, TypeOK
  <2> QED BY <2>1 DEF Stored, Return, IInv, TypeOK
<1>6. \A d \in Calls : CredentialFollowsCode(d)'
  BY DEF Return, IInv, TypeOK, CredentialFollowsCode
<1>7. CredentialOfUser'
  BY <1>2, <1>3 DEF IInv, CredentialOfUser
<1>8. BoundByOwner'
  <2> SUFFICES ASSUME NEW d \in Calls, reply'[d] = "BOUND"
               PROVE  /\ binding'[AgentOf(d)] # None
                      /\ binding'[AgentOf(d)].user = Input[d].owner
    BY DEF BoundByOwner
  <2>1. CASE d = c
    BY <1>2, <2>1
  <2>2. CASE d # c
    BY <1>4, <2>2 DEF Return, IInv, TypeOK, BoundByOwner
  <2> QED BY <2>1, <2>2
<1> QED BY <1>4, <1>5, <1>6, <1>7, <1>8 DEF IInv

\* The upsert of Bind, under the lock, with or without its answer.
LEMMA BindStep ==
  ASSUME IInv, NEW c \in Calls, Bind(c) \/ BindUnknown(c)
  PROVE  IInv'
<1>1. CASE Return(c, "REFUSED") /\ UNCHANGED rows
  BY <1>1, RowsKept, ReturnPreserves
<1>2. CASE ~ (Return(c, "REFUSED") /\ UNCHANGED rows)
  BY <1>2, StoredPreserves DEF Bind, BindUnknown
<1> QED BY <1>1, <1>2

\* Steps that no call takes.
LEMMA EnvironmentStep ==
  ASSUME IInv, \/ \E a \in Agents : \E action \in Reviews : Review(a, action)
               \/ Sweep \/ Tick \/ Crash \/ UNCHANGED vars
  PROVE  IInv'
<1> USE DEF IInv
<1>1. TypeOK'
  BY TransitionType DEF TypeOK, Review, Sweep, Tick, Crash, vars
<1>2. \A c \in Calls : CredentialFollowsCode(c)'
  BY DEF TypeOK, CredentialFollowsCode, Review, Sweep, Tick, Crash, Running, vars
<1>3. UNCHANGED <<binding, reply>>
  BY DEF Review, Sweep, Tick, Crash, vars
<1> QED BY <1>1, <1>2, <1>3 DEF CredentialOfUser, BoundByOwner

\* Every step preserves the invariant.
LEMMA NextInvariant == IInv /\ [Next]_vars => IInv'
<1> SUFFICES ASSUME IInv, [Next]_vars PROVE IInv'
  OBVIOUS
<1>1. ASSUME NEW c \in Calls, CallStep(c) \/ FaultStep(c) PROVE IInv'
  BY <1>1, LoginStep, SuspendStep, ConfirmStep, BindStep DEF CallStep, FaultStep
<1> QED BY <1>1, EnvironmentStep DEF Next

\* Bindings and credentials agree in every reachable state.
LEMMA Invariance == Spec => []IInv
  BY InitInvariant, NextInvariant, PTL DEF Spec

\* Every reachable state is well typed.
THEOREM TypeCorrect == Spec => []TypeOK
<1>1. IInv => TypeOK
  BY DEF IInv
<1> QED BY <1>1, Invariance, PTL

\* A stored session belongs to the bound user, however logins of several users
\* mix, for any number of agents, users and calls.
THEOREM CredentialsAreOwn == Spec => []CredentialOfUser
<1>1. IInv => CredentialOfUser
  BY DEF IInv
<1> QED BY <1>1, Invariance, PTL

\* Whoever is answered with a binding carried the bound user's own credential.
THEOREM OwnersBind == Spec => []BoundByOwner
<1>1. IInv => BoundByOwner
  BY DEF IInv
<1> QED BY <1>1, Invariance, PTL

\* A binding changes only while the agent is active and approved, and never
\* goes over to another user.
THEOREM BindingsStay == Spec => BoundToOneUser
<1> DEFINE Kept == \A a \in Agents : binding'[a] # binding[a] =>
       /\ agent[a] = [status |-> "ACTIVE", whitelist |-> "APPROVED"]
       /\ binding[a] # None => binding'[a].user = binding[a].user
<1>1. IInv /\ [Next]_vars => [Kept]_vars
  <2> SUFFICES ASSUME IInv, Next PROVE Kept
    OBVIOUS
  <2>1. CASE UNCHANGED binding
    BY <2>1
  <2>2. ASSUME NEW c \in Calls, Bind(c) \/ BindUnknown(c), ~ UNCHANGED binding PROVE Kept
    <3>1. PICK code \in {"BOUND", "FAULT"} :
            /\ pc[c] = "store" /\ MayBind(AgentOf(c), cred[c].owner)
            /\ Authorized(AgentOf(c)) /\ Stored(c) /\ Return(c, code)
      BY <2>2 DEF Bind, BindUnknown, rows
    <3>2. \A a \in Agents : binding[a] # None => binding'[a].user = binding[a].user
      BY <3>1, StoredPreserves
    <3>3. agent[AgentOf(c)] = [status |-> "ACTIVE", whitelist |-> "APPROVED"]
      BY <3>1 DEF Authorized, Usable, AgentRows, IInv, TypeOK
    <3>4. \A a \in Agents \ {AgentOf(c)} : binding'[a] = binding[a]
      BY <3>1 DEF Stored, IInv, TypeOK
    <3> QED BY <3>2, <3>3, <3>4
  <2>3. ASSUME ~ UNCHANGED binding PROVE \E c \in Calls : Bind(c) \/ BindUnknown(c)
    BY <2>3 DEF Next, CallStep, FaultStep, LoginStart, LoginComplete, LoginSuspend,
       TwoFAStart, TwoFARead, TwoFAConfirm, Rejected, BindStart, BindActive, Self,
       LoginSuspendUnknown, Fail, Review, Sweep, Tick, Crash, rows
  <2> QED BY <2>1, <2>2, <2>3
<1> QED BY <1>1, Invariance, PTL DEF Spec, BoundToOneUser
=============================================================================
