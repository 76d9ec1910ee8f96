------------------------------- MODULE KeyUse -------------------------------
(***************************************************************************)
(* Who uses an agent's Kovar key while CreateKey, DeleteKey and revoke     *)
(* change it: the admission of a task, which reads the secret first, asks  *)
(* Kovar for the token's quota later and sends the POST at the end         *)
(* (Create, internal/task/service.go), and whoever refreshes the stored    *)
(* quota (Token, internal/binding/service.go, also behind GET              *)
(* /api/v1/agent/token and the administrator's view of an agent).          *)
(*                                                                         *)
(* None of the reads is made under a lock, and the update of the quota     *)
(* columns does not compare the token id.                                  *)
(***************************************************************************)
EXTENDS TokenLifecycle

CONSTANTS
  Users,  \* calls of Create and of Token
  Kind,   \* which of the two each user is
  By      \* the agent of each user

ASSUME UserAssumption ==
  /\ Kind \in [Users -> {"task", "refresh"}]
  /\ By \in [Users -> Agents]

VARIABLES
  at,      \* where each user stands
  secret,  \* the token whose secret the user holds
  asked,   \* the token whose quota the user asks Kovar for
  quota,   \* the token whose quota the user got, and what the row said then
  paid     \* the users whose POST Kovar accepted

use == <<at, secret, asked, quota, paid>>

UsePCs == {"idle", "models", "usage", "local", "fetch", "write", "admit", "post",
           "done", "dead"}

NoQuota == [of |-> 0, seen |-> "NONE"]

UseTypeOK ==
  /\ TypeOK
  /\ at \in [Users -> UsePCs]
  /\ secret \in [Users -> Nat] /\ asked \in [Users -> Nat]
  /\ quota \in [Users -> [of : Nat, seen : {"FRESH", "NONE", "CREATING", "DELETE_PENDING",
                                            "DELETED", "UNKNOWN"}]]
  /\ paid \subseteq Users

UseInit ==
  /\ Init
  /\ at = [u \in Users |-> "idle"]
  /\ secret = [u \in Users |-> 0] /\ asked = [u \in Users |-> 0]
  /\ quota = [u \in Users |-> NoQuota]
  /\ paid = {}

-----------------------------------------------------------------------------
\* The row says ACTIVE and holds a key.
Bound(a) == tok[a].status = "ACTIVE" /\ tok[a].key

UGoto(u, step) == at' = [at EXCEPT ![u] = step]

Unless(u, ok, step) == UGoto(u, IF ok THEN step ELSE "done")

\* Create reads the secret and the token id; Token starts at the row.
Begin(u) ==
  /\ at[u] = "idle"
  /\ IF Kind[u] = "task"
       THEN /\ Unless(u, Bound(By[u]), "models")
            /\ secret' = [secret EXCEPT ![u] = IF Bound(By[u]) THEN tok[By[u]].id ELSE 0]
       ELSE UGoto(u, "local") /\ UNCHANGED secret
  /\ UNCHANGED <<vars, asked, quota, paid>>

\* GET /v1/models with the secret.
Models(u) ==
  /\ at[u] = "models"
  /\ Unless(u, secret[u] \in live[By[u]], "usage")
  /\ UNCHANGED <<vars, secret, asked, quota, paid>>

\* Usage reads the key anew, whichever it is now.
Usage(u) ==
  /\ at[u] = "usage"
  /\ Unless(u, Bound(By[u]), "local")
  /\ UNCHANGED <<vars, secret, asked, quota, paid>>

\* Mutant: the quota is asked for only when none is stored.
RefreshesUnknown(a) == Bound(a) /\ tok[a].quota = 0

\* Token asks Kovar for the quota of a key that is in use.
Refreshes(a) == Bound(a)

\* Token: the row of a key that is not in use is returned as it is, with the
\* quota that was stored last.  A task needs a quota.
LocalToken(u) ==
  LET row == tok[By[u]]
  IN  /\ at[u] = "local"
      /\ IF Refreshes(By[u])
           THEN /\ UGoto(u, "fetch")
                /\ asked' = [asked EXCEPT ![u] = row.id]
                /\ UNCHANGED quota
           ELSE /\ Unless(u, Kind[u] = "task" /\ row.quota # 0, "admit")
                /\ quota' = [quota EXCEPT ![u] = [of |-> row.quota, seen |-> row.status]]
                /\ UNCHANGED asked
      /\ UNCHANGED <<vars, secret, paid>>

\* GET /api/token/{id}
Fetch(u) ==
  /\ at[u] = "fetch"
  /\ IF asked[u] \in live[By[u]]
       THEN /\ UGoto(u, "write")
            /\ quota' = [quota EXCEPT ![u] = [of |-> asked[u], seen |-> "FRESH"]]
       ELSE UGoto(u, "done") /\ UNCHANGED quota
  /\ UNCHANGED <<vars, secret, asked, paid>>

\* UPDATE ... SET provider_status, remain_quota, expired_at WHERE agent_address=$1
Write(u) ==
  /\ at[u] = "write"
  /\ tok' = [tok EXCEPT ![By[u]].quota = asked[u]]
  /\ UGoto(u, IF Kind[u] = "task" THEN "admit" ELSE "done")
  /\ UNCHANGED <<agent, lock, live, next, pc, mine, result, crashes, secret, asked, quota, paid>>

\* The budget, the admission and the start of the task, whose transactions lock
\* the agent row.
Admit(u) ==
  /\ at[u] = "admit"
  /\ LockFree(By[u])
  /\ Unless(u, Usable(agent[By[u]]), "post")
  /\ UNCHANGED <<vars, secret, asked, quota, paid>>

\* The POST, with the secret that was read at the beginning.
Post(u) ==
  /\ at[u] = "post"
  /\ paid' = IF secret[u] \in live[By[u]] THEN paid \cup {u} ELSE paid
  /\ UGoto(u, "done")
  /\ UNCHANGED <<vars, secret, asked, quota>>

\* A database or upstream call fails, or the budget does not suffice.
Abandon(u) ==
  /\ at[u] \notin {"idle", "done", "dead"}
  /\ UGoto(u, "done")
  /\ UNCHANGED <<vars, secret, asked, quota, paid>>

UseStep(u) ==
  \/ Begin(u) \/ Models(u) \/ Usage(u) \/ LocalToken(u) \/ Fetch(u) \/ Write(u)
  \/ Admit(u) \/ Post(u) \/ Abandon(u)

\* The keys' own steps; a crash takes the users with it.
KeyStep ==
  \/ \E c \in Calls : (CallStep(c) \/ Repeat(c)) /\ UNCHANGED use
  \/ \E a \in Agents : \E action \in Reviews : Review(a, action) /\ UNCHANGED use
  \/ /\ Crash
     /\ at' = [u \in Users |-> IF at[u] \in {"idle", "done"} THEN at[u] ELSE "dead"]
     /\ UNCHANGED <<secret, asked, quota, paid>>

\* Every call and every user has returned.
UseFinished ==
  /\ \A u \in Users : at[u] \in {"done", "dead"}
  /\ Finished /\ UNCHANGED use

UseNext == KeyStep \/ (\E u \in Users : UseStep(u)) \/ UseFinished

UseSpec == UseInit /\ [][UseNext]_<<vars, use>>

-----------------------------------------------------------------------------
\* README.md:266-268: the quota of the token is fetched and checked before the
\* model is called.  A POST that Kovar accepts was admitted with the quota that
\* Kovar had just told for the very token that pays, although the key may be
\* deleted and replaced between the reads and a slow refresh may write an old
\* token's quota; with the stored quota it was admitted only while the key was
\* being deleted.
CheckedTokenPays ==
  \A u \in paid :
    \/ quota[u] = [of |-> secret[u], seen |-> "FRESH"]
    \/ quota[u].seen = "DELETE_PENDING"
=============================================================================
