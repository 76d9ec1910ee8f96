---------------------------- MODULE AgentStatus ----------------------------
(***************************************************************************)
(* The authorization state of an agent: the status column of the agents    *)
(* row paired with the status column of its agent_whitelist row, and the   *)
(* pure functions of internal/identity/service.go over that pair.          *)
(***************************************************************************)

Statuses == {"REGISTERED", "ACTIVE", "SUSPENDED", "REVOKED"}

Whitelists == {"PENDING", "APPROVED", "REJECTED", "REVOKED"}

AgentRows == [status : Statuses, whitelist : Whitelists]

ReviewActions == {"approve", "reject", "suspend", "resume", "revoke"}

\* StatusError(a) = nil. The three error codes are told apart by the caller's
\* client only, so the model keeps one refusal.
Usable(a) == a.status = "ACTIVE" /\ a.whitelist = "APPROVED"

\* The pairs from which Transition accepts an administrator's action; every
\* other pair answers INVALID_AGENT_STATE.
TransitionAllowed(a, action) ==
  \/ action = "approve" /\ a.status = "REGISTERED"
                        /\ a.whitelist \in {"PENDING", "REJECTED"}
  \/ action = "reject"  /\ a.status = "REGISTERED" /\ a.whitelist = "PENDING"
  \/ action = "suspend" /\ a.status = "ACTIVE"     /\ a.whitelist = "APPROVED"
  \/ action = "resume"  /\ a.status = "SUSPENDED"  /\ a.whitelist = "APPROVED"
  \/ action = "revoke"

\* The pair an accepted action leads to.
TransitionTo(action) ==
  CASE action = "approve" -> [status |-> "ACTIVE",     whitelist |-> "APPROVED"]
    [] action = "reject"  -> [status |-> "REGISTERED", whitelist |-> "REJECTED"]
    [] action = "suspend" -> [status |-> "SUSPENDED",  whitelist |-> "APPROVED"]
    [] action = "resume"  -> [status |-> "ACTIVE",     whitelist |-> "APPROVED"]
    [] action = "revoke"  -> [status |-> "REVOKED",    whitelist |-> "REVOKED"]
=============================================================================
