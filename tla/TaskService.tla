---------------------------- MODULE TaskService ----------------------------
(***************************************************************************)
(* The task service of the gateway (internal/task/service.go): concurrent  *)
(* POST /api/v1/tasks requests, GET pollers of asynchronous video tasks,   *)
(* the administrator's reviews and budget changes, client disconnects,     *)
(* database faults and process crashes, over the PostgreSQL rows they      *)
(* share.                                                                  *)
(*                                                                         *)
(* A request runs Create once.  Task ids are random (secure.Random), so    *)
(* the task a request would create is named by the request.  A statement   *)
(* outside a transaction is one step; a transaction is one step when its   *)
(* reads are protected by the lock it holds until it commits, and several  *)
(* steps otherwise.                                                        *)
(***************************************************************************)
EXTENDS AgentStatus, Naturals, Sequences, FiniteSets, FiniteSetsExt

CONSTANTS
  Agents,        \* the registered agents
  Requests,      \* calls of Create; also the ids of the tasks they create
  Pollers,       \* clients that poll a video task with Get, again and again
  Keys,          \* idempotency keys
  Hashes,        \* request hashes
  Input,         \* what each request asks for
  PollOf,        \* the task each poller asks for
  Policies,      \* budget policies an administrator may set
  Reviews,       \* review actions an administrator may take
  Funds,         \* what the upstream account and token may have left
  Leavers,       \* requests whose client may disconnect
  DaysPerMonth,  \* length of a month
  MaxDay,        \* bound: last day of the clock
  MaxKeys,       \* bound: Kovar keys an agent owns one after the other
  MaxCrashes,    \* bound: crashes of the gateway process
  Faults,        \* whether a database call may fail
  NoReq          \* no request: the value of a free lock

Kinds == {"plain", "stream", "video"}

ASSUME InputAssumption ==
  Input \in [Requests -> [agent : Agents, key : Keys, hash : Hashes,
                          kind : Kinds, costs : Seq(Nat)]]

ASSUME PollAssumption == PollOf \in [Pollers -> Requests]

ASSUME PolicyAssumption ==
  /\ Policies # {}
  /\ Policies \subseteq [perRequest : Nat, daily : Nat, monthly : Nat]

ASSUME BoundAssumption ==
  /\ Funds \subseteq Nat
  /\ Reviews \subseteq ReviewActions
  /\ DaysPerMonth \in Nat \ {0}
  /\ MaxDay \in Nat /\ MaxKeys \in Nat \ {0} /\ MaxCrashes \in Nat
  /\ Faults \in BOOLEAN
  /\ Leavers \subseteq Requests
  /\ NoReq \notin Requests

VARIABLES
  agent,    \* agents and agent_whitelist: the status pair of each agent
  policy,   \* agent_budget_policies
  token,    \* agent_kovar_tokens: the last key's id, and whether it is bound
  lock,     \* which Create holds the agent row FOR UPDATE
  day,      \* the database clock
  tasks,    \* gateway_tasks (and the 'task' rows of idempotency_records)
  usage,    \* agent_usage_records: the tasks that have one
  calls,    \* model POSTs each request sent upstream
  pc,       \* where each request stands
  loc,      \* the local variables of each request
  gone,     \* whether the request's context is cancelled
  reply,    \* what the request was answered
  poll,     \* where each poller stands
  crashes   \* crashes so far

identity == <<agent, policy, token>>
rows == <<tasks, usage>>
local == <<pc, loc, reply>>
environment == <<day, gone, crashes>>
vars == <<agent, policy, token, lock, day, tasks, usage, calls, pc, loc, gone,
          reply, poll, crashes>>

Settled == {"SUCCEEDED", "FAILED", "CANCELLED"}
Outcomes == Settled \cup {"RUNNING"}
RowStatuses == {"NONE", "CREATED"} \cup Outcomes
Row == [status : RowStatuses, cost : Nat, created : Nat, token : Nat,
        provider : BOOLEAN]
NoRow == [status |-> "NONE", cost |-> 0, created |-> 0, token |-> 0,
          provider |-> FALSE]

\* The points of Create between two database or upstream calls.
Admitting == {"lookup", "key", "quote", "begin", "wait", "locked", "insert"}
Executing == {"created", "running", "calling", "finish"}
RequestPCs == {"idle", "done", "dead"} \cup Admitting \cup Executing

Local == [cost : Nat, funds : Nat, day : Nat, token : Nat, out : Outcomes]
NoLocal == [cost |-> 0, funds |-> 0, day |-> 0, token |-> 0, out |-> "FAILED"]

Reply == [code : {"NONE", "TASK", "CONFLICT", "REFUSED", "FAULT"},
          task : Requests]

PollPCs == {"idle", "key", "video", "finish"}

TypeOK ==
  /\ agent \in [Agents -> AgentRows]
  /\ policy \in [Agents -> Policies]
  /\ token \in [Agents -> [id : Nat, bound : BOOLEAN]]
  /\ lock \in [Agents -> Requests \cup {NoReq}]
  /\ day \in Nat
  /\ tasks \in [Requests -> Row]
  /\ usage \subseteq Requests
  /\ calls \in [Requests -> Nat]
  /\ pc \in [Requests -> RequestPCs]
  /\ loc \in [Requests -> Local]
  /\ gone \in [Requests -> BOOLEAN]
  /\ reply \in [Requests -> Reply]
  /\ poll \in [Pollers -> [pc : PollPCs, out : Settled]]
  /\ crashes \in Nat

Init ==
  /\ agent = [a \in Agents |-> [status |-> "ACTIVE", whitelist |-> "APPROVED"]]
  /\ policy \in [Agents -> Policies]
  /\ token = [a \in Agents |-> [id |-> 1, bound |-> TRUE]]
  /\ lock = [a \in Agents |-> NoReq]
  /\ day = 0
  /\ tasks = [r \in Requests |-> NoRow]
  /\ usage = {}
  /\ calls = [r \in Requests |-> 0]
  /\ pc = [r \in Requests |-> "idle"]
  /\ loc = [r \in Requests |-> NoLocal]
  /\ gone = [r \in Requests |-> FALSE]
  /\ reply = [r \in Requests |-> [code |-> "NONE", task |-> r]]
  /\ poll = [p \in Pollers |-> [pc |-> "idle", out |-> "FAILED"]]
  /\ crashes = 0

-----------------------------------------------------------------------------
(* Helpers *)

AgentOf(r) == Input[r].agent
SameSlot(r, t) == AgentOf(r) = AgentOf(t) /\ Input[r].key = Input[t].key

\* Mutant: LockActive without FOR UPDATE.
LockFreeAlways(a) == TRUE

\* SELECT ... FOR UPDATE OF a,w waits until no transaction holds the row.
LockFree(a) == lock[a] = NoReq

\* The tasks existing finds: same agent, same idempotency key.
Existing(r) == {t \in Requests : tasks[t].status # "NONE" /\ SameSlot(r, t)}

\* Mutant: the hash comparison of existing is dropped.
HashIgnored(r, t) == TRUE

\* savedHash = hash: the key is reused for the request it was used with.
HashMatches(r, t) == Input[r].hash = Input[t].hash

\* Estimated cost of an agent's tasks created since a day.  actual_cost is
\* always NULL, so COALESCE(actual_cost, estimated_cost) is the estimate.
Spent(a, since) ==
  MapThenSumSet(LAMBDA t : tasks[t].cost,
    {t \in Requests : /\ tasks[t].status # "NONE"
                      /\ AgentOf(t) = a
                      /\ tasks[t].created >= since})

MonthStart(d) == (d \div DaysPerMonth) * DaysPerMonth

\* BudgetGuard: the account quota and the token quota are both read upstream,
\* once, and compared in the same way; funds is the smaller of the two.
BudgetGuard(p, estimate, funds, today, month) ==
  /\ estimate <= funds
  /\ estimate <= p.perRequest
  /\ today + estimate <= p.daily
  /\ month + estimate <= p.monthly

\* summary and BudgetGuard for the rule that costs c, with now() on day d.
WithinBudget(r, c, funds, d) ==
  LET a == AgentOf(r)
  IN  BudgetGuard(policy[a], c, funds, Spent(a, d), Spent(a, MonthStart(d)))

\* Mutant: an early return without the Rollback.
ReturnLocked(r, code, t) ==
  /\ pc' = [pc EXCEPT ![r] = "done"]
  /\ loc' = [loc EXCEPT ![r] = NoLocal]
  /\ reply' = [reply EXCEPT ![r] = [code |-> code, task |-> t]]
  /\ UNCHANGED lock

\* The request returns: its deferred Rollback frees the lock it may hold.
Return(r, code, t) ==
  /\ pc' = [pc EXCEPT ![r] = "done"]
  /\ loc' = [loc EXCEPT ![r] = NoLocal]
  /\ reply' = [reply EXCEPT ![r] = [code |-> code, task |-> t]]
  /\ lock' = [a \in Agents |-> IF lock[a] = r THEN NoReq ELSE lock[a]]

\* The request goes on to the next step, with new local variables.
Continue(r, next, l) ==
  /\ pc' = [pc EXCEPT ![r] = next]
  /\ loc' = [loc EXCEPT ![r] = l]
  /\ UNCHANGED reply

\* existing found a task of this agent and key: the request is answered with
\* it, or refused if it asks for something else.
Replay(r) ==
  \E t \in Existing(r) :
    IF HashMatches(r, t) THEN Return(r, "TASK", t) ELSE Return(r, "CONFLICT", r)

-----------------------------------------------------------------------------
(* Create, up to the commit of the task row *)

\* identity.Active, without a lock.
CheckActive(r) ==
  /\ pc[r] = "idle"
  /\ IF Usable(agent[AgentOf(r)])
       THEN Continue(r, "lookup", NoLocal) /\ UNCHANGED lock
       ELSE Return(r, "REFUSED", r)
  /\ UNCHANGED <<identity, rows, calls, environment, poll>>

\* existing, without a lock.
Lookup(r) ==
  /\ pc[r] = "lookup" /\ ~gone[r]
  /\ IF Existing(r) # {} THEN Replay(r)
                         ELSE Continue(r, "key", NoLocal) /\ UNCHANGED lock
  /\ UNCHANGED <<identity, rows, calls, environment, poll>>

\* binding.Key: the secret and the token id are read once, here.
ReadKey(r) ==
  /\ pc[r] = "key" /\ ~gone[r]
  /\ LET k == token[AgentOf(r)]
     IN  IF k.bound
           THEN /\ Continue(r, "quote", [loc[r] EXCEPT !.token = k.id])
                /\ UNCHANGED lock
           ELSE Return(r, "REFUSED", r)
  /\ UNCHANGED <<identity, rows, calls, environment, poll>>

\* The rules of the request's type, in the router's order, whose estimate
\* passes the budget as it stands now: the first one is taken.
Affordable(r, funds) ==
  {i \in DOMAIN Input[r].costs : WithinBudget(r, Input[r].costs[i], funds, day)}

\* Account, token, pricing, policy and summary are read without a lock and the
\* rule loop picks a model; the estimate and the quotas are kept.
Quote(r) ==
  /\ pc[r] = "quote" /\ ~gone[r]
  /\ \E funds \in Funds :
       IF Affordable(r, funds) = {}
         THEN Return(r, "REFUSED", r)
         ELSE /\ \E i \in Affordable(r, funds) :
                   /\ \A j \in Affordable(r, funds) : i <= j
                   /\ Continue(r, "begin", [loc[r] EXCEPT
                        !.cost = Input[r].costs[i], !.funds = funds])
              /\ UNCHANGED lock
  /\ UNCHANGED <<identity, rows, calls, environment, poll>>

\* BeginTx: now() is the transaction's start for every statement in it.
BeginTx(r) ==
  /\ pc[r] = "begin" /\ ~gone[r]
  /\ Continue(r, "wait", [loc[r] EXCEPT !.day = day])
  /\ UNCHANGED <<identity, lock, rows, calls, environment, poll>>

\* identity.LockActive: the row lock is taken and the status checked under it.
LockActive(r) ==
  /\ pc[r] = "wait" /\ ~gone[r]
  /\ LockFree(AgentOf(r))
  /\ IF Usable(agent[AgentOf(r)])
       THEN /\ lock' = [lock EXCEPT ![AgentOf(r)] = r]
            /\ Continue(r, "locked", loc[r])
       ELSE Return(r, "REFUSED", r)
  /\ UNCHANGED <<identity, rows, calls, environment, poll>>

\* Mutant: the check before the transaction is trusted.
RecheckTrusted(r) == TRUE

\* The second BudgetGuard: policy and sums are fresh, quotas and estimate are
\* the ones read before the lock.
StillWithinBudget(r) == WithinBudget(r, loc[r].cost, loc[r].funds, loc[r].day)

\* existing, summary and BudgetGuard inside the transaction.
Recheck(r) ==
  /\ pc[r] = "locked" /\ ~gone[r]
  /\ IF Existing(r) # {} THEN Replay(r)
     ELSE IF StillWithinBudget(r)
       THEN Continue(r, "insert", loc[r]) /\ UNCHANGED lock
       ELSE Return(r, "REFUSED", r)
  /\ UNCHANGED <<identity, rows, calls, environment, poll>>

\* The task row and its idempotency record.
Insert(r) ==
  tasks' = [tasks EXCEPT ![r] =
              [status |-> "CREATED", cost |-> loc[r].cost,
               created |-> loc[r].day, token |-> loc[r].token,
               provider |-> FALSE]]

\* create, the idempotency record, the audit record and Commit.
Commit(r) ==
  /\ pc[r] = "insert" /\ ~gone[r]
  /\ Insert(r)
  /\ Continue(r, "created", loc[r])
  /\ lock' = [lock EXCEPT ![AgentOf(r)] = NoReq]
  /\ UNCHANGED <<identity, usage, calls, environment, poll>>

\* The commit took effect but its answer was lost: Create returns the error.
CommitUnknown(r) ==
  /\ pc[r] = "insert" /\ (gone[r] \/ Faults)
  /\ Insert(r)
  /\ Return(r, "FAULT", r)
  /\ UNCHANGED <<identity, usage, calls, environment, poll>>

\* Any call before the commit fails, or the input is invalid, or the context
\* is cancelled: the transaction is rolled back and nothing is stored.
Abandon(r) ==
  /\ pc[r] \in Admitting
  /\ gone[r] \/ Faults \/ pc[r] \in {"key", "quote"}
  /\ Return(r, "FAULT", r)
  /\ UNCHANGED <<identity, rows, calls, environment, poll>>

-----------------------------------------------------------------------------
(* Create, after the commit *)

\* Mutant: start does not look at the agent's status again.
StartUnchecked(r) == LockFree(AgentOf(r))

\* The LockActive of start succeeds.
MayStart(r) == LockFree(AgentOf(r)) /\ Usable(agent[AgentOf(r)])

\* start: LockActive, CREATED -> RUNNING and the commit, under the lock.
Start(r) ==
  /\ pc[r] = "created" /\ ~gone[r]
  /\ MayStart(r)
  /\ tasks' = [tasks EXCEPT ![r].status = "RUNNING"]
  /\ Continue(r, "running", loc[r])
  /\ UNCHANGED <<identity, lock, usage, calls, environment, poll>>

\* start returns an error, because the agent lost its authorization, the
\* context is cancelled or the database failed; the update may have been
\* committed although start reports an error.
StartFails(r) ==
  /\ pc[r] = "created"
  /\ \/ LockFree(AgentOf(r)) /\ ~Usable(agent[AgentOf(r)]) /\ UNCHANGED tasks
     \/ (gone[r] \/ Faults) /\ UNCHANGED tasks
     \/ /\ gone[r] \/ Faults
        /\ MayStart(r)
        /\ tasks' = [tasks EXCEPT ![r].status = "RUNNING"]
  /\ Continue(r, "finish", [loc[r] EXCEPT !.out = "FAILED"])
  /\ UNCHANGED <<identity, lock, usage, calls, environment, poll>>

\* model.Call sends the POST; upstream.Do never sends a POST twice.
Call(r) ==
  /\ pc[r] = "running" /\ ~gone[r]
  /\ calls' = [calls EXCEPT ![r] = @ + 1]
  /\ Continue(r, "calling", loc[r])
  /\ UNCHANGED <<identity, lock, rows, environment, poll>>

\* Mutant: a status the CHECK constraint of gateway_tasks does not know.
TerminalMisspelt(r) == IF gone[r] THEN "CANCELED" ELSE "FAILED"

\* terminal(ctx): a failure is a cancellation when the client has gone.
Terminal(r) == IF gone[r] THEN "CANCELLED" ELSE "FAILED"

\* The context was cancelled before the POST: nothing is sent.
Unsent(r) ==
  /\ pc[r] = "running" /\ gone[r]
  /\ Continue(r, "finish", [loc[r] EXCEPT !.out = Terminal(r)])
  /\ UNCHANGED <<identity, lock, rows, calls, environment, poll>>

\* What Create makes of the upstream answer: a complete answer succeeds, an
\* error, an invalid answer or a stream without [DONE] fails, a failure of the
\* call itself is terminal(ctx), a stream whose start cannot be written is
\* CANCELLED, and a queued video stays RUNNING.
Verdicts(r) ==
  {"SUCCEEDED", "FAILED", Terminal(r)}
    \cup (IF Input[r].kind = "stream" THEN {"CANCELLED"} ELSE {})
    \cup (IF Input[r].kind = "video" THEN {"RUNNING"} ELSE {})

\* The upstream answers, fails or times out.
Answer(r) ==
  /\ pc[r] = "calling"
  /\ \E v \in Verdicts(r) : Continue(r, "finish", [loc[r] EXCEPT !.out = v])
  /\ UNCHANGED <<identity, lock, rows, calls, environment, poll>>

\* Mutant: finish updates the row whatever its status.
OpenAlways(t) == TRUE

\* Mutant: finish takes RUNNING for the only status it can meet.
OpenRunning(t) == tasks[t].status = "RUNNING"

\* Mutant: finish leaves a task alone that has a provider id.
OpenUnqueued(t) == tasks[t].status \in {"CREATED", "RUNNING"} /\ ~tasks[t].provider

\* WHERE status IN ('CREATED','RUNNING')
Open(t) == tasks[t].status \in {"CREATED", "RUNNING"}

\* Mutant: finish writes no usage record for a failed task.
RecordsUsageOnSuccess(status) == status = "SUCCEEDED"

\* status != "RUNNING": the update of a queued video records no usage.
RecordsUsage(status) == status # "RUNNING"

\* The transaction of finish.  The usage record references the agents row: its
\* insertion waits for the holder of FOR UPDATE on that row.
Finalize(t, status, provider) ==
  IF Open(t)
    THEN /\ RecordsUsage(status) => LockFree(AgentOf(t))
         /\ tasks' = [tasks EXCEPT ![t].status = status,
                                   ![t].provider = @ \/ provider]
         /\ usage' = IF RecordsUsage(status) THEN usage \cup {t} ELSE usage
    ELSE UNCHANGED rows

\* finish, and Create returns the task.  The provider id of a video that is
\* settled at once is left out: Get looks at it in RUNNING rows only.
Finish(r) ==
  /\ pc[r] = "finish"
  /\ Finalize(r, loc[r].out, loc[r].out = "RUNNING")
  /\ Return(r, "TASK", r)
  /\ UNCHANGED <<identity, calls, environment, poll>>

\* finish reports an error, whether or not its transaction was committed.
FinishFails(r) ==
  /\ pc[r] = "finish" /\ Faults
  /\ UNCHANGED rows \/ Finalize(r, loc[r].out, loc[r].out = "RUNNING")
  /\ Return(r, "FAULT", r)
  /\ UNCHANGED <<identity, calls, environment, poll>>

-----------------------------------------------------------------------------
(* Get: polling a video task *)

Poll(p, next, out) == poll' = [poll EXCEPT ![p] = [pc |-> next, out |-> out]]

\* Get reads the row; only a RUNNING video with a provider id goes on.
PollRead(p) ==
  /\ poll[p].pc = "idle"
  /\ Input[PollOf[p]].kind = "video"
  /\ tasks[PollOf[p]].status = "RUNNING" /\ tasks[PollOf[p]].provider
  /\ Poll(p, "key", "FAILED")
  /\ UNCHANGED <<identity, lock, rows, calls, local, environment>>

\* binding.Key, and tokenID = t.TokenID.
KeyOfTask(t) == token[AgentOf(t)].bound /\ token[AgentOf(t)].id = tasks[t].token

\* No key, or TASK_TOKEN_CHANGED, ends the poll.
PollKey(p) ==
  /\ poll[p].pc = "key"
  /\ Poll(p, IF KeyOfTask(PollOf[p]) THEN "video" ELSE "idle", "FAILED")
  /\ UNCHANGED <<identity, lock, rows, calls, local, environment>>

\* The provider says queued or in_progress, or the query fails.
PollPending(p) ==
  /\ poll[p].pc = "video"
  /\ Poll(p, "idle", "FAILED")
  /\ UNCHANGED <<identity, lock, rows, calls, local, environment>>

\* The provider says completed or failed.
PollDecided(p) ==
  /\ poll[p].pc = "video"
  /\ \E v \in {"SUCCEEDED", "FAILED"} : Poll(p, "finish", v)
  /\ UNCHANGED <<identity, lock, rows, calls, local, environment>>

\* finish with the provider's verdict.
PollFinish(p) ==
  /\ poll[p].pc = "finish"
  /\ Finalize(PollOf[p], poll[p].out, TRUE)
  /\ Poll(p, "idle", "FAILED")
  /\ UNCHANGED <<identity, lock, calls, local, environment>>

\* finish fails before its commit; a commit whose answer is lost looks like
\* PollFinish to everybody but the poller.
PollFault(p) ==
  /\ poll[p].pc = "finish" /\ Faults
  /\ Poll(p, "idle", "FAILED")
  /\ UNCHANGED <<identity, lock, rows, calls, local, environment>>

-----------------------------------------------------------------------------
(* The administrator, the key owner, the clock, clients and crashes *)

\* identity.Review locks the agent row, so it waits for an admission.
Review(a, action) ==
  /\ LockFree(a)
  /\ TransitionAllowed(agent[a], action)
  /\ agent' = [agent EXCEPT ![a] = TransitionTo(action)]
  /\ UNCHANGED <<policy, token, lock, rows, calls, local, environment, poll>>

\* identity.UpdatePolicy locks the agent row too.
UpdatePolicy(a, p) ==
  /\ LockFree(a)
  /\ p # policy[a]
  /\ policy' = [policy EXCEPT ![a] = p]
  /\ UNCHANGED <<agent, token, lock, rows, calls, local, environment, poll>>

\* The first transaction of DeleteKey.
DropKey(a) ==
  /\ LockFree(a)
  /\ token[a].bound /\ token[a].id < MaxKeys
  /\ token' = [token EXCEPT ![a].bound = FALSE]
  /\ UNCHANGED <<agent, policy, lock, rows, calls, local, environment, poll>>

\* The second transaction of CreateKey, which binds a key with a fresh id.
BindKey(a) ==
  /\ LockFree(a)
  /\ ~token[a].bound /\ Usable(agent[a])
  /\ token' = [token EXCEPT ![a] = [id |-> @.id + 1, bound |-> TRUE]]
  /\ UNCHANGED <<agent, policy, lock, rows, calls, local, environment, poll>>

Tick ==
  /\ day < MaxDay
  /\ day' = day + 1
  /\ UNCHANGED <<identity, lock, rows, calls, local, gone, poll, crashes>>

\* The client closes the connection: net/http cancels the request's context.
Disconnect(r) ==
  /\ r \in Leavers /\ ~gone[r]
  /\ pc[r] \in Admitting \cup Executing
  /\ gone' = [gone EXCEPT ![r] = TRUE]
  /\ UNCHANGED <<identity, lock, rows, calls, local, day, poll, crashes>>

\* The process dies: its requests stop where they are, the database rolls
\* their transactions back, and a restarted process knows the rows only.
Crash ==
  /\ crashes < MaxCrashes
  /\ crashes' = crashes + 1
  /\ pc' = [r \in Requests |-> IF pc[r] \in Admitting \cup Executing
                                 THEN "dead" ELSE pc[r]]
  /\ loc' = [r \in Requests |-> NoLocal]
  /\ lock' = [a \in Agents |-> NoReq]
  /\ poll' = [p \in Pollers |-> [pc |-> "idle", out |-> "FAILED"]]
  /\ UNCHANGED <<identity, rows, calls, day, gone, reply>>

-----------------------------------------------------------------------------
(* The specification *)

\* The steps a running handler takes by itself.
RequestStep(r) ==
  \/ CheckActive(r) \/ Lookup(r) \/ ReadKey(r) \/ Quote(r) \/ BeginTx(r)
  \/ LockActive(r) \/ Recheck(r) \/ Commit(r) \/ Start(r) \/ StartFails(r)
  \/ Call(r) \/ Unsent(r) \/ Answer(r) \/ Finish(r) \/ Abandon(r)

FaultStep(r) == CommitUnknown(r) \/ FinishFails(r) \/ Disconnect(r)

PollStep(p) ==
  PollRead(p) \/ PollKey(p) \/ PollPending(p) \/ PollDecided(p)
              \/ PollFinish(p) \/ PollFault(p)

AdminStep(a) ==
  \/ \E action \in Reviews : Review(a, action)
  \/ \E p \in Policies : UpdatePolicy(a, p)
  \/ DropKey(a) \/ BindKey(a)

\* Every request has returned: the model may stop here, and nowhere else.
Finished ==
  /\ \A r \in Requests : pc[r] \in {"done", "dead"}
  /\ UNCHANGED vars

Next ==
  \/ \E r \in Requests : RequestStep(r) \/ FaultStep(r)
  \/ \E p \in Pollers : PollStep(p)
  \/ \E a \in Agents : AdminStep(a)
  \/ Tick
  \/ Crash
  \/ Finished

Spec == Init /\ [][Next]_vars

\* Handlers run until they return: every database call and every upstream
\* call has a deadline, and a lock is held across database calls only.  A
\* client of a video polls again and again, and the provider does not keep a
\* video queued for ever.
Fairness ==
  /\ \A r \in Requests : WF_vars(RequestStep(r))
  /\ \A p \in Pollers : WF_vars(PollStep(p)) /\ SF_vars(PollDecided(p))

FairSpec == Spec /\ Fairness

-----------------------------------------------------------------------------
(* Safety *)

\* README: one model task per (agent_id, idempotency_key).  However requests
\* with the same key interleave, fail, are retried or are cut short by a
\* crash, at most one of them sends the billable POST, and sends it once.
OneCallPerSlot ==
  \A r \in Requests :
    /\ calls[r] <= 1
    /\ \A t \in Requests \ {r} : SameSlot(r, t) => calls[r] + calls[t] <= 1

\* UNIQUE(agent_id, idempotency_key) and the primary key of the idempotency
\* records never reject an insertion: the check under the row lock is enough.
OneTaskPerSlot ==
  \A r, t \in Requests :
    r # t /\ SameSlot(r, t) => "NONE" \in {tasks[r].status, tasks[t].status}

\* A POST is sent only for a task whose RUNNING row is committed, so that a
\* crash after it leaves the evidence that reconciliation needs.
RecordedBeforeCall ==
  \A r \in Requests : calls[r] > 0 => tasks[r].status \notin {"NONE", "CREATED"}

UsageMatches(r) == r \in usage <=> tasks[r].status \in Settled

\* A usage record exists exactly for the settled tasks: finish, racing with
\* pollers or cut short, never settles a task without its record.
UsageIffSettled == \A r \in Requests : UsageMatches(r)

ReplyFaithful(r) ==
  reply[r].code = "TASK" =>
    LET t == reply[r].task
    IN  /\ tasks[t].status # "NONE"
        /\ SameSlot(r, t)
        /\ Input[r].hash = Input[t].hash

\* A request that is answered with a task gets a stored task of its own agent
\* and key that was created for the same content.
RepliesFaithful == \A r \in Requests : ReplyFaithful(r)

OpenExplained(r) ==
  tasks[r].status \in {"CREATED", "RUNNING"} =>
    \/ pc[r] \in Executing \cup {"dead"}
    \/ reply[r].code = "FAULT"
    \/ tasks[r].provider

\* An open task is being executed, waits for its video, or was left behind in
\* one of two ways: the process died, or the creating request was answered
\* with an error.
OpenTasksExplained == \A r \in Requests : OpenExplained(r)

-----------------------------------------------------------------------------
(* The inductive invariant behind the properties above *)

\* Inside its admission transaction a request holds the agent's row lock, and
\* the agent is authorized for as long as it does.
HoldsLock(r) ==
  pc[r] \in {"locked", "insert"} =>
    /\ lock[AgentOf(r)] = r
    /\ agent[AgentOf(r)] = [status |-> "ACTIVE", whitelist |-> "APPROVED"]

\* A request that is about to insert its row still has its slot to itself.
SlotStaysFree(r) ==
  pc[r] = "insert" =>
    \A t \in Requests : SameSlot(r, t) => tasks[t].status = "NONE"

\* What Create knows about its own row at each of its steps.
RowFollowsCode(r) ==
  /\ pc[r] \in Admitting \cup {"idle"} => tasks[r].status = "NONE" /\ calls[r] = 0
  /\ pc[r] = "created" => tasks[r].status = "CREATED" /\ calls[r] = 0
  /\ pc[r] = "running" => tasks[r].status = "RUNNING" /\ calls[r] = 0
  /\ pc[r] = "calling" => tasks[r].status = "RUNNING"
  /\ pc[r] = "finish" => \/ tasks[r].status = "RUNNING"
                         \/ tasks[r].status = "CREATED" /\ loc[r].out = "FAILED"
  /\ calls[r] \in {0, 1}
  /\ calls[r] = 1 => tasks[r].status \notin {"NONE", "CREATED"}

\* Only a started row that Create has left has a provider id.
ProviderAfterCreate(r) ==
  tasks[r].provider => /\ pc[r] \in {"done", "dead"}
                       /\ tasks[r].status \notin {"NONE", "CREATED"}

\* The handlers, the lock and the rows agree with each other at every step,
\* across retries, races, faults and crashes, and only a row with a provider
\* id is being polled.
TaskInvariant ==
  /\ \A r \in Requests :
       /\ HoldsLock(r) /\ SlotStaysFree(r)
       /\ RowFollowsCode(r) /\ ProviderAfterCreate(r)
       /\ UsageMatches(r) /\ ReplyFaithful(r) /\ OpenExplained(r)
  /\ \A p \in Pollers : poll[p].pc # "idle" => tasks[PollOf[p]].provider
  /\ OneTaskPerSlot

-----------------------------------------------------------------------------
(* Action properties *)

Charged(a, days) ==
  MapThenSumSet(LAMBDA t : tasks[t].cost,
    {t \in Requests : /\ tasks[t].status # "NONE"
                      /\ AgentOf(t) = a
                      /\ tasks[t].created \in days})

\* Budgets hold under concurrency: the transaction that stores a task leaves
\* the agent's day and month within the policy in force at that moment,
\* although the request quoted, waited for the lock and started its
\* transaction earlier, perhaps on the day before.
AdmissionWithinBudget ==
  [][\A r \in Requests : \A d \in 0..MaxDay :
       LET a == AgentOf(r)
           month == MonthStart(d)..(MonthStart(d) + DaysPerMonth - 1)
       IN  (/\ tasks[r].status = "NONE" /\ tasks'[r].status # "NONE"
            /\ tasks'[r].created = d)
           => /\ tasks'[r].cost <= policy[a].perRequest
              /\ Charged(a, {d})' <= policy[a].daily
              /\ Charged(a, month)' <= policy[a].monthly]_vars

\* A settled task never changes again, whichever of a poller, a second poller
\* and the creating request writes last.
SettledForever ==
  [][\A r \in Requests :
       tasks[r].status \in Settled => tasks'[r] = tasks[r]]_vars

\* Suspension and revocation serialize with admission on the agent row: a task
\* is stored, and later started, only while its agent is active and approved.
AdvancedWhileAuthorized ==
  [][\A r \in Requests :
       tasks'[r].status \in {"CREATED", "RUNNING"} /\ tasks'[r].status # tasks[r].status
       => agent[AgentOf(r)] = [status |-> "ACTIVE", whitelist |-> "APPROVED"]]_vars

-----------------------------------------------------------------------------
(* Refinement *)

Slot == [r \in Requests |-> <<AgentOf(r), Input[r].key>>]

Abstract == INSTANCE OncePerSlot WITH
  Slots    <- Agents \X Keys,
  Outcomes <- Settled,
  taken    <- {Slot[r] : r \in {t \in Requests : tasks[t].status # "NONE"}},
  runs     <- calls,
  outcome  <- {<<Slot[r], tasks[r].status>> : r \in {t \in Requests : tasks[t].status \in Settled}}

\* The rows of gateway_tasks are all it takes to keep the promise of a key: the
\* slot is taken by the commit of the row, the POST is sent once for a taken
\* slot that is not settled, and the status a slot is settled with stays,
\* whichever of the creating request and the pollers writes last.
TasksOncePerSlot == Abstract!Spec

-----------------------------------------------------------------------------
(* Liveness *)

\* Every handler returns or dies with its process.
RequestsReturn ==
  \A r \in Requests : pc[r] # "idle" ~> pc[r] \in {"done", "dead"}

\* Without crashes and database faults a task whose commit Create has seen is
\* settled, or handed to the provider that generates its video, even if the
\* client leaves: finish outlives the request's context.  (A client that leaves
\* during the commit may leave a CREATED row that nobody settles.)
AdmittedTasksSettle ==
  \A r \in Requests :
    pc[r] = "created" ~> tasks[r].status \in Settled \/ tasks[r].provider

\* A polled video settles unless its agent gives up the key it was made with.
VideosSettle ==
  \A p \in Pollers :
    tasks[PollOf[p]].provider
      ~> \/ tasks[PollOf[p]].status \in Settled
         \/ token[AgentOf(PollOf[p])] # [id |-> tasks[PollOf[p]].token, bound |-> TRUE]
=============================================================================
