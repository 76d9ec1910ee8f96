------------------------- MODULE TaskServiceProofs -------------------------
(***************************************************************************)
(* Proofs about TaskService for any agents, requests, pollers and bounds.  *)
(***************************************************************************)
EXTENDS TaskService, FiniteSetTheorems, TLAPS

\* What InputAssumption says of one request.
LEMMA InputType ==
  ASSUME NEW r \in Requests
  PROVE  /\ Input[r].agent \in Agents
         /\ Input[r].costs \in Seq(Nat)
         /\ \A i \in DOMAIN Input[r].costs : Input[r].costs[i] \in Nat
<1>1. Input[r] \in [agent : Agents, key : Keys, hash : Hashes, kind : Kinds,
                    costs : Seq(Nat)]
  BY InputAssumption
<1>2. Input[r].costs \in Seq(Nat)
  BY <1>1
<1> QED
  BY <1>1, <1>2

\* Review only leads to pairs of statuses the CHECK constraints know.
LEMMA TransitionType ==
  ASSUME NEW action \in ReviewActions
  PROVE  TransitionTo(action) \in AgentRows
BY DEF ReviewActions, TransitionTo, AgentRows, Statuses, Whitelists

\* The transaction of finish keeps the rows well formed.
LEMMA FinalizeType ==
  ASSUME TypeOK, NEW t \in Requests, NEW status \in Outcomes,
         NEW provider \in BOOLEAN, Finalize(t, status, provider)
  PROVE  tasks' \in [Requests -> Row] /\ usage' \subseteq Requests
<1>1. tasks[t] \in Row
  BY DEF TypeOK
<1>2. CASE Open(t)
  <2>1. tasks' = [tasks EXCEPT ![t].status = status, ![t].provider = @ \/ provider]
    BY <1>2 DEF Finalize
  <2>2. (tasks[t].provider \/ provider) \in BOOLEAN
    BY <1>1 DEF Row
  <2>3. [tasks[t] EXCEPT !.status = status, !.provider = @ \/ provider] \in Row
    BY <1>1, <2>2 DEF Row, RowStatuses
  <2>4. tasks' \in [Requests -> Row]
    BY <2>1, <2>3 DEF TypeOK
  <2>5. usage' \subseteq Requests
    BY <1>2 DEF Finalize, TypeOK
  <2> QED BY <2>4, <2>5
<1>3. CASE ~Open(t)
  BY <1>3 DEF Finalize, rows, TypeOK
<1> QED BY <1>2, <1>3

\* A handler that returns leaves well-formed local state and locks.
LEMMA ReturnType ==
  ASSUME TypeOK, NEW r \in Requests, NEW t \in Requests,
         NEW code \in {"NONE", "TASK", "CONFLICT", "REFUSED", "FAULT"},
         Return(r, code, t)
  PROVE  /\ pc' \in [Requests -> RequestPCs]
         /\ loc' \in [Requests -> Local]
         /\ reply' \in [Requests -> Reply]
         /\ lock' \in [Agents -> Requests \cup {NoReq}]
<1>1. NoLocal \in Local
  BY DEF NoLocal, Local, Outcomes, Settled
<1>2. "done" \in RequestPCs
  BY DEF RequestPCs
<1>3. [code |-> code, task |-> t] \in Reply
  BY DEF Reply
<1> QED
  BY <1>1, <1>2, <1>3 DEF Return, TypeOK

\* A handler that goes on does so with well-formed local state.
LEMMA ContinueType ==
  ASSUME TypeOK, NEW r \in Requests, NEW next \in RequestPCs, NEW l \in Local,
         Continue(r, next, l)
  PROVE  /\ pc' \in [Requests -> RequestPCs]
         /\ loc' \in [Requests -> Local]
         /\ reply' \in [Requests -> Reply]
BY DEF Continue, TypeOK

\* A replay answers with a request's own task or refuses it.
LEMMA ReplayType ==
  ASSUME TypeOK, NEW r \in Requests, Replay(r)
  PROVE  /\ pc' \in [Requests -> RequestPCs]
         /\ loc' \in [Requests -> Local]
         /\ reply' \in [Requests -> Reply]
         /\ lock' \in [Agents -> Requests \cup {NoReq}]
<1>1. PICK t \in Existing(r) : IF HashMatches(r, t) THEN Return(r, "TASK", t)
                                                    ELSE Return(r, "CONFLICT", r)
  BY DEF Replay
<1>2. t \in Requests
  BY <1>1 DEF Existing
<1>3. CASE HashMatches(r, t)
  BY <1>1, <1>2, <1>3, ReturnType
<1>4. CASE ~HashMatches(r, t)
  BY <1>1, <1>4, ReturnType
<1> QED
  BY <1>3, <1>4

\* Every step of a request keeps the types.
LEMMA RequestStepType ==
  ASSUME TypeOK, NEW r \in Requests, RequestStep(r) \/ FaultStep(r)
  PROVE  TypeOK'
<1> USE DEF identity, rows, local, environment
<1>a. AgentOf(r) \in Agents
  BY InputType DEF AgentOf
<1>n. NoLocal \in Local
  BY DEF NoLocal, Local, Outcomes, Settled
<1>l. loc[r] \in Local
  BY DEF TypeOK
<1>p. Admitting \cup Executing \cup {"done"} \subseteq RequestPCs
  BY DEF RequestPCs
<1>1. CASE CheckActive(r)
  BY <1>1, <1>n, <1>p, ReturnType, ContinueType DEF CheckActive, TypeOK, Admitting
<1>2. CASE Lookup(r)
  BY <1>2, <1>n, <1>p, ReplayType, ContinueType DEF Lookup, TypeOK, Admitting
<1>3. CASE ReadKey(r)
  <2>1. token[AgentOf(r)].id \in Nat
    BY <1>a DEF TypeOK
  <2>2. [loc[r] EXCEPT !.token = token[AgentOf(r)].id] \in Local
    BY <1>l, <2>1 DEF Local
  <2> QED
    BY <1>3, <2>2, <1>p, ReturnType, ContinueType DEF ReadKey, TypeOK, Admitting
<1>4. CASE Quote(r)
  <2>1. PICK funds \in Funds :
          IF Affordable(r, funds) = {}
            THEN Return(r, "REFUSED", r)
            ELSE /\ \E i \in Affordable(r, funds) :
                      /\ \A j \in Affordable(r, funds) : i <= j
                      /\ Continue(r, "begin", [loc[r] EXCEPT
                           !.cost = Input[r].costs[i], !.funds = funds])
                 /\ UNCHANGED lock
    BY <1>4 DEF Quote
  <2>2. UNCHANGED <<identity, rows, calls, environment, poll>>
    BY <1>4 DEF Quote
  <2>3. CASE Affordable(r, funds) = {}
    BY <2>1, <2>2, <2>3, ReturnType DEF TypeOK
  <2>4. CASE Affordable(r, funds) # {}
    <3>1. PICK i \in Affordable(r, funds) :
            Continue(r, "begin", [loc[r] EXCEPT
              !.cost = Input[r].costs[i], !.funds = funds])
      BY <2>1, <2>4
    <3>2. Input[r].costs[i] \in Nat
      BY <3>1, InputType DEF Affordable
    <3>3. funds \in Nat
      BY BoundAssumption
    <3>4. [loc[r] EXCEPT !.cost = Input[r].costs[i], !.funds = funds] \in Local
      BY <1>l, <3>2, <3>3 DEF Local
    <3> QED
      BY <2>1, <2>2, <2>4, <3>1, <3>4, <1>p, ContinueType DEF TypeOK, Admitting
  <2> QED BY <2>3, <2>4
<1>5. CASE BeginTx(r)
  <2>1. [loc[r] EXCEPT !.day = day] \in Local
    BY <1>l DEF TypeOK, Local
  <2> QED
    BY <1>5, <2>1, <1>p, ContinueType DEF BeginTx, TypeOK, Admitting
<1>6. CASE LockActive(r)
  <2>1. CASE Usable(agent[AgentOf(r)])
    BY <1>6, <2>1, <1>a, <1>l, <1>p, ContinueType DEF LockActive, TypeOK, Admitting
  <2>2. CASE ~Usable(agent[AgentOf(r)])
    BY <1>6, <2>2, ReturnType DEF LockActive, TypeOK
  <2> QED BY <2>1, <2>2
<1>7. CASE Recheck(r)
  BY <1>7, <1>l, <1>p, ReplayType, ReturnType, ContinueType
     DEF Recheck, TypeOK, Admitting
<1>r. Insert(r) => tasks' \in [Requests -> Row]
  <2>1. [status |-> "CREATED", cost |-> loc[r].cost, created |-> loc[r].day,
         token |-> loc[r].token, provider |-> FALSE] \in Row
    BY <1>l DEF Local, Row, RowStatuses
  <2> QED BY <2>1 DEF Insert, TypeOK
<1>8. CASE Commit(r)
  BY <1>8, <1>r, <1>a, <1>l, <1>p, ContinueType DEF Commit, TypeOK, Executing
<1>9. CASE CommitUnknown(r)
  BY <1>9, <1>r, ReturnType DEF CommitUnknown, TypeOK
<1>10. CASE Abandon(r)
  BY <1>10, ReturnType DEF Abandon, TypeOK
<1>s. ASSUME tasks' = [tasks EXCEPT ![r].status = "RUNNING"]
      PROVE  tasks' \in [Requests -> Row]
  <2>1. [tasks[r] EXCEPT !.status = "RUNNING"] \in Row
    BY DEF TypeOK, Row, RowStatuses, Outcomes
  <2> QED BY <1>s, <2>1 DEF TypeOK
<1>11. CASE Start(r)
  BY <1>11, <1>s, <1>l, <1>p, ContinueType DEF Start, TypeOK, Executing
<1>o. \A v \in Outcomes : [loc[r] EXCEPT !.out = v] \in Local
  BY <1>l DEF Local
<1>12. CASE StartFails(r)
  <2>1. tasks' \in [Requests -> Row]
    BY <1>12, <1>s DEF StartFails, TypeOK
  <2>2. [loc[r] EXCEPT !.out = "FAILED"] \in Local
    BY <1>o DEF Outcomes, Settled
  <2> QED
    BY <1>12, <2>1, <2>2, <1>p, ContinueType DEF StartFails, TypeOK, Executing
<1>13. CASE Call(r)
  <2>1. calls[r] + 1 \in Nat
    BY DEF TypeOK
  <2>2. calls' \in [Requests -> Nat]
    BY <1>13, <2>1 DEF Call, TypeOK
  <2>3. "calling" \in RequestPCs
    BY <1>p DEF Executing
  <2>4. /\ pc' \in [Requests -> RequestPCs]
        /\ loc' \in [Requests -> Local]
        /\ reply' \in [Requests -> Reply]
    BY <1>13, <1>l, <2>3, ContinueType DEF Call
  <2> QED BY <1>13, <2>2, <2>4 DEF Call, TypeOK
<1>14. CASE Unsent(r)
  <2>1. [loc[r] EXCEPT !.out = Terminal(r)] \in Local
    BY <1>o DEF Terminal, Outcomes, Settled
  <2> QED
    BY <1>14, <2>1, <1>p, ContinueType DEF Unsent, TypeOK, Executing
<1>15. CASE Answer(r)
  <2>1. PICK v \in Verdicts(r) : Continue(r, "finish", [loc[r] EXCEPT !.out = v])
    BY <1>15 DEF Answer
  <2>2. v \in Outcomes
    BY <2>1 DEF Verdicts, Terminal, Outcomes, Settled
  <2> QED
    BY <1>15, <2>1, <2>2, <1>o, <1>p, ContinueType DEF Answer, TypeOK, Executing
<1>f. loc[r].out \in Outcomes /\ (loc[r].out = "RUNNING") \in BOOLEAN
  BY <1>l DEF Local
<1>16. CASE Finish(r)
  <2>1. tasks' \in [Requests -> Row] /\ usage' \subseteq Requests
    BY <1>16, <1>f, FinalizeType DEF Finish
  <2> QED BY <1>16, <2>1, ReturnType DEF Finish, TypeOK
<1>17. CASE FinishFails(r)
  <2>1. tasks' \in [Requests -> Row] /\ usage' \subseteq Requests
    BY <1>17, <1>f, FinalizeType DEF FinishFails, TypeOK
  <2> QED BY <1>17, <2>1, ReturnType DEF FinishFails, TypeOK
<1>18. CASE Disconnect(r)
  BY <1>18 DEF Disconnect, TypeOK
<1> QED
  BY <1>1, <1>2, <1>3, <1>4, <1>5, <1>6, <1>7, <1>8, <1>9, <1>10, <1>11, <1>12,
     <1>13, <1>14, <1>15, <1>16, <1>17, <1>18 DEF RequestStep, FaultStep

\* Every step of a poller keeps the types.
LEMMA PollStepType ==
  ASSUME TypeOK, NEW p \in Pollers, PollStep(p)
  PROVE  TypeOK'
<1> USE DEF identity, rows, local, environment
<1>1. ASSUME NEW next \in PollPCs, NEW out \in Settled, Poll(p, next, out)
      PROVE  poll' \in [Pollers -> [pc : PollPCs, out : Settled]]
  BY <1>1 DEF Poll, TypeOK
<1>2. PollPCs = {"idle", "key", "video", "finish"} /\ {"SUCCEEDED", "FAILED"} \subseteq Settled
  BY DEF PollPCs, Settled
<1>3. CASE PollRead(p)
  BY <1>1, <1>2, <1>3 DEF PollRead, TypeOK
<1>4. CASE PollKey(p)
  BY <1>1, <1>2, <1>4 DEF PollKey, TypeOK
<1>5. CASE PollPending(p)
  BY <1>1, <1>2, <1>5 DEF PollPending, TypeOK
<1>6. CASE PollDecided(p)
  BY <1>1, <1>2, <1>6 DEF PollDecided, TypeOK
<1>7. CASE PollFinish(p)
  <2>1. PollOf[p] \in Requests
    BY PollAssumption
  <2>2. poll[p].out \in Outcomes
    BY DEF TypeOK, Outcomes
  <2>3. tasks' \in [Requests -> Row] /\ usage' \subseteq Requests
    BY <1>7, <2>1, <2>2, FinalizeType DEF PollFinish
  <2> QED BY <1>1, <1>2, <1>7, <2>3 DEF PollFinish, TypeOK
<1>8. CASE PollFault(p)
  BY <1>1, <1>2, <1>8 DEF PollFault, TypeOK
<1> QED
  BY <1>3, <1>4, <1>5, <1>6, <1>7, <1>8 DEF PollStep

\* Reviews, budget changes and key changes keep the types.
LEMMA AdminStepType ==
  ASSUME TypeOK, NEW a \in Agents, AdminStep(a)
  PROVE  TypeOK'
<1> USE DEF identity, rows, local, environment
<1>1. ASSUME NEW action \in Reviews, Review(a, action)
      PROVE  TypeOK'
  <2>1. TransitionTo(action) \in AgentRows
    BY TransitionType, BoundAssumption
  <2> QED BY <1>1, <2>1 DEF Review, TypeOK
<1>2. ASSUME NEW p \in Policies, UpdatePolicy(a, p)
      PROVE  TypeOK'
  BY <1>2 DEF UpdatePolicy, TypeOK
<1>3. CASE DropKey(a)
  <2>1. [token[a] EXCEPT !.bound = FALSE] \in [id : Nat, bound : BOOLEAN]
    BY DEF TypeOK
  <2> QED BY <1>3, <2>1 DEF DropKey, TypeOK
<1>4. CASE BindKey(a)
  <2>1. token[a].id + 1 \in Nat
    BY DEF TypeOK
  <2> QED BY <1>4, <2>1 DEF BindKey, TypeOK
<1> QED
  BY <1>1, <1>2, <1>3, <1>4 DEF AdminStep

\* A crash leaves well-formed state behind.
LEMMA CrashType == TypeOK /\ Crash => TypeOK'
<1> SUFFICES ASSUME TypeOK, Crash PROVE TypeOK'
  OBVIOUS
<1>1. pc' \in [Requests -> RequestPCs]
  BY DEF Crash, TypeOK, RequestPCs
<1>2. NoLocal \in Local
  BY DEF NoLocal, Local, Outcomes, Settled
<1>3. poll' \in [Pollers -> [pc : PollPCs, out : Settled]]
  BY DEF Crash, PollPCs, Settled
<1> QED
  BY <1>1, <1>2, <1>3 DEF Crash, TypeOK, identity, rows

\* The state is well formed initially.
LEMMA InitType == Init => TypeOK
<1> SUFFICES ASSUME Init PROVE TypeOK
  OBVIOUS
<1>1. NoRow \in Row
  BY DEF NoRow, Row, RowStatuses
<1>2. NoLocal \in Local
  BY DEF NoLocal, Local, Outcomes, Settled
<1>3. [status |-> "ACTIVE", whitelist |-> "APPROVED"] \in AgentRows
  BY DEF AgentRows, Statuses, Whitelists
<1>4. "idle" \in RequestPCs /\ "idle" \in PollPCs /\ "FAILED" \in Settled
  BY DEF RequestPCs, PollPCs, Settled
<1>5. \A r \in Requests : [code |-> "NONE", task |-> r] \in Reply
  BY DEF Reply
<1> QED
  BY <1>1, <1>2, <1>3, <1>4, <1>5 DEF Init, TypeOK

\* Every step keeps the types.
LEMMA NextType == TypeOK /\ [Next]_vars => TypeOK'
<1> SUFFICES ASSUME TypeOK, [Next]_vars PROVE TypeOK'
  OBVIOUS
<1>1. ASSUME NEW r \in Requests, RequestStep(r) \/ FaultStep(r) PROVE TypeOK'
  BY <1>1, RequestStepType
<1>2. ASSUME NEW p \in Pollers, PollStep(p) PROVE TypeOK'
  BY <1>2, PollStepType
<1>3. ASSUME NEW a \in Agents, AdminStep(a) PROVE TypeOK'
  BY <1>3, AdminStepType
<1>4. CASE Tick
  BY <1>4 DEF Tick, TypeOK, identity, rows, local
<1>5. CASE Crash
  BY <1>5, CrashType
<1>6. CASE UNCHANGED vars
  BY <1>6 DEF vars, TypeOK
<1>7. CASE Finished
  BY <1>6, <1>7 DEF Finished
<1> QED
  BY <1>1, <1>2, <1>3, <1>4, <1>5, <1>6, <1>7 DEF Next

\* The rows of gateway_tasks, the locks and the handlers' variables always have
\* the values the schema and the code allow, whatever requests arrive.
THEOREM TypeCorrect == Spec => []TypeOK
<1>1. Init => TypeOK
  BY InitType
<1>2. TypeOK /\ [Next]_vars => TypeOK'
  BY NextType
<1> QED
  BY <1>1, <1>2, PTL DEF Spec

-----------------------------------------------------------------------------
(* The invariant *)

\* The part of TaskInvariant that is about one request.
OwnInvariant(r) ==
  /\ HoldsLock(r) /\ SlotStaysFree(r)
  /\ RowFollowsCode(r) /\ ProviderAfterCreate(r)
  /\ UsageMatches(r) /\ ReplyFaithful(r) /\ OpenExplained(r)

\* A step of request r touches no other request and no other request's row,
\* takes no lock from its holder and never makes a row disappear; it makes a
\* row appear only at the end of an admission transaction.
OwnStep(r) ==
  /\ \A q \in Requests \ {r} :
       /\ pc'[q] = pc[q] /\ loc'[q] = loc[q] /\ reply'[q] = reply[q]
       /\ tasks'[q] = tasks[q] /\ calls'[q] = calls[q]
       /\ q \in usage' <=> q \in usage
       /\ lock[AgentOf(q)] = q => lock'[AgentOf(q)] = q
  /\ tasks[r].status # "NONE" => tasks'[r].status # "NONE"
  /\ tasks[r].status = "NONE" /\ tasks'[r].status # "NONE" => pc[r] = "insert"
  /\ tasks[r].provider => tasks'[r].provider
  /\ agent' = agent /\ poll' = poll

\* The agent a request is for is one of the registered agents.
LEMMA AgentType == \A q \in Requests : AgentOf(q) \in Agents
BY InputType DEF AgentOf

\* A step of one request preserves the invariant of all if it preserves its own.
LEMMA OwnStepInvariant ==
  ASSUME TypeOK, TypeOK', TaskInvariant, NEW r \in Requests,
         OwnStep(r), OwnInvariant(r)'
  PROVE  TaskInvariant'
<1>1. ASSUME NEW q \in Requests, q # r
      PROVE  OwnInvariant(q)'
  <2> USE <1>1
  <2>1. HoldsLock(q)'
    BY DEF TaskInvariant, HoldsLock, OwnStep
  <2>2. SlotStaysFree(q)'
    <3> SUFFICES ASSUME pc[q] = "insert", NEW t \in Requests, SameSlot(q, t)
                 PROVE  tasks'[t].status = "NONE"
      BY DEF SlotStaysFree, OwnStep, SameSlot
    <3>1. tasks[t].status = "NONE" /\ lock[AgentOf(q)] = q
      BY DEF TaskInvariant, SlotStaysFree, HoldsLock
    <3>2. CASE t # r
      BY <3>1, <3>2 DEF OwnStep
    <3>3. CASE t = r
      <4>1. AgentOf(q) = AgentOf(r)
        BY <3>3 DEF SameSlot
      <4>2. pc[r] # "insert"
        BY <3>1, <4>1 DEF TaskInvariant, HoldsLock
      <4> QED BY <3>1, <3>3, <4>2 DEF OwnStep
    <3> QED BY <3>2, <3>3
  <2>3. RowFollowsCode(q)' /\ ProviderAfterCreate(q)'
    BY DEF TaskInvariant, RowFollowsCode, ProviderAfterCreate, OwnStep
  <2>4. UsageMatches(q)' /\ OpenExplained(q)'
    BY DEF TaskInvariant, UsageMatches, OpenExplained, OwnStep
  <2>5. ReplyFaithful(q)'
    <3>1. reply[q].task \in Requests
      BY DEF TypeOK, Reply
    <3> QED BY <3>1 DEF TaskInvariant, ReplyFaithful, OwnStep, SameSlot
  <2> QED BY <2>1, <2>2, <2>3, <2>4, <2>5 DEF OwnInvariant
<1>2. \A p \in Pollers : poll'[p].pc # "idle" => tasks'[PollOf[p]].provider
  BY PollAssumption DEF TaskInvariant, OwnStep
<1>3. OneTaskPerSlot'
  <2> SUFFICES ASSUME NEW q \in Requests, NEW t \in Requests, q # t, SameSlot(q, t),
                      tasks'[q].status # "NONE"
               PROVE  tasks'[t].status = "NONE"
    BY DEF OneTaskPerSlot, SameSlot
  <2>1. CASE q = r /\ tasks[r].status = "NONE"
    BY <2>1 DEF TaskInvariant, SlotStaysFree, OwnStep
  <2>2. CASE t = r /\ tasks[r].status = "NONE"
    <3>1. SameSlot(t, q)
      BY DEF SameSlot
    <3> QED BY <2>2, <3>1 DEF TaskInvariant, SlotStaysFree, OwnStep
  <2>3. CASE ~(q = r /\ tasks[r].status = "NONE") /\ ~(t = r /\ tasks[r].status = "NONE")
    BY <2>3 DEF TaskInvariant, OneTaskPerSlot, OwnStep
  <2> QED BY <2>1, <2>2, <2>3
<1> QED
  BY <1>1, <1>2, <1>3 DEF TaskInvariant, OwnInvariant

\* A handler that returns frees its own lock only.
LEMMA ReturnEffect ==
  ASSUME TypeOK, NEW r \in Requests, NEW t \in Requests,
         NEW code \in {"NONE", "TASK", "CONFLICT", "REFUSED", "FAULT"},
         Return(r, code, t)
  PROVE  /\ pc'[r] = "done" /\ reply'[r].code = code /\ reply'[r].task = t
         /\ \A q \in Requests \ {r} :
              /\ pc'[q] = pc[q] /\ loc'[q] = loc[q] /\ reply'[q] = reply[q]
              /\ lock[AgentOf(q)] = q => lock'[AgentOf(q)] = q
BY AgentType DEF Return, TypeOK

\* A handler that goes on changes its own local state only.
LEMMA ContinueEffect ==
  ASSUME TypeOK, NEW r \in Requests, NEW next, NEW l, Continue(r, next, l)
  PROVE  /\ pc'[r] = next /\ loc'[r] = l /\ reply'[r] = reply[r]
         /\ \A q \in Requests \ {r} :
              pc'[q] = pc[q] /\ loc'[q] = loc[q] /\ reply'[q] = reply[q]
BY DEF Continue, TypeOK

\* A replay answers with a stored task of the same slot and content.
LEMMA ReplayEffect ==
  ASSUME TypeOK, NEW r \in Requests, Replay(r)
  PROVE  /\ pc'[r] = "done"
         /\ \A q \in Requests \ {r} :
              /\ pc'[q] = pc[q] /\ loc'[q] = loc[q] /\ reply'[q] = reply[q]
              /\ lock[AgentOf(q)] = q => lock'[AgentOf(q)] = q
         /\ reply'[r].code = "TASK" =>
              /\ tasks[reply'[r].task].status # "NONE"
              /\ SameSlot(r, reply'[r].task)
              /\ Input[r].hash = Input[reply'[r].task].hash
<1>1. PICK t \in Existing(r) : IF HashMatches(r, t) THEN Return(r, "TASK", t)
                                                    ELSE Return(r, "CONFLICT", r)
  BY DEF Replay
<1>t. t \in Requests /\ tasks[t].status # "NONE" /\ SameSlot(r, t)
  BY DEF Existing
<1>2. CASE HashMatches(r, t)
  BY <1>1, <1>t, <1>2, ReturnEffect DEF HashMatches
<1>3. CASE ~HashMatches(r, t)
  BY <1>1, <1>3, ReturnEffect
<1> QED BY <1>2, <1>3

\* The steps of Create before its row exists.
EarlyStep(r) ==
  CheckActive(r) \/ Lookup(r) \/ ReadKey(r) \/ Quote(r) \/ BeginTx(r)
    \/ LockActive(r) \/ Recheck(r) \/ Abandon(r)

\* What they have in common: they return or go on, and write no row.
LEMMA EarlyEffect ==
  ASSUME TypeOK, TaskInvariant, NEW r \in Requests, EarlyStep(r)
  PROVE  /\ pc[r] \in Admitting \cup {"idle"}
         /\ pc'[r] \in Admitting \cup {"done"}
         /\ UNCHANGED <<agent, tasks, usage, calls, poll>>
         /\ \A q \in Requests \ {r} :
              /\ pc'[q] = pc[q] /\ loc'[q] = loc[q] /\ reply'[q] = reply[q]
              /\ lock[AgentOf(q)] = q => lock'[AgentOf(q)] = q
         /\ HoldsLock(r)'
         /\ pc'[r] = "insert" => Existing(r) = {}
         /\ ReplyFaithful(r)'
<1> USE DEF identity, rows, local, environment
<1>r. reply[r].code = "TASK" =>
        /\ tasks[reply[r].task].status # "NONE"
        /\ SameSlot(r, reply[r].task)
        /\ Input[r].hash = Input[reply[r].task].hash
  BY DEF TaskInvariant, ReplyFaithful
<1>1. CASE CheckActive(r)
  BY <1>1, <1>r, ReturnEffect, ContinueEffect DEF CheckActive, Admitting, HoldsLock, ReplyFaithful, SameSlot, AgentOf
<1>2. CASE Lookup(r)
  BY <1>2, <1>r, ReplayEffect, ContinueEffect DEF Lookup, Admitting, HoldsLock, ReplyFaithful, SameSlot, AgentOf
<1>3. CASE ReadKey(r)
  BY <1>3, <1>r, ReturnEffect, ContinueEffect DEF ReadKey, Admitting, HoldsLock, ReplyFaithful, SameSlot, AgentOf
<1>4. CASE BeginTx(r)
  BY <1>4, <1>r, ContinueEffect DEF BeginTx, Admitting, HoldsLock, ReplyFaithful, SameSlot, AgentOf
<1>5. CASE Abandon(r)
  BY <1>5, <1>r, ReturnEffect DEF Abandon, Admitting, HoldsLock, ReplyFaithful, SameSlot, AgentOf
<1>6. CASE Quote(r)
  <2>1. UNCHANGED <<agent, tasks, usage, calls, poll>> /\ pc[r] = "quote"
    BY <1>6 DEF Quote
  <2>2. Return(r, "REFUSED", r) \/ (UNCHANGED lock /\ \E l \in {loc'[r]} : Continue(r, "begin", l))
    <3>1. Return(r, "REFUSED", r)
            \/ (UNCHANGED lock /\ \E i \in DOMAIN Input[r].costs, funds \in Funds :
                 Continue(r, "begin", [loc[r] EXCEPT
                            !.cost = Input[r].costs[i], !.funds = funds]))
      BY <1>6 DEF Quote, Affordable
    <3>2. CASE Return(r, "REFUSED", r)
      BY <3>2
    <3>3. ASSUME NEW l, Continue(r, "begin", l) PROVE loc'[r] = l
      BY <3>3, ContinueEffect
    <3> QED BY <3>1, <3>2, <3>3
  <2>3. CASE Return(r, "REFUSED", r)
    BY <2>1, <2>3, <1>r, ReturnEffect DEF Admitting, HoldsLock, ReplyFaithful
  <2>4. CASE UNCHANGED lock /\ Continue(r, "begin", loc'[r])
    BY <2>1, <2>4, <1>r, ContinueEffect DEF Admitting, HoldsLock, ReplyFaithful, SameSlot, AgentOf
  <2> QED BY <2>2, <2>3, <2>4
<1>7. CASE LockActive(r)
  <2>1. CASE Usable(agent[AgentOf(r)])
    <3>1. /\ Continue(r, "locked", loc[r])
          /\ lock' = [lock EXCEPT ![AgentOf(r)] = r]
          /\ lock[AgentOf(r)] = NoReq
          /\ UNCHANGED <<agent, tasks, usage, calls, poll>> /\ pc[r] = "wait"
      BY <1>7, <2>1 DEF LockActive, LockFree
    <3>2. lock'[AgentOf(r)] = r
      BY <3>1, AgentType DEF TypeOK
    <3>3. \A q \in Requests \ {r} : lock[AgentOf(q)] = q => lock'[AgentOf(q)] = q
      BY <3>1, AgentType, BoundAssumption DEF TypeOK
    <3>4. agent[AgentOf(r)] = [status |-> "ACTIVE", whitelist |-> "APPROVED"]
      BY <2>1, AgentType DEF Usable, TypeOK, AgentRows
    <3> QED
      BY <3>1, <3>2, <3>3, <3>4, <1>r, ContinueEffect
         DEF Admitting, HoldsLock, ReplyFaithful, SameSlot, AgentOf
  <2>2. CASE ~Usable(agent[AgentOf(r)])
    BY <1>7, <2>2, ReturnEffect DEF LockActive, Admitting, HoldsLock, ReplyFaithful
  <2> QED BY <2>1, <2>2
<1>8. CASE Recheck(r)
  <2>1. CASE Existing(r) # {}
    BY <1>8, <2>1, ReplayEffect DEF Recheck, Admitting, HoldsLock, ReplyFaithful, SameSlot, AgentOf
  <2>2. CASE Existing(r) = {} /\ StillWithinBudget(r)
    <3>1. /\ pc[r] = "locked" /\ Continue(r, "insert", loc[r])
          /\ UNCHANGED <<lock, agent, tasks, usage, calls, poll>>
      BY <1>8, <2>2 DEF Recheck
    <3>2. HoldsLock(r)'
      BY <3>1, ContinueEffect DEF TaskInvariant, HoldsLock
    <3> QED
      BY <2>2, <3>1, <3>2, <1>r, ContinueEffect DEF Admitting, ReplyFaithful, SameSlot, AgentOf
  <2>3. CASE Existing(r) = {} /\ ~StillWithinBudget(r)
    BY <1>8, <2>3, ReturnEffect DEF Recheck, Admitting, HoldsLock, ReplyFaithful
  <2> QED BY <2>1, <2>2, <2>3
<1> QED
  BY <1>1, <1>2, <1>3, <1>4, <1>5, <1>6, <1>7, <1>8 DEF EarlyStep

\* The steps before the row exists preserve the invariant.
LEMMA EarlyInvariant ==
  ASSUME TypeOK, TypeOK', TaskInvariant, NEW r \in Requests, EarlyStep(r)
  PROVE  TaskInvariant'
<1>1. OwnStep(r)
  BY EarlyEffect DEF OwnStep
<1>2. SlotStaysFree(r)'
  BY EarlyEffect DEF SlotStaysFree, Existing, SameSlot, AgentOf
<1>3. RowFollowsCode(r)' /\ ProviderAfterCreate(r)'
  BY EarlyEffect DEF TaskInvariant, RowFollowsCode, ProviderAfterCreate, Admitting
<1>4. UsageMatches(r)' /\ OpenExplained(r)'
  BY EarlyEffect DEF TaskInvariant, RowFollowsCode, UsageMatches, OpenExplained
<1> QED
  BY <1>1, <1>2, <1>3, <1>4, EarlyEffect, OwnStepInvariant DEF OwnInvariant

\* The insertion of the task row, inside the admission transaction.
LEMMA InsertEffect ==
  ASSUME TypeOK, NEW r \in Requests, Insert(r)
  PROVE  /\ tasks'[r].status = "CREATED" /\ ~tasks'[r].provider
         /\ \A q \in Requests \ {r} : tasks'[q] = tasks[q]
BY DEF Insert, TypeOK

\* Commit and CommitUnknown store the row that nobody else stored.
LEMMA CommitInvariant ==
  ASSUME TypeOK, TypeOK', TaskInvariant, NEW r \in Requests,
         Commit(r) \/ CommitUnknown(r)
  PROVE  TaskInvariant'
<1> USE DEF identity, environment
<1>1. /\ pc[r] = "insert" /\ tasks[r].status = "NONE" /\ calls[r] = 0
      /\ lock[AgentOf(r)] = r /\ ~tasks[r].provider
  BY DEF Commit, CommitUnknown, TaskInvariant, RowFollowsCode, HoldsLock,
         ProviderAfterCreate, Admitting
<1>2. Insert(r) /\ UNCHANGED <<agent, usage, calls, poll>>
  BY DEF Commit, CommitUnknown
<1>3. CASE Commit(r)
  <2>1. Continue(r, "created", loc[r]) /\ lock' = [lock EXCEPT ![AgentOf(r)] = NoReq]
    BY <1>3 DEF Commit
  <2>2. \A q \in Requests \ {r} : lock[AgentOf(q)] = q => lock'[AgentOf(q)] = q
    BY <1>1, <2>1, AgentType DEF TypeOK
  <2>3. OwnStep(r)
    BY <1>1, <1>2, <2>1, <2>2, InsertEffect, ContinueEffect DEF OwnStep
  <2>4. HoldsLock(r)' /\ SlotStaysFree(r)' /\ RowFollowsCode(r)' /\ ProviderAfterCreate(r)'
    BY <1>1, <1>2, <2>1, InsertEffect, ContinueEffect
       DEF HoldsLock, SlotStaysFree, RowFollowsCode, ProviderAfterCreate, Admitting
  <2>5. UsageMatches(r)' /\ OpenExplained(r)'
    BY <1>1, <1>2, <2>1, InsertEffect, ContinueEffect
       DEF TaskInvariant, UsageMatches, OpenExplained, Executing, Settled
  <2>6. ReplyFaithful(r)'
    <3>1. reply[r].task \in Requests /\ reply'[r] = reply[r]
      BY <2>1, ContinueEffect DEF TypeOK, Reply
    <3>2. tasks[reply[r].task].status # "NONE" => tasks'[reply[r].task].status # "NONE"
      BY <1>1, <1>2, <3>1, InsertEffect
    <3> QED BY <3>1, <3>2 DEF TaskInvariant, ReplyFaithful, SameSlot, AgentOf
  <2> QED BY <2>3, <2>4, <2>5, <2>6, OwnStepInvariant DEF OwnInvariant
<1>4. CASE CommitUnknown(r)
  <2>1. Return(r, "FAULT", r)
    BY <1>4 DEF CommitUnknown
  <2>2. OwnStep(r)
    BY <1>1, <1>2, <2>1, InsertEffect, ReturnEffect DEF OwnStep
  <2>3. HoldsLock(r)' /\ SlotStaysFree(r)' /\ RowFollowsCode(r)' /\ ProviderAfterCreate(r)'
    BY <1>1, <1>2, <2>1, InsertEffect, ReturnEffect
       DEF HoldsLock, SlotStaysFree, RowFollowsCode, ProviderAfterCreate, Admitting
  <2>4. UsageMatches(r)' /\ OpenExplained(r)' /\ ReplyFaithful(r)'
    BY <1>1, <1>2, <2>1, InsertEffect, ReturnEffect
       DEF TaskInvariant, UsageMatches, OpenExplained, ReplyFaithful, Settled
  <2> QED BY <2>2, <2>3, <2>4, OwnStepInvariant DEF OwnInvariant
<1> QED BY <1>3, <1>4

\* The steps between the commit and finish: the row is written by start only.
LEMMA MiddleInvariant ==
  ASSUME TypeOK, TypeOK', TaskInvariant, NEW r \in Requests,
         Start(r) \/ StartFails(r) \/ Call(r) \/ Unsent(r) \/ Answer(r)
  PROVE  TaskInvariant'
<1> USE DEF identity, rows, environment
<1>1. /\ pc[r] \in {"created", "running", "calling"}
      /\ pc'[r] \in {"running", "calling", "finish"}
      /\ UNCHANGED <<agent, lock, usage, poll>>
      /\ reply'[r] = reply[r]
      /\ \A q \in Requests \ {r} : pc'[q] = pc[q] /\ loc'[q] = loc[q] /\ reply'[q] = reply[q]
  BY ContinueEffect DEF Start, StartFails, Call, Unsent, Answer
<1>s. ASSUME tasks' = [tasks EXCEPT ![r].status = "RUNNING"]
      PROVE  /\ \A q \in Requests \ {r} : tasks'[q] = tasks[q]
             /\ tasks'[r].status = "RUNNING"
             /\ tasks'[r].provider = tasks[r].provider
  <2>1. tasks[r] \in Row /\ tasks'[r] = [tasks[r] EXCEPT !.status = "RUNNING"]
    BY <1>s DEF TypeOK
  <2>2. tasks'[r].status = "RUNNING" /\ tasks'[r].provider = tasks[r].provider
    BY <2>1 DEF Row
  <2> QED BY <1>s, <2>2 DEF TypeOK
<1>t. \/ tasks' = tasks
      \/ tasks' = [tasks EXCEPT ![r].status = "RUNNING"]
  BY DEF Start, StartFails, Call, Unsent, Answer
<1>c. \A q \in Requests \ {r} : calls'[q] = calls[q]
  BY DEF Start, StartFails, Call, Unsent, Answer, TypeOK
<1>2. /\ \A q \in Requests \ {r} : tasks'[q] = tasks[q] /\ calls'[q] = calls[q]
      /\ tasks'[r].provider = tasks[r].provider
      /\ tasks' = tasks \/ tasks'[r].status = "RUNNING"
  BY <1>s, <1>t, <1>c
<1>3. RowFollowsCode(r)'
  <2>1. RowFollowsCode(r)
    BY DEF TaskInvariant
  <2>2. CASE Start(r)
    BY <2>1, <2>2, ContinueEffect DEF Start, RowFollowsCode, TypeOK, Admitting
  <2>3. CASE StartFails(r)
    <3>1. pc[r] = "created" /\ pc'[r] = "finish" /\ loc'[r] = [loc[r] EXCEPT !.out = "FAILED"]
      BY <2>3, ContinueEffect DEF StartFails
    <3>2. loc'[r].out = "FAILED" /\ calls' = calls
      BY <2>3, <3>1 DEF StartFails, TypeOK, Local
    <3> QED BY <1>2, <2>1, <3>1, <3>2 DEF RowFollowsCode, Admitting
  <2>4. CASE Call(r)
    BY <2>1, <2>4, ContinueEffect DEF Call, RowFollowsCode, TypeOK, Admitting
  <2>5. CASE Unsent(r)
    BY <2>1, <2>5, ContinueEffect DEF Unsent, RowFollowsCode, Admitting
  <2>6. CASE Answer(r)
    BY <2>1, <2>6, ContinueEffect DEF Answer, RowFollowsCode, Admitting
  <2> QED BY <2>2, <2>3, <2>4, <2>5, <2>6
<1>4. tasks[r].status \in {"CREATED", "RUNNING"} /\ tasks'[r].status \in {"CREATED", "RUNNING"}
  BY <1>1, <1>3 DEF TaskInvariant, RowFollowsCode
<1>5. OwnStep(r)
  BY <1>1, <1>2, <1>4 DEF OwnStep
<1>6. HoldsLock(r)' /\ SlotStaysFree(r)'
  BY <1>1 DEF HoldsLock, SlotStaysFree
<1>7. ProviderAfterCreate(r)'
  BY <1>1, <1>2 DEF TaskInvariant, ProviderAfterCreate
<1>8. UsageMatches(r)' /\ OpenExplained(r)'
  BY <1>1, <1>4 DEF TaskInvariant, UsageMatches, OpenExplained, Settled, Executing
<1>9. ReplyFaithful(r)'
  <2>1. reply[r].task \in Requests
    BY DEF TypeOK, Reply
  <2>2. tasks[reply[r].task].status # "NONE" => tasks'[reply[r].task].status # "NONE"
    BY <1>2, <1>4, <2>1
  <2> QED BY <1>1, <2>2 DEF TaskInvariant, ReplyFaithful, SameSlot, AgentOf
<1> QED
  BY <1>3, <1>5, <1>6, <1>7, <1>8, <1>9, OwnStepInvariant DEF OwnInvariant

\* The transaction of finish, seen from outside.
LEMMA FinalizeEffect ==
  ASSUME TypeOK, NEW t \in Requests, NEW status \in Outcomes,
         NEW provider \in BOOLEAN, Finalize(t, status, provider)
  PROVE  /\ \A q \in Requests \ {t} :
              tasks'[q] = tasks[q] /\ (q \in usage' <=> q \in usage)
         /\ Open(t) => /\ tasks'[t].status = status
                       /\ tasks'[t].provider = (tasks[t].provider \/ provider)
                       /\ t \in usage' <=> (t \in usage \/ status # "RUNNING")
         /\ ~Open(t) => tasks' = tasks /\ usage' = usage
<1>1. tasks[t] \in Row
  BY DEF TypeOK
<1>2. CASE Open(t)
  <2>1. tasks' = [tasks EXCEPT ![t].status = status, ![t].provider = @ \/ provider]
    BY <1>2 DEF Finalize
  <2>2. usage' = IF RecordsUsage(status) THEN usage \cup {t} ELSE usage
    BY <1>2 DEF Finalize
  <2>3. tasks'[t] = [tasks[t] EXCEPT !.status = status, !.provider = @ \/ provider]
    BY <2>1 DEF TypeOK
  <2>4. tasks'[t].status = status /\ tasks'[t].provider = (tasks[t].provider \/ provider)
    BY <1>1, <2>3 DEF Row
  <2>5. \A q \in Requests \ {t} : tasks'[q] = tasks[q]
    BY <2>1 DEF TypeOK
  <2> QED BY <1>2, <2>2, <2>4, <2>5 DEF RecordsUsage
<1>3. CASE ~Open(t)
  BY <1>3 DEF Finalize, rows
<1> QED BY <1>2, <1>3

\* finish settles the row or leaves it with its provider, and Create returns.
LEMMA FinishInvariant ==
  ASSUME TypeOK, TypeOK', TaskInvariant, NEW r \in Requests,
         Finish(r) \/ FinishFails(r)
  PROVE  TaskInvariant'
<1> USE DEF identity, environment
<1>1. /\ pc[r] = "finish" /\ tasks[r].status \in {"CREATED", "RUNNING"}
      /\ ~tasks[r].provider
      /\ tasks[r].status = "CREATED" => loc[r].out = "FAILED"
      /\ loc[r].out \in Outcomes
      /\ UNCHANGED <<agent, calls, poll>>
  BY DEF Finish, FinishFails, TaskInvariant, RowFollowsCode, ProviderAfterCreate,
         TypeOK, Local
<1>2. PICK code \in {"TASK", "FAULT"} :
        /\ Return(r, code, r)
        /\ \/ code = "FAULT" /\ UNCHANGED rows
           \/ Finalize(r, loc[r].out, loc[r].out = "RUNNING")
  BY DEF Finish, FinishFails
<1>3. Open(r)
  BY <1>1 DEF Open
<1>4. /\ pc'[r] = "done" /\ reply'[r].code = code /\ reply'[r].task = r
      /\ \A q \in Requests \ {r} :
           /\ pc'[q] = pc[q] /\ loc'[q] = loc[q] /\ reply'[q] = reply[q]
           /\ lock[AgentOf(q)] = q => lock'[AgentOf(q)] = q
  BY <1>2, ReturnEffect
<1>5. CASE code = "FAULT" /\ UNCHANGED rows
  <2>1. OwnStep(r)
    BY <1>1, <1>4, <1>5 DEF OwnStep, rows
  <2>2. OwnInvariant(r)'
    BY <1>1, <1>4, <1>5
       DEF TaskInvariant, OwnInvariant, HoldsLock, SlotStaysFree, RowFollowsCode,
           ProviderAfterCreate, UsageMatches, ReplyFaithful, OpenExplained, rows, Admitting
  <2> QED BY <2>1, <2>2, OwnStepInvariant
<1>6. CASE Finalize(r, loc[r].out, loc[r].out = "RUNNING")
  <2>1. /\ \A q \in Requests \ {r} :
             tasks'[q] = tasks[q] /\ (q \in usage' <=> q \in usage)
        /\ tasks'[r].status = loc[r].out
        /\ tasks'[r].provider = (loc[r].out = "RUNNING")
        /\ r \in usage' <=> (r \in usage \/ loc[r].out # "RUNNING")
    <3>1. (loc[r].out = "RUNNING") \in BOOLEAN
      OBVIOUS
    <3> QED BY <1>1, <1>3, <1>6, <3>1, FinalizeEffect
  <2>2. OwnStep(r)
    BY <1>1, <1>4, <2>1 DEF OwnStep, Outcomes, Settled
  <2>3. HoldsLock(r)' /\ SlotStaysFree(r)' /\ ProviderAfterCreate(r)'
    BY <1>4, <2>1 DEF HoldsLock, SlotStaysFree, ProviderAfterCreate
  <2>4. RowFollowsCode(r)'
    BY <1>1, <1>4, <2>1 DEF TaskInvariant, RowFollowsCode, Admitting, Outcomes, Settled
  <2>5. UsageMatches(r)'
    BY <1>1, <2>1 DEF TaskInvariant, UsageMatches, Outcomes, Settled
  <2>6. ReplyFaithful(r)' /\ OpenExplained(r)'
    BY <1>1, <1>4, <2>1 DEF ReplyFaithful, OpenExplained, SameSlot, AgentOf, Outcomes, Settled
  <2> QED BY <2>2, <2>3, <2>4, <2>5, <2>6, OwnStepInvariant DEF OwnInvariant
<1> QED BY <1>2, <1>5, <1>6

\* A step that leaves the handlers, the rows and the locks alone, and changes
\* an agent's status only while nobody holds its row, as reviews do.
LEMMA QuietInvariant ==
  ASSUME TypeOK, TypeOK', TaskInvariant,
         UNCHANGED <<lock, tasks, usage, calls, local>>,
         \A a \in Agents : lock[a] # NoReq => agent'[a] = agent[a],
         \A p \in Pollers : poll'[p].pc # "idle" => tasks[PollOf[p]].provider
  PROVE  TaskInvariant'
<1> USE DEF local
<1>1. ASSUME NEW r \in Requests PROVE OwnInvariant(r)'
  <2>1. HoldsLock(r)'
    <3>1. lock[AgentOf(r)] = r => agent'[AgentOf(r)] = agent[AgentOf(r)]
      BY AgentType, BoundAssumption
    <3> QED BY <3>1 DEF TaskInvariant, HoldsLock
  <2>2. SlotStaysFree(r)'
    BY DEF TaskInvariant, SlotStaysFree, SameSlot, AgentOf
  <2>3. RowFollowsCode(r)' /\ ProviderAfterCreate(r)'
    BY DEF TaskInvariant, RowFollowsCode, ProviderAfterCreate
  <2>4. UsageMatches(r)' /\ OpenExplained(r)' /\ ReplyFaithful(r)'
    BY DEF TaskInvariant, UsageMatches, OpenExplained, ReplyFaithful, SameSlot, AgentOf
  <2> QED BY <2>1, <2>2, <2>3, <2>4 DEF OwnInvariant
<1>2. OneTaskPerSlot'
  BY DEF TaskInvariant, OneTaskPerSlot, SameSlot, AgentOf
<1> QED BY <1>1, <1>2 DEF TaskInvariant, OwnInvariant

\* Every step of a request preserves the invariant.
LEMMA RequestStepInvariant ==
  ASSUME TypeOK, TypeOK', TaskInvariant, NEW r \in Requests,
         RequestStep(r) \/ FaultStep(r)
  PROVE  TaskInvariant'
<1>1. CASE EarlyStep(r)
  BY <1>1, EarlyInvariant
<1>2. CASE Commit(r) \/ CommitUnknown(r)
  BY <1>2, CommitInvariant
<1>3. CASE Start(r) \/ StartFails(r) \/ Call(r) \/ Unsent(r) \/ Answer(r)
  BY <1>3, MiddleInvariant
<1>4. CASE Finish(r) \/ FinishFails(r)
  BY <1>4, FinishInvariant
<1>5. CASE Disconnect(r)
  <2>1. UNCHANGED <<lock, tasks, usage, calls, local, agent, poll>>
    BY <1>5 DEF Disconnect, identity, rows
  <2> QED BY <2>1, QuietInvariant DEF TaskInvariant
<1> QED
  BY <1>1, <1>2, <1>3, <1>4, <1>5 DEF RequestStep, FaultStep, EarlyStep

\* finish on behalf of a poller: Create has left the row, and the verdict of
\* the provider settles it unless somebody settled it before.
LEMMA PollFinishInvariant ==
  ASSUME TypeOK, TypeOK', TaskInvariant, NEW p \in Pollers, PollFinish(p)
  PROVE  TaskInvariant'
<1> DEFINE t == PollOf[p]
<1>1. /\ t \in Requests /\ tasks[t].provider
      /\ pc[t] \in {"done", "dead"} /\ tasks[t].status \notin {"NONE", "CREATED"}
  BY PollAssumption DEF PollFinish, TaskInvariant, ProviderAfterCreate
<1>2. /\ poll[p].out \in Settled /\ poll[p].out \in Outcomes
      /\ UNCHANGED <<agent, lock, calls, pc, loc, reply>>
      /\ Finalize(t, poll[p].out, TRUE)
  BY DEF PollFinish, TypeOK, Outcomes, identity, local
<1> HIDE DEF t
<1>3. /\ \A q \in Requests \ {t} :
           tasks'[q] = tasks[q] /\ (q \in usage' <=> q \in usage)
      /\ Open(t) => /\ tasks'[t].status = poll[p].out
                    /\ tasks'[t].provider
                    /\ t \in usage' <=> (t \in usage \/ poll[p].out # "RUNNING")
      /\ ~Open(t) => tasks' = tasks /\ usage' = usage
  BY <1>1, <1>2, FinalizeEffect
<1>4. /\ tasks'[t].provider
      /\ tasks'[t].status \in Settled
      /\ t \in usage'
  <2>1. CASE Open(t)
    BY <1>2, <1>3, <2>1 DEF Settled
  <2>2. CASE ~Open(t)
    <3>1. tasks[t].status \in Settled
      BY <1>1, <2>2 DEF Open, TypeOK, Row, RowStatuses, Outcomes
    <3> QED BY <1>1, <1>3, <2>2, <3>1 DEF TaskInvariant, UsageMatches
  <2> QED BY <2>1, <2>2
<1>5. \A q \in Requests : /\ tasks'[q].status = "NONE" <=> tasks[q].status = "NONE"
                          /\ tasks[q].provider => tasks'[q].provider
  BY <1>1, <1>3, <1>4 DEF Settled
<1>6. ASSUME NEW q \in Requests PROVE OwnInvariant(q)'
  <2>1. HoldsLock(q)'
    BY <1>2 DEF TaskInvariant, HoldsLock
  <2>2. SlotStaysFree(q)'
    BY <1>2, <1>5 DEF TaskInvariant, SlotStaysFree, SameSlot, AgentOf
  <2>3. ReplyFaithful(q)'
    <3>1. reply[q].task \in Requests
      BY DEF TypeOK, Reply
    <3> QED BY <1>2, <1>5, <3>1 DEF TaskInvariant, ReplyFaithful, SameSlot, AgentOf
  <2>4. CASE q # t
    <3>1. RowFollowsCode(q)' /\ ProviderAfterCreate(q)'
      BY <1>2, <1>3, <2>4 DEF TaskInvariant, RowFollowsCode, ProviderAfterCreate
    <3>2. UsageMatches(q)' /\ OpenExplained(q)'
      BY <1>2, <1>3, <2>4 DEF TaskInvariant, UsageMatches, OpenExplained
    <3> QED BY <2>1, <2>2, <2>3, <3>1, <3>2 DEF OwnInvariant
  <2>5. CASE q = t
    <3>1. RowFollowsCode(q)' /\ ProviderAfterCreate(q)'
      BY <1>1, <1>2, <1>4, <2>5
         DEF TaskInvariant, RowFollowsCode, ProviderAfterCreate, Settled, Admitting
    <3>2. UsageMatches(q)' /\ OpenExplained(q)'
      BY <1>4, <2>5 DEF UsageMatches, OpenExplained
    <3> QED BY <2>1, <2>2, <2>3, <3>1, <3>2 DEF OwnInvariant
  <2> QED BY <2>4, <2>5
<1>7. \A o \in Pollers : poll'[o].pc # "idle" => tasks'[PollOf[o]].provider
  <2>1. poll' = [poll EXCEPT ![p] = [pc |-> "idle", out |-> "FAILED"]]
    BY DEF PollFinish, Poll
  <2>2. \A o \in Pollers : poll'[o].pc # "idle" => tasks[PollOf[o]].provider
    BY <2>1 DEF TypeOK, TaskInvariant
  <2> QED BY <1>5, <2>2, PollAssumption
<1>8. OneTaskPerSlot'
  BY <1>5 DEF TaskInvariant, OneTaskPerSlot, SameSlot, AgentOf
<1> QED BY <1>6, <1>7, <1>8 DEF TaskInvariant, OwnInvariant

\* Every step of a poller preserves the invariant.
LEMMA PollStepInvariant ==
  ASSUME TypeOK, TypeOK', TaskInvariant, NEW p \in Pollers, PollStep(p)
  PROVE  TaskInvariant'
<1>1. CASE PollFinish(p)
  BY <1>1, PollFinishInvariant
<1>2. CASE PollRead(p) \/ PollKey(p) \/ PollPending(p) \/ PollDecided(p) \/ PollFault(p)
  <2>1. UNCHANGED <<lock, tasks, usage, calls, local, agent>>
    BY <1>2 DEF PollRead, PollKey, PollPending, PollDecided, PollFault, identity, rows
  <2>2. tasks[PollOf[p]].provider
    BY <1>2 DEF PollRead, PollKey, PollPending, PollDecided, PollFault, TaskInvariant
  <2>3. \A o \in Pollers \ {p} : poll'[o] = poll[o]
    BY <1>2 DEF PollRead, PollKey, PollPending, PollDecided, PollFault, Poll, TypeOK
  <2>4. \A o \in Pollers : poll'[o].pc # "idle" => tasks[PollOf[o]].provider
    BY <2>2, <2>3 DEF TaskInvariant
  <2> QED BY <2>1, <2>4, QuietInvariant
<1> QED BY <1>1, <1>2 DEF PollStep

\* Reviews wait for the lock; the other changes touch no status.
LEMMA AdminStepInvariant ==
  ASSUME TypeOK, TypeOK', TaskInvariant, NEW a \in Agents, AdminStep(a)
  PROVE  TaskInvariant'
<1>1. UNCHANGED <<lock, tasks, usage, calls, local, poll>>
  BY DEF AdminStep, Review, UpdatePolicy, DropKey, BindKey, rows
<1>2. \A b \in Agents : lock[b] # NoReq => agent'[b] = agent[b]
  BY DEF AdminStep, Review, UpdatePolicy, DropKey, BindKey, LockFree, TypeOK
<1> QED BY <1>1, <1>2, QuietInvariant DEF TaskInvariant

\* A crash stops the handlers where they are: the rows they leave behind are
\* the rows the invariant allows a dead request to have.
LEMMA CrashInvariant ==
  ASSUME TypeOK, TypeOK', TaskInvariant, Crash
  PROVE  TaskInvariant'
<1>1. UNCHANGED <<tasks, usage, calls, reply>>
  BY DEF Crash, rows
<1>2. ASSUME NEW r \in Requests PROVE OwnInvariant(r)'
  <2>1. /\ pc'[r] \in {"idle", "done", "dead"}
        /\ pc[r] \in Admitting \cup Executing => pc'[r] = "dead"
        /\ pc[r] \notin Admitting \cup Executing => pc'[r] = pc[r]
    BY DEF Crash, TypeOK, RequestPCs
  <2>2. HoldsLock(r)' /\ SlotStaysFree(r)'
    BY <2>1 DEF HoldsLock, SlotStaysFree
  <2>3. RowFollowsCode(r)'
    BY <1>1, <2>1 DEF TaskInvariant, RowFollowsCode, Admitting
  <2>4. ProviderAfterCreate(r)' /\ UsageMatches(r)'
    BY <1>1, <2>1 DEF TaskInvariant, ProviderAfterCreate, UsageMatches
  <2>5. ReplyFaithful(r)'
    BY <1>1 DEF TaskInvariant, ReplyFaithful, SameSlot, AgentOf
  <2>6. OpenExplained(r)'
    BY <1>1, <2>1 DEF TaskInvariant, OpenExplained
  <2> QED BY <2>2, <2>3, <2>4, <2>5, <2>6 DEF OwnInvariant
<1>3. \A p \in Pollers : poll'[p].pc = "idle"
  BY DEF Crash
<1>4. OneTaskPerSlot'
  BY <1>1 DEF TaskInvariant, OneTaskPerSlot, SameSlot, AgentOf
<1> QED BY <1>2, <1>3, <1>4 DEF TaskInvariant, OwnInvariant

\* No request has started: nothing is stored, locked or called.
LEMMA InitInvariant == Init => TaskInvariant
<1> SUFFICES ASSUME Init PROVE TaskInvariant
  OBVIOUS
<1>1. ASSUME NEW r \in Requests PROVE OwnInvariant(r)
  <2>1. /\ pc[r] = "idle" /\ tasks[r].status = "NONE" /\ ~tasks[r].provider
        /\ calls[r] = 0 /\ usage = {} /\ reply[r].code = "NONE"
    BY DEF Init, NoRow
  <2> QED
    BY <2>1 DEF OwnInvariant, HoldsLock, SlotStaysFree, RowFollowsCode,
       ProviderAfterCreate, UsageMatches, ReplyFaithful, OpenExplained, Settled
<1>2. (\A p \in Pollers : poll[p].pc = "idle") /\ OneTaskPerSlot
  BY DEF Init, OneTaskPerSlot, NoRow
<1> QED BY <1>1, <1>2 DEF TaskInvariant, OwnInvariant

\* Every step preserves the invariant.
LEMMA NextInvariant == TypeOK /\ TypeOK' /\ TaskInvariant /\ [Next]_vars => TaskInvariant'
<1> SUFFICES ASSUME TypeOK, TypeOK', TaskInvariant, [Next]_vars PROVE TaskInvariant'
  OBVIOUS
<1>1. ASSUME NEW r \in Requests, RequestStep(r) \/ FaultStep(r) PROVE TaskInvariant'
  BY <1>1, RequestStepInvariant
<1>2. ASSUME NEW p \in Pollers, PollStep(p) PROVE TaskInvariant'
  BY <1>2, PollStepInvariant
<1>3. ASSUME NEW a \in Agents, AdminStep(a) PROVE TaskInvariant'
  BY <1>3, AdminStepInvariant
<1>4. CASE Tick \/ Finished \/ UNCHANGED vars
  <2>1. UNCHANGED <<lock, tasks, usage, calls, local, agent, poll>>
    BY <1>4 DEF Tick, Finished, vars, identity, rows, local
  <2> QED BY <2>1, QuietInvariant DEF TaskInvariant
<1>5. CASE Crash
  BY <1>5, CrashInvariant
<1> QED
  BY <1>1, <1>2, <1>3, <1>4, <1>5 DEF Next

\* The handlers, the row locks and the rows agree with each other at every
\* step of Create, Get, start and finish, however many requests, pollers,
\* agents, faults and crashes there are.
THEOREM InvariantHolds == Spec => []TaskInvariant
<1>1. Init => TaskInvariant
  BY InitInvariant
<1>2. TypeOK /\ TypeOK' /\ TaskInvariant /\ [Next]_vars => TaskInvariant'
  BY NextInvariant
<1> QED
  BY <1>1, <1>2, TypeCorrect, PTL DEF Spec

\* Concurrent, retried and interrupted calls of Create with one idempotency key
\* never send the billable POST twice.
THEOREM BilledOnce == Spec => []OneCallPerSlot
<1>1. TypeOK /\ TaskInvariant => OneCallPerSlot
  <2> SUFFICES ASSUME TypeOK, TaskInvariant, NEW r \in Requests, NEW t \in Requests,
                      t # r, SameSlot(r, t)
               PROVE  calls[r] <= 1 /\ calls[r] + calls[t] <= 1
    <3>1. ASSUME TaskInvariant, NEW r \in Requests PROVE calls[r] <= 1
      BY <3>1 DEF TaskInvariant, RowFollowsCode
    <3> QED BY <3>1 DEF OneCallPerSlot
  <2>1. /\ calls[r] \in {0, 1} /\ calls[t] \in {0, 1}
        /\ calls[r] = 1 => tasks[r].status # "NONE"
        /\ calls[t] = 1 => tasks[t].status # "NONE"
    BY DEF TaskInvariant, RowFollowsCode
  <2>2. "NONE" \in {tasks[r].status, tasks[t].status}
    BY DEF TaskInvariant, OneTaskPerSlot
  <2> QED BY <2>1, <2>2
<1> QED
  BY <1>1, TypeCorrect, InvariantHolds, PTL

\* The unique constraints of gateway_tasks and idempotency_records are never
\* what stops a second task: the check under the agent's row lock does.
THEOREM SlotsAreUnique == Spec => []OneTaskPerSlot
<1>1. TaskInvariant => OneTaskPerSlot
  BY DEF TaskInvariant
<1> QED
  BY <1>1, InvariantHolds, PTL

\* start commits RUNNING before the POST is sent, so every POST is on record.
THEOREM CallsAreRecorded == Spec => []RecordedBeforeCall
<1>1. TypeOK /\ TaskInvariant => RecordedBeforeCall
  <2> SUFFICES ASSUME TaskInvariant, NEW r \in Requests, calls[r] > 0
               PROVE  tasks[r].status \notin {"NONE", "CREATED"}
    BY DEF RecordedBeforeCall
  <2>1. calls[r] \in {0, 1} /\ (calls[r] = 1 => tasks[r].status \notin {"NONE", "CREATED"})
    BY DEF TaskInvariant, RowFollowsCode
  <2> QED BY <2>1
<1> QED
  BY <1>1, TypeCorrect, InvariantHolds, PTL

\* finish settles a row and writes its usage record together, whoever calls it.
THEOREM UsageIsComplete == Spec => []UsageIffSettled
<1>1. TaskInvariant => UsageIffSettled
  BY DEF TaskInvariant, UsageIffSettled
<1> QED
  BY <1>1, InvariantHolds, PTL

\* A replay is answered with a task of the same agent, key and content.
THEOREM RepliesAreFaithful == Spec => []RepliesFaithful
<1>1. TaskInvariant => RepliesFaithful
  BY DEF TaskInvariant, RepliesFaithful
<1> QED
  BY <1>1, InvariantHolds, PTL

\* Create leaves an open row behind only by dying, by answering an error, or
\* by handing the task to a video provider.
THEOREM OpenTasksAreExplained == Spec => []OpenTasksExplained
<1>1. TaskInvariant => OpenTasksExplained
  BY DEF TaskInvariant, OpenTasksExplained
<1> QED
  BY <1>1, InvariantHolds, PTL

-----------------------------------------------------------------------------
(* Action properties *)

\* The agent of a request is active and approved.
Authorized(r) == agent[AgentOf(r)] = [status |-> "ACTIVE", whitelist |-> "APPROVED"]

\* All a step may do to a row: insert it, start it, keep it running, settle it.
RowMove(r) ==
  \/ tasks'[r] = tasks[r]
  \/ tasks[r].status = "NONE" /\ tasks'[r].status = "CREATED" /\ Authorized(r)
  \/ tasks[r].status = "CREATED" /\ tasks'[r].status = "RUNNING" /\ Authorized(r)
  \/ tasks[r].status = "RUNNING" /\ tasks'[r].status = "RUNNING"
  \/ tasks[r].status \in {"CREATED", "RUNNING"} /\ tasks'[r].status \in Settled

\* A step of a request moves its own row only.
LEMMA RequestRowMove ==
  ASSUME TypeOK, TaskInvariant, NEW r \in Requests, RequestStep(r) \/ FaultStep(r)
  PROVE  RowMove(r) /\ \A q \in Requests \ {r} : tasks'[q] = tasks[q]
<1>1. CASE EarlyStep(r) \/ Disconnect(r)
  BY <1>1, EarlyEffect DEF Disconnect, rows, RowMove
<1>2. CASE Commit(r) \/ CommitUnknown(r)
  <2>1. Insert(r) /\ tasks[r].status = "NONE" /\ Authorized(r)
    BY <1>2 DEF Commit, CommitUnknown, TaskInvariant, RowFollowsCode, HoldsLock,
                Authorized, Admitting
  <2> QED BY <2>1, InsertEffect DEF RowMove
<1>3. CASE Start(r) \/ StartFails(r)
  <2>1. CASE tasks' = tasks
    BY <2>1 DEF RowMove
  <2>2. CASE tasks' # tasks
    <3>1. /\ tasks' = [tasks EXCEPT ![r].status = "RUNNING"]
          /\ pc[r] = "created" /\ Usable(agent[AgentOf(r)])
      BY <1>3, <2>2 DEF Start, StartFails, MayStart
    <3>2. tasks[r].status = "CREATED"
      BY <3>1 DEF TaskInvariant, RowFollowsCode
    <3>3. Authorized(r)
      BY <3>1, AgentType DEF Authorized, Usable, TypeOK, AgentRows
    <3>4. tasks[r] \in Row /\ tasks'[r] = [tasks[r] EXCEPT !.status = "RUNNING"]
      BY <3>1 DEF TypeOK
    <3>5. tasks'[r].status = "RUNNING"
      BY <3>4 DEF Row
    <3>6. \A q \in Requests \ {r} : tasks'[q] = tasks[q]
      BY <3>1 DEF TypeOK
    <3> QED BY <3>2, <3>3, <3>5, <3>6 DEF RowMove
  <2> QED BY <2>1, <2>2
<1>4. CASE Call(r) \/ Unsent(r) \/ Answer(r)
  BY <1>4 DEF Call, Unsent, Answer, rows, RowMove
<1>5. CASE Finish(r) \/ FinishFails(r)
  <2>b. (loc[r].out = "RUNNING") \in BOOLEAN
    OBVIOUS
  <2>1. /\ loc[r].out \in Outcomes
        /\ \/ tasks[r].status = "RUNNING"
           \/ tasks[r].status = "CREATED" /\ loc[r].out = "FAILED"
    <3>1. pc[r] = "finish" /\ RowFollowsCode(r)
      BY <1>5 DEF Finish, FinishFails, TaskInvariant
    <3>2. loc[r].out \in Outcomes
      BY DEF TypeOK, Local
    <3> QED BY <3>1, <3>2 DEF RowFollowsCode
  <2>2. CASE UNCHANGED rows
    BY <2>2 DEF rows, RowMove
  <2>3. CASE Finalize(r, loc[r].out, loc[r].out = "RUNNING")
    <3>1. /\ \A q \in Requests \ {r} : tasks'[q] = tasks[q]
          /\ tasks'[r].status = loc[r].out
      <4>1. Open(r)
        BY <2>1 DEF Open
      <4> QED BY <2>b, <2>1, <2>3, <4>1, FinalizeEffect
    <3> QED BY <2>1, <3>1 DEF Outcomes, Settled, RowMove
  <2> QED BY <1>5, <2>2, <2>3 DEF Finish, FinishFails
<1> QED
  BY <1>1, <1>2, <1>3, <1>4, <1>5 DEF RequestStep, FaultStep, EarlyStep

\* Whatever step is taken, every row stays or moves forward.
LEMMA RowsMoveForward ==
  ASSUME TypeOK, TaskInvariant, [Next]_vars
  PROVE  \A q \in Requests : RowMove(q)
<1>1. ASSUME NEW r \in Requests, RequestStep(r) \/ FaultStep(r)
      PROVE  \A q \in Requests : RowMove(q)
  BY <1>1, RequestRowMove DEF RowMove
<1>2. ASSUME NEW p \in Pollers, PollStep(p)
      PROVE  \A q \in Requests : RowMove(q)
  <2>1. CASE PollFinish(p)
    <3>1. /\ PollOf[p] \in Requests
          /\ poll[p].out \in Settled /\ poll[p].out \in Outcomes
          /\ Finalize(PollOf[p], poll[p].out, TRUE)
      BY <2>1, PollAssumption DEF PollFinish, TypeOK, Outcomes
    <3>2. CASE Open(PollOf[p])
      BY <3>1, <3>2, FinalizeEffect DEF Open, RowMove
    <3>3. CASE ~Open(PollOf[p])
      BY <3>1, <3>3, FinalizeEffect DEF RowMove
    <3> QED BY <3>2, <3>3
  <2>2. CASE ~PollFinish(p)
    BY <1>2, <2>2 DEF PollStep, PollRead, PollKey, PollPending, PollDecided, PollFault,
                      rows, RowMove
  <2> QED BY <2>1, <2>2
<1>3. ASSUME NEW a \in Agents, AdminStep(a)
      PROVE  \A q \in Requests : RowMove(q)
  BY <1>3 DEF AdminStep, Review, UpdatePolicy, DropKey, BindKey, rows, RowMove
<1>4. CASE Tick \/ Crash \/ Finished \/ UNCHANGED vars
  BY <1>4 DEF Tick, Crash, Finished, vars, rows, RowMove
<1> QED
  BY <1>1, <1>2, <1>3, <1>4 DEF Next

\* finish never touches a settled row, so the first verdict stands.
THEOREM SettledStays == Spec => SettledForever
<1>1. TypeOK /\ TaskInvariant /\ [Next]_vars
        => [\A r \in Requests : tasks[r].status \in Settled => tasks'[r] = tasks[r]]_vars
  BY RowsMoveForward DEF RowMove, Settled
<1> QED
  BY <1>1, TypeCorrect, InvariantHolds, PTL DEF Spec, SettledForever

\* Neither the admission transaction nor start writes a row for an agent that
\* is not active and approved at that moment.
THEOREM AdvancesAuthorized == Spec => AdvancedWhileAuthorized
<1>1. TypeOK /\ TaskInvariant /\ [Next]_vars
        => [\A r \in Requests :
              tasks'[r].status \in {"CREATED", "RUNNING"} /\ tasks'[r].status # tasks[r].status
              => agent[AgentOf(r)] = [status |-> "ACTIVE", whitelist |-> "APPROVED"]]_vars
  BY RowsMoveForward DEF RowMove, Settled, Authorized
<1> QED
  BY <1>1, TypeCorrect, InvariantHolds, PTL DEF Spec, AdvancedWhileAuthorized

-----------------------------------------------------------------------------
(* Sums over finite sets *)

\* Induction over finite sets is done with SmallestSubset: what fails for some
\* subset fails for one that no longer fails when an element is taken away.

\* The sum of the costs of the rows T of the tasks in S, as Spent computes it.
Total(T, S) == MapThenSumSet(LAMBDA t : T[t].cost, S)

\* g gives every subset of S its sum, whichever element is counted first.
Adds(g, T, S) ==
  /\ g \in [SUBSET S -> Nat]
  /\ g[{}] = 0
  /\ \A u \in SUBSET S : \A y \in u : g[u] = T[y].cost + g[u \ {y}]

\* The recursive function inside the fold, which counts a chosen element first.
Unfolds(g, T, S) ==
  g = [s \in SUBSET S |-> IF s = {} THEN 0
                          ELSE T[CHOOSE x \in s : TRUE].cost
                               + g[s \ {CHOOSE x \in s : TRUE}]]

\* The fold is the value of that function, if there is one.
LEMMA TotalUnfolds ==
  ASSUME NEW T, NEW S
  PROVE  Total(T, S) = (CHOOSE g : Unfolds(g, T, S))[S]
BY DEF Total, MapThenSumSet, MapThenFoldSet, Unfolds

\* Of some subsets of a finite set, one has no element whose removal leads to
\* another of them.
LEMMA SmallestSubset ==
  ASSUME NEW S, IsFiniteSet(S), NEW B, B \subseteq SUBSET S, B # {}
  PROVE  \E s \in B : \A y \in s : s \ {y} \notin B
<1>1. FiniteSubsetsOf(S) = SUBSET S
  BY FS_FiniteSubsetsOfFinite
<1>2. IsWellFoundedOn(StrictSubsetOrdering(S), SUBSET S)
  BY <1>1, FS_StrictSubsetOrderingWellFounded
<1>3. PICK s \in B : \A u \in B : <<u, s>> \notin StrictSubsetOrdering(S)
  BY <1>2, WFMin
<1>4. ASSUME NEW y \in s PROVE s \ {y} \notin B
  <2>1. s \in SUBSET S /\ s \ {y} \in SUBSET S /\ s \ {y} # s
    OBVIOUS
  <2>2. <<s \ {y}, s>> \in StrictSubsetOrdering(S)
    BY <2>1 DEF StrictSubsetOrdering
  <2> QED
    BY <1>3, <2>2
<1> QED
  BY <1>4

\* Sums exist: the sum of a set follows from that of the set without some x.
LEMMA AddsExists ==
  ASSUME NEW T, NEW S, IsFiniteSet(S), \A t \in S : T[t].cost \in Nat
  PROVE  \E g : Adds(g, T, S)
<1> DEFINE B == {s \in SUBSET S : ~ \E g : Adds(g, T, s)}
<1>1. SUFFICES ASSUME B # {} PROVE FALSE
  <2>1. S \in SUBSET S
    OBVIOUS
  <2> QED
    BY <2>1, <1>1
<1>2. PICK s \in B : \A y \in s : s \ {y} \notin B
  <2> HIDE DEF B
  <2>1. B \subseteq SUBSET S
    BY DEF B
  <2> QED
    BY <1>1, <2>1, SmallestSubset
<1>3. CASE s = {}
  <2>1. Adds([u \in SUBSET {} |-> 0], T, {})
    BY DEF Adds
  <2> QED
    BY <1>2, <1>3, <2>1
<1>4. CASE s # {}
  <2>1. PICK x \in s : TRUE
    BY <1>4
  <2>2. PICK h : Adds(h, T, s \ {x})
    BY <1>2, <2>1
  <2> DEFINE g == [u \in SUBSET s |-> IF x \in u THEN T[x].cost + h[u \ {x}] ELSE h[u]]
  <2>3. /\ T[x].cost \in Nat
        /\ h \in [SUBSET (s \ {x}) -> Nat] /\ h[{}] = 0
        /\ \A u \in SUBSET (s \ {x}) : \A y \in u : h[u] = T[y].cost + h[u \ {y}]
    BY <2>2, <1>2 DEF Adds
  <2>4. \A y \in s : T[y].cost \in Nat
    BY <1>2
  <2>5. ASSUME NEW u \in SUBSET s
        PROVE  g[u] \in Nat
    <3>1. CASE x \in u
      <4>1. u \ {x} \in SUBSET (s \ {x})
        OBVIOUS
      <4> QED
        BY <3>1, <4>1, <2>3
    <3>2. CASE x \notin u
      <4>1. u \in SUBSET (s \ {x})
        BY <3>2
      <4> QED
        BY <3>2, <4>1, <2>3
    <3> QED
      BY <3>1, <3>2
  <2>6. ASSUME NEW u \in SUBSET s, NEW y \in u
        PROVE  g[u] = T[y].cost + g[u \ {y}]
    <3>1. CASE x \notin u
      <4>1. u \in SUBSET (s \ {x}) /\ u \ {y} \in SUBSET s /\ x \notin u \ {y}
        BY <3>1
      <4> QED
        BY <3>1, <4>1, <2>3
    <3>2. CASE x \in u /\ y = x
      <4>1. u \ {x} \in SUBSET s /\ x \notin u \ {x}
        OBVIOUS
      <4> QED
        BY <3>2, <4>1
    <3>3. CASE x \in u /\ y # x
      <4>1. /\ u \ {y} \in SUBSET s /\ x \in u \ {y}
            /\ u \ {x} \in SUBSET (s \ {x}) /\ y \in u \ {x}
            /\ (u \ {x}) \ {y} = (u \ {y}) \ {x}
            /\ (u \ {x}) \ {y} \in SUBSET (s \ {x})
        BY <3>3
      <4>2. h[u \ {x}] = T[y].cost + h[(u \ {y}) \ {x}] /\ h[(u \ {y}) \ {x}] \in Nat
        <5>1. h[u \ {x}] = T[y].cost + h[(u \ {x}) \ {y}]
          BY <4>1, <2>3
        <5>2. h[(u \ {x}) \ {y}] \in Nat
          BY <4>1, <2>3
        <5> QED
          BY <4>1, <5>1, <5>2
      <4>3. /\ g[u] = T[x].cost + h[u \ {x}]
            /\ g[u \ {y}] = T[x].cost + h[(u \ {y}) \ {x}]
        BY <3>3, <4>1
      <4>4. T[y].cost \in Nat
        BY <2>4
      <4> HIDE DEF g
      <4> QED
        BY <4>2, <4>3, <4>4, <2>3
    <3> QED
      BY <3>1, <3>2, <3>3
  <2>7. g[{}] = 0
    BY <2>3
  <2>8. g \in [SUBSET s -> Nat]
    BY <2>5
  <2>9. Adds(g, T, s)
    <3> HIDE DEF g
    <3> QED
      BY <2>6, <2>7, <2>8 DEF Adds
  <2> QED
    BY <1>2, <2>9
<1> QED
  BY <1>3, <1>4

\* The fold computes that sum, whatever CHOOSE picks.
LEMMA TotalIs ==
  ASSUME NEW T, NEW S, IsFiniteSet(S), NEW g, Adds(g, T, S)
  PROVE  Total(T, S) = g[S]
<1> DEFINE ch(s) == CHOOSE x \in s : TRUE
           f == CHOOSE h : Unfolds(h, T, S)
           B == {s \in SUBSET S : f[s] # g[s]}
<1>1. Unfolds(g, T, S)
  <2>1. ASSUME NEW s \in SUBSET S
        PROVE  g[s] = IF s = {} THEN 0 ELSE T[ch(s)].cost + g[s \ {ch(s)}]
    <3>1. CASE s = {}
      BY <3>1 DEF Adds
    <3>2. CASE s # {}
      <4>1. ch(s) \in s
        BY <3>2
      <4> HIDE DEF ch
      <4> QED
        BY <3>2, <4>1 DEF Adds
    <3> QED
      BY <3>1, <3>2
  <2>2. g = [s \in SUBSET S |-> g[s]]
    BY DEF Adds
  <2> QED
    BY <2>1, <2>2 DEF Unfolds
<1>2. Unfolds(f, T, S)
  BY <1>1
<1> HIDE DEF f
<1>3. ASSUME B # {} PROVE FALSE
  <2>1. PICK s \in B : \A y \in s : s \ {y} \notin B
    <3>1. B \subseteq SUBSET S
      OBVIOUS
    <3> HIDE DEF B
    <3> QED
      BY <1>3, <3>1, SmallestSubset
  <2>2. CASE s = {}
    BY <1>2, <2>1, <2>2 DEF Unfolds, Adds
  <2>3. CASE s # {}
    <3>1. ch(s) \in s
      BY <2>3
    <3>2. f[s] = T[ch(s)].cost + f[s \ {ch(s)}]
      BY <1>2, <2>3 DEF Unfolds
    <3> HIDE DEF ch
    <3>3. g[s] = T[ch(s)].cost + g[s \ {ch(s)}]
      BY <3>1 DEF Adds
    <3>4. f[s \ {ch(s)}] = g[s \ {ch(s)}]
      BY <3>1, <2>1
    <3> QED
      BY <3>2, <3>3, <3>4
  <2> QED
    BY <2>2, <2>3
<1>4. f[S] = g[S]
  BY <1>3
<1> QED
  BY <1>4, TotalUnfolds DEF f

\* A sum of natural numbers is one.
LEMMA TotalType ==
  ASSUME NEW T, NEW S, IsFiniteSet(S), \A t \in S : T[t].cost \in Nat
  PROVE  Total(T, S) \in Nat
<1>1. PICK g : Adds(g, T, S)
  BY AddsExists
<1>2. g[S] \in Nat
  BY <1>1 DEF Adds
<1> QED
  BY <1>1, <1>2, TotalIs

\* A sum depends on the costs of its tasks only, not on the rest of their rows.
LEMMA TotalSame ==
  ASSUME NEW T, NEW U, NEW S, IsFiniteSet(S),
         \A t \in S : T[t].cost \in Nat /\ U[t].cost = T[t].cost
  PROVE  Total(U, S) = Total(T, S)
<1>1. PICK g : Adds(g, T, S)
  BY AddsExists
<1>2. Adds(g, U, S)
  BY <1>1 DEF Adds
<1> QED
  BY <1>1, <1>2, TotalIs

\* A sum of all subsets of S is one of all subsets of R.
LEMMA AddsSubset ==
  ASSUME NEW g, NEW T, NEW S, Adds(g, T, S), NEW R \in SUBSET S
  PROVE  \E h : Adds(h, T, R) /\ h[R] = g[R]
<1> DEFINE h == [u \in SUBSET R |-> g[u]]
<1>1. h \in [SUBSET R -> Nat] /\ h[{}] = 0 /\ h[R] = g[R]
  BY DEF Adds
<1>2. ASSUME NEW u \in SUBSET R, NEW y \in u
      PROVE  h[u] = T[y].cost + h[u \ {y}]
  <2>1. u \in SUBSET S /\ u \ {y} \in SUBSET R
    OBVIOUS
  <2> QED
    BY <2>1 DEF Adds
<1> HIDE DEF h
<1>3. Adds(h, T, R)
  BY <1>1, <1>2 DEF Adds
<1> QED
  BY <1>1, <1>3

\* So the sums of S have the totals of its subsets among them.
LEMMA TotalOfSubset ==
  ASSUME NEW T, NEW S, IsFiniteSet(S), NEW g, Adds(g, T, S), NEW R \in SUBSET S
  PROVE  Total(T, R) = g[R]
<1>1. PICK h : Adds(h, T, R) /\ h[R] = g[R]
  BY AddsSubset
<1>2. IsFiniteSet(R)
  BY FS_Subset
<1> QED
  BY <1>1, <1>2, TotalIs

\* A new task adds its cost.
LEMMA TotalAdds ==
  ASSUME NEW T, NEW S, IsFiniteSet(S), NEW r, r \notin S,
         \A t \in S \cup {r} : T[t].cost \in Nat
  PROVE  Total(T, S \cup {r}) = T[r].cost + Total(T, S)
<1>1. IsFiniteSet(S \cup {r})
  BY FS_AddElement
<1>2. PICK g : Adds(g, T, S \cup {r})
  BY <1>1, AddsExists
<1>3. Total(T, S \cup {r}) = g[S \cup {r}]
  BY <1>1, <1>2, TotalIs
<1>4. Total(T, S) = g[S]
  BY <1>1, <1>2, TotalOfSubset
<1>5. g[S \cup {r}] = T[r].cost + g[S]
  <2>1. (S \cup {r}) \ {r} = S
    OBVIOUS
  <2> QED
    BY <1>2, <2>1 DEF Adds
<1> QED
  BY <1>3, <1>4, <1>5

\* Fewer tasks cost no more.
LEMMA TotalMonotone ==
  ASSUME NEW T, NEW S, IsFiniteSet(S), \A t \in S : T[t].cost \in Nat,
         NEW R \in SUBSET S
  PROVE  Total(T, R) \in Nat /\ Total(T, R) <= Total(T, S)
<1>1. PICK g : Adds(g, T, S)
  BY AddsExists
<1>3. Total(T, R) = g[R] /\ Total(T, S) = g[S]
  BY <1>1, TotalOfSubset
<1> DEFINE B == {s \in SUBSET S : R \subseteq s /\ ~(g[R] <= g[s])}
<1>4. g \in [SUBSET S -> Nat]
  BY <1>1 DEF Adds
<1>5. ASSUME B # {} PROVE FALSE
  <2>1. PICK s \in B : \A y \in s : s \ {y} \notin B
    <3>1. B \subseteq SUBSET S
      OBVIOUS
    <3> HIDE DEF B
    <3> QED
      BY <1>5, <3>1, SmallestSubset
  <2>2. s # R
    BY <1>4
  <2>3. PICK y \in s : y \notin R
    BY <2>2
  <2>4. g[R] <= g[s \ {y}]
    BY <2>1, <2>3
  <2>5. g[s] = T[y].cost + g[s \ {y}]
    BY <1>1 DEF Adds
  <2>6. g[s \ {y}] \in Nat /\ g[R] \in Nat /\ g[s] \in Nat /\ T[y].cost \in Nat
    BY <1>4
  <2>7. ~(g[R] <= g[s])
    OBVIOUS
  <2> QED
    BY <2>4, <2>5, <2>6, <2>7
<1>6. g[R] <= g[S]
  BY <1>5
<1> QED
  BY <1>3, <1>4, <1>6
-----------------------------------------------------------------------------
(* Budgets *)

\* The tasks that are stored; those of an agent since a day, as summary sums
\* them up; and those of an agent on some days.
AllStored(T) == {t \in Requests : T[t].status # "NONE"}
StoredSince(T, a, since) ==
  {t \in Requests : T[t].status # "NONE" /\ AgentOf(t) = a /\ T[t].created >= since}
StoredOn(T, a, days) ==
  {t \in Requests : T[t].status # "NONE" /\ AgentOf(t) = a /\ T[t].created \in days}

\* The policy p of agent a has room for a task with the local variables l.
HasRoom(T, p, a, l) ==
  /\ l.cost <= p.perRequest
  /\ Total(T, StoredSince(T, a, l.day)) + l.cost <= p.daily
  /\ Total(T, StoredSince(T, a, MonthStart(l.day))) + l.cost <= p.monthly

\* From the check inside its transaction to its commit, a request has room in
\* the policy in force; only finitely many tasks are ever stored.
BudgetInvariant ==
  /\ IsFiniteSet(AllStored(tasks))
  /\ \A r \in Requests :
       pc[r] = "insert" => HasRoom(tasks, policy[AgentOf(r)], AgentOf(r), loc[r])

\* A step that stores no task leaves what the sums are made of alone.
SameBooks ==
  \A t \in Requests :
    /\ tasks[t].status = "NONE" <=> tasks'[t].status = "NONE"
    /\ tasks'[t].cost = tasks[t].cost /\ tasks'[t].created = tasks[t].created

\* Rounding a day down to a multiple of the month's length.
LEMMA RoundedDown ==
  ASSUME NEW d \in Nat, NEW n \in Nat \ {0}
  PROVE  /\ (d \div n) * n \in Nat
         /\ (d \div n) * n <= d /\ d <= (d \div n) * n + n - 1
<1> DEFINE q == d \div n
<1>1. q \in Nat
  OBVIOUS
<1>2. (d \div n) * n <= d
  OBVIOUS
<1>3. d <= (d \div n) * n + n - 1
  OBVIOUS
<1>4. q * n \in Nat
  <2> HIDE DEF q
  <2> QED BY <1>1
<1> QED
  BY <1>2, <1>3, <1>4

\* A day lies in its month, and no day of a month before its first.
LEMMA DayInMonth ==
  ASSUME NEW d \in Nat
  PROVE  /\ MonthStart(d) \in Nat
         /\ d \in MonthStart(d)..(MonthStart(d) + DaysPerMonth - 1)
         /\ \A e \in MonthStart(d)..(MonthStart(d) + DaysPerMonth - 1) : e >= MonthStart(d)
<1>1. DaysPerMonth \in Nat \ {0}
  BY BoundAssumption
<1>2. /\ MonthStart(d) \in Nat
      /\ MonthStart(d) <= d /\ d <= MonthStart(d) + DaysPerMonth - 1
  BY <1>1, RoundedDown, Zenon DEF MonthStart
<1> QED
  BY <1>1, <1>2

\* finish changes the verdict of a row, and neither its cost nor its day.
LEMMA FinalizeBooks ==
  ASSUME TypeOK, NEW t \in Requests, NEW status \in Outcomes,
         NEW provider \in BOOLEAN, Finalize(t, status, provider)
  PROVE  SameBooks
<1>1. CASE Open(t)
  <2>1. tasks' = [tasks EXCEPT ![t].status = status, ![t].provider = @ \/ provider]
    BY <1>1 DEF Finalize
  <2>2. tasks \in [Requests -> Row] /\ tasks[t] \in Row
    BY DEF TypeOK
  <2>3. /\ tasks'[t].status = status
        /\ tasks'[t].cost = tasks[t].cost /\ tasks'[t].created = tasks[t].created
    BY <2>1, <2>2 DEF Row
  <2>4. \A q \in Requests \ {t} : tasks'[q] = tasks[q]
    BY <2>1, <2>2
  <2>5. status # "NONE" /\ tasks[t].status # "NONE"
    BY <1>1 DEF Outcomes, Settled, Open
  <2> QED BY <2>3, <2>4, <2>5 DEF SameBooks
<1>2. CASE ~Open(t)
  BY <1>2, FinalizeEffect DEF SameBooks
<1> QED BY <1>1, <1>2

\* start changes the status of a row that exists.
LEMMA StartBooks ==
  ASSUME TypeOK, TaskInvariant, NEW r \in Requests, Start(r) \/ StartFails(r)
  PROVE  SameBooks
<1>1. CASE tasks' = tasks
  BY <1>1 DEF SameBooks
<1>2. CASE tasks' # tasks
  <2>1. tasks' = [tasks EXCEPT ![r].status = "RUNNING"] /\ pc[r] = "created"
    BY <1>2 DEF Start, StartFails, MayStart
  <2>2. tasks[r].status = "CREATED"
    BY <2>1 DEF TaskInvariant, RowFollowsCode
  <2>3. tasks \in [Requests -> Row] /\ tasks[r] \in Row
    BY DEF TypeOK
  <2>4. /\ tasks'[r].status = "RUNNING"
        /\ tasks'[r].cost = tasks[r].cost /\ tasks'[r].created = tasks[r].created
    BY <2>1, <2>3 DEF Row
  <2>5. \A q \in Requests \ {r} : tasks'[q] = tasks[q]
    BY <2>1, <2>3
  <2> QED BY <2>2, <2>4, <2>5 DEF SameBooks
<1> QED BY <1>1, <1>2

\* Only the admission transaction stores a task.
LEMMA BooksKept ==
  ASSUME TypeOK, TaskInvariant, [Next]_vars,
         \A r \in Requests : ~(Commit(r) \/ CommitUnknown(r))
  PROVE  SameBooks
<1>1. ASSUME NEW r \in Requests, RequestStep(r) \/ FaultStep(r)
      PROVE  SameBooks
  <2>1. CASE EarlyStep(r)
    BY <2>1, EarlyEffect DEF SameBooks
  <2>2. CASE Disconnect(r) \/ Call(r) \/ Unsent(r) \/ Answer(r)
    BY <2>2 DEF Disconnect, Call, Unsent, Answer, rows, SameBooks
  <2>3. CASE Start(r) \/ StartFails(r)
    BY <2>3, StartBooks
  <2>4. CASE Finish(r) \/ FinishFails(r)
    <3>1. loc[r].out \in Outcomes /\ (loc[r].out = "RUNNING") \in BOOLEAN
      BY DEF TypeOK, Local
    <3>2. CASE UNCHANGED rows
      BY <3>2 DEF rows, SameBooks
    <3>3. CASE Finalize(r, loc[r].out, loc[r].out = "RUNNING")
      BY <3>1, <3>3, FinalizeBooks
    <3> QED BY <2>4, <3>2, <3>3 DEF Finish, FinishFails
  <2> QED
    BY <1>1, <2>1, <2>2, <2>3, <2>4 DEF RequestStep, FaultStep, EarlyStep
<1>2. ASSUME NEW p \in Pollers, PollStep(p)
      PROVE  SameBooks
  <2>1. CASE PollFinish(p)
    <3>1. /\ PollOf[p] \in Requests /\ poll[p].out \in Outcomes
          /\ Finalize(PollOf[p], poll[p].out, TRUE)
      BY <2>1, PollAssumption DEF PollFinish, TypeOK, Outcomes
    <3> QED BY <3>1, FinalizeBooks
  <2>2. CASE ~PollFinish(p)
    BY <1>2, <2>2 DEF PollStep, PollRead, PollKey, PollPending, PollDecided, PollFault,
                      rows, SameBooks
  <2> QED BY <2>1, <2>2
<1>3. ASSUME NEW a \in Agents, AdminStep(a)
      PROVE  SameBooks
  BY <1>3 DEF AdminStep, Review, UpdatePolicy, DropKey, BindKey, rows, SameBooks
<1>4. CASE Tick \/ Crash \/ Finished \/ UNCHANGED vars
  BY <1>4 DEF Tick, Crash, Finished, vars, rows, SameBooks
<1> QED
  BY <1>1, <1>2, <1>3, <1>4 DEF Next

\* A request gets to its insertion only through the check inside its
\* transaction, and its policy does not change while it is there.
InsertReached(q) ==
  pc'[q] = "insert" =>
    /\ loc'[q] = loc[q] /\ policy'[AgentOf(q)] = policy[AgentOf(q)]
    /\ pc[q] = "insert" \/ StillWithinBudget(q)

\* The steps of one request, its own insertion first.
LEMMA RequestReach ==
  ASSUME TypeOK, TaskInvariant, NEW r \in Requests, RequestStep(r) \/ FaultStep(r)
  PROVE  \A q \in Requests : InsertReached(q)
<1>p. policy' = policy
  BY DEF RequestStep, FaultStep, CheckActive, Lookup, ReadKey, Quote, BeginTx, LockActive,
         Recheck, Commit, Start, StartFails, Call, Unsent, Answer, Finish, Abandon,
         CommitUnknown, FinishFails, Disconnect, identity
<1>1. ASSUME NEW q \in Requests, q # r PROVE pc'[q] = pc[q] /\ loc'[q] = loc[q]
  <2>1. CASE EarlyStep(r)
    BY <1>1, <2>1, EarlyEffect
  <2>2. CASE Disconnect(r)
    BY <2>2 DEF Disconnect, local
  <2>3. CASE ~EarlyStep(r) /\ ~Disconnect(r)
    BY <1>1, <2>3 DEF RequestStep, FaultStep, EarlyStep, Commit, Start, StartFails, Call,
       Unsent, Answer, Finish, CommitUnknown, FinishFails, Continue, Return, TypeOK, local
  <2> QED BY <2>1, <2>2, <2>3
<1>2. InsertReached(r)
  <2>1. CASE Recheck(r)
    <3>1. CASE Existing(r) # {}
      BY <2>1, <3>1, ReplayEffect DEF Recheck, InsertReached
    <3>2. CASE Existing(r) = {} /\ StillWithinBudget(r)
      BY <1>p, <2>1, <3>2, ContinueEffect DEF Recheck, InsertReached
    <3>3. CASE Existing(r) = {} /\ ~StillWithinBudget(r)
      BY <2>1, <3>3, ReturnEffect DEF Recheck, InsertReached
    <3> QED BY <3>1, <3>2, <3>3
  <2>2. CASE Disconnect(r)
    BY <1>p, <2>2 DEF Disconnect, local, InsertReached
  <2>3. CASE ~Recheck(r) /\ ~Disconnect(r)
    <3>1. pc'[r] # "insert"
      BY <2>3 DEF RequestStep, FaultStep, CheckActive, Lookup, ReadKey, Quote, BeginTx,
         LockActive, Commit, Start, StartFails, Call, Unsent, Answer, Finish, Abandon,
         CommitUnknown, FinishFails, Continue, Return, Replay, TypeOK
    <3> QED BY <3>1 DEF InsertReached
  <2> QED BY <2>1, <2>2, <2>3
<1> QED
  BY <1>p, <1>1, <1>2 DEF InsertReached

\* The steps of everybody.
LEMMA PolicyHeld ==
  ASSUME TypeOK, TaskInvariant, [Next]_vars
  PROVE  \A q \in Requests : InsertReached(q)
<1>1. ASSUME NEW r \in Requests, RequestStep(r) \/ FaultStep(r)
      PROVE  \A q \in Requests : InsertReached(q)
  BY <1>1, RequestReach
<1>2. ASSUME NEW p \in Pollers, PollStep(p)
      PROVE  \A q \in Requests : InsertReached(q)
  BY <1>2 DEF PollStep, PollRead, PollKey, PollPending, PollDecided, PollFinish, PollFault,
              identity, local, InsertReached
<1>3. ASSUME NEW a \in Agents, AdminStep(a), NEW q \in Requests
      PROVE  InsertReached(q)
  <2>1. UNCHANGED <<pc, loc>>
    BY <1>3 DEF AdminStep, Review, UpdatePolicy, DropKey, BindKey, local
  <2>2. ASSUME pc[q] = "insert" PROVE policy'[AgentOf(q)] = policy[AgentOf(q)]
    <3>1. lock[AgentOf(q)] = q /\ q # NoReq
      BY <2>2, BoundAssumption DEF TaskInvariant, HoldsLock
    <3>2. CASE policy' = policy
      BY <3>2
    <3>3. ASSUME NEW p \in Policies, UpdatePolicy(a, p)
          PROVE  policy'[AgentOf(q)] = policy[AgentOf(q)]
      <4>1. a # AgentOf(q) /\ policy' = [policy EXCEPT ![a] = p]
        BY <3>1, <3>3 DEF UpdatePolicy, LockFree
      <4> QED BY <4>1, AgentType DEF TypeOK
    <3> QED
      BY <1>3, <3>2, <3>3 DEF AdminStep, Review, DropKey, BindKey
  <2> QED BY <2>1, <2>2 DEF InsertReached
<1>4. CASE Tick \/ Finished \/ UNCHANGED vars
  BY <1>4 DEF Tick, Finished, vars, identity, local, InsertReached
<1>5. CASE Crash
  <2>1. \A q \in Requests : pc'[q] # "insert"
    BY <1>5 DEF Crash, TypeOK, RequestPCs, Admitting, Executing
  <2> QED BY <2>1 DEF InsertReached
<1> QED
  BY <1>1, <1>2, <1>3, <1>4, <1>5 DEF Next

\* The check inside the transaction leaves room.
LEMMA CheckMeansRoom ==
  ASSUME NEW r \in Requests, StillWithinBudget(r)
  PROVE  HasRoom(tasks, policy[AgentOf(r)], AgentOf(r), loc[r])
BY DEF StillWithinBudget, WithinBudget, BudgetGuard, Spent, HasRoom, StoredSince, Total

\* Whatever happens to other agents' rows, or to the status of stored rows, an
\* agent has the room it had.
LEMMA RoomKept ==
  ASSUME NEW T \in [Requests -> Row], NEW U \in [Requests -> Row],
         IsFiniteSet(AllStored(T)), NEW a, NEW p, NEW l, HasRoom(T, p, a, l),
         \A t \in Requests : AgentOf(t) = a =>
           /\ T[t].status = "NONE" <=> U[t].status = "NONE"
           /\ U[t].cost = T[t].cost /\ U[t].created = T[t].created
  PROVE  HasRoom(U, p, a, l)
<1>1. ASSUME NEW since
      PROVE  Total(U, StoredSince(U, a, since)) = Total(T, StoredSince(T, a, since))
  <2> DEFINE S == StoredSince(T, a, since)
  <2>1. StoredSince(U, a, since) = S
    BY DEF StoredSince
  <2>2. S \in SUBSET AllStored(T) /\ \A t \in S : t \in Requests /\ AgentOf(t) = a
    BY DEF AllStored, StoredSince
  <2>3. \A t \in S : T[t].cost \in Nat /\ U[t].cost = T[t].cost
    <3> HIDE DEF S
    <3> QED BY <2>2 DEF Row
  <2>4. IsFiniteSet(S)
    BY <2>2, FS_Subset
  <2> HIDE DEF S
  <2>5. Total(U, S) = Total(T, S)
    BY <2>3, <2>4, TotalSame
  <2> QED BY <2>1, <2>5 DEF S
<1> QED
  BY <1>1 DEF HasRoom

\* A new row adds its cost to the sums of its agent, and to no more than what
\* the sums since an earlier day were.
LEMMA InsertTotal ==
  ASSUME NEW T \in [Requests -> Row], NEW U \in [Requests -> Row],
         IsFiniteSet(AllStored(T)), NEW r \in Requests,
         T[r].status = "NONE", U[r].status # "NONE",
         \A q \in Requests \ {r} : U[q] = T[q],
         NEW since \in Nat, NEW days, \A d \in days : d >= since,
         U[r].created \in days
  PROVE  /\ Total(T, StoredSince(T, AgentOf(r), since)) \in Nat
         /\ Total(U, StoredOn(U, AgentOf(r), days)) \in Nat
         /\ Total(U, StoredOn(U, AgentOf(r), days))
              <= Total(T, StoredSince(T, AgentOf(r), since)) + U[r].cost
<1> DEFINE S == StoredOn(T, AgentOf(r), days)
           W == StoredSince(T, AgentOf(r), since)
<1>1. StoredOn(U, AgentOf(r), days) = S \cup {r} /\ r \notin S
  BY DEF StoredOn
<1>2. S \in SUBSET W
  BY DEF StoredOn, StoredSince
<1>3. W \in SUBSET AllStored(T) /\ W \in SUBSET Requests
  BY DEF StoredSince, AllStored
<1> HIDE DEF S, W
<1>4. IsFiniteSet(W)
  BY <1>3, FS_Subset
<1>5. IsFiniteSet(S)
  BY <1>2, <1>4, FS_Subset
<1>6. \A t \in Requests : T[t].cost \in Nat /\ U[t].cost \in Nat
  BY DEF Row
<1>7. \A t \in W : T[t].cost \in Nat
  BY <1>3, <1>6
<1>8. Total(T, S) \in Nat /\ Total(T, S) <= Total(T, W)
  BY <1>2, <1>4, <1>7, TotalMonotone
<1>9. Total(T, W) \in Nat
  BY <1>4, <1>7, TotalType
<1>10. Total(U, S) = Total(T, S)
  <2>1. \A t \in S : T[t].cost \in Nat /\ U[t].cost = T[t].cost
    BY <1>1, <1>2, <1>3, <1>6
  <2> QED BY <1>5, <2>1, TotalSame
<1>11. Total(U, S \cup {r}) = U[r].cost + Total(U, S)
  <2>1. \A t \in S \cup {r} : U[t].cost \in Nat
    BY <1>2, <1>3, <1>6
  <2> QED BY <1>1, <1>5, <2>1, TotalAdds
<1>12. U[r].cost \in Nat
  BY <1>6
<1>13. /\ Total(U, S \cup {r}) \in Nat
       /\ Total(U, S \cup {r}) <= Total(T, W) + U[r].cost
  BY <1>8, <1>9, <1>10, <1>11, <1>12
<1> QED
  BY <1>1, <1>9, <1>13 DEF W

\* What the admission transaction stores.
LEMMA CommitBooks ==
  ASSUME TypeOK, TaskInvariant, NEW r \in Requests, Commit(r) \/ CommitUnknown(r)
  PROVE  /\ pc[r] = "insert" /\ tasks[r].status = "NONE" /\ lock[AgentOf(r)] = r
         /\ tasks'[r].status # "NONE"
         /\ tasks'[r].cost = loc[r].cost /\ tasks'[r].created = loc[r].day
         /\ pc'[r] # "insert"
         /\ \A q \in Requests \ {r} : tasks'[q] = tasks[q]
<1>1. pc[r] = "insert" /\ tasks[r].status = "NONE" /\ lock[AgentOf(r)] = r
  BY DEF Commit, CommitUnknown, TaskInvariant, RowFollowsCode, HoldsLock, Admitting
<1>2. pc'[r] # "insert"
  BY DEF Commit, CommitUnknown, Continue, Return, TypeOK
<1>3. Insert(r)
  BY DEF Commit, CommitUnknown
<1> QED
  BY <1>1, <1>2, <1>3 DEF Insert, TypeOK

\* Room is left as long as it is needed: others of the agent wait for the lock.
LEMMA BudgetStep ==
  ASSUME TypeOK, TypeOK', TaskInvariant, BudgetInvariant, [Next]_vars
  PROVE  BudgetInvariant'
<1>t. tasks \in [Requests -> Row] /\ tasks' \in [Requests -> Row]
  BY DEF TypeOK
<1>f. IsFiniteSet(AllStored(tasks))
  BY DEF BudgetInvariant
<1>1. ASSUME NEW q \in Requests, pc'[q] = "insert"
      PROVE  /\ HasRoom(tasks, policy'[AgentOf(q)], AgentOf(q), loc'[q])
             /\ pc[q] = "insert" \/ StillWithinBudget(q)
  BY <1>1, PolicyHeld, CheckMeansRoom DEF BudgetInvariant, InsertReached
<1>2. CASE \A r \in Requests : ~(Commit(r) \/ CommitUnknown(r))
  <2>1. SameBooks
    BY <1>2, BooksKept
  <2>2. AllStored(tasks') = AllStored(tasks)
    BY <2>1 DEF AllStored, SameBooks
  <2>3. ASSUME NEW q \in Requests, pc'[q] = "insert"
        PROVE  HasRoom(tasks', policy'[AgentOf(q)], AgentOf(q), loc'[q])
    BY <1>t, <1>f, <1>1, <2>1, <2>3, RoomKept DEF SameBooks
  <2> QED BY <1>f, <2>2, <2>3 DEF BudgetInvariant
<1>3. ASSUME NEW r \in Requests, Commit(r) \/ CommitUnknown(r)
      PROVE  BudgetInvariant'
  <2>1. AllStored(tasks') = AllStored(tasks) \cup {r}
    BY <1>3, CommitBooks DEF AllStored
  <2>2. IsFiniteSet(AllStored(tasks'))
    BY <1>f, <2>1, FS_AddElement
  <2>3. ASSUME NEW q \in Requests, pc'[q] = "insert"
        PROVE  HasRoom(tasks', policy'[AgentOf(q)], AgentOf(q), loc'[q])
    <3>1. q # r
      BY <1>3, <2>3, CommitBooks
    <3>2. pc[q] = "insert"
      <4>1. pc'[q] = pc[q]
        BY <1>3, <3>1, ContinueEffect, ReturnEffect DEF Commit, CommitUnknown
      <4> QED BY <2>3, <4>1
    <3>3. AgentOf(r) # AgentOf(q)
      BY <1>3, <3>1, <3>2, CommitBooks DEF TaskInvariant, HoldsLock
    <3>4. \A t \in Requests : AgentOf(t) = AgentOf(q) => tasks'[t] = tasks[t]
      BY <1>3, <3>3, CommitBooks
    <3> QED BY <1>t, <1>f, <1>1, <2>3, <3>4, RoomKept
  <2> QED BY <2>2, <2>3 DEF BudgetInvariant
<1> QED BY <1>2, <1>3

\* Nothing is stored yet.
LEMMA BudgetInit == Init => BudgetInvariant
<1> SUFFICES ASSUME Init PROVE BudgetInvariant
  OBVIOUS
<1>1. AllStored(tasks) = {} /\ \A r \in Requests : pc[r] # "insert"
  BY DEF Init, NoRow, AllStored
<1> QED BY <1>1, FS_EmptySet DEF BudgetInvariant

\* What the property sums up.
LEMMA ChargedTotal ==
  \A a, ds : Charged(a, ds) = Total(tasks, StoredOn(tasks, a, ds))
BY DEF Charged, Total, StoredOn

\* The step that stores a task leaves the sums of its day and month within the
\* policy.
LEMMA CommitWithinBudget ==
  ASSUME TypeOK, TypeOK', TaskInvariant, BudgetInvariant, NEW r \in Requests,
         Commit(r) \/ CommitUnknown(r), NEW days, NEW since \in Nat, NEW limit \in Nat,
         \A d \in days : d >= since, tasks'[r].created \in days,
         Total(tasks, StoredSince(tasks, AgentOf(r), since)) + loc[r].cost <= limit
  PROVE  Charged(AgentOf(r), days)' <= limit
<1>1. /\ tasks \in [Requests -> Row] /\ tasks' \in [Requests -> Row]
      /\ IsFiniteSet(AllStored(tasks)) /\ loc[r].cost \in Nat
  BY DEF TypeOK, BudgetInvariant, Local
<1>2. /\ tasks[r].status = "NONE" /\ tasks'[r].status # "NONE"
      /\ tasks'[r].cost = loc[r].cost
      /\ \A q \in Requests \ {r} : tasks'[q] = tasks[q]
  BY CommitBooks
<1> DEFINE old == Total(tasks, StoredSince(tasks, AgentOf(r), since))
           new == Total(tasks', StoredOn(tasks', AgentOf(r), days))
<1>3. old \in Nat /\ new \in Nat /\ new <= old + tasks'[r].cost
  BY <1>1, <1>2, InsertTotal
<1>4. Charged(AgentOf(r), days)' = new
  <2>1. (\A a, ds : Charged(a, ds) = Total(tasks, StoredOn(tasks, a, ds)))'
    BY ChargedTotal, PTL
  <2> QED BY <2>1
<1> HIDE DEF old, new
<1>5. old + loc[r].cost <= limit
  BY DEF old
<1> QED
  BY <1>1, <1>2, <1>3, <1>4, <1>5

\* The sums of the tasks an agent has on a day and in a month never exceed the
\* policy in force when the last of them is stored: BudgetGuard is repeated
\* under the agent's lock, with sums nobody else of the agent can change
\* before the commit, for any number of requests, costs and policies.
THEOREM BudgetsHold == Spec => AdmissionWithinBudget
<1> DEFINE Month(d) == MonthStart(d)..(MonthStart(d) + DaysPerMonth - 1)
<1>1. ASSUME TypeOK, TypeOK', TaskInvariant, BudgetInvariant, [Next]_vars,
             NEW r \in Requests, NEW d \in 0..MaxDay,
             tasks[r].status = "NONE", tasks'[r].status # "NONE", tasks'[r].created = d
      PROVE  /\ tasks'[r].cost <= policy[AgentOf(r)].perRequest
             /\ Charged(AgentOf(r), {d})' <= policy[AgentOf(r)].daily
             /\ Charged(AgentOf(r), Month(d))' <= policy[AgentOf(r)].monthly
  <2>1. PICK q \in Requests : Commit(q) \/ CommitUnknown(q)
    BY <1>1, BooksKept DEF SameBooks
  <2>2. q = r
    BY <1>1, <2>1, CommitBooks
  <2>3. Commit(r) \/ CommitUnknown(r)
    BY <2>1, <2>2
  <2>4. loc[r].day = d /\ tasks'[r].cost = loc[r].cost /\ pc[r] = "insert"
    BY <1>1, <2>3, CommitBooks
  <2>5. HasRoom(tasks, policy[AgentOf(r)], AgentOf(r), loc[r])
    BY <1>1, <2>4 DEF BudgetInvariant
  <2>6. policy[AgentOf(r)].daily \in Nat /\ policy[AgentOf(r)].monthly \in Nat
    BY <1>1, AgentType, PolicyAssumption DEF TypeOK
  <2>7. d \in Nat /\ MonthStart(d) \in Nat
    BY BoundAssumption, DayInMonth
  <2>8. Charged(AgentOf(r), {d})' <= policy[AgentOf(r)].daily
    BY <1>1, <2>3, <2>4, <2>5, <2>6, <2>7, CommitWithinBudget DEF HasRoom
  <2>9. d \in Month(d) /\ \A e \in Month(d) : e >= MonthStart(d)
    BY <2>7, DayInMonth
  <2>10. Charged(AgentOf(r), Month(d))' <= policy[AgentOf(r)].monthly
    BY <1>1, <2>3, <2>4, <2>5, <2>6, <2>7, <2>9, CommitWithinBudget DEF HasRoom
  <2> QED BY <2>4, <2>5, <2>8, <2>10 DEF HasRoom
<1>2. TypeOK /\ TypeOK' /\ TaskInvariant /\ BudgetInvariant /\ [Next]_vars
        => [\A r \in Requests : \A d \in 0..MaxDay :
              LET a == AgentOf(r)
                  month == MonthStart(d)..(MonthStart(d) + DaysPerMonth - 1)
              IN  (/\ tasks[r].status = "NONE" /\ tasks'[r].status # "NONE"
                   /\ tasks'[r].created = d)
                  => /\ tasks'[r].cost <= policy[a].perRequest
                     /\ Charged(a, {d})' <= policy[a].daily
                     /\ Charged(a, month)' <= policy[a].monthly]_vars
  BY <1>1
<1>3. Spec => []BudgetInvariant
  BY BudgetInit, BudgetStep, TypeCorrect, InvariantHolds, PTL DEF Spec
<1> QED
  BY <1>2, <1>3, TypeCorrect, InvariantHolds, PTL DEF Spec, AdmissionWithinBudget

-----------------------------------------------------------------------------
(* Refinement *)

\* What the mapping makes of the slots.
LEMMA SlotFacts ==
  ASSUME NEW r \in Requests, NEW t \in Requests
  PROVE  /\ Slot[r] \in Agents \X Keys
         /\ Slot[r] = Slot[t] <=> SameSlot(r, t)
<1>1. Slot[r] = <<Input[r].agent, Input[r].key>> /\ Slot[t] = <<Input[t].agent, Input[t].key>>
  BY DEF Slot, AgentOf
<1>2. Input[r].agent \in Agents /\ Input[r].key \in Keys
  BY InputAssumption
<1> QED
  BY <1>1, <1>2 DEF SameSlot, AgentOf

\* The commit of a row takes its slot, and settling a row decides its slot,
\* since no other row is in it; starting a row does neither.
LEMMA RowMoveImplements ==
  ASSUME TypeOK, TaskInvariant, NEW r \in Requests, UNCHANGED calls, RowMove(r),
         \A q \in Requests \ {r} : tasks'[q] = tasks[q],
         tasks[r].status = "NONE" /\ tasks'[r].status # "NONE" => SlotStaysFree(r) /\ pc[r] = "insert"
  PROVE  Abstract!Next \/ UNCHANGED Abstract!slots
<1> DEFINE s == Slot[r]
           Stored == {q \in Requests : tasks[q].status # "NONE"}
           Done == {q \in Requests : tasks[q].status \in Settled}
           taken == {Slot[q] : q \in Stored}
           outcome == {<<Slot[q], tasks[q].status>> : q \in Done}
<1>s. s \in Agents \X Keys
  BY SlotFacts
<1>1. CASE tasks[r].status = "NONE" /\ tasks'[r].status = "CREATED"
  <2>1. \A q \in Requests : Slot[q] = s => tasks[q].status = "NONE"
    BY <1>1, SlotFacts DEF SlotStaysFree
  <2>2. Stored' = Stored \cup {r} /\ Done' = Done
    BY <1>1 DEF Settled
  <2>3. taken' = taken \cup {s} /\ s \notin taken
    BY <2>1, <2>2 DEF Slot
  <2>4. outcome' = outcome
    <3>1. \A q \in Done : tasks'[q] = tasks[q]
      BY <1>1 DEF Settled
    <3> HIDE DEF Done
    <3> QED BY <2>2, <3>1 DEF Slot
  <2>5. Abstract!Take(s)
    BY <2>3, <2>4 DEF Abstract!Take
  <2> QED BY <1>s, <2>5 DEF Abstract!Next
<1>2. CASE tasks[r].status \in {"CREATED", "RUNNING"} /\ tasks'[r].status \in Settled
  <2>1. \A q \in Requests \ {r} : Slot[q] = s => tasks[q].status = "NONE"
    BY <1>2, SlotFacts DEF TaskInvariant, OneTaskPerSlot
  <2>2. Stored' = Stored /\ Done' = Done \cup {r}
    BY <1>2 DEF Settled
  <2>3. taken' = taken /\ s \in taken
    BY <1>2, <2>2 DEF Slot
  <2>4. outcome' = outcome \cup {<<s, tasks'[r].status>>}
    <3>1. \A q \in Done : tasks'[q] = tasks[q]
      BY <1>2 DEF Settled
    <3> HIDE DEF Done
    <3> QED BY <2>2, <3>1 DEF Slot
  <2>5. \A o \in Settled : <<s, o>> \notin outcome
    BY <1>2, <2>1 DEF Settled
  <2>6. Abstract!Decide(s)
    BY <1>2, <2>3, <2>4, <2>5 DEF Abstract!Decide, Abstract!Undecided
  <2> QED BY <1>s, <2>6 DEF Abstract!Next
<1>3. CASE \/ tasks'[r] = tasks[r]
           \/ tasks[r].status \in {"CREATED", "RUNNING"} /\ tasks'[r].status = "RUNNING"
  <2>1. Stored' = Stored /\ Done' = Done
    BY <1>3 DEF Settled
  <2>2. taken' = taken
    BY <2>1 DEF Slot
  <2>3. outcome' = outcome
    <3>1. \A q \in Done : tasks'[q] = tasks[q]
      BY <1>3 DEF Settled
    <3> HIDE DEF Done
    <3> QED BY <2>1, <3>1 DEF Slot
  <2> QED BY <2>2, <2>3 DEF Abstract!slots
<1> QED
  BY <1>1, <1>2, <1>3 DEF RowMove

\* The POST is sent for a stored, unsettled row whose slot nobody else used.
LEMMA CallImplements ==
  ASSUME TypeOK, TaskInvariant, NEW r \in Requests, Call(r)
  PROVE  Abstract!Next
<1>1. pc[r] = "running" /\ tasks[r].status = "RUNNING" /\ calls[r] = 0
  BY DEF Call, TaskInvariant, RowFollowsCode
<1>2. calls' = [calls EXCEPT ![r] = 1] /\ tasks' = tasks
  BY <1>1 DEF Call, TypeOK, rows
<1>3. \A t \in Requests \ {r} : Slot[t] = Slot[r] => tasks[t].status = "NONE"
  BY <1>1, SlotFacts DEF TaskInvariant, OneTaskPerSlot
<1>4. \A t \in Requests : Slot[t] = Slot[r] => calls[t] = 0
  BY <1>1, <1>3 DEF TaskInvariant, RowFollowsCode
<1>5. Abstract!Undecided(Slot[r])
  BY <1>1, <1>3 DEF Abstract!Undecided, Settled
<1>6. Abstract!Run(r)
  BY <1>2, <1>4, <1>5 DEF Abstract!Run
<1> QED
  BY <1>6 DEF Abstract!Next

\* Every step of the task service is a step of the promise, or none.
LEMMA StepImplements ==
  TypeOK /\ TaskInvariant /\ [Next]_vars => [Abstract!Next]_(Abstract!slots)
<1> SUFFICES ASSUME TypeOK, TaskInvariant, [Next]_vars
             PROVE  Abstract!Next \/ UNCHANGED Abstract!slots
  OBVIOUS
<1>1. CASE UNCHANGED <<tasks, calls>>
  BY <1>1 DEF Abstract!slots
<1>2. ASSUME NEW r \in Requests, RequestStep(r) \/ FaultStep(r), ~Call(r)
      PROVE  Abstract!Next \/ UNCHANGED Abstract!slots
  <2>1. RowMove(r) /\ \A q \in Requests \ {r} : tasks'[q] = tasks[q]
    BY <1>2, RequestRowMove
  <2>2. CASE EarlyStep(r) \/ Disconnect(r) \/ Unsent(r) \/ Answer(r)
    BY <1>1, <2>2, EarlyEffect DEF Disconnect, Unsent, Answer, rows
  <2>3. CASE Commit(r) \/ CommitUnknown(r)
    <3>1. pc[r] = "insert" /\ SlotStaysFree(r) /\ UNCHANGED calls
      BY <2>3 DEF Commit, CommitUnknown, TaskInvariant
    <3> QED BY <2>1, <3>1, RowMoveImplements
  <2>4. CASE Start(r) \/ StartFails(r) \/ Finish(r) \/ FinishFails(r)
    <3>1. tasks[r].status # "NONE" /\ UNCHANGED calls
      BY <2>4 DEF Start, StartFails, Finish, FinishFails, TaskInvariant, RowFollowsCode
    <3> QED BY <2>1, <3>1, RowMoveImplements
  <2> QED
    BY <1>2, <2>2, <2>3, <2>4 DEF RequestStep, FaultStep, EarlyStep
<1>3. ASSUME NEW p \in Pollers, PollStep(p)
      PROVE  Abstract!Next \/ UNCHANGED Abstract!slots
  <2>1. CASE PollFinish(p)
    <3>1. /\ PollOf[p] \in Requests /\ UNCHANGED calls
          /\ poll[p].out \in Settled /\ poll[p].out \in Outcomes
          /\ Finalize(PollOf[p], poll[p].out, TRUE)
      BY <2>1, PollAssumption DEF PollFinish, TypeOK, Outcomes
    <3>2. CASE Open(PollOf[p])
      <4>1. /\ tasks[PollOf[p]].status # "NONE"
            /\ \A q \in Requests \ {PollOf[p]} : tasks'[q] = tasks[q]
            /\ RowMove(PollOf[p])
        BY <3>1, <3>2, FinalizeEffect DEF Open, RowMove
      <4> QED BY <3>1, <4>1, RowMoveImplements
    <3>3. CASE ~Open(PollOf[p])
      BY <1>1, <3>1, <3>3, FinalizeEffect
    <3> QED BY <3>2, <3>3
  <2>2. CASE ~PollFinish(p)
    BY <1>1, <1>3, <2>2 DEF PollStep, PollRead, PollKey, PollPending, PollDecided, PollFault, rows
  <2> QED BY <2>1, <2>2
<1>4. ASSUME NEW a \in Agents, AdminStep(a)
      PROVE  Abstract!Next \/ UNCHANGED Abstract!slots
  BY <1>1, <1>4 DEF AdminStep, Review, UpdatePolicy, DropKey, BindKey, rows
<1>5. CASE Tick \/ Crash \/ Finished \/ UNCHANGED vars
  BY <1>1, <1>5 DEF Tick, Crash, Finished, vars, rows
<1> QED
  BY <1>2, <1>3, <1>4, <1>5, CallImplements DEF Next

\* Create, its pollers and the rows of gateway_tasks implement the promise of an
\* idempotency key, for any agents, requests, keys, faults and crashes.
THEOREM TasksImplement == Spec => TasksOncePerSlot
<1>1. Init => Abstract!Init
  <2> SUFFICES ASSUME Init PROVE Abstract!Init
    OBVIOUS
  <2>1. \A r \in Requests : tasks[r].status = "NONE"
    BY DEF Init, NoRow
  <2> QED BY <2>1 DEF Init, Abstract!Init, Settled
<1> QED
  BY <1>1, StepImplements, TypeCorrect, InvariantHolds, PTL
     DEF Spec, TasksOncePerSlot, Abstract!Spec
=============================================================================
