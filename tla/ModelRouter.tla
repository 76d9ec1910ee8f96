---------------------------- MODULE ModelRouter ----------------------------
(***************************************************************************)
(* How Create of internal/task/service.go chooses a model for a task and   *)
(* bounds its cost: the routing rules read at start-up, Quote and          *)
(* BudgetGuard of internal/task/router.go, the loop over the rules, and    *)
(* what is finally sent to Kovar.                                          *)
(*                                                                         *)
(* Quote computes with big.Rat.  A decimal has a bounded number of digits, *)
(* so that prices, multipliers and durations are integers over one fixed   *)
(* denominator, Scale, and nothing is rounded but the final cost.  The     *)
(* amounts BudgetGuard compares are machine integers up to MaxInt.         *)
(*                                                                         *)
(* A payload is a partial function from the numeric fields that Quote      *)
(* reads to their values: "parameters" stands for n inside the object      *)
(* parameters, "input" for the length of the text, "duration" for a number *)
(* over Scale.  A pricing document is the sequence of its entries, which   *)
(* a rule's pointer names; pointers by array index are left out.           *)
(***************************************************************************)
EXTENDS Integers, Sequences, FiniteSetsExt

CONSTANTS
  Configurations,  \* possible contents of the routing file, sequences of rules
  Inputs,          \* tasks asked for
  Documents,       \* pricing documents Kovar may answer with
  Funds,           \* quotas, policy and sums that the budget check may read
  Available,       \* the models the agent's key may use
  Malformed,       \* a price that is no decimal
  Scale,           \* the common denominator of the decimals
  MaxInt,          \* the largest machine integer
  InputLimit, OutputLimit,  \* bounds on the limits a rule may set
  MaxCount,        \* copies one request may ask for
  MaxDuration      \* seconds one request may ask for

TextTasks == {"chat", "embedding", "rerank"}
TaskTypes == TextTasks \cup {"image", "video", "speech", "transcription"}
PriceUnits == {"request", "token", "image", "second", "character"}
CountFields == {"n", "parameters"}
LimitFields == {"max_tokens", "max_completion_tokens"}
PayloadFields == CountFields \cup LimitFields \cup {"input", "duration"}
IsPayload(p) ==
  /\ DOMAIN p \subseteq PayloadFields
  /\ p \in [DOMAIN p -> Int]
  /\ "input" \in DOMAIN p => p["input"] \in Nat

RuleRecords == [type : STRING, model : STRING, pointer : STRING, unit : STRING,
                factor : Int, maxInput : Int, maxOutput : Int]
IsInput(i) ==
  /\ IsPayload(i.payload)
  /\ i \in [type : STRING, protocol : STRING, model : STRING, size : Nat,
            text : BOOLEAN, wellFormed : BOOLEAN, payload : {i.payload}]
EntryRecords == [name : STRING, price : Int \cup {Malformed}]
Words == (-MaxInt - 1) .. MaxInt
FundRecords == [account : Words, token : Words, today : Words, month : Words,
                perRequest : Words, daily : Words, monthly : Words]

ASSUME ScaleAssumption == Scale \in Nat \ {0}
ASSUME LimitAssumption == MaxInt \in Nat /\ MaxCount \in Nat /\ MaxDuration \in Nat
ASSUME MalformedAssumption == Malformed \notin Int
ASSUME DataAssumption ==
  /\ \A rs \in Configurations : rs \in Seq(RuleRecords)
  /\ \A i \in Inputs : IsInput(i)
  /\ \A d \in Documents : d \in Seq(EntryRecords)
  /\ \A f \in Funds : f \in FundRecords

VARIABLES
  rules,     \* the routing file
  in,        \* the task asked for
  doc,       \* the answer to the pricing request
  funds,     \* what the budget check reads
  pc,        \* "load" | "stopped" | "decode" | "route" | "chosen" | "sent" | "refused"
  next,      \* the rule the loop is at; afterwards the chosen one
  failure,   \* why the last rule tried did not serve: "none" | "quote" | "budget"
  estimate,  \* the cost the task is admitted with
  sent       \* the payload sent to Kovar

vars == <<rules, in, doc, funds, pc, next, failure, estimate, sent>>

(***************************************************************************)
(* The routing file.                                                       *)
(***************************************************************************)

\* Validate.
Validate(rs) ==
  /\ \A i, j \in DOMAIN rs :
       rs[i].type = rs[j].type /\ rs[i].model = rs[j].model => i = j
  /\ \A i \in DOMAIN rs :
       /\ rs[i].type \in TaskTypes
       /\ rs[i].model # "" /\ rs[i].pointer # ""
       /\ rs[i].maxInput \in 1 .. InputLimit
       /\ rs[i].maxOutput \in 0 .. OutputLimit
       /\ rs[i].unit \in PriceUnits
       /\ rs[i].factor > 0

(***************************************************************************)
(* Quote.                                                                  *)
(***************************************************************************)

\* normalizePricing keys the entries by model name; a later entry replaces an
\* earlier one of the same name.
Priced(d, name) == {i \in DOMAIN d : d[i].name = name}
Price(d, name) == d[Max(Priced(d, name))].price

\* n inside parameters takes precedence over n.
Count(p) ==
  IF "parameters" \in DOMAIN p THEN p["parameters"]
  ELSE IF "n" \in DOMAIN p THEN p["n"] ELSE 1

\* The output tokens a chat may generate, the rule's cap unless it asks for less.
Output(r, p) ==
  CASE r.type # "chat" -> 0
    [] r.type = "chat" /\ "max_completion_tokens" \in DOMAIN p -> p["max_completion_tokens"]
    [] r.type = "chat" /\ "max_completion_tokens" \notin DOMAIN p
         /\ "max_tokens" \in DOMAIN p -> p["max_tokens"]
    [] OTHER -> r.maxOutput

\* The conditions Quote checks on the limits of a chat.
OutputAllowed(r, p) ==
  r.type = "chat" =>
    /\ r.maxOutput > 0
    /\ ~ LimitFields \subseteq DOMAIN p
    /\ \A f \in LimitFields \cap DOMAIN p : p[f] \in 1 .. r.maxOutput

\* The conditions Quote checks on what the rule's unit measures.
UnitMeasurable(r, i) ==
  /\ r.unit = "token" => r.type \in TextTasks /\ (r.type = "chat" => i.text)
  /\ r.unit = "character" => "input" \in DOMAIN i.payload
  /\ r.unit = "second" => /\ "duration" \in DOMAIN i.payload
                          /\ i.payload["duration"] \in 1 .. MaxDuration * Scale

\* Quote answers a cost, unless the cost is too large.
Quotable(d, r, i) ==
  /\ i.size <= r.maxInput
  /\ Priced(d, r.pointer) # {}
  /\ Price(d, r.pointer) \in Nat
  /\ r.factor > 0
  /\ \A f \in CountFields \cap DOMAIN i.payload : i.payload[f] \in 1 .. MaxCount
  /\ OutputAllowed(r, i.payload)
  /\ UnitMeasurable(r, i)

\* One copy in units, over Scale, when it generates t output tokens.
PerCopy(r, size, p, t) ==
  CASE r.unit = "token" -> Scale * (size + t)
    [] r.unit = "character" -> Scale * p["input"]
    [] r.unit = "second" -> p["duration"]
    [] OTHER -> Scale

\* The denominator of price * multiplier * units.
Unit == Scale * Scale * Scale

\* Mutant: the cost is rounded down.
RoundDown(num) == num \div Unit

RoundUp(num) == num \div Unit + IF num % Unit # 0 THEN 1 ELSE 0

Cost(d, r, i) ==
  RoundUp(Price(d, r.pointer) * r.factor
            * (Count(i.payload) * PerCopy(r, i.size, i.payload, Output(r, i.payload))))

Quoted(d, r, i) == Quotable(d, r, i) /\ Cost(d, r, i) \in Words

(***************************************************************************)
(* BudgetGuard.                                                            *)
(***************************************************************************)

\* A sum or difference of two machine integers, as the machine computes it.
Wrap(x) ==
  IF x > MaxInt THEN x - 2 * (MaxInt + 1)
  ELSE IF x < -MaxInt - 1 THEN x + 2 * (MaxInt + 1) ELSE x

\* Mutant: the sum is compared with the limit.
WithinSum(e, sum, limit) == Wrap(sum + e) <= limit

\* What is left of a limit, for a cost e, after sum was spent.
Within(e, sum, limit) == sum <= limit /\ e <= Wrap(limit - sum)

BudgetGuard(f, e) ==
  /\ e >= 0 /\ f.account >= 0 /\ f.token >= 0 /\ f.today >= 0 /\ f.month >= 0
  /\ e <= f.account
  /\ e <= f.token
  /\ e <= f.perRequest
  /\ Within(e, f.today, f.daily)
  /\ Within(e, f.month, f.monthly)

(***************************************************************************)
(* Create.                                                                 *)
(***************************************************************************)

\* operation: the request schema the payload must match.  The edit of an image
\* documents the same of the fields above as its generation.
Operation(i) == IF i.type = "image" /\ i.protocol = "qwen" THEN "qwen_image" ELSE i.type
Supported(i) ==
  /\ i.type \in TaskTypes
  /\ i.protocol \in (IF i.type = "image" THEN {"", "openai", "qwen"} ELSE {""})

\* The fields that the schema of an operation documents; it allows no others.
SchemaFields(op) ==
  CASE op = "chat" -> {"n"} \cup LimitFields
    [] op = "image" -> {"n"}
    [] op = "qwen_image" -> {"parameters"}
    [] op = "video" -> {"n", "duration"}
    [] op \in {"speech", "embedding"} -> {"input"}
    [] OTHER -> {}

\* The model client's Validate, on the payload that will be sent.
Conforms(i, p) == i.wellFormed /\ DOMAIN p \subseteq SchemaFields(Operation(i))

\* Mutant: the cap is only used for the estimate.
ForwardedAsAsked(r, i) == i.payload

\* The payload with the output cap of the rule, when the request sets none.
Forwarded(r, i) ==
  IF i.type = "chat" /\ r.maxOutput > 0 /\ LimitFields \cap DOMAIN i.payload = {}
  THEN [f \in DOMAIN i.payload \cup {"max_completion_tokens"} |->
          IF f \in DOMAIN i.payload THEN i.payload[f] ELSE r.maxOutput]
  ELSE i.payload

Init ==
  /\ rules \in Configurations /\ in \in Inputs /\ doc \in Documents /\ funds \in Funds
  /\ pc = "load" /\ next = 1 /\ failure = "none" /\ estimate = 0 /\ sent = in.payload

\* LoadRouter: the gateway does not start with a file that is not valid.
LoadRouter ==
  /\ pc = "load"
  /\ pc' = IF Validate(rules) THEN "decode" ELSE "stopped"
  /\ UNCHANGED <<rules, in, doc, funds, next, failure, estimate, sent>>

\* The operation and, if it is named, the model are checked before any rule.
Decode ==
  /\ pc = "decode"
  /\ pc' = IF Supported(in) /\ in.model \in Available \cup {""} THEN "route" ELSE "refused"
  /\ UNCHANGED <<rules, in, doc, funds, next, failure, estimate, sent>>

Applies(r) == r.type = in.type /\ r.model \in Available /\ in.model \in {"", r.model}

PassOver ==
  /\ pc = "route" /\ next \in DOMAIN rules
  /\ ~ Applies(rules[next])
  /\ next' = next + 1
  /\ UNCHANGED <<rules, in, doc, funds, pc, failure, estimate, sent>>

QuoteFails ==
  /\ pc = "route" /\ next \in DOMAIN rules
  /\ Applies(rules[next]) /\ ~ Quoted(doc, rules[next], in)
  /\ next' = next + 1 /\ failure' = "quote"
  /\ UNCHANGED <<rules, in, doc, funds, pc, estimate, sent>>

BudgetFails ==
  /\ pc = "route" /\ next \in DOMAIN rules
  /\ Applies(rules[next]) /\ Quoted(doc, rules[next], in)
  /\ ~ BudgetGuard(funds, Cost(doc, rules[next], in))
  /\ next' = next + 1 /\ failure' = "budget"
  /\ UNCHANGED <<rules, in, doc, funds, pc, estimate, sent>>

Choose ==
  /\ pc = "route" /\ next \in DOMAIN rules
  /\ Applies(rules[next]) /\ Quoted(doc, rules[next], in)
  /\ BudgetGuard(funds, Cost(doc, rules[next], in))
  /\ pc' = "chosen" /\ estimate' = Cost(doc, rules[next], in)
  /\ UNCHANGED <<rules, in, doc, funds, next, failure, sent>>

\* No rule is left: the last failure is answered, or that nothing is configured.
NoRule ==
  /\ pc = "route" /\ next \notin DOMAIN rules
  /\ pc' = "refused"
  /\ UNCHANGED <<rules, in, doc, funds, next, failure, estimate, sent>>

\* The payload is completed and validated.  Admission and POST are TaskService's.
Forward ==
  /\ pc = "chosen"
  /\ LET p == Forwarded(rules[next], in) IN
       \/ Conforms(in, p) /\ pc' = "sent" /\ sent' = p
       \/ ~ Conforms(in, p) /\ pc' = "refused" /\ UNCHANGED sent
  /\ UNCHANGED <<rules, in, doc, funds, next, failure, estimate>>

Next == LoadRouter \/ Decode \/ PassOver \/ QuoteFails \/ BudgetFails \/ Choose
          \/ NoRule \/ Forward

Spec == Init /\ [][Next]_vars

(***************************************************************************)
(* Properties.                                                             *)
(***************************************************************************)

\* Every variable has its type, and the loop stays in the list of rules.
TypeOK ==
  /\ rules \in Configurations /\ in \in Inputs /\ doc \in Documents /\ funds \in Funds
  /\ pc \in {"load", "stopped", "decode", "route", "chosen", "sent", "refused"}
  /\ next \in 1 .. Len(rules) + 1
  /\ pc \in {"chosen", "sent"} => next \in DOMAIN rules
  /\ failure \in {"none", "quote", "budget"}
  /\ estimate \in Words
  /\ IsPayload(sent)

\* What the request sent to Kovar can cost by the rule's own price: for every
\* number of copies and every output limit that its payload names.
Copies == {1} \cup {sent[f] : f \in CountFields \cap DOMAIN sent}
Outputs == {0} \cup {sent[f] : f \in LimitFields \cap DOMAIN sent}
Charge(c, t) ==
  Price(doc, rules[next].pointer) * rules[next].factor
    * (c * PerCopy(rules[next], in.size, sent, t))

\* The estimate a task is admitted with is an upper bound of what the payload
\* sent for it can cost (Quote's comment: "rounds estimates upward"), whatever
\* its fields say of copies and output, although Quote let parameters.n replace
\* n and the output cap is added after the estimate; and it is the least such
\* integer, so that no budget is refused for rounding.
EstimateCovers ==
  pc = "sent" =>
    /\ \A c \in Copies, t \in Outputs : Charge(c, t) <= estimate * Unit
    /\ \E c \in Copies, t \in Outputs : (estimate - 1) * Unit < Charge(c, t)

\* A task whose cost passed BudgetGuard fits into every limit in mathematical
\* integers, although the code compares machine integers that could wrap.
SpendsWithinLimits ==
  pc = "sent" =>
    /\ estimate \in 0 .. funds.account /\ estimate <= funds.token
    /\ estimate <= funds.perRequest
    /\ funds.today + estimate <= funds.daily
    /\ funds.month + estimate <= funds.monthly

\* A chat leaves the gateway with exactly one limit on its output, at most the
\* rule's cap, whether or not its client set one.
OutputCapped ==
  pc = "sent" /\ in.type = "chat" =>
    \E f \in LimitFields : /\ LimitFields \cap DOMAIN sent = {f}
                           /\ sent[f] \in 1 .. rules[next].maxOutput

=============================================================================
