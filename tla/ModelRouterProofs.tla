-------------------------- MODULE ModelRouterProofs --------------------------
(***************************************************************************)
(* The bounds on the cost of a task, for any routing file, pricing         *)
(* document, payload, quotas and size of machine integers.                 *)
(*                                                                         *)
(* The invariant remembers, once a rule is chosen, that it was quoted and  *)
(* that its cost passed BudgetGuard, and, once the task is sent, which     *)
(* payload was sent and that it conforms to its schema.                    *)
(***************************************************************************)
EXTENDS ModelRouter, TLAPS

USE ScaleAssumption, LimitAssumption

ChosenServes ==
  pc \in {"chosen", "sent"} =>
    /\ Applies(rules[next])
    /\ Quoted(doc, rules[next], in)
    /\ estimate = Cost(doc, rules[next], in)
    /\ BudgetGuard(funds, estimate)

SentConforms ==
  pc = "sent" => sent = Forwarded(rules[next], in) /\ Conforms(in, sent)

IInv == TypeOK /\ ChosenServes /\ SentConforms

-----------------------------------------------------------------------------
(* Arithmetic *)

\* Prices are per a positive number of units.
LEMMA UnitPositive == Unit \in Nat /\ Unit > 0
<1>1. Scale * Scale \in Nat /\ Scale * Scale > 0
  OBVIOUS
<1> QED BY <1>1 DEF Unit

\* Division with remainder.
LEMMA DivisionBounds ==
  ASSUME NEW n \in Nat, NEW d \in Nat, d > 0
  PROVE  /\ n \div d \in Int /\ n % d \in 0 .. d - 1
         /\ n = (n \div d) * d + (n % d)
  OBVIOUS

\* RoundUp is the least integer that covers a cost.
LEMMA RoundUpLeast ==
  ASSUME NEW n \in Nat
  PROVE  /\ RoundUp(n) \in Int
         /\ n <= RoundUp(n) * Unit
         /\ (RoundUp(n) - 1) * Unit < n
<1> DEFINE q == n \div Unit
           m == n % Unit
<1>1. q \in Int /\ m \in 0 .. Unit - 1 /\ n = q * Unit + m
  BY UnitPositive, DivisionBounds
<1>2. CASE m = 0
  BY <1>1, <1>2, UnitPositive DEF RoundUp
<1>3. CASE m # 0
  BY <1>1, <1>3, UnitPositive DEF RoundUp
<1> QED BY <1>2, <1>3

\* Products of natural numbers are monotone.
LEMMA ProductsGrow ==
  ASSUME NEW a \in Nat, NEW b \in Nat, NEW c \in Nat, NEW d \in Nat, a <= b, c <= d
  PROVE  a * c \in Nat /\ a * c <= b * d
<1>1. a * c <= b * c
  OBVIOUS
<1>2. b * c <= b * d
  OBVIOUS
<1> QED BY <1>1, <1>2

\* Within is exact: the difference it computes never wraps.
LEMMA WithinExact ==
  ASSUME NEW e \in Nat, NEW sum \in Words, NEW limit \in Words, sum >= 0
  PROVE  Within(e, sum, limit) <=> sum + e <= limit
  BY DEF Within, Wrap, Words

-----------------------------------------------------------------------------
(* Invariance *)

\* The rule, request and funds at hand are well formed.
LEMMA RuleType ==
  ASSUME TypeOK, next \in DOMAIN rules
  PROVE  /\ rules[next] \in RuleRecords
         /\ IsInput(in)
         /\ funds \in FundRecords
<1>1. rules \in Seq(RuleRecords)
  BY DataAssumption DEF TypeOK
<1> QED BY <1>1, DataAssumption DEF TypeOK

\* What is sent is a payload.
LEMMA ForwardedType ==
  ASSUME NEW r \in RuleRecords, NEW i, IsInput(i)
  PROVE  IsPayload(Forwarded(r, i))
  BY DEF Forwarded, IsInput, IsPayload, RuleRecords, PayloadFields, LimitFields

\* A request begins with the first rule.
LEMMA InitInvariant == Init => IInv
<1> SUFFICES ASSUME Init PROVE IInv
  OBVIOUS
<1>1. rules \in Seq(RuleRecords) /\ IsInput(in)
  BY DataAssumption DEF Init
<1>2. TypeOK
  BY <1>1 DEF Init, TypeOK, IsInput, Words
<1> QED BY <1>2 DEF Init, IInv, ChosenServes, SentConforms

\* Every step preserves the invariant.
LEMMA NextInvariant == IInv /\ [Next]_vars => IInv'
<1> SUFFICES ASSUME IInv, [Next]_vars PROVE IInv'
  OBVIOUS
<1> USE DEF IInv
<1>0. rules \in Seq(RuleRecords)
  BY DataAssumption DEF TypeOK
<1>1. CASE LoadRouter \/ Decode
  BY <1>1 DEF LoadRouter, Decode, TypeOK, ChosenServes, SentConforms
<1>2. CASE PassOver \/ QuoteFails \/ BudgetFails
  BY <1>0, <1>2 DEF PassOver, QuoteFails, BudgetFails, TypeOK, ChosenServes, SentConforms
<1>3. CASE Choose
  <2>1. TypeOK'
    BY <1>3 DEF Choose, TypeOK, Quoted
  <2>2. ChosenServes'
    BY <1>3 DEF Choose, ChosenServes, Applies
  <2> QED
    BY <1>3, <2>1, <2>2 DEF Choose, SentConforms
<1>4. CASE NoRule
  BY <1>4 DEF NoRule, TypeOK, ChosenServes, SentConforms
<1>5. CASE Forward
  <2>1. next \in DOMAIN rules
    BY <1>5 DEF Forward, TypeOK
  <2>2. IsPayload(Forwarded(rules[next], in))
    BY <2>1, RuleType, ForwardedType
  <2>3. TypeOK'
    BY <1>5, <2>2 DEF Forward, TypeOK
  <2>4. ChosenServes'
    BY <1>5 DEF Forward, ChosenServes, Applies
  <2> QED
    BY <1>5, <2>3, <2>4 DEF Forward, SentConforms
<1>6. CASE UNCHANGED vars
  BY <1>6 DEF vars, TypeOK, ChosenServes, SentConforms, Applies
<1> QED
  BY <1>1, <1>2, <1>3, <1>4, <1>5, <1>6 DEF Next

\* The loop over rules keeps to its list in every reachable state.
LEMMA Invariance == Spec => []IInv
  BY InitInvariant, NextInvariant, PTL DEF Spec

\* Every variable of the router keeps its type, and the loop over the rules
\* never leaves the list.
THEOREM TypeCorrect == Spec => []TypeOK
  BY Invariance, PTL DEF IInv

-----------------------------------------------------------------------------
(* The budget *)

\* Whatever the size of machine integers, a cost that BudgetGuard lets pass fits
\* into the account, the token and the three limits without wrapping.
THEOREM LimitsAreKept == Spec => []SpendsWithinLimits
<1>1. IInv => SpendsWithinLimits
  <2> SUFFICES ASSUME IInv, pc = "sent" PROVE SpendsWithinLimits
    BY DEF SpendsWithinLimits
  <2>1. next \in DOMAIN rules /\ estimate \in Words /\ BudgetGuard(funds, estimate)
    BY DEF IInv, TypeOK, ChosenServes
  <2>2. funds \in FundRecords
    BY <2>1, RuleType DEF IInv
  <2>3. estimate \in Nat
    BY <2>1 DEF BudgetGuard, Words
  <2>4. funds.today + estimate <= funds.daily /\ funds.month + estimate <= funds.monthly
    BY <2>1, <2>2, <2>3, WithinExact DEF BudgetGuard, FundRecords
  <2> QED
    BY <2>1, <2>2, <2>3, <2>4 DEF BudgetGuard, FundRecords, Words, SpendsWithinLimits
<1> QED BY <1>1, Invariance, PTL

-----------------------------------------------------------------------------
(* The output limit *)

\* A chat is sent with one output limit, its own or the rule's cap.
THEOREM OutputIsCapped == Spec => []OutputCapped
<1>1. IInv => OutputCapped
  <2> SUFFICES ASSUME IInv, pc = "sent", in.type = "chat" PROVE OutputCapped
    BY DEF OutputCapped
  <2> DEFINE r == rules[next]
  <2>1. next \in DOMAIN rules /\ r.type = "chat" /\ OutputAllowed(r, in.payload)
    BY DEF IInv, TypeOK, ChosenServes, Applies, Quoted, Quotable
  <2>2. r.maxOutput \in Int /\ r.maxOutput > 0
    BY <2>1, RuleType DEF IInv, RuleRecords, OutputAllowed
  <2>3. sent = Forwarded(r, in)
    BY DEF IInv, SentConforms
  <2>4. CASE LimitFields \cap DOMAIN in.payload = {}
    <3>1. sent = [f \in DOMAIN in.payload \cup {"max_completion_tokens"} |->
                    IF f \in DOMAIN in.payload THEN in.payload[f] ELSE r.maxOutput]
      BY <2>2, <2>3, <2>4 DEF Forwarded
    <3>2. LimitFields \cap DOMAIN sent = {"max_completion_tokens"}
      BY <2>4, <3>1 DEF LimitFields
    <3>3. sent["max_completion_tokens"] = r.maxOutput
      BY <2>4, <3>1 DEF LimitFields
    <3> QED BY <2>2, <3>2, <3>3 DEF OutputCapped, LimitFields
  <2>5. CASE LimitFields \cap DOMAIN in.payload # {}
    <3>1. sent = in.payload
      BY <2>3, <2>5 DEF Forwarded
    <3>2. PICK f \in LimitFields : LimitFields \cap DOMAIN sent = {f}
      BY <2>1, <2>5, <3>1 DEF OutputAllowed, LimitFields
    <3> QED BY <2>1, <3>1, <3>2 DEF OutputAllowed, OutputCapped
  <2> QED BY <2>4, <2>5
<1> QED BY <1>1, Invariance, PTL

-----------------------------------------------------------------------------
(* The estimate *)

\* Completing a payload adds an output limit and changes nothing else.
LEMMA ForwardedFields ==
  ASSUME NEW r, NEW i, IsInput(i)
  PROVE  /\ DOMAIN i.payload \subseteq DOMAIN Forwarded(r, i)
         /\ DOMAIN Forwarded(r, i) \subseteq DOMAIN i.payload \cup {"max_completion_tokens"}
         /\ \A f \in DOMAIN i.payload : Forwarded(r, i)[f] = i.payload[f]
  BY DEF Forwarded

\* No schema has two fields for the number of copies, and only that of chat has
\* output limits.
LEMMA SchemaFacts ==
  ASSUME NEW i
  PROVE  /\ ~ CountFields \subseteq SchemaFields(Operation(i))
         /\ i.type # "chat" => LimitFields \cap SchemaFields(Operation(i)) = {}
  BY DEF SchemaFields, Operation, CountFields, LimitFields

\* The count that Quote uses is the largest number of copies the payload names,
\* since the schema excludes that it names two.
LEMMA CountCovers ==
  ASSUME IInv, pc = "sent"
  PROVE  /\ Count(in.payload) \in Copies
         /\ \A c \in Copies : c \in Nat /\ c <= Count(in.payload)
<1> DEFINE r == rules[next]
           p == in.payload
<1>1. next \in DOMAIN rules /\ sent = Forwarded(r, in) /\ Conforms(in, sent)
  BY DEF IInv, TypeOK, SentConforms
<1>2. \A f \in CountFields \cap DOMAIN p : p[f] \in 1 .. MaxCount
  BY DEF IInv, ChosenServes, Quoted, Quotable
<1>3. /\ CountFields \cap DOMAIN sent = CountFields \cap DOMAIN p
      /\ \A f \in CountFields \cap DOMAIN p : sent[f] = p[f]
  BY <1>1, RuleType, ForwardedFields DEF IInv, CountFields
<1>4. ~ CountFields \subseteq DOMAIN p
  BY <1>1, <1>3, SchemaFacts DEF Conforms
<1>5. CASE "parameters" \in DOMAIN p
  BY <1>2, <1>3, <1>4, <1>5 DEF Count, Copies, CountFields
<1>6. CASE "parameters" \notin DOMAIN p /\ "n" \in DOMAIN p
  BY <1>2, <1>3, <1>6 DEF Count, Copies, CountFields
<1>7. CASE "parameters" \notin DOMAIN p /\ "n" \notin DOMAIN p
  BY <1>3, <1>7 DEF Count, Copies, CountFields
<1> QED BY <1>5, <1>6, <1>7

\* The output that Quote counts on is the limit the payload is sent with.
LEMMA OutputCovers ==
  ASSUME IInv, pc = "sent"
  PROVE  /\ Output(rules[next], in.payload) \in Outputs
         /\ \A t \in Outputs : t \in Nat /\ t <= Output(rules[next], in.payload)
<1> DEFINE r == rules[next]
           p == in.payload
<1>1. /\ next \in DOMAIN rules /\ sent = Forwarded(r, in) /\ Conforms(in, sent)
      /\ r.type = in.type /\ OutputAllowed(r, p)
  BY DEF IInv, TypeOK, SentConforms, ChosenServes, Applies, Quoted, Quotable
<1>2. r.maxOutput \in Int /\ IsInput(in)
  BY <1>1, RuleType DEF IInv, RuleRecords
<1>3. CASE r.type # "chat"
  <2>1. LimitFields \cap DOMAIN sent = {}
    BY <1>1, <1>3, SchemaFacts DEF Conforms
  <2> QED BY <1>3, <2>1 DEF Outputs, Output
<1>4. CASE r.type = "chat" /\ LimitFields \cap DOMAIN p = {}
  <2>1. sent = [f \in DOMAIN p \cup {"max_completion_tokens"} |->
                  IF f \in DOMAIN p THEN p[f] ELSE r.maxOutput]
    BY <1>1, <1>2, <1>4 DEF Forwarded, OutputAllowed
  <2>2. Output(r, p) = r.maxOutput
    BY <1>4 DEF Output, LimitFields
  <2>3. LimitFields \cap DOMAIN sent = {"max_completion_tokens"}
    BY <1>4, <2>1 DEF LimitFields
  <2>4. sent["max_completion_tokens"] = r.maxOutput
    BY <1>4, <2>1 DEF LimitFields
  <2> QED BY <1>1, <1>2, <1>4, <2>2, <2>3, <2>4 DEF Outputs, OutputAllowed
<1>5. CASE r.type = "chat" /\ LimitFields \cap DOMAIN p # {}
  <2>1. sent = p
    BY <1>1, <1>5 DEF Forwarded
  <2>2. PICK f \in LimitFields : LimitFields \cap DOMAIN p = {f}
    BY <1>1, <1>5 DEF OutputAllowed, LimitFields
  <2>3. Output(r, p) = p[f]
    BY <1>5, <2>2 DEF Output, LimitFields
  <2>4. p[f] \in 1 .. r.maxOutput
    BY <1>1, <1>5, <2>2 DEF OutputAllowed
  <2> QED BY <1>2, <2>1, <2>2, <2>3, <2>4 DEF Outputs
<1> QED BY <1>3, <1>4, <1>5

\* One copy costs more the more it generates, and the same by either payload.
LEMMA PerCopyGrows ==
  ASSUME IInv, pc = "sent", NEW t \in Nat, NEW u \in Nat, t <= u
  PROVE  /\ PerCopy(rules[next], in.size, sent, t) \in Nat
         /\ PerCopy(rules[next], in.size, sent, t) <= PerCopy(rules[next], in.size, sent, u)
         /\ PerCopy(rules[next], in.size, sent, u)
              = PerCopy(rules[next], in.size, in.payload, u)
<1> DEFINE r == rules[next]
           p == in.payload
<1>1. /\ next \in DOMAIN rules /\ sent = Forwarded(r, in) /\ UnitMeasurable(r, in)
  BY DEF IInv, TypeOK, SentConforms, ChosenServes, Quoted, Quotable
<1>2. IsInput(in) /\ in.size \in Nat
  BY <1>1, RuleType DEF IInv, IsInput
<1>3. \A f \in DOMAIN p : sent[f] = p[f]
  BY <1>1, <1>2, ForwardedFields
<1>4. CASE r.unit = "token"
  <2>1. in.size + t \in Nat /\ in.size + u \in Nat /\ in.size + t <= in.size + u
    BY <1>2
  <2>2. Scale * (in.size + t) \in Nat /\ Scale * (in.size + t) <= Scale * (in.size + u)
    BY <2>1, ProductsGrow
  <2> QED BY <1>4, <2>2 DEF PerCopy
<1>5. CASE r.unit = "character"
  <2>1. sent["input"] = p["input"] /\ p["input"] \in Nat
    BY <1>1, <1>2, <1>3, <1>5 DEF UnitMeasurable, IsInput, IsPayload
  <2>2. Scale * p["input"] \in Nat
    BY <2>1
  <2> QED BY <1>5, <2>1, <2>2 DEF PerCopy
<1>6. CASE r.unit = "second"
  <2>1. sent["duration"] = p["duration"] /\ p["duration"] \in Nat
    BY <1>1, <1>3, <1>6 DEF UnitMeasurable
  <2> QED BY <1>6, <2>1 DEF PerCopy
<1>7. CASE r.unit \notin {"token", "character", "second"}
  BY <1>7 DEF PerCopy
<1> QED BY <1>4, <1>5, <1>6, <1>7

\* For every routing file, price and payload: the admitted estimate is the least
\* integer that covers the cost of the payload that is sent.
THEOREM EstimatesCover == Spec => []EstimateCovers
<1>1. IInv => EstimateCovers
  <2> SUFFICES ASSUME IInv, pc = "sent" PROVE EstimateCovers
    BY DEF EstimateCovers
  <2> DEFINE r == rules[next]
             rate == Price(doc, r.pointer) * r.factor
             k == Count(in.payload)
             out == Output(r, in.payload)
             whole == rate * (k * PerCopy(r, in.size, in.payload, out))
  <2>1. next \in DOMAIN rules /\ Quotable(doc, r, in) /\ estimate = RoundUp(whole)
    BY DEF IInv, TypeOK, ChosenServes, Quoted, Cost
  <2>2. rate \in Nat
    <3>1. Price(doc, r.pointer) \in Nat /\ r.factor \in Nat
      BY <2>1, RuleType DEF IInv, Quotable, RuleRecords
    <3> QED BY <3>1
  <2>3. k \in Copies /\ out \in Outputs /\ k \in Nat /\ out \in Nat
    BY CountCovers, OutputCovers
  <2>4. ASSUME NEW c \in Copies, NEW t \in Outputs
        PROVE  Charge(c, t) \in Nat /\ Charge(c, t) <= whole
    <3>1. c \in Nat /\ c <= k /\ t \in Nat /\ t <= out
      BY CountCovers, OutputCovers
    <3> DEFINE x == PerCopy(r, in.size, sent, t)
               y == PerCopy(r, in.size, in.payload, out)
    <3>2. x \in Nat /\ y \in Nat /\ x <= y
      BY <2>3, <3>1, PerCopyGrows
    <3>3. c * x \in Nat /\ c * x <= k * y /\ k * y \in Nat
      BY <2>3, <3>1, <3>2, ProductsGrow
    <3>4. rate * (c * x) \in Nat /\ rate * (c * x) <= rate * (k * y)
      BY <2>2, <3>3, ProductsGrow
    <3> QED BY <3>4 DEF Charge
  <2>5. Charge(k, out) = whole
    BY <2>3, PerCopyGrows DEF Charge
  <2>6. whole \in Nat
    BY <2>3, <2>4, <2>5
  <2>7. estimate \in Int /\ whole <= estimate * Unit /\ (estimate - 1) * Unit < whole
    BY <2>1, <2>6, RoundUpLeast
  <2>8. ASSUME NEW c \in Copies, NEW t \in Outputs
        PROVE  Charge(c, t) <= estimate * Unit
    <3>1. estimate * Unit \in Int
      BY <2>7, UnitPositive
    <3> QED BY <2>4, <2>6, <2>7, <3>1
  <2>9. (estimate - 1) * Unit < Charge(k, out)
    BY <2>5, <2>7
  <2> QED
    BY <2>3, <2>8, <2>9 DEF EstimateCovers
<1> QED BY <1>1, Invariance, PTL
==============================================================================
