--------------------------- MODULE MCModelRouter ---------------------------
(* Instance of ModelRouter: prices in halves, machine integers of 5 bits. *)
EXTENDS ModelRouter, TLC

Rule(type, model, unit, factor, maxOutput) ==
  [type |-> type, model |-> model, pointer |-> model, unit |-> unit,
   factor |-> factor, maxInput |-> 3, maxOutput |-> maxOutput]

\* Two chat models by token and by request, media by every other unit; a file
\* whose first rule names no model that is priced, and files that are not valid.
Files == {
  <<Rule("chat", "m1", "token", 3, 2), Rule("image", "m1", "image", 3, 0),
    Rule("video", "m2", "second", 1, 0), Rule("speech", "m2", "character", 2, 0),
    Rule("chat", "m2", "request", 1, 1)>>,
  <<Rule("image", "m3", "image", 1, 0), Rule("chat", "m3", "request", 1, 2),
    Rule("speech", "m1", "token", 1, 0), Rule("chat", "m2", "token", 1, 3)>>,
  <<Rule("chat", "m1", "request", 1, 1), Rule("chat", "m1", "token", 1, 2)>>,
  <<Rule("chat", "m1", "request", 0, 1)>>}

In(type, protocol, model, size, payload) ==
  [type |-> type, protocol |-> protocol, model |-> model, size |-> size,
   text |-> TRUE, wellFormed |-> TRUE, payload |-> payload]
NoFields == [f \in {} |-> 0]

Tasks ==
  {In("chat", "", m, 2, p) : m \in {"", "m2"},
     p \in {NoFields, "n" :> 3, "n" :> 0, "max_tokens" :> 1, "max_completion_tokens" :> 2,
            "max_tokens" :> 5, "max_tokens" :> 1 @@ "max_completion_tokens" :> 2,
            "n" :> 3 @@ "parameters" :> 1, "n" :> 2 @@ "max_tokens" :> 2}}
  \cup {In("image", q, "", 1, p) : q \in {"", "qwen", "other"},
          p \in {NoFields, "n" :> 2, "parameters" :> 3, "n" :> 3 @@ "parameters" :> 1}}
  \cup {In("video", "", "", 1, p) :
          p \in {NoFields, "duration" :> 3, "duration" :> 3 @@ "n" :> 2, "duration" :> 9}}
  \cup {In("speech", "", "", 1, p) : p \in {NoFields, "input" :> 3}}
  \cup {In("chat", "", "m9", 1, NoFields), In("chat", "", "", 4, NoFields)}
  \cup {[In("chat", "", "", 0, NoFields) EXCEPT !.text = FALSE],
        [In("image", "", "", 1, NoFields) EXCEPT !.wellFormed = FALSE]}

Entry(name, price) == [name |-> name, price |-> price]
Prices == {
  <<Entry("m1", 1), Entry("m2", 3)>>,
  <<Entry("m2", 1), Entry("m1", 2), Entry("", 5), Entry("m2", 0)>>,
  <<Entry("m1", Malformed), Entry("m2", 1)>>,
  <<Entry("m1", -1), Entry("m2", 15)>>}

Read(account, token, today, month, policy) ==
  [account |-> account, token |-> token, today |-> today, month |-> month,
   perRequest |-> policy[1], daily |-> policy[2], monthly |-> policy[3]]
Quotas ==
  {Read(q[1], q[2], t, mo, p) : q \in {<<15, 15>>, <<2, 9>>, <<9, 1>>, <<3, -1>>},
     t \in {0, 4, 14}, mo \in {4, 15}, p \in {<<15, 15, 15>>, <<1, 5, 15>>, <<9, 6, 6>>}}
=============================================================================
