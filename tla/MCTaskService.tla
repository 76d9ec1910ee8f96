--------------------------- MODULE MCTaskService ---------------------------
(* Instances of TaskService for TLC. *)
EXTENDS TaskService, TLC

CONSTANTS a1, r1, r2, r3, p1, p2, k1, k2, h1, h2

Ask(a, k, h, kind, costs) ==
  [agent |-> a, key |-> k, hash |-> h, kind |-> kind, costs |-> costs]

Limits(perRequest, daily, monthly) ==
  [perRequest |-> perRequest, daily |-> daily, monthly |-> monthly]

\* A request, its retry with the same key, and a request that competes with
\* them for the budget; the first prefers a model that costs 2.
BudgetInput ==
  r1 :> Ask(a1, k1, h1, "plain", <<2, 1>>) @@
  r2 :> Ask(a1, k1, h1, "plain", <<2, 1>>) @@
  r3 :> Ask(a1, k2, h2, "plain", <<1>>)

\* One day pays for one expensive or two cheap tasks; a month for three units.
\* The administrator may cut the limits to one unit.
BudgetPolicies == {Limits(2, 2, 3), Limits(1, 1, 2)}

\* A request for a video, its retry, and a reuse of their key for other content.
RetryInput ==
  r1 :> Ask(a1, k1, h1, "video", <<1>>) @@
  r2 :> Ask(a1, k1, h1, "video", <<1>>) @@
  r3 :> Ask(a1, k1, h2, "stream", <<1>>)

VideoPolls == p1 :> r1 @@ p2 :> r1

\* A video task and a streamed request of the same agent, one poller.
LiveInput ==
  r1 :> Ask(a1, k1, h1, "video", <<1>>) @@
  r2 :> Ask(a1, k2, h2, "stream", <<1>>)

LivePolls == p1 :> r1

OnePolicy == {Limits(1, 2, 2)}

NoPolls == <<>>
=============================================================================
