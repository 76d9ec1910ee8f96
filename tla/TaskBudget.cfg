\* Concurrent requests of one agent compete for its daily and monthly budget.
SPECIFICATION Spec
CONSTANTS
  a1 = a1  r1 = r1  r2 = r2  r3 = r3  p1 = p1  p2 = p2
  k1 = k1  k2 = k2  h1 = h1  h2 = h2  NoReq = NoReq
  Agents = {a1}
  Requests = {r1, r2, r3}
  Pollers = {}
  Keys = {k1, k2}
  Hashes = {h1, h2}
  Input <- BudgetInput
  PollOf <- NoPolls
  Policies <- BudgetPolicies
  Reviews = {"suspend", "resume"}
  Funds = {1, 2}
  Leavers = {}
  DaysPerMonth = 2
  MaxDay = 2
  MaxKeys = 1
  MaxCrashes = 0
  Faults = FALSE
PROPERTIES AdmissionWithinBudget
