\* Handlers return, admitted tasks settle, polled videos settle.
SPECIFICATION FairSpec
CONSTANTS
  a1 = a1  r1 = r1  r2 = r2  r3 = r3  p1 = p1  p2 = p2
  k1 = k1  k2 = k2  h1 = h1  h2 = h2  NoReq = NoReq
  Agents = {a1}
  Requests = {r1, r2}
  Pollers = {p1}
  Keys = {k1, k2}
  Hashes = {h1, h2}
  Input <- LiveInput
  PollOf <- LivePolls
  Policies <- OnePolicy
  Reviews = {"suspend", "resume"}
  Funds = {2}
  Leavers = {r2}
  DaysPerMonth = 2
  MaxDay = 0
  MaxKeys = 2
  MaxCrashes = 0
  Faults = FALSE
PROPERTIES RequestsReturn AdmittedTasksSettle 
