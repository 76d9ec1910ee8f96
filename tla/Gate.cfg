\* A message arrives again, and its nonce is used for another one, around its expiry, the turn of rate windows and the sweep.
SPECIFICATION Spec
CONSTANTS
  a1 = a1  i1 = i1  n1 = n1  m1 = m1  m2 = m2  d1 = d1  d2 = d2  d3 = d3  NoRow = NoRow
  Agents = {a1}
  Sources = {i1}
  Messages = {m1, m2}
  Nonces = {n1}
  Signed <- ReuseSigned
  Attempts = {d1, d2, d3}
  Delivery <- ReuseDelivery
  Reviews = {"suspend", "resume"}
  Skew = 1
  Retention = 2
  Window = 2
  Kept = 1
  Limit <- LimitOne
  Offsets <- Drift
  MaxDrift = 1
  MaxDelay = 1
  MaxNow = 7
  Faults = TRUE
INVARIANTS TypeOK AcceptedOnce 
