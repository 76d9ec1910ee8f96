\* A task and a refresh while the agent's key is created and deleted.
SPECIFICATION UseSpec
CONSTANTS
  a1 = a1  c1 = c1  c2 = c2  c3 = c3  u1 = u1  u2 = u2  NoCall = NoCall
  Agents = {a1}
  Calls = {c1, c2, c3}
  Op <- RaceOp
  For <- RaceFor
  Reviews = {"suspend", "resume"}
  Repeating = {c3}
  Users = {u1, u2}
  Kind <- RaceKind
  By <- RaceBy
  Faults = TRUE
  GoneIsOk = FALSE
  MaxIds = 2
  MaxCrashes = 1
INVARIANTS OneLiveToken DeletedMeansGone ActiveKeyExists CheckedTokenPays
