\* A repeated revoke completes the deletion, if Kovar answers success for a token it no longer has.
SPECIFICATION FairSpec
CONSTANTS
  a1 = a1  c1 = c1  c2 = c2  c3 = c3  c4 = c4  NoCall = NoCall
  Agents = {a1}
  Calls = {c1, c2, c3, c4}
  Op <- RetryOp
  For <- RetryFor
  Reviews = {"suspend", "resume"}
  Repeating = {c3}
  Faults = TRUE
  GoneIsOk = TRUE
  MaxIds = 2
  MaxCrashes = 1
INVARIANT RevokedKeyExcused
PROPERTIES RevocationReachesKey PendingDeletionSettles
