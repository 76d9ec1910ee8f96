\* Three logins, two codes and a direct binding of one agent, with faults and a crash.
SPECIFICATION Spec
CONSTANTS
  a1 = a1  u1 = u1  u2 = u2  u3 = u3  c1 = c1  c2 = c2  c3 = c3  c4 = c4  c5 = c5  c6 = c6  None = None
  Agents = {a1}
  Users = {u1, u2, u3}
  TwoFactor = {u1, u2}
  Calls = {c1, c2, c3, c4, c5, c6}
  Input <- MixedInput
  Reviews = {"suspend", "resume"}
  TTL = 1
  MaxNow = 2
  MaxCrashes = 1
  Faults = TRUE
INVARIANTS TypeOK CredentialOfUser BoundByOwner
PROPERTY BoundToOneUser
