\* One address registers with two challenges and two keys, with a forged answer, faults and a crash.
SPECIFICATION Spec
CONSTANTS
  a1 = a1  a2 = a2  n1 = n1  n2 = n2  k1 = k1  k2 = k2  r1 = r1  r2 = r2  r3 = r3  r4 = r4  r5 = r5  NoRow = NoRow
  Addresses = {a1, a2}
  Nonces = {n1, n2}
  Keys = {k1, k2}
  Requests = {r1, r2, r3, r4, r5}
  Input <- RaceInput
  Reviews = {"approve", "revoke"}
  TTL = 1
  Skew = 1
  Retention = 0
  Offsets <- Exact
  MaxNow = 2
  MaxCrashes = 1
  Faults = TRUE
INVARIANTS TypeOK RegistrationAtomic RegistrationsGenuine NoWaitingCircle
PROPERTY RevokedStaysRevoked
