\* Retries and reuse of a key, with disconnects, faults and a crash.
SPECIFICATION FairSpec
CONSTANTS
  r1 = r1  r2 = r2  r3 = r3  r4 = r4  s1 = s1  s2 = s2  b1 = b1  b2 = b2  t1 = t1  t2 = t2  NoBody = NoBody  NoAnswer = NoAnswer
  Slots = {s1, s2}
  Bodies = {b1, b2}
  Targets = {t1, t2}
  Requests = {r1, r2, r3, r4}
  Input <- RetryInput
  Leavers = {r1, r3}
  Faults = TRUE
  MaxCrashes = 1
INVARIANTS TypeOK AnswersAgree PendingExplained
PROPERTIES CallsOncePerSlot ClaimsComplete
