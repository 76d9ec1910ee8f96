------------------------- MODULE IdempotencyRecords -------------------------
(***************************************************************************)
(* A row of idempotency_records and what internal/idempotency/service.go   *)
(* does with it.  Claim inserts the row, or else reads it in a second      *)
(* statement; Complete stores the answer.                                  *)
(***************************************************************************)

NoRecord(noHash, noAnswer) ==
  [status |-> "NONE", hash |-> noHash, answer |-> noAnswer]

\* INSERT ... ON CONFLICT DO NOTHING affected one row.
Claimable(rec) == rec.status = "NONE"

ClaimedBy(hash, noAnswer) ==
  [status |-> "PROCESSING", hash |-> hash, answer |-> noAnswer]

\* Mutant: the hash of the stored request is not compared.
VerdictAnyHash(rec, hash) ==
  IF rec.status # "COMPLETED" THEN "IN_PROGRESS" ELSE "REPLAY"

\* What Claim makes of the row it found.
Verdict(rec, hash) ==
  IF rec.hash # hash THEN "CONFLICT"
  ELSE IF rec.status # "COMPLETED" THEN "IN_PROGRESS"
  ELSE "REPLAY"

\* UPDATE ... WHERE status='PROCESSING' affected one row.
Completable(rec) == rec.status = "PROCESSING"

\* Mutant: a status the code and the schema do not know.
CompletedMisspelt(rec, answer) ==
  [status |-> "COMPLETE", hash |-> rec.hash, answer |-> answer]

\* Mutant: the answer is stored but the status left as it is.
CompletedPending(rec, answer) == [rec EXCEPT !.answer = answer]

\* SET response, http_status, status='COMPLETED'
Completed(rec, answer) ==
  [status |-> "COMPLETED", hash |-> rec.hash, answer |-> answer]
=============================================================================
