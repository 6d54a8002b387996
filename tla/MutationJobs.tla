--------------------------- MODULE MutationJobs ---------------------------
(***************************************************************************)
(* The status machine of a product mutation job, the row both the BFF      *)
(* (apps/api/src/product-mutations) and the extension keep for every       *)
(* write they send to Alibaba.                                             *)
(***************************************************************************)

\* Statuses that keep a product, or a creation fingerprint, locked.  The
\* partial unique indexes of the table cover exactly these.
BlockingStatuses ==
  {"submitted", "auditing", "verifying", "recovery-required", "recovering"}

TerminalStatuses == {"verified", "recovered", "failed"}

Statuses == BlockingStatuses \cup TerminalStatuses

\* assertTransition: the pairs <<from, to>> the repository accepts.
Moves ==
       ({"submitted"} \X {"auditing", "verifying", "recovery-required",
                          "recovering", "recovered", "failed"})
  \cup ({"auditing"} \X {"auditing", "verified", "recovery-required"})
  \cup ({"verifying"} \X {"auditing", "verifying", "verified",
                          "recovery-required", "recovering", "recovered"})
  \cup ({"recovery-required"} \X {"auditing", "recovery-required", "verified",
                                  "recovering", "recovered", "failed"})
  \cup ({"recovering"} \X {"recovering", "recovered", "recovery-required"})

MayMove(from, to) == <<from, to>> \in Moves

\* Mutant: every gateway error counts as a failure.
FailureStatusAlwaysFailed(outcome) == "failed"

\* What the catch block of a submission writes, by how the gateway call ended
\* (productUpdateFailureStatus): only an explicit rejection is a failure, an
\* answer that never came or a batch that was refused in part is not evidence
\* that nothing changed.
FailureStatus(outcome) ==
  IF outcome = "rejected" THEN "failed" ELSE "recovery-required"

\* statusAfterRefreshError: an unreadable schema update waits when the platform
\* is still auditing or the error is retryable.
StatusAfterRefreshError(current, waitAndRetry) ==
  IF current # "recovery-required" /\ waitAndRetry
    THEN "auditing"
    ELSE "recovery-required"

===========================================================================
