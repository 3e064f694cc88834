-------------------------- MODULE MCContractCommit --------------------------
(* Small instances of ContractCommit.  r1 and r2 commit, r3 and r4 cancel  *)
(* the task of r1; in two instances r3 commits too.                        *)
EXTENDS ContractCommit, TLC

CONSTANTS r1, r2, r3, r4, k1, k2, k3, k4, d1, d2, q1, q2, m1

Auth(m) == [ref |-> m, usage |-> "single_use", maximum |-> MaxAmount, bound |-> TRUE]

CommitOf(q, k, d, m) == [key |-> k, digest |-> d, quote |-> q, auth |-> Auth(m)]

(* One commit; it, its retry and a commit of a free quote under the same   *)
(* key; it, its retry and a commit of the same quote under another key,    *)
(* all three with one single-use authorization.                            *)
OneCommit == r1 :> CommitOf(q1, k1, d1, None)
RetryAndOther == r1 :> CommitOf(q1, k1, d1, None) @@ r2 :> CommitOf(q1, k1, d1, None)
                   @@ r3 :> CommitOf(q2, k1, d2, None)
ThreeCommits == r1 :> CommitOf(q1, k1, d1, m1) @@ r2 :> CommitOf(q1, k1, d1, m1)
                  @@ r3 :> CommitOf(q1, k2, d1, m1)

CancelWith(k, version) == [key |-> k, digest |-> d1, task |-> r1, expected |-> version]

(* No cancel; two, of which one expects the version it has read.           *)
NoCancel == [r \in {} |-> CancelWith(k1, AnyVersion)]
TwoCancels == r3 :> CancelWith(k3, AnyVersion) @@ r4 :> CancelWith(k4, 1)

QuoteUntil(expires, variable, free) ==
  [price |-> 1, ceiling |-> 1, variable |-> variable, free |-> free,
   expiresAt |-> expires, deadline |-> 9]

(* A fixed and a variable price; a quote that outlives the retention of    *)
(* the answer to its commit; a fixed quote beside a free one.              *)
FixedQuote == q1 :> QuoteUntil(1, FALSE, FALSE)
VariableQuote == q1 :> QuoteUntil(1, TRUE, FALSE)
LongQuote == q1 :> QuoteUntil(9, FALSE, FALSE)
FixedAndFree == q1 :> QuoteUntil(1, FALSE, FALSE) @@ q2 :> QuoteUntil(1, FALSE, TRUE)

=============================================================================
