-------------------------- MODULE IdempotencyStore --------------------------
(***************************************************************************)
(* The claim table of pkg/server/idempotency.go.  A claim is identified by *)
(* a key (the scope, which holds actor, principal, method and path, joined *)
(* with the client's Idempotency-Key) and bound to a request digest.       *)
(*                                                                         *)
(* Every operation of the Go type runs under the store's mutex, so each is *)
(* one action here.  The module has no next-state relation of its own: the *)
(* handlers that call the store compose these actions with theirs.         *)
(***************************************************************************)
EXTENDS Integers

CONSTANTS
  Keys,       \* scope + "\x00" + Idempotency-Key, one value for each pair
  Digests,    \* digests of method, path and body
  NoDigest,   \* the digest of an entry that does not exist
  Responses,  \* stored HTTP responses, told apart by the request they answer
  NoResponse, \* the empty StoredResponse of a claim nobody completed
  Retention,  \* Config.IdempotencyRetention in clock ticks
  MaxTime     \* last tick of the model's clock (a bound)

ASSUME IdempotencyConstants ==
  /\ NoDigest \notin Digests
  /\ NoResponse \notin Responses
  /\ Retention \in Nat \ {0}
  /\ MaxTime \in Nat

VARIABLES
  entries,    \* IdempotencyStore.entries
  now         \* the clock both the store and the server read

idemVars == <<entries, now>>

-----------------------------------------------------------------------------

NoEntry == [status |-> "absent", digest |-> NoDigest,
            response |-> NoResponse, expiresAt |-> 0]

ClaimStatus == {"absent", "in_progress", "completed"}

Entry == [status    : ClaimStatus,
          digest    : Digests \cup {NoDigest},
          response  : Responses \cup {NoResponse},
          expiresAt : 0 .. (MaxTime + Retention)]

IdemInit ==
  /\ entries = [k \in Keys |-> NoEntry]
  /\ now = 0

Held(k) == entries[k].status = "in_progress"

(* Mutant: an answer expires at its deadline, not after it.                *)
ExpiredAtDeadline(k) == entries[k].status = "completed" /\ now >= entries[k].expiresAt

(* Mutant: an in-progress entry expires too.                               *)
ExpiredInProgress(k) == entries[k].status # "absent" /\ now > entries[k].expiresAt

(* Only a completed entry expires: the deadline an in-progress entry also  *)
(* carries is never looked at.                                             *)
Expired(k) ==
  /\ entries[k].status = "completed"
  /\ now > entries[k].expiresAt

-----------------------------------------------------------------------------
(* Begin: exactly one of the four outcomes is enabled for a key and digest *)

BeginConflict(k, d) ==
  /\ entries[k].status # "absent"
  /\ entries[k].digest # d
  /\ UNCHANGED entries

BeginInProgress(k, d) ==
  /\ Held(k)
  /\ entries[k].digest = d
  /\ UNCHANGED entries

(* Mutant: the digest is not compared.                                     *)
BeginReplayAnyBody(k, d) ==
  /\ entries[k].status = "completed"
  /\ ~Expired(k)
  /\ UNCHANGED entries

BeginReplay(k, d) ==
  /\ entries[k].status = "completed"
  /\ entries[k].digest = d
  /\ ~Expired(k)
  /\ UNCHANGED entries

(* Mutant: a claim in progress is given to a retry with the same digest.   *)
BeginNewShares(k, d) ==
  /\ entries[k].status = "absent" \/ entries[k].digest = d
  /\ entries' = [entries EXCEPT ![k] =
                   [status |-> "in_progress", digest |-> d,
                    response |-> NoResponse, expiresAt |-> now + Retention]]

BeginNew(k, d) ==
  /\ \/ entries[k].status = "absent"
     \/ entries[k].digest = d /\ Expired(k)
  /\ entries' = [entries EXCEPT ![k] =
                   [status |-> "in_progress", digest |-> d,
                    response |-> NoResponse, expiresAt |-> now + Retention]]

-----------------------------------------------------------------------------

(* Mutant: the expiry is counted from the next tick.                       *)
CompleteLater(k, response) ==
  /\ entries[k].status # "absent"
  /\ entries' = [entries EXCEPT ![k] =
                   [status |-> "completed", digest |-> entries[k].digest,
                    response |-> response, expiresAt |-> now + 1 + Retention]]

(* Complete checks only that the entry exists: neither the digest nor the  *)
(* status nor the caller is compared.  Both handlers pass a nonzero expiry.*)
Complete(k, response) ==
  /\ entries[k].status # "absent"
  /\ entries' = [entries EXCEPT ![k] =
                   [status |-> "completed", digest |-> entries[k].digest,
                    response |-> response, expiresAt |-> now + Retention]]

CompleteRefused(k) ==
  /\ entries[k].status = "absent"
  /\ UNCHANGED entries

Release(k, d) ==
  /\ Held(k)
  /\ entries[k].digest = d
  /\ entries' = [entries EXCEPT ![k] = NoEntry]

ReleaseRefused(k, d) ==
  /\ ~(Held(k) /\ entries[k].digest = d)
  /\ UNCHANGED entries

Tick ==
  /\ now < MaxTime
  /\ now' = now + 1
  /\ UNCHANGED entries

-----------------------------------------------------------------------------

IdemTypeOK ==
  /\ entries \in [Keys -> Entry]
  /\ now \in 0 .. MaxTime

=============================================================================
