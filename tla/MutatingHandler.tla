--------------------------- MODULE MutatingHandler ---------------------------
(***************************************************************************)
(* handleMutating of pkg/server/server.go around an arbitrary operation:   *)
(* each HTTP request is a goroutine that claims its key, runs the          *)
(* operation outside any lock, and completes or releases the claim.        *)
(*                                                                         *)
(* The operation is only known by its contract: it may cross the effect    *)
(* boundary once, it may panic, and it sets ReleaseClaim only when it has  *)
(* not crossed the boundary.  ContractCommit has the real operations.      *)
(***************************************************************************)
EXTENDS IdempotencyStore

CONSTANTS
  Requests,      \* HTTP requests, each served by its own goroutine
  BackendFaults  \* TRUE: an IdempotencyBackend call may report an error,
                 \* having taken effect or not

ASSUME HandlerConstants ==
  /\ BackendFaults \in BOOLEAN
  /\ Responses = Requests

VARIABLES
  pc,         \* where each request is
  key,        \* the claim key of the request (scope and Idempotency-Key)
  digest,     \* the digest of its method, path and body
  effectAt,   \* when its operation crossed the effect boundary (history)
  release,    \* operationResult.ReleaseClaim
  answer      \* what the client was told: the kind, and for a replay the
              \* request whose stored response it got

handlerVars == <<pc, key, digest, effectAt, release, answer>>
vars == <<entries, now, handlerVars>>

Never == -1
NoAnswer == [kind |-> "none", from |-> NoResponse]
Told(kind) == [kind |-> kind, from |-> NoResponse]

AnswerKinds == {"none", "replay", "conflict", "in_progress", "unavailable",
                "result", "released", "unknown"}

Init ==
  /\ IdemInit
  /\ pc = [r \in Requests |-> "sent"]
  /\ key \in [Requests -> Keys]
  /\ digest \in [Requests -> Digests]
  /\ effectAt = [r \in Requests |-> Never]
  /\ release = [r \in Requests |-> FALSE]
  /\ answer = [r \in Requests |-> NoAnswer]

-----------------------------------------------------------------------------

Goto(r, from, to) ==
  /\ pc[r] = from
  /\ pc' = [pc EXCEPT ![r] = to]

Reply(r, ans) == answer' = [answer EXCEPT ![r] = ans]

(* The claim: only IdempotencyNew lets the operation run.                  *)
ClaimNew(r) ==
  /\ Goto(r, "sent", "running")
  /\ BeginNew(key[r], digest[r])
  /\ UNCHANGED <<now, key, digest, effectAt, release, answer>>

ClaimReplay(r) ==
  /\ Goto(r, "sent", "done")
  /\ BeginReplay(key[r], digest[r])
  /\ Reply(r, [kind |-> "replay", from |-> entries[key[r]].response])
  /\ UNCHANGED <<now, key, digest, effectAt, release>>

ClaimConflict(r) ==
  /\ Goto(r, "sent", "done")
  /\ BeginConflict(key[r], digest[r])
  /\ Reply(r, Told("conflict"))
  /\ UNCHANGED <<now, key, digest, effectAt, release>>

ClaimInProgress(r) ==
  /\ Goto(r, "sent", "done")
  /\ BeginInProgress(key[r], digest[r])
  /\ Reply(r, Told("in_progress"))
  /\ UNCHANGED <<now, key, digest, effectAt, release>>

(* Begin failed: 503, and a durable backend may have recorded the claim.   *)
ClaimUnavailable(r) ==
  /\ BackendFaults
  /\ Goto(r, "sent", "done")
  /\ BeginNew(key[r], digest[r]) \/ UNCHANGED entries
  /\ Reply(r, Told("unavailable"))
  /\ UNCHANGED <<now, key, digest, effectAt, release>>

-----------------------------------------------------------------------------

CrossEffect(r) ==
  /\ pc[r] = "running"
  /\ effectAt[r] = Never
  /\ effectAt' = [effectAt EXCEPT ![r] = now]
  /\ UNCHANGED <<entries, now, pc, key, digest, release, answer>>

(* Mutant: an operation asks for release whatever it has done.             *)
ReturnReleases(r) ==
  /\ Goto(r, "running", "returned")
  /\ release' \in {[release EXCEPT ![r] = wants] : wants \in BOOLEAN}
  /\ UNCHANGED <<entries, now, key, digest, effectAt, answer>>

Return(r) ==
  /\ Goto(r, "running", "returned")
  /\ \E wants \in BOOLEAN :
       /\ wants => effectAt[r] = Never
       /\ release' = [release EXCEPT ![r] = wants]
  /\ UNCHANGED <<entries, now, key, digest, effectAt, answer>>

(* recover() answers outcome_unknown and touches no claim.                 *)
Panic(r) ==
  /\ Goto(r, "running", "done")
  /\ Reply(r, Told("unknown"))
  /\ UNCHANGED <<entries, now, key, digest, effectAt, release>>

-----------------------------------------------------------------------------

ReleaseClaim(r) ==
  /\ release[r]
  /\ Goto(r, "returned", "done")
  /\ Release(key[r], digest[r])
  /\ Reply(r, Told("released"))
  /\ UNCHANGED <<now, key, digest, effectAt, release>>

ReleaseClaimFails(r) ==
  /\ release[r]
  /\ Goto(r, "returned", "done")
  /\ \/ ReleaseRefused(key[r], digest[r])
     \/ BackendFaults /\ (Release(key[r], digest[r]) \/ UNCHANGED entries)
  /\ Reply(r, Told("unknown"))
  /\ UNCHANGED <<now, key, digest, effectAt, release>>

CompleteClaim(r) ==
  /\ ~release[r]
  /\ Goto(r, "returned", "done")
  /\ Complete(key[r], r)
  /\ Reply(r, Told("result"))
  /\ UNCHANGED <<now, key, digest, effectAt, release>>

CompleteClaimFails(r) ==
  /\ ~release[r]
  /\ Goto(r, "returned", "done")
  /\ \/ CompleteRefused(key[r])
     \/ BackendFaults /\ (Complete(key[r], r) \/ UNCHANGED entries)
  /\ Reply(r, Told("unknown"))
  /\ UNCHANGED <<now, key, digest, effectAt, release>>

Pass ==
  /\ Tick
  /\ UNCHANGED handlerVars

RequestStep(r) ==
  \/ ClaimNew(r)
  \/ ClaimReplay(r)
  \/ ClaimConflict(r)
  \/ ClaimInProgress(r)
  \/ ClaimUnavailable(r)
  \/ CrossEffect(r)
  \/ Return(r)
  \/ Panic(r)
  \/ ReleaseClaim(r)
  \/ ReleaseClaimFails(r)
  \/ CompleteClaim(r)
  \/ CompleteClaimFails(r)

Next ==
  \/ \E r \in Requests : RequestStep(r)
  \/ Pass

Spec == Init /\ [][Next]_vars

-----------------------------------------------------------------------------

PcValues == {"sent", "running", "returned", "done"}

(* Type invariant of the claim table and of the request goroutines.        *)
TypeOK ==
  /\ IdemTypeOK
  /\ pc \in [Requests -> PcValues]
  /\ key \in [Requests -> Keys]
  /\ digest \in [Requests -> Digests]
  /\ effectAt \in [Requests -> {Never} \cup 0 .. MaxTime]
  /\ release \in [Requests -> BOOLEAN]
  /\ answer \in [Requests -> [kind : AnswerKinds,
                              from : Responses \cup {NoResponse}]]

Executing(r) == pc[r] \in {"running", "returned"}

(* At most one goroutine runs the operation of a key at any time, however  *)
(* requests, retries, expiry and backend errors interleave: Begin's claim  *)
(* is the only mutual exclusion the operation has.                         *)
OneRunnerPerKey ==
  \A r, s \in Requests :
    Executing(r) /\ Executing(s) /\ key[r] = key[s] => r = s

(* The claim is still its runner's when the runner completes it.  Complete *)
(* compares neither digest nor owner, so this is what keeps one request    *)
(* from overwriting the answer of another.                                 *)
RunnerHoldsItsClaim ==
  \A r \in Requests :
    Executing(r) => Held(key[r]) /\ entries[key[r]].digest = digest[r]

(* Two requests with one key can both cause an effect only when the second *)
(* effect comes after the whole retention period of the first, the period  *)
(* the client is told in Idempotency-Retention-Until.                      *)
OneEffectPerRetention ==
  \A r, s \in Requests :
    /\ r # s
    /\ key[r] = key[s]
    /\ effectAt[r] # Never
    /\ effectAt[s] # Never
    => \/ effectAt[r] > effectAt[s] + Retention
       \/ effectAt[s] > effectAt[r] + Retention

(* A replayed answer is that of an execution of the identical request: the *)
(* body stored under a key never reaches a client that sent another body.  *)
ReplayIsOfTheSameRequest ==
  \A r \in Requests :
    answer[r].kind = "replay" =>
      LET s == answer[r].from
      IN  /\ s \in Requests
          /\ key[s] = key[r]
          /\ digest[s] = digest[r]
          /\ ~release[s]

(* Once an operation has crossed the effect boundary its claim is neither  *)
(* removed nor handed to another request before an answer for it is stored *)
(* and expires ("Claims are released only after proven no effect").        *)
ClaimSurvivesItsEffect ==
  [][\A k \in Keys :
       (/\ Held(k)
        /\ \E r \in Requests : key[r] = k /\ Executing(r) /\ effectAt[r] # Never)
       => entries'[k].status # "absent"
          /\ entries'[k].digest = entries[k].digest]_vars

=============================================================================
