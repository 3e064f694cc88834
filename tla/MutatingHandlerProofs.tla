----------------------- MODULE MutatingHandlerProofs -----------------------
(***************************************************************************)
(* Proofs about MutatingHandler, for any number of requests, keys and      *)
(* digests, any retention and any clock.  Everything follows from one      *)
(* inductive invariant, HandlerInv.                                        *)
(***************************************************************************)
EXTENDS MutatingHandler, TLAPS

(* ReleaseClaim is only ever requested by an operation without effect, and *)
(* nobody's effect lies in the future.                                     *)
ReleasersHaveNoEffect ==
  \A r \in Requests :
    /\ pc[r] = "returned" /\ release[r] => effectAt[r] = Never
    /\ pc[r] = "sent" => effectAt[r] = Never
    /\ effectAt[r] <= now

(* The claim table remembers an effect after its request has ended: the    *)
(* claim is held by nobody (a panic, or an uncertain completion), or a     *)
(* response is stored that outlives the retention of the effect, or that   *)
(* retention has passed.                                                   *)
EffectIsRemembered ==
  \A r \in Requests :
    effectAt[r] # Never /\ pc[r] = "done" =>
      \/ Held(key[r]) /\ \A s \in Requests : key[s] = key[r] => ~Executing(s)
      \/ /\ entries[key[r]].status = "completed"
         /\ entries[key[r]].expiresAt >= effectAt[r] + Retention
      \/ now > effectAt[r] + Retention

(* A stored response is that of a finished run of the entry's request.     *)
StoredResponseIsItsRun ==
  \A k \in Keys :
    entries[k].status = "completed" =>
      LET s == entries[k].response
      IN  /\ s \in Requests
          /\ pc[s] = "done"
          /\ key[s] = k
          /\ digest[s] = entries[k].digest
          /\ ~release[s]

RepliesAreFinal ==
  \A r \in Requests :
    answer[r].kind = "replay" =>
      LET s == answer[r].from
      IN  s \in Requests /\ pc[s] = "done" /\ key[s] = key[r]
          /\ digest[s] = digest[r] /\ ~release[s]

RunnersOwnClaims == OneRunnerPerKey /\ RunnerHoldsItsClaim

AnswersAreFaithful == StoredResponseIsItsRun /\ RepliesAreFinal

HandlerInv ==
  /\ TypeOK
  /\ RunnersOwnClaims
  /\ ReleasersHaveNoEffect
  /\ EffectIsRemembered
  /\ OneEffectPerRetention
  /\ AnswersAreFaithful

(* Types are preserved by every step of a request and of the clock.         *)
LEMMA TypeStep ==
  ASSUME TypeOK, [Next]_vars
  PROVE  TypeOK'
<1> USE IdempotencyConstants, HandlerConstants DEF TypeOK, IdemTypeOK, Entry,
  ClaimStatus, NoEntry, PcValues, AnswerKinds, Never
<1>1. ASSUME NEW r \in Requests, ClaimNew(r) PROVE TypeOK'
  BY <1>1 DEF ClaimNew, Goto, BeginNew
<1>2. ASSUME NEW r \in Requests, ClaimReplay(r) PROVE TypeOK'
  BY <1>2 DEF ClaimReplay, Goto, BeginReplay, Reply
<1>3. ASSUME NEW r \in Requests, ClaimConflict(r) PROVE TypeOK'
  BY <1>3 DEF ClaimConflict, Goto, BeginConflict, Reply, Told
<1>4. ASSUME NEW r \in Requests, ClaimInProgress(r) PROVE TypeOK'
  BY <1>4 DEF ClaimInProgress, Goto, BeginInProgress, Reply, Told
<1>5. ASSUME NEW r \in Requests, ClaimUnavailable(r) PROVE TypeOK'
  BY <1>5 DEF ClaimUnavailable, Goto, BeginNew, Reply, Told
<1>6. ASSUME NEW r \in Requests, CrossEffect(r) PROVE TypeOK'
  BY <1>6 DEF CrossEffect
<1>7. ASSUME NEW r \in Requests, Return(r) PROVE TypeOK'
  BY <1>7 DEF Return, Goto
<1>8. ASSUME NEW r \in Requests, Panic(r) PROVE TypeOK'
  BY <1>8 DEF Panic, Goto, Reply, Told
<1>9. ASSUME NEW r \in Requests, ReleaseClaim(r) PROVE TypeOK'
  BY <1>9 DEF ReleaseClaim, Goto, Release, Reply, Told
<1>10. ASSUME NEW r \in Requests, ReleaseClaimFails(r) PROVE TypeOK'
  BY <1>10 DEF ReleaseClaimFails, Goto, Release, ReleaseRefused, Reply, Told
<1>11. ASSUME NEW r \in Requests, CompleteClaim(r) PROVE TypeOK'
  BY <1>11 DEF CompleteClaim, Goto, Complete, Reply, Told
<1>12. ASSUME NEW r \in Requests, CompleteClaimFails(r) PROVE TypeOK'
  BY <1>12 DEF CompleteClaimFails, Goto, Complete, CompleteRefused, Reply, Told
<1>13. CASE Pass
  BY <1>13 DEF Pass, Tick, handlerVars
<1>14. CASE UNCHANGED vars
  BY <1>14 DEF vars, handlerVars
<1>15. QED
  BY <1>1, <1>2, <1>3, <1>4, <1>5, <1>6, <1>7, <1>8, <1>9, <1>10, <1>11, <1>12,
      <1>13, <1>14 DEF Next, RequestStep

(* Only BeginNew admits a runner, and it needs a claim nobody holds.        *)
LEMMA RunnerStep ==
  ASSUME TypeOK, RunnersOwnClaims, [Next]_vars
  PROVE  RunnersOwnClaims'
<1> USE IdempotencyConstants, HandlerConstants DEF TypeOK, IdemTypeOK, PcValues,
  Entry, ClaimStatus, NoEntry, RunnersOwnClaims, RunnerHoldsItsClaim,
  OneRunnerPerKey, Executing, Held, Expired
<1>1. ASSUME NEW r \in Requests, ClaimNew(r) PROVE RunnersOwnClaims'
  BY <1>1 DEF ClaimNew, Goto, BeginNew
<1>2. ASSUME NEW r \in Requests, ClaimReplay(r) PROVE RunnersOwnClaims'
  BY <1>2 DEF ClaimReplay, Goto, BeginReplay, Reply
<1>3. ASSUME NEW r \in Requests, ClaimConflict(r) PROVE RunnersOwnClaims'
  BY <1>3 DEF ClaimConflict, Goto, BeginConflict, Reply, Told
<1>4. ASSUME NEW r \in Requests, ClaimInProgress(r) PROVE RunnersOwnClaims'
  BY <1>4 DEF ClaimInProgress, Goto, BeginInProgress, Reply, Told
<1>5. ASSUME NEW r \in Requests, ClaimUnavailable(r) PROVE RunnersOwnClaims'
  BY <1>5 DEF ClaimUnavailable, Goto, BeginNew, Reply, Told
<1>6. ASSUME NEW r \in Requests, CrossEffect(r) PROVE RunnersOwnClaims'
  BY <1>6 DEF CrossEffect
<1>7. ASSUME NEW r \in Requests, Return(r) PROVE RunnersOwnClaims'
  BY <1>7 DEF Return, Goto
<1>8. ASSUME NEW r \in Requests, Panic(r) PROVE RunnersOwnClaims'
  BY <1>8 DEF Panic, Goto, Reply, Told
<1>9. ASSUME NEW r \in Requests, ReleaseClaim(r) PROVE RunnersOwnClaims'
  BY <1>9 DEF ReleaseClaim, Goto, Release, Reply, Told
<1>10. ASSUME NEW r \in Requests, ReleaseClaimFails(r) PROVE RunnersOwnClaims'
  BY <1>10 DEF ReleaseClaimFails, Goto, Release, ReleaseRefused, Reply, Told
<1>11. ASSUME NEW r \in Requests, CompleteClaim(r) PROVE RunnersOwnClaims'
  BY <1>11 DEF CompleteClaim, Goto, Complete, Reply, Told
<1>12. ASSUME NEW r \in Requests, CompleteClaimFails(r) PROVE RunnersOwnClaims'
  BY <1>12 DEF CompleteClaimFails, Goto, Complete, CompleteRefused, Reply, Told
<1>13. CASE Pass
  BY <1>13 DEF Pass, Tick, handlerVars
<1>14. CASE UNCHANGED vars
  BY <1>14 DEF vars, handlerVars
<1>15. QED
  BY <1>1, <1>2, <1>3, <1>4, <1>5, <1>6, <1>7, <1>8, <1>9, <1>10, <1>11, <1>12,
      <1>13, <1>14 DEF Next, RequestStep

(* An operation that asks for a release has had no effect, and gets none.   *)
LEMMA ReleaserStep ==
  ASSUME TypeOK, ReleasersHaveNoEffect, [Next]_vars
  PROVE  ReleasersHaveNoEffect'
<1> USE IdempotencyConstants, HandlerConstants DEF TypeOK, IdemTypeOK, PcValues,
  ReleasersHaveNoEffect, Never
<1>1. ASSUME NEW r \in Requests, ClaimNew(r) PROVE ReleasersHaveNoEffect'
  BY <1>1 DEF ClaimNew, Goto, BeginNew
<1>2. ASSUME NEW r \in Requests, ClaimReplay(r) PROVE ReleasersHaveNoEffect'
  BY <1>2 DEF ClaimReplay, Goto, BeginReplay, Reply
<1>3. ASSUME NEW r \in Requests, ClaimConflict(r) PROVE ReleasersHaveNoEffect'
  BY <1>3 DEF ClaimConflict, Goto, BeginConflict, Reply, Told
<1>4. ASSUME NEW r \in Requests, ClaimInProgress(r) PROVE ReleasersHaveNoEffect'
  BY <1>4 DEF ClaimInProgress, Goto, BeginInProgress, Reply, Told
<1>5. ASSUME NEW r \in Requests, ClaimUnavailable(r) PROVE ReleasersHaveNoEffect'
  BY <1>5 DEF ClaimUnavailable, Goto, BeginNew, Reply, Told
<1>6. ASSUME NEW r \in Requests, CrossEffect(r) PROVE ReleasersHaveNoEffect'
  BY <1>6 DEF CrossEffect
<1>7. ASSUME NEW r \in Requests, Return(r) PROVE ReleasersHaveNoEffect'
  BY <1>7 DEF Return, Goto
<1>8. ASSUME NEW r \in Requests, Panic(r) PROVE ReleasersHaveNoEffect'
  BY <1>8 DEF Panic, Goto, Reply, Told
<1>9. ASSUME NEW r \in Requests, ReleaseClaim(r) PROVE ReleasersHaveNoEffect'
  BY <1>9 DEF ReleaseClaim, Goto, Release, Reply, Told
<1>10. ASSUME NEW r \in Requests, ReleaseClaimFails(r) PROVE
  ReleasersHaveNoEffect'
  BY <1>10 DEF ReleaseClaimFails, Goto, Release, ReleaseRefused, Reply, Told
<1>11. ASSUME NEW r \in Requests, CompleteClaim(r) PROVE ReleasersHaveNoEffect'
  BY <1>11 DEF CompleteClaim, Goto, Complete, Reply, Told
<1>12. ASSUME NEW r \in Requests, CompleteClaimFails(r) PROVE
  ReleasersHaveNoEffect'
  BY <1>12 DEF CompleteClaimFails, Goto, Complete, CompleteRefused, Reply, Told
<1>13. CASE Pass
  BY <1>13 DEF Pass, Tick, handlerVars
<1>14. CASE UNCHANGED vars
  BY <1>14 DEF vars, handlerVars
<1>15. QED
  BY <1>1, <1>2, <1>3, <1>4, <1>5, <1>6, <1>7, <1>8, <1>9, <1>10, <1>11, <1>12,
      <1>13, <1>14 DEF Next, RequestStep

(* The table forgets an effect only when its retention period is over.      *)
LEMMA RememberedStep ==
  ASSUME TypeOK, RunnersOwnClaims, ReleasersHaveNoEffect, EffectIsRemembered,
         [Next]_vars
  PROVE  EffectIsRemembered'
<1> USE IdempotencyConstants, HandlerConstants DEF TypeOK, IdemTypeOK, PcValues,
  Entry, ClaimStatus, NoEntry, RunnersOwnClaims, RunnerHoldsItsClaim,
  OneRunnerPerKey, ReleasersHaveNoEffect, EffectIsRemembered, Executing, Held,
  Expired, Never
<1>1. ASSUME NEW r \in Requests, ClaimNew(r) PROVE EffectIsRemembered'
  BY <1>1 DEF ClaimNew, Goto, BeginNew
<1>2. ASSUME NEW r \in Requests, ClaimReplay(r) PROVE EffectIsRemembered'
  BY <1>2 DEF ClaimReplay, Goto, BeginReplay, Reply
<1>3. ASSUME NEW r \in Requests, ClaimConflict(r) PROVE EffectIsRemembered'
  BY <1>3 DEF ClaimConflict, Goto, BeginConflict, Reply, Told
<1>4. ASSUME NEW r \in Requests, ClaimInProgress(r) PROVE EffectIsRemembered'
  BY <1>4 DEF ClaimInProgress, Goto, BeginInProgress, Reply, Told
<1>5. ASSUME NEW r \in Requests, ClaimUnavailable(r) PROVE EffectIsRemembered'
  BY <1>5 DEF ClaimUnavailable, Goto, BeginNew, Reply, Told
<1>6. ASSUME NEW r \in Requests, CrossEffect(r) PROVE EffectIsRemembered'
  BY <1>6 DEF CrossEffect
<1>7. ASSUME NEW r \in Requests, Return(r) PROVE EffectIsRemembered'
  BY <1>7 DEF Return, Goto
<1>8. ASSUME NEW r \in Requests, Panic(r) PROVE EffectIsRemembered'
  BY <1>8 DEF Panic, Goto, Reply, Told
<1>9. ASSUME NEW r \in Requests, ReleaseClaim(r) PROVE EffectIsRemembered'
  BY <1>9 DEF ReleaseClaim, Goto, Release, Reply, Told
<1>10. ASSUME NEW r \in Requests, ReleaseClaimFails(r) PROVE EffectIsRemembered'
  BY <1>10 DEF ReleaseClaimFails, Goto, Release, ReleaseRefused, Reply, Told
<1>11. ASSUME NEW r \in Requests, CompleteClaim(r) PROVE EffectIsRemembered'
  BY <1>11 DEF CompleteClaim, Goto, Complete, Reply, Told
<1>12. ASSUME NEW r \in Requests, CompleteClaimFails(r) PROVE EffectIsRemembered'
  BY <1>12 DEF CompleteClaimFails, Goto, Complete, CompleteRefused, Reply, Told
<1>13. CASE Pass
  BY <1>13 DEF Pass, Tick, handlerVars
<1>14. CASE UNCHANGED vars
  BY <1>14 DEF vars, handlerVars
<1>15. QED
  BY <1>1, <1>2, <1>3, <1>4, <1>5, <1>6, <1>7, <1>8, <1>9, <1>10, <1>11, <1>12,
      <1>13, <1>14 DEF Next, RequestStep

(* A second effect under a key meets a table that has forgotten the first.  *)
LEMMA RetentionStep ==
  ASSUME TypeOK, RunnersOwnClaims, ReleasersHaveNoEffect, EffectIsRemembered,
         OneEffectPerRetention, [Next]_vars
  PROVE  OneEffectPerRetention'
<1> USE IdempotencyConstants, HandlerConstants DEF TypeOK, IdemTypeOK, PcValues,
  Entry, ClaimStatus, RunnersOwnClaims, RunnerHoldsItsClaim, OneRunnerPerKey,
  EffectIsRemembered, OneEffectPerRetention, Executing, Held, Never
<1>1. ASSUME NEW r \in Requests, ClaimNew(r) PROVE OneEffectPerRetention'
  BY <1>1 DEF ClaimNew, Goto, BeginNew
<1>2. ASSUME NEW r \in Requests, ClaimReplay(r) PROVE OneEffectPerRetention'
  BY <1>2 DEF ClaimReplay, Goto, BeginReplay, Reply
<1>3. ASSUME NEW r \in Requests, ClaimConflict(r) PROVE OneEffectPerRetention'
  BY <1>3 DEF ClaimConflict, Goto, BeginConflict, Reply, Told
<1>4. ASSUME NEW r \in Requests, ClaimInProgress(r) PROVE OneEffectPerRetention'
  BY <1>4 DEF ClaimInProgress, Goto, BeginInProgress, Reply, Told
<1>5. ASSUME NEW r \in Requests, ClaimUnavailable(r) PROVE OneEffectPerRetention'
  BY <1>5 DEF ClaimUnavailable, Goto, BeginNew, Reply, Told
<1>6. ASSUME NEW r \in Requests, CrossEffect(r) PROVE OneEffectPerRetention'
  <2> USE <1>6 DEF CrossEffect
  <2>1. ASSUME NEW s \in Requests, s # r, key[s] = key[r], effectAt[s] # Never
        PROVE  now > effectAt[s] + Retention
    <3>1. Held(key[r]) /\ ~Executing(s)
      BY <2>1
    <3>2. pc[s] # "sent"
      BY <2>1 DEF ReleasersHaveNoEffect
    <3>3. QED
      BY <2>1, <3>1, <3>2
  <2>2. /\ effectAt'[r] = now
        /\ \A s \in Requests : s # r => effectAt'[s] = effectAt[s]
        /\ UNCHANGED key
    OBVIOUS
  <2>3. QED
    BY <2>1, <2>2
<1>7. ASSUME NEW r \in Requests, Return(r) PROVE OneEffectPerRetention'
  BY <1>7 DEF Return, Goto
<1>8. ASSUME NEW r \in Requests, Panic(r) PROVE OneEffectPerRetention'
  BY <1>8 DEF Panic, Goto, Reply, Told
<1>9. ASSUME NEW r \in Requests, ReleaseClaim(r) PROVE OneEffectPerRetention'
  BY <1>9 DEF ReleaseClaim, Goto, Release, Reply, Told
<1>10. ASSUME NEW r \in Requests, ReleaseClaimFails(r) PROVE
  OneEffectPerRetention'
  BY <1>10 DEF ReleaseClaimFails, Goto, Release, ReleaseRefused, Reply, Told
<1>11. ASSUME NEW r \in Requests, CompleteClaim(r) PROVE OneEffectPerRetention'
  BY <1>11 DEF CompleteClaim, Goto, Complete, Reply, Told
<1>12. ASSUME NEW r \in Requests, CompleteClaimFails(r) PROVE
  OneEffectPerRetention'
  BY <1>12 DEF CompleteClaimFails, Goto, Complete, CompleteRefused, Reply, Told
<1>13. CASE Pass
  BY <1>13 DEF Pass, Tick, handlerVars
<1>14. CASE UNCHANGED vars
  BY <1>14 DEF vars, handlerVars
<1>15. QED
  BY <1>1, <1>2, <1>3, <1>4, <1>5, <1>6, <1>7, <1>8, <1>9, <1>10, <1>11, <1>12,
      <1>13, <1>14 DEF Next, RequestStep

(* What is stored, and so what is replayed, stays the answer of its run.    *)
LEMMA ResponseStep ==
  ASSUME TypeOK, RunnersOwnClaims, AnswersAreFaithful, [Next]_vars
  PROVE  AnswersAreFaithful'
<1> USE IdempotencyConstants, HandlerConstants DEF TypeOK, IdemTypeOK, PcValues,
  Entry, ClaimStatus, NoEntry, RunnersOwnClaims, RunnerHoldsItsClaim,
  AnswersAreFaithful, StoredResponseIsItsRun, RepliesAreFinal, Executing, Held
<1>1. ASSUME NEW r \in Requests, ClaimNew(r) PROVE AnswersAreFaithful'
  BY <1>1 DEF ClaimNew, Goto, BeginNew
<1>2. ASSUME NEW r \in Requests, ClaimReplay(r) PROVE AnswersAreFaithful'
  BY <1>2 DEF ClaimReplay, Goto, BeginReplay, Reply
<1>3. ASSUME NEW r \in Requests, ClaimConflict(r) PROVE AnswersAreFaithful'
  BY <1>3 DEF ClaimConflict, Goto, BeginConflict, Reply, Told
<1>4. ASSUME NEW r \in Requests, ClaimInProgress(r) PROVE AnswersAreFaithful'
  BY <1>4 DEF ClaimInProgress, Goto, BeginInProgress, Reply, Told
<1>5. ASSUME NEW r \in Requests, ClaimUnavailable(r) PROVE AnswersAreFaithful'
  BY <1>5 DEF ClaimUnavailable, Goto, BeginNew, Reply, Told
<1>6. ASSUME NEW r \in Requests, CrossEffect(r) PROVE AnswersAreFaithful'
  BY <1>6 DEF CrossEffect
<1>7. ASSUME NEW r \in Requests, Return(r) PROVE AnswersAreFaithful'
  BY <1>7 DEF Return, Goto
<1>8. ASSUME NEW r \in Requests, Panic(r) PROVE AnswersAreFaithful'
  BY <1>8 DEF Panic, Goto, Reply, Told
<1>9. ASSUME NEW r \in Requests, ReleaseClaim(r) PROVE AnswersAreFaithful'
  BY <1>9 DEF ReleaseClaim, Goto, Release, Reply, Told
<1>10. ASSUME NEW r \in Requests, ReleaseClaimFails(r) PROVE AnswersAreFaithful'
  <2> USE <1>10 DEF ReleaseClaimFails, Goto, Reply, Told
  <2>1. CASE UNCHANGED entries
    BY <2>1
  <2>2. CASE Release(key[r], digest[r])
    BY <2>2 DEF Release
  <2>3. QED
    BY <2>1, <2>2 DEF ReleaseRefused
<1>11. ASSUME NEW r \in Requests, CompleteClaim(r) PROVE AnswersAreFaithful'
  BY <1>11 DEF CompleteClaim, Goto, Complete, Reply, Told
<1>12. ASSUME NEW r \in Requests, CompleteClaimFails(r) PROVE AnswersAreFaithful'
  <2> USE <1>12 DEF CompleteClaimFails, Goto, Reply, Told
  <2>1. CASE UNCHANGED entries
    BY <2>1
  <2>2. CASE Complete(key[r], r)
    BY <2>2 DEF Complete
  <2>3. QED
    BY <2>1, <2>2 DEF CompleteRefused
<1>13. CASE Pass
  BY <1>13 DEF Pass, Tick, handlerVars
<1>14. CASE UNCHANGED vars
  BY <1>14 DEF vars, handlerVars
<1>15. QED
  BY <1>1, <1>2, <1>3, <1>4, <1>5, <1>6, <1>7, <1>8, <1>9, <1>10, <1>11, <1>12,
      <1>13, <1>14 DEF Next, RequestStep

(* A server starts without claims, answers or effects.                     *)
LEMMA InitInv == Init => HandlerInv
  BY IdempotencyConstants, HandlerConstants
  DEF Init, IdemInit, HandlerInv, TypeOK, IdemTypeOK, Entry, ClaimStatus, NoEntry,
      PcValues, AnswerKinds, Never, NoAnswer, RunnersOwnClaims, AnswersAreFaithful,
      OneRunnerPerKey, RunnerHoldsItsClaim,
      ReleasersHaveNoEffect, EffectIsRemembered, OneEffectPerRetention,
      StoredResponseIsItsRun, RepliesAreFinal, Executing

(* HandlerInv is inductive.                                                *)
LEMMA Inductive == Spec => []HandlerInv
<1>1. HandlerInv /\ [Next]_vars => HandlerInv'
  BY TypeStep, RunnerStep, ReleaserStep, RememberedStep, RetentionStep,
      ResponseStep
  DEF HandlerInv
<1>2. QED
  BY InitInv, <1>1, PTL DEF Spec

(* The claim table and the goroutines' state have their types.             *)
THEOREM TypeCorrect == Spec => []TypeOK
<1>1. HandlerInv => TypeOK
  BY DEF HandlerInv
<1>2. QED
  BY Inductive, <1>1, PTL

(* Begin's claim is a mutual exclusion lock for the operation of a key.    *)
THEOREM MutualExclusion == Spec => []OneRunnerPerKey
<1>1. HandlerInv => OneRunnerPerKey
  BY DEF HandlerInv, RunnersOwnClaims
<1>2. QED
  BY Inductive, <1>1, PTL

(* Complete and Release always act on the caller's own claim, although     *)
(* Complete compares nothing.                                              *)
THEOREM ClaimOwnership == Spec => []RunnerHoldsItsClaim
<1>1. HandlerInv => RunnerHoldsItsClaim
  BY DEF HandlerInv, RunnersOwnClaims
<1>2. QED
  BY Inductive, <1>1, PTL

(* Two effects under one key are more than a retention period apart, with  *)
(* panics and with a backend whose errors are ambiguous.                   *)
THEOREM RetentionSeparatesEffects == Spec => []OneEffectPerRetention
<1>1. HandlerInv => OneEffectPerRetention
  BY DEF HandlerInv
<1>2. QED
  BY Inductive, <1>1, PTL

(* A client is only ever replayed the answer to its own request.           *)
THEOREM ReplayFidelity == Spec => []ReplayIsOfTheSameRequest
<1>1. HandlerInv => ReplayIsOfTheSameRequest
  BY DEF HandlerInv, AnswersAreFaithful, RepliesAreFinal, ReplayIsOfTheSameRequest
<1>2. QED
  BY Inductive, <1>1, PTL

(* An operation in flight that has had its effect keeps its claim.         *)
Survives ==
  \A k \in Keys :
    (/\ Held(k)
     /\ \E r \in Requests : key[r] = k /\ Executing(r) /\ effectAt[r] # Never)
    => entries'[k].status # "absent"
       /\ entries'[k].digest = entries[k].digest

(* No step takes a claim away from an operation that has had its effect.   *)
LEMMA SurvivalStep ==
  ASSUME HandlerInv, Next
  PROVE  Survives
<1> USE IdempotencyConstants, HandlerConstants DEF HandlerInv, RunnersOwnClaims,
  TypeOK, IdemTypeOK, Entry, ClaimStatus, NoEntry, PcValues, RunnerHoldsItsClaim,
  OneRunnerPerKey, ReleasersHaveNoEffect, Executing, Held, Expired, Never, Survives
<1>1. ASSUME NEW r \in Requests, ClaimNew(r) PROVE Survives
  BY <1>1 DEF ClaimNew, Goto, BeginNew
<1>2. ASSUME NEW r \in Requests, ClaimReplay(r) PROVE Survives
  BY <1>2 DEF ClaimReplay, Goto, BeginReplay, Reply
<1>3. ASSUME NEW r \in Requests, ClaimConflict(r) PROVE Survives
  BY <1>3 DEF ClaimConflict, Goto, BeginConflict, Reply, Told
<1>4. ASSUME NEW r \in Requests, ClaimInProgress(r) PROVE Survives
  BY <1>4 DEF ClaimInProgress, Goto, BeginInProgress, Reply, Told
<1>5. ASSUME NEW r \in Requests, ClaimUnavailable(r) PROVE Survives
  BY <1>5 DEF ClaimUnavailable, Goto, BeginNew, Reply, Told
<1>6. ASSUME NEW r \in Requests, CrossEffect(r) PROVE Survives
  BY <1>6 DEF CrossEffect
<1>7. ASSUME NEW r \in Requests, Return(r) PROVE Survives
  BY <1>7 DEF Return, Goto
<1>8. ASSUME NEW r \in Requests, Panic(r) PROVE Survives
  BY <1>8 DEF Panic, Goto, Reply, Told
<1>9. ASSUME NEW r \in Requests, ReleaseClaim(r) PROVE Survives
  BY <1>9 DEF ReleaseClaim, Goto, Release, Reply, Told
<1>10. ASSUME NEW r \in Requests, ReleaseClaimFails(r) PROVE Survives
  BY <1>10 DEF ReleaseClaimFails, Goto, Release, ReleaseRefused, Reply, Told
<1>11. ASSUME NEW r \in Requests, CompleteClaim(r) PROVE Survives
  BY <1>11 DEF CompleteClaim, Goto, Complete, Reply, Told
<1>12. ASSUME NEW r \in Requests, CompleteClaimFails(r) PROVE Survives
  BY <1>12 DEF CompleteClaimFails, Goto, Complete, CompleteRefused, Reply, Told
<1>13. CASE Pass
  BY <1>13 DEF Pass, Tick
<1>14. QED
  BY <1>1, <1>2, <1>3, <1>4, <1>5, <1>6, <1>7, <1>8, <1>9, <1>10, <1>11, <1>12,
      <1>13 DEF Next, RequestStep

(* A claim is not lost between the effect it guards and the stored answer. *)
THEOREM ClaimSurvival == Spec => ClaimSurvivesItsEffect
<1>1. HandlerInv /\ [Next]_vars => [Survives]_vars
  BY SurvivalStep
<1>2. QED
  BY <1>1, Inductive, PTL DEF Spec, ClaimSurvivesItsEffect, Survives

=============================================================================
