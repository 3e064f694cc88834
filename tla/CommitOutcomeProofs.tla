------------------------ MODULE CommitOutcomeProofs ------------------------
(***************************************************************************)
(* What a commit leaves behind: proofs of the properties of ContractCommit *)
(* that relate answers, tasks, provider effects and charges, for any       *)
(* number of commits and cancels, any faults and any service.              *)
(***************************************************************************)
EXTENDS ContractCommitProofs

(* The calls before the reservation is answered, those after the task was  *)
(* presented to the store, and those made with the task on the record.     *)
Early == {"validate", "reserve"}
Later == CommitCalls \ {"validate", "reserve", "put", "return"}
Recorded == Later \ {"abandon"}

(* The kinds of answer that say that nothing has happened.                 *)
Refusals == {"problem", "retry"}

(* Nothing is made before Reserve answers, nor by a commit that says so.   *)
NothingMade(r) == hold[r] = NoAmount /\ task[r] = NoTask /\ r \notin performed

RefusalsAreTrue(r) ==
  /\ at[r] \in Early \/ result[r].kind \in Refusals => NothingMade(r)
  /\ result[r].kind \in Refusals => at[r] = "return"

(* An effect of the provider comes after one that the handler knows of.    *)
EffectsAreDated(r) ==
  /\ at[r] \in Later => effectAt[r] # Never
  /\ r \in performed => effectAt[r] # Never
  /\ pc[r] = "sent" => at[r] = "validate"

(* While a commit is under way no other request of its key has an effect,  *)
(* if its quote expires within the retention period: an older one would    *)
(* still be remembered.                                                    *)
IsAlone(r) ==
  QuoteOf(r).expiresAt <= Retention /\ pc[r] = "running" /\ at[r] \notin {"validate", "return"}
  => \A s \in Requests : s # r /\ key[s] = key[r] => effectAt[s] = Never

(* The calls that come before the execution, and those that follow one the *)
(* provider reported done.                                                 *)
ExecutionIsKnown(r) ==
  /\ at[r] \in {"put", "start", "execute"} => r \notin performed
  /\ at[r] \in {"settle", "bind", "succeed"} => r \in performed

(* The hold of a commit is for its ceiling; its task names it, and states  *)
(* the settlement and the amount the processor knows.                      *)
TaskIsBilled(r) ==
  /\ at[r] \in Recorded => task[r] # NoTask
  /\ held[r] # None => hold[held[r]] = QuoteOf(r).ceiling
  /\ task[r] # NoTask => task[r].hold = held[r] /\ task[r].amount <= QuoteOf(r).ceiling
  /\ task[r].settlement # None =>
       /\ held[r] # None
       /\ settleByHold[held[r]] = task[r].settlement
       /\ settled[task[r].settlement] = task[r].amount
  /\ at[r] = "succeed" /\ held[r] # None => task[r].settlement # None
  /\ task[r].state = "succeeded" =>
       r \in performed /\ (held[r] # None => task[r].settlement # None)

(* A commit that fails had no effect, if a problem means that, and its     *)
(* reservation was given back.                                             *)
FailureIsClean(r) ==
  ~ProviderUncertain =>
    /\ at[r] \in {"void", "fail"} => r \notin performed
    /\ at[r] = "fail" /\ held[r] # None => held[r] \in released
    /\ task[r].state = "failed" =>
         /\ at[r] \in {"failed", "anchor", "attach", "issue", "return"}
         /\ r \notin performed
         /\ held[r] # None => held[r] \in released

Outcome(r) ==
  /\ RefusalsAreTrue(r)
  /\ EffectsAreDated(r)
  /\ IsAlone(r)
  /\ ExecutionIsKnown(r)
  /\ TaskIsBilled(r)
  /\ FailureIsClean(r)

(* A cancel that has read its task finds it on the record ever after.      *)
CancelsKnowTheirTask ==
  \A x \in Cancels : at[x] \notin {"read", "return"} => task[TaskOf(x)] # NoTask

(* A hold made for a contract is for the ceiling of its quote, whether the *)
(* processor finds it by key or by the mandate it consumed.                *)
HoldsAreForCeilings ==
  /\ \A c \in Contracts, k \in BillKeys :
       holdByKey[c][k] # None => hold[holdByKey[c][k]] = Quote[c].ceiling
  /\ \A m \in Mandates :
       mandateUse[m] # NoUse =>
         /\ mandateUse[m].binding \in Contracts
         /\ mandateUse[m].hold \in Holds
         /\ hold[mandateUse[m].hold] = Quote[mandateUse[m].binding].ceiling

OutcomeInv ==
  /\ CommitInv /\ HandlerInv /\ BillInv
  /\ HoldsAreForCeilings
  /\ CancelsKnowTheirTask
  /\ ChargedOnlyForAnEffect
  /\ OneEffectPerKey
  /\ \A r \in Commits : Outcome(r)

-----------------------------------------------------------------------------
(* What a step of a commit does                                            *)

(* A call of the processor never takes back what an earlier one answered.  *)
AnswersStand ==
  /\ \A h \in Holds : hold[h] # NoAmount => hold'[h] = hold[h]
  /\ \A h \in Holds : settleByHold[h] # None => settleByHold'[h] = settleByHold[h]
  /\ \A s \in SettleRefs : settled[s] # NoAmount => settled'[s] = settled[s]
  /\ released \subseteq released'

(* It holds of each of the five calls that change a map.                   *)
LEMMA BillGrows ==
  ASSUME BillTypeOK, [BillNext]_billVars
  PROVE  AnswersStand
<1>1. ASSUME NEW c \in Contracts, NEW b \in Bindings, NEW k \in BillKeys,
             NEW auth \in Authorizations, NEW amount \in Amounts, NEW h \in Holds,
             ReserveNew(c, b, k, auth, amount, h)
      PROVE  AnswersStand
  BY <1>1 DEF ReserveNew, BillTypeOK, AnswersStand
<1>2. ASSUME NEW h \in Holds, NEW amount \in Amounts, NEW k \in BillKeys,
             NEW s \in SettleRefs, SettleExisting(h, amount, k, s)
      PROVE  AnswersStand
  BY <1>2 DEF SettleExisting, AnswersStand
<1>3. ASSUME NEW h \in Holds, NEW amount \in Amounts, NEW k \in BillKeys,
             NEW s \in SettleRefs, SettleNew(h, amount, k, s)
      PROVE  AnswersStand
  BY <1>3 DEF SettleNew, BillTypeOK, AnswersStand
<1>4. ASSUME NEW h \in Holds, ReleaseHold(h) PROVE AnswersStand
  BY <1>4 DEF ReleaseHold, AnswersStand
<1>5. ASSUME NEW s \in SettleRefs, NEW amount \in Amounts, NEW k \in BillKeys,
             RefundNew(s, amount, k)
      PROVE  AnswersStand
  BY <1>5 DEF RefundNew, AnswersStand
<1>6. CASE UNCHANGED billVars
  BY <1>6 DEF billVars, AnswersStand
<1>7. QED
  BY <1>1, <1>2, <1>3, <1>4, <1>5, <1>6, EveryStep

(* Where a step of a commit goes, and what it lets the handler answer.     *)
ControlMove(r) ==
  \/ at[r] = "validate" /\ at'[r] = "reserve" /\ now <= QuoteOf(r).expiresAt
     /\ UNCHANGED <<result, effectAt, billVars, task, performed>>
  \/ /\ at[r] \in Early
     /\ at'[r] = "return"
     /\ UNCHANGED <<billVars, task, performed, effectAt>>
  \/ /\ at'[r] \notin Early
     /\ at[r] # "validate"
     /\ UNCHANGED result \/ result'[r].kind \notin Refusals
     /\ Cross(r) \/ (UNCHANGED effectAt /\ (at'[r] \in Later => at[r] \in Later))

(* A transition moves on from one recorded call to another, or returns.    *)
LEMMA TransitionControl ==
  ASSUME ControlTypeOK, NEW r \in Commits, Moves(r) \/ Attach(r)
  PROVE  /\ at[r] \in Recorded
         /\ ControlMove(r)
         /\ UNCHANGED <<effectAt, billVars, performed, held, charge, root>>
<1>1. r \in Requests
  BY QuoteType
<1>2. ASSUME NEW to, at' = [at EXCEPT ![r] = to] PROVE at'[r] = to
  BY <1>1, <1>2 DEF ControlTypeOK
<1>3. ASSUME NEW res, result' = [result EXCEPT ![r] = res] PROVE result'[r] = res
  BY <1>1, <1>3 DEF ControlTypeOK
<1>4. Result("unknown", None).kind \notin Refusals /\ Result("done", r).kind \notin Refusals
  BY DEF Result, Refusals
<1>5. TransitionCalls \cup {"attach"} \subseteq Recorded
  BY DEF TransitionCalls, Recorded, Later, CommitCalls
<1>6. (AfterTransition \cup {"issue", "return"}) \cap Early = {} /\ "validate" \notin Recorded
      /\ Recorded \subseteq Later
  BY DEF AfterTransition, Early, Recorded, Later
<1>7. /\ at[r] \in TransitionCalls \cup {"attach"}
      /\ at'[r] \in AfterTransition \cup {"issue", "return"}
      /\ UNCHANGED <<effectAt, billVars, performed, held, charge, root>>
      /\ UNCHANGED result \/ (at'[r] = "return" /\ result'[r].kind \notin Refusals)
  <2>1. CASE Moves(r)
    BY <1>2, <1>3, <1>4, <2>1, Zenon DEF Moves
  <2>2. CASE Attach(r)
    BY <1>2, <1>3, <1>4, <2>2, AttachShape, Zenon
  <2>3. QED
    BY <2>1, <2>2
<1>8. QED
  BY <1>5, <1>6, <1>7 DEF ControlMove

(* Every step of a commit is such a move.                                  *)
LEMMA CommitControlMoves ==
  ASSUME ControlTypeOK, NEW r \in Commits, CommitStep(r)
  PROVE  ControlMove(r)
<1>1. r \in Requests
  BY QuoteType
<1>2. ASSUME NEW to, at' = [at EXCEPT ![r] = to] PROVE at'[r] = to
  BY <1>1, <1>2 DEF ControlTypeOK
<1>3. ASSUME NEW res, result' = [result EXCEPT ![r] = res] PROVE result'[r] = res
  BY <1>1, <1>3 DEF ControlTypeOK
<1>4. /\ Result("unknown", None).kind \notin Refusals
      /\ Result("unknown", r).kind \notin Refusals
      /\ Result("done", r).kind \notin Refusals
  BY DEF Result, Refusals
<1>5. CASE ValidateOk(r)
  <2>1. /\ at[r] = "validate" /\ at'[r] = "reserve" /\ now <= QuoteOf(r).expiresAt
        /\ UNCHANGED <<result, effectAt, billVars, task, performed>>
    BY <1>2, <1>5, Zenon DEF ValidateOk, QuoteUsable, Inside
  <2>2. QED
    BY <2>1 DEF ControlMove
<1>6. CASE ValidateRefuses(r) \/ ReserveRefused(r)
  <2>1. /\ at[r] \in {"validate", "reserve"} /\ at'[r] = "return"
        /\ UNCHANGED <<billVars, task, performed, effectAt>>
    BY <1>2, <1>6, Zenon DEF ValidateRefuses, ReserveRefused, ReserveDeclined, Decide, Inside
  <2>2. QED
    BY <2>1 DEF ControlMove, Early
<1>7. CASE ReserveFree(r)
  <2>1. at[r] = "reserve" /\ at'[r] = "put" /\ UNCHANGED <<result, effectAt>>
    BY <1>2, <1>7, Zenon DEF ReserveFree, Inside
  <2>2. QED
    BY <2>1 DEF ControlMove, Early, Later
<1>8. CASE ReserveOk(r) \/ PutTask(r)
  <2>1. at[r] \in {"reserve", "put"} /\ at'[r] \in {"put", "start"} /\ UNCHANGED result /\ Cross(r)
    BY <1>2, <1>8, Zenon DEF ReserveOk, PutTask, Inside
  <2>2. QED
    BY <2>1 DEF ControlMove, Early
<1>9. CASE ReserveUnknown(r)
  <2>1. at[r] = "reserve" /\ at'[r] = "return" /\ result'[r].kind \notin Refusals /\ Cross(r)
    BY <1>2, <1>3, <1>4, <1>9, Zenon DEF ReserveUnknown, Decide, Inside
  <2>2. QED
    BY <2>1 DEF ControlMove, Early
<1>10. CASE Moves(r) \/ Attach(r)
  BY <1>10, TransitionControl
<1>11. CASE \/ Abandon(r) \/ StartOk(r) \/ Void(r) \/ VoidPrice(r) \/ SettleOk(r)
            \/ SettleFails(r) \/ Close(r) \/ ExecuteOk(r) \/ ExecuteProblem(r)
  <2>1. /\ at[r] \in {"abandon", "start", "void", "void_price", "settle", "succeeded",
                      "failed", "execute"}
        /\ at'[r] \in {"return", "execute", "fail", "mark_void_pending",
                       "mark_disputed_voided", "mark_disputed", "bind",
                       "mark_settlement_pending", "anchor", "succeed", "settle",
                       "void_price", "void"}
        /\ UNCHANGED <<result, effectAt>>
    BY <1>2, <1>11, Zenon DEF Abandon, StartOk, Void, VoidPrice, SettleOk, SettleFails,
       Close, ExecuteOk, ExecuteProblem, Inside
  <2>2. QED
    BY <2>1 DEF ControlMove, Early, Later, CommitCalls
<1>12. CASE Anchor(r) \/ Report(r) \/ Issue(r)
  <2>1. /\ at[r] \in {"anchor", "void_pending", "disputed", "settlement_pending", "issue"}
        /\ at'[r] \in {"attach", "return"}
        /\ UNCHANGED effectAt
        /\ UNCHANGED result \/ (at'[r] = "return" /\ result'[r].kind \notin Refusals)
    BY <1>2, <1>3, <1>4, <1>12, Zenon DEF Anchor, Report, Issue, Decide, Inside
  <2>2. QED
    BY <2>1 DEF ControlMove, Early, Later, CommitCalls
<1>13. CASE StartFails(r)
  <2>1. at[r] = "start" /\ at'[r] = "abandon" /\ result'[r] = Result("unknown", None) /\ UNCHANGED effectAt
    BY <1>2, <1>3, <1>13, Zenon DEF StartFails, Inside
  <2>2. QED
    BY <1>4, <2>1 DEF ControlMove, Early, Later, CommitCalls
<1>14. CASE PutTaskFails(r)
  <2>1. at[r] = "put" /\ at'[r] = "abandon" /\ result'[r] = Result("unknown", r) /\ Cross(r)
    BY <1>2, <1>3, <1>14, Zenon DEF PutTaskFails, Inside
  <2>2. QED
    BY <1>4, <2>1 DEF ControlMove, Early, Later, CommitCalls
<1>15. QED
  BY <1>5, <1>6, <1>7, <1>8, <1>9, <1>10, <1>11, <1>12, <1>13, <1>14, TransitionsMove
  DEF CommitStep

(* What a commit asks of the processor, and what it takes for its hold.    *)
BillMove(r) ==
  \/ UNCHANGED <<billVars, held>>
  \/ /\ at[r] = "reserve"
     /\ \E h \in Holds :
          Reserves(r, h) /\ (UNCHANGED held \/ held' = [held EXCEPT ![r] = h])
  \/ at[r] = "settle" /\ UNCHANGED held /\ \E s \in SettleRefs : Settles(r, s)
  \/ held[r] # None /\ UNCHANGED held /\ ReleaseHold(held[r])

(* Every step of a commit is one of these, and leaves other holds alone.   *)
LEMMA CommitBillMoves ==
  ASSUME ControlTypeOK, DataTypeOK, OperandsKnown, NEW r \in Commits, CommitStep(r)
  PROVE  BillMove(r)
<1>1. CASE Moves(r) \/ Attach(r)
  BY <1>1, TransitionControl DEF BillMove
<1>2. CASE \/ ValidateOk(r) \/ ValidateRefuses(r) \/ ReserveFree(r) \/ ReserveRefused(r)
           \/ PutTask(r) \/ PutTaskFails(r) \/ StartOk(r) \/ StartFails(r)
           \/ ExecuteOk(r) \/ ExecuteProblem(r)
           \/ Report(r) \/ Close(r) \/ Anchor(r) \/ Issue(r)
  <2>1. UNCHANGED <<billVars, held>>
    BY <1>2, Zenon
    DEF ValidateOk, ValidateRefuses, ReserveFree, ReserveRefused, ReserveDeclined, PutTask,
        PutTaskFails, StartOk, StartFails, ExecuteOk, ExecuteProblem, Report, Close,
        Anchor, Issue
  <2>2. QED
    BY <2>1 DEF BillMove
<1>3. CASE ReserveOk(r) \/ ReserveUnknown(r)
  <2>1. /\ at[r] = "reserve"
        /\ \/ UNCHANGED <<billVars, held>>
           \/ \E h \in Holds :
                Reserves(r, h) /\ (UNCHANGED held \/ held' = [held EXCEPT ![r] = h])
    BY <1>3, Zenon DEF ReserveOk, ReserveUnknown, Inside, Decide
  <2>2. QED
    BY <2>1 DEF BillMove
<1>4. CASE Abandon(r) \/ Void(r) \/ VoidPrice(r)
  <2>1. at[r] = "void" => held[r] # None
    BY BillingConstants DEF OperandsKnown
  <2>2. UNCHANGED held
    BY <1>4, Zenon DEF Abandon, Void, VoidPrice
  <2>3. \/ UNCHANGED billVars
        \/ held[r] # None /\ ReleaseHold(held[r])
    BY <1>4, <2>1, Zenon
    DEF Abandon, Void, VoidPrice, VoidFails, ReleaseHoldRefused, Inside
  <2>4. QED
    BY <2>2, <2>3 DEF BillMove
<1>5. CASE SettleOk(r) \/ SettleFails(r)
  <2>1. /\ at[r] = "settle" /\ UNCHANGED held
        /\ UNCHANGED billVars \/ \E s \in SettleRefs : Settles(r, s)
    BY <1>5, Zenon DEF SettleOk, SettleFails, SettleDeclined, Inside
  <2>2. QED
    BY <2>1 DEF BillMove
<1>6. QED
  BY <1>1, <1>2, <1>3, <1>4, <1>5, TransitionsMove DEF CommitStep

(* What an execution does, and where its outcome leads.                    *)
ExecutionMove(r) ==
  /\ \/ UNCHANGED performed
     \/ at[r] = "execute" /\ performed' = performed \cup {r}
  /\ at'[r] \in {"settle", "bind", "succeed"} =>
       \/ r \in performed'
       \/ at[r] \in {"settle", "bind"} /\ UNCHANGED performed
  /\ at'[r] = "put" => at[r] = "reserve" /\ UNCHANGED performed
  /\ at'[r] \in {"start", "execute"} => at[r] \in {"put", "start"} /\ UNCHANGED performed
  /\ at'[r] \in {"void", "fail"} =>
       \/ /\ at[r] = "void" /\ at'[r] = "fail"
          /\ UNCHANGED <<performed, held>> /\ ReleaseHold(held[r])
       \/ /\ at[r] = "execute" /\ UNCHANGED held
          /\ ProviderUncertain \/ UNCHANGED performed
          /\ at'[r] = "fail" => held[r] = None
  /\ at'[r] = "succeed" => held'[r] = None \/ at[r] = "bind"
  /\ at[r] \in {"failed", "anchor", "attach", "issue"} =>
       at'[r] \in {"anchor", "attach", "issue", "return"} /\ UNCHANGED <<performed, held>>

(* Only Execute tells the engine of an effect.                             *)
LEMMA CommitExecutes ==
  ASSUME ControlTypeOK, NEW r \in Commits, CommitStep(r)
  PROVE  ExecutionMove(r)
<1>1. r \in Requests
  BY QuoteType
<1>2. ASSUME NEW to, at' = [at EXCEPT ![r] = to] PROVE at'[r] = to
  BY <1>1, <1>2 DEF ControlTypeOK
<1>3. CASE ExecuteOk(r)
  <2>1. /\ at[r] = "execute" /\ performed' = performed \cup {r} /\ UNCHANGED held
        /\ at'[r] \in {"settle", "succeed", "void_price"}
        /\ at'[r] = "succeed" => held[r] = None
    <3>1. /\ at[r] = "execute" /\ performed' = performed \cup {r} /\ UNCHANGED held
          /\ at'[r] \in {IF held[r] = None THEN "succeed" ELSE "settle", "void_price"}
      BY <1>2, <1>3, Zenon DEF ExecuteOk, Inside
    <3>2. QED
      BY <3>1
  <2>2. QED
    BY <2>1 DEF ExecutionMove
<1>4. CASE ExecuteProblem(r)
  <2>1. /\ at[r] = "execute" /\ UNCHANGED held
        /\ at'[r] = IF held[r] = None THEN "fail" ELSE "void"
        /\ \/ UNCHANGED performed
           \/ ProviderUncertain /\ performed' = performed \cup {r}
    BY <1>2, <1>4, Zenon DEF ExecuteProblem, Inside
  <2>2. QED
    BY <2>1 DEF ExecutionMove
<1>5. CASE Void(r)
  <2>1. /\ at[r] = "void" /\ UNCHANGED <<performed, held>>
        /\ at'[r] = "mark_void_pending" \/ (at'[r] = "fail" /\ ReleaseHold(held[r]))
    BY <1>2, <1>5, Zenon DEF Void, Inside
  <2>2. QED
    BY <2>1 DEF ExecutionMove
<1>6. CASE SettleOk(r)
  <2>1. at[r] = "settle" /\ at'[r] = "bind" /\ UNCHANGED performed
    BY <1>2, <1>6, Zenon DEF SettleOk, Inside
  <2>2. QED
    BY <2>1 DEF ExecutionMove
<1>7. CASE \/ VoidPending(r) \/ Fail(r) \/ Dispute(r)
           \/ SettlePending(r) \/ Bind(r) \/ Succeed(r) \/ Attach(r)
  <2>1. UNCHANGED <<performed, held>>
    BY <1>7, TransitionControl, TransitionsMove
  <2>2. CASE Bind(r)
    <3>1. at[r] = "bind" /\ at'[r] \in {"succeed", "return"}
      BY <1>2, <2>2, Zenon DEF Bind, Transition, Inside, Decide
    <3>2. QED
      BY <2>1, <3>1 DEF ExecutionMove
  <2>3. CASE VoidPending(r) \/ Fail(r) \/ Dispute(r) \/ SettlePending(r) \/ Succeed(r) \/ Attach(r)
    <3>1. /\ at[r] \in {"mark_void_pending", "fail", "mark_disputed", "mark_disputed_voided",
                        "mark_settlement_pending", "succeed", "attach"}
          /\ at'[r] \in {"void_pending", "failed", "disputed", "settlement_pending",
                         "succeeded", "issue", "return"}
      BY <1>2, <2>3, AttachShape, Zenon
      DEF VoidPending, Fail, Dispute, SettlePending, Succeed, Transition, Inside, Decide
    <3>2. at[r] \in {"failed", "anchor", "attach", "issue"} => at[r] = "attach"
      BY <3>1
    <3>3. at[r] = "attach" => at'[r] \in {"issue", "return"}
      <4>1. ASSUME NEW from \in TransitionCalls, NEW to, NEW events, NEW new,
                   Transition(r, from, to, events, new)
            PROVE  at[r] # "attach"
        BY <4>1, TransitionShapeAt DEF TransitionCalls
      <4>2. /\ "mark_void_pending" \in TransitionCalls /\ "fail" \in TransitionCalls
            /\ "mark_disputed" \in TransitionCalls /\ "mark_disputed_voided" \in TransitionCalls
            /\ "mark_settlement_pending" \in TransitionCalls /\ "succeed" \in TransitionCalls
        BY DEF TransitionCalls
      <4>3. VoidPending(r) \/ Fail(r) \/ Dispute(r) \/ SettlePending(r) \/ Succeed(r)
            => at[r] # "attach"
        BY <4>1, <4>2, Zenon DEF VoidPending, Fail, Dispute, SettlePending, Succeed
      <4>4. Attach(r) => at'[r] \in {"issue", "return"}
        BY <1>2, AttachShape, Zenon
      <4>5. QED
        BY <2>3, <4>3, <4>4
    <3>4. QED
      BY <2>1, <3>1, <3>2, <3>3 DEF ExecutionMove
  <2>4. QED
    BY <1>7, <2>2, <2>3
<1>8. CASE ReserveFree(r) \/ ReserveOk(r)
  <2>1. at[r] = "reserve" /\ at'[r] = "put" /\ UNCHANGED performed
    BY <1>2, <1>8, Zenon DEF ReserveFree, ReserveOk, Inside
  <2>2. QED
    BY <2>1 DEF ExecutionMove
<1>9. CASE \/ ValidateOk(r) \/ ValidateRefuses(r) \/ ReserveRefused(r) \/ ReserveUnknown(r)
           \/ PutTask(r) \/ PutTaskFails(r) \/ StartOk(r) \/ StartFails(r) \/ Abandon(r)
           \/ VoidPrice(r) \/ SettleFails(r) \/ Report(r)
  <2>1. /\ UNCHANGED performed
        /\ at[r] \in {"validate", "reserve", "put", "start", "abandon", "void_price", "settle",
                      "void_pending", "disputed", "settlement_pending"}
        /\ \/ at'[r] \in {"reserve", "return", "abandon", "mark_disputed_voided",
                           "mark_disputed", "mark_settlement_pending"}
           \/ at[r] \in {"put", "start"} /\ at'[r] \in {"start", "execute"}
    BY <1>2, <1>9, Zenon
    DEF Inside, Decide, ValidateOk, ValidateRefuses, ReserveRefused, ReserveUnknown, PutTask,
        PutTaskFails, StartOk, StartFails, Abandon, VoidPrice, SettleFails, Report
  <2>2. QED
    BY <2>1 DEF ExecutionMove
<1>10. CASE Close(r) \/ Anchor(r) \/ Issue(r)
  <2>1. /\ UNCHANGED <<performed, held>>
        /\ at'[r] \in {"anchor", "attach", "return"}
    BY <1>2, <1>10, Zenon DEF Inside, Decide, Close, Anchor, Issue
  <2>2. QED
    BY <2>1 DEF ExecutionMove
<1>11. QED
  BY <1>3, <1>4, <1>5, <1>6, <1>7, <1>8, <1>9, <1>10 DEF CommitStep

(* The settlement Bind reads.                                              *)
BoundSettlement(r) == settleByKey[held[r]][Commit[r].key]

(* What a step of commit r does to the money and the state on its record.  *)
Rewritten(r) ==
  /\ at[r] \in Recorded
  /\ task'[r] # NoTask
  /\ task'[r].hold = task[r].hold
  /\ \/ /\ at[r] = "bind"
        /\ task'[r].state = task[r].state
        /\ task'[r].settlement = BoundSettlement(r)
        /\ task'[r].amount = settled[BoundSettlement(r)]
     \/ /\ task'[r].settlement = task[r].settlement
        /\ task'[r].amount = task[r].amount
        /\ \/ task'[r].state = task[r].state
           \/ task'[r].state = "succeeded" /\ at[r] = "succeed"
           \/ task'[r].state = "failed" /\ at[r] = "fail" /\ at'[r] \in {"failed", "return"}
           \/ task'[r].state \in {"running", "waiting_input", "disputed"}

TaskMove(r) ==
  /\ \A x \in Commits \ {r} : task'[x] = task[x]
  /\ \/ task'[r] = task[r]
     \/ at[r] = "put" /\ task'[r] = Accepted(r)
     \/ Rewritten(r)
  /\ at'[r] \in Recorded =>
       at[r] \in Recorded \/ (at[r] = "put" /\ task'[r] = Accepted(r))
  /\ at[r] = "bind" /\ at'[r] = "succeed" => task'[r].settlement = BoundSettlement(r)

(* UpdateTask changes one record, to one with a version.                   *)
LEMMA WrittenFields ==
  ASSUME task \in [Commits -> Tasks], NEW t \in Commits, NEW new \in Tasks
  PROVE  /\ \A x \in Commits \ {t} : Written(t, new)[x] = task[x]
         /\ Written(t, new)[t] # NoTask
         /\ Written(t, new)[t].state = new.state
         /\ Written(t, new)[t].bill = new.bill
         /\ Written(t, new)[t].hold = new.hold
         /\ Written(t, new)[t].settlement = new.settlement
         /\ Written(t, new)[t].amount = new.amount
<1> DEFINE w == [new EXCEPT !.version = @ + 1]
<1>1. /\ Written(t, new)[t] = w
      /\ \A x \in Commits \ {t} : Written(t, new)[x] = task[x]
  BY DEF Written
<1>2. /\ w.version = new.version + 1
      /\ w.state = new.state /\ w.bill = new.bill /\ w.hold = new.hold
      /\ w.settlement = new.settlement /\ w.amount = new.amount
  BY DEF Tasks
<1>3. new.version \in Nat /\ NoTask.version = 0
  BY DEF Tasks, NoTask
<1> HIDE DEF w
<1>4. w # NoTask
  BY <1>2, <1>3
<1>5. QED
  BY <1>1, <1>2, <1>4

(* Where a transition leads, and what it writes.                           *)
LEMMA TransitionGives ==
  ASSUME DataTypeOK, ControlTypeOK, NEW r \in Commits, NEW from, NEW to, NEW events,
         NEW new, Transition(r, from, to, events, new)
  PROVE  /\ at[r] = from
         /\ task' = Written(r, new) \/ (task' = task /\ at'[r] = "return")
         /\ at'[r] \in {to, "return"}
<1>1. r \in Requests
  BY QuoteType
<1>2. ASSUME NEW there, at' = [at EXCEPT ![r] = there] PROVE at'[r] = there
  BY <1>1, <1>2 DEF ControlTypeOK
<1>3. QED
  BY <1>2, Zenon DEF Transition, Inside, Decide, Store, StoreFails, StoreErrs

(* A change of the state, the bill or the receipt keeps the money.         *)
LEMMA KeepsMoney ==
  ASSUME NEW t \in Tasks, NEW state, NEW bill, NEW receipt
  PROVE  /\ [t EXCEPT !.state = state].state = state
         /\ [t EXCEPT !.state = state].hold = t.hold
         /\ [t EXCEPT !.state = state].settlement = t.settlement
         /\ [t EXCEPT !.state = state].amount = t.amount
         /\ [t EXCEPT !.state = state, !.bill = bill].state = state
         /\ [t EXCEPT !.state = state, !.bill = bill].hold = t.hold
         /\ [t EXCEPT !.state = state, !.bill = bill].settlement = t.settlement
         /\ [t EXCEPT !.state = state, !.bill = bill].amount = t.amount
         /\ [t EXCEPT !.receipt = receipt].state = t.state
         /\ [t EXCEPT !.receipt = receipt].hold = t.hold
         /\ [t EXCEPT !.receipt = receipt].settlement = t.settlement
         /\ [t EXCEPT !.receipt = receipt].amount = t.amount
  BY DEF Tasks

(* A write of a record that keeps the money and sets a state of its call.  *)
LEMMA RewriteOf ==
  ASSUME DataTypeOK, NEW r \in Commits, NEW new \in Tasks, at[r] \in Recorded,
         task' = Written(r, new),
         new.hold = task[r].hold, new.settlement = task[r].settlement,
         new.amount = task[r].amount,
         \/ new.state = task[r].state
         \/ new.state = "succeeded" /\ at[r] = "succeed"
         \/ new.state = "failed" /\ at[r] = "fail" /\ at'[r] \in {"failed", "return"}
         \/ new.state \in {"running", "waiting_input", "disputed"}
  PROVE  Rewritten(r) /\ \A x \in Commits \ {r} : task'[x] = task[x]
<1>1. task \in [Commits -> Tasks]
  BY DEF DataTypeOK
<1>2. /\ \A x \in Commits \ {r} : task'[x] = task[x]
      /\ task'[r] # NoTask
      /\ task'[r].state = new.state
      /\ task'[r].hold = new.hold
      /\ task'[r].settlement = new.settlement
      /\ task'[r].amount = new.amount
  BY <1>1, WrittenFields
<1>3. QED
  BY <1>2 DEF Rewritten

(* A transition that sets the state, and perhaps the bill, is such a write. *)
LEMMA StateTransition ==
  ASSUME DataTypeOK, ControlTypeOK, NEW r \in Commits, NEW from \in Recorded, from # "bind",
         NEW to \in CommitCalls, NEW events, NEW state \in TaskStates, NEW new,
         \/ new = [task[r] EXCEPT !.state = state]
         \/ \E bill \in BillStates : new = [task[r] EXCEPT !.state = state, !.bill = bill],
         \/ state = "succeeded" /\ from = "succeed"
         \/ state = "failed" /\ from = "fail" /\ to = "failed"
         \/ state \in {"running", "waiting_input", "disputed"},
         Transition(r, from, to, events, new)
  PROVE  TaskMove(r)
<1>1. /\ at[r] = from
      /\ task' = Written(r, new) \/ (task' = task /\ at'[r] = "return")
      /\ at'[r] \in {to, "return"}
  BY TransitionGives
<1>2. task[r] \in Tasks
  BY DEF DataTypeOK
<1>3. /\ new \in Tasks
      /\ new.state = state
      /\ new.hold = task[r].hold
      /\ new.settlement = task[r].settlement
      /\ new.amount = task[r].amount
  <2>1. CASE new = [task[r] EXCEPT !.state = state]
    <3>1. [task[r] EXCEPT !.state = state] \in Tasks
      <4>1. "none" \in BillStates
        BY DEF BillStates
      <4>2. QED
        BY <1>2, <4>1, ChangedTask
    <3>2. QED
      BY <1>2, <2>1, <3>1, KeepsMoney, Zenon
  <2>2. CASE \E bill \in BillStates : new = [task[r] EXCEPT !.state = state, !.bill = bill]
    <3>1. PICK bill \in BillStates : new = [task[r] EXCEPT !.state = state, !.bill = bill]
      BY <2>2
    <3> DEFINE w == [task[r] EXCEPT !.state = state, !.bill = bill]
    <3>2. w \in Tasks
      BY <1>2, ChangedTask, Zenon
    <3>3. w.state = state
      BY <1>2 DEF Tasks
    <3>4. w.hold = task[r].hold
      BY <1>2 DEF Tasks
    <3>5. w.settlement = task[r].settlement
      BY <1>2 DEF Tasks
    <3>6. w.amount = task[r].amount
      BY <1>2 DEF Tasks
    <3>7. new = w
      BY <3>1, Zenon
    <3> HIDE DEF w
    <3>8. QED
      BY <3>2, <3>3, <3>4, <3>5, <3>6, <3>7, Zenon
  <2>3. QED
    BY <2>1, <2>2
<1>4. CASE task' = task /\ at'[r] = "return"
  BY <1>1, <1>4 DEF TaskMove, Recorded, Later
<1>5. CASE task' = Written(r, new)
  <2>1. Rewritten(r) /\ \A x \in Commits \ {r} : task'[x] = task[x]
    BY <1>1, <1>3, <1>5, RewriteOf
  <2>2. QED
    BY <1>1, <2>1 DEF TaskMove
<1>6. QED
  BY <1>1, <1>4, <1>5

(* Bind writes what Settle answered.                                       *)
LEMMA BindMoves ==
  ASSUME BillTypeOK, DataTypeOK, ControlTypeOK, OperandsKnown, NEW r \in Commits, Bind(r)
  PROVE  TaskMove(r)
<1> DEFINE s == BoundSettlement(r)
           new == [task[r] EXCEPT !.settlement = s, !.amount = settled[s], !.bill = "settled"]
<1>1. Transition(r, "bind", "succeed", <<>>, new)
  BY Zenon DEF Bind, BoundSettlement
<1>2. /\ at[r] = "bind"
      /\ task' = Written(r, new) \/ (task' = task /\ at'[r] = "return")
      /\ at'[r] \in {"succeed", "return"}
  <2> HIDE DEF new
  <2>1. QED
    BY <1>1, TransitionGives
<1>3. task[r] \in Tasks /\ task \in [Commits -> Tasks]
  BY DEF DataTypeOK
<1>4. new \in Tasks
  <2>1. s \in SettleRefs
    BY <1>2 DEF OperandsKnown, BoundSettlement
  <2>2. settled[s] \in Amounts \cup {NoAmount}
    BY <2>1 DEF BillTypeOK
  <2> HIDE DEF s
  <2>3. QED
    BY <1>3, <2>1, <2>2, BoundTask
<1>5. new.hold = task[r].hold /\ new.state = task[r].state /\ new.settlement = s
      /\ new.amount = settled[s]
  <2> HIDE DEF s
  <2>1. QED
    BY <1>3 DEF Tasks
<1> HIDE DEF new
<1>6. CASE task' = task /\ at'[r] = "return"
  BY <1>2, <1>6 DEF TaskMove, Recorded, Later
<1>7. CASE task' = Written(r, new)
  <2>1. /\ \A x \in Commits \ {r} : task'[x] = task[x]
        /\ task'[r] # NoTask
        /\ task'[r].state = new.state
        /\ task'[r].hold = new.hold
        /\ task'[r].settlement = new.settlement
        /\ task'[r].amount = new.amount
    BY <1>3, <1>4, <1>7, WrittenFields
  <2>2. at[r] \in Recorded
    BY <1>2 DEF Recorded, Later, CommitCalls
  <2>3. Rewritten(r)
    BY <1>2, <1>5, <2>1, <2>2 DEF Rewritten
  <2>4. QED
    BY <1>2, <1>5, <2>1, <2>2, <2>3 DEF TaskMove
<1>8. QED
  BY <1>2, <1>6, <1>7

(* Every step of a commit is such a change of its own record.              *)
LEMMA CommitTaskMoves ==
  ASSUME BillTypeOK, DataTypeOK, ControlTypeOK, OperandsKnown, NEW r \in Commits, CommitStep(r)
  PROVE  TaskMove(r)
<1>1. r \in Requests /\ task[r] \in Tasks /\ task \in [Commits -> Tasks]
  BY QuoteType DEF DataTypeOK
<1>2. ASSUME NEW to, at' = [at EXCEPT ![r] = to] PROVE at'[r] = to
  BY <1>1, <1>2 DEF ControlTypeOK
<1>3. /\ {"running", "waiting_input", "disputed", "failed", "succeeded"} \subseteq TaskStates
      /\ "voided" \in BillStates
  BY DEF TaskStates, BillStates, Terminal
<1>4. /\ {"mark_void_pending", "fail", "mark_disputed", "mark_disputed_voided",
           "mark_settlement_pending", "succeed"} \subseteq Recorded
      /\ {"void_pending", "failed", "disputed", "settlement_pending", "succeeded"}
         \subseteq CommitCalls
  BY DEF Recorded, Later, CommitCalls
<1>5. CASE VoidPending(r)
  BY <1>3, <1>4, <1>5, StateTransition DEF VoidPending
<1>6. CASE Fail(r)
  BY <1>3, <1>4, <1>6, StateTransition DEF Fail
<1>7. CASE Dispute(r)
  <2>1. CASE Transition(r, "mark_disputed", "disputed", <<>>,
                        [task[r] EXCEPT !.state = "disputed"])
    BY <1>3, <1>4, <2>1, StateTransition
  <2>2. CASE Transition(r, "mark_disputed_voided", "disputed", <<>>,
                        [task[r] EXCEPT !.state = "disputed", !.bill = "voided"])
    BY <1>3, <1>4, <2>2, StateTransition
  <2>3. QED
    BY <1>7, <2>1, <2>2 DEF Dispute
<1>8. CASE SettlePending(r)
  BY <1>3, <1>4, <1>8, StateTransition DEF SettlePending
<1>9. CASE Succeed(r)
  <2> DEFINE events == IF held[r] = None THEN <<>> ELSE <<Event("settled")>>
  <2>1. Transition(r, "succeed", "succeeded", events, [task[r] EXCEPT !.state = "succeeded"])
    BY <1>9, Zenon DEF Succeed
  <2> HIDE DEF events
  <2>2. QED
    BY <1>3, <1>4, <2>1, StateTransition
<1>10. CASE Bind(r)
  BY <1>10, BindMoves
<1>11. CASE PutTask(r) \/ PutTaskFails(r)
  <2>1. /\ at[r] = "put"
        /\ \/ task' = [task EXCEPT ![r] = Accepted(r)]
           \/ task' = task /\ at'[r] = "abandon"
    BY <1>2, <1>11, Zenon DEF PutTask, PutTaskFails, Inside
  <2>2. /\ \A x \in Commits \ {r} : task'[x] = task[x]
        /\ task'[r] = Accepted(r) \/ (task' = task /\ at'[r] = "abandon")
    BY <1>1, <2>1
  <2>3. QED
    BY <2>1, <2>2 DEF TaskMove, Recorded
<1>12. CASE StartOk(r) \/ StartFails(r)
  <2> DEFINE new == [task[r] EXCEPT !.state = "running"]
  <2>1. at[r] = "start" /\ at[r] \in Recorded
    BY <1>12, Zenon DEF StartOk, StartFails, Inside, Recorded, Later, CommitCalls
  <2>2. task' = Written(r, new) \/ task' = task
    BY <1>12, Zenon DEF StartOk, StartFails, Store, StoreFails, StoreErrs
  <2>3. /\ new \in Tasks /\ new.state = "running" /\ new.hold = task[r].hold
        /\ new.settlement = task[r].settlement /\ new.amount = task[r].amount
    <3>1. "none" \in BillStates
      BY DEF BillStates
    <3>2. QED
      BY <1>1, <1>3, <3>1, ChangedTask, KeepsMoney
  <2> HIDE DEF new
  <2>4. CASE task' = task
    BY <2>1, <2>4 DEF TaskMove
  <2>5. CASE task' = Written(r, new)
    <3>1. Rewritten(r) /\ \A x \in Commits \ {r} : task'[x] = task[x]
      BY <2>1, <2>3, <2>5, RewriteOf
    <3>2. QED
      BY <2>1, <3>1 DEF TaskMove
  <2>6. QED
    BY <2>2, <2>4, <2>5
<1>13. CASE Attach(r)
  <2> DEFINE new == [task[r] EXCEPT !.receipt = Receipt(r)]
  <2>1. at[r] = "attach" /\ at[r] \in Recorded
    BY <1>13, AttachShape DEF Recorded, Later, CommitCalls
  <2>2. task' = Written(r, new) \/ task' = task
    BY <1>13, Zenon DEF Attach, Store, StoreErrs
  <2>3. new.state = task[r].state /\ new.hold = task[r].hold
        /\ new.settlement = task[r].settlement /\ new.amount = task[r].amount
    BY <1>1, KeepsMoney
  <2>4. new \in Tasks
    <3>1. Receipt(r) \in Receipts
      BY <1>1 DEF Receipt, Receipts, DataTypeOK, Tasks
    <3>2. QED
      BY <1>1, <3>1, ReceiptedTask
  <2> HIDE DEF new
  <2>5. CASE task' = task
    BY <2>1, <2>5 DEF TaskMove
  <2>6. CASE task' = Written(r, new)
    <3>1. Rewritten(r) /\ \A x \in Commits \ {r} : task'[x] = task[x]
      BY <2>1, <2>3, <2>4, <2>6, RewriteOf
    <3>2. QED
      BY <2>1, <3>1 DEF TaskMove
  <2>7. QED
    BY <2>2, <2>5, <2>6
<1>14. CASE \/ ValidateOk(r) \/ ValidateRefuses(r) \/ ReserveFree(r) \/ ReserveOk(r)
            \/ ReserveRefused(r) \/ ReserveUnknown(r) \/ Abandon(r)
            \/ ExecuteOk(r) \/ ExecuteProblem(r) \/ Void(r) \/ VoidPrice(r)
            \/ SettleOk(r) \/ SettleFails(r) \/ Report(r) \/ Close(r) \/ Anchor(r) \/ Issue(r)
  <2>1. task' = task /\ at[r] # "bind"
        /\ (at'[r] \in {"reserve", "put", "return"} \/ at[r] \in Recorded)
    <3>1. /\ task' = task
          /\ \/ at'[r] \in {"reserve", "put", "return"} /\ at[r] # "bind"
             \/ at[r] \in {"execute", "void", "void_price", "settle", "succeeded", "failed",
                           "anchor"}
      BY <1>2, <1>14, Zenon
      DEF ValidateOk, ValidateRefuses, ReserveFree, ReserveOk, ReserveRefused,
          ReserveUnknown, Abandon, ExecuteOk, ExecuteProblem, Void, VoidPrice, SettleOk,
          SettleFails, Report, Close, Anchor, Issue, Inside, Decide
    <3>2. QED
      BY <3>1 DEF Recorded, Later, CommitCalls
  <2>2. QED
    BY <2>1 DEF TaskMove, Recorded, Later
<1>15. QED
  BY <1>5, <1>6, <1>7, <1>8, <1>9, <1>10, <1>11, <1>12, <1>13, <1>14 DEF CommitStep

-----------------------------------------------------------------------------
(* What a step leaves alone                                                *)

(* A commit another request's step does not touch, unless it is a cancel   *)
(* that writes "cancelled" on its record.                                  *)
LeftAlone(x) ==
  /\ at'[x] = at[x] /\ result'[x] = result[x] /\ effectAt'[x] = effectAt[x]
  /\ held'[x] = held[x] /\ hold'[x] = hold[x]
  /\ x \in performed' <=> x \in performed
  /\ pc'[x] = "sent" => pc[x] = "sent"
  /\ \/ task'[x] = task[x]
     \/ /\ task[x] # NoTask /\ task'[x] # NoTask
        /\ task'[x].state = "cancelled"
        /\ task'[x].hold = task[x].hold
        /\ task'[x].settlement = task[x].settlement
        /\ task'[x].amount = task[x].amount

(* The handler's own steps, and the clock's.                               *)
HandlerOnly ==
  \/ \E r \in Requests : Claims(r) \/ OperationReturns(r) \/ OperationPanics(r) \/ Disposes(r)
  \/ ClockTicks
  \/ UNCHANGED allVars

(* They change nothing an operation reads or writes.                       *)
LEMMA HandlerStays ==
  ASSUME HandlerOnly
  PROVE  UNCHANGED <<billVars, opVars, effectAt, key>>
<1>1. CASE \E r \in Requests : Claims(r) \/ OperationReturns(r) \/ OperationPanics(r) \/ Disposes(r)
  BY <1>1, Zenon
  DEF Claims, ClaimNew, ClaimReplay, ClaimConflict, ClaimInProgress, ClaimUnavailable,
      OperationReturns, OperationPanics, Panic, Disposes, ReleaseClaim, ReleaseClaimFails,
      CompleteClaim, CompleteClaimFails
<1>2. CASE ClockTicks \/ UNCHANGED allVars
  BY <1>2 DEF ClockTicks, Pass, handlerVars, allVars, vars
<1>3. QED
  BY <1>1, <1>2 DEF HandlerOnly

(* They touch no commit.                                                   *)
LEMMA HandlerKeeps ==
  ASSUME TypeOK, NEW x \in Commits, HandlerOnly
  PROVE  LeftAlone(x) /\ (pc'[x] = "running" => pc[x] \in {"sent", "running"})
<1>1. UNCHANGED <<billVars, opVars, effectAt, key>>
  BY HandlerStays
<1>2. /\ pc'[x] = "sent" => pc[x] = "sent"
      /\ pc'[x] = "running" => pc[x] \in {"sent", "running"}
  <2>1. CASE \E r \in Requests : Claims(r) \/ OperationReturns(r) \/ OperationPanics(r) \/ Disposes(r)
    <3>1. \E r \in Requests : \/ Goto(r, "sent", "running") \/ Goto(r, "sent", "done")
                               \/ Goto(r, "running", "returned") \/ Goto(r, "running", "done")
                               \/ Goto(r, "returned", "done")
      BY <2>1, Zenon
      DEF Claims, ClaimNew, ClaimReplay, ClaimConflict, ClaimInProgress, ClaimUnavailable,
          OperationReturns, OperationPanics, Panic, Disposes, ReleaseClaim,
          ReleaseClaimFails, CompleteClaim, CompleteClaimFails
    <3>2. QED
      BY <3>1, QuoteType DEF Goto, TypeOK
  <2>2. CASE ClockTicks \/ UNCHANGED allVars
    BY <2>2 DEF ClockTicks, Pass, handlerVars, allVars, vars
  <2>3. QED
    BY <2>1, <2>2 DEF HandlerOnly
<1>3. QED
  BY <1>1, <1>2 DEF LeftAlone, opVars, billVars

(* A step of a request is no one else's effect, answer or next call.       *)
LEMMA OthersStay ==
  ASSUME TypeOK, ControlTypeOK, DataTypeOK, NEW r \in Requests, CommitStep(r) \/ CancelStep(r),
         NEW x \in Requests, x # r
  PROVE  at'[x] = at[x] /\ result'[x] = result[x] /\ effectAt'[x] = effectAt[x]
<1>1. at'[x] = at[x]
  BY OwnLocals
<1>2. effectAt'[x] = effectAt[x]
  BY InsideShape DEF Cross, TypeOK
<1>3. UNCHANGED result \/ \E res : result' = [result EXCEPT ![r] = res]
  <2>1. CASE CommitStep(r)
    BY <2>1, Zenon
    DEF CommitStep, VoidPending, Fail, Dispute, SettlePending, Bind, Succeed, Transition,
        PutTask, StartOk, StartFails, Attach, ValidateOk, ValidateRefuses, ReserveFree,
        ReserveOk, ReserveRefused, ReserveUnknown, PutTaskFails, Abandon, ExecuteOk,
        ExecuteProblem, Void, VoidPrice, SettleOk, SettleFails, Report, Close, Anchor,
        Issue, Decide
  <2>2. CASE CancelStep(r)
    BY <2>2, Zenon DEF CancelStep, ReadRecord, ReadRefuses, CloneBilling,
       CloneRefuses, CancelReleases, CancelUpdates, CancelReports, Decide
  <2>3. QED
    BY <2>1, <2>2
<1>4. QED
  BY <1>1, <1>2, <1>3 DEF ControlTypeOK

(* A commit makes no hold but its own.                                     *)
LEMMA OwnHold ==
  ASSUME BillTypeOK, NEW r \in Commits, BillMove(r), NEW x \in Commits, x # r
  PROVE  hold'[x] = hold[x]
<1>1. ASSUME NEW h \in Holds, Reserves(r, h) PROVE hold'[x] = hold[x]
  <2>1. UNCHANGED hold \/ \E a : hold' = [hold EXCEPT ![r] = a]
    BY <1>1, Zenon DEF Reserves, ReserveExisting, ReserveNew, billVars
  <2>2. QED
    BY <2>1, QuoteType DEF BillTypeOK
<1>2. ASSUME NEW s \in SettleRefs, Settles(r, s) PROVE hold' = hold
  BY <1>2, Zenon DEF Settles, SettleExisting, SettleNew
<1>3. QED
  BY <1>1, <1>2 DEF BillMove, ReleaseHold, billVars

(* So it touches no other commit.                                          *)
LEMMA CommitKeepsOthers ==
  ASSUME CommitInv, NEW r \in Commits, CommitStep(r), NEW x \in Commits, x # r
  PROVE  LeftAlone(x)
<1>1. TypeOK /\ BillTypeOK /\ ControlTypeOK /\ DataTypeOK /\ OperandsKnown
  BY OperationTypeParts DEF CommitInv, CommitTypeOK
<1>2. r \in Requests /\ x \in Requests
  BY QuoteType
<1>3. /\ at'[x] = at[x] /\ result'[x] = result[x] /\ effectAt'[x] = effectAt[x]
      /\ held'[x] = held[x]
  BY <1>1, <1>2, OthersStay, OwnLocals
<1>4. hold'[x] = hold[x]
  BY <1>1, CommitBillMoves, OwnHold
<1>5. x \in performed' <=> x \in performed
  BY <1>1, CommitExecutes DEF ExecutionMove
<1>6. task'[x] = task[x]
  BY <1>1, CommitTaskMoves DEF TaskMove
<1>7. UNCHANGED pc
  BY <1>2, InsideShape
<1>8. QED
  BY <1>3, <1>4, <1>5, <1>6, <1>7 DEF LeftAlone

(* What a cancel may do with processor and record.                         *)
CancelMove(x) ==
  /\ UNCHANGED <<performed, held>>
  /\ UNCHANGED billVars \/ (snap[x].hold \in Holds /\ ReleaseHold(snap[x].hold))
  /\ task' = task \/ (at[x] = "cancel" /\ task' = Written(TaskOf(x), Cancelled(TaskOf(x))))
  /\ at'[x] \notin {"read", "return"} =>
       at[x] \notin {"read", "return"} \/ task[TaskOf(x)] # NoTask

(* Each of its steps is such a move.                                       *)
LEMMA CancelMoves ==
  ASSUME ControlTypeOK, OperandsKnown, NEW x \in Cancels, CancelStep(x)
  PROVE  CancelMove(x)
<1>1. x \in Requests
  BY CommitConstants
<1>2. ASSUME NEW to, at' = [at EXCEPT ![x] = to] PROVE at'[x] = to
  BY <1>1, <1>2 DEF ControlTypeOK
<1>3. CASE ReadRecord(x)
  <2>1. task[TaskOf(x)] # NoTask /\ UNCHANGED <<performed, held, billVars, task>>
    BY <1>3, Zenon DEF ReadRecord
  <2>2. QED
    BY <2>1 DEF CancelMove
<1>4. CASE ReadRefuses(x) \/ CloneBilling(x) \/ CloneRefuses(x) \/ CancelReports(x)
  <2>1. /\ UNCHANGED <<performed, held, billVars, task>>
        /\ at[x] \in {"clone", "report"} \/ at'[x] = "return"
    BY <1>2, <1>4, Zenon
    DEF ReadRefuses, CloneBilling, CloneRefuses, CancelReports, Inside, Decide
  <2>2. QED
    BY <2>1 DEF CancelMove
<1>5. CASE CancelReleases(x)
  <2>1. at[x] = "release" /\ UNCHANGED <<performed, held, task>>
    BY <1>5, Zenon DEF CancelReleases, Inside, Decide
  <2>2. snap[x].hold \in Holds
    BY <2>1 DEF OperandsKnown
  <2>3. UNCHANGED billVars \/ ReleaseHold(snap[x].hold)
    BY <1>5, Zenon DEF CancelReleases, VoidFails, ReleaseHoldRefused
  <2>4. QED
    BY <2>1, <2>2, <2>3 DEF CancelMove
<1>6. CASE CancelUpdates(x)
  <2>1. /\ at[x] = "cancel" /\ UNCHANGED <<performed, held, billVars>>
        /\ task' = task \/ task' = Written(TaskOf(x), Cancelled(TaskOf(x)))
    BY <1>6, Zenon DEF CancelUpdates, Inside, Decide, Store, StoreFails, StoreErrs
  <2>2. QED
    BY <2>1 DEF CancelMove
<1>7. QED
  BY <1>3, <1>4, <1>5, <1>6 DEF CancelStep

(* It touches a commit only to write "cancelled" on a task it has read.    *)
LEMMA CancelKeeps ==
  ASSUME CommitInv, CancelsKnowTheirTask, NEW x \in Cancels, CancelStep(x), NEW r \in Commits
  PROVE  LeftAlone(r)
<1>1. TypeOK /\ BillTypeOK /\ ControlTypeOK /\ DataTypeOK /\ OperandsKnown
  BY OperationTypeParts DEF CommitInv, CommitTypeOK
<1>2. x \in Requests /\ r \in Requests /\ x # r
  BY CommitConstants
<1>3. /\ at'[r] = at[r] /\ result'[r] = result[r] /\ effectAt'[r] = effectAt[r]
      /\ UNCHANGED pc
  BY <1>1, <1>2, OthersStay, InsideShape
<1>4. CancelMove(x)
  BY <1>1, CancelMoves
<1>5. UNCHANGED <<performed, held, hold>>
  BY <1>4 DEF CancelMove, ReleaseHold, billVars
<1>6. CASE task' = task
  BY <1>3, <1>5, <1>6 DEF LeftAlone
<1>7. CASE at[x] = "cancel" /\ task' = Written(TaskOf(x), Cancelled(TaskOf(x)))
  <2> DEFINE t == TaskOf(x)
             new == Cancelled(t)
  <2>1. t \in Commits /\ task \in [Commits -> Tasks] /\ task[t] \in Tasks
    BY <1>1, CommitConstants DEF DataTypeOK, TaskOf
  <2>2. task[t] # NoTask
    BY <1>7 DEF CancelsKnowTheirTask
  <2> HIDE DEF t
  <2>3. /\ new \in Tasks /\ new.state = "cancelled" /\ new.hold = task[t].hold
        /\ new.settlement = task[t].settlement /\ new.amount = task[t].amount
    <3> DEFINE bill == IF Unsettled(task[t]) THEN "released" ELSE task[t].bill
    <3>1. bill \in BillStates /\ "cancelled" \in TaskStates
      BY <2>1 DEF Tasks, BillStates, TaskStates, Terminal
    <3>2. new = [task[t] EXCEPT !.state = "cancelled", !.bill = bill]
      BY <2>1 DEF Cancelled, Tasks
    <3> HIDE DEF bill, new
    <3>3. [task[t] EXCEPT !.state = "cancelled", !.bill = bill] \in Tasks
      BY <2>1, <3>1, ChangedTask, Zenon
    <3>4. [task[t] EXCEPT !.state = "cancelled", !.bill = bill].state = "cancelled"
      BY <2>1 DEF Tasks
    <3>5. [task[t] EXCEPT !.state = "cancelled", !.bill = bill].hold = task[t].hold
      BY <2>1 DEF Tasks
    <3>6. [task[t] EXCEPT !.state = "cancelled", !.bill = bill].settlement = task[t].settlement
      BY <2>1 DEF Tasks
    <3>7. [task[t] EXCEPT !.state = "cancelled", !.bill = bill].amount = task[t].amount
      BY <2>1 DEF Tasks
    <3>8. QED
      BY <3>2, <3>3, <3>4, <3>5, <3>6, <3>7, Zenon
  <2>4. task' = Written(t, new)
    BY <1>7, Zenon DEF t
  <2> HIDE DEF new
  <2>5. /\ \A y \in Commits \ {t} : task'[y] = task[y]
        /\ task'[t] # NoTask
        /\ task'[t].state = new.state
        /\ task'[t].hold = new.hold
        /\ task'[t].settlement = new.settlement
        /\ task'[t].amount = new.amount
    BY <2>1, <2>3, <2>4, WrittenFields
  <2>6. QED
    BY <1>3, <1>5, <2>2, <2>3, <2>5 DEF LeftAlone
<1>8. QED
  BY <1>4, <1>6, <1>7 DEF CancelMove

-----------------------------------------------------------------------------
(* The invariant is inductive                                              *)

(* The hold of a commit and its settlement, if it has them, are of the     *)
(* processor.                                                              *)
LEMMA HeldTypes ==
  ASSUME CommitInv, NEW r \in Commits
  PROVE  /\ held[r] \in Holds \cup {None}
         /\ task[r].settlement \in SettleRefs \cup {None}
         /\ QuoteOf(r).ceiling \in Amounts
         /\ None \notin Holds /\ None \notin SettleRefs
  BY QuoteType, BillingConstants DEF CommitInv, CommitTypeOK, OperationTypeOK, Tasks

(* Facts about the money of a commit outlast the calls of others.          *)
LEMMA MoneyStays ==
  ASSUME CommitInv, BillInv, AnswersStand, NEW r \in Commits, TaskIsBilled(r)
  PROVE  /\ held[r] # None => hold'[held[r]] = QuoteOf(r).ceiling
         /\ task[r].settlement # None =>
              /\ settleByHold'[held[r]] = task[r].settlement
              /\ settled'[task[r].settlement] = task[r].amount
<1>1. /\ held[r] \in Holds \cup {None}
      /\ task[r].settlement \in SettleRefs \cup {None}
      /\ QuoteOf(r).ceiling \in Amounts
  BY HeldTypes
<1>2. held[r] # None => hold'[held[r]] = QuoteOf(r).ceiling
  BY <1>1 DEF TaskIsBilled, AnswersStand, Amounts, NoAmount
<1>3. ASSUME task[r].settlement # None
      PROVE  /\ settleByHold'[held[r]] = task[r].settlement
             /\ settled'[task[r].settlement] = task[r].amount
  <2>1. held[r] \in Holds /\ settleByHold[held[r]] = task[r].settlement
    BY <1>1, <1>3 DEF TaskIsBilled
  <2>2. settled[task[r].settlement] \in 0 .. hold[held[r]]
    BY <1>3, <2>1 DEF BillInv, OneSettlementPerHold
  <2>3. settled[task[r].settlement] # NoAmount
    BY <2>2 DEF NoAmount
  <2>4. QED
    BY <1>1, <1>3, <2>1, <2>3 DEF TaskIsBilled, AnswersStand
<1>4. QED
  BY <1>2, <1>3

(* A commit that is kept keeps its part of the invariant.                  *)
LEMMA StaysTrueIfLeftAlone ==
  ASSUME CommitInv, BillInv, AnswersStand, NEW r \in Commits, Outcome(r), LeftAlone(r)
  PROVE  /\ RefusalsAreTrue(r)' /\ EffectsAreDated(r)' /\ ExecutionIsKnown(r)'
         /\ TaskIsBilled(r)' /\ FailureIsClean(r)'
<1>1. RefusalsAreTrue(r)'
  BY DEF Outcome, LeftAlone, RefusalsAreTrue, NothingMade
<1>2. EffectsAreDated(r)'
  BY DEF Outcome, LeftAlone, EffectsAreDated
<1>3. ExecutionIsKnown(r)'
  BY DEF Outcome, LeftAlone, ExecutionIsKnown
<1>4. TaskIsBilled(r)'
  <2>1. TaskIsBilled(r)
    BY DEF Outcome
  <2>2. /\ held[r] # None => hold'[held[r]] = QuoteOf(r).ceiling
        /\ task[r].settlement # None =>
              /\ settleByHold'[held[r]] = task[r].settlement
              /\ settled'[task[r].settlement] = task[r].amount
    BY <2>1, MoneyStays
  <2>3. CASE task'[r] = task[r]
    BY <2>1, <2>2, <2>3 DEF LeftAlone, TaskIsBilled, QuoteOf
  <2>4. CASE /\ task[r] # NoTask /\ task'[r] # NoTask
             /\ task'[r].state = "cancelled"
             /\ task'[r].hold = task[r].hold
             /\ task'[r].settlement = task[r].settlement
             /\ task'[r].amount = task[r].amount
    BY <2>1, <2>2, <2>4 DEF LeftAlone, TaskIsBilled, QuoteOf
  <2>5. QED
    BY <2>3, <2>4 DEF LeftAlone
<1>5. FailureIsClean(r)'
  BY DEF Outcome, LeftAlone, FailureIsClean, AnswersStand
<1>6. QED
  BY <1>1, <1>2, <1>3, <1>4, <1>5

(* What Reserve answers is a hold of the quote's ceiling.                  *)
LEMMA ReserveGives ==
  ASSUME CommitInv, HoldsAreForCeilings, NEW r \in Commits, NEW h \in Holds, Reserves(r, h)
  PROVE  hold'[h] = QuoteOf(r).ceiling /\ HoldsAreForCeilings'
<1> DEFINE c == Commit[r]
<1>1. /\ c.quote \in Contracts /\ c.key \in BillKeys /\ c.auth \in Authorizations
      /\ QuoteOf(r).ceiling \in Amounts /\ QuoteOf(r) = Quote[c.quote] /\ r \in Holds
  BY CommitConstants, QuoteType DEF QuoteOf
<1>2. BillTypeOK
  BY DEF CommitInv, CommitTypeOK
<1> HIDE DEF c
<1>3. CASE ReserveExisting(c.quote, c.quote, c.key, c.auth, QuoteOf(r).ceiling, h)
  <2>1. UNCHANGED <<holdByKey, hold, mandateUse>>
    BY <1>3, Zenon DEF ReserveExisting, billVars
  <2>2. HoldsAreForCeilings'
    BY <2>1 DEF HoldsAreForCeilings
  <2>3. h # None
    BY BillingConstants
  <2>4. CASE holdByKey[c.quote][c.key] = h
    BY <1>1, <2>1, <2>2, <2>3, <2>4 DEF HoldsAreForCeilings
  <2>5. CASE SameUse(c.auth, c.quote, c.key) /\ mandateUse[c.auth.ref].hold = h
    <3>1. /\ c.auth.ref \in Mandates /\ mandateUse[c.auth.ref] # NoUse
          /\ mandateUse[c.auth.ref].binding = c.quote
      BY <1>1, <2>5 DEF SameUse, Consumed, Authorizations
    <3>2. QED
      BY <1>1, <2>1, <2>2, <2>5, <3>1 DEF HoldsAreForCeilings
  <2>6. QED
    BY <1>3, <2>4, <2>5, Zenon DEF ReserveExisting
<1>4. CASE h = r /\ ReserveNew(c.quote, c.quote, c.key, c.auth, QuoteOf(r).ceiling, h)
  <2> DEFINE use == [binding |-> c.quote, billKey |-> c.key, hold |-> h]
  <2>1. /\ hold[h] = NoAmount
        /\ hold' = [hold EXCEPT ![h] = QuoteOf(r).ceiling]
        /\ holdByKey' = [holdByKey EXCEPT ![c.quote][c.key] = h]
        /\ UNCHANGED mandateUse \/ mandateUse' = [mandateUse EXCEPT ![c.auth.ref] = use]
    BY <1>4, Zenon DEF ReserveNew
  <2>2. hold'[h] = QuoteOf(r).ceiling
    BY <1>2, <2>1 DEF BillTypeOK
  <2>3. \A d \in Contracts, k \in BillKeys :
          holdByKey'[d][k] # None => hold'[holdByKey'[d][k]] = Quote[d].ceiling
    <3> TAKE d \in Contracts, k \in BillKeys
    <3>1. CASE d = c.quote /\ k = c.key
      <4>1. holdByKey'[d][k] = h
        BY <1>1, <1>2, <2>1, <3>1 DEF BillTypeOK
      <4>2. QED
        BY <1>1, <2>2, <3>1, <4>1
    <3>2. CASE ~(d = c.quote /\ k = c.key)
      <4>1. holdByKey'[d][k] = holdByKey[d][k]
        BY <1>1, <1>2, <2>1, <3>2 DEF BillTypeOK
      <4>2. ASSUME holdByKey[d][k] # None PROVE hold'[holdByKey[d][k]] = Quote[d].ceiling
        <5>1. hold[holdByKey[d][k]] = Quote[d].ceiling /\ Quote[d].ceiling \in Amounts
          BY <4>2, CommitConstants DEF HoldsAreForCeilings
        <5>2. holdByKey[d][k] # h
          BY <2>1, <5>1 DEF Amounts, NoAmount
        <5>3. holdByKey[d][k] \in Holds
          BY <1>2, <4>2 DEF BillTypeOK
        <5>4. QED
          BY <1>2, <2>1, <5>1, <5>2, <5>3 DEF BillTypeOK
      <4>3. QED
        BY <4>1, <4>2
    <3>3. QED
      BY <3>1, <3>2
  <2>4. \A m \in Mandates : mandateUse'[m] # NoUse =>
          /\ mandateUse'[m].binding \in Contracts
          /\ mandateUse'[m].hold \in Holds
          /\ hold'[mandateUse'[m].hold] = Quote[mandateUse'[m].binding].ceiling
    <3> TAKE m \in Mandates
    <3>1. use.hold = h /\ use.binding = c.quote
      OBVIOUS
    <3> HIDE DEF use
    <3>2. mandateUse'[m] = mandateUse[m] \/ mandateUse'[m] = use
      BY <1>2, <2>1 DEF BillTypeOK
    <3>3. CASE mandateUse'[m] = use
      BY <1>1, <2>2, <3>1, <3>3
    <3>4. CASE mandateUse'[m] = mandateUse[m]
      <4>1. ASSUME mandateUse[m] # NoUse
            PROVE  /\ mandateUse[m].binding \in Contracts
                   /\ mandateUse[m].hold \in Holds
                   /\ hold'[mandateUse[m].hold] = Quote[mandateUse[m].binding].ceiling
        <5>1. /\ mandateUse[m].binding \in Contracts
              /\ mandateUse[m].hold \in Holds
              /\ hold[mandateUse[m].hold] = Quote[mandateUse[m].binding].ceiling
          BY <4>1 DEF HoldsAreForCeilings
        <5>2. Quote[mandateUse[m].binding].ceiling # NoAmount
          BY <5>1, CommitConstants DEF Amounts, NoAmount
        <5>3. hold'[mandateUse[m].hold] = hold[mandateUse[m].hold]
          BY <1>2, <2>1, <5>1, <5>2 DEF BillTypeOK
        <5>4. QED
          BY <5>1, <5>3
      <4>2. QED
        BY <3>4, <4>1
    <3>5. QED
      BY <3>2, <3>3, <3>4
  <2>5. QED
    BY <2>2, <2>3, <2>4 DEF HoldsAreForCeilings
<1>5. QED
  BY <1>3, <1>4 DEF Reserves, c

(* What the lemmas above say of a step of commit r.                        *)
OwnMove(r) ==
  /\ at[r] # "return" /\ pc[r] = "running" /\ UNCHANGED pc
  /\ ControlMove(r) /\ BillMove(r) /\ ExecutionMove(r) /\ TaskMove(r)

(* They hold of each of its steps.                                         *)
LEMMA OwnMoves ==
  ASSUME CommitInv, NEW r \in Commits, CommitStep(r)
  PROVE  OwnMove(r)
<1>1. TypeOK /\ BillTypeOK /\ ControlTypeOK /\ DataTypeOK /\ OperandsKnown
  BY OperationTypeParts DEF CommitInv, CommitTypeOK
<1>2. at[r] # "return" /\ pc[r] = "running" /\ UNCHANGED pc
  BY InsideShape, QuoteType
<1>3. QED
  BY <1>1, <1>2, CommitControlMoves, CommitBillMoves, CommitExecutes, CommitTaskMoves
  DEF OwnMove

(* A refusal is decided before anything is made.                           *)
LEMMA OwnRefusals ==
  ASSUME NEW r \in Commits, OwnMove(r), RefusalsAreTrue(r)
  PROVE  RefusalsAreTrue(r)'
<1>1. CASE /\ at[r] = "validate" /\ at'[r] = "reserve"
           /\ UNCHANGED <<result, effectAt, billVars, task, performed>>
  BY <1>1 DEF RefusalsAreTrue, NothingMade, Early, billVars
<1>2. CASE /\ at[r] \in Early
           /\ at'[r] = "return"
           /\ UNCHANGED <<billVars, task, performed, effectAt>>
  BY <1>2 DEF RefusalsAreTrue, NothingMade, billVars
<1>3. CASE at'[r] \notin Early /\ (UNCHANGED result \/ result'[r].kind \notin Refusals)
  BY <1>3 DEF OwnMove, RefusalsAreTrue
<1>4. QED
  BY <1>1, <1>2, <1>3 DEF OwnMove, ControlMove

(* Every step past the reservation follows one that recorded the effect.   *)
LEMMA OwnDates ==
  ASSUME TypeOK, NEW r \in Commits, OwnMove(r), EffectsAreDated(r)
  PROVE  EffectsAreDated(r)'
<1>1. r \in Requests /\ now # Never
  BY QuoteType DEF TypeOK, IdemTypeOK, Never
<1>2. effectAt'[r] = effectAt[r] \/ effectAt'[r] # Never
  BY <1>1 DEF OwnMove, ControlMove, Cross, TypeOK
<1>3. at'[r] \in Later => effectAt'[r] # Never
  <2>1. CASE Cross(r)
    BY <1>1, <2>1 DEF Cross, TypeOK
  <2>2. CASE ~Cross(r)
    BY <2>2 DEF OwnMove, ControlMove, Later, Early, EffectsAreDated
  <2>3. QED
    BY <2>1, <2>2
<1>4. ASSUME effectAt[r] # Never PROVE effectAt'[r] # Never
  BY <1>2, <1>4
<1>5. r \in performed' => r \in performed \/ at[r] \in Later
  BY DEF OwnMove, ExecutionMove, Later, CommitCalls
<1>6. pc'[r] # "sent"
  BY DEF OwnMove
<1>7. r \in performed' => effectAt'[r] # Never
  BY <1>4, <1>5 DEF EffectsAreDated
<1>8. QED
  BY <1>3, <1>6, <1>7 DEF EffectsAreDated

(* The calls after an execution follow one that was done.                  *)
LEMMA OwnExecution ==
  ASSUME NEW r \in Commits, OwnMove(r), RefusalsAreTrue(r), ExecutionIsKnown(r)
  PROVE  ExecutionIsKnown(r)'
<1>1. at'[r] \in {"put", "start", "execute"} => r \notin performed'
  BY DEF OwnMove, ExecutionMove, RefusalsAreTrue, NothingMade, ExecutionIsKnown, Early
<1>2. at'[r] \in {"settle", "bind", "succeed"} => r \in performed'
  BY DEF OwnMove, ExecutionMove, ExecutionIsKnown
<1>3. QED
  BY <1>1, <1>2 DEF ExecutionIsKnown

(* A commit that fails was refused, and gave its hold back.                *)
LEMMA OwnFailure ==
  ASSUME CommitInv, AnswersStand, NEW r \in Commits, OwnMove(r), ExecutionIsKnown(r),
         RefusalsAreTrue(r), TaskIsBilled(r), FailureIsClean(r)
  PROVE  FailureIsClean(r)'
<1>1. SUFFICES ASSUME ~ProviderUncertain
               PROVE  /\ at'[r] \in {"void", "fail"} => r \notin performed'
                      /\ at'[r] = "fail" /\ held'[r] # None => held'[r] \in released'
                      /\ task'[r].state = "failed" =>
                           /\ at'[r] \in {"failed", "anchor", "attach", "issue", "return"}
                           /\ r \notin performed'
                           /\ held'[r] # None => held'[r] \in released'
  BY DEF FailureIsClean
<1>2. ASSUME at'[r] \in {"void", "fail"}
      PROVE  r \notin performed' /\ (at'[r] = "fail" /\ held'[r] # None => held'[r] \in released')
  <2>1. CASE /\ at[r] = "void" /\ at'[r] = "fail"
             /\ UNCHANGED <<performed, held>> /\ ReleaseHold(held[r])
    BY <1>1, <2>1 DEF FailureIsClean, ReleaseHold
  <2>2. CASE /\ at[r] = "execute" /\ UNCHANGED held
             /\ ProviderUncertain \/ UNCHANGED performed
             /\ at'[r] = "fail" => held[r] = None
    BY <1>1, <2>2 DEF ExecutionIsKnown
  <2>3. QED
    BY <1>2, <2>1, <2>2 DEF OwnMove, ExecutionMove
<1>3. ASSUME task'[r].state = "failed"
      PROVE  /\ at'[r] \in {"failed", "anchor", "attach", "issue", "return"}
             /\ r \notin performed'
             /\ held'[r] # None => held'[r] \in released'
  <2>1. CASE task[r].state = "failed"
    <3>1. /\ at[r] \in {"failed", "anchor", "attach", "issue"}
          /\ r \notin performed
          /\ held[r] # None => held[r] \in released
      BY <1>1, <2>1 DEF FailureIsClean, OwnMove
    <3>2. at'[r] \in {"anchor", "attach", "issue", "return"} /\ UNCHANGED <<performed, held>>
      BY <3>1 DEF OwnMove, ExecutionMove
    <3>3. QED
      BY <3>1, <3>2 DEF AnswersStand
  <2>2. CASE task[r].state # "failed"
    <3>1. Accepted(r).state = "accepted"
      BY DEF Accepted, NoTask
    <3>2. at[r] = "fail" /\ at'[r] \in {"failed", "return"}
      BY <1>3, <2>2, <3>1 DEF OwnMove, TaskMove, Rewritten
    <3>3. UNCHANGED performed
      BY <3>2 DEF OwnMove, ExecutionMove
    <3>4. UNCHANGED held
      BY <3>2 DEF OwnMove, BillMove
    <3>5. QED
      BY <1>1, <3>2, <3>3, <3>4 DEF FailureIsClean, AnswersStand
  <2>3. QED
    BY <2>1, <2>2
<1>4. QED
  BY <1>2, <1>3

(* The record PutTask presents.                                            *)
LEMMA AcceptedFields ==
  ASSUME NEW r \in Commits
  PROVE  /\ Accepted(r) # NoTask
         /\ Accepted(r).state = "accepted"
         /\ Accepted(r).hold = held[r]
         /\ Accepted(r).settlement = None
         /\ QuoteOf(r).free => Accepted(r).amount = QuoteOf(r).ceiling
         /\ ~QuoteOf(r).free => Accepted(r).amount = hold[held[r]]
<1>1. Accepted(r).version = 1 /\ NoTask.version = 0
  BY DEF Accepted, NoTask
<1>2. QED
  BY <1>1 DEF Accepted, NoTask

(* What Settle answered is the settlement of the hold, within its ceiling. *)
LEMMA BoundIsSettled ==
  ASSUME CommitInv, BillInv, NEW r \in Commits, TaskIsBilled(r), at[r] = "bind"
  PROVE  /\ BoundSettlement(r) \in SettleRefs
         /\ BoundSettlement(r) # None
         /\ held[r] \in Holds /\ held[r] # None
         /\ settleByHold[held[r]] = BoundSettlement(r)
         /\ settled[BoundSettlement(r)] # NoAmount
         /\ settled[BoundSettlement(r)] <= QuoteOf(r).ceiling
<1>1. BoundSettlement(r) \in SettleRefs /\ held[r] \in Holds /\ Commit[r].key \in BillKeys
  BY QuoteType DEF CommitInv, OperandsKnown, BoundSettlement
<1>2. BoundSettlement(r) # None /\ held[r] # None
  BY <1>1, BillingConstants
<1>3. settleByHold[held[r]] = BoundSettlement(r)
  BY <1>1, <1>2 DEF BillInv, OneSettlementPerHold, BoundSettlement
<1>4. settled[BoundSettlement(r)] \in 0 .. hold[held[r]]
  BY <1>1, <1>2, <1>3 DEF BillInv, OneSettlementPerHold
<1>5. hold[held[r]] = QuoteOf(r).ceiling /\ QuoteOf(r).ceiling \in Amounts
  BY <1>2, QuoteType DEF TaskIsBilled
<1>6. QED
  BY <1>1, <1>2, <1>3, <1>4, <1>5 DEF Amounts, NoAmount

(* A commit's hold is the one Reserve gave it.                             *)
LEMMA OwnHoldIsCeiling ==
  ASSUME CommitInv, BillInv, AnswersStand, HoldsAreForCeilings, NEW r \in Commits,
         OwnMove(r), TaskIsBilled(r)
  PROVE  held'[r] # None => hold'[held'[r]] = QuoteOf(r).ceiling
<1>1. CASE UNCHANGED held
  BY <1>1, MoneyStays
<1>2. CASE \E h \in Holds : Reserves(r, h) /\ held' = [held EXCEPT ![r] = h]
  <2>1. PICK h \in Holds : Reserves(r, h) /\ held' = [held EXCEPT ![r] = h]
    BY <1>2
  <2>2. held'[r] = h
    BY <2>1 DEF CommitInv, CommitTypeOK, OperationTypeOK
  <2>3. QED
    BY <2>1, <2>2, ReserveGives
<1>3. QED
  BY <1>1, <1>2 DEF OwnMove, BillMove

(* The record of a commit says of its money what the processor knows.      *)
LEMMA OwnBilled ==
  ASSUME CommitInv, BillInv, AnswersStand, HoldsAreForCeilings, NEW r \in Commits,
         OwnMove(r), RefusalsAreTrue(r), ExecutionIsKnown(r), TaskIsBilled(r)
  PROVE  TaskIsBilled(r)'
<1>1. held'[r] # None => hold'[held'[r]] = QuoteOf(r).ceiling
  BY OwnHoldIsCeiling
<1>2. at'[r] \in Recorded => task'[r] # NoTask
  BY AcceptedFields DEF OwnMove, TaskMove, TaskIsBilled, Rewritten
<1>3. task[r] # NoTask \/ at[r] \in Recorded \/ at[r] = "put" => held'[r] = held[r]
  <2>1. held' = held \/ at[r] = "reserve"
    BY DEF OwnMove, BillMove
  <2>2. at[r] = "reserve" => task[r] = NoTask /\ at[r] \notin Recorded
    BY DEF RefusalsAreTrue, NothingMade, Early, Recorded, Later
  <2>3. QED
    BY <2>1, <2>2
<1>4. /\ QuoteOf(r).ceiling \in Amounts
      /\ held[r] # None => hold[held[r]] = QuoteOf(r).ceiling
  BY QuoteType DEF TaskIsBilled
<1>5. at[r] = "put" => Accepted(r).amount <= QuoteOf(r).ceiling
  <2>1. at[r] = "put" /\ ~QuoteOf(r).free => held[r] # None
    BY BillingConstants DEF CommitInv, OperandsKnown
  <2>2. QED
    BY <1>4, <2>1, AcceptedFields DEF Amounts
<1>6. task'[r] # NoTask => task'[r].hold = held'[r] /\ task'[r].amount <= QuoteOf(r).ceiling
  <2>1. CASE task'[r] = task[r]
    BY <1>3, <2>1 DEF TaskIsBilled
  <2>2. CASE at[r] = "put" /\ task'[r] = Accepted(r)
    BY <1>3, <1>5, <2>2, AcceptedFields
  <2>3. CASE Rewritten(r)
    <3>1. task[r] # NoTask /\ task'[r].hold = held'[r]
      BY <1>3, <2>3 DEF Rewritten, TaskIsBilled
    <3>2. task'[r].amount <= QuoteOf(r).ceiling
      BY <2>3, <3>1, BoundIsSettled DEF Rewritten, TaskIsBilled
    <3>3. QED
      BY <3>1, <3>2
  <2>4. QED
    BY <2>1, <2>2, <2>3 DEF OwnMove, TaskMove
<1>7. task'[r].settlement # None =>
        /\ held'[r] # None
        /\ settleByHold'[held'[r]] = task'[r].settlement
        /\ settled'[task'[r].settlement] = task'[r].amount
  <2>1. ASSUME task'[r].settlement = task[r].settlement, task'[r].amount = task[r].amount,
               task'[r].settlement # None
        PROVE  /\ held'[r] # None
               /\ settleByHold'[held'[r]] = task'[r].settlement
               /\ settled'[task'[r].settlement] = task'[r].amount
    <3>1. task[r] # NoTask
      BY <2>1 DEF NoTask
    <3>2. held'[r] = held[r] /\ held[r] # None
      BY <1>3, <2>1, <3>1 DEF TaskIsBilled
    <3>3. QED
      BY <2>1, <3>2, MoneyStays
  <2>2. CASE at[r] = "put" /\ task'[r] = Accepted(r)
    BY <2>2, AcceptedFields
  <2>3. ASSUME at[r] = "bind", Rewritten(r),
               task'[r].settlement = BoundSettlement(r),
               task'[r].amount = settled[BoundSettlement(r)]
        PROVE  /\ held'[r] # None
               /\ settleByHold'[held'[r]] = task'[r].settlement
               /\ settled'[task'[r].settlement] = task'[r].amount
    <3>1. held'[r] = held[r]
      BY <1>3, <2>3 DEF Rewritten
    <3>2. QED
      BY <2>3, <3>1, BoundIsSettled DEF AnswersStand
  <2>4. QED
    BY <2>1, <2>2, <2>3 DEF OwnMove, TaskMove, Rewritten
<1>8. at'[r] = "succeed" /\ held'[r] # None => task'[r].settlement # None
  BY BoundIsSettled DEF OwnMove, ExecutionMove, TaskMove
<1>9. task'[r].state = "succeeded" =>
        r \in performed' /\ (held'[r] # None => task'[r].settlement # None)
  <2>1. performed \subseteq performed'
    BY DEF OwnMove, ExecutionMove
  <2>2. ASSUME task[r].state = "succeeded", task'[r].state = "succeeded"
        PROVE  r \in performed' /\ (held'[r] # None => task'[r].settlement # None)
    <3>1. task[r] # NoTask /\ held'[r] = held[r]
      BY <1>3, <2>2 DEF NoTask
    <3>2. r \in performed /\ (held[r] # None => task[r].settlement # None)
      BY <2>2 DEF TaskIsBilled
    <3>3. task'[r].settlement # None \/ task'[r].settlement = task[r].settlement
      BY <2>2, AcceptedFields, BoundIsSettled DEF OwnMove, TaskMove, Rewritten
    <3>4. QED
      BY <2>1, <3>1, <3>2, <3>3
  <2>3. ASSUME task[r].state # "succeeded", task'[r].state = "succeeded"
        PROVE  r \in performed' /\ (held'[r] # None => task'[r].settlement # None)
    <3>1. /\ at[r] = "succeed" /\ at[r] \in Recorded
          /\ task'[r].settlement = task[r].settlement
      BY <2>3, AcceptedFields DEF OwnMove, TaskMove, Rewritten
    <3>2. held'[r] = held[r] /\ r \in performed
      BY <1>3, <3>1 DEF ExecutionIsKnown
    <3>3. QED
      BY <2>1, <3>1, <3>2 DEF TaskIsBilled
  <2>4. QED
    BY <2>2, <2>3
<1>10. QED
  BY <1>1, <1>2, <1>6, <1>7, <1>8, <1>9 DEF TaskIsBilled, QuoteOf

(* A step is of the commit itself, or leaves it as it is.                  *)
LEMMA OwnOrLeftAlone ==
  ASSUME CommitInv, CancelsKnowTheirTask, [CommitNext]_allVars, NEW r \in Commits
  PROVE  CommitStep(r) \/ LeftAlone(r)
<1>1. TypeOK
  BY DEF CommitInv, CommitTypeOK
<1>2. CASE \E x \in Commits : CommitStep(x)
  BY <1>2, CommitKeepsOthers
<1>3. CASE \E x \in Cancels : CancelStep(x)
  BY <1>3, CancelKeeps
<1>4. CASE HandlerOnly
  BY <1>1, <1>4, HandlerKeeps
<1>5. QED
  BY <1>2, <1>3, <1>4 DEF CommitNext, HandlerOnly

(* Reserve alone makes holds, and consumes authorizations.                 *)
LEMMA CeilingsStep ==
  ASSUME CommitInv, HoldsAreForCeilings, [CommitNext]_allVars
  PROVE  HoldsAreForCeilings'
<1>1. TypeOK /\ BillTypeOK /\ ControlTypeOK /\ DataTypeOK /\ OperandsKnown
  BY OperationTypeParts DEF CommitInv, CommitTypeOK
<1>2. ASSUME UNCHANGED <<hold, holdByKey, mandateUse>> PROVE HoldsAreForCeilings'
  BY <1>2 DEF HoldsAreForCeilings
<1>3. ASSUME NEW r \in Commits, CommitStep(r) PROVE HoldsAreForCeilings'
  <2>1. BillMove(r)
    BY <1>1, <1>3, CommitBillMoves
  <2>2. CASE \E h \in Holds : Reserves(r, h)
    BY <2>2, ReserveGives
  <2>3. CASE \/ UNCHANGED billVars
             \/ \E s \in SettleRefs : Settles(r, s)
             \/ ReleaseHold(held[r])
    <3>1. UNCHANGED <<hold, holdByKey, mandateUse>>
      BY <2>3, Zenon DEF billVars, Settles, SettleExisting, SettleNew, ReleaseHold
    <3>2. QED
      BY <1>2, <3>1
  <2>4. QED
    BY <2>1, <2>2, <2>3, Zenon DEF BillMove
<1>4. ASSUME NEW x \in Cancels, CancelStep(x) PROVE HoldsAreForCeilings'
  <2>1. UNCHANGED <<hold, holdByKey, mandateUse>>
    BY <1>1, <1>4, CancelMoves, Zenon DEF CancelMove, ReleaseHold, billVars
  <2>2. QED
    BY <1>2, <2>1
<1>5. CASE HandlerOnly
  BY <1>2, <1>5, HandlerStays DEF billVars
<1>6. QED
  BY <1>3, <1>4, <1>5 DEF CommitNext, HandlerOnly

(* A task on the record stays there.                                       *)
LEMMA RecordsStay ==
  ASSUME CommitInv, CancelsKnowTheirTask, [CommitNext]_allVars, NEW t \in Commits,
         task[t] # NoTask
  PROVE  task'[t] # NoTask
<1>1. CASE CommitStep(t)
  BY <1>1, OwnMoves, AcceptedFields DEF OwnMove, TaskMove, Rewritten
<1>2. CASE LeftAlone(t)
  BY <1>2 DEF LeftAlone
<1>3. QED
  BY <1>1, <1>2, OwnOrLeftAlone

(* So a cancel that has read it will find it.                              *)
LEMMA CancelsStep ==
  ASSUME CommitInv, CancelsKnowTheirTask, [CommitNext]_allVars
  PROVE  CancelsKnowTheirTask'
<1>1. TypeOK /\ ControlTypeOK /\ DataTypeOK /\ OperandsKnown
  BY OperationTypeParts DEF CommitInv, CommitTypeOK
<1>2. SUFFICES ASSUME NEW x \in Cancels, at'[x] \notin {"read", "return"}
               PROVE  task[TaskOf(x)] # NoTask
  <2>1. \A x \in Cancels : TaskOf(x) \in Commits
    BY CommitConstants DEF TaskOf
  <2>2. QED
    BY <1>2, <2>1, RecordsStay DEF CancelsKnowTheirTask, TaskOf
<1>3. x \in Requests /\ x \notin Commits
  BY CommitConstants
<1>4. CASE at'[x] = at[x]
  BY <1>2, <1>4 DEF CancelsKnowTheirTask
<1>5. CASE CancelStep(x)
  BY <1>1, <1>2, <1>5, CancelMoves DEF CancelMove, CancelsKnowTheirTask
<1>6. ASSUME NEW r \in Requests, CommitStep(r) \/ CancelStep(r), r # x PROVE at'[x] = at[x]
  BY <1>1, <1>3, <1>6, OwnLocals
<1>7. HandlerOnly => at'[x] = at[x]
  BY HandlerStays DEF opVars
<1>8. Commits \subseteq Requests /\ Cancels \subseteq Requests
  BY CommitConstants
<1>9. CASE \E r \in Commits : CommitStep(r)
  BY <1>3, <1>4, <1>6, <1>8, <1>9
<1>10. CASE \E r \in Cancels : CancelStep(r)
  BY <1>4, <1>5, <1>6, <1>8, <1>10
<1>11. QED
  BY <1>4, <1>7, <1>9, <1>10 DEF CommitNext, HandlerOnly

(* The effect of a commit, and the hold it was made under, are not undone. *)
LEMMA EffectsStay ==
  ASSUME CommitInv, CancelsKnowTheirTask, [CommitNext]_allVars, NEW r \in Commits,
         RefusalsAreTrue(r), r \in performed
  PROVE  r \in performed' /\ held'[r] = held[r]
<1>1. CASE CommitStep(r)
  <2>1. OwnMove(r)
    BY <1>1, OwnMoves
  <2>2. r \in performed'
    BY <2>1 DEF OwnMove, ExecutionMove
  <2>3. at[r] # "reserve"
    BY DEF RefusalsAreTrue, NothingMade, Early
  <2>4. QED
    BY <2>1, <2>2, <2>3 DEF OwnMove, BillMove
<1>2. CASE LeftAlone(r)
  BY <1>2 DEF LeftAlone
<1>3. QED
  BY <1>1, <1>2, OwnOrLeftAlone

(* Settle is called for the hold of a commit whose effect is done.         *)
LEMMA ChargedStep ==
  ASSUME CommitInv, CancelsKnowTheirTask, ChargedOnlyForAnEffect, [CommitNext]_allVars,
         \A r \in Commits : RefusalsAreTrue(r) /\ ExecutionIsKnown(r)
  PROVE  ChargedOnlyForAnEffect'
<1>1. TypeOK /\ BillTypeOK /\ ControlTypeOK /\ DataTypeOK /\ OperandsKnown
  BY OperationTypeParts DEF CommitInv, CommitTypeOK
<1>2. performed \subseteq Commits
  BY <1>1 DEF DataTypeOK
<1>3. ASSUME NEW h \in Holds, \E p \in performed : held[p] = h
      PROVE  \E p \in performed' : held'[p] = h
  BY <1>2, <1>3, EffectsStay
<1>4. ASSUME NEW h \in Holds, settleByHold[h] = None, settleByHold'[h] # None
      PROVE  \E p \in performed : held[p] = h
  <2>1. ASSUME NEW r \in Commits, CommitStep(r) PROVE r \in performed /\ held[r] = h
    <3>1. OwnMove(r)
      BY <2>1, OwnMoves
    <3>2. ASSUME NEW g \in Holds, Reserves(r, g) PROVE UNCHANGED settleByHold
      BY <3>2, Zenon DEF Reserves, ReserveExisting, ReserveNew, billVars
    <3>3. at[r] = "settle" /\ \E s \in SettleRefs : Settles(r, s)
      BY <1>4, <3>1, <3>2 DEF OwnMove, BillMove, ReleaseHold, billVars
    <3>4. UNCHANGED settleByHold
          \/ \E s : settleByHold' = [settleByHold EXCEPT ![held[r]] = s]
      BY <3>3, Zenon DEF Settles, SettleExisting, SettleNew
    <3>5. held[r] = h
      BY <1>1, <1>4, <3>4 DEF BillTypeOK
    <3>6. QED
      BY <3>3, <3>5 DEF ExecutionIsKnown
  <2>2. ASSUME NEW x \in Cancels, CancelStep(x) PROVE UNCHANGED settleByHold
    BY <1>1, <2>2, CancelMoves, Zenon DEF CancelMove, ReleaseHold, billVars
  <2>3. HandlerOnly => UNCHANGED settleByHold
    BY HandlerStays DEF billVars
  <2>4. CASE \E r \in Commits : CommitStep(r)
    BY <2>1, <2>4
  <2>5. QED
    BY <1>4, <2>2, <2>3, <2>4 DEF CommitNext, HandlerOnly
<1>5. QED
  BY <1>3, <1>4 DEF ChargedOnlyForAnEffect

(* A commit whose quote passed the check of its expiry starts alone: an    *)
(* effect of its key that has ended would be remembered.                   *)
LEMMA StartsAlone ==
  ASSUME HandlerInv, NEW r \in Commits, pc[r] = "running", now <= QuoteOf(r).expiresAt,
         QuoteOf(r).expiresAt <= Retention,
         NEW s \in Requests, s # r, key[s] = key[r]
  PROVE  effectAt[s] = Never
<1>1. r \in Requests /\ Executing(r)
  BY QuoteType DEF Executing
<1>2. ~Executing(s)
  BY <1>1 DEF HandlerInv, RunnersOwnClaims, OneRunnerPerKey
<1>3. Held(key[r])
  BY <1>1 DEF HandlerInv, RunnersOwnClaims, RunnerHoldsItsClaim
<1>4. pc[s] \in {"sent", "done"}
  BY <1>2 DEF HandlerInv, TypeOK, PcValues, Executing
<1>5. CASE pc[s] = "sent"
  BY <1>5 DEF HandlerInv, ReleasersHaveNoEffect
<1>6. ASSUME pc[s] = "done", effectAt[s] # Never PROVE FALSE
  <2>1. ~(Held(key[s]) /\ \A q \in Requests : key[q] = key[s] => ~Executing(q))
    BY <1>1
  <2>2. entries[key[s]].status # "completed"
    BY <1>3 DEF Held
  <2>3. now > effectAt[s] + Retention
    BY <1>6, <2>1, <2>2 DEF HandlerInv, EffectIsRemembered
  <2>4. /\ effectAt[s] \in 0 .. MaxTime /\ now \in 0 .. MaxTime
        /\ Retention \in Nat /\ QuoteOf(r).expiresAt \in Nat
    BY <1>6, IdempotencyConstants, CommitConstants
    DEF HandlerInv, TypeOK, IdemTypeOK, QuoteOf, Never
  <2>5. QED
    BY <2>3, <2>4, IdempotencyConstants
<1>7. QED
  BY <1>4, <1>5, <1>6

(* And remains alone while it holds the claim of its key.                  *)
LEMMA AloneStep ==
  ASSUME CommitInv, HandlerInv, [CommitNext]_allVars, NEW r \in Commits,
         IsAlone(r), EffectsAreDated(r)
  PROVE  IsAlone(r)'
<1>1. TypeOK /\ BillTypeOK /\ ControlTypeOK /\ DataTypeOK /\ OperandsKnown
  BY OperationTypeParts DEF CommitInv, CommitTypeOK
<1>2. r \in Requests
  BY QuoteType
<1>3. SUFFICES ASSUME QuoteOf(r).expiresAt <= Retention, pc'[r] = "running",
                      at'[r] \notin {"validate", "return"},
                      NEW s \in Requests, s # r, key'[s] = key'[r]
               PROVE  effectAt'[s] = Never
  BY DEF IsAlone, QuoteOf
<1>4. ASSUME NEW q \in Requests, CommitStep(q) \/ CancelStep(q) PROVE effectAt'[s] = Never
  <2>1. pc[q] = "running" /\ UNCHANGED <<pc, key>>
    BY <1>4, InsideShape
  <2>2. CASE q = r
    <3>1. CommitStep(r) \/ CancelStep(r)
      BY <1>4, <2>2
    <3>2. effectAt'[s] = effectAt[s]
      BY <1>1, <1>2, <1>3, <3>1, OthersStay
    <3>3. CASE CommitStep(r)
      <4>1. ControlMove(r)
        BY <1>1, <3>3, CommitControlMoves
      <4>2. CASE at[r] = "validate"
        <5>1. now <= QuoteOf(r).expiresAt
          BY <1>3, <4>1, <4>2 DEF ControlMove
        <5>2. QED
          BY <1>3, <2>1, <2>2, <3>2, <5>1, StartsAlone
      <4>3. CASE at[r] # "validate"
        <5>1. at[r] # "return"
          BY <1>2, <3>3, InsideShape
        <5>2. QED
          BY <1>3, <2>1, <2>2, <3>2, <4>3, <5>1 DEF IsAlone
      <4>4. QED
        BY <4>2, <4>3
    <3>4. CASE CancelStep(r)
      <4>1. at[r] # "return" /\ at[r] # "validate"
        <5>1. at[r] \in {"read", "clone", "release", "cancel", "report"}
          BY <3>4, Zenon DEF CancelStep, ReadRecord, ReadRefuses, CloneBilling, CloneRefuses,
             CancelReleases, CancelUpdates, CancelReports, Inside, Decide
        <5>2. QED
          BY <5>1
      <4>2. QED
        BY <1>3, <2>1, <2>2, <3>2, <4>1 DEF IsAlone
    <3>5. QED
      BY <3>1, <3>3, <3>4
  <2>3. CASE q # r
    <3>1. at'[r] = at[r]
      BY <1>1, <1>2, <1>4, <2>3, OthersStay
    <3>2. effectAt[s] = Never
      BY <1>3, <2>1, <3>1 DEF IsAlone
    <3>3. s # q
      BY <1>2, <1>3, <2>1, <2>3 DEF HandlerInv, RunnersOwnClaims, OneRunnerPerKey, Executing
    <3>4. effectAt'[s] = effectAt[s]
      BY <1>1, <1>4, <3>3, OthersStay
    <3>5. QED
      BY <3>2, <3>4
  <2>4. QED
    BY <2>2, <2>3
<1>5. CASE HandlerOnly
  <2>1. /\ UNCHANGED <<opVars, effectAt, key>>
        /\ pc[r] \in {"sent", "running"}
    BY <1>1, <1>3, <1>5, HandlerKeeps, HandlerStays
  <2>2. pc[r] = "running"
    BY <1>3, <2>1 DEF EffectsAreDated, opVars
  <2>3. QED
    BY <1>3, <2>1, <2>2 DEF IsAlone, opVars
<1>6. Commits \subseteq Requests /\ Cancels \subseteq Requests
  BY CommitConstants
<1>7. QED
  BY <1>4, <1>5, <1>6 DEF CommitNext, HandlerOnly

(* The parts about one commit.                                             *)
LEMMA OutcomeStep ==
  ASSUME OutcomeInv, AnswersStand, [CommitNext]_allVars, NEW r \in Commits
  PROVE  Outcome(r)'
<1>1. /\ CommitInv /\ HandlerInv /\ BillInv /\ TypeOK
      /\ HoldsAreForCeilings /\ CancelsKnowTheirTask /\ Outcome(r)
  BY DEF OutcomeInv, HandlerInv
<1>2. /\ RefusalsAreTrue(r) /\ EffectsAreDated(r) /\ IsAlone(r)
      /\ ExecutionIsKnown(r) /\ TaskIsBilled(r) /\ FailureIsClean(r)
  BY <1>1 DEF Outcome
<1>3. IsAlone(r)'
  BY <1>1, <1>2, AloneStep
<1>4. CASE CommitStep(r)
  <2>1. OwnMove(r)
    BY <1>1, <1>4, OwnMoves
  <2>2. RefusalsAreTrue(r)' /\ EffectsAreDated(r)' /\ ExecutionIsKnown(r)'
    BY <1>1, <1>2, <2>1, OwnRefusals, OwnDates, OwnExecution
  <2>3. TaskIsBilled(r)' /\ FailureIsClean(r)'
    BY <1>1, <1>2, <2>1, OwnBilled, OwnFailure
  <2>4. QED
    BY <1>3, <2>2, <2>3 DEF Outcome
<1>5. CASE LeftAlone(r)
  BY <1>1, <1>3, <1>5, StaysTrueIfLeftAlone DEF Outcome
<1>6. QED
  BY <1>1, <1>4, <1>5, OwnOrLeftAlone

(* A commit that executes is the only one of its key to have an effect.    *)
LEMMA KeyStep ==
  ASSUME OutcomeInv, [CommitNext]_allVars
  PROVE  OneEffectPerKey'
<1>1. /\ CommitInv /\ HandlerInv /\ CancelsKnowTheirTask /\ OneEffectPerKey
      /\ \A r \in Commits : Outcome(r)
  BY DEF OutcomeInv
<1>2. performed \subseteq Commits /\ Commits \subseteq Requests
  BY <1>1, CommitConstants DEF CommitInv, CommitTypeOK, OperationTypeOK
<1>3. UNCHANGED key
  <2>1. ASSUME NEW q \in Requests, CommitStep(q) \/ CancelStep(q) PROVE UNCHANGED key
    BY <2>1, InsideShape
  <2>2. HandlerOnly => UNCHANGED key
    BY HandlerStays
  <2>3. Commits \subseteq Requests /\ Cancels \subseteq Requests
    BY CommitConstants
  <2>4. QED
    BY <2>1, <2>2, <2>3 DEF CommitNext, HandlerOnly
<1>4. SUFFICES ASSUME \A c \in Contracts : Quote[c].expiresAt <= Retention,
                      NEW r \in performed', NEW s \in performed', key[r] = key[s], r # s
               PROVE  FALSE
  BY <1>3 DEF OneEffectPerKey
<1>5. ASSUME NEW p \in performed', p \notin performed
      PROVE  /\ p \in Commits
             /\ \A q \in performed : q # p => key[q] # key[p]
             /\ performed' = performed \cup {p}
  <2>1. PICK x \in Commits : CommitStep(x) /\ performed' # performed
    <3>1. ASSUME NEW x \in Cancels, CancelStep(x) PROVE UNCHANGED performed
      BY <1>1, <3>1, CancelMoves, OperationTypeParts
      DEF CancelMove, CommitInv, CommitTypeOK
    <3>2. HandlerOnly => UNCHANGED performed
      BY HandlerStays DEF opVars
    <3>3. QED
      BY <1>5, <3>1, <3>2 DEF CommitNext, HandlerOnly
  <2>2. OwnMove(x)
    BY <1>1, <2>1, OwnMoves
  <2>3. at[x] = "execute" /\ performed' = performed \cup {x} /\ pc[x] = "running"
    BY <2>1, <2>2 DEF OwnMove, ExecutionMove
  <2>4. x = p
    BY <1>5, <2>3
  <2>5. QuoteOf(x).expiresAt <= Retention
    BY <1>4, CommitConstants DEF QuoteOf
  <2>6. ASSUME NEW q \in performed, q # x PROVE key[q] # key[x]
    <3>1. effectAt[q] # Never
      BY <1>1, <1>2, <2>6 DEF Outcome, EffectsAreDated
    <3>2. QED
      BY <1>1, <1>2, <2>3, <2>5, <2>6, <3>1 DEF Outcome, IsAlone
  <2>7. QED
    BY <2>3, <2>4, <2>6
<1>6. CASE r \in performed /\ s \in performed
  BY <1>1, <1>4, <1>6 DEF OneEffectPerKey
<1>7. CASE r \notin performed
  BY <1>4, <1>5, <1>7
<1>8. CASE s \notin performed
  BY <1>4, <1>5, <1>8
<1>9. QED
  BY <1>6, <1>7, <1>8

(* Before the first request nothing is made, charged or on the record.     *)
LEMMA OutcomeInit ==
  ASSUME CommitInit
  PROVE  OutcomeInv
<1>1. CommitInv /\ HandlerInv /\ BillInv
  BY CommitInitInv, InitInv, BillInitInv
<1>2. HoldsAreForCeilings
  <2>1. /\ \A c \in Contracts, k \in BillKeys : holdByKey[c][k] = None
        /\ \A m \in Mandates : mandateUse[m] = NoUse
    BY DEF CommitInit, BillInit
  <2>2. QED
    BY <2>1 DEF HoldsAreForCeilings
<1>3. CancelsKnowTheirTask
  BY CommitConstants DEF CommitInit, CancelsKnowTheirTask
<1>4. ChargedOnlyForAnEffect /\ OneEffectPerKey
  BY DEF CommitInit, BillInit, ChargedOnlyForAnEffect, OneEffectPerKey
<1>5. ASSUME NEW r \in Commits PROVE Outcome(r)
  <2>1. /\ r \in Requests /\ r \in Holds
        /\ at[r] = "validate" /\ result[r].kind = "none" /\ pc[r] = "sent"
        /\ hold[r] = NoAmount /\ task[r] = NoTask /\ performed = {} /\ held[r] = None
    BY QuoteType DEF CommitInit, BillInit, NoResult, Result
  <2>2. NoTask.settlement = None /\ NoTask.state = "none"
    BY DEF NoTask
  <2>3. RefusalsAreTrue(r) /\ EffectsAreDated(r)
    BY <2>1 DEF RefusalsAreTrue, NothingMade, Refusals, EffectsAreDated, Later
  <2>4. IsAlone(r) /\ ExecutionIsKnown(r)
    BY <2>1 DEF IsAlone, ExecutionIsKnown
  <2>5. TaskIsBilled(r) /\ FailureIsClean(r)
    BY <2>1, <2>2 DEF TaskIsBilled, FailureIsClean, Recorded, Later
  <2>6. QED
    BY <2>3, <2>4, <2>5 DEF Outcome
<1>6. QED
  BY <1>1, <1>2, <1>3, <1>4, <1>5 DEF OutcomeInv

(* Every step keeps all of it.                                             *)
LEMMA OutcomeInvStep ==
  ASSUME OutcomeInv, [CommitNext]_allVars
  PROVE  OutcomeInv'
<1>1. /\ CommitInv /\ HandlerInv /\ BillInv /\ BillTypeOK
      /\ HoldsAreForCeilings /\ CancelsKnowTheirTask /\ ChargedOnlyForAnEffect
      /\ \A r \in Commits : RefusalsAreTrue(r) /\ ExecutionIsKnown(r)
  BY DEF OutcomeInv, BillInv, Outcome
<1>2. CommitInv' /\ [Next]_vars /\ [BillNext]_billVars
  BY <1>1, CommitInvStep
<1>3. HandlerInv'
  BY <1>1, <1>2, TypeStep, RunnerStep, ReleaserStep, RememberedStep, RetentionStep,
      ResponseStep
  DEF HandlerInv
<1>4. BillInv' /\ AnswersStand
  BY <1>1, <1>2, BillStep, BillGrows
<1>5. HoldsAreForCeilings' /\ CancelsKnowTheirTask'
  BY <1>1, CeilingsStep, CancelsStep
<1>6. ChargedOnlyForAnEffect'
  BY <1>1, ChargedStep
<1>7. OneEffectPerKey'
  BY KeyStep
<1>8. \A r \in Commits : Outcome(r)'
  BY <1>4, OutcomeStep
<1>9. QED
  BY <1>2, <1>3, <1>4, <1>5, <1>6, <1>7, <1>8 DEF OutcomeInv

(* So it holds of every run.                                               *)
LEMMA OutcomeInductive == CommitSpec => []OutcomeInv
  BY OutcomeInit, OutcomeInvStep, PTL DEF CommitSpec

-----------------------------------------------------------------------------
(* What a client may rely on                                               *)

(* A definite problem, or a released claim, means that nothing was         *)
(* reserved, recorded or effected, whatever failed on the way.             *)
THEOREM RefusalsLeaveNothing == CommitSpec => []RefusalLeavesNothing
<1>1. OutcomeInv => RefusalLeavesNothing
  BY DEF OutcomeInv, Outcome, RefusalsAreTrue, NothingMade, Refusals, RefusalLeavesNothing
<1>2. QED
  BY <1>1, OutcomeInductive, PTL

(* A key buys one effect as long as no quote outlives the retention of its *)
(* answer: the expiry commit checks, the claim table and the clock of both *)
(* stand in for a lookup of what was executed.                             *)
THEOREM KeysBuyOneEffect == CommitSpec => []OneEffectPerKey
<1>1. OutcomeInv => OneEffectPerKey
  BY DEF OutcomeInv
<1>2. QED
  BY <1>1, OutcomeInductive, PTL

(* No reservation is settled before the provider's effect.                 *)
THEOREM ChargesFollowEffects == CommitSpec => []ChargedOnlyForAnEffect
<1>1. OutcomeInv => ChargedOnlyForAnEffect
  BY DEF OutcomeInv
<1>2. QED
  BY <1>1, OutcomeInductive, PTL

(* A succeeded task had its effect, and its billing record is the          *)
(* processor's, however cancels, faults and other commits interleave.      *)
THEOREM SuccessIsTrue == CommitSpec => []SucceededIsPerformedAndCharged
<1>1. OutcomeInv => SucceededIsPerformedAndCharged
  <2>1. SUFFICES ASSUME OutcomeInv, NEW t \in Commits, task[t].state = "succeeded"
                 PROVE  /\ t \in performed
                        /\ task[t].amount <= QuoteOf(t).ceiling
                        /\ task[t].hold # None =>
                             /\ settleByHold[task[t].hold] = task[t].settlement
                             /\ task[t].settlement # None
                             /\ settled[task[t].settlement] = task[t].amount
    BY DEF SucceededIsPerformedAndCharged
  <2>2. TaskIsBilled(t)
    BY <2>1 DEF OutcomeInv, Outcome
  <2>3. task[t] # NoTask
    BY <2>1 DEF NoTask
  <2>4. QED
    BY <2>1, <2>2, <2>3 DEF TaskIsBilled
<1>2. QED
  BY <1>1, OutcomeInductive, PTL

(* A failed task had no effect and keeps no reservation, if a problem the  *)
(* provider reports means that it did nothing.                             *)
THEOREM FailuresAreResolved ==
  ASSUME ~ProviderUncertain
  PROVE  CommitSpec => []FailedIsResolved
<1>1. OutcomeInv => FailedIsResolved
  <2>1. SUFFICES ASSUME OutcomeInv, NEW t \in Commits, task[t].state = "failed"
                 PROVE  /\ t \notin performed
                        /\ task[t].hold # None => task[t].hold \in released
    BY DEF FailedIsResolved
  <2>2. TaskIsBilled(t) /\ FailureIsClean(t)
    BY <2>1 DEF OutcomeInv, Outcome
  <2>3. task[t] # NoTask
    BY <2>1 DEF NoTask
  <2>4. QED
    BY <2>1, <2>2, <2>3 DEF TaskIsBilled, FailureIsClean
<1>2. QED
  BY <1>1, OutcomeInductive, PTL

=============================================================================
