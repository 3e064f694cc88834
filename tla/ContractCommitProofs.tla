----------------------- MODULE ContractCommitProofs -----------------------
(***************************************************************************)
(* Proofs about ContractCommit for any requests, quotes, keys and faults:  *)
(* it implements the request handler and the billing processor, and so     *)
(* inherits what MutatingHandlerProofs and MockProcessorProofs prove.      *)
(***************************************************************************)
EXTENDS ContractCommit, MutatingHandlerProofs, MockProcessorProofs

(* Until Reserve answers, a commit has recorded nothing; a result that     *)
(* releases the claim is decided no later.                                 *)
NothingRecordedYet ==
  \A r \in Requests :
    /\ at[r] \in {"validate", "reserve"} => effectAt[r] = Never
    /\ result[r].kind = "retry" => at[r] = "return" /\ effectAt[r] = Never

(* What a call passes to the processor is what Reserve and                 *)
(* resolveFinalCharge returned.                                            *)
OperandsKnown ==
  /\ \A r \in Commits :
       /\ at[r] = "put" /\ ~QuoteOf(r).free => held[r] \in Holds
       /\ at[r] \in {"void", "settle", "bind"} => held[r] \in Holds
       /\ at[r] = "settle" => charge[r] \in Amounts
       /\ at[r] = "bind" => settleByKey[held[r]][Commit[r].key] \in SettleRefs
  /\ \A r \in Cancels : at[r] = "release" => snap[r].hold \in Holds

CommitInv == CommitTypeOK /\ OperandsKnown /\ NothingRecordedYet

-----------------------------------------------------------------------------
(* The handler                                                             *)

(* What every step of an operation has in common.                          *)
LEMMA InsideShape ==
  ASSUME NEW r \in Requests, CommitStep(r) \/ CancelStep(r)
  PROVE  /\ pc[r] = "running"
         /\ UNCHANGED <<entries, now, pc, key, digest, release, answer>>
         /\ at[r] # "return"
         /\ at' = [at EXCEPT ![r] = at'[r]] \/ at' = at
         /\ UNCHANGED effectAt \/ Cross(r)
<1> USE DEF Inside, Decide
<1>1. CASE ValidateOk(r)
  BY <1>1 DEF ValidateOk
<1>2. CASE ValidateRefuses(r)
  BY <1>2 DEF ValidateRefuses
<1>3. CASE ReserveFree(r)
  BY <1>3 DEF ReserveFree
<1>4. CASE ReserveOk(r)
  BY <1>4 DEF ReserveOk
<1>5. CASE ReserveRefused(r)
  BY <1>5 DEF ReserveRefused
<1>6. CASE ReserveUnknown(r)
  BY <1>6 DEF ReserveUnknown
<1>7. CASE PutTask(r)
  BY <1>7 DEF PutTask
<1>8. CASE PutTaskFails(r)
  BY <1>8 DEF PutTaskFails
<1>9. CASE StartOk(r)
  BY <1>9 DEF StartOk
<1>10. CASE StartFails(r)
  BY <1>10 DEF StartFails
<1>11. CASE Abandon(r)
  BY <1>11 DEF Abandon
<1>12. CASE ExecuteOk(r)
  BY <1>12 DEF ExecuteOk
<1>13. CASE ExecuteProblem(r)
  BY <1>13 DEF ExecuteProblem
<1>14. CASE Void(r)
  BY <1>14 DEF Void
<1>15. CASE VoidPending(r)
  BY <1>15 DEF VoidPending, Transition
<1>16. CASE Fail(r)
  BY <1>16 DEF Fail, Transition
<1>17. CASE VoidPrice(r)
  BY <1>17 DEF VoidPrice
<1>18. CASE Dispute(r)
  BY <1>18 DEF Dispute, Transition
<1>19. CASE SettleOk(r)
  BY <1>19 DEF SettleOk
<1>20. CASE SettleFails(r)
  BY <1>20 DEF SettleFails
<1>21. CASE SettlePending(r)
  BY <1>21 DEF SettlePending, Transition
<1>22. CASE Bind(r)
  BY <1>22 DEF Bind, Transition
<1>23. CASE Succeed(r)
  BY <1>23 DEF Succeed, Transition
<1>24. CASE Report(r)
  BY <1>24 DEF Report
<1>25. CASE Close(r)
  BY <1>25 DEF Close
<1>26. CASE Anchor(r)
  BY <1>26 DEF Anchor
<1>27. CASE Attach(r)
  BY <1>27 DEF Attach
<1>28. CASE Issue(r)
  BY <1>28 DEF Issue
<1>29. CASE ReadRecord(r) \/ CloneBilling(r) \/ CloneRefuses(r)
  BY <1>29 DEF ReadRecord, CloneBilling, CloneRefuses
<1>30. CASE ReadRefuses(r)
  BY <1>30 DEF ReadRefuses
<1>31. CASE CancelReleases(r)
  BY <1>31 DEF CancelReleases
<1>32. CASE CancelUpdates(r)
  BY <1>32 DEF CancelUpdates
<1>33. CASE CancelReports(r)
  BY <1>33 DEF CancelReports
<1>34. QED
  BY <1>1, <1>2, <1>3, <1>4, <1>5, <1>6, <1>7, <1>8, <1>9, <1>10, <1>11, <1>12, <1>13,
     <1>14, <1>15, <1>16, <1>17, <1>18, <1>19, <1>20, <1>21, <1>22, <1>23, <1>24,
     <1>25, <1>26, <1>27, <1>28, <1>29, <1>30, <1>31, <1>32, <1>33 DEF CommitStep,
     CancelStep

(* A transition moves on with the task, or its answer is unknown.          *)
TransitionCalls == {"mark_void_pending", "fail", "mark_disputed", "mark_disputed_voided",
                    "mark_settlement_pending", "bind", "succeed"}

AfterTransition == {"void_pending", "failed", "disputed", "settlement_pending",
                    "succeed", "succeeded"}

Moves(r) ==
  /\ at[r] \in TransitionCalls
  /\ UNCHANGED <<effectAt, billVars, performed, held, charge, root>>
  /\ \/ /\ \E to \in AfterTransition : at' = [at EXCEPT ![r] = to]
        /\ UNCHANGED result
     \/ /\ at' = [at EXCEPT ![r] = "return"]
        /\ result' = [result EXCEPT ![r] = Result("unknown", None)]

(* One shape for all transitions, whatever they write.                     *)
LEMMA TransitionShape ==
  ASSUME NEW r \in Commits, NEW from \in TransitionCalls, NEW to \in AfterTransition,
         NEW events, NEW new, Transition(r, from, to, events, new)
  PROVE  Moves(r)
  BY Zenon DEF Transition, Inside, Decide, Moves

(* The six transitions have it.                                            *)
LEMMA TransitionsMove ==
  ASSUME NEW r \in Commits,
         \/ VoidPending(r) \/ Fail(r) \/ Dispute(r)
         \/ SettlePending(r) \/ Bind(r) \/ Succeed(r)
  PROVE  Moves(r)
<1>1. /\ {"mark_void_pending", "fail", "mark_disputed", "mark_disputed_voided",
           "mark_settlement_pending", "bind", "succeed"} \subseteq TransitionCalls
      /\ {"void_pending", "failed", "disputed", "settlement_pending",
           "succeed", "succeeded"} \subseteq AfterTransition
  BY DEF TransitionCalls, AfterTransition
<1>2. CASE VoidPending(r)
  BY <1>1, <1>2, TransitionShape, Zenon DEF VoidPending
<1>3. CASE Fail(r)
  BY <1>1, <1>3, TransitionShape, Zenon DEF Fail
<1>4. CASE Dispute(r)
  BY <1>1, <1>4, TransitionShape, Zenon DEF Dispute
<1>5. CASE SettlePending(r)
  BY <1>1, <1>5, TransitionShape, Zenon DEF SettlePending
<1>6. CASE Bind(r)
  BY <1>1, <1>6, TransitionShape, Zenon DEF Bind
<1>7. CASE Succeed(r)
  BY <1>1, <1>7, TransitionShape, Zenon DEF Succeed
<1>8. QED
  BY <1>2, <1>3, <1>4, <1>5, <1>6, <1>7

(* Attach ends in Issue, or answers without a receipt.                     *)
LEMMA AttachShape ==
  ASSUME NEW r \in Commits, Attach(r)
  PROVE  /\ at[r] = "attach"
         /\ UNCHANGED <<effectAt, billVars, audit, performed, held, charge, root>>
         /\ \/ at' = [at EXCEPT ![r] = "issue"] /\ UNCHANGED result
            \/ /\ at' = [at EXCEPT ![r] = "return"]
               /\ result' = [result EXCEPT ![r] = Result("done", r)]
  BY Zenon DEF Attach, Inside, Decide

(* An undecided commit has recorded nothing, and neither has a retry.       *)
LEMMA NothingRecordedStep ==
  ASSUME CommitTypeOK, NothingRecordedYet, [CommitNext]_allVars
  PROVE  NothingRecordedYet'
<1>1. ASSUME NEW r \in Commits, Moves(r) \/ Attach(r) PROVE NothingRecordedYet'
  <2>1. CASE Moves(r)
    <3>1. at \in [Requests -> CommitCalls \cup CancelCalls] /\ result \in [Requests -> Results]
      BY DEF CommitTypeOK, OperationTypeOK
    <3>2. r \in Requests
      BY CommitConstants
    <3>3. QED
      BY <2>1, <3>1, <3>2
      DEF Moves, TransitionCalls, AfterTransition, Results, NothingRecordedYet, Result
  <2>2. CASE Attach(r)
    <3>1. r \in Requests /\ at[r] = "attach" /\ UNCHANGED effectAt
      BY <2>2, AttachShape, CommitConstants
    <3>2. CASE at' = [at EXCEPT ![r] = "issue"] /\ UNCHANGED result
      BY <3>1, <3>2 DEF CommitTypeOK, TypeOK, OperationTypeOK, Results,
         NothingRecordedYet
    <3>3. CASE /\ at' = [at EXCEPT ![r] = "return"]
               /\ result' = [result EXCEPT ![r] = Result("done", r)]
      BY <3>1, <3>3 DEF CommitTypeOK, TypeOK, OperationTypeOK, Results,
         NothingRecordedYet, Result
    <3>4. QED
      BY <2>2, <3>2, <3>3, AttachShape
  <2>3. QED
    BY <1>1, <2>1, <2>2
<1> USE CommitConstants DEF CommitTypeOK, TypeOK, OperationTypeOK, Results,
      NothingRecordedYet, Inside, Decide,      Cross, Result, opVars
<1>2. ASSUME NEW r \in Requests, Claims(r) PROVE NothingRecordedYet'
  BY <1>2 DEF Claims, ClaimNew, ClaimReplay, ClaimConflict, ClaimInProgress,
     ClaimUnavailable
<1>3. ASSUME NEW r \in Requests, OperationReturns(r) PROVE NothingRecordedYet'
  BY <1>3 DEF OperationReturns
<1>4. ASSUME NEW r \in Requests, OperationPanics(r) PROVE NothingRecordedYet'
  BY <1>4 DEF OperationPanics, Panic
<1>5. ASSUME NEW r \in Requests, Disposes(r) PROVE NothingRecordedYet'
  BY <1>5 DEF Disposes, ReleaseClaim, ReleaseClaimFails, CompleteClaim,
     CompleteClaimFails
<1>6. ASSUME NEW r \in Commits, ValidateOk(r) PROVE NothingRecordedYet'
  BY <1>6 DEF ValidateOk
<1>7. ASSUME NEW r \in Commits, ValidateRefuses(r) PROVE NothingRecordedYet'
  BY <1>7 DEF ValidateRefuses
<1>8. ASSUME NEW r \in Commits, ReserveFree(r) PROVE NothingRecordedYet'
  BY <1>8 DEF ReserveFree
<1>9. ASSUME NEW r \in Commits, ReserveOk(r) PROVE NothingRecordedYet'
  BY <1>9 DEF ReserveOk
<1>10. ASSUME NEW r \in Commits, ReserveRefused(r) PROVE NothingRecordedYet'
  BY <1>10 DEF ReserveRefused
<1>11. ASSUME NEW r \in Commits, ReserveUnknown(r) PROVE NothingRecordedYet'
  BY <1>11 DEF ReserveUnknown
<1>12. ASSUME NEW r \in Commits, PutTask(r) PROVE NothingRecordedYet'
  BY <1>12 DEF PutTask
<1>13. ASSUME NEW r \in Commits, PutTaskFails(r) PROVE NothingRecordedYet'
  BY <1>13 DEF PutTaskFails
<1>14. ASSUME NEW r \in Commits, StartOk(r) PROVE NothingRecordedYet'
  BY <1>14 DEF StartOk
<1>15. ASSUME NEW r \in Commits, StartFails(r) PROVE NothingRecordedYet'
  BY <1>15 DEF StartFails
<1>16. ASSUME NEW r \in Commits, Abandon(r) PROVE NothingRecordedYet'
  BY <1>16 DEF Abandon
<1>17. ASSUME NEW r \in Commits, ExecuteOk(r) PROVE NothingRecordedYet'
  <2>1. \E to \in {"succeed", "settle", "void_price"} : Inside(r, "execute", to)
    BY <1>17 DEF ExecuteOk
  <2>2. UNCHANGED <<effectAt, result>>
    BY <1>17 DEF ExecuteOk
  <2>3. QED
    BY <2>1, <2>2
<1>18. ASSUME NEW r \in Commits, ExecuteProblem(r) PROVE NothingRecordedYet'
  BY <1>18 DEF ExecuteProblem
<1>19. ASSUME NEW r \in Commits, Void(r) PROVE NothingRecordedYet'
  BY <1>19 DEF Void
<1>20. ASSUME NEW r \in Commits, VoidPrice(r) PROVE NothingRecordedYet'
  BY <1>20 DEF VoidPrice
<1>21. ASSUME NEW r \in Commits, SettleOk(r) PROVE NothingRecordedYet'
  BY <1>21 DEF SettleOk
<1>22. ASSUME NEW r \in Commits, SettleFails(r) PROVE NothingRecordedYet'
  BY <1>22 DEF SettleFails
<1>23. ASSUME NEW r \in Commits, Report(r) PROVE NothingRecordedYet'
  BY <1>23 DEF Report
<1>24. ASSUME NEW r \in Commits, Close(r) PROVE NothingRecordedYet'
  BY <1>24 DEF Close
<1>25. ASSUME NEW r \in Commits, Anchor(r) PROVE NothingRecordedYet'
  <2>1. r \in Requests /\ at[r] = "anchor" /\ UNCHANGED effectAt
    BY <1>25 DEF Anchor
  <2>2. CASE at' = [at EXCEPT ![r] = "attach"] /\ UNCHANGED result
    BY <2>1, <2>2
  <2>3. CASE /\ at' = [at EXCEPT ![r] = "return"]
             /\ result' = [result EXCEPT ![r] = Result("done", r)]
    BY <2>1, <2>3
  <2>4. QED
    BY <1>25, <2>2, <2>3 DEF Anchor
<1>26. ASSUME NEW r \in Commits, Issue(r) PROVE NothingRecordedYet'
  BY <1>26 DEF Issue
<1>27. ASSUME NEW r \in Cancels, ReadRecord(r) \/ CloneBilling(r) \/ CloneRefuses(r)
       PROVE  NothingRecordedYet'
  BY <1>27 DEF ReadRecord, CloneBilling, CloneRefuses
<1>28. ASSUME NEW r \in Cancels, ReadRefuses(r) PROVE NothingRecordedYet'
  BY <1>28 DEF ReadRefuses
<1>29. ASSUME NEW r \in Cancels, CancelReleases(r) PROVE NothingRecordedYet'
  BY <1>29 DEF CancelReleases
<1>30. ASSUME NEW r \in Cancels, CancelUpdates(r) PROVE NothingRecordedYet'
  BY <1>30 DEF CancelUpdates
<1>31. ASSUME NEW r \in Cancels, CancelReports(r) PROVE NothingRecordedYet'
  BY <1>31 DEF CancelReports
<1>32. CASE ClockTicks
  BY <1>32 DEF ClockTicks, Pass, handlerVars
<1>33. CASE UNCHANGED allVars
  BY <1>33 DEF allVars, vars, handlerVars
<1> HIDE CommitConstants DEF CommitTypeOK, TypeOK, OperationTypeOK, Results,
      NothingRecordedYet, Inside, Decide,      Cross, Result, opVars
<1>34. QED
  BY <1>1, <1>2, <1>3, <1>4, <1>5, <1>6, <1>7, <1>8, <1>9, <1>10, <1>11, <1>12, <1>13,
     <1>14, <1>15, <1>16, <1>17, <1>18, <1>19, <1>20, <1>21, <1>22, <1>23, <1>24,
     <1>25, <1>26, <1>27, <1>28, <1>29, <1>30, <1>31, <1>32, <1>33, TransitionsMove
     DEF CommitNext, CommitStep, CancelStep

(* Every step is one of the handler around some operation.                 *)
LEMMA HandlerSide ==
  ASSUME CommitTypeOK, NothingRecordedYet, [CommitNext]_allVars
  PROVE  [Next]_vars
<1>1. ASSUME NEW r \in Requests, CommitStep(r) \/ CancelStep(r) PROVE [Next]_vars
  <2>1. CASE UNCHANGED effectAt
    BY <1>1, <2>1, InsideShape DEF vars, handlerVars
  <2>2. CASE Cross(r) /\ effectAt[r] = Never
    <3>1. CrossEffect(r)
      BY <1>1, <2>2, InsideShape DEF Cross, CrossEffect
    <3>2. QED
      BY <3>1 DEF Next, RequestStep
  <2>3. CASE Cross(r) /\ effectAt[r] # Never
    <3>1. effectAt' = effectAt
      BY <2>3 DEF Cross, CommitTypeOK, TypeOK
    <3>2. QED
      BY <1>1, <3>1, InsideShape DEF vars, handlerVars
  <2>4. QED
    BY <1>1, <2>1, <2>2, <2>3, InsideShape
<1>2. ASSUME NEW r \in Requests, Claims(r) \/ OperationPanics(r) \/ Disposes(r)
      PROVE  [Next]_vars
  BY <1>2 DEF Claims, OperationPanics, Disposes, Next, RequestStep
<1>3. ASSUME NEW r \in Requests, OperationReturns(r) PROVE [Next]_vars
  <2>1. Return(r)
    BY <1>3 DEF OperationReturns, Return, NothingRecordedYet
  <2>2. QED
    BY <2>1 DEF Next, RequestStep
<1>4. CASE ClockTicks
  BY <1>4 DEF ClockTicks, Next
<1>5. CASE UNCHANGED allVars
  BY <1>5 DEF allVars
<1>6. QED
  BY <1>1, <1>2, <1>3, <1>4, <1>5, CommitConstants DEF CommitNext

(* UpdateTask keeps the types of the store and returns a task.              *)
LEMMA WrittenType ==
  ASSUME task \in [Commits -> Tasks], NEW t \in Commits, NEW new \in Tasks
  PROVE  /\ Written(t, new) \in [Commits -> Tasks]
         /\ Written(t, new)[t] \in Tasks
<1>1. [new EXCEPT !.version = @ + 1] \in Tasks
  BY DEF Tasks
<1>2. QED
  BY <1>1 DEF Written

(* A record changed in the fields the handlers set is a record.            *)
LEMMA ChangedTask ==
  ASSUME NEW t \in Tasks, NEW state \in TaskStates, NEW bill \in BillStates
  PROVE  /\ [t EXCEPT !.state = state] \in Tasks
         /\ [t EXCEPT !.state = state, !.bill = bill] \in Tasks
  BY DEF Tasks

(* The zero Task is a task.                                                *)
LEMMA ZeroTask == NoTask \in Tasks
  BY BillingConstants DEF NoTask, NoReceipt, Tasks, Receipts, TaskStates, BillStates,
     Terminal

(* appendAudit keeps the type of the chains.                               *)
LEMMA RecordType ==
  ASSUME audit \in [Commits -> Seq(AuditEvents)], NEW t \in Commits,
         NEW events \in Seq(AuditEvents), Record(t, events)
  PROVE  audit' \in [Commits -> Seq(AuditEvents)]
<1>1. ASSUME NEW kept \in Kept(events) PROVE kept \in Seq(AuditEvents)
  <2>1. \/ kept = events
        \/ kept = <<>>
        \/ \E i \in DOMAIN events : kept = <<events[i]>>
    BY Zenon DEF Kept
  <2>2. CASE \E i \in DOMAIN events : kept = <<events[i]>>
    <3>1. PICK i \in DOMAIN events : kept = <<events[i]>>
      BY <2>2
    <3>2. events[i] \in AuditEvents
      OBVIOUS
    <3>3. QED
      BY <3>1, <3>2
  <2>3. <<>> \in Seq(AuditEvents)
    OBVIOUS
  <2>4. CASE kept = events \/ kept = <<>>
    BY <2>3, <2>4
  <2>5. QED
    BY <2>1, <2>2, <2>4, Zenon
<1>2. PICK kept \in Kept(events) : audit' = [audit EXCEPT ![t] = audit[t] \o kept]
  BY DEF Record
<1>3. audit[t] \o kept \in Seq(AuditEvents)
  BY <1>1
<1>4. QED
  BY <1>2, <1>3

(* A named event is an audit event.                                        *)
LEMMA EventType ==
  ASSUME NEW a \in AuditTypes
  PROVE  Event(a) \in AuditEvents
  BY DEF Event, AuditEvents

-----------------------------------------------------------------------------
(* Types of the control state                                              *)

(* The events appended are those of AuditEvents.                           *)
LEMMA EventsType ==
  ASSUME NEW a \in AuditTypes, NEW b \in AuditTypes
  PROVE  /\ <<>> \in Seq(AuditEvents)
         /\ <<Event(a)>> \in Seq(AuditEvents)
         /\ <<Event(a), Event(b)>> \in Seq(AuditEvents)
<1>1. Event(a) \in AuditEvents /\ Event(b) \in AuditEvents
  BY EventType
<1>2. ASSUME NEW S, NEW x \in S, NEW y \in S
      PROVE  <<>> \in Seq(S) /\ <<x>> \in Seq(S) /\ <<x, y>> \in Seq(S)
  OBVIOUS
<1>3. QED
  BY <1>1, <1>2, Zenon

(* Where the request goes next, and what it answers.                       *)
ControlTypeOK ==
  /\ at \in [Requests -> CommitCalls \cup CancelCalls]
  /\ \A r \in Commits : at[r] \in CommitCalls
  /\ \A r \in Cancels : at[r] \in CancelCalls
  /\ result \in [Requests -> Results]

DataTypeOK ==
  /\ task \in [Commits -> Tasks]
  /\ audit \in [Commits -> Seq(AuditEvents)]
  /\ performed \subseteq Commits
  /\ snap \in [Requests -> Tasks]
  /\ held \in [Commits -> Holds \cup {None}]
  /\ charge \in [Commits -> Amounts \cup {NoAmount}]
  /\ root \in [Commits -> Nat]

(* The two halves of the type invariant.                                   *)
LEMMA OperationTypeParts == OperationTypeOK <=> ControlTypeOK /\ DataTypeOK
  BY DEF OperationTypeOK, ControlTypeOK, DataTypeOK

(* A commit that moves to one of its calls keeps the control typed.        *)
LEMMA CommitControl ==
  ASSUME ControlTypeOK, NEW r \in Commits, NEW to \in CommitCalls,
         at' = [at EXCEPT ![r] = to],
         \/ UNCHANGED result
         \/ \E res \in Results : result' = [result EXCEPT ![r] = res]
  PROVE  ControlTypeOK'
<1>1. result' \in [Requests -> Results]
  BY DEF ControlTypeOK
<1>2. r \in Requests /\ r \notin Cancels
  BY CommitConstants
<1>3. /\ at' \in [Requests -> CommitCalls \cup CancelCalls]
      /\ \A x \in Requests : at'[x] = IF x = r THEN to ELSE at[x]
  BY <1>2 DEF ControlTypeOK
<1>4. QED
  BY <1>1, <1>2, <1>3, CommitConstants DEF ControlTypeOK

(* And so does a cancel.                                                   *)
LEMMA CancelControl ==
  ASSUME ControlTypeOK, NEW r \in Cancels, NEW to \in CancelCalls,
         at' = [at EXCEPT ![r] = to],
         \/ UNCHANGED result
         \/ \E res \in Results : result' = [result EXCEPT ![r] = res]
  PROVE  ControlTypeOK'
<1>1. result' \in [Requests -> Results]
  BY DEF ControlTypeOK
<1>2. r \in Requests /\ r \notin Commits
  BY CommitConstants
<1>3. /\ at' \in [Requests -> CommitCalls \cup CancelCalls]
      /\ \A x \in Requests : at'[x] = IF x = r THEN to ELSE at[x]
  BY <1>2 DEF ControlTypeOK
<1>4. QED
  BY <1>1, <1>2, <1>3, CommitConstants DEF ControlTypeOK

(* What Result makes is a result.                                          *)
LEMMA ResultType ==
  ASSUME NEW kind \in {"none", "done", "problem", "retry", "unknown"},
         NEW t \in Commits \cup {None}
  PROVE  Result(kind, t) \in Results
  BY DEF Result, Results

(* Every request moves along the calls of its own operation.               *)
LEMMA ControlStep ==
  ASSUME ControlTypeOK, [CommitNext]_allVars
  PROVE  ControlTypeOK'
<1>1. ASSUME NEW r \in Commits, Moves(r) PROVE ControlTypeOK'
  <2>1. AfterTransition \cup {"return"} \subseteq CommitCalls
    BY DEF AfterTransition, CommitCalls
  <2>2. Result("unknown", None) \in Results
    BY ResultType
  <2>3. QED
    BY <1>1, <2>1, <2>2, CommitControl, Zenon DEF Moves
<1>2. ASSUME NEW r \in Commits, Attach(r) PROVE ControlTypeOK'
  <2>1. {"issue", "return"} \subseteq CommitCalls
    BY DEF CommitCalls
  <2>2. Result("done", r) \in Results
    BY ResultType
  <2>3. QED
    BY <1>2, <2>1, <2>2, AttachShape, CommitControl, Zenon
<1> USE CommitConstants DEF ControlTypeOK, Inside, Decide, Result, Results,
        CommitCalls, CancelCalls, opVars
<1>3. ASSUME NEW r \in Commits, ValidateOk(r) PROVE ControlTypeOK'
  BY <1>3 DEF ValidateOk
<1>4. ASSUME NEW r \in Commits, ValidateRefuses(r) PROVE ControlTypeOK'
  <2>1. {"return"} \subseteq CommitCalls
    OBVIOUS
  <2>2. Result("problem", None) \in Results /\ Result("retry", None) \in Results
    BY ResultType
  <2>3. QED
    BY <1>4, <2>1, <2>2, CommitControl, Zenon DEF ValidateRefuses, Inside, Decide
<1>5. ASSUME NEW r \in Commits, ReserveFree(r) PROVE ControlTypeOK'
  BY <1>5 DEF ReserveFree
<1>6. ASSUME NEW r \in Commits, ReserveOk(r) PROVE ControlTypeOK'
  BY <1>6 DEF ReserveOk
<1>7. ASSUME NEW r \in Commits, ReserveRefused(r) PROVE ControlTypeOK'
  <2>1. {"return"} \subseteq CommitCalls
    OBVIOUS
  <2>2. Result("problem", None) \in Results /\ Result("retry", None) \in Results
    BY ResultType
  <2>3. QED
    BY <1>7, <2>1, <2>2, CommitControl, Zenon DEF ReserveRefused, Inside, Decide
<1>8. ASSUME NEW r \in Commits, ReserveUnknown(r) PROVE ControlTypeOK'
  BY <1>8 DEF ReserveUnknown
<1>9. ASSUME NEW r \in Commits, PutTask(r) PROVE ControlTypeOK'
  BY <1>9 DEF PutTask
<1>10. ASSUME NEW r \in Commits, PutTaskFails(r) PROVE ControlTypeOK'
  BY <1>10 DEF PutTaskFails
<1>11. ASSUME NEW r \in Commits, StartOk(r) PROVE ControlTypeOK'
  BY <1>11 DEF StartOk
<1>12. ASSUME NEW r \in Commits, StartFails(r) PROVE ControlTypeOK'
  BY <1>12 DEF StartFails
<1>13. ASSUME NEW r \in Commits, Abandon(r) PROVE ControlTypeOK'
  BY <1>13 DEF Abandon
<1>14. ASSUME NEW r \in Commits, ExecuteOk(r) PROVE ControlTypeOK'
  BY <1>14 DEF ExecuteOk
<1>15. ASSUME NEW r \in Commits, ExecuteProblem(r) PROVE ControlTypeOK'
  BY <1>15 DEF ExecuteProblem
<1>16. ASSUME NEW r \in Commits, Void(r) PROVE ControlTypeOK'
  BY <1>16 DEF Void
<1>17. ASSUME NEW r \in Commits, VoidPrice(r) PROVE ControlTypeOK'
  BY <1>17 DEF VoidPrice
<1>18. ASSUME NEW r \in Commits, SettleOk(r) PROVE ControlTypeOK'
  BY <1>18 DEF SettleOk
<1>19. ASSUME NEW r \in Commits, SettleFails(r) PROVE ControlTypeOK'
  BY <1>19 DEF SettleFails
<1>20. ASSUME NEW r \in Commits, Report(r) PROVE ControlTypeOK'
  BY <1>20 DEF Report
<1>21. ASSUME NEW r \in Commits, Close(r) PROVE ControlTypeOK'
  BY <1>21 DEF Close
<1>22. ASSUME NEW r \in Commits, Anchor(r) PROVE ControlTypeOK'
  <2>1. {"attach", "return"} \subseteq CommitCalls
    OBVIOUS
  <2>2. Result("done", r) \in Results
    BY ResultType
  <2>3. QED
    BY <1>22, <2>1, <2>2, CommitControl, Zenon DEF Anchor, Inside, Decide
<1>23. ASSUME NEW r \in Commits, Issue(r) PROVE ControlTypeOK'
  BY <1>23 DEF Issue
<1>24. ASSUME NEW r \in Cancels, ReadRecord(r) \/ CloneBilling(r) \/ CloneRefuses(r)
       PROVE  ControlTypeOK'
  <2>1. {"clone", "release", "cancel", "return"} \subseteq CancelCalls
    OBVIOUS
  <2>2. Result("problem", None) \in Results
    BY ResultType
  <2>3. CASE ReadRecord(r)
    BY <2>1, <2>3, CancelControl, Zenon DEF ReadRecord, Inside, opVars
  <2>4. CASE CloneBilling(r)
    <3>1. PICK to \in {"release", "cancel"} : Inside(r, "clone", to) /\ UNCHANGED result
      BY <2>4 DEF CloneBilling
    <3>2. QED
      BY <2>1, <3>1, CancelControl, Zenon DEF Inside
  <2>5. CASE CloneRefuses(r)
    BY <2>1, <2>2, <2>5, CancelControl, Zenon DEF CloneRefuses, Inside, Decide
  <2>6. QED
    BY <1>24, <2>3, <2>4, <2>5
<1>25. ASSUME NEW r \in Cancels, ReadRefuses(r) PROVE ControlTypeOK'
  BY <1>25 DEF ReadRefuses
<1>26. ASSUME NEW r \in Cancels, CancelReleases(r) PROVE ControlTypeOK'
  <2>1. {"cancel", "return"} \subseteq CancelCalls
    OBVIOUS
  <2>2. Result("problem", None) \in Results /\ Result("unknown", None) \in Results
    BY ResultType
  <2>3. QED
    BY <1>26, <2>1, <2>2, CancelControl, Zenon DEF CancelReleases, Inside, Decide
<1>27. ASSUME NEW r \in Cancels, CancelUpdates(r) PROVE ControlTypeOK'
  <2>1. {"report", "return"} \subseteq CancelCalls
    OBVIOUS
  <2>2. Result("problem", None) \in Results
    BY ResultType
  <2>3. QED
    BY <1>27, <2>1, <2>2, CancelControl, Zenon DEF CancelUpdates, Inside, Decide
<1>28. ASSUME NEW r \in Cancels, CancelReports(r) PROVE ControlTypeOK'
  BY <1>28 DEF CancelReports, TaskOf
<1>29. ASSUME NEW r \in Requests,
              Claims(r) \/ OperationReturns(r) \/ OperationPanics(r) \/ Disposes(r)
      PROVE  ControlTypeOK'
  BY <1>29 DEF Claims, OperationReturns, OperationPanics, Disposes
<1>30. CASE ClockTicks \/ UNCHANGED allVars
  BY <1>30 DEF ClockTicks, allVars
<1> HIDE CommitConstants DEF ControlTypeOK, Inside, Decide, Result, Results,
         CommitCalls, CancelCalls, opVars
<1>31. QED
  BY <1>1, <1>2, <1>3, <1>4, <1>5, <1>6, <1>7, <1>8, <1>9, <1>10, <1>11, <1>12, <1>13,
     <1>14, <1>15, <1>16, <1>17, <1>18, <1>19, <1>20, <1>21, <1>22, <1>23, <1>24,
     <1>25, <1>26, <1>27, <1>28, <1>29, <1>30, TransitionsMove DEF CommitNext,
     CommitStep, CancelStep

-----------------------------------------------------------------------------
(* Types of the records                                                    *)

(* A commit names its own hold and settlement, and a quote's money is typed.*)
LEMMA QuoteType ==
  ASSUME NEW r \in Commits
  PROVE  /\ r \in Requests
         /\ r \in Holds
         /\ r \in SettleRefs
         /\ Commit[r].key \in BillKeys
         /\ QuoteOf(r).price \in Amounts
         /\ QuoteOf(r).ceiling \in Amounts
  BY CommitConstants DEF QuoteOf

(* The fields PutTask fills in.                                            *)
LEMMA NewTask ==
  ASSUME NEW t \in Tasks, NEW bill \in BillStates, NEW h \in Holds \cup {None},
         NEW amount \in Amounts \cup {NoAmount}
  PROVE  [t EXCEPT !.state = "accepted", !.version = 1, !.bill = bill,
                   !.hold = h, !.amount = amount] \in Tasks
  BY DEF Tasks, TaskStates

(* The record of an accepted task is typed, given its reservation.         *)
LEMMA AcceptedType ==
  ASSUME BillTypeOK, DataTypeOK, NEW r \in Commits, ~QuoteOf(r).free => held[r] \in Holds
  PROVE  Accepted(r) \in Tasks
<1> DEFINE bill == IF QuoteOf(r).free THEN "not_billed" ELSE "reserved"
           amount == IF QuoteOf(r).free THEN QuoteOf(r).ceiling ELSE hold[held[r]]
<1>1. bill \in BillStates /\ "accepted" \in TaskStates
  BY DEF BillStates, TaskStates
<1>2. amount \in Amounts \cup {NoAmount}
  BY QuoteType DEF BillTypeOK
<1>3. held[r] \in Holds \cup {None}
  BY DEF DataTypeOK
<1>4. Accepted(r) = [NoTask EXCEPT !.state = "accepted", !.version = 1,
                                   !.bill = bill, !.hold = held[r], !.amount = amount]
  BY DEF Accepted
<1> HIDE DEF bill, amount
<1>5. [NoTask EXCEPT !.state = "accepted", !.version = 1,
                     !.bill = bill, !.hold = held[r], !.amount = amount] \in Tasks
  BY <1>1, <1>2, <1>3, ZeroTask, NewTask, Zenon
<1>6. QED
  BY <1>4, <1>5, Zenon

(* UpdateTask keeps the store and the copy typed, failing or not.          *)
LEMMA StoreType ==
  ASSUME DataTypeOK, NEW r \in Requests, NEW t \in Commits, NEW new \in Tasks,
         Store(r, t, new) \/ StoreFails(r, t, new)
  PROVE  task' \in [Commits -> Tasks] /\ snap' \in [Requests -> Tasks]
<1>1. Written(t, new) \in [Commits -> Tasks] /\ Written(t, new)[t] \in Tasks
  BY WrittenType DEF DataTypeOK
<1>2. task' \in {task, Written(t, new)}
  BY Zenon DEF Store, StoreFails, StoreErrs
<1>3. \E copy \in Tasks : snap' = [snap EXCEPT ![r] = copy]
  BY <1>1, ZeroTask, Zenon DEF Store, StoreFails
<1>4. QED
  BY <1>1, <1>2, <1>3 DEF DataTypeOK

(* A step that leaves all but the chains, or all but the store, alone.     *)
LEMMA RecordKeepsTypes ==
  ASSUME DataTypeOK, NEW t \in Commits, NEW events \in Seq(AuditEvents), Record(t, events),
         UNCHANGED <<task, performed, snap, held, charge, root>>
  PROVE  DataTypeOK'
  BY RecordType DEF DataTypeOK

(* A transition keeps everything typed.                                    *)
LEMMA TransitionType ==
  ASSUME DataTypeOK, NEW r \in Commits, NEW from, NEW to,
         NEW events \in Seq(AuditEvents), NEW new \in Tasks,
         Transition(r, from, to, events, new)
  PROVE  DataTypeOK'
<1>1. r \in Requests
  BY QuoteType
<1>2. /\ Record(r, events)
      /\ Store(r, r, new) \/ StoreFails(r, r, new)
      /\ UNCHANGED <<performed, held, charge, root>>
  BY Zenon DEF Transition
<1>3. audit' \in [Commits -> Seq(AuditEvents)]
  BY <1>2, RecordType DEF DataTypeOK
<1>4. task' \in [Commits -> Tasks] /\ snap' \in [Requests -> Tasks]
  BY <1>1, <1>2, StoreType
<1>5. QED
  BY <1>2, <1>3, <1>4 DEF DataTypeOK

(* The fields Bind fills in.                                               *)
LEMMA BoundTask ==
  ASSUME NEW t \in Tasks, NEW s \in SettleRefs, NEW a \in Amounts \cup {NoAmount}
  PROVE  [t EXCEPT !.settlement = s, !.amount = a, !.bill = "settled"] \in Tasks
  BY DEF Tasks, BillStates

(* The field Attach fills in.                                              *)
LEMMA ReceiptedTask ==
  ASSUME NEW t \in Tasks, NEW receipt \in Receipts
  PROVE  [t EXCEPT !.receipt = receipt] \in Tasks
  BY DEF Tasks

(* A transition starts from its own call.                                  *)
LEMMA TransitionShapeAt ==
  ASSUME NEW r, NEW from, NEW to, NEW events, NEW new, Transition(r, from, to, events, new)
  PROVE  at[r] = from
  BY Zenon DEF Transition, Inside, Decide

(* The six transitions keep everything typed.                              *)
LEMMA TransitionTypes ==
  ASSUME BillTypeOK, DataTypeOK, OperandsKnown, NEW r \in Commits,
         \/ VoidPending(r) \/ Fail(r) \/ Dispute(r)
         \/ SettlePending(r) \/ Bind(r) \/ Succeed(r)
  PROVE  DataTypeOK'
<1>1. task[r] \in Tasks
  BY DEF DataTypeOK
<1>2. /\ {"waiting_input", "failed", "disputed", "succeeded"} \subseteq TaskStates
      /\ {"voided", "settled"} \subseteq BillStates
  BY DEF TaskStates, BillStates, Terminal
<1>3. <<>> \in Seq(AuditEvents) /\ <<Event("settled")>> \in Seq(AuditEvents)
  <2>1. "settled" \in AuditTypes
    BY DEF AuditTypes
  <2>2. QED
    BY <2>1, EventsType, Zenon
<1>4. CASE VoidPending(r)
  <2>1. [task[r] EXCEPT !.state = "waiting_input"] \in Tasks
    BY <1>1, <1>2, ChangedTask
  <2>2. QED
    BY <1>3, <1>4, <2>1, TransitionType, Zenon DEF VoidPending
<1>5. CASE Fail(r)
  <2>1. [task[r] EXCEPT !.state = "failed", !.bill = "voided"] \in Tasks
    BY <1>1, <1>2, ChangedTask
  <2>2. QED
    BY <1>3, <1>5, <2>1, TransitionType, Zenon DEF Fail
<1>6. CASE Dispute(r)
  <2>1. /\ [task[r] EXCEPT !.state = "disputed"] \in Tasks
        /\ [task[r] EXCEPT !.state = "disputed", !.bill = "voided"] \in Tasks
    BY <1>1, <1>2, ChangedTask
  <2>2. QED
    BY <1>3, <1>6, <2>1, TransitionType, Zenon DEF Dispute
<1>7. CASE SettlePending(r)
  <2>1. [task[r] EXCEPT !.state = "waiting_input"] \in Tasks
    BY <1>1, <1>2, ChangedTask
  <2>2. QED
    BY <1>3, <1>7, <2>1, TransitionType, Zenon DEF SettlePending
<1>8. CASE Bind(r)
  <2> DEFINE s == settleByKey[held[r]][Commit[r].key]
  <2>1. at[r] = "bind"
    BY <1>8, TransitionShapeAt, Zenon DEF Bind
  <2>2. s \in SettleRefs
    BY <2>1 DEF OperandsKnown
  <2>3. settled[s] \in Amounts \cup {NoAmount}
    BY <2>2 DEF BillTypeOK
  <2>4. [task[r] EXCEPT !.settlement = s, !.amount = settled[s], !.bill = "settled"] \in Tasks
    BY <1>1, <2>2, <2>3, BoundTask
  <2>5. QED
    BY <1>3, <1>8, <2>4, TransitionType, Zenon DEF Bind
<1>9. CASE Succeed(r)
  <2>1. [task[r] EXCEPT !.state = "succeeded"] \in Tasks
    BY <1>1, <1>2, ChangedTask
  <2> DEFINE events == IF held[r] = None THEN <<>> ELSE <<Event("settled")>>
  <2>2. events \in Seq(AuditEvents)
    BY <1>3
  <2>3. Transition(r, "succeed", "succeeded", events,
                   [task[r] EXCEPT !.state = "succeeded"])
    BY <1>9, Zenon DEF Succeed
  <2> HIDE DEF events
  <2>4. QED
    BY <2>1, <2>2, <2>3, TransitionType, Zenon
<1>10. QED
  BY <1>4, <1>5, <1>6, <1>7, <1>8, <1>9

(* Every action keeps the store, the chains and the operands typed.        *)
LEMMA DataStep ==
  ASSUME TypeOK, BillTypeOK, ControlTypeOK, DataTypeOK, OperandsKnown, [CommitNext]_allVars
  PROVE  DataTypeOK'
<1> DEFINE same == UNCHANGED <<task, audit, performed, snap, held, charge, root>>
<1>1. CASE same
  BY <1>1 DEF DataTypeOK
<1>2. ASSUME NEW r \in Commits,
             \/ ValidateOk(r) \/ ValidateRefuses(r) \/ ReserveFree(r)
             \/ ReserveRefused(r) \/ ReserveUnknown(r) \/ Abandon(r)
             \/ Void(r) \/ VoidPrice(r) \/ SettleOk(r) \/ SettleFails(r)
      PROVE  DataTypeOK'
  BY <1>1, <1>2, Zenon
  DEF ValidateOk, ValidateRefuses, ReserveFree, ReserveRefused, ReserveUnknown, Abandon,
      Void, VoidPrice, SettleOk, SettleFails
<1>3. ASSUME NEW r \in Commits, ReserveOk(r) PROVE DataTypeOK'
  <2>1. /\ \E h \in Holds : held' = [held EXCEPT ![r] = h]
        /\ UNCHANGED <<task, audit, performed, snap, charge, root>>
    BY <1>3, Zenon DEF ReserveOk
  <2>2. QED
    BY <2>1 DEF DataTypeOK
<1>4. ASSUME NEW r \in Commits, PutTask(r) \/ PutTaskFails(r) PROVE DataTypeOK'
  <2>1. at[r] = "put"
    BY <1>4, Zenon DEF PutTask, PutTaskFails, Inside
  <2>2. Accepted(r) \in Tasks
    BY <2>1, AcceptedType DEF OperandsKnown
  <2>3. /\ task' = task \/ task' = [task EXCEPT ![r] = Accepted(r)]
        /\ snap' = snap \/ snap' = [snap EXCEPT ![r] = Accepted(r)]
        /\ UNCHANGED <<audit, performed, held, charge, root>>
    BY <1>4, Zenon DEF PutTask, PutTaskFails
  <2>4. QED
    BY <2>2, <2>3 DEF DataTypeOK
<1>5. ASSUME NEW r \in Commits, StartOk(r) \/ StartFails(r) PROVE DataTypeOK'
  <2> DEFINE new == [task[r] EXCEPT !.state = "running"]
             events == <<Event("accepted"), Event("reserved")>>
  <2>1. "running" \in TaskStates /\ {"accepted", "reserved"} \subseteq AuditTypes
    BY DEF TaskStates, AuditTypes
  <2>2. new \in Tasks
    <3>1. task[r] \in Tasks
      BY DEF DataTypeOK
    <3>2. "reserved" \in BillStates
      BY DEF BillStates
    <3>3. QED
      BY <2>1, <3>1, <3>2, ChangedTask
  <2>3. events \in Seq(AuditEvents)
    BY <2>1, EventsType, Zenon
  <2>4. /\ Record(r, events)
        /\ Store(r, r, new) \/ StoreFails(r, r, new)
        /\ UNCHANGED <<performed, held, charge, root>>
    BY <1>5, Zenon DEF StartOk, StartFails
  <2> HIDE DEF new, events
  <2>5. audit' \in [Commits -> Seq(AuditEvents)]
    BY <2>3, <2>4, RecordType DEF DataTypeOK
  <2>6. task' \in [Commits -> Tasks] /\ snap' \in [Requests -> Tasks]
    BY <2>2, <2>4, StoreType, QuoteType
  <2>7. QED
    BY <2>4, <2>5, <2>6 DEF DataTypeOK
<1>6. ASSUME NEW r \in Commits, ExecuteOk(r) \/ ExecuteProblem(r) PROVE DataTypeOK'
  <2>1. "running" \in AuditTypes
    BY DEF AuditTypes
  <2>2. <<Event("running")>> \in Seq(AuditEvents)
    BY <2>1, EventsType, Zenon
  <2>3. Record(r, <<Event("running")>>)
    BY <1>6, Zenon DEF ExecuteOk, ExecuteProblem
  <2>4. audit' \in [Commits -> Seq(AuditEvents)]
    BY <2>2, <2>3, RecordType DEF DataTypeOK
  <2>5. \A reported \in Amounts \cup {NoAmount} : FinalPrice(QuoteOf(r), reported) \in Amounts
    BY QuoteType DEF FinalPrice
  <2>6. /\ UNCHANGED charge \/ \E price \in Amounts : charge' = [charge EXCEPT ![r] = price]
        /\ UNCHANGED performed \/ performed' = performed \cup {r}
        /\ UNCHANGED <<task, snap, held, root>>
    BY <1>6, <2>5, Zenon DEF ExecuteOk, ExecuteProblem
  <2>7. QED
    BY <2>4, <2>6 DEF DataTypeOK
<1>7. ASSUME NEW r \in Commits, Report(r) \/ Close(r) PROVE DataTypeOK'
  <2>1. at[r] \in {"void_pending", "disputed", "settlement_pending", "succeeded", "failed"}
    BY <1>7 DEF Report, Close, Decide, Inside
  <2>2. <<Event(at[r])>> \in Seq(AuditEvents)
    <3>1. at[r] \in AuditTypes
      BY <2>1 DEF AuditTypes
    <3>2. QED
      BY <3>1, EventsType, Zenon
  <2>3. QED
    BY <1>7, <2>2, RecordKeepsTypes, Zenon DEF Report, Close
<1>8. ASSUME NEW r \in Commits, Anchor(r) PROVE DataTypeOK'
  <2>1. Len(audit[r]) \in Nat
    BY DEF DataTypeOK
  <2>2. /\ root' = [root EXCEPT ![r] = Len(audit[r])]
        /\ UNCHANGED <<task, audit, performed, snap, held, charge>>
    BY <1>8, Zenon DEF Anchor
  <2>3. QED
    BY <2>1, <2>2 DEF DataTypeOK
<1>9. ASSUME NEW r \in Commits, Attach(r) PROVE DataTypeOK'
  <2>1. Receipt(r) \in Receipts
    BY QuoteType DEF Receipt, Receipts, Tasks, DataTypeOK
  <2>2. [task[r] EXCEPT !.receipt = Receipt(r)] \in Tasks
    BY <2>1, ReceiptedTask DEF DataTypeOK
  <2>3. task' \in [Commits -> Tasks] /\ snap' \in [Requests -> Tasks]
    <3> DEFINE new == [task[r] EXCEPT !.receipt = Receipt(r)]
    <3>1. CASE Store(r, r, new)
      BY <2>2, <3>1, StoreType, QuoteType, Zenon
    <3>2. CASE StoreErrs(r, new) /\ UNCHANGED snap
      BY <2>2, <3>2, WrittenType, Zenon DEF StoreErrs, DataTypeOK
    <3>3. QED
      BY <1>9, <3>1, <3>2, Zenon DEF Attach
  <2>4. QED
    BY <1>9, <2>3, AttachShape DEF DataTypeOK
<1>10. ASSUME NEW r \in Commits, Issue(r) PROVE DataTypeOK'
  <2> DEFINE event == [type |-> "receipt", anchor |-> root[r]]
  <2>1. event \in AuditEvents
    BY DEF AuditEvents, AuditTypes, DataTypeOK
  <2> HIDE DEF event
  <2>2. <<event>> \in Seq(AuditEvents)
    BY <2>1
  <2>3. QED
    BY <1>10, <2>2, RecordKeepsTypes, Zenon DEF Issue, event
<1>11. ASSUME NEW r \in Cancels, ReadRecord(r) \/ CloneBilling(r) PROVE DataTypeOK'
  <2>1. TaskOf(r) \in Commits /\ r \in Requests
    BY CommitConstants DEF TaskOf
  <2>2. task[TaskOf(r)] \in Tasks /\ snap[r] \in Tasks
    BY <2>1 DEF DataTypeOK
  <2>3. WithBilling(snap[r], task[TaskOf(r)]) \in Tasks
    BY <2>2 DEF WithBilling, Tasks
  <2>4. /\ \/ snap' = [snap EXCEPT ![r] = task[TaskOf(r)]]
           \/ snap' = [snap EXCEPT ![r] = WithBilling(snap[r], task[TaskOf(r)])]
        /\ UNCHANGED <<task, audit, performed, held, charge, root>>
    BY <1>11, Zenon DEF ReadRecord, CloneBilling
  <2>5. QED
    BY <2>2, <2>3, <2>4 DEF DataTypeOK
<1>12. ASSUME NEW r \in Cancels, ReadRefuses(r) \/ CloneRefuses(r) \/ CancelReleases(r)
       PROVE  DataTypeOK'
  BY <1>1, <1>12, Zenon DEF ReadRefuses, CloneRefuses, CancelReleases
<1>13. ASSUME NEW r \in Cancels, CancelUpdates(r) PROVE DataTypeOK'
  <2>1. TaskOf(r) \in Commits /\ r \in Requests
    BY CommitConstants DEF TaskOf
  <2>2. task[TaskOf(r)] \in Tasks
    BY <2>1 DEF DataTypeOK
  <2>3. Cancelled(TaskOf(r)) \in Tasks
    <3> DEFINE bill == IF Unsettled(task[TaskOf(r)]) THEN "released"
                                                     ELSE task[TaskOf(r)].bill
    <3>1. bill \in BillStates /\ "cancelled" \in TaskStates
      BY <2>2 DEF BillStates, TaskStates, Terminal, Tasks
    <3>2. Cancelled(TaskOf(r)) =
            [task[TaskOf(r)] EXCEPT !.state = "cancelled", !.bill = bill]
      BY <2>2 DEF Cancelled, Tasks
    <3> HIDE DEF bill
    <3>3. [task[TaskOf(r)] EXCEPT !.state = "cancelled", !.bill = bill] \in Tasks
      BY <2>2, <3>1, ChangedTask, Zenon
    <3>4. QED
      BY <3>2, <3>3, Zenon
  <2>4. /\ Store(r, TaskOf(r), Cancelled(TaskOf(r))) \/ StoreFails(r, TaskOf(r), Cancelled(TaskOf(r)))
        /\ UNCHANGED <<audit, performed, held, charge, root>>
    BY <1>13, Zenon DEF CancelUpdates
  <2>5. task' \in [Commits -> Tasks] /\ snap' \in [Requests -> Tasks]
    BY <2>1, <2>3, <2>4, StoreType, Zenon
  <2>6. QED
    BY <2>4, <2>5 DEF DataTypeOK
<1>14. ASSUME NEW r \in Cancels, CancelReports(r) PROVE DataTypeOK'
  <2>1. "cancelled" \in AuditTypes /\ TaskOf(r) \in Commits
    BY CommitConstants DEF TaskOf, AuditTypes
  <2>2. <<Event("cancelled")>> \in Seq(AuditEvents)
    BY <2>1, EventsType, Zenon
  <2>3. QED
    BY <1>14, <2>1, <2>2, RecordKeepsTypes, Zenon DEF CancelReports
<1>15. ASSUME NEW r \in Requests,
              Claims(r) \/ OperationReturns(r) \/ OperationPanics(r) \/ Disposes(r)
       PROVE  DataTypeOK'
  BY <1>1, <1>15 DEF Claims, OperationReturns, OperationPanics, Disposes, opVars
<1>16. CASE ClockTicks \/ UNCHANGED allVars
  BY <1>1, <1>16 DEF ClockTicks, allVars, opVars
<1> HIDE DEF same
<1>17. QED
  BY <1>2, <1>3, <1>4, <1>5, <1>6, <1>7, <1>8, <1>9, <1>10, <1>11, <1>12, <1>13, <1>14,
     <1>15, <1>16, TransitionTypes
  DEF CommitNext, CommitStep, CancelStep

-----------------------------------------------------------------------------
(* The processor                                                           *)

(* The operations call the processor through Reserve, Settle and Release.  *)
LEMMA Releases ==
  ASSUME NEW h \in Holds, ReleaseHold(h) \/ VoidFails(h)
  PROVE  [BillNext]_billVars
  BY Zenon DEF VoidFails, BillNext, Releasing

(* Every step leaves the processor alone or is one of its calls.           *)
LEMMA BillSide ==
  ASSUME BillTypeOK, ControlTypeOK, DataTypeOK, OperandsKnown, [CommitNext]_allVars
  PROVE  [BillNext]_billVars
<1>1. CASE UNCHANGED billVars
  BY <1>1
<1>2. ASSUME NEW r \in Commits, NEW h \in Holds, Reserves(r, h) PROVE [BillNext]_billVars
  <2>1. /\ Commit[r].quote \in Contracts /\ Commit[r].quote \in Bindings
        /\ Commit[r].key \in BillKeys
        /\ Commit[r].auth \in Authorizations
        /\ QuoteOf(r).ceiling \in Amounts
    BY CommitConstants, QuoteType
  <2>2. QED
    BY <1>2, <2>1, Zenon DEF Reserves, BillNext, Reserving
<1>3. ASSUME NEW r \in Commits, NEW s \in SettleRefs, at[r] = "settle", Settles(r, s)
      PROVE  [BillNext]_billVars
  <2>1. held[r] \in Holds /\ charge[r] \in Amounts /\ Commit[r].key \in BillKeys
    BY <1>3, QuoteType DEF OperandsKnown
  <2>2. QED
    BY <1>3, <2>1, Zenon DEF Settles, BillNext, Settling
<1>4. ASSUME NEW r \in Commits, ReserveOk(r) \/ ReserveUnknown(r) PROVE [BillNext]_billVars
  BY <1>1, <1>2, <1>4, Zenon DEF ReserveOk, ReserveUnknown
<1>5. ASSUME NEW r \in Commits, Abandon(r) PROVE [BillNext]_billVars
  <2>1. held[r] \in Holds \cup {None}
    BY DEF DataTypeOK
  <2>2. QED
    BY <1>1, <1>5, <2>1, Releases DEF Abandon
<1>6. ASSUME NEW r \in Commits, Void(r) \/ VoidPrice(r) PROVE [BillNext]_billVars
  <2>1. held[r] \in Holds \cup {None}
    BY DEF DataTypeOK
  <2>2. at[r] = "void" => held[r] \in Holds
    BY DEF OperandsKnown
  <2>3. at[r] = "void" \/ held[r] # None \/ UNCHANGED billVars
    BY <1>6, Zenon DEF Void, VoidPrice, Inside
  <2>4. ReleaseHold(held[r]) \/ VoidFails(held[r]) \/ UNCHANGED billVars
    BY <1>6, Zenon DEF Void, VoidPrice
  <2>5. QED
    BY <1>1, <2>1, <2>2, <2>3, <2>4, Releases
<1>7. ASSUME NEW r \in Commits, SettleOk(r) \/ SettleFails(r) PROVE [BillNext]_billVars
  <2>1. CASE SettleOk(r)
    BY <1>3, <2>1, Zenon DEF SettleOk, Inside
  <2>2. CASE SettleFails(r)
    <3>1. at[r] = "settle"
      BY <2>2, Zenon DEF SettleFails, Inside
    <3>2. \/ UNCHANGED billVars
          \/ \E s \in SettleRefs : Settles(r, s)
      BY <2>2, Zenon DEF SettleFails, SettleDeclined
    <3>3. QED
      BY <1>1, <1>3, <3>1, <3>2
  <2>3. QED
    BY <1>7, <2>1, <2>2
<1>8. ASSUME NEW r \in Cancels, CancelReleases(r) PROVE [BillNext]_billVars
  <2>1. at[r] = "release"
    BY <1>8, Zenon DEF CancelReleases, Inside, Decide
  <2>2. snap[r].hold \in Holds
    BY <2>1 DEF OperandsKnown
  <2>3. ReleaseHold(snap[r].hold) \/ VoidFails(snap[r].hold) \/ UNCHANGED billVars
    BY <1>8, Zenon DEF CancelReleases
  <2>4. QED
    BY <1>1, <2>2, <2>3, Releases
<1>9. ASSUME NEW r \in Commits, Moves(r) \/ Attach(r) PROVE UNCHANGED billVars
  BY <1>9, AttachShape, Zenon DEF Moves
<1>10. ASSUME NEW r \in Commits,
              \/ ValidateOk(r) \/ ValidateRefuses(r) \/ ReserveFree(r) \/ ReserveRefused(r)
              \/ PutTask(r) \/ PutTaskFails(r) \/ StartOk(r) \/ StartFails(r)
              \/ ExecuteOk(r) \/ ExecuteProblem(r)
              \/ Report(r) \/ Close(r) \/ Anchor(r) \/ Issue(r)
       PROVE  UNCHANGED billVars
  BY <1>10, Zenon
  DEF ValidateOk, ValidateRefuses, ReserveFree, ReserveRefused, ReserveDeclined, PutTask,
      PutTaskFails, StartOk, StartFails, ExecuteOk, ExecuteProblem, Report, Close,
      Anchor, Issue
<1>11. ASSUME NEW r \in Cancels,
              \/ ReadRecord(r) \/ ReadRefuses(r) \/ CloneBilling(r) \/ CloneRefuses(r)
              \/ CancelUpdates(r) \/ CancelReports(r)
       PROVE  UNCHANGED billVars
  BY <1>11, Zenon DEF ReadRecord, ReadRefuses, CloneBilling, CloneRefuses,
                     CancelUpdates, CancelReports
<1>12. ASSUME NEW r \in Requests,
              Claims(r) \/ OperationReturns(r) \/ OperationPanics(r) \/ Disposes(r)
       PROVE  UNCHANGED billVars
  BY <1>12, Zenon DEF Claims, OperationReturns, OperationPanics, Disposes
<1>13. CASE ClockTicks \/ UNCHANGED allVars
  BY <1>1, <1>13 DEF ClockTicks, allVars
<1>14. QED
  BY <1>1, <1>4, <1>5, <1>6, <1>7, <1>8, <1>9, <1>10, <1>11, <1>12, <1>13,
     TransitionsMove
  DEF CommitNext, CommitStep, CancelStep

-----------------------------------------------------------------------------
(* Operands of the calls                                                   *)

(* What Settle answered for a key is what it answers from then on.         *)
LEMMA SettlementKept ==
  ASSUME BillTypeOK, [BillNext]_billVars, NEW h \in Holds, NEW k \in BillKeys,
         settleByKey[h][k] \in SettleRefs
  PROVE  settleByKey'[h][k] = settleByKey[h][k]
<1>1. settleByKey[h][k] # None
  BY BillingConstants
<1>2. CASE UNCHANGED settleByKey
  BY <1>2
<1>3. ASSUME NEW g \in Holds, NEW j \in BillKeys, NEW s,
             settleByKey[g][j] = None, settleByKey' = [settleByKey EXCEPT ![g][j] = s]
      PROVE  settleByKey'[h][k] = settleByKey[h][k]
  BY <1>1, <1>3 DEF BillTypeOK
<1>4. CASE Settling
  <2>1. PICK g \in Holds, amount \in Amounts, j \in BillKeys :
          \/ \E s \in SettleRefs : SettleExisting(g, amount, j, s)
          \/ \E s \in SettleRefs : SettleNew(g, amount, j, s)
          \/ SettleDeclined(g, amount, j)
    BY <1>4, Zenon DEF Settling
  <2>2. \A s \in SettleRefs :
          SettleExisting(g, amount, j, s) \/ SettleNew(g, amount, j, s) =>
            \/ UNCHANGED settleByKey
            \/ settleByKey[g][j] = None /\ settleByKey' = [settleByKey EXCEPT ![g][j] = s]
    BY Zenon DEF SettleExisting, SettleNew
  <2>3. SettleDeclined(g, amount, j) => UNCHANGED settleByKey
    BY DEF SettleDeclined, billVars
  <2>4. QED
    BY <1>2, <1>3, <2>1, <2>2, <2>3
<1>5. CASE Reserving \/ Releasing \/ Refunding \/ UNCHANGED billVars
  <2>1. CASE Reserving
    <3>1. UNCHANGED settleByKey
      <4>1. PICK c \in Contracts, b \in Bindings, j \in BillKeys, auth \in Authorizations,
                 amount \in Amounts :
              \/ \E g \in Holds : ReserveExisting(c, b, j, auth, amount, g)
              \/ \E g \in Holds : ReserveNew(c, b, j, auth, amount, g)
              \/ ReserveDeclined(c, b, j, auth, amount)
        BY <2>1, Zenon DEF Reserving
      <4>2. QED
        BY <4>1, Zenon DEF ReserveExisting, ReserveNew, ReserveDeclined, billVars
    <3>2. QED
      BY <1>2, <3>1
  <2>2. CASE Releasing
    BY <1>2, <2>2 DEF Releasing, ReleaseHold, ReleaseHoldRefused, billVars
  <2>3. CASE Refunding
    BY <1>2, <2>3 DEF Refunding, RefundExisting, RefundNew, RefundRefused, billVars
  <2>4. QED
    BY <1>2, <1>5, <2>1, <2>2, <2>3 DEF billVars
<1>6. QED
  BY <1>4, <1>5 DEF BillNext

CommitOperands(r) ==
  /\ at[r] = "put" /\ ~QuoteOf(r).free => held[r] \in Holds
  /\ at[r] \in {"void", "settle", "bind"} => held[r] \in Holds
  /\ at[r] = "settle" => charge[r] \in Amounts
  /\ at[r] = "bind" => settleByKey[held[r]][Commit[r].key] \in SettleRefs

CancelOperands(r) == at[r] = "release" => snap[r].hold \in Holds

(* A request whose locals do not change keeps its operands.                *)
LEMMA OperandsKept ==
  ASSUME BillTypeOK, [BillNext]_billVars, OperandsKnown, NEW x \in Requests,
         at'[x] = at[x], snap'[x] = snap[x],
         x \in Commits => held'[x] = held[x] /\ charge'[x] = charge[x]
  PROVE  /\ x \in Commits => CommitOperands(x)'
         /\ x \in Cancels => CancelOperands(x)'
<1>1. CASE x \in Cancels
  BY <1>1, CommitConstants DEF OperandsKnown, CancelOperands
<1>2. CASE x \in Commits
  <2>1. /\ at'[x] = "put" /\ ~QuoteOf(x).free => held'[x] \in Holds
        /\ at'[x] \in {"void", "settle", "bind"} => held'[x] \in Holds
        /\ at'[x] = "settle" => charge'[x] \in Amounts
    BY <1>2 DEF OperandsKnown
  <2>2. ASSUME at'[x] = "bind" PROVE settleByKey'[held'[x]][Commit[x].key] \in SettleRefs
    <3>1. held[x] \in Holds /\ settleByKey[held[x]][Commit[x].key] \in SettleRefs
      BY <1>2, <2>2 DEF OperandsKnown
    <3>2. settleByKey'[held[x]][Commit[x].key] = settleByKey[held[x]][Commit[x].key]
      BY <1>2, <3>1, SettlementKept, QuoteType
    <3>3. QED
      BY <1>2, <3>1, <3>2
  <2>3. QED
    BY <1>2, <2>1, <2>2, CommitConstants DEF CommitOperands, QuoteOf
<1>3. QED
  BY <1>1, <1>2, CommitConstants

(* An operation changes no local variable but its own.                     *)
LEMMA OwnLocals ==
  ASSUME ControlTypeOK, DataTypeOK, NEW r \in Requests, CommitStep(r) \/ CancelStep(r),
         NEW x \in Requests, x # r
  PROVE  /\ at'[x] = at[x]
         /\ snap'[x] = snap[x]
         /\ x \in Commits => held'[x] = held[x] /\ charge'[x] = charge[x]
<1>1. at'[x] = at[x]
  BY InsideShape DEF ControlTypeOK
<1>2. UNCHANGED snap \/ \E copy : snap' = [snap EXCEPT ![r] = copy]
  <2>1. \A t, new : Store(r, t, new) \/ StoreFails(r, t, new)
                      => \E copy : snap' = [snap EXCEPT ![r] = copy]
    BY Zenon DEF Store, StoreFails
  <2>2. CASE CommitStep(r)
    <3>1. CASE \/ VoidPending(r) \/ Fail(r) \/ Dispute(r)
               \/ SettlePending(r) \/ Bind(r) \/ Succeed(r)
      BY <2>1, <3>1, Zenon
      DEF VoidPending, Fail, Dispute, SettlePending, Bind, Succeed, Transition
    <3>2. CASE PutTask(r) \/ StartOk(r) \/ StartFails(r) \/ Attach(r)
      BY <2>1, <3>2, Zenon DEF PutTask, StartOk, StartFails, Attach
    <3>3. CASE \/ ValidateOk(r) \/ ValidateRefuses(r)
               \/ ReserveFree(r) \/ ReserveOk(r) \/ ReserveRefused(r) \/ ReserveUnknown(r)
               \/ PutTaskFails(r) \/ Abandon(r) \/ ExecuteOk(r) \/ ExecuteProblem(r)
               \/ Void(r) \/ VoidPrice(r) \/ SettleOk(r) \/ SettleFails(r)
               \/ Report(r) \/ Close(r) \/ Anchor(r) \/ Issue(r)
      BY <3>3, Zenon
      DEF ValidateOk, ValidateRefuses, ReserveFree, ReserveOk, ReserveRefused,
          ReserveUnknown, PutTaskFails, Abandon, ExecuteOk, ExecuteProblem, Void,
          VoidPrice, SettleOk, SettleFails, Report, Close, Anchor, Issue
    <3>4. QED
      BY <2>2, <3>1, <3>2, <3>3 DEF CommitStep
  <2>3. CASE CancelStep(r)
    BY <2>1, <2>3, Zenon DEF CancelStep, ReadRecord, ReadRefuses, CloneBilling,
       CloneRefuses, CancelReleases, CancelUpdates,
       CancelReports
  <2>4. QED
    BY <2>2, <2>3
<1>3. UNCHANGED held \/ \E h : held' = [held EXCEPT ![r] = h]
  <2>1. CASE CommitStep(r)
    BY <2>1, Zenon
    DEF CommitStep, VoidPending, Fail, Dispute, SettlePending, Bind, Succeed, Transition,
        PutTask, StartOk, StartFails, Attach, ValidateOk, ValidateRefuses, ReserveFree,
        ReserveOk, ReserveRefused, ReserveUnknown, PutTaskFails, Abandon, ExecuteOk,
        ExecuteProblem, Void, VoidPrice, SettleOk, SettleFails, Report, Close, Anchor, Issue
  <2>2. CASE CancelStep(r)
    BY <2>2, Zenon DEF CancelStep, ReadRecord, ReadRefuses, CloneBilling,
       CloneRefuses, CancelReleases, CancelUpdates,
       CancelReports
  <2>3. QED
    BY <2>1, <2>2
<1>4. UNCHANGED charge \/ \E price : charge' = [charge EXCEPT ![r] = price]
  <2>1. CASE CommitStep(r)
    BY <2>1, Zenon
    DEF CommitStep, VoidPending, Fail, Dispute, SettlePending, Bind, Succeed, Transition,
        PutTask, StartOk, StartFails, Attach, ValidateOk, ValidateRefuses, ReserveFree,
        ReserveOk, ReserveRefused, ReserveUnknown, PutTaskFails, Abandon, ExecuteOk,
        ExecuteProblem, Void, VoidPrice, SettleOk, SettleFails, Report, Close, Anchor, Issue
  <2>2. CASE CancelStep(r)
    BY <2>2, Zenon DEF CancelStep, ReadRecord, ReadRefuses, CloneBilling,
       CloneRefuses, CancelReleases, CancelUpdates,
       CancelReports
  <2>3. QED
    BY <2>1, <2>2
<1>5. QED
  BY <1>1, <1>2, <1>3, <1>4 DEF DataTypeOK

(* The steps after which an operand is needed provide it.                  *)
LEMMA OwnOperands ==
  ASSUME BillTypeOK, ControlTypeOK, DataTypeOK, OperandsKnown, NEW r \in Commits, CommitStep(r)
  PROVE  CommitOperands(r)'
<1>1. ASSUME at'[r] \notin {"put", "void", "settle", "bind"} PROVE CommitOperands(r)'
  BY <1>1 DEF CommitOperands
<1>2. ASSUME NEW to, at' = [at EXCEPT ![r] = to] PROVE at'[r] = to
  BY <1>2, QuoteType DEF ControlTypeOK
<1>3. CASE Moves(r) \/ Attach(r)
  <2>1. at'[r] \in AfterTransition \cup {"issue", "return"}
    BY <1>2, <1>3, AttachShape, Zenon DEF Moves
  <2>2. QED
    BY <1>1, <2>1 DEF AfterTransition
<1>4. CASE \/ ValidateOk(r) \/ ValidateRefuses(r) \/ ReserveRefused(r) \/ ReserveUnknown(r)
           \/ PutTask(r) \/ PutTaskFails(r) \/ StartOk(r) \/ StartFails(r) \/ Abandon(r)
           \/ Report(r) \/ Close(r) \/ Anchor(r) \/ Issue(r)
  <2>1. at'[r] \in {"reserve", "return", "start", "abandon", "execute", "anchor", "attach"}
    BY <1>2, <1>4, Zenon
    DEF Inside, Decide, ValidateOk, ValidateRefuses, ReserveRefused, ReserveUnknown,
        PutTask, PutTaskFails, StartOk, StartFails, Abandon, Report, Close, Anchor, Issue
  <2>2. QED
    BY <1>1, <2>1
<1>5. CASE VoidPrice(r) \/ SettleFails(r)
  <2>1. at'[r] \in {"mark_disputed_voided", "mark_disputed", "mark_settlement_pending"}
    BY <1>2, <1>5, Zenon DEF Inside, VoidPrice, SettleFails
  <2>2. QED
    BY <1>1, <2>1
<1>6. CASE ReserveFree(r)
  <2>1. at'[r] = "put" /\ QuoteOf(r).free
    BY <1>2, <1>6, Zenon DEF ReserveFree, Inside
  <2>2. QED
    BY <2>1, CommitConstants DEF CommitOperands, QuoteOf
<1>7. CASE ReserveOk(r)
  <2>1. at'[r] = "put" /\ \E h \in Holds : held' = [held EXCEPT ![r] = h]
    BY <1>2, <1>7, Zenon DEF ReserveOk, Inside
  <2>2. held'[r] \in Holds
    BY <2>1 DEF DataTypeOK
  <2>3. QED
    BY <2>1, <2>2 DEF CommitOperands
<1>8. CASE Void(r)
  <2>1. at'[r] \in {"fail", "mark_void_pending"}
    BY <1>2, <1>8, Zenon DEF Inside, Void
  <2>2. QED
    BY <1>1, <2>1
<1>9. CASE ExecuteOk(r)
  <2>1. \/ at'[r] \in {"succeed", "void_price"}
        \/ /\ at'[r] = "settle"
           /\ held[r] # None
           /\ held' = held
           /\ \E reported \in Amounts \cup {NoAmount} :
                charge' = [charge EXCEPT ![r] = FinalPrice(QuoteOf(r), reported)]
    BY <1>2, <1>9, Zenon DEF ExecuteOk, Inside
  <2>2. CASE at'[r] \in {"succeed", "void_price"}
    BY <1>1, <2>2
  <2>3. CASE /\ at'[r] = "settle"
             /\ held[r] # None
             /\ held' = held
             /\ \E reported \in Amounts \cup {NoAmount} :
                  charge' = [charge EXCEPT ![r] = FinalPrice(QuoteOf(r), reported)]
    <3>1. \A reported \in Amounts \cup {NoAmount} : FinalPrice(QuoteOf(r), reported) \in Amounts
      BY QuoteType DEF FinalPrice
    <3>2. held'[r] \in Holds /\ charge'[r] \in Amounts
      BY <2>3, <3>1 DEF DataTypeOK
    <3>3. QED
      BY <2>3, <3>2 DEF CommitOperands
  <2>4. QED
    BY <2>1, <2>2, <2>3
<1>10. CASE ExecuteProblem(r)
  <2>1. held' = held /\ at'[r] = IF held[r] = None THEN "fail" ELSE "void"
    BY <1>2, <1>10 DEF ExecuteProblem, Inside
  <2>2. held[r] \in Holds \cup {None}
    BY DEF DataTypeOK
  <2>3. QED
    BY <2>1, <2>2 DEF CommitOperands
<1>11. CASE SettleOk(r)
  <2>1. /\ at[r] = "settle"
        /\ at'[r] = "bind"
        /\ held' = held
        /\ \E s \in SettleRefs : Settles(r, s)
    BY <1>2, <1>11, Zenon DEF SettleOk, Inside
  <2>2. held[r] \in Holds /\ Commit[r].key \in BillKeys
    BY <2>1, QuoteType DEF OperandsKnown
  <2>3. settleByKey'[held[r]][Commit[r].key] \in SettleRefs
    <3>1. PICK s \in SettleRefs : Settles(r, s)
      BY <2>1
    <3>2. \/ settleByKey[held[r]][Commit[r].key] = s /\ UNCHANGED settleByKey
          \/ settleByKey' = [settleByKey EXCEPT ![held[r]][Commit[r].key] = s]
      BY <3>1, Zenon DEF Settles, SettleExisting, SettleNew
    <3>3. QED
      BY <2>2, <3>2 DEF BillTypeOK
  <2>4. QED
    BY <2>1, <2>2, <2>3 DEF CommitOperands
<1>12. QED
  BY <1>3, <1>4, <1>5, <1>6, <1>7, <1>8, <1>9, <1>10, <1>11, TransitionsMove DEF
     CommitStep

(* The operands of the calls stay known.                                   *)
LEMMA OperandsStep ==
  ASSUME BillTypeOK, ControlTypeOK, DataTypeOK, OperandsKnown, [CommitNext]_allVars
  PROVE  OperandsKnown'
<1>1. [BillNext]_billVars
  BY BillSide
<1>2. SUFFICES (\A x \in Commits : CommitOperands(x)') /\ (\A x \in Cancels : CancelOperands(x)')
  BY Zenon DEF OperandsKnown, CommitOperands, CancelOperands
<1>3. CASE UNCHANGED <<at, snap, held, charge>>
  BY <1>1, <1>3, OperandsKept, CommitConstants
<1>4. ASSUME NEW r \in Commits, CommitStep(r)
      PROVE  (\A x \in Commits : CommitOperands(x)') /\ (\A x \in Cancels : CancelOperands(x)')
  <2>1. r \in Requests /\ r \notin Cancels /\ Commits \cup Cancels = Requests
    BY CommitConstants
  <2>2. \A x \in Requests \ {r} : /\ x \in Commits => CommitOperands(x)'
                                  /\ x \in Cancels => CancelOperands(x)'
    BY <1>1, <1>4, <2>1, OwnLocals, OperandsKept
  <2>3. QED
    BY <1>4, <2>1, <2>2, OwnOperands
<1>5. ASSUME NEW r \in Cancels, CancelStep(r)
      PROVE  (\A x \in Commits : CommitOperands(x)') /\ (\A x \in Cancels : CancelOperands(x)')
  <2>1. r \in Requests /\ r \notin Commits /\ Commits \cup Cancels = Requests
    BY CommitConstants
  <2>2. UNCHANGED <<held, charge>>
    BY <1>5, Zenon DEF CancelStep, ReadRecord, ReadRefuses, CloneBilling,
       CloneRefuses, CancelReleases, CancelUpdates,
       CancelReports
  <2>3. CancelOperands(r)'
    <3>1. ASSUME NEW to, at' = [at EXCEPT ![r] = to] PROVE at'[r] = to
      BY <2>1, <3>1 DEF ControlTypeOK
    <3>2. CASE CloneBilling(r)
      <4> DEFINE t == WithBilling(snap[r], task[TaskOf(r)])
      <4>1. at'[r] = (IF Unsettled(t) THEN "release" ELSE "cancel")
            /\ snap' = [snap EXCEPT ![r] = t]
        BY <3>1, <3>2 DEF CloneBilling, Inside
      <4>2. task[TaskOf(r)] \in Tasks /\ snap[r] \in Tasks
        BY <2>1, CommitConstants DEF DataTypeOK, TaskOf
      <4>3. t.hold \in Holds \cup {None}
        BY <4>2 DEF WithBilling, Tasks
      <4> HIDE DEF t
      <4>4. QED
        BY <2>1, <4>1, <4>3 DEF CancelOperands, Unsettled, DataTypeOK
    <3>3. CASE \/ ReadRecord(r) \/ ReadRefuses(r) \/ CloneRefuses(r)
               \/ CancelReleases(r) \/ CancelUpdates(r) \/ CancelReports(r)
      <4>1. at'[r] \in {"clone", "return", "cancel", "report"}
        BY <3>1, <3>3, Zenon DEF ReadRecord, ReadRefuses, CloneRefuses, CancelReleases,
           CancelUpdates, CancelReports, Inside, Decide
      <4>2. QED
        BY <4>1 DEF CancelOperands
    <3>4. QED
      BY <1>5, <3>2, <3>3 DEF CancelStep
  <2>4. \A x \in Requests \ {r} : /\ x \in Commits => CommitOperands(x)'
                                  /\ x \in Cancels => CancelOperands(x)'
    BY <1>1, <1>5, <2>1, OwnLocals, OperandsKept
  <2>5. QED
    BY <2>1, <2>3, <2>4
<1>6. CASE \/ \E r \in Requests : Claims(r) \/ OperationReturns(r) \/ OperationPanics(r) \/ Disposes(r)
           \/ ClockTicks
           \/ UNCHANGED allVars
  BY <1>3, <1>6, Zenon DEF Claims, OperationReturns, OperationPanics, Disposes,
     ClockTicks,
     opVars, allVars
<1>7. QED
  BY <1>4, <1>5, <1>6 DEF CommitNext

-----------------------------------------------------------------------------
(* Theorems                                                                *)

(* The server starts as a handler without claims and a processor without   *)
(* reservations, with nothing recorded.                                    *)
LEMMA CommitInitInv ==
  ASSUME CommitInit
  PROVE  Init /\ BillInit /\ CommitInv
<1>1. Init
  BY CommitConstants DEF CommitInit, Init
<1>2. BillInit
  BY DEF CommitInit
<1>3. TypeOK /\ BillTypeOK
  BY <1>1, <1>2, InitInv, BillInitInv DEF HandlerInv, BillInv
<1>4. ControlTypeOK
  <2>1. NoResult \in Results
    BY DEF NoResult, Result, Results
  <2>2. {"validate", "read"} \subseteq CommitCalls \cup CancelCalls
        /\ "validate" \in CommitCalls /\ "read" \in CancelCalls
    BY DEF CommitCalls, CancelCalls
  <2>3. QED
    BY <2>1, <2>2, CommitConstants DEF CommitInit, ControlTypeOK
<1>5. DataTypeOK
  BY ZeroTask, CommitConstants DEF CommitInit, DataTypeOK
<1>6. OperandsKnown /\ NothingRecordedYet
  BY CommitConstants DEF CommitInit, OperandsKnown, NothingRecordedYet, NoResult, Result
<1>7. QED
  BY <1>1, <1>2, <1>3, <1>4, <1>5, <1>6, OperationTypeParts DEF CommitInv, CommitTypeOK

(* The invariant is inductive, and under it every step is one of the       *)
(* handler and one of the processor.                                       *)
LEMMA CommitInvStep ==
  ASSUME CommitInv, [CommitNext]_allVars
  PROVE  CommitInv' /\ [Next]_vars /\ [BillNext]_billVars
<1>1. TypeOK /\ BillTypeOK /\ ControlTypeOK /\ DataTypeOK /\ OperandsKnown /\ NothingRecordedYet
  BY OperationTypeParts DEF CommitInv, CommitTypeOK
<1>2. [Next]_vars /\ NothingRecordedYet'
  BY HandlerSide, NothingRecordedStep DEF CommitInv
<1>3. [BillNext]_billVars
  BY <1>1, BillSide
<1>4. TypeOK' /\ BillTypeOK'
  BY <1>1, <1>2, <1>3, TypeStep, BillTypeStep
<1>5. ControlTypeOK' /\ DataTypeOK' /\ OperandsKnown'
  BY <1>1, ControlStep, DataStep, OperandsStep
<1>6. OperationTypeOK'
  BY <1>5 DEF OperationTypeOK, ControlTypeOK, DataTypeOK
<1>7. QED
  BY <1>2, <1>3, <1>4, <1>5, <1>6 DEF CommitInv, CommitTypeOK

(* So it holds of every behaviour of the operations.                       *)
LEMMA CommitInductive == CommitSpec => []CommitInv
  BY CommitInitInv, CommitInvStep, PTL DEF CommitSpec

(* The handler, the processor, the store, the chains and the operations    *)
(* keep their types.                                                       *)
THEOREM CommitTypeCorrect == CommitSpec => []CommitTypeOK
<1>1. CommitInv => CommitTypeOK
  BY DEF CommitInv
<1>2. QED
  BY <1>1, CommitInductive, PTL

(* Commit and cancel are operations in the sense of MutatingHandler: in    *)
(* particular no path through them asks for ReleaseClaim once the request  *)
(* has recorded or effected anything.                                      *)
THEOREM CommitImplementsHandler == CommitSpec => ImplementsHandler
<1>1. CommitInit => Init
  BY CommitInitInv
<1>2. CommitInv /\ [CommitNext]_allVars => [Next]_vars
  BY CommitInvStep
<1>3. QED
  BY <1>1, <1>2, CommitInductive, PTL DEF CommitSpec, Spec, ImplementsHandler

(* They change the processor's maps through its calls only.                *)
THEOREM CommitImplementsBilling == CommitSpec => ImplementsBilling
<1>1. CommitInit => BillInit
  BY CommitInitInv
<1>2. CommitInv /\ [CommitNext]_allVars => [BillNext]_billVars
  BY CommitInvStep
<1>3. QED
  BY <1>1, <1>2, CommitInductive, PTL DEF CommitSpec, BillSpec, ImplementsBilling

(* So two commits of one key never execute together, and two of them that  *)
(* reach the processor or the store are a whole retention period apart.    *)
THEOREM CommitsAreSerialized ==
  CommitSpec => [](OneRunnerPerKey /\ OneEffectPerRetention)
  BY CommitImplementsHandler, MutualExclusion, RetentionSeparatesEffects, PTL
  DEF ImplementsHandler

(* And whatever way commit and cancel interleave, a reservation is not     *)
(* both charged and given back, and is charged once.                       *)
THEOREM CommitChargesOnce ==
  CommitSpec => [](SettledXorReleased /\ OneSettlementPerHold)
  BY CommitImplementsBilling, SettleReleaseExclusion, NoDuplicateSettlement, PTL
  DEF ImplementsBilling

=============================================================================
