------------------------- MODULE CommitRecordProofs -------------------------
(***************************************************************************)
(* What the record of a task says: proofs of the properties of             *)
(* ContractCommit about cancelled tasks, receipts, final states and        *)
(* single-use authorizations.                                              *)
(*                                                                         *)
(* Commit and cancel take no common lock, and neither looks at the record  *)
(* again before it writes.  What keeps them apart is when a cancel can     *)
(* find a state it may cancel: once the commit has made its last write.    *)
(***************************************************************************)
EXTENDS CommitOutcomeProofs

(* A cancel of a task that is accepted or running is not permitted by the  *)
(* service, or follows the answer of the commit, before which nothing      *)
(* names the task.                                                         *)
CancelsComeLater == ~EffectNamesTask \/ CancellableIn \cap {"accepted", "running"} = {}

(* The calls made while the record says "running"; those that move it to a *)
(* state that asks for reconciliation; those that only report one; those   *)
(* that follow a final state.                                              *)
Marking == {"mark_void_pending", "mark_disputed", "mark_disputed_voided",
            "mark_settlement_pending"}
Working == {"execute", "void", "void_price", "settle", "bind", "succeed", "fail"}
           \cup Marking
Reporting == {"void_pending", "disputed", "settlement_pending"}
Closing == {"succeeded", "failed", "anchor", "attach", "issue"}

(* A commit that may still write the record of its task.                   *)
Active(r) == pc[r] \in {"sent", "running"} /\ at[r] \notin Reporting \cup {"return"}

(* A task that is left to cancels, uncharged.                              *)
Quiet(t) ==
  /\ ~Active(t)
  /\ task[t] # NoTask
  /\ task[t].state \notin {"succeeded", "failed"}
  /\ task[t].settlement = None

(* The state on the record of a commit under way is that of its next call. *)
StateFollowsCall(r) ==
  /\ task[r] # NoTask => task[r].state # "none"
  /\ Active(r) =>
       /\ at[r] \in {"validate", "reserve", "put"} => task[r] = NoTask
       /\ at[r] = "start" => task[r].state = "accepted"
       /\ at[r] \in Working => task[r].state = "running"
       /\ at[r] = "abandon" => task[r].state \in {"none", "accepted", "running"}
       /\ at[r] \in Closing => task[r].state \in {"succeeded", "failed"}

(* A settlement is on the record of a task that succeeds, unless its       *)
(* commit has given up without naming the task.                            *)
SettlementFollowsCall(r) ==
  /\ task[r].settlement # None =>
       \/ at[r] = "succeed"
       \/ task[r].state = "succeeded" /\ at[r] \in Closing \cup {"return"}
       \/ at[r] = "return" /\ result[r].task = None
  /\ task[r].state \in {"waiting_input", "disputed", "cancelled"} => task[r].settlement = None
  /\ result[r].task # None => result[r].task = r /\ at[r] \in {"abandon", "return"}

(* The receipt is made from a copy that is the record, and from the root   *)
(* of the chain it is appended to.                                         *)
ReceiptFollowsCall(r) ==
  /\ Active(r) /\ at[r] \in Closing \ {"issue"} => snap[r] = task[r]
  /\ Active(r) /\ at[r] \in {"attach", "issue"} => root[r] = Len(audit[r])
  /\ task[r].receipt # NoReceipt =>
       /\ task[r].state \in {"succeeded", "failed"}
       /\ Active(r) => at[r] = "issue"

(* What a cancelled task held was given back.                              *)
CancelledGaveBack(r) ==
  task[r].state = "cancelled" /\ task[r].hold # None => task[r].hold \in released

RecordOf(r) ==
  /\ StateFollowsCall(r)
  /\ SettlementFollowsCall(r)
  /\ ReceiptFollowsCall(r)
  /\ CancelledGaveBack(r)

(* A cancel that goes on after its checks has a task that is left to it,   *)
(* and writes "cancelled" when the reservation is given back.              *)
CancelFinds(x) ==
  LET t == TaskOf(x) IN
  /\ ~EffectNamesTask /\ pc[x] # "sent" => pc[t] = "done" /\ result[t].task = t
  /\ at[x] = "clone" /\ snap[x].state \in CancellableIn \ Terminal => Quiet(t)
  /\ at[x] \in {"release", "cancel", "report"} => Quiet(t)
  /\ at[x] \in {"clone", "release", "cancel"} => snap[x].hold = task[t].hold
  /\ at[x] = "cancel" /\ task[t].hold # None => task[t].hold \in released

(* Only a request that has ended was told a result, or that it is unknown. *)
AnswersComeLast ==
  \A r \in Requests : pc[r] # "done" => answer[r].kind \notin {"result", "unknown"}

RecordInv ==
  /\ OutcomeInv
  /\ AnswersComeLast
  /\ ReceiptIsAnchored /\ ReceiptMatchesTask
  /\ \A r \in Commits : RecordOf(r)
  /\ \A x \in Cancels : CancelFinds(x)

-----------------------------------------------------------------------------
(* What a step of a commit does to its record                              *)

(* It goes on to one of some calls, or returns an answer that names a task *)
(* or none.                                                                *)
Goes(r, calls) == at'[r] \in calls /\ result'[r] = result[r]
Ends(r, t) == at'[r] = "return" /\ result'[r].task = t
GivesUp(r, t) == at'[r] = "abandon" /\ result'[r].task = t

(* It leaves the record alone, sets its state, or attaches the receipt.    *)
KeepsRecord(r) == task'[r] = task[r]

SetsState(r, states) ==
  /\ task'[r].state \in states
  /\ task'[r].settlement = task[r].settlement
  /\ task'[r].receipt = task[r].receipt

BindsSettlement(r) ==
  /\ task'[r].state = task[r].state
  /\ task'[r].receipt = task[r].receipt

AttachesReceipt(r) ==
  /\ task'[r].receipt = Receipt(r)
  /\ task'[r].state = task[r].state
  /\ task'[r].settlement = task[r].settlement
  /\ task'[r].bill = task[r].bill
  /\ task'[r].amount = task[r].amount

BeforeRecord(r) ==
  /\ at[r] \in Early
  /\ KeepsRecord(r)
  /\ Goes(r, {"reserve", "put"}) \/ Ends(r, None)

MakesRecord(r) ==
  /\ at[r] = "put"
  /\ \/ task'[r] = Accepted(r) /\ Goes(r, {"start"})
     \/ (KeepsRecord(r) \/ task'[r] = Accepted(r)) /\ GivesUp(r, r)

StartsTask(r) ==
  /\ at[r] = "start"
  /\ \/ SetsState(r, {"running"}) /\ (Goes(r, {"execute"}) \/ GivesUp(r, None))
     \/ KeepsRecord(r) /\ GivesUp(r, None)

LeavesTask(r) == at[r] = "abandon" /\ KeepsRecord(r) /\ Goes(r, {"return"})

Works(r) ==
  /\ at[r] \in {"execute", "void", "void_price", "settle"}
  /\ KeepsRecord(r)
  /\ Goes(r, Working)

Marks(r) ==
  /\ at[r] \in Marking
  /\ \/ SetsState(r, {"waiting_input", "disputed"}) /\ (Goes(r, Reporting) \/ Ends(r, None))
     \/ KeepsRecord(r) /\ Ends(r, None)

Binds(r) ==
  /\ at[r] = "bind"
  /\ BindsSettlement(r)
  /\ Goes(r, {"succeed"}) \/ Ends(r, None)

Finishes(r) ==
  \/ /\ at[r] = "succeed"
     /\ \/ SetsState(r, {"succeeded"}) /\ (Goes(r, {"succeeded"}) \/ Ends(r, None))
        \/ KeepsRecord(r) /\ Ends(r, None)
  \/ /\ at[r] = "fail"
     /\ \/ SetsState(r, {"failed"}) /\ (Goes(r, {"failed"}) \/ Ends(r, None))
        \/ KeepsRecord(r) /\ Ends(r, None)

Reports(r) == at[r] \in Reporting /\ KeepsRecord(r) /\ Ends(r, r)

Closes(r) ==
  /\ at[r] \in Closing \ {"attach"}
  /\ KeepsRecord(r)
  /\ \/ at[r] \in {"succeeded", "failed"} /\ Goes(r, {"anchor"})
     \/ at[r] = "anchor" /\ Goes(r, {"attach"})
     \/ Ends(r, r)

Attaches(r) ==
  /\ at[r] = "attach"
  /\ \/ AttachesReceipt(r) /\ (Goes(r, {"issue"}) \/ Ends(r, r))
     \/ KeepsRecord(r) /\ Ends(r, r)

RecordMove(r) ==
  \/ BeforeRecord(r) \/ MakesRecord(r) \/ StartsTask(r) \/ LeavesTask(r)
  \/ Works(r) \/ Marks(r) \/ Binds(r) \/ Finishes(r)
  \/ Reports(r) \/ Closes(r) \/ Attaches(r)

(* The fields a write of the record keeps and sets.                        *)
LEMMA FieldsOfState ==
  ASSUME NEW t \in Tasks, NEW state, NEW bill
  PROVE  /\ [t EXCEPT !.state = state].receipt = t.receipt
         /\ [t EXCEPT !.state = state, !.bill = bill].receipt = t.receipt
  BY DEF Tasks

(* So do those Bind and Attach write.                                      *)
LEMMA FieldsOfBinding ==
  ASSUME NEW t \in Tasks, NEW s, NEW a
  PROVE  /\ [t EXCEPT !.settlement = s, !.amount = a, !.bill = "settled"].state = t.state
         /\ [t EXCEPT !.settlement = s, !.amount = a, !.bill = "settled"].receipt = t.receipt
  BY DEF Tasks

(* The receipt is a field of its own.                                      *)
LEMMA FieldsOfReceipt ==
  ASSUME NEW t \in Tasks, NEW receipt
  PROVE  /\ [t EXCEPT !.receipt = receipt].receipt = receipt
         /\ [t EXCEPT !.receipt = receipt].bill = t.bill
  BY DEF Tasks

(* UpdateTask keeps the receipt it is given.                               *)
LEMMA WrittenReceipt ==
  ASSUME task \in [Commits -> Tasks], NEW t \in Commits, NEW new \in Tasks
  PROVE  Written(t, new)[t].receipt = new.receipt
<1> DEFINE w == [new EXCEPT !.version = @ + 1]
<1>1. Written(t, new)[t] = w
  BY DEF Written
<1>2. w.receipt = new.receipt
  BY DEF Tasks
<1> HIDE DEF w
<1>3. QED
  BY <1>1, <1>2

(* A transition records what it was asked to, or nothing.                  *)
LEMMA TransitionRecords ==
  ASSUME DataTypeOK, ControlTypeOK, NEW r \in Commits, NEW from, NEW to, NEW events,
         NEW new \in Tasks, Transition(r, from, to, events, new)
  PROVE  /\ at[r] = from
         /\ \/ /\ task'[r].state = new.state
               /\ task'[r].settlement = new.settlement
               /\ task'[r].receipt = new.receipt
               /\ (Goes(r, {to}) /\ snap'[r] = task'[r]) \/ Ends(r, None)
            \/ KeepsRecord(r) /\ Ends(r, None)
<1>1. r \in Requests /\ task \in [Commits -> Tasks] /\ snap \in [Requests -> Tasks]
  BY QuoteType DEF DataTypeOK
<1>2. ASSUME NEW there, at' = [at EXCEPT ![r] = there] PROVE at'[r] = there
  BY <1>1, <1>2 DEF ControlTypeOK
<1>3. ASSUME NEW res, result' = [result EXCEPT ![r] = res] PROVE result'[r] = res
  BY <1>1, <1>3 DEF ControlTypeOK
<1>4. Result("unknown", None).task = None
  BY DEF Result
<1>5. /\ at[r] = from
      /\ \/ at'[r] = to /\ result' = result /\ Store(r, r, new)
         \/ at'[r] = "return" /\ result'[r] = Result("unknown", None) /\ StoreFails(r, r, new)
  BY <1>2, <1>3, Zenon DEF Transition, Inside, Decide
<1>6. ASSUME task' = Written(r, new)
      PROVE  /\ task'[r].state = new.state
             /\ task'[r].settlement = new.settlement
             /\ task'[r].receipt = new.receipt
  BY <1>1, <1>6, WrittenFields, WrittenReceipt
<1>7. CASE at'[r] = to /\ result' = result /\ Store(r, r, new)
  <2>1. task' = Written(r, new) /\ snap' = [snap EXCEPT ![r] = Written(r, new)[r]]
    BY <1>7, Zenon DEF Store
  <2>2. snap'[r] = task'[r]
    BY <1>1, <2>1
  <2>3. Goes(r, {to})
    BY <1>7 DEF Goes
  <2>4. QED
    BY <1>5, <1>6, <2>1, <2>2, <2>3
<1>8. CASE at'[r] = "return" /\ result'[r] = Result("unknown", None) /\ StoreFails(r, r, new)
  <2>1. task' = task \/ task' = Written(r, new)
    BY <1>8, Zenon DEF StoreFails, StoreErrs
  <2>2. Ends(r, None)
    BY <1>4, <1>8 DEF Ends
  <2>3. QED
    BY <1>5, <1>6, <2>1, <2>2 DEF KeepsRecord
<1>9. QED
  BY <1>5, <1>7, <1>8

(* Each of the six transitions, with the record it writes.                 *)
LEMMA TransitionMoves ==
  ASSUME BillTypeOK, DataTypeOK, ControlTypeOK, OperandsKnown, NEW r \in Commits,
         \/ VoidPending(r) \/ Fail(r) \/ Dispute(r)
         \/ SettlePending(r) \/ Bind(r) \/ Succeed(r)
  PROVE  /\ Marks(r) \/ Binds(r) \/ Finishes(r)
         /\ at'[r] \in {"succeeded", "failed"} => snap'[r] = task'[r]
<1>1. task[r] \in Tasks
  BY DEF DataTypeOK
<1>2. /\ {"waiting_input", "disputed", "failed", "succeeded"} \subseteq TaskStates
      /\ "voided" \in BillStates /\ "none" \in BillStates
  BY DEF TaskStates, BillStates, Terminal
<1>3. ASSUME NEW from, NEW to, NEW events, NEW state \in TaskStates,
             NEW new, Transition(r, from, to, events, new),
             \/ new = [task[r] EXCEPT !.state = state]
             \/ new = [task[r] EXCEPT !.state = state, !.bill = "voided"]
      PROVE  /\ at[r] = from
             /\ \/ /\ SetsState(r, {state})
                   /\ (Goes(r, {to}) /\ snap'[r] = task'[r]) \/ Ends(r, None)
                \/ KeepsRecord(r) /\ Ends(r, None)
  <2> DEFINE plain == [task[r] EXCEPT !.state = state]
             voided == [task[r] EXCEPT !.state = state, !.bill = "voided"]
  <2>1. plain \in Tasks /\ voided \in Tasks
    BY <1>1, <1>2, ChangedTask
  <2>2. /\ plain.state = state /\ plain.settlement = task[r].settlement
        /\ voided.state = state /\ voided.settlement = task[r].settlement
    BY <1>1, KeepsMoney
  <2>3. plain.receipt = task[r].receipt /\ voided.receipt = task[r].receipt
    BY <1>1, FieldsOfState
  <2>4. new = plain \/ new = voided
    BY <1>3
  <2> HIDE DEF plain, voided
  <2>5. /\ new \in Tasks
        /\ new.state = state
        /\ new.settlement = task[r].settlement
        /\ new.receipt = task[r].receipt
    BY <2>1, <2>2, <2>3, <2>4
  <2>6. QED
    BY <1>3, <2>5, TransitionRecords DEF SetsState
<1>4. CASE VoidPending(r)
  <2>1. Transition(r, "mark_void_pending", "void_pending", <<>>,
                   [task[r] EXCEPT !.state = "waiting_input"])
    BY <1>4 DEF VoidPending
  <2>2. QED
    BY <1>2, <1>3, <2>1 DEF Marks, Marking, Goes, Ends, SetsState, Reporting
<1>5. CASE SettlePending(r)
  <2>1. Transition(r, "mark_settlement_pending", "settlement_pending", <<>>,
                   [task[r] EXCEPT !.state = "waiting_input"])
    BY <1>5 DEF SettlePending
  <2>2. QED
    BY <1>2, <1>3, <2>1 DEF Marks, Marking, Goes, Ends, SetsState, Reporting
<1>6. CASE Dispute(r)
  <2>1. CASE Transition(r, "mark_disputed", "disputed", <<>>,
                        [task[r] EXCEPT !.state = "disputed"])
    BY <1>2, <1>3, <2>1 DEF Marks, Marking, Goes, Ends, SetsState, Reporting
  <2>2. CASE Transition(r, "mark_disputed_voided", "disputed", <<>>,
                        [task[r] EXCEPT !.state = "disputed", !.bill = "voided"])
    BY <1>2, <1>3, <2>2 DEF Marks, Marking, Goes, Ends, SetsState, Reporting
  <2>3. QED
    BY <1>6, <2>1, <2>2 DEF Dispute
<1>7. CASE Fail(r)
  <2>1. Transition(r, "fail", "failed", <<>>,
                   [task[r] EXCEPT !.state = "failed", !.bill = "voided"])
    BY <1>7 DEF Fail
  <2>2. QED
    BY <1>2, <1>3, <2>1 DEF Finishes, Goes, Ends, SetsState
<1>8. CASE Succeed(r)
  <2> DEFINE events == IF held[r] = None THEN <<>> ELSE <<Event("settled")>>
  <2>1. Transition(r, "succeed", "succeeded", events, [task[r] EXCEPT !.state = "succeeded"])
    BY <1>8, Zenon DEF Succeed
  <2> HIDE DEF events
  <2>2. QED
    BY <1>2, <1>3, <2>1 DEF Finishes, Goes, Ends, SetsState
<1>9. CASE Bind(r)
  <2> DEFINE s == BoundSettlement(r)
             new == [task[r] EXCEPT !.settlement = s, !.amount = settled[s], !.bill = "settled"]
  <2>1. Transition(r, "bind", "succeed", <<>>, new)
    BY <1>9, Zenon DEF Bind, BoundSettlement
  <2>2. at[r] = "bind"
    <3> HIDE DEF new
    <3>1. QED
      BY <2>1, TransitionShapeAt
  <2>3. s \in SettleRefs
    BY <2>2 DEF OperandsKnown, BoundSettlement
  <2>4. settled[s] \in Amounts \cup {NoAmount}
    BY <2>3 DEF BillTypeOK
  <2> HIDE DEF s
  <2>5. new \in Tasks
    BY <1>1, <2>3, <2>4, BoundTask
  <2>6. new.state = task[r].state /\ new.receipt = task[r].receipt
    BY <1>1, FieldsOfBinding
  <2> HIDE DEF new
  <2>7. \/ /\ task'[r].state = new.state /\ task'[r].receipt = new.receipt
           /\ Goes(r, {"succeed"}) \/ Ends(r, None)
        \/ KeepsRecord(r) /\ Ends(r, None)
    BY <2>1, <2>5, TransitionRecords, Zenon
  <2>8. Binds(r)
    BY <2>2, <2>6, <2>7 DEF Binds, KeepsRecord, BindsSettlement
  <2>9. QED
    BY <2>8 DEF Binds, Goes, Ends
<1>10. QED
  BY <1>4, <1>5, <1>6, <1>7, <1>8, <1>9

(* A receipt is attached to a record that keeps the rest.                  *)
LEMMA AttachMoves ==
  ASSUME DataTypeOK, ControlTypeOK, NEW r \in Commits, Attach(r)
  PROVE  Attaches(r)
<1>1. /\ r \in Requests /\ task[r] \in Tasks /\ task \in [Commits -> Tasks]
      /\ at \in [Requests -> CommitCalls \cup CancelCalls] /\ result \in [Requests -> Results]
  BY QuoteType DEF DataTypeOK, ControlTypeOK
<1> DEFINE new == [task[r] EXCEPT !.receipt = Receipt(r)]
<1>2. /\ at[r] = "attach"
      /\ \/ Goes(r, {"issue"})
         \/ Ends(r, r)
  BY <1>1, AttachShape DEF Goes, Ends, Result
<1>3. task' = Written(r, new) \/ (task' = task /\ at' = [at EXCEPT ![r] = "return"])
  BY Zenon DEF Attach, Store, StoreErrs, Inside, Decide
<1>4. new.state = task[r].state /\ new.settlement = task[r].settlement
      /\ new.amount = task[r].amount
  BY <1>1, KeepsMoney
<1>5. new.receipt = Receipt(r) /\ new.bill = task[r].bill
  BY <1>1, FieldsOfReceipt
<1>6. new \in Tasks
  <2>1. Receipt(r) \in Receipts
    BY <1>1 DEF Receipt, Receipts, DataTypeOK, Tasks
  <2>2. QED
    BY <1>1, <2>1, ReceiptedTask
<1> HIDE DEF new
<1>7. CASE task' = Written(r, new)
  <2>1. AttachesReceipt(r)
    BY <1>1, <1>4, <1>5, <1>6, <1>7, WrittenFields, WrittenReceipt DEF AttachesReceipt
  <2>2. QED
    BY <1>2, <2>1 DEF Attaches
<1>8. CASE task' = task /\ at' = [at EXCEPT ![r] = "return"]
  <2>1. at'[r] # "issue"
    BY <1>1, <1>8
  <2>2. QED
    BY <1>2, <1>8, <2>1 DEF Attaches, KeepsRecord, Goes
<1>9. QED
  BY <1>3, <1>7, <1>8

(* Every step of a commit is one of these moves.                           *)
LEMMA CommitRecordMoves ==
  ASSUME BillTypeOK, DataTypeOK, ControlTypeOK, OperandsKnown, NEW r \in Commits, CommitStep(r)
  PROVE  RecordMove(r)
<1>1. r \in Requests /\ task[r] \in Tasks /\ task \in [Commits -> Tasks]
  BY QuoteType DEF DataTypeOK
<1>2. ASSUME NEW to, at' = [at EXCEPT ![r] = to] PROVE at'[r] = to
  BY <1>1, <1>2 DEF ControlTypeOK
<1>3. ASSUME NEW res, result' = [result EXCEPT ![r] = res] PROVE result'[r] = res
  BY <1>1, <1>3 DEF ControlTypeOK
<1>4. ASSUME NEW kind, NEW t PROVE Result(kind, t).task = t
  BY DEF Result
<1>5. CASE \/ ValidateOk(r) \/ ValidateRefuses(r) \/ ReserveFree(r) \/ ReserveOk(r)
           \/ ReserveRefused(r) \/ ReserveUnknown(r)
  <2>1. /\ at[r] \in {"validate", "reserve"}
        /\ task' = task
        /\ \/ at'[r] \in {"reserve", "put"} /\ result' = result
           \/ \E kind : at'[r] = "return" /\ result'[r] = Result(kind, None)
    BY <1>2, <1>3, <1>5, Zenon
    DEF ValidateOk, ValidateRefuses, ReserveFree, ReserveOk, ReserveRefused, ReserveUnknown,
        Inside, Decide
  <2>2. BeforeRecord(r)
    BY <1>4, <2>1 DEF BeforeRecord, Early, KeepsRecord, Goes, Ends
  <2>3. QED
    BY <2>2 DEF RecordMove
<1>6. CASE PutTask(r) \/ PutTaskFails(r)
  <2>1. /\ at[r] = "put"
        /\ \/ /\ task' = [task EXCEPT ![r] = Accepted(r)]
              /\ at'[r] = "start" /\ result' = result
           \/ /\ task' = task \/ task' = [task EXCEPT ![r] = Accepted(r)]
              /\ at'[r] = "abandon" /\ result'[r] = Result("unknown", r)
    BY <1>2, <1>3, <1>6, Zenon DEF PutTask, PutTaskFails, Inside
  <2>2. task' = [task EXCEPT ![r] = Accepted(r)] => task'[r] = Accepted(r)
    BY <1>1
  <2>3. MakesRecord(r)
    BY <1>4, <2>1, <2>2 DEF MakesRecord, KeepsRecord, Goes, GivesUp
  <2>4. QED
    BY <2>3 DEF RecordMove
<1>7. CASE StartOk(r) \/ StartFails(r)
  <2> DEFINE new == [task[r] EXCEPT !.state = "running"]
  <2>1. /\ at[r] = "start"
        /\ \/ at'[r] = "execute" /\ result' = result /\ task' = Written(r, new)
           \/ /\ at'[r] = "abandon" /\ result'[r] = Result("unknown", None)
              /\ task' = task \/ task' = Written(r, new)
    BY <1>2, <1>3, <1>7, Zenon
    DEF StartOk, StartFails, Store, StoreFails, StoreErrs, Inside
  <2>2. /\ new \in Tasks /\ new.state = "running"
        /\ new.settlement = task[r].settlement /\ new.receipt = task[r].receipt
    <3>1. "none" \in BillStates /\ "running" \in TaskStates
      BY DEF BillStates, TaskStates
    <3>2. QED
      BY <1>1, <3>1, ChangedTask, KeepsMoney, FieldsOfState
  <2> HIDE DEF new
  <2>3. task' = Written(r, new) => SetsState(r, {"running"})
    BY <1>1, <2>2, WrittenFields, WrittenReceipt DEF SetsState
  <2>4. StartsTask(r)
    BY <1>4, <2>1, <2>3 DEF StartsTask, KeepsRecord, Goes, GivesUp
  <2>5. QED
    BY <2>4 DEF RecordMove
<1>8. CASE Abandon(r)
  <2>1. at[r] = "abandon" /\ at'[r] = "return" /\ UNCHANGED <<task, result>>
    BY <1>2, <1>8, Zenon DEF Abandon, Inside
  <2>2. QED
    BY <2>1 DEF RecordMove, LeavesTask, KeepsRecord, Goes
<1>9. CASE \/ ExecuteOk(r) \/ ExecuteProblem(r) \/ Void(r) \/ VoidPrice(r) \/ SettleOk(r)
           \/ SettleFails(r)
  <2>1. /\ at[r] \in {"execute", "void", "void_price", "settle"}
        /\ UNCHANGED <<task, result>>
        /\ at'[r] \in {"succeed", "settle", "void_price", "fail", "void", "mark_void_pending",
                       "mark_disputed_voided", "mark_disputed", "bind",
                       "mark_settlement_pending"}
    BY <1>2, <1>9, Zenon
    DEF ExecuteOk, ExecuteProblem, Void, VoidPrice, SettleOk, SettleFails, Inside
  <2>2. QED
    BY <2>1 DEF RecordMove, Works, KeepsRecord, Goes, Working, Marking
<1>10. CASE \/ VoidPending(r) \/ Fail(r) \/ Dispute(r)
            \/ SettlePending(r) \/ Bind(r) \/ Succeed(r)
  BY <1>10, TransitionMoves DEF RecordMove
<1>11. CASE Report(r)
  <2>1. /\ at[r] \in {"void_pending", "disputed", "settlement_pending"}
        /\ at'[r] = "return" /\ result'[r] = Result("done", r) /\ task' = task
    BY <1>2, <1>3, <1>11, Zenon DEF Report, Inside, Decide
  <2>2. QED
    BY <1>4, <2>1 DEF RecordMove, Reports, Reporting, KeepsRecord, Ends
<1>12. CASE Close(r) \/ Anchor(r) \/ Issue(r)
  <2>1. /\ task' = task
        /\ \/ at[r] \in {"succeeded", "failed"} /\ at'[r] = "anchor" /\ result' = result
           \/ at[r] = "anchor" /\ at'[r] = "attach" /\ result' = result
           \/ /\ at[r] \in {"anchor", "issue"}
              /\ at'[r] = "return" /\ result'[r] = Result("done", r)
    BY <1>2, <1>3, <1>12, Zenon DEF Close, Anchor, Issue, Inside, Decide
  <2>2. Closes(r)
    BY <1>4, <2>1 DEF Closes, Closing, KeepsRecord, Goes, Ends
  <2>3. QED
    BY <2>2 DEF RecordMove
<1>13. CASE Attach(r)
  BY <1>13, AttachMoves DEF RecordMove
<1>14. QED
  BY <1>5, <1>6, <1>7, <1>8, <1>9, <1>10, <1>11, <1>12, <1>13 DEF CommitStep

-----------------------------------------------------------------------------
(* What a step does to the audit chains, and to the copies                 *)

(* The receipts of a chain stay where they are, and no other is added.     *)
NoNewReceipt(t) ==
  \A i \in DOMAIN audit'[t] :
    audit'[t][i].type = "receipt" => i \in DOMAIN audit[t] /\ audit'[t][i] = audit[t][i]

(* The receipt event of a commit binds the root it follows.                *)
IssuesReceipt(r) ==
  \A i \in DOMAIN audit'[r] :
    audit'[r][i].type = "receipt" =>
      \/ i \in DOMAIN audit[r] /\ audit'[r][i] = audit[r][i]
      \/ i = Len(audit[r]) + 1 /\ audit'[r][i].anchor = root[r]

(* The events appended to a chain are some of those to be recorded.        *)
LEMMA RecordAppends ==
  ASSUME audit \in [Commits -> Seq(AuditEvents)], NEW t \in Commits,
         NEW events \in Seq(AuditEvents), Record(t, events)
  PROVE  /\ \A x \in Commits \ {t} : audit'[x] = audit[x]
         /\ \E kept \in Seq(AuditEvents) :
              /\ audit'[t] = audit[t] \o kept
              /\ Len(kept) <= Len(events)
              /\ \A j \in 1 .. Len(kept) : \E i \in 1 .. Len(events) : kept[j] = events[i]
<1>1. PICK kept \in Kept(events) : audit' = [audit EXCEPT ![t] = audit[t] \o kept]
  BY DEF Record
<1>2. \/ kept = events
      \/ kept = <<>>
      \/ \E i \in DOMAIN events : kept = <<events[i]>>
  BY Zenon DEF Kept
<1>3. /\ kept \in Seq(AuditEvents)
      /\ Len(kept) <= Len(events)
      /\ \A j \in 1 .. Len(kept) : \E i \in 1 .. Len(events) : kept[j] = events[i]
  <2>1. CASE kept = events
    BY <2>1
  <2>2. CASE kept = <<>>
    <3>1. kept \in Seq(AuditEvents) /\ Len(kept) = 0 /\ Len(events) \in Nat
      BY <2>2
    <3>2. QED
      BY <3>1
  <2>3. CASE \E i \in DOMAIN events : kept = <<events[i]>>
    <3>1. PICK i \in DOMAIN events : kept = <<events[i]>>
      BY <2>3
    <3>2. i \in 1 .. Len(events) /\ events[i] \in AuditEvents /\ Len(events) >= 1
      OBVIOUS
    <3>3. kept \in Seq(AuditEvents) /\ Len(kept) = 1 /\ kept[1] = events[i]
      BY <3>1, <3>2
    <3>4. QED
      BY <3>2, <3>3
  <2>4. QED
    BY <1>2, <2>1, <2>2, <2>3
<1>4. audit'[t] = audit[t] \o kept /\ \A x \in Commits \ {t} : audit'[x] = audit[x]
  BY <1>1
<1>5. QED
  BY <1>3, <1>4

(* An event of another type is no receipt.                                 *)
LEMMA PlainRecord ==
  ASSUME audit \in [Commits -> Seq(AuditEvents)], NEW t \in Commits,
         NEW events \in Seq(AuditEvents), Record(t, events),
         \A i \in 1 .. Len(events) : events[i].type # "receipt"
  PROVE  NoNewReceipt(t) /\ \A x \in Commits \ {t} : audit'[x] = audit[x]
<1>1. PICK kept \in Seq(AuditEvents) :
        /\ audit'[t] = audit[t] \o kept
        /\ Len(kept) <= Len(events)
        /\ \A j \in 1 .. Len(kept) : \E i \in 1 .. Len(events) : kept[j] = events[i]
  BY RecordAppends
<1>2. \A j \in 1 .. Len(kept) : kept[j].type # "receipt"
  BY <1>1
<1>3. audit[t] \in Seq(AuditEvents)
  OBVIOUS
<1>4. ASSUME NEW i \in DOMAIN audit'[t], audit'[t][i].type = "receipt"
      PROVE  i \in DOMAIN audit[t] /\ audit'[t][i] = audit[t][i]
  <2>1. i \in 1 .. Len(audit[t]) + Len(kept)
    BY <1>1, <1>3, <1>4
  <2>2. CASE i <= Len(audit[t])
    BY <1>1, <1>3, <2>1, <2>2
  <2>3. CASE i > Len(audit[t])
    <3>1. i - Len(audit[t]) \in 1 .. Len(kept) /\ audit'[t][i] = kept[i - Len(audit[t])]
      BY <1>1, <1>3, <2>1, <2>3
    <3>2. QED
      BY <1>2, <1>4, <3>1
  <2>4. QED
    BY <1>3, <2>1, <2>2, <2>3
<1>5. QED
  BY <1>4, RecordAppends DEF NoNewReceipt

(* The receipt event is appended, if at all, to the chain it is for.       *)
LEMMA ReceiptRecord ==
  ASSUME audit \in [Commits -> Seq(AuditEvents)], NEW t \in Commits, root[t] \in Nat,
         Record(t, <<[type |-> "receipt", anchor |-> root[t]]>>)
  PROVE  IssuesReceipt(t) /\ \A x \in Commits \ {t} : audit'[x] = audit[x]
<1> DEFINE event == [type |-> "receipt", anchor |-> root[t]]
           events == <<event>>
<1>1. event \in AuditEvents /\ event.anchor = root[t]
  BY DEF AuditEvents, AuditTypes
<1> HIDE DEF event
<1>2. events \in Seq(AuditEvents) /\ Len(events) = 1 /\ events[1] = event
  BY <1>1
<1>3. Record(t, events)
  BY DEF event
<1> HIDE DEF events
<1>4. PICK kept \in Seq(AuditEvents) :
        /\ audit'[t] = audit[t] \o kept
        /\ Len(kept) <= Len(events)
        /\ \A j \in 1 .. Len(kept) : \E i \in 1 .. Len(events) : kept[j] = events[i]
  BY <1>2, <1>3, RecordAppends
<1>5. Len(kept) \in {0, 1} /\ \A j \in 1 .. Len(kept) : kept[j] = event
  BY <1>2, <1>4
<1>6. audit[t] \in Seq(AuditEvents)
  OBVIOUS
<1>7. ASSUME NEW i \in DOMAIN audit'[t]
      PROVE  \/ i \in DOMAIN audit[t] /\ audit'[t][i] = audit[t][i]
             \/ i = Len(audit[t]) + 1 /\ audit'[t][i].anchor = root[t]
  <2>1. i \in 1 .. Len(audit[t]) + Len(kept)
    BY <1>4, <1>6, <1>7
  <2>2. CASE i <= Len(audit[t])
    BY <1>4, <1>6, <2>1, <2>2
  <2>3. CASE i > Len(audit[t])
    <3>1. i - Len(audit[t]) \in 1 .. Len(kept) /\ audit'[t][i] = kept[i - Len(audit[t])]
      BY <1>4, <1>6, <2>1, <2>3
    <3>2. i = Len(audit[t]) + 1
      BY <1>5, <1>6, <2>1, <2>3
    <3>3. QED
      BY <1>1, <1>5, <3>1, <3>2
  <2>4. QED
    BY <1>6, <2>1, <2>2, <2>3
<1>8. QED
  BY <1>2, <1>3, <1>7, RecordAppends DEF IssuesReceipt

(* The chain and the local root of another commit stay as they are; the    *)
(* receipt is issued last, right after the root it binds was read.         *)
ChainMove(r) ==
  /\ \A x \in Commits \ {r} : audit'[x] = audit[x] /\ root'[x] = root[x]
  /\ NoNewReceipt(r) \/ (at[r] = "issue" /\ IssuesReceipt(r))
  /\ at'[r] = "attach" => root'[r] = Len(audit[r]) /\ audit'[r] = audit[r]
  /\ at'[r] = "issue" => root'[r] = root[r] /\ audit'[r] = audit[r] /\ at[r] = "attach"

(* A chain that is not touched has no new receipt.                         *)
LEMMA SameChain ==
  ASSUME audit' = audit, NEW t \in Commits
  PROVE  NoNewReceipt(t) /\ \A x \in Commits \ {t} : audit'[x] = audit[x]
  BY DEF NoNewReceipt

(* The events of a step that issues no receipt.                            *)
LEMMA PlainEvents ==
  ASSUME NEW a \in AuditTypes \ {"receipt"}, NEW b \in AuditTypes \ {"receipt"},
         NEW events \in {<<>>, <<Event(a)>>, <<Event(a), Event(b)>>}
  PROVE  /\ events \in Seq(AuditEvents)
         /\ \A i \in 1 .. Len(events) : events[i].type # "receipt"
<1>1. events \in Seq(AuditEvents)
  BY EventsType
<1>2. Event(a).type = a /\ Event(b).type = b
  BY DEF Event
<1>3. CASE events = <<>>
  BY <1>1, <1>3
<1>4. CASE events = <<Event(a)>>
  <2>1. Len(events) = 1 /\ events[1] = Event(a)
    BY <1>4
  <2>2. \A i \in 1 .. Len(events) : events[i] = Event(a)
    BY <2>1
  <2>3. QED
    BY <1>1, <1>2, <2>2
<1>5. CASE events = <<Event(a), Event(b)>>
  <2>1. Len(events) = 2 /\ events[1] = Event(a) /\ events[2] = Event(b)
    BY <1>5
  <2>2. \A i \in 1 .. Len(events) : events[i] = Event(a) \/ events[i] = Event(b)
    BY <2>1
  <2>3. QED
    BY <1>1, <1>2, <2>2
<1>6. QED
  BY <1>3, <1>4, <1>5

(* Every step of a commit moves its chain so.                              *)
LEMMA CommitChainMoves ==
  ASSUME DataTypeOK, ControlTypeOK, NEW r \in Commits, CommitStep(r)
  PROVE  ChainMove(r)
<1>1. /\ r \in Requests /\ audit \in [Commits -> Seq(AuditEvents)]
      /\ root \in [Commits -> Nat]
  BY QuoteType DEF DataTypeOK
<1>2. ASSUME NEW to, at' = [at EXCEPT ![r] = to] PROVE at'[r] = to
  BY <1>1, <1>2 DEF ControlTypeOK
<1>3. {"accepted", "reserved", "running", "settled", "void_pending", "disputed",
       "settlement_pending", "succeeded", "failed"} \subseteq AuditTypes \ {"receipt"}
  BY DEF AuditTypes
<1>4. ASSUME NEW a \in AuditTypes \ {"receipt"}, NEW b \in AuditTypes \ {"receipt"},
             NEW events \in {<<>>, <<Event(a)>>, <<Event(a), Event(b)>>}, Record(r, events)
      PROVE  NoNewReceipt(r) /\ \A x \in Commits \ {r} : audit'[x] = audit[x]
  BY <1>1, <1>4, PlainEvents, PlainRecord
<1>5. ASSUME UNCHANGED root,
             NoNewReceipt(r) /\ \A x \in Commits \ {r} : audit'[x] = audit[x],
             at'[r] \notin {"attach", "issue"}
      PROVE  ChainMove(r)
  BY <1>5 DEF ChainMove
<1>6. CASE \/ ValidateOk(r) \/ ValidateRefuses(r) \/ ReserveFree(r) \/ ReserveOk(r)
           \/ ReserveRefused(r) \/ ReserveUnknown(r) \/ PutTask(r) \/ PutTaskFails(r)
           \/ Abandon(r) \/ Void(r) \/ VoidPrice(r) \/ SettleOk(r) \/ SettleFails(r)
  <2>1. /\ UNCHANGED <<audit, root>>
        /\ at'[r] \in {"reserve", "put", "return", "start", "abandon", "fail",
                       "mark_void_pending", "mark_disputed", "mark_disputed_voided",
                       "bind", "mark_settlement_pending"}
    BY <1>2, <1>6, Zenon
    DEF ValidateOk, ValidateRefuses, ReserveFree, ReserveOk, ReserveRefused, ReserveUnknown,
        PutTask, PutTaskFails, Abandon, Void, VoidPrice, SettleOk, SettleFails, Inside, Decide
  <2>2. QED
    BY <1>5, <2>1, SameChain
<1>7. CASE StartOk(r) \/ StartFails(r)
  <2>1. /\ Record(r, <<Event("accepted"), Event("reserved")>>)
        /\ UNCHANGED root
        /\ at'[r] \in {"execute", "abandon"}
    BY <1>2, <1>7, Zenon DEF StartOk, StartFails, Inside
  <2>2. QED
    BY <1>3, <1>4, <1>5, <2>1
<1>8. CASE ExecuteOk(r) \/ ExecuteProblem(r)
  <2>1. /\ Record(r, <<Event("running")>>)
        /\ UNCHANGED root
        /\ at'[r] \in {"succeed", "settle", "void_price", "fail", "void"}
    BY <1>2, <1>8, Zenon DEF ExecuteOk, ExecuteProblem, Inside
  <2>2. QED
    BY <1>3, <1>4, <1>5, <2>1
<1>9. CASE VoidPending(r) \/ Fail(r) \/ Dispute(r) \/ SettlePending(r) \/ Bind(r) \/ Succeed(r)
  <2>1. /\ Record(r, <<>>) \/ Record(r, <<Event("settled")>>)
        /\ UNCHANGED root
    BY <1>9, Zenon
    DEF VoidPending, Fail, Dispute, SettlePending, Bind, Succeed, Transition
  <2>2. at'[r] \in AfterTransition \cup {"return"}
    BY <1>2, <1>9, TransitionsMove, Zenon DEF Moves
  <2>3. QED
    BY <1>3, <1>4, <1>5, <2>1, <2>2 DEF AfterTransition
<1>10. CASE Report(r) \/ Close(r)
  <2>1. /\ Record(r, <<Event(at[r])>>)
        /\ at[r] \in {"void_pending", "disputed", "settlement_pending", "succeeded", "failed"}
        /\ UNCHANGED root
        /\ at'[r] \in {"return", "anchor"}
    BY <1>2, <1>10, Zenon DEF Report, Close, Inside, Decide
  <2>2. QED
    BY <1>3, <1>4, <1>5, <2>1
<1>11. CASE Anchor(r)
  <2>1. /\ UNCHANGED audit /\ root' = [root EXCEPT ![r] = Len(audit[r])]
        /\ at'[r] \in {"attach", "return"}
    BY <1>2, <1>11, Zenon DEF Anchor, Inside, Decide
  <2>2. root'[r] = Len(audit[r]) /\ \A x \in Commits \ {r} : root'[x] = root[x]
    BY <1>1, <2>1
  <2>3. QED
    BY <2>1, <2>2, SameChain DEF ChainMove
<1>12. CASE Attach(r)
  <2>1. UNCHANGED <<audit, root>> /\ at[r] = "attach" /\ at'[r] \in {"issue", "return"}
    BY <1>2, <1>12, AttachShape, Zenon
  <2>2. QED
    BY <2>1, SameChain DEF ChainMove
<1>13. CASE Issue(r)
  <2>1. /\ Record(r, <<[type |-> "receipt", anchor |-> root[r]]>>)
        /\ at[r] = "issue" /\ at'[r] = "return" /\ UNCHANGED root
    BY <1>2, <1>13, Zenon DEF Issue, Inside, Decide
  <2>2. IssuesReceipt(r) /\ \A x \in Commits \ {r} : audit'[x] = audit[x]
    BY <1>1, <2>1, ReceiptRecord
  <2>3. QED
    BY <2>1, <2>2 DEF ChainMove
<1>14. QED
  BY <1>6, <1>7, <1>8, <1>9, <1>10, <1>11, <1>12, <1>13 DEF CommitStep

(* The copy a receipt is made from is the record as it was last written.   *)
CopyMove(r) ==
  /\ at'[r] \in {"succeeded", "failed"} => snap'[r] = task'[r]
  /\ at'[r] \in {"anchor", "attach"} => snap'[r] = snap[r]

(* Every step of a commit treats its copy so.                              *)
LEMMA CommitCopyMoves ==
  ASSUME BillTypeOK, DataTypeOK, ControlTypeOK, OperandsKnown, NEW r \in Commits, CommitStep(r)
  PROVE  CopyMove(r)
<1>1. r \in Requests
  BY QuoteType
<1>2. ASSUME NEW to, at' = [at EXCEPT ![r] = to] PROVE at'[r] = to
  BY <1>1, <1>2 DEF ControlTypeOK
<1>3. CASE \/ VoidPending(r) \/ Fail(r) \/ Dispute(r)
           \/ SettlePending(r) \/ Bind(r) \/ Succeed(r)
  <2>1. at'[r] \in AfterTransition \cup {"return"}
    BY <1>2, <1>3, TransitionsMove, Zenon DEF Moves
  <2>2. QED
    BY <1>3, <2>1, TransitionMoves DEF CopyMove, AfterTransition
<1>4. CASE Close(r) \/ Anchor(r)
  <2>1. UNCHANGED snap /\ at'[r] \in {"anchor", "attach", "return"}
    BY <1>2, <1>4, Zenon DEF Close, Anchor, Inside, Decide
  <2>2. QED
    BY <2>1 DEF CopyMove
<1>5. CASE \/ ValidateOk(r) \/ ValidateRefuses(r) \/ ReserveFree(r) \/ ReserveOk(r)
           \/ ReserveRefused(r) \/ ReserveUnknown(r) \/ PutTask(r) \/ PutTaskFails(r)
           \/ StartOk(r) \/ StartFails(r) \/ Abandon(r) \/ ExecuteOk(r) \/ ExecuteProblem(r)
           \/ Void(r) \/ VoidPrice(r) \/ SettleOk(r) \/ SettleFails(r)
           \/ Report(r) \/ Attach(r) \/ Issue(r)
  <2>1. at'[r] \in {"reserve", "put", "return", "start", "abandon", "fail", "execute", "void",
                    "mark_void_pending", "mark_disputed", "mark_disputed_voided", "succeed",
                    "settle", "void_price", "bind", "mark_settlement_pending", "issue"}
    BY <1>2, <1>5, AttachShape, Zenon
    DEF ValidateOk, ValidateRefuses, ReserveFree, ReserveOk, ReserveRefused, ReserveUnknown,
        PutTask, PutTaskFails, StartOk, StartFails, Abandon, ExecuteOk, ExecuteProblem, Void,
        VoidPrice, SettleOk, SettleFails, Report, Issue, Inside, Decide
  <2>2. QED
    BY <2>1 DEF CopyMove
<1>6. QED
  BY <1>3, <1>4, <1>5 DEF CommitStep

-----------------------------------------------------------------------------
(* What other requests do to a commit                                      *)

(* A commit that is left alone, and in which only a quiet task may be      *)
(* cancelled or have an event of its cancel appended.                      *)
Aside(x) ==
  /\ LeftAlone(x)
  /\ snap'[x] = snap[x] /\ root'[x] = root[x]
  /\ Active(x)' => Active(x)
  /\ pc[x] = "done" => pc'[x] = "done"
  /\ NoNewReceipt(x)
  /\ \/ task'[x] = task[x] /\ (audit'[x] = audit[x] \/ Quiet(x))
     \/ /\ Quiet(x)
        /\ task'[x] # NoTask
        /\ task'[x].state = "cancelled"
        /\ task'[x].settlement = task[x].settlement
        /\ task'[x].receipt = task[x].receipt
        /\ task[x].hold # None => task[x].hold \in released

(* The handler's own steps end a request, or start it.                     *)
LEMMA HandlerMovesOn ==
  ASSUME TypeOK, NEW x \in Requests, HandlerOnly
  PROVE  /\ pc'[x] = "sent" => pc[x] = "sent"
         /\ pc'[x] = "running" => pc[x] \in {"sent", "running"}
         /\ pc[x] = "done" => pc'[x] = "done"
<1>1. CASE \E r \in Requests : Claims(r) \/ OperationReturns(r) \/ OperationPanics(r) \/ Disposes(r)
  <2>1. \E r \in Requests : \/ Goto(r, "sent", "running") \/ Goto(r, "sent", "done")
                             \/ Goto(r, "running", "returned") \/ Goto(r, "running", "done")
                             \/ Goto(r, "returned", "done")
    BY <1>1, Zenon
    DEF Claims, ClaimNew, ClaimReplay, ClaimConflict, ClaimInProgress, ClaimUnavailable,
        OperationReturns, OperationPanics, Panic, Disposes, ReleaseClaim,
        ReleaseClaimFails, CompleteClaim, CompleteClaimFails
  <2>2. QED
    BY <2>1 DEF Goto, TypeOK
<1>2. CASE ClockTicks \/ UNCHANGED allVars
  BY <1>2 DEF ClockTicks, Pass, handlerVars, allVars, vars
<1>3. QED
  BY <1>1, <1>2 DEF HandlerOnly

(* They leave every commit aside.                                          *)
LEMMA HandlerAside ==
  ASSUME TypeOK, NEW x \in Commits, HandlerOnly
  PROVE  Aside(x)
<1>1. LeftAlone(x) /\ UNCHANGED opVars
  BY HandlerKeeps, HandlerStays
<1>2. x \in Requests
  BY QuoteType
<1>3. /\ pc'[x] \in {"sent", "running"} => pc[x] \in {"sent", "running"}
      /\ pc[x] = "done" => pc'[x] = "done"
  BY <1>2, HandlerMovesOn
<1>4. UNCHANGED <<task, audit, at, snap, root>>
  BY <1>1 DEF opVars
<1>5. NoNewReceipt(x)
  BY <1>4 DEF NoNewReceipt
<1>6. QED
  BY <1>1, <1>3, <1>4, <1>5 DEF Aside, Active

(* A step of another commit does too.                                      *)
LEMMA CommitAside ==
  ASSUME CommitInv, NEW r \in Commits, CommitStep(r), NEW x \in Commits, x # r
  PROVE  Aside(x)
<1>1. TypeOK /\ BillTypeOK /\ ControlTypeOK /\ DataTypeOK /\ OperandsKnown
  BY OperationTypeParts DEF CommitInv, CommitTypeOK
<1>2. r \in Requests /\ x \in Requests
  BY QuoteType
<1>3. LeftAlone(x)
  BY CommitKeepsOthers
<1>4. snap'[x] = snap[x] /\ at'[x] = at[x]
  BY <1>1, <1>2, OwnLocals
<1>5. audit'[x] = audit[x] /\ root'[x] = root[x]
  BY <1>1, CommitChainMoves DEF ChainMove
<1>6. task'[x] = task[x]
  BY <1>1, CommitTaskMoves DEF TaskMove
<1>7. UNCHANGED pc
  BY <1>2, InsideShape
<1>8. NoNewReceipt(x)
  BY <1>5 DEF NoNewReceipt
<1>9. QED
  BY <1>3, <1>4, <1>5, <1>6, <1>7, <1>8 DEF Aside, Active

(* What a step of a cancel does with the record it read.                   *)
CancelRecordMove(x) ==
  /\ UNCHANGED <<root, performed, held>>
  /\ \/ /\ at[x] = "read" /\ at'[x] = "clone"
        /\ snap'[x] = task[TaskOf(x)]
        /\ UNCHANGED <<task, audit, released>>
     \/ /\ at[x] = "clone" /\ Cancellable(x, WithBilling(snap[x], task[TaskOf(x)]))
        /\ at'[x] = IF Unsettled(WithBilling(snap[x], task[TaskOf(x)]))
                    THEN "release" ELSE "cancel"
        /\ snap'[x] = WithBilling(snap[x], task[TaskOf(x)])
        /\ UNCHANGED <<task, audit, released>>
     \/ /\ at[x] = "release" /\ at'[x] = "cancel"
        /\ ReleaseHold(snap[x].hold)
        /\ UNCHANGED <<task, audit, snap>>
     \/ at'[x] = "return" /\ UNCHANGED <<task, audit>>
     \/ /\ at[x] = "cancel" /\ at'[x] \in {"report", "return"}
        /\ task' = Written(TaskOf(x), Cancelled(TaskOf(x)))
        /\ UNCHANGED audit
     \/ /\ at[x] = "report" /\ at'[x] = "return"
        /\ Record(TaskOf(x), <<Event("cancelled")>>)
        /\ UNCHANGED task

(* Every step of a cancel is one of these.                                 *)
LEMMA CancelRecordMoves ==
  ASSUME ControlTypeOK, DataTypeOK, NEW x \in Cancels, CancelStep(x)
  PROVE  CancelRecordMove(x)
<1>1. x \in Requests /\ snap \in [Requests -> Tasks]
  BY CommitConstants DEF DataTypeOK
<1>2. ASSUME NEW to, at' = [at EXCEPT ![x] = to] PROVE at'[x] = to
  BY <1>1, <1>2 DEF ControlTypeOK
<1>3. ASSUME NEW copy, snap' = [snap EXCEPT ![x] = copy] PROVE snap'[x] = copy
  BY <1>1, <1>3
<1>4. CASE ReadRecord(x)
  <2>1. /\ at[x] = "read" /\ at'[x] = "clone" /\ snap'[x] = task[TaskOf(x)]
        /\ UNCHANGED <<task, audit, billVars, root, performed, held>>
    BY <1>2, <1>3, <1>4, Zenon DEF ReadRecord, Inside
  <2>2. QED
    BY <2>1 DEF CancelRecordMove, billVars
<1>5. CASE ReadRefuses(x) \/ CloneRefuses(x)
  <2>1. at'[x] = "return" /\ UNCHANGED <<task, audit, root, performed, held>>
    BY <1>2, <1>5, Zenon DEF ReadRefuses, CloneRefuses, Inside, Decide
  <2>2. QED
    BY <2>1 DEF CancelRecordMove
<1>6. CASE CloneBilling(x)
  <2> DEFINE t == WithBilling(snap[x], task[TaskOf(x)])
  <2>1. /\ at[x] = "clone" /\ Cancellable(x, t)
        /\ at' = [at EXCEPT ![x] = IF Unsettled(t) THEN "release" ELSE "cancel"]
        /\ snap' = [snap EXCEPT ![x] = t]
        /\ UNCHANGED <<task, audit, billVars, root, performed, held>>
    BY <1>6, Zenon DEF CloneBilling, Inside
  <2> HIDE DEF t
  <2>2. at'[x] = (IF Unsettled(t) THEN "release" ELSE "cancel") /\ snap'[x] = t
    BY <1>2, <1>3, <2>1
  <2>3. QED
    BY <2>1, <2>2 DEF CancelRecordMove, billVars, t
<1>7. CASE CancelReleases(x)
  <2>1. /\ UNCHANGED <<task, audit, snap, root, performed, held>>
        /\ \/ at[x] = "release" /\ at'[x] = "cancel" /\ ReleaseHold(snap[x].hold)
           \/ at'[x] = "return"
    BY <1>2, <1>7, Zenon DEF CancelReleases, Inside, Decide
  <2>2. QED
    BY <2>1 DEF CancelRecordMove
<1>8. CASE CancelUpdates(x)
  <2>1. /\ UNCHANGED <<audit, root, performed, held>>
        /\ at[x] = "cancel"
        /\ \/ at'[x] = "report" /\ task' = Written(TaskOf(x), Cancelled(TaskOf(x)))
           \/ /\ at'[x] = "return"
              /\ task' = task \/ task' = Written(TaskOf(x), Cancelled(TaskOf(x)))
    BY <1>2, <1>8, Zenon DEF CancelUpdates, Store, StoreFails, StoreErrs, Inside, Decide
  <2>2. QED
    BY <2>1 DEF CancelRecordMove
<1>9. CASE CancelReports(x)
  <2>1. /\ at[x] = "report" /\ at'[x] = "return"
        /\ Record(TaskOf(x), <<Event("cancelled")>>)
        /\ UNCHANGED <<task, root, performed, held>>
    BY <1>2, <1>9, Zenon DEF CancelReports, Inside, Decide
  <2>2. QED
    BY <2>1 DEF CancelRecordMove
<1>10. QED
  BY <1>4, <1>5, <1>6, <1>7, <1>8, <1>9 DEF CancelStep

(* A cancellation keeps the money of the record and its receipt.           *)
LEMMA CancelledFields ==
  ASSUME task \in [Commits -> Tasks], NEW t \in Commits, task' = Written(t, Cancelled(t))
  PROVE  /\ \A x \in Commits \ {t} : task'[x] = task[x]
         /\ task'[t] # NoTask
         /\ task'[t].state = "cancelled"
         /\ task'[t].hold = task[t].hold
         /\ task'[t].settlement = task[t].settlement
         /\ task'[t].receipt = task[t].receipt
<1> DEFINE bill == IF Unsettled(task[t]) THEN "released" ELSE task[t].bill
           new == [task[t] EXCEPT !.state = "cancelled", !.bill = bill]
<1>1. task[t] \in Tasks
  OBVIOUS
<1>2. bill \in BillStates /\ "cancelled" \in TaskStates
  BY <1>1 DEF Tasks, BillStates, TaskStates, Terminal
<1>3. new = Cancelled(t)
  BY <1>1 DEF Cancelled, Tasks
<1> HIDE DEF bill
<1>4. new \in Tasks
  BY <1>1, <1>2, ChangedTask
<1>5. new.state = "cancelled" /\ new.hold = task[t].hold
      /\ new.settlement = task[t].settlement
  BY <1>1, KeepsMoney
<1>6. new.receipt = task[t].receipt
  BY <1>1, FieldsOfState
<1> HIDE DEF new
<1>7. task' = Written(t, new)
  BY <1>3
<1>8. QED
  BY <1>4, <1>5, <1>6, <1>7, WrittenFields, WrittenReceipt

(* A cancel touches a commit only when its task is quiet.                  *)
LEMMA CancelAside ==
  ASSUME CommitInv, CancelsKnowTheirTask, NEW x \in Cancels, CancelFinds(x), CancelStep(x),
         NEW r \in Commits
  PROVE  Aside(r)
<1>1. TypeOK /\ BillTypeOK /\ ControlTypeOK /\ DataTypeOK /\ OperandsKnown
  BY OperationTypeParts DEF CommitInv, CommitTypeOK
<1>2. x \in Requests /\ r \in Requests /\ x # r /\ TaskOf(x) \in Commits
      /\ audit \in [Commits -> Seq(AuditEvents)] /\ task \in [Commits -> Tasks]
  BY <1>1, CommitConstants DEF TaskOf, DataTypeOK
<1>3. LeftAlone(r)
  BY CancelKeeps
<1>4. snap'[r] = snap[r] /\ at'[r] = at[r] /\ UNCHANGED pc
  BY <1>1, <1>2, OwnLocals, InsideShape
<1>5. CancelRecordMove(x)
  BY <1>1, CancelRecordMoves
<1>6. root'[r] = root[r]
  BY <1>5 DEF CancelRecordMove
<1>7. ASSUME audit'[r] = audit[r] PROVE NoNewReceipt(r)
  BY <1>7 DEF NoNewReceipt
<1>8. CASE UNCHANGED <<task, audit>>
  BY <1>3, <1>4, <1>6, <1>7, <1>8 DEF Aside, Active
<1>9. CASE /\ at[x] = "cancel" /\ task' = Written(TaskOf(x), Cancelled(TaskOf(x)))
           /\ UNCHANGED audit
  <2>1. CASE r = TaskOf(x)
    <3>1. Quiet(r) /\ (task[r].hold # None => task[r].hold \in released)
      BY <1>9, <2>1 DEF CancelFinds
    <3>2. /\ task'[r] # NoTask
          /\ task'[r].state = "cancelled"
          /\ task'[r].settlement = task[r].settlement
          /\ task'[r].receipt = task[r].receipt
      BY <1>2, <1>9, <2>1, CancelledFields
    <3>3. QED
      BY <1>3, <1>4, <1>6, <1>7, <1>9, <3>1, <3>2 DEF Aside, Active
  <2>2. CASE r # TaskOf(x)
    <3>1. task'[r] = task[r]
      BY <1>2, <1>9, <2>2, CancelledFields
    <3>2. QED
      BY <1>3, <1>4, <1>6, <1>7, <1>9, <3>1 DEF Aside, Active
  <2>3. QED
    BY <2>1, <2>2
<1>10. CASE /\ at[x] = "report" /\ Record(TaskOf(x), <<Event("cancelled")>>)
            /\ UNCHANGED task
  <2>1. /\ NoNewReceipt(TaskOf(x))
        /\ \A y \in Commits \ {TaskOf(x)} : audit'[y] = audit[y]
    <3>1. "cancelled" \in AuditTypes \ {"receipt"}
      BY DEF AuditTypes
    <3>2. /\ <<Event("cancelled")>> \in Seq(AuditEvents)
          /\ \A i \in 1 .. Len(<<Event("cancelled")>>) :
               <<Event("cancelled")>>[i].type # "receipt"
      BY <3>1, PlainEvents
    <3>3. QED
      BY <1>2, <1>10, <3>2, PlainRecord
  <2>2. CASE r = TaskOf(x)
    <3>1. Quiet(r)
      BY <1>10, <2>2 DEF CancelFinds
    <3>2. QED
      BY <1>3, <1>4, <1>6, <1>10, <2>1, <2>2, <3>1 DEF Aside, Active
  <2>3. CASE r # TaskOf(x)
    BY <1>3, <1>4, <1>6, <1>7, <1>10, <2>1, <2>3 DEF Aside, Active
  <2>4. QED
    BY <2>2, <2>3
<1>11. QED
  BY <1>5, <1>8, <1>9, <1>10 DEF CancelRecordMove

(* A step is of the commit itself, or leaves it aside.                     *)
LEMMA OwnOrAside ==
  ASSUME CommitInv, CancelsKnowTheirTask, \A x \in Cancels : CancelFinds(x),
         [CommitNext]_allVars, NEW r \in Commits
  PROVE  CommitStep(r) \/ Aside(r)
<1>1. TypeOK
  BY DEF CommitInv, CommitTypeOK
<1>2. CASE \E x \in Commits : CommitStep(x)
  BY <1>2, CommitAside
<1>3. CASE \E x \in Cancels : CancelStep(x)
  BY <1>3, CancelAside
<1>4. CASE HandlerOnly
  BY <1>1, <1>4, HandlerAside
<1>5. QED
  BY <1>2, <1>3, <1>4 DEF CommitNext, HandlerOnly

-----------------------------------------------------------------------------
(* The record of a commit after its own steps                              *)

(* The zero task, and a task as it is first recorded.                      *)
LEMMA FirstFields ==
  ASSUME NEW r \in Commits
  PROVE  /\ NoTask.state = "none" /\ NoTask.settlement = None /\ NoTask.receipt = NoReceipt
         /\ Accepted(r).state = "accepted" /\ Accepted(r).settlement = None
         /\ Accepted(r).receipt = NoReceipt
BY AcceptedFields DEF NoTask, Accepted

(* A step of its own keeps the state in step with the call.                *)
LEMMA OwnState ==
  ASSUME NEW r \in Commits, OwnMove(r), RecordMove(r), StateFollowsCall(r)
  PROVE  StateFollowsCall(r)'
<1>1. pc[r] = "running" /\ pc'[r] = "running"
  BY DEF OwnMove
<1>2. CASE BeforeRecord(r)
  BY <1>1, <1>2 DEF BeforeRecord, StateFollowsCall, Active, Early, Reporting, Working, Marking,
                    Closing, KeepsRecord, Goes, Ends
<1>3. CASE MakesRecord(r)
  BY <1>1, <1>3, FirstFields
  DEF MakesRecord, StateFollowsCall, Active, Reporting, Working, Marking, Closing, KeepsRecord,
      Goes, GivesUp
<1>4. CASE StartsTask(r)
  BY <1>1, <1>4 DEF StartsTask, StateFollowsCall, Active, Reporting, Working, Marking,
                    Closing, KeepsRecord, SetsState, Goes, GivesUp
<1>5. CASE LeavesTask(r)
  BY <1>1, <1>5 DEF LeavesTask, StateFollowsCall, Active, KeepsRecord, Goes
<1>6. CASE Works(r)
  BY <1>1, <1>6 DEF Works, StateFollowsCall, Active, Reporting, Working, Marking, Closing,
                    KeepsRecord, Goes
<1>7. CASE Marks(r)
  BY <1>1, <1>7 DEF Marks, StateFollowsCall, Active, Reporting, Working, Marking, Closing,
                    KeepsRecord, SetsState, Goes, Ends
<1>8. CASE Binds(r)
  BY <1>1, <1>8 DEF Binds, StateFollowsCall, Active, Reporting, Working, Marking, Closing,
                    BindsSettlement, Goes, Ends
<1>9. CASE Finishes(r)
  BY <1>1, <1>9 DEF Finishes, StateFollowsCall, Active, Reporting, Working, Marking, Closing,
                    KeepsRecord, SetsState, Goes, Ends
<1>10. CASE Reports(r)
  BY <1>1, <1>10 DEF Reports, StateFollowsCall, Active, KeepsRecord, Ends
<1>11. CASE Closes(r)
  BY <1>1, <1>11 DEF Closes, StateFollowsCall, Active, Reporting, Working, Marking, Closing,
                     KeepsRecord, Goes, Ends
<1>12. CASE Attaches(r)
  BY <1>1, <1>12 DEF Attaches, StateFollowsCall, Active, Reporting, Working, Marking, Closing,
                     KeepsRecord, AttachesReceipt, Goes, Ends
<1>13. QED
  BY <1>2, <1>3, <1>4, <1>5, <1>6, <1>7, <1>8, <1>9, <1>10, <1>11, <1>12 DEF RecordMove

(* So does it keep the settlement where a cancel cannot find it.           *)
LEMMA OwnSettlement ==
  ASSUME NEW r \in Commits, OwnMove(r), RecordMove(r), StateFollowsCall(r),
         SettlementFollowsCall(r)
  PROVE  SettlementFollowsCall(r)'
<1>1. pc[r] = "running" /\ at[r] # "return"
  BY DEF OwnMove
<1>2. CASE BeforeRecord(r)
  BY <1>1, <1>2, FirstFields
  DEF BeforeRecord, StateFollowsCall, SettlementFollowsCall, Active, Early, Reporting, Closing,
      KeepsRecord, Goes, Ends
<1>3. CASE MakesRecord(r)
  BY <1>1, <1>3, FirstFields
  DEF MakesRecord, StateFollowsCall, SettlementFollowsCall, Active, Reporting, Closing,
      KeepsRecord, Goes, GivesUp
<1>4. CASE StartsTask(r)
  BY <1>1, <1>4 DEF StartsTask, SettlementFollowsCall, Closing, KeepsRecord, SetsState, Goes,
                    GivesUp
<1>5. CASE LeavesTask(r)
  BY <1>1, <1>5 DEF LeavesTask, SettlementFollowsCall, Closing, KeepsRecord, Goes
<1>6. CASE Works(r)
  BY <1>1, <1>6 DEF Works, SettlementFollowsCall, Working, Marking, Closing, KeepsRecord, Goes
<1>7. CASE Marks(r)
  BY <1>1, <1>7 DEF Marks, SettlementFollowsCall, Reporting, Marking, Closing, KeepsRecord,
                    SetsState, Goes, Ends
<1>8. CASE Binds(r)
  BY <1>1, <1>8 DEF Binds, StateFollowsCall, SettlementFollowsCall, Active, Reporting, Working,
                    Closing, BindsSettlement, Goes, Ends
<1>9. CASE Finishes(r)
  BY <1>1, <1>9 DEF Finishes, SettlementFollowsCall, Closing, KeepsRecord, SetsState, Goes, Ends
<1>10. CASE Reports(r)
  BY <1>1, <1>10 DEF Reports, SettlementFollowsCall, Reporting, Closing, KeepsRecord, Ends
<1>11. CASE Closes(r)
  BY <1>1, <1>11 DEF Closes, SettlementFollowsCall, Closing, KeepsRecord, Goes, Ends
<1>12. CASE Attaches(r)
  BY <1>1, <1>12 DEF Attaches, StateFollowsCall, SettlementFollowsCall, Active, Reporting,
                     Closing, KeepsRecord, AttachesReceipt, Goes, Ends
<1>13. QED
  BY <1>2, <1>3, <1>4, <1>5, <1>6, <1>7, <1>8, <1>9, <1>10, <1>11, <1>12 DEF RecordMove

(* The receipt stays where it is, or is attached to a final record.        *)
LEMMA OwnReceipt ==
  ASSUME NEW r \in Commits, OwnMove(r), RecordMove(r), StateFollowsCall(r), ReceiptFollowsCall(r)
  PROVE  /\ task'[r].receipt # NoReceipt =>
              /\ task'[r].state \in {"succeeded", "failed"}
              /\ Active(r)' => at'[r] = "issue"
         /\ task'[r].receipt # NoReceipt => KeepsRecord(r) \/ (at[r] = "attach" /\ Attaches(r))
<1>1. pc[r] = "running" /\ at[r] # "return"
  BY DEF OwnMove
<1>2. CASE BeforeRecord(r) \/ MakesRecord(r)
  BY <1>1, <1>2, FirstFields
  DEF BeforeRecord, MakesRecord, StateFollowsCall, Active, Early, Reporting, KeepsRecord
<1>3. CASE StartsTask(r) \/ LeavesTask(r) \/ Works(r) \/ Marks(r) \/ Binds(r) \/ Finishes(r)
  <2>1. task[r].receipt = NoReceipt
    BY <1>1, <1>3 DEF ReceiptFollowsCall, Active, Reporting, Marking, StartsTask, LeavesTask,
                      Works, Marks, Binds, Finishes
  <2>2. task'[r].receipt = task[r].receipt
    BY <1>3 DEF StartsTask, LeavesTask, Works, Marks, Binds, Finishes, KeepsRecord, SetsState,
                BindsSettlement
  <2>3. QED
    BY <2>1, <2>2
<1>4. CASE Reports(r)
  BY <1>1, <1>4 DEF Reports, ReceiptFollowsCall, Active, KeepsRecord, Ends
<1>5. CASE Closes(r)
  BY <1>1, <1>5 DEF Closes, ReceiptFollowsCall, Active, Closing, Reporting, KeepsRecord, Goes, Ends
<1>6. CASE Attaches(r)
  BY <1>1, <1>6 DEF Attaches, StateFollowsCall, ReceiptFollowsCall, Active, Closing, Reporting,
                    KeepsRecord, AttachesReceipt, Goes, Ends
<1>7. QED
  BY <1>2, <1>3, <1>4, <1>5, <1>6 DEF RecordMove

(* The copy and the root a receipt is made from are fresh when it is made. *)
LEMMA OwnCopy ==
  ASSUME NEW r \in Commits, OwnMove(r), RecordMove(r), CopyMove(r), ChainMove(r),
         ReceiptFollowsCall(r)
  PROVE  /\ at'[r] \in Closing \ {"issue"} => snap'[r] = task'[r]
         /\ at'[r] \in {"attach", "issue"} => root'[r] = Len(audit'[r])
<1>1. pc[r] = "running" /\ at[r] # "return"
  BY DEF OwnMove
<1>2. ASSUME at'[r] \in {"anchor", "attach"} PROVE Closes(r)
  BY <1>2 DEF RecordMove, BeforeRecord, MakesRecord, StartsTask, LeavesTask, Works, Marks, Binds,
              Finishes, Reports, Attaches, Goes, Ends, GivesUp, Working, Marking, Reporting
<1>3. ASSUME at'[r] \in {"anchor", "attach"} PROVE snap'[r] = task'[r]
  <2>1. at[r] \in {"succeeded", "failed", "anchor"} /\ KeepsRecord(r)
    BY <1>2, <1>3 DEF Closes, Goes, Ends
  <2>2. snap[r] = task[r]
    BY <1>1, <2>1 DEF ReceiptFollowsCall, Active, Closing, Reporting
  <2>3. QED
    BY <1>3, <2>1, <2>2 DEF CopyMove, KeepsRecord
<1>4. ASSUME at'[r] \in {"attach", "issue"} PROVE root'[r] = Len(audit'[r])
  <2>1. CASE at'[r] = "attach"
    BY <2>1 DEF ChainMove
  <2>2. CASE at'[r] = "issue"
    <3>1. root'[r] = root[r] /\ audit'[r] = audit[r] /\ at[r] = "attach"
      BY <2>2 DEF ChainMove
    <3>2. root[r] = Len(audit[r])
      BY <1>1, <3>1 DEF ReceiptFollowsCall, Active, Reporting
    <3>3. QED
      BY <3>1, <3>2
  <2>3. QED
    BY <1>4, <2>1, <2>2
<1>5. QED
  BY <1>3, <1>4 DEF CopyMove, Closing

(* A cancelled task is not touched by its commit.                          *)
LEMMA OwnCancelled ==
  ASSUME NEW r \in Commits, OwnMove(r), RecordMove(r), StateFollowsCall(r), AnswersStand,
         CancelledGaveBack(r)
  PROVE  CancelledGaveBack(r)'
<1>1. pc[r] = "running"
  BY DEF OwnMove
<1>2. task'[r].state = "cancelled" => KeepsRecord(r)
  BY <1>1, FirstFields
  DEF RecordMove, BeforeRecord, MakesRecord, StartsTask, LeavesTask, Works, Marks, Binds,
      Finishes, Reports, Closes, Attaches, SetsState, BindsSettlement, AttachesReceipt,
      StateFollowsCall, Active, Working, Reporting, Closing
<1>3. QED
  BY <1>2 DEF CancelledGaveBack, KeepsRecord, AnswersStand

(* What the receipt of a commit says of its task, and of its chain.        *)
ReceiptTells(r) ==
  task[r].receipt # NoReceipt =>
    /\ task[r].receipt.outcome = task[r].state
    /\ task[r].receipt.bill = task[r].bill
    /\ task[r].receipt.amount = task[r].amount

ChainIsAnchored(r) ==
  \A i \in DOMAIN audit[r] :
    audit[r][i].type = "receipt" => audit[r][i].anchor = i - 1

(* A step of its own keeps the record of a commit.                         *)
LEMMA OwnRecord ==
  ASSUME CommitInv, AnswersStand, NEW r \in Commits, CommitStep(r), RecordOf(r),
         ReceiptTells(r), ChainIsAnchored(r)
  PROVE  RecordOf(r)' /\ ReceiptTells(r)' /\ ChainIsAnchored(r)'
<1>1. BillTypeOK /\ ControlTypeOK /\ DataTypeOK /\ OperandsKnown
  BY OperationTypeParts DEF CommitInv, CommitTypeOK
<1>2. OwnMove(r) /\ RecordMove(r) /\ CopyMove(r) /\ ChainMove(r)
  BY <1>1, OwnMoves, CommitRecordMoves, CommitCopyMoves, CommitChainMoves
<1>3. /\ StateFollowsCall(r) /\ SettlementFollowsCall(r) /\ ReceiptFollowsCall(r)
      /\ CancelledGaveBack(r)
  BY DEF RecordOf
<1>4. ReceiptFollowsCall(r)'
  BY <1>2, <1>3, OwnReceipt, OwnCopy DEF ReceiptFollowsCall
<1>5. RecordOf(r)'
  BY <1>2, <1>3, <1>4, OwnState, OwnSettlement, OwnCancelled DEF RecordOf
<1>6. ReceiptTells(r)'
  <2>1. CASE KeepsRecord(r)
    BY <2>1 DEF KeepsRecord, ReceiptTells
  <2>2. CASE at[r] = "attach" /\ AttachesReceipt(r)
    <3>1. snap[r] = task[r]
      BY <1>2, <1>3, <2>2 DEF ReceiptFollowsCall, Active, Closing, Reporting, OwnMove
    <3>2. /\ Receipt(r).outcome = task[r].state
          /\ Receipt(r).bill = task[r].bill
          /\ Receipt(r).amount = task[r].amount
      BY <3>1 DEF Receipt
    <3>3. QED
      BY <2>2, <3>2 DEF AttachesReceipt, ReceiptTells
  <2>3. QED
    BY <1>2, <1>3, <2>1, <2>2, OwnReceipt DEF Attaches, ReceiptTells
<1>7. ChainIsAnchored(r)'
  <2>1. CASE NoNewReceipt(r)
    BY <2>1 DEF NoNewReceipt, ChainIsAnchored
  <2>2. CASE at[r] = "issue" /\ IssuesReceipt(r)
    <3>1. root[r] = Len(audit[r])
      BY <1>2, <1>3, <2>2 DEF ReceiptFollowsCall, Active, Reporting, OwnMove
    <3>2. audit[r] \in Seq(AuditEvents)
      BY <1>1 DEF DataTypeOK
    <3>3. Len(audit[r]) + 1 - 1 = Len(audit[r])
      BY <3>2
    <3>4. QED
      BY <2>2, <3>1, <3>3 DEF IssuesReceipt, ChainIsAnchored
  <2>3. QED
    BY <1>2, <2>1, <2>2 DEF ChainMove
<1>8. QED
  BY <1>5, <1>6, <1>7

(* So does a step that leaves the commit aside.                            *)
LEMMA AsideRecord ==
  ASSUME AnswersStand, NEW r \in Commits, Aside(r), RecordOf(r), ReceiptTells(r),
         ChainIsAnchored(r)
  PROVE  RecordOf(r)' /\ ReceiptTells(r)' /\ ChainIsAnchored(r)'
<1>1. /\ at'[r] = at[r] /\ result'[r] = result[r] /\ snap'[r] = snap[r] /\ root'[r] = root[r]
      /\ Active(r)' => Active(r)
      /\ task'[r] = task[r] \/ task'[r].hold = task[r].hold
  BY DEF Aside, LeftAlone
<1>2. \/ task'[r] = task[r] /\ (audit'[r] = audit[r] \/ ~Active(r))
      \/ /\ Quiet(r)
         /\ task'[r].state = "cancelled"
         /\ task'[r].settlement = task[r].settlement
         /\ task'[r].receipt = task[r].receipt
         /\ task[r].hold # None => task[r].hold \in released
  BY DEF Aside, Quiet
<1>3. StateFollowsCall(r)'
  BY <1>1, <1>2 DEF StateFollowsCall, RecordOf, Quiet
<1>4. SettlementFollowsCall(r)'
  BY <1>1, <1>2 DEF SettlementFollowsCall, RecordOf, Quiet
<1>5. Quiet(r) => task[r].receipt = NoReceipt
  BY DEF Quiet, RecordOf, ReceiptFollowsCall
<1>6. ReceiptFollowsCall(r)'
  BY <1>1, <1>2, <1>5 DEF ReceiptFollowsCall, RecordOf, Quiet
<1>7. CancelledGaveBack(r)'
  BY <1>1, <1>2 DEF CancelledGaveBack, RecordOf, AnswersStand
<1>8. ReceiptTells(r)'
  BY <1>2, <1>5 DEF ReceiptTells
<1>9. ChainIsAnchored(r)'
  BY DEF Aside, NoNewReceipt, ChainIsAnchored
<1>10. QED
  BY <1>3, <1>4, <1>6, <1>7, <1>8, <1>9 DEF RecordOf

-----------------------------------------------------------------------------
(* What a cancel may rely on                                               *)

(* A quiet task stays quiet.                                               *)
LEMMA QuietStays ==
  ASSUME CommitInv, NEW t \in Commits, Quiet(t), CommitStep(t) \/ Aside(t)
  PROVE  Quiet(t)'
<1>1. CASE Aside(t)
  BY <1>1 DEF Aside, Quiet
<1>2. CASE CommitStep(t)
  <2>1. BillTypeOK /\ ControlTypeOK /\ DataTypeOK /\ OperandsKnown
    BY OperationTypeParts DEF CommitInv, CommitTypeOK
  <2>2. OwnMove(t) /\ RecordMove(t)
    BY <1>2, <2>1, OwnMoves, CommitRecordMoves
  <2>3. at[t] \in Reporting
    BY <2>2 DEF OwnMove, Quiet, Active
  <2>4. Reports(t)
    BY <2>2, <2>3
    DEF RecordMove, Reporting, BeforeRecord, MakesRecord, StartsTask, LeavesTask, Works, Marks,
        Binds, Finishes, Closes, Attaches, Early, Marking, Closing
  <2>5. task'[t] = task[t] /\ at'[t] = "return"
    BY <2>4 DEF Reports, KeepsRecord, Ends
  <2>6. QED
    BY <2>5 DEF Quiet, Active
<1>3. QED
  BY <1>1, <1>2

(* A task keeps the reservation it was recorded with.                      *)
LEMMA HoldStays ==
  ASSUME CommitInv, NEW t \in Commits, CommitStep(t) \/ Aside(t), task[t] # NoTask,
         StateFollowsCall(t)
  PROVE  task'[t].hold = task[t].hold
<1>1. CASE Aside(t)
  BY <1>1 DEF Aside, LeftAlone
<1>2. CASE CommitStep(t)
  <2>1. OwnMove(t)
    BY <1>2, OwnMoves
  <2>2. at[t] # "put"
    BY <2>1 DEF OwnMove, StateFollowsCall, Active, Reporting
  <2>3. QED
    BY <2>1, <2>2 DEF OwnMove, TaskMove, Rewritten
<1>3. QED
  BY <1>1, <1>2

(* A request that has ended does nothing more.                             *)
LEMMA DoneStays ==
  ASSUME CommitInv, NEW t \in Commits, CommitStep(t) \/ Aside(t), pc[t] = "done"
  PROVE  pc'[t] = "done" /\ result'[t] = result[t]
<1>1. CASE Aside(t)
  BY <1>1 DEF Aside, LeftAlone
<1>2. CASE CommitStep(t)
  <2>1. pc[t] = "running"
    BY <1>2, OwnMoves DEF OwnMove
  <2>2. QED
    BY <2>1
<1>3. QED
  BY <1>1, <1>2

(* An answer is given with the end of the request.                         *)
LEMMA AnswersStep ==
  ASSUME TypeOK, AnswersComeLast, [Next]_vars
  PROVE  AnswersComeLast'
<1> SUFFICES ASSUME NEW r \in Requests, pc'[r] # "done"
             PROVE  answer'[r].kind \notin {"result", "unknown"}
  BY DEF AnswersComeLast
<1>1. CASE \E s \in Requests : RequestStep(s)
  <2>1. PICK s \in Requests : RequestStep(s)
    BY <1>1
  <2>2. CASE ClaimNew(s) \/ CrossEffect(s) \/ Return(s)
    <3>1. UNCHANGED answer /\ (pc[r] = "done" => pc'[r] = "done")
      BY <2>2 DEF ClaimNew, CrossEffect, Return, Goto, TypeOK
    <3>2. QED
      BY <3>1 DEF AnswersComeLast
  <2>3. CASE \/ ClaimReplay(s) \/ ClaimConflict(s) \/ ClaimInProgress(s)
             \/ ClaimUnavailable(s) \/ Panic(s) \/ ReleaseClaim(s) \/ ReleaseClaimFails(s)
             \/ CompleteClaim(s) \/ CompleteClaimFails(s)
    <3>1. (\E from : Goto(s, from, "done")) /\ \E ans : Reply(s, ans)
      BY <2>3, Zenon DEF ClaimReplay, ClaimConflict, ClaimInProgress, ClaimUnavailable, Panic,
                         ReleaseClaim, ReleaseClaimFails, CompleteClaim, CompleteClaimFails
    <3>2. pc' = [pc EXCEPT ![s] = "done"] /\ \E ans : answer' = [answer EXCEPT ![s] = ans]
      BY <3>1 DEF Goto, Reply
    <3>3. r # s /\ pc'[r] = pc[r] /\ answer'[r] = answer[r]
      BY <3>2 DEF TypeOK
    <3>4. QED
      BY <3>3 DEF AnswersComeLast
  <2>4. QED
    BY <2>1, <2>2, <2>3 DEF RequestStep
<1>2. CASE Pass \/ UNCHANGED vars
  BY <1>2 DEF Pass, vars, handlerVars, AnswersComeLast
<1>3. QED
  BY <1>1, <1>2 DEF Next

(* A task a cancel may find cancellable is quiet.                          *)
LEMMA CancellableIsQuiet ==
  ASSUME CommitInv, CancelsComeLater, NEW x \in Cancels, NEW t \in Commits, t = TaskOf(x),
         RecordOf(t), CancelFinds(x), pc[x] # "sent",
         task[t] # NoTask, task[t].state \in CancellableIn \ Terminal
  PROVE  Quiet(t)
<1>1. ControlTypeOK /\ DataTypeOK
  BY OperationTypeParts DEF CommitInv, CommitTypeOK
<1>2. task[t].state \in TaskStates
  BY <1>1 DEF DataTypeOK, Tasks
<1>3. task[t].state \notin {"none", "succeeded", "failed", "cancelled"}
  BY DEF RecordOf, StateFollowsCall, Terminal
<1>4. t # None
  BY CommitConstants
<1>5. CASE ~EffectNamesTask
  <2>1. pc[t] = "done" /\ result[t].task = t
    BY <1>5 DEF CancelFinds
  <2>2. task[t].settlement = None
    BY <1>3, <1>4, <2>1 DEF RecordOf, SettlementFollowsCall
  <2>3. QED
    BY <1>3, <2>1, <2>2 DEF Quiet, Active
<1>6. CASE CancellableIn \cap {"accepted", "running"} = {}
  <2>1. task[t].state \in {"waiting_input", "disputed"}
    BY <1>2, <1>3, <1>6 DEF TaskStates
  <2>2. task[t].settlement = None
    BY <2>1 DEF RecordOf, SettlementFollowsCall
  <2>3. at[t] \in CommitCalls
    BY <1>1 DEF ControlTypeOK
  <2>4. ~Active(t)
    BY <2>1, <2>3
    DEF RecordOf, StateFollowsCall, Active, CommitCalls, Reporting, Working, Marking, Closing,
        NoTask
  <2>5. QED
    BY <1>3, <2>2, <2>4 DEF Quiet
<1>7. QED
  BY <1>5, <1>6 DEF CancelsComeLater

(* The copy a cancel clones has the state that was read and the billing    *)
(* there is.                                                               *)
LEMMA ClonedFields ==
  ASSUME NEW t \in Tasks, NEW b \in Tasks
  PROVE  /\ WithBilling(t, b).state = t.state
         /\ WithBilling(t, b).hold = t.hold
         /\ WithBilling(t, b).settlement = b.settlement
<1> DEFINE w == WithBilling(t, b)
<1>1. w.state = t.state
  BY DEF Tasks, WithBilling
<1>2. w.hold = t.hold
  BY DEF Tasks, WithBilling
<1>3. w.settlement = b.settlement
  BY DEF Tasks, WithBilling
<1>4. QED
  BY <1>1, <1>2, <1>3

(* The step of a cancel keeps what it found.                               *)
LEMMA OwnFinds ==
  ASSUME CommitInv, CancelsComeLater, CancelsKnowTheirTask, AnswersStand,
         NEW x \in Cancels, CancelStep(x), CancelFinds(x), RecordOf(TaskOf(x)),
         Aside(TaskOf(x))
  PROVE  CancelFinds(x)'
<1> DEFINE t == TaskOf(x)
           copy == WithBilling(snap[x], task[t])
<1>1. TypeOK /\ BillTypeOK /\ ControlTypeOK /\ DataTypeOK /\ OperandsKnown
  BY OperationTypeParts DEF CommitInv, CommitTypeOK
<1>2. x \in Requests /\ t \in Commits /\ snap[x] \in Tasks /\ task[t] \in Tasks
  BY <1>1, CommitConstants DEF TaskOf, DataTypeOK
<1>3. CancelRecordMove(x) /\ CancelMove(x)
  BY <1>1, CancelRecordMoves, CancelMoves
<1>4. pc[x] = "running" /\ pc'[x] = pc[x]
  BY <1>2, InsideShape
<1>5. copy.state = snap[x].state /\ copy.hold = snap[x].hold
      /\ copy.settlement = task[t].settlement
  BY <1>2, ClonedFields
<1>6. TaskOf(x)' = t
  BY DEF TaskOf
<1>7. Quiet(t) => Quiet(t)'
  BY <1>2, QuietStays
<1>8. ~EffectNamesTask => pc'[t] = "done" /\ result'[t].task = t
  BY <1>2, <1>4, DoneStays DEF CancelFinds
<1> HIDE DEF t
<1>9. at'[x] = "clone" /\ snap'[x].state \in CancellableIn \ Terminal => Quiet(t)'
  <2>1. ASSUME at'[x] = "clone", snap'[x].state \in CancellableIn \ Terminal PROVE Quiet(t)
    <3>1. at[x] = "read" /\ snap'[x] = task[t]
      BY <1>3, <2>1 DEF CancelRecordMove, t
    <3>2. task[t] # NoTask
      BY <1>3, <2>1, <3>1 DEF CancelMove, t
    <3>3. QED
      BY <1>2, <1>4, <2>1, <3>1, <3>2, CancellableIsQuiet DEF t
  <2>2. QED
    BY <1>7, <2>1
<1> HIDE DEF copy
<1>10. at[x] = "clone" /\ at'[x] # "return" =>
         /\ at'[x] = IF Unsettled(copy) THEN "release" ELSE "cancel"
         /\ snap'[x] = copy /\ task' = task /\ Quiet(t)
  <2>1. ASSUME at[x] = "clone", at'[x] # "return"
        PROVE  /\ Cancellable(x, copy) /\ task' = task /\ snap'[x] = copy
               /\ at'[x] = IF Unsettled(copy) THEN "release" ELSE "cancel"
    BY <1>3, <2>1 DEF CancelRecordMove, copy, t
  <2>2. Cancellable(x, copy) => copy.state \in CancellableIn \ Terminal
    BY DEF Cancellable
  <2>3. QED
    BY <1>5, <2>1, <2>2 DEF CancelFinds, t
<1>11. at'[x] \in {"release", "cancel", "report"} => Quiet(t)'
  <2>1. at'[x] \in {"release", "cancel", "report"} => at[x] \in {"clone", "release", "cancel"}
    BY <1>3 DEF CancelRecordMove
  <2>2. QED
    BY <1>7, <1>10, <2>1 DEF CancelFinds, t
<1>12. at'[x] \in {"clone", "release", "cancel"} => snap'[x].hold = task'[t].hold
  <2>1. CASE at[x] = "clone"
    <3>1. at'[x] # "clone"
      BY <1>3, <2>1 DEF CancelRecordMove
    <3>2. QED
      BY <1>5, <1>10, <2>1 DEF CancelFinds, t
  <2>2. CASE at[x] # "clone"
    <3>1. at'[x] \in {"clone", "release", "cancel"} =>
            /\ task' = task
            /\ \/ snap'[x] = task[t]
               \/ at[x] = "release" /\ snap'[x] = snap[x]
      BY <1>3, <2>2 DEF CancelRecordMove, t
    <3>2. QED
      BY <3>1 DEF CancelFinds, t
  <2>3. QED
    BY <2>1, <2>2
<1>13. at'[x] = "cancel" /\ task'[t].hold # None => task'[t].hold \in released'
  <2>1. ASSUME at'[x] = "cancel", task'[t].hold # None PROVE task'[t].hold \in released'
    <3>1. CASE at[x] = "clone"
      <4>1. ~Unsettled(copy) /\ task' = task /\ Quiet(t)
        BY <1>10, <2>1, <3>1
      <4>2. task[t].hold # None /\ copy.hold = task[t].hold
        BY <1>5, <2>1, <3>1, <4>1 DEF CancelFinds, t
      <4>3. QED
        BY <1>5, <4>1, <4>2 DEF Unsettled, Quiet
    <3>2. CASE at[x] # "clone"
      <4>1. at[x] = "release" /\ ReleaseHold(snap[x].hold) /\ task' = task
        BY <1>3, <2>1, <3>2 DEF CancelRecordMove
      <4>2. snap[x].hold = task[t].hold
        BY <4>1 DEF CancelFinds, t
      <4>3. QED
        BY <4>1, <4>2 DEF ReleaseHold
    <3>3. QED
      BY <3>1, <3>2
  <2>2. QED
    BY <2>1
<1>14. QED
  BY <1>6, <1>8, <1>9, <1>11, <1>12, <1>13 DEF CancelFinds

(* A cancel is sent for a task whose commit has answered, unless the       *)
(* effect names it.                                                        *)
LEMMA SentAfterAnswer ==
  ASSUME AnswersComeLast, NEW x \in Cancels, TaskOf(x) \in Commits,
         \A r \in Commits : SettlementFollowsCall(r), Claims(x), ~EffectNamesTask
  PROVE  pc[TaskOf(x)] = "done" /\ result[TaskOf(x)].task = TaskOf(x)
<1>1. PICK r \in Commits : result[r].task = TaskOf(x) /\ answer[r].kind \in {"result", "unknown"}
  BY DEF Claims, Disclosed
<1>2. r \in Requests /\ TaskOf(x) # None
  BY CommitConstants
<1>3. pc[r] = "done"
  BY <1>1, <1>2 DEF AnswersComeLast
<1>4. r = TaskOf(x)
  BY <1>1, <1>2 DEF SettlementFollowsCall
<1>5. QED
  BY <1>1, <1>3, <1>4

(* Only its own claim starts a request.                                    *)
LEMMA ClaimsStart ==
  ASSUME TypeOK, [CommitNext]_allVars, NEW x \in Requests, pc[x] = "sent", pc'[x] # "sent"
  PROVE  Claims(x)
<1>1. CASE \E r \in Requests : Claims(r)
  <2>1. PICK r \in Requests : Claims(r)
    BY <1>1
  <2>2. \E to : pc' = [pc EXCEPT ![r] = to]
    BY <2>1, Zenon DEF Claims, ClaimNew, ClaimReplay, ClaimConflict, ClaimInProgress,
                       ClaimUnavailable, Goto
  <2>3. r = x
    BY <2>2 DEF TypeOK
  <2>4. QED
    BY <2>1, <2>3
<1>2. CASE \E r \in Requests : OperationReturns(r) \/ OperationPanics(r) \/ Disposes(r)
  <2>1. \E r \in Requests : \/ Goto(r, "running", "returned") \/ Goto(r, "running", "done")
                            \/ Goto(r, "returned", "done")
    BY <1>2, Zenon
    DEF OperationReturns, OperationPanics, Panic, Disposes, ReleaseClaim, ReleaseClaimFails,
        CompleteClaim, CompleteClaimFails
  <2>2. pc'[x] = "sent"
    BY <2>1 DEF Goto, TypeOK
  <2>3. QED
    BY <2>2
<1>3. CASE \E r \in Requests : (r \in Commits /\ CommitStep(r)) \/ (r \in Cancels /\ CancelStep(r))
  BY <1>3, InsideShape
<1>4. CASE ClockTicks \/ UNCHANGED allVars
  BY <1>4 DEF ClockTicks, Pass, handlerVars, allVars, vars
<1>5. QED
  BY <1>1, <1>2, <1>3, <1>4, CommitConstants DEF CommitNext

(* A step of another request keeps what a cancel found.                    *)
LEMMA OthersFind ==
  ASSUME CommitInv, CancelsKnowTheirTask, AnswersStand, AnswersComeLast, [CommitNext]_allVars,
         NEW x \in Cancels, ~CancelStep(x), CancelFinds(x),
         \A r \in Commits : RecordOf(r),
         CommitStep(TaskOf(x)) \/ Aside(TaskOf(x))
  PROVE  CancelFinds(x)'
<1> DEFINE t == TaskOf(x)
<1>1. TypeOK /\ ControlTypeOK /\ DataTypeOK
  BY OperationTypeParts DEF CommitInv, CommitTypeOK
<1>2. x \in Requests /\ t \in Commits /\ x \notin Commits
  BY CommitConstants DEF TaskOf
<1>3. at'[x] = at[x] /\ snap'[x] = snap[x]
  <2>1. CASE HandlerOnly
    BY <2>1, HandlerStays DEF opVars
  <2>2. CASE \E r \in Commits : CommitStep(r)
    BY <1>1, <1>2, <2>2, OwnLocals, QuoteType
  <2>3. CASE \E r \in Cancels : CancelStep(r)
    <3>1. PICK r \in Cancels : CancelStep(r)
      BY <2>3
    <3>2. r \in Requests /\ r # x
      BY <3>1, CommitConstants
    <3>3. QED
      BY <1>1, <1>2, <3>1, <3>2, OwnLocals
  <2>4. QED
    BY <2>1, <2>2, <2>3 DEF CommitNext, HandlerOnly
<1>4. ~EffectNamesTask /\ pc'[x] # "sent" => pc'[t] = "done" /\ result'[t].task = t
  <2>1. ASSUME ~EffectNamesTask, pc'[x] # "sent" PROVE pc[t] = "done" /\ result[t].task = t
    <3>1. CASE pc[x] # "sent"
      BY <2>1, <3>1 DEF CancelFinds
    <3>2. CASE pc[x] = "sent"
      <4>1. Claims(x)
        BY <1>1, <1>2, <2>1, <3>2, ClaimsStart
      <4>2. QED
        BY <1>2, <2>1, <4>1, SentAfterAnswer DEF RecordOf
    <3>3. QED
      BY <3>1, <3>2
  <2>2. QED
    BY <1>2, <2>1, DoneStays
<1>5. Quiet(t) => Quiet(t)'
  BY <1>2, QuietStays
<1>6. at[x] \in {"clone", "release", "cancel"} => task'[t].hold = task[t].hold
  BY <1>2, HoldStays DEF CancelsKnowTheirTask, RecordOf
<1>7. TaskOf(x)' = t
  BY DEF TaskOf
<1>8. released \subseteq released'
  BY DEF AnswersStand
<1>9. CancelFinds(x)
  OBVIOUS
<1> HIDE DEF t
<1>10. /\ at'[x] = "clone" /\ snap'[x].state \in CancellableIn \ Terminal => Quiet(t)'
       /\ at'[x] \in {"release", "cancel", "report"} => Quiet(t)'
  BY <1>3, <1>5, <1>9 DEF CancelFinds, t
<1>11. /\ at'[x] \in {"clone", "release", "cancel"} => snap'[x].hold = task'[t].hold
       /\ at'[x] = "cancel" /\ task'[t].hold # None => task'[t].hold \in released'
  BY <1>3, <1>6, <1>8, <1>9 DEF CancelFinds, t
<1>12. QED
  BY <1>4, <1>7, <1>10, <1>11 DEF CancelFinds

-----------------------------------------------------------------------------
(* The invariant                                                           *)

(* It holds before the first request.                                      *)
LEMMA RecordInit ==
  ASSUME CommitInit
  PROVE  RecordInv
<1>1. OutcomeInv
  BY OutcomeInit
<1>2. AnswersComeLast
  BY DEF CommitInit, AnswersComeLast, NoAnswer
<1>3. ASSUME NEW r \in Commits
      PROVE  RecordOf(r) /\ ReceiptTells(r) /\ ChainIsAnchored(r)
  <2>1. /\ r \in Requests /\ at[r] = "validate" /\ task[r] = NoTask /\ audit[r] = <<>>
        /\ result[r] = NoResult
    BY QuoteType DEF CommitInit
  <2>2. task[r].state = "none" /\ task[r].settlement = None /\ task[r].receipt = NoReceipt
        /\ result[r].task = None
    BY <2>1, FirstFields DEF NoResult, Result
  <2>3. RecordOf(r)
    BY <2>1, <2>2
    DEF RecordOf, StateFollowsCall, SettlementFollowsCall, ReceiptFollowsCall,
        CancelledGaveBack, Active, Working, Marking, Closing, Reporting
  <2>4. QED
    BY <2>1, <2>2, <2>3 DEF ReceiptTells, ChainIsAnchored
<1>4. ASSUME NEW x \in Cancels PROVE CancelFinds(x)
  <2>1. x \in Requests /\ at[x] = "read" /\ pc[x] = "sent"
    BY CommitConstants DEF CommitInit
  <2>2. QED
    BY <2>1 DEF CancelFinds
<1>5. QED
  BY <1>1, <1>2, <1>3, <1>4
  DEF RecordInv, ReceiptIsAnchored, ReceiptMatchesTask, ReceiptTells, ChainIsAnchored

(* Every step keeps it.                                                    *)
LEMMA RecordInvStep ==
  ASSUME CancelsComeLater, RecordInv, [CommitNext]_allVars
  PROVE  RecordInv'
<1>1. /\ OutcomeInv /\ CommitInv /\ CancelsKnowTheirTask /\ AnswersComeLast
      /\ \A r \in Commits : RecordOf(r)
      /\ \A x \in Cancels : CancelFinds(x)
  BY DEF RecordInv, OutcomeInv
<1>2. TypeOK /\ BillTypeOK
  BY <1>1 DEF CommitInv, CommitTypeOK
<1>3. AnswersStand /\ [Next]_vars
  BY <1>1, <1>2, CommitInvStep, BillGrows
<1>4. OutcomeInv'
  BY <1>1, OutcomeInvStep
<1>5. AnswersComeLast'
  BY <1>1, <1>2, <1>3, AnswersStep
<1>6. ASSUME NEW r \in Commits PROVE CommitStep(r) \/ Aside(r)
  BY <1>1, OwnOrAside
<1>7. ASSUME NEW r \in Commits
      PROVE  RecordOf(r)' /\ ReceiptTells(r)' /\ ChainIsAnchored(r)'
  <2>1. RecordOf(r) /\ ReceiptTells(r) /\ ChainIsAnchored(r)
    BY DEF RecordInv, ReceiptIsAnchored, ReceiptMatchesTask, ReceiptTells, ChainIsAnchored
  <2>2. QED
    BY <1>1, <1>3, <1>6, <2>1, OwnRecord, AsideRecord
<1>8. ASSUME NEW x \in Cancels PROVE CancelFinds(x)'
  <2>1. TaskOf(x) \in Commits
    BY CommitConstants DEF TaskOf
  <2>2. CASE CancelStep(x)
    <3>1. Aside(TaskOf(x))
      BY <1>1, <2>1, <2>2, CancelAside
    <3>2. QED
      BY <1>1, <1>3, <2>1, <2>2, <3>1, OwnFinds
  <2>3. CASE ~CancelStep(x)
    BY <1>1, <1>3, <1>6, <2>1, <2>3, OthersFind
  <2>4. QED
    BY <2>2, <2>3
<1>9. ReceiptIsAnchored' /\ ReceiptMatchesTask'
  BY <1>7 DEF ReceiptIsAnchored, ReceiptMatchesTask, ReceiptTells, ChainIsAnchored
<1>10. QED
  BY <1>4, <1>5, <1>7, <1>8, <1>9 DEF RecordInv

(* It holds of every reachable state.                                      *)
LEMMA RecordInductive ==
  ASSUME CancelsComeLater
  PROVE  CommitSpec => []RecordInv
<1>1. CommitInit => RecordInv
  BY RecordInit
<1>2. RecordInv /\ [CommitNext]_allVars => RecordInv'
  BY RecordInvStep
<1>3. QED
  BY <1>1, <1>2, PTL DEF CommitSpec

(* A cancelled task is never charged, although neither Settle of its       *)
(* commit nor Release of its cancel looks at the other.                    *)
THEOREM CancelledTasksAreFree ==
  ASSUME CancelsComeLater
  PROVE  CommitSpec => []CancelledIsNotCharged
<1>1. RecordInv => CancelledIsNotCharged
  <2> SUFFICES ASSUME RecordInv, NEW t \in Commits, task[t].state = "cancelled",
                      task[t].hold # None
               PROVE  settleByHold[task[t].hold] = None
    BY DEF CancelledIsNotCharged
  <2>1. SettledXorReleased /\ BillTypeOK
    BY DEF RecordInv, OutcomeInv, BillInv
  <2>2. task[t].hold \in released
    BY DEF RecordInv, RecordOf, CancelledGaveBack
  <2>3. QED
    BY <2>1, <2>2 DEF SettledXorReleased, BillTypeOK
<1>2. QED
  BY <1>1, RecordInductive, PTL

(* The receipt binds the audit root that precedes it in the chain of its   *)
(* task, and a cancel puts no event between.                               *)
THEOREM ReceiptsAreAnchored ==
  ASSUME CancelsComeLater
  PROVE  CommitSpec => []ReceiptIsAnchored
<1>1. RecordInv => ReceiptIsAnchored
  BY DEF RecordInv
<1>2. QED
  BY <1>1, RecordInductive, PTL

(* A receipt says of its task what the record says, from when it is        *)
(* attached on.                                                            *)
THEOREM ReceiptsAreTrue ==
  ASSUME CancelsComeLater
  PROVE  CommitSpec => []ReceiptMatchesTask
<1>1. RecordInv => ReceiptMatchesTask
  BY DEF RecordInv
<1>2. QED
  BY <1>1, RecordInductive, PTL

(* Nothing a commit or a cancel writes moves a task out of a final state,  *)
(* although UpdateTask is given no state to expect.                        *)
THEOREM FinalStatesStay ==
  ASSUME CancelsComeLater
  PROVE  CommitSpec => TerminalIsFinal
<1> DEFINE Final == \A t \in Commits :
             task[t].state \in Terminal => task'[t].state = task[t].state
<1>1. RecordInv /\ [CommitNext]_allVars => [Final]_allVars
  <2> SUFFICES ASSUME RecordInv, [CommitNext]_allVars, NEW t \in Commits,
                      task[t].state \in Terminal
               PROVE  task'[t].state = task[t].state
    OBVIOUS
  <2>1. /\ CommitInv /\ CancelsKnowTheirTask /\ RecordOf(t)
        /\ \A x \in Cancels : CancelFinds(x)
    BY DEF RecordInv, OutcomeInv
  <2>2. CASE Aside(t)
    BY <2>2 DEF Aside, Quiet, Terminal
  <2>3. CASE CommitStep(t)
    <3>1. BillTypeOK /\ ControlTypeOK /\ DataTypeOK /\ OperandsKnown
      BY <2>1, OperationTypeParts DEF CommitInv, CommitTypeOK
    <3>2. OwnMove(t) /\ RecordMove(t)
      BY <2>1, <2>3, <3>1, OwnMoves, CommitRecordMoves
    <3>3. StateFollowsCall(t) /\ pc[t] = "running"
      BY <2>1, <3>2 DEF RecordOf, OwnMove
    <3>4. KeepsRecord(t) \/ AttachesReceipt(t)
      BY <3>2, <3>3, FirstFields
      DEF RecordMove, BeforeRecord, MakesRecord, StartsTask, LeavesTask, Works, Marks, Binds,
          Finishes, Reports, Closes, Attaches, StateFollowsCall, Active, Working, Marking,
          Reporting, Closing, Terminal
    <3>5. QED
      BY <3>4 DEF KeepsRecord, AttachesReceipt
  <2>4. QED
    BY <2>1, <2>2, <2>3, OwnOrAside
<1>2. QED
  BY <1>1, RecordInductive, PTL DEF CommitSpec, TerminalIsFinal

-----------------------------------------------------------------------------
(* Single-use authorizations                                               *)

(* A reference names an authorization of one usage.                        *)
MandatesAreOfOneKind ==
  \A r, s \in Commits :
    Commit[r].auth.ref = Commit[s].auth.ref => Commit[r].auth.usage = Commit[s].auth.usage

(* Clients present one authorization under a key; or no quote outlives the *)
(* answers, so that a key whose answer is forgotten buys nothing.          *)
KeysKeepTheirAuthorization ==
  \A r, s \in Commits :
    Commit[r].key = Commit[s].key /\ Commit[r].quote = Commit[s].quote
    => Commit[r].auth = Commit[s].auth

QuotesAreRemembered == \A c \in Contracts : Quote[c].expiresAt <= Retention

SingleUse(r) == Commit[r].auth.ref # None /\ Commit[r].auth.usage = "single_use"

(* The mandate of a commit was used under its key.                         *)
PaidByMandate(r) ==
  /\ mandateUse[Commit[r].auth.ref] # NoUse
  /\ mandateUse[Commit[r].auth.ref].billKey = Commit[r].key

HoldsCostMandates(r) ==
  /\ SingleUse(r) /\ held[r] # None => PaidByMandate(r)
  /\ /\ KeysKeepTheirAuthorization /\ SingleUse(r)
     /\ holdByKey[Commit[r].quote][Commit[r].key] # None
     => PaidByMandate(r)

EffectsAreHeld(r) ==
  ~QuoteOf(r).free /\ (at[r] \in {"start", "execute"} \/ r \in performed) => held[r] # None

(* A key has a reservation only when a commit recorded it.                 *)
ReservationsAreDated ==
  \A c \in Contracts, k \in BillKeys :
    holdByKey[c][k] # None => \E x \in Commits : Commit[x].key = k /\ effectAt[x] # Never

MandateInv ==
  /\ OutcomeInv
  /\ ReservationsAreDated
  /\ \A r \in Commits : key[r] = Commit[r].key /\ HoldsCostMandates(r) /\ EffectsAreHeld(r)

(* Only Reserve writes these maps, and it dates the effect of its commit.  *)
ReserveMove(r) ==
  \/ UNCHANGED <<holdByKey, mandateUse, held>>
  \/ /\ at[r] = "reserve"
     /\ effectAt' = [effectAt EXCEPT ![r] = IF effectAt[r] = Never THEN now ELSE effectAt[r]]
     /\ \E h \in Holds : Reserves(r, h) /\ (UNCHANGED held \/ held' = [held EXCEPT ![r] = h])

(* A step of a commit treats the reservations so.                          *)
LEMMA CommitReserves ==
  ASSUME ControlTypeOK, NEW r \in Commits, CommitStep(r)
  PROVE  ReserveMove(r)
<1>1. CASE \/ ValidateOk(r) \/ ValidateRefuses(r) \/ ReserveFree(r) \/ ReserveRefused(r)
           \/ PutTask(r) \/ PutTaskFails(r) \/ StartOk(r) \/ StartFails(r)
           \/ ExecuteOk(r) \/ ExecuteProblem(r) \/ Report(r) \/ Close(r) \/ Anchor(r) \/ Issue(r)
  <2>1. UNCHANGED <<billVars, held>>
    BY <1>1, Zenon
    DEF ValidateOk, ValidateRefuses, ReserveFree, ReserveRefused, ReserveDeclined, PutTask,
        PutTaskFails, StartOk, StartFails, ExecuteOk, ExecuteProblem, Report, Close, Anchor, Issue
  <2>2. QED
    BY <2>1 DEF ReserveMove, billVars
<1>2. CASE ReserveOk(r)
  <2>1. /\ at[r] = "reserve" /\ Cross(r)
        /\ \E h \in Holds : Reserves(r, h) /\ held' = [held EXCEPT ![r] = h]
    BY <1>2, Zenon DEF ReserveOk, Inside
  <2>2. QED
    BY <2>1 DEF ReserveMove, Cross
<1>3. CASE ReserveUnknown(r)
  <2>1. /\ at[r] = "reserve" /\ Cross(r) /\ UNCHANGED held
        /\ (\E h \in Holds : Reserves(r, h)) \/ UNCHANGED billVars
    BY <1>3, Zenon DEF ReserveUnknown, Decide, Inside
  <2>2. QED
    BY <2>1 DEF ReserveMove, Cross, billVars
<1>4. CASE \/ VoidPending(r) \/ Fail(r) \/ Dispute(r)
           \/ SettlePending(r) \/ Bind(r) \/ Succeed(r) \/ Attach(r)
  <2>1. UNCHANGED <<billVars, held>>
    BY <1>4, TransitionsMove, AttachShape DEF Moves
  <2>2. QED
    BY <2>1 DEF ReserveMove, billVars
<1>5. CASE Abandon(r) \/ Void(r) \/ VoidPrice(r)
  <2>1. /\ UNCHANGED held
        /\ \/ UNCHANGED billVars
           \/ ReleaseHold(held[r])
    BY <1>5, Zenon DEF Abandon, Void, VoidPrice, VoidFails, ReleaseHoldRefused
  <2>2. QED
    BY <2>1 DEF ReserveMove, billVars, ReleaseHold
<1>6. CASE SettleOk(r) \/ SettleFails(r)
  <2>1. /\ UNCHANGED held
        /\ \/ UNCHANGED billVars
           \/ \E s \in SettleRefs : Settles(r, s)
    BY <1>6, Zenon DEF SettleOk, SettleFails, SettleDeclined
  <2>2. QED
    BY <2>1 DEF ReserveMove, billVars, Settles, SettleExisting, SettleNew
<1>7. QED
  BY <1>1, <1>2, <1>3, <1>4, <1>5, <1>6 DEF CommitStep

(* A reservation is recorded under its key, and takes the mandate that a   *)
(* new one is made with.                                                   *)
LEMMA ReservationRecorded ==
  ASSUME BillTypeOK, NEW r \in Commits, NEW h \in Holds, Reserves(r, h)
  PROVE  /\ \A m \in Mandates : mandateUse[m] # NoUse => mandateUse'[m] = mandateUse[m]
         /\ \A c \in Contracts, k \in BillKeys :
              \/ holdByKey'[c][k] = holdByKey[c][k]
              \/ c = Commit[r].quote /\ k = Commit[r].key /\ (SingleUse(r) => PaidByMandate(r)')
         /\ SingleUse(r) =>
              PaidByMandate(r)' \/ holdByKey[Commit[r].quote][Commit[r].key] # None
<1> DEFINE c == Commit[r].quote
           k == Commit[r].key
           auth == Commit[r].auth
<1>1. c \in Contracts /\ k \in BillKeys /\ auth \in Authorizations
  BY CommitConstants
<1>2. auth.ref \in Mandates \cup {None} /\ h # None
  BY <1>1, BillingConstants DEF Authorizations
<1>3. holdByKey \in [Contracts -> [BillKeys -> Holds \cup {None}]]
      /\ mandateUse \in [Mandates -> Uses]
  BY DEF BillTypeOK
<1>4. \/ ReserveExisting(c, c, k, auth, QuoteOf(r).ceiling, h)
      \/ ReserveNew(c, c, k, auth, QuoteOf(r).ceiling, h)
  BY DEF Reserves
<1>5. PaidByMandate(r)' <=>
        /\ mandateUse'[auth.ref] # NoUse
        /\ mandateUse'[auth.ref].billKey = k
  BY DEF PaidByMandate
<1>6. SingleUse(r) <=> auth.ref # None /\ auth.usage = "single_use"
  BY DEF SingleUse
<1>7. CASE ReserveExisting(c, c, k, auth, QuoteOf(r).ceiling, h)
  <2>1. /\ UNCHANGED <<holdByKey, mandateUse>>
        /\ holdByKey[c][k] = h \/ SameUse(auth, c, k)
    BY <1>7 DEF ReserveExisting, billVars
  <2>2. SameUse(auth, c, k) => PaidByMandate(r)'
    BY <1>5, <2>1 DEF SameUse, Consumed
  <2>3. QED
    BY <1>2, <2>1, <2>2
<1>8. CASE ReserveNew(c, c, k, auth, QuoteOf(r).ceiling, h)
  <2> DEFINE use == [binding |-> c, billKey |-> k, hold |-> h]
  <2>1. /\ ~Consumed(auth)
        /\ holdByKey' = [holdByKey EXCEPT ![c][k] = h]
        /\ IF auth.ref # None /\ auth.usage = "single_use"
           THEN mandateUse' = [mandateUse EXCEPT ![auth.ref] = use]
           ELSE mandateUse' = mandateUse
    BY <1>8 DEF ReserveNew
  <2>2. use # NoUse /\ use.billKey = k
    BY <1>2 DEF NoUse
  <2> HIDE DEF use
  <2>3. SingleUse(r) => PaidByMandate(r)' /\ mandateUse[auth.ref] = NoUse
    BY <1>2, <1>3, <1>5, <1>6, <2>1, <2>2 DEF Consumed
  <2>4. \A m \in Mandates : mandateUse[m] # NoUse => mandateUse'[m] = mandateUse[m]
    BY <1>2, <1>3, <1>6, <2>1, <2>3
  <2>5. \A d \in Contracts, j \in BillKeys :
          holdByKey'[d][j] = holdByKey[d][j] \/ (d = c /\ j = k)
    BY <1>1, <1>3, <2>1
  <2>6. QED
    BY <2>3, <2>4, <2>5
<1>9. QED
  BY <1>4, <1>7, <1>8

(* What any step does to the reservations that are not a commit's own.     *)
LEMMA ReservationsMove ==
  ASSUME CommitInv, [CommitNext]_allVars
  PROVE  \/ UNCHANGED <<holdByKey, mandateUse>>
         \/ \E x \in Commits : CommitStep(x) /\ ReserveMove(x)
<1>1. ControlTypeOK /\ OperandsKnown
  BY OperationTypeParts DEF CommitInv, CommitTypeOK
<1>2. CASE HandlerOnly
  BY <1>2, HandlerStays DEF billVars
<1>3. CASE \E x \in Commits : CommitStep(x)
  BY <1>1, <1>3, CommitReserves
<1>4. CASE \E x \in Cancels : CancelStep(x)
  <2>1. PICK x \in Cancels : CancelMove(x)
    BY <1>1, <1>4, CancelMoves
  <2>2. QED
    BY <2>1 DEF CancelMove, billVars, ReleaseHold
<1>5. QED
  BY <1>2, <1>3, <1>4 DEF CommitNext, HandlerOnly

(* A mandate that was used stays used for what it was used for.            *)
LEMMA MandatesStand ==
  ASSUME CommitInv, [CommitNext]_allVars
  PROVE  \A m \in Mandates : mandateUse[m] # NoUse => mandateUse'[m] = mandateUse[m]
<1>1. BillTypeOK
  BY DEF CommitInv, CommitTypeOK
<1>2. CASE \E x \in Commits : ReserveMove(x)
  BY <1>1, <1>2, ReservationRecorded DEF ReserveMove
<1>3. QED
  BY <1>2, ReservationsMove

(* A commit that is about to reserve finds a reservation of its key only   *)
(* when clients keep to one authorization.                                 *)
LEMMA ReservationIsItsOwn ==
  ASSUME MandateInv, KeysKeepTheirAuthorization \/ QuotesAreRemembered,
         NEW r \in Commits, pc[r] = "running", at[r] = "reserve", SingleUse(r),
         holdByKey[Commit[r].quote][Commit[r].key] # None
  PROVE  PaidByMandate(r)
<1>1. CASE KeysKeepTheirAuthorization
  BY <1>1 DEF MandateInv, HoldsCostMandates
<1>2. CASE QuotesAreRemembered
  <2>1. Commit[r].quote \in Contracts /\ Commit[r].key \in BillKeys /\ r \in Requests
    BY CommitConstants
  <2>2. PICK x \in Commits : Commit[x].key = Commit[r].key /\ effectAt[x] # Never
    BY <2>1 DEF MandateInv, ReservationsAreDated
  <2>3. effectAt[r] = Never
    BY <2>1 DEF MandateInv, OutcomeInv, CommitInv, NothingRecordedYet
  <2>4. x \in Requests /\ x # r /\ key[x] = key[r]
    BY <2>2, <2>3, QuoteType DEF MandateInv
  <2>5. QuoteOf(r).expiresAt <= Retention
    BY <1>2, <2>1 DEF QuotesAreRemembered, QuoteOf
  <2>6. IsAlone(r)
    BY DEF MandateInv, OutcomeInv, Outcome
  <2>7. effectAt[x] = Never
    BY <2>4, <2>5, <2>6 DEF IsAlone
  <2>8. QED
    BY <2>2, <2>7
<1>3. QED
  BY <1>1, <1>2

(* A reservation was paid with the mandate of the commits that hold it.    *)
LEMMA MandatePaidStep ==
  ASSUME MandateInv, KeysKeepTheirAuthorization \/ QuotesAreRemembered,
         [CommitNext]_allVars, NEW r \in Commits
  PROVE  HoldsCostMandates(r)'
<1>1. CommitInv /\ CancelsKnowTheirTask /\ BillTypeOK /\ ControlTypeOK /\ HoldsCostMandates(r)
  <2>1. CommitInv /\ CancelsKnowTheirTask /\ HoldsCostMandates(r)
    BY DEF MandateInv, OutcomeInv
  <2>2. QED
    BY <2>1, OperationTypeParts DEF CommitInv, CommitTypeOK
<1>2. /\ Commit[r].quote \in Contracts /\ Commit[r].key \in BillKeys
      /\ SingleUse(r) => Commit[r].auth.ref \in Mandates
  BY CommitConstants DEF SingleUse, Authorizations
<1>3. SingleUse(r)' <=> SingleUse(r)
  BY DEF SingleUse
<1>4. SingleUse(r) /\ PaidByMandate(r) => PaidByMandate(r)'
  BY <1>1, <1>2, MandatesStand DEF PaidByMandate
<1>5. SingleUse(r) /\ held'[r] # None => PaidByMandate(r)'
  <2>1. CASE held'[r] = held[r]
    BY <1>1, <1>4, <2>1 DEF HoldsCostMandates
  <2>2. CASE held'[r] # held[r]
    <3>1. CommitStep(r)
      BY <1>1, <2>2, OwnOrLeftAlone DEF LeftAlone
    <3>2. pc[r] = "running"
      BY <1>1, <3>1, OwnMoves DEF OwnMove
    <3>3. at[r] = "reserve" /\ \E h \in Holds : Reserves(r, h)
      BY <1>1, <2>2, <3>1, CommitReserves DEF ReserveMove
    <3>4. SingleUse(r) =>
            PaidByMandate(r)' \/ holdByKey[Commit[r].quote][Commit[r].key] # None
      BY <1>1, <3>3, ReservationRecorded
    <3>5. QED
      BY <1>4, <3>2, <3>3, <3>4, ReservationIsItsOwn
  <2>3. QED
    BY <2>1, <2>2
<1>6. KeysKeepTheirAuthorization /\ SingleUse(r)
      /\ holdByKey'[Commit[r].quote][Commit[r].key] # None => PaidByMandate(r)'
  <2> SUFFICES ASSUME KeysKeepTheirAuthorization, SingleUse(r),
                      holdByKey'[Commit[r].quote][Commit[r].key] # None
               PROVE  PaidByMandate(r)'
    OBVIOUS
  <2>1. CASE holdByKey'[Commit[r].quote][Commit[r].key] = holdByKey[Commit[r].quote][Commit[r].key]
    BY <1>1, <1>4, <2>1 DEF HoldsCostMandates
  <2>2. CASE holdByKey'[Commit[r].quote][Commit[r].key] # holdByKey[Commit[r].quote][Commit[r].key]
    <3>1. PICK x \in Commits : ReserveMove(x)
      BY <1>1, <2>2, ReservationsMove
    <3>2. PICK h \in Holds : Reserves(x, h)
      BY <2>2, <3>1 DEF ReserveMove
    <3>3. /\ Commit[r].quote = Commit[x].quote /\ Commit[r].key = Commit[x].key
          /\ SingleUse(x) => PaidByMandate(x)'
      BY <1>1, <1>2, <2>2, <3>2, ReservationRecorded
    <3>4. Commit[r].auth = Commit[x].auth
      BY <3>3 DEF KeysKeepTheirAuthorization
    <3>5. QED
      BY <3>3, <3>4 DEF SingleUse, PaidByMandate
  <2>3. QED
    BY <2>1, <2>2
<1>7. QED
  BY <1>3, <1>5, <1>6 DEF HoldsCostMandates, KeysKeepTheirAuthorization

(* The effect of a commit that is billed has a reservation.                *)
LEMMA EffectsHeldStep ==
  ASSUME MandateInv, [CommitNext]_allVars, NEW r \in Commits
  PROVE  EffectsAreHeld(r)'
<1>1. CommitInv /\ CancelsKnowTheirTask /\ ControlTypeOK /\ DataTypeOK /\ OperandsKnown
      /\ EffectsAreHeld(r)
  BY OperationTypeParts DEF MandateInv, OutcomeInv, CommitInv, CommitTypeOK
<1>2. None \notin Holds
  BY BillingConstants
<1>3. QuoteOf(r)' = QuoteOf(r)
  BY DEF QuoteOf
<1>4. CASE LeftAlone(r)
  BY <1>1, <1>3, <1>4 DEF LeftAlone, EffectsAreHeld
<1>5. CASE CommitStep(r)
  <2>1. OwnMove(r) /\ ReserveMove(r)
    BY <1>1, <1>5, OwnMoves, CommitReserves
  <2>2. held[r] # None => held'[r] # None
    BY <1>1, <1>2, <2>1 DEF ReserveMove, DataTypeOK
  <2>3. at[r] = "put" /\ ~QuoteOf(r).free => held[r] # None
    BY <1>1, <1>2 DEF OperandsKnown
  <2>4. at'[r] \in {"start", "execute"} => at[r] \in {"put", "start"}
    BY <2>1 DEF OwnMove, ExecutionMove
  <2>5. r \in performed' => r \in performed \/ at[r] = "execute"
    BY <2>1 DEF OwnMove, ExecutionMove
  <2>6. QED
    BY <1>1, <1>3, <2>2, <2>3, <2>4, <2>5 DEF EffectsAreHeld
<1>6. QED
  BY <1>1, <1>4, <1>5, OwnOrLeftAlone

(* A reservation comes with the date of an effect.                         *)
LEMMA DatedStep ==
  ASSUME MandateInv, [CommitNext]_allVars
  PROVE  ReservationsAreDated'
<1> SUFFICES ASSUME NEW c \in Contracts, NEW k \in BillKeys, holdByKey'[c][k] # None
             PROVE  \E x \in Commits : Commit[x].key = k /\ effectAt'[x] # Never
  BY DEF ReservationsAreDated
<1>1. CommitInv /\ CancelsKnowTheirTask /\ BillTypeOK /\ TypeOK /\ ReservationsAreDated
      /\ HandlerInv
  BY DEF MandateInv, OutcomeInv, CommitInv, CommitTypeOK
<1>2. now # Never /\ effectAt \in [Requests -> {Never} \cup 0 .. MaxTime]
  BY <1>1 DEF TypeOK, IdemTypeOK, Never
<1>3. ASSUME NEW x \in Commits, effectAt[x] # Never PROVE effectAt'[x] # Never
  <2>1. CASE LeftAlone(x)
    BY <1>3, <2>1 DEF LeftAlone
  <2>2. CASE CommitStep(x)
    <3>1. UNCHANGED effectAt \/ Cross(x)
      BY <2>2, InsideShape, QuoteType
    <3>2. QED
      BY <1>2, <1>3, <3>1, QuoteType DEF Cross
  <2>3. QED
    BY <1>1, <2>1, <2>2, OwnOrLeftAlone
<1>4. CASE holdByKey'[c][k] = holdByKey[c][k]
  BY <1>1, <1>3, <1>4 DEF ReservationsAreDated
<1>5. CASE holdByKey'[c][k] # holdByKey[c][k]
  <2>1. PICK x \in Commits : ReserveMove(x)
    BY <1>1, <1>5, ReservationsMove
  <2>2. effectAt' = [effectAt EXCEPT ![x] = IF effectAt[x] = Never THEN now ELSE effectAt[x]]
    BY <1>5, <2>1 DEF ReserveMove
  <2>3. effectAt'[x] # Never
    BY <1>2, <2>2, QuoteType
  <2>4. Commit[x].key = k
    <3>1. PICK h \in Holds : Reserves(x, h)
      BY <1>5, <2>1 DEF ReserveMove
    <3>2. QED
      BY <1>1, <1>5, <3>1, ReservationRecorded
  <2>5. QED
    BY <2>3, <2>4
<1>6. QED
  BY <1>4, <1>5

(* The claim key of a request never changes.                               *)
LEMMA KeysStay ==
  ASSUME CommitInv, [CommitNext]_allVars
  PROVE  UNCHANGED key
<1>1. CASE HandlerOnly
  BY <1>1, HandlerStays
<1>2. CASE \E r \in Requests : (r \in Commits /\ CommitStep(r)) \/ (r \in Cancels /\ CancelStep(r))
  BY <1>2, InsideShape
<1>3. QED
  BY <1>1, <1>2, CommitConstants DEF CommitNext, HandlerOnly

(* The invariant holds of every reachable state.                           *)
LEMMA MandateInductive ==
  ASSUME KeysKeepTheirAuthorization \/ QuotesAreRemembered
  PROVE  CommitSpec => []MandateInv
<1>1. CommitInit => MandateInv
  <2> SUFFICES ASSUME CommitInit
               PROVE  MandateInv
    OBVIOUS
  <2>1. OutcomeInv
    BY OutcomeInit
  <2>2. ReservationsAreDated
    BY DEF CommitInit, BillInit, ReservationsAreDated
  <2>3. ASSUME NEW r \in Commits
        PROVE  key[r] = Commit[r].key /\ HoldsCostMandates(r) /\ EffectsAreHeld(r)
    <3>1. /\ r \in Requests /\ key[r] = Commit[r].key /\ held[r] = None
          /\ at[r] = "validate" /\ performed = {}
      BY QuoteType DEF CommitInit
    <3>2. holdByKey[Commit[r].quote][Commit[r].key] = None
      BY CommitConstants DEF CommitInit, BillInit
    <3>3. QED
      BY <3>1, <3>2 DEF HoldsCostMandates, EffectsAreHeld
  <2>4. QED
    BY <2>1, <2>2, <2>3 DEF MandateInv
<1>2. MandateInv /\ [CommitNext]_allVars => MandateInv'
  <2> SUFFICES ASSUME MandateInv, [CommitNext]_allVars
               PROVE  MandateInv'
    OBVIOUS
  <2>1. OutcomeInv /\ CommitInv
    BY DEF MandateInv, OutcomeInv
  <2>2. OutcomeInv'
    BY <2>1, OutcomeInvStep
  <2>3. \A r \in Commits : key'[r] = Commit[r].key
    BY <2>1, KeysStay DEF MandateInv
  <2>4. ReservationsAreDated'
    BY DatedStep
  <2>5. \A r \in Commits : HoldsCostMandates(r)'
    BY MandatePaidStep
  <2>6. \A r \in Commits : EffectsAreHeld(r)'
    BY EffectsHeldStep
  <2>7. QED
    BY <2>2, <2>3, <2>4, <2>5, <2>6 DEF MandateInv
<1>3. QED
  BY <1>1, <1>2, PTL DEF CommitSpec

(* A single-use authorization pays for one execution, whatever keys and    *)
(* quotes it is committed under: Reserve looks it up before it reserves,   *)
(* and finds a reservation of its own key without it only for a retry.     *)
THEOREM MandatesBuyOneEffect ==
  ASSUME MandatesAreOfOneKind, KeysKeepTheirAuthorization \/ QuotesAreRemembered
  PROVE  CommitSpec => []OneEffectPerMandate
<1>1. MandateInv => OneEffectPerMandate
  <2> SUFFICES ASSUME MandateInv, NEW r \in performed, NEW s \in performed,
                      Commit[r].auth.ref = Commit[s].auth.ref, Commit[r].auth.ref # None,
                      Commit[r].auth.usage = "single_use",
                      ~QuoteOf(r).free, ~QuoteOf(s).free
               PROVE  key[r] = key[s]
    BY DEF OneEffectPerMandate
  <2>1. r \in Commits /\ s \in Commits
    BY OperationTypeParts DEF MandateInv, OutcomeInv, CommitInv, CommitTypeOK, DataTypeOK
  <2>2. SingleUse(r) /\ SingleUse(s)
    BY <2>1 DEF SingleUse, MandatesAreOfOneKind
  <2>3. held[r] # None /\ held[s] # None
    BY <2>1 DEF MandateInv, EffectsAreHeld
  <2>4. PaidByMandate(r) /\ PaidByMandate(s)
    BY <2>1, <2>2, <2>3 DEF MandateInv, HoldsCostMandates
  <2>5. QED
    BY <2>1, <2>4 DEF PaidByMandate, MandateInv
<1>2. QED
  BY <1>1, MandateInductive, PTL
=============================================================================
