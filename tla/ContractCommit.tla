--------------------------- MODULE ContractCommit ---------------------------
(***************************************************************************)
(* Commit and cancel of pkg/server/server.go, the operations that turn a   *)
(* signed quote into a task, a provider effect, a charge and a receipt.    *)
(* The module composes the request handler and claim table                 *)
(* (MutatingHandler), the billing processor (MockProcessor), the task map  *)
(* of a Store and the audit chains of audit.Log.                           *)
(*                                                                         *)
(* Every HTTP request is a goroutine.  It holds no lock between two calls, *)
(* so each call to a shared component is one step; the audit appends that  *)
(* precede a call to another component are part of its step, because they  *)
(* touch only the audit log and the call does not touch it.                *)
(*                                                                         *)
(* IDs made by ascp.MustNewID are the name of the request that makes them: *)
(* task r, hold r and settlement r are those request r created.            *)
(***************************************************************************)
EXTENDS MutatingHandler, MockProcessor, Sequences

CONSTANTS
  Commits,          \* POST /v1/commit requests
  Cancels,          \* POST /v1/tasks/{id}/cancel requests
  Commit,           \* the key, digest, quote and authorization of a commit
  Cancel,           \* the key, digest, task and expected version of a cancel
  Quote,            \* the stored signed quotes
  CancellableIn,    \* task states Service.Cancel permits
  EffectNamesTask,  \* TRUE: the effect makes the task ID known (Execute gets
                    \* it: the email service stores it with the message)
  StoreFaults,      \* TRUE: a Store call may report an error, having taken
                    \* effect or not
  BillingFaults,    \* TRUE: a Processor call may report a TemporaryError or
                    \* an UnknownOutcomeError
  SignerFaults,     \* TRUE: the ContractSigner may fail
  ProviderUncertain,\* TRUE: Execute may report a problem after its effect
  Panics            \* TRUE: an operation may panic

AnyVersion == -1

ASSUME CommitConstants ==
  /\ Commits \cap Cancels = {}
  /\ Requests = Commits \cup Cancels
  /\ Holds = Commits
  /\ SettleRefs = Commits
  /\ Bindings = Contracts
  /\ BillKeys = Keys
  /\ None \notin Commits
  /\ Commit \in [Commits -> [key : Keys, digest : Digests, quote : Contracts,
                             auth : Authorizations]]
  /\ Cancel \in [Cancels -> [key : Keys, digest : Digests, task : Commits,
                             expected : Nat \cup {AnyVersion}]]
  /\ Quote \in [Contracts -> [price : Amounts, ceiling : Amounts, variable : BOOLEAN,
                              free : BOOLEAN, expiresAt : Nat, deadline : Nat]]

VARIABLES
  task,       \* MemoryStore.tasks
  audit,      \* audit.Log.events of each task's chain
  performed,  \* tasks whose provider effect happened (history)
  at,         \* the next call of the operation of each request
  snap,       \* its local copy of the task
  held,       \* commit: billingRecord.ReservationRef
  charge,     \* commit: finalPrice
  root,       \* commit: the audit root its receipt binds
  result      \* operationResult: its kind and TaskID

opVars == <<task, audit, performed, at, snap, held, charge, root, result>>
allVars == <<vars, billVars, opVars>>

-----------------------------------------------------------------------------

QuoteOf(r) == Quote[Commit[r].quote]

NoReceipt == [outcome |-> "none", bill |-> "none", amount |-> NoAmount, root |-> 0]
NoTask == [state |-> "none", version |-> 0, bill |-> "none", hold |-> None,
           settlement |-> None, amount |-> NoAmount, receipt |-> NoReceipt]

Terminal == {"succeeded", "failed", "cancelled"}

(* The kinds of answer: "done" is a 200, 201 or 202 with the task, "problem"*)
(* a cached problem, "retry" a problem with ReleaseClaim, "unknown" one     *)
(* with code outcome_unknown or billing_outcome_unknown.                    *)
Result(kind, t) == [kind |-> kind, task |-> t]
NoResult == Result("none", None)

CommitInit ==
  /\ IdemInit
  /\ BillInit
  /\ pc = [r \in Requests |-> "sent"]
  /\ key = [r \in Requests |-> IF r \in Commits THEN Commit[r].key ELSE Cancel[r].key]
  /\ digest = [r \in Requests |->
                 IF r \in Commits THEN Commit[r].digest ELSE Cancel[r].digest]
  /\ effectAt = [r \in Requests |-> Never]
  /\ release = [r \in Requests |-> FALSE]
  /\ answer = [r \in Requests |-> NoAnswer]
  /\ task = [t \in Commits |-> NoTask]
  /\ audit = [t \in Commits |-> <<>>]
  /\ performed = {}
  /\ at = [r \in Requests |-> IF r \in Commits THEN "validate" ELSE "read"]
  /\ snap = [r \in Requests |-> NoTask]
  /\ held = [r \in Commits |-> None]
  /\ charge = [r \in Commits |-> NoAmount]
  /\ root = [r \in Commits |-> 0]
  /\ result = [r \in Requests |-> NoResult]

-----------------------------------------------------------------------------
(* Steps of a running operation                                            *)

Inside(r, from, to) ==
  /\ pc[r] = "running"
  /\ at[r] = from
  /\ at' = [at EXCEPT ![r] = to]
  /\ UNCHANGED <<entries, now, pc, key, digest, release, answer>>

(* The first durable record or effect of the request.                      *)
Cross(r) ==
  effectAt' = [effectAt EXCEPT ![r] = IF @ = Never THEN now ELSE @]

(* The result is known: only the return to handleMutating is left.         *)
Decide(r, from, res) ==
  /\ Inside(r, from, "return")
  /\ result' = [result EXCEPT ![r] = res]

(* appendAudit: an event whose signing fails is logged and dropped.        *)
Kept(events) ==
  IF SignerFaults
  THEN {events, <<>>} \cup {<<events[i]>> : i \in DOMAIN events}
  ELSE {events}

Event(type) == [type |-> type, anchor |-> 0]

Record(t, events) ==
  \E kept \in Kept(events) : audit' = [audit EXCEPT ![t] = @ \o kept]

(* UpdateTask: the record changed under the lock, its version one higher.  *)
(* A task is never deleted, so the "task not found" error cannot happen.   *)
Written(t, new) == [task EXCEPT ![t] = [new EXCEPT !.version = @ + 1]]

(* Mutant: the caller goes on with the copy it has.                        *)
StoreStale(r, t, new) == task' = Written(t, new) /\ UNCHANGED snap

Store(r, t, new) ==
  /\ task' = Written(t, new)
  /\ snap' = [snap EXCEPT ![r] = Written(t, new)[t]]

(* An error of UpdateTask, which may have written the record.              *)
StoreErrs(t, new) ==
  /\ StoreFaults
  /\ task' \in {task, Written(t, new)}

(* Most callers assign its result: their copy becomes the zero Task.       *)
StoreFails(r, t, new) ==
  /\ StoreErrs(t, new)
  /\ snap' = [snap EXCEPT ![r] = NoTask]

(* Processor.Release reports an error.                                     *)
VoidFails(h) ==
  \/ ReleaseHoldRefused(h)
  \/ BillingFaults /\ (ReleaseHold(h) \/ UNCHANGED billVars)

-----------------------------------------------------------------------------
(* Commit: before the first record                                         *)

(* Expiry and deadline are compared with the clock once, before the call   *)
(* of AuthorizationVerifier.                                               *)
QuoteUsable(r) ==
  /\ now <= QuoteOf(r).expiresAt
  /\ now < QuoteOf(r).deadline

ValidateOk(r) ==
  /\ QuoteUsable(r)
  /\ Inside(r, "validate", "reserve")
  /\ UNCHANGED <<effectAt, billVars, task, audit, performed, snap, held, charge, root, result>>

(* Any of the checks may refuse; only the AuthorizationVerifier, which the *)
(* others precede, may say that a retry is safe.                           *)
ValidateRefuses(r) ==
  /\ \/ Decide(r, "validate", Result("problem", None))
     \/ QuoteUsable(r) /\ Decide(r, "validate", Result("retry", None))
  /\ UNCHANGED <<effectAt, billVars, task, audit, performed, snap, held, charge, root>>

(* A free quote has a billing record and no reservation.                   *)
ReserveFree(r) ==
  /\ QuoteOf(r).free
  /\ Inside(r, "reserve", "put")
  /\ UNCHANGED <<effectAt, billVars, task, audit, performed, snap, held, charge, root, result>>

(* validateBillingAuthorization makes the checks of Reserve beforehand; an *)
(* unsupported usage it refuses even when the reservation exists.          *)
BillingAuthorizationValid(r) ==
  /\ AuthorizationAccepted(Commit[r].auth, QuoteOf(r).ceiling)
  /\ Commit[r].auth.usage # "other"

(* Processor.Reserve with the ID and the digest of the quote, its ceiling  *)
(* and key + ":reserve".                                                   *)
Reserves(r, h) ==
  LET c == Commit[r] IN
    /\ BillingAuthorizationValid(r)
    /\ \/ ReserveExisting(c.quote, c.quote, c.key, c.auth, QuoteOf(r).ceiling, h)
       \/ h = r /\ ReserveNew(c.quote, c.quote, c.key, c.auth, QuoteOf(r).ceiling, h)

ReserveOk(r) ==
  /\ ~QuoteOf(r).free
  /\ Inside(r, "reserve", "put")
  /\ Cross(r)
  /\ \E h \in Holds : Reserves(r, h) /\ held' = [held EXCEPT ![r] = h]
  /\ UNCHANGED <<task, audit, performed, snap, charge, root, result>>

ReserveRefused(r) ==
  /\ ~QuoteOf(r).free
  /\ \/ /\ ~BillingAuthorizationValid(r)
        /\ UNCHANGED billVars
        /\ Decide(r, "reserve", Result("problem", None))
     \/ /\ ReserveDeclined(Commit[r].quote, Commit[r].quote, Commit[r].key, Commit[r].auth,
                            QuoteOf(r).ceiling)
        /\ Decide(r, "reserve", Result("problem", None))
     \/ /\ BillingFaults
        /\ UNCHANGED billVars
        /\ Decide(r, "reserve", Result("retry", None))
  /\ UNCHANGED <<effectAt, task, audit, performed, snap, held, charge, root>>

(* Mutant: an unknown outcome is reported like a refusal.                  *)
ReserveUnknownRefused(r) ==
  /\ BillingFaults /\ ~QuoteOf(r).free
  /\ Decide(r, "reserve", Result("problem", None))
  /\ Cross(r)
  /\ \E h \in Holds : Reserves(r, h)
  /\ UNCHANGED <<task, audit, performed, snap, held, charge, root>>

ReserveUnknown(r) ==
  /\ BillingFaults
  /\ ~QuoteOf(r).free
  /\ Decide(r, "reserve", Result("unknown", None))
  /\ Cross(r)
  /\ (\E h \in Holds : Reserves(r, h)) \/ UNCHANGED billVars
  /\ UNCHANGED <<task, audit, performed, snap, held, charge, root>>

-----------------------------------------------------------------------------
(* Commit: the task record                                                 *)

Accepted(r) ==
  [NoTask EXCEPT !.state = "accepted", !.version = 1,
                 !.bill = IF QuoteOf(r).free THEN "not_billed" ELSE "reserved",
                 !.hold = held[r],
                 !.amount = IF QuoteOf(r).free THEN QuoteOf(r).ceiling ELSE hold[held[r]]]

PutTask(r) ==
  /\ Inside(r, "put", "start")
  /\ Cross(r)
  /\ task' = [task EXCEPT ![r] = Accepted(r)]
  /\ snap' = [snap EXCEPT ![r] = Accepted(r)]
  /\ UNCHANGED <<billVars, audit, performed, held, charge, root, result>>

(* Mutant: a failed PutTask is called retryable.                           *)
PutTaskRetries(r) ==
  /\ StoreFaults
  /\ Inside(r, "put", "abandon")
  /\ Cross(r)
  /\ result' = [result EXCEPT ![r] = Result("retry", None)]
  /\ UNCHANGED <<billVars, task, audit, performed, snap, held, charge, root>>

PutTaskFails(r) ==
  /\ StoreFaults
  /\ Inside(r, "put", "abandon")
  /\ Cross(r)
  /\ task' \in {task, [task EXCEPT ![r] = Accepted(r)]}
  /\ result' = [result EXCEPT ![r] = Result("unknown", r)]
  /\ UNCHANGED <<billVars, audit, performed, snap, held, charge, root>>

StartOk(r) ==
  /\ Inside(r, "start", "execute")
  /\ Record(r, <<Event("accepted"), Event("reserved")>>)
  /\ Store(r, r, [task[r] EXCEPT !.state = "running"])
  /\ UNCHANGED <<effectAt, billVars, performed, held, charge, root, result>>

StartFails(r) ==
  /\ Inside(r, "start", "abandon")
  /\ Record(r, <<Event("accepted"), Event("reserved")>>)
  /\ StoreFails(r, r, [task[r] EXCEPT !.state = "running"])
  /\ result' = [result EXCEPT ![r] = Result("unknown", None)]
  /\ UNCHANGED <<effectAt, billVars, performed, held, charge, root>>

(* The task was not recorded or not started: the reservation is released   *)
(* and an error of Release is only logged.                                 *)
Abandon(r) ==
  /\ Inside(r, "abandon", "return")
  /\ IF held[r] = None THEN UNCHANGED billVars
                       ELSE ReleaseHold(held[r]) \/ VoidFails(held[r])
  /\ UNCHANGED <<effectAt, task, audit, performed, snap, held, charge, root, result>>

-----------------------------------------------------------------------------
(* Commit: execution                                                       *)

(* resolveFinalCharge: a nil FinalPrice is the quoted price; "sums" is     *)
(* whether the reported breakdown adds up to the price.                    *)
FinalPrice(q, reported) == IF reported = NoAmount THEN q.price ELSE reported

ChargeAllowed(q, reported, sums) ==
  /\ q.variable => reported # NoAmount
  /\ FinalPrice(q, reported) <= q.ceiling
  /\ ~q.variable => FinalPrice(q, reported) = q.price
  /\ sums

ExecuteOk(r) ==
  /\ \E reported \in Amounts \cup {NoAmount}, sums \in BOOLEAN :
       IF ChargeAllowed(QuoteOf(r), reported, sums)
       THEN /\ Inside(r, "execute", IF held[r] = None THEN "succeed" ELSE "settle")
            /\ charge' = [charge EXCEPT ![r] = FinalPrice(QuoteOf(r), reported)]
       ELSE /\ Inside(r, "execute", "void_price")
            /\ UNCHANGED charge
  /\ Record(r, <<Event("running")>>)
  /\ performed' = performed \cup {r}
  /\ UNCHANGED <<effectAt, billVars, task, snap, held, root, result>>

(* Mutant: a refused execution is charged at the quoted price.             *)
ExecuteProblemCharges(r) ==
  /\ Inside(r, "execute", "settle")
  /\ charge' = [charge EXCEPT ![r] = QuoteOf(r).price]
  /\ UNCHANGED <<effectAt, billVars, task, audit, performed, snap, held, root, result>>

(* Mutant: the task fails without its reservation being voided.            *)
ExecuteProblemFails(r) ==
  /\ Inside(r, "execute", "fail")
  /\ UNCHANGED <<effectAt, billVars, task, audit, performed, snap, held, charge, root, result>>

ExecuteProblem(r) ==
  /\ Inside(r, "execute", IF held[r] = None THEN "fail" ELSE "void")
  /\ Record(r, <<Event("running")>>)
  /\ \/ UNCHANGED performed
     \/ ProviderUncertain /\ performed' = performed \cup {r}
  /\ UNCHANGED <<effectAt, billVars, task, snap, held, charge, root, result>>

-----------------------------------------------------------------------------
(* Commit: transitions of the task.  Each has a successful step and one in *)
(* which UpdateTask fails and the answer is taskOutcomeUnknownResult.      *)

Transition(r, from, to, events, new) ==
  /\ Record(r, events)
  /\ \/ Inside(r, from, to) /\ Store(r, r, new) /\ UNCHANGED result
     \/ Decide(r, from, Result("unknown", None)) /\ StoreFails(r, r, new)
  /\ UNCHANGED <<effectAt, billVars, performed, held, charge, root>>

(* Mutant: an error of Release is ignored.                                 *)
VoidRegardless(r) ==
  /\ Inside(r, "void", "fail")
  /\ ReleaseHold(held[r]) \/ VoidFails(held[r])
  /\ UNCHANGED <<effectAt, task, audit, performed, snap, held, charge, root, result>>

(* The provider refused: the reservation is voided before "failed".        *)
Void(r) ==
  /\ \/ Inside(r, "void", "fail") /\ ReleaseHold(held[r])
     \/ Inside(r, "void", "mark_void_pending") /\ VoidFails(held[r])
  /\ UNCHANGED <<effectAt, task, audit, performed, snap, held, charge, root, result>>

VoidPending(r) ==
  Transition(r, "mark_void_pending", "void_pending", <<>>,
             [task[r] EXCEPT !.state = "waiting_input"])

Fail(r) ==
  Transition(r, "fail", "failed", <<>>,
             [task[r] EXCEPT !.state = "failed", !.bill = "voided"])

(* A price outside the signed contract: an error of Release is ignored.    *)
VoidPrice(r) ==
  /\ \/ Inside(r, "void_price", "mark_disputed_voided") /\ held[r] # None /\ ReleaseHold(held[r])
     \/ Inside(r, "void_price", "mark_disputed") /\ held[r] # None /\ VoidFails(held[r])
     \/ Inside(r, "void_price", "mark_disputed") /\ held[r] = None /\ UNCHANGED billVars
  /\ UNCHANGED <<effectAt, task, audit, performed, snap, held, charge, root, result>>

Dispute(r) ==
  \/ Transition(r, "mark_disputed", "disputed", <<>>,
                [task[r] EXCEPT !.state = "disputed"])
  \/ Transition(r, "mark_disputed_voided", "disputed", <<>>,
                [task[r] EXCEPT !.state = "disputed", !.bill = "voided"])

(* Processor.Settle with the final price and key + ":settlement".          *)
Settles(r, s) ==
  \/ SettleExisting(held[r], charge[r], Commit[r].key, s)
  \/ s = r /\ SettleNew(held[r], charge[r], Commit[r].key, s)

SettleOk(r) ==
  /\ Inside(r, "settle", "bind")
  /\ \E s \in SettleRefs : Settles(r, s)
  /\ UNCHANGED <<effectAt, task, audit, performed, snap, held, charge, root, result>>

(* Mutant: a failed settlement is called a success.                        *)
SettleFailsSucceeds(r) ==
  /\ Inside(r, "settle", "succeed")
  /\ SettleDeclined(held[r], charge[r], Commit[r].key) \/ (BillingFaults /\ UNCHANGED billVars)
  /\ UNCHANGED <<effectAt, task, audit, performed, snap, held, charge, root, result>>

SettleFails(r) ==
  /\ Inside(r, "settle", "mark_settlement_pending")
  /\ \/ SettleDeclined(held[r], charge[r], Commit[r].key)
     \/ BillingFaults /\ ((\E s \in SettleRefs : Settles(r, s)) \/ UNCHANGED billVars)
  /\ UNCHANGED <<effectAt, task, audit, performed, snap, held, charge, root, result>>

(* Mutant: the state stays "running".                                      *)
SettlePendingSilently(r) ==
  Transition(r, "mark_settlement_pending", "settlement_pending", <<>>, task[r])

SettlePending(r) ==
  Transition(r, "mark_settlement_pending", "settlement_pending", <<>>,
             [task[r] EXCEPT !.state = "waiting_input"])

(* Mutant: the settlement is taken to be a new one.                        *)
BindNew(r) ==
  Transition(r, "bind", "succeed", <<>>,
             [task[r] EXCEPT !.settlement = r, !.amount = charge[r], !.bill = "settled"])

(* The settlement Settle returned is bound to the task.                    *)
Bind(r) ==
  LET s == settleByKey[held[r]][Commit[r].key]
  IN  Transition(r, "bind", "succeed", <<>>,
                 [task[r] EXCEPT !.settlement = s, !.amount = settled[s],
                                 !.bill = "settled"])

Succeed(r) ==
  Transition(r, "succeed", "succeeded",
             IF held[r] = None THEN <<>> ELSE <<Event("settled")>>,
             [task[r] EXCEPT !.state = "succeeded"])

(* The audit event of a transition, then the 202 answer with the task.     *)
Report(r) ==
  /\ \E step \in {"void_pending", "disputed", "settlement_pending"} :
       Decide(r, step, Result("done", r))
  /\ Record(r, <<Event(at[r])>>)
  /\ UNCHANGED <<effectAt, billVars, task, performed, snap, held, charge, root>>

(* The audit event of a final state; the rest is attachReceipt.            *)
Close(r) ==
  /\ \E step \in {"succeeded", "failed"} : Inside(r, step, "anchor")
  /\ Record(r, <<Event(at[r])>>)
  /\ UNCHANGED <<effectAt, billVars, task, performed, snap, held, charge, root, result>>

(* Mutant: the root is not read.                                           *)
AnchorStale(r) ==
  /\ Inside(r, "anchor", "attach")
  /\ UNCHANGED <<effectAt, billVars, task, audit, performed, snap, held, charge, root, result>>

(* Root is read, and the receipt signed: without a signature the answer is *)
(* a 202 whose task says receipt_pending.                                  *)
Anchor(r) ==
  /\ \/ Inside(r, "anchor", "attach") /\ UNCHANGED result
     \/ SignerFaults /\ Decide(r, "anchor", Result("done", r))
  /\ root' = [root EXCEPT ![r] = Len(audit[r])]
  /\ UNCHANGED <<effectAt, billVars, task, audit, performed, snap, held, charge>>

(* The receipt states what the commit's own copy of the task says.         *)
Receipt(r) == [outcome |-> snap[r].state, bill |-> snap[r].bill,
               amount |-> snap[r].amount, root |-> root[r]]

Attach(r) ==
  /\ \/ /\ Inside(r, "attach", "issue")
        /\ Store(r, r, [task[r] EXCEPT !.receipt = Receipt(r)])
        /\ UNCHANGED result
     \/ /\ Decide(r, "attach", Result("done", r))
        /\ StoreErrs(r, [task[r] EXCEPT !.receipt = Receipt(r)])
        /\ UNCHANGED snap
  /\ UNCHANGED <<effectAt, billVars, audit, performed, held, charge, root>>

Issue(r) ==
  /\ Decide(r, "issue", Result("done", r))
  /\ Record(r, <<[type |-> "receipt", anchor |-> root[r]]>>)
  /\ UNCHANGED <<effectAt, billVars, task, performed, snap, held, charge, root>>

-----------------------------------------------------------------------------
(* Cancel                                                                  *)

TaskOf(r) == Cancel[r].task

(* Mutant: a terminal task is left to Service.Cancel.                      *)
CancellableByService(r, t) ==
  Cancel[r].expected \in {AnyVersion, t.version} /\ t.state \in CancellableIn

(* Version, terminal states and Service.Cancel look at the copy only.      *)
Cancellable(r, t) ==
  /\ Cancel[r].expected \in {AnyVersion, t.version}
  /\ t.state \notin Terminal
  /\ t.state \in CancellableIn

Unsettled(t) == t.hold # None /\ t.settlement = None

(* GetTask copies the record under the lock and clones what its Billing    *)
(* pointer refers to after it: the copy may mix an old state and version   *)
(* with a newer billing record, which UpdateTask changes in place.         *)
ReadRecord(r) ==
  /\ task[TaskOf(r)] # NoTask
  /\ Inside(r, "read", "clone")
  /\ snap' = [snap EXCEPT ![r] = task[TaskOf(r)]]
  /\ UNCHANGED <<effectAt, billVars, task, audit, performed, held, charge, root, result>>

ReadRefuses(r) ==
  /\ task[TaskOf(r)] = NoTask \/ StoreFaults
  /\ Decide(r, "read", Result("problem", None))
  /\ UNCHANGED <<effectAt, billVars, task, audit, performed, snap, held, charge, root>>

WithBilling(t, b) == [t EXCEPT !.bill = b.bill, !.settlement = b.settlement,
                               !.amount = b.amount]

CloneBilling(r) ==
  LET t == WithBilling(snap[r], task[TaskOf(r)])
  IN  /\ Cancellable(r, t)
      /\ Inside(r, "clone", IF Unsettled(t) THEN "release" ELSE "cancel")
      /\ snap' = [snap EXCEPT ![r] = t]
      /\ UNCHANGED <<effectAt, billVars, task, audit, performed, held, charge, root, result>>

CloneRefuses(r) ==
  /\ ~Cancellable(r, snap[r])
  /\ Decide(r, "clone", Result("problem", None))
  /\ UNCHANGED <<effectAt, billVars, task, audit, performed, snap, held, charge, root>>

(* Mutant: an error of Release is ignored.                                 *)
CancelRegardless(r) ==
  /\ Inside(r, "release", "cancel")
  /\ ReleaseHold(snap[r].hold) \/ VoidFails(snap[r].hold)
  /\ Cross(r)
  /\ UNCHANGED <<task, audit, performed, snap, held, charge, root, result>>

(* Only a TemporaryError is known to have changed nothing.                 *)
CancelReleases(r) ==
  LET h == snap[r].hold IN
  /\ \/ /\ Inside(r, "release", "cancel")
        /\ ReleaseHold(h)
        /\ UNCHANGED result
     \/ /\ Decide(r, "release", Result("unknown", None))
        /\ VoidFails(h)
     \/ /\ BillingFaults
        /\ Decide(r, "release", Result("problem", None))
        /\ UNCHANGED billVars
  /\ Cross(r)
  /\ UNCHANGED <<task, audit, performed, snap, held, charge, root>>

Cancelled(t) ==
  [task[t] EXCEPT !.state = "cancelled",
                  !.bill = IF Unsettled(task[t]) THEN "released" ELSE @]

CancelUpdates(r) ==
  /\ \/ Inside(r, "cancel", "report") /\ Store(r, TaskOf(r), Cancelled(TaskOf(r)))
        /\ UNCHANGED result
     \/ Decide(r, "cancel", Result("problem", None))
        /\ StoreFails(r, TaskOf(r), Cancelled(TaskOf(r)))
  /\ Cross(r)
  /\ UNCHANGED <<billVars, audit, performed, held, charge, root>>

CancelReports(r) ==
  /\ Decide(r, "report", Result("done", TaskOf(r)))
  /\ Record(TaskOf(r), <<Event("cancelled")>>)
  /\ UNCHANGED <<effectAt, billVars, task, performed, snap, held, charge, root>>

-----------------------------------------------------------------------------
(* The handler around the operation                                        *)

(* A task ID is known once its effect or an answer of its commit named it. *)
Disclosed(t) ==
  \/ EffectNamesTask /\ t \in performed
  \/ \E r \in Commits :
       /\ result[r].task = t
       /\ answer[r].kind \in {"result", "unknown"}

Claims(r) ==
  /\ r \in Cancels => Disclosed(TaskOf(r))
  /\ \/ ClaimNew(r)
     \/ ClaimReplay(r)
     \/ ClaimConflict(r)
     \/ ClaimInProgress(r)
     \/ ClaimUnavailable(r)
  /\ UNCHANGED <<billVars, opVars>>

OperationReturns(r) ==
  /\ at[r] = "return"
  /\ Goto(r, "running", "returned")
  /\ release' = [release EXCEPT ![r] = (result[r].kind = "retry")]
  /\ UNCHANGED <<entries, now, key, digest, effectAt, answer, billVars, opVars>>

OperationPanics(r) ==
  /\ Panics
  /\ at[r] # "return"
  /\ Panic(r)
  /\ UNCHANGED <<billVars, opVars>>

Disposes(r) ==
  /\ ReleaseClaim(r) \/ ReleaseClaimFails(r) \/ CompleteClaim(r) \/ CompleteClaimFails(r)
  /\ UNCHANGED <<billVars, opVars>>

ClockTicks == Pass /\ UNCHANGED <<billVars, opVars>>

CommitStep(r) ==
  \/ ValidateOk(r) \/ ValidateRefuses(r)
  \/ ReserveFree(r) \/ ReserveOk(r) \/ ReserveRefused(r) \/ ReserveUnknown(r)
  \/ PutTask(r) \/ PutTaskFails(r) \/ StartOk(r) \/ StartFails(r) \/ Abandon(r)
  \/ ExecuteOk(r) \/ ExecuteProblem(r)
  \/ Void(r) \/ VoidPending(r) \/ Fail(r)
  \/ VoidPrice(r) \/ Dispute(r)
  \/ SettleOk(r) \/ SettleFails(r) \/ SettlePending(r) \/ Bind(r) \/ Succeed(r)
  \/ Report(r) \/ Close(r) \/ Anchor(r) \/ Attach(r) \/ Issue(r)

CancelStep(r) ==
  \/ ReadRecord(r) \/ ReadRefuses(r) \/ CloneBilling(r) \/ CloneRefuses(r)
  \/ CancelReleases(r) \/ CancelUpdates(r) \/ CancelReports(r)

CommitNext ==
  \/ \E r \in Requests : Claims(r) \/ OperationReturns(r) \/ OperationPanics(r) \/ Disposes(r)
  \/ \E r \in Commits : CommitStep(r)
  \/ \E r \in Cancels : CancelStep(r)
  \/ ClockTicks

CommitSpec == CommitInit /\ [][CommitNext]_allVars

(* A goroutine runs on once its request is accepted, as long as every call *)
(* it makes returns; no client has to send, and a clock need not move.     *)
Served(r) ==
  \/ OperationReturns(r) \/ Disposes(r)
  \/ r \in Commits /\ CommitStep(r)
  \/ r \in Cancels /\ CancelStep(r)

FairCommitSpec == CommitSpec /\ \A r \in Requests : WF_allVars(Served(r))

-----------------------------------------------------------------------------

TaskStates == {"none", "accepted", "running", "waiting_input", "disputed"} \cup Terminal
BillStates == {"none", "not_billed", "reserved", "settled", "voided", "released"}

Receipts == [outcome : TaskStates, bill : BillStates, amount : Amounts \cup {NoAmount},
             root : Nat]

Tasks == [state : TaskStates, version : Nat, bill : BillStates,
          hold : Holds \cup {None}, settlement : SettleRefs \cup {None},
          amount : Amounts \cup {NoAmount}, receipt : Receipts]

AuditTypes == {"accepted", "reserved", "running", "settled", "void_pending", "disputed",
               "settlement_pending", "succeeded", "failed", "receipt", "cancelled"}

AuditEvents == [type : AuditTypes, anchor : Nat]

CommitCalls == {"validate", "reserve", "put", "start", "abandon", "execute",
                "void", "mark_void_pending", "void_pending", "fail", "failed",
                "void_price", "mark_disputed", "mark_disputed_voided", "disputed",
                "settle", "mark_settlement_pending", "settlement_pending",
                "bind", "succeed", "succeeded", "anchor", "attach", "issue", "return"}

CancelCalls == {"read", "clone", "release", "cancel", "report", "return"}

(* What an operation may return.                                           *)
Results == [kind : {"none", "done", "problem", "retry", "unknown"},
            task : Commits \cup {None}]

(* The operations' part of the type invariant.                             *)
OperationTypeOK ==
  /\ task \in [Commits -> Tasks]
  /\ audit \in [Commits -> Seq(AuditEvents)]
  /\ performed \subseteq Commits
  /\ at \in [Requests -> CommitCalls \cup CancelCalls]
  /\ \A r \in Commits : at[r] \in CommitCalls
  /\ \A r \in Cancels : at[r] \in CancelCalls
  /\ snap \in [Requests -> Tasks]
  /\ held \in [Commits -> Holds \cup {None}]
  /\ charge \in [Commits -> Amounts \cup {NoAmount}]
  /\ root \in [Commits -> Nat]
  /\ result \in [Requests -> Results]

(* Type invariant of the handler, the processor, the task store, the audit *)
(* log and the operations.                                                 *)
CommitTypeOK == TypeOK /\ BillTypeOK /\ OperationTypeOK

(* Commit and cancel are operations handleMutating may run: whatever they  *)
(* do, ReleaseClaim is set only by a request that recorded nothing, so     *)
(* that everything proved of the handler holds of them.                    *)
ImplementsHandler == Spec

(* They use the processor through its four calls only.                     *)
ImplementsBilling == BillSpec

(* An idempotency key buys one provider effect, through retries, faults,   *)
(* released claims and expired answers, as long as no quote outlives the   *)
(* retention period.                                                       *)
OneEffectPerKey ==
  (\A c \in Contracts : Quote[c].expiresAt <= Retention)
  => \A r, s \in performed : key[r] = key[s] => r = s

(* A single-use authorization pays for one execution of a billed quote,    *)
(* even when it is committed under several keys.                           *)
OneEffectPerMandate ==
  \A r, s \in performed :
    /\ Commit[r].auth.ref = Commit[s].auth.ref
    /\ Commit[r].auth.ref # None
    /\ Commit[r].auth.usage = "single_use"
    /\ ~QuoteOf(r).free /\ ~QuoteOf(s).free
    => key[r] = key[s]

(* A task that says succeeded had its effect and, when it is billed, is    *)
(* charged: the settlement it names is its reservation's, at the amount it *)
(* states, which the signed ceiling covers.                                *)
SucceededIsPerformedAndCharged ==
  \A t \in Commits :
    task[t].state = "succeeded" =>
      /\ t \in performed
      /\ task[t].amount <= QuoteOf(t).ceiling
      /\ task[t].hold # None =>
           /\ settleByHold[task[t].hold] = task[t].settlement
           /\ task[t].settlement # None
           /\ settled[task[t].settlement] = task[t].amount

(* A task that says failed had no effect and keeps no reservation: "failed *)
(* - Definitive failure with resolved billing/effect state".               *)
FailedIsResolved ==
  \A t \in Commits :
    task[t].state = "failed" =>
      /\ t \notin performed
      /\ task[t].hold # None => task[t].hold \in released

(* A cancelled task is never charged, although Settle of its commit and    *)
(* Release of its cancellation take no common lock.                        *)
CancelledIsNotCharged ==
  \A t \in Commits :
    task[t].state = "cancelled" /\ task[t].hold # None =>
      settleByHold[task[t].hold] = None

(* A reservation is charged only after the effect it was made for.         *)
ChargedOnlyForAnEffect ==
  \A h \in Holds : settleByHold[h] # None => \E r \in performed : held[r] = h

(* A commit that answers with a definite problem, or releases its claim,   *)
(* left no reservation, no task and no effect behind.                      *)
RefusalLeavesNothing ==
  \A r \in Commits :
    result[r].kind \in {"problem", "retry"} =>
      hold[r] = NoAmount /\ task[r] = NoTask /\ r \notin performed

(* The audit_root of a receipt is the root immediately before its issuance *)
(* ("MUST match the root immediately before receipt issuance").            *)
ReceiptIsAnchored ==
  \A t \in Commits : \A i \in DOMAIN audit[t] :
    audit[t][i].type = "receipt" => audit[t][i].anchor = i - 1

(* The receipt of a task says of its outcome and billing what the task     *)
(* says.                                                                   *)
ReceiptMatchesTask ==
  \A t \in Commits :
    task[t].receipt # NoReceipt =>
      /\ task[t].receipt.outcome = task[t].state
      /\ task[t].receipt.bill = task[t].bill
      /\ task[t].receipt.amount = task[t].amount

(* A terminal task never leaves its state.                                 *)
TerminalIsFinal ==
  [][\A t \in Commits :
       task[t].state \in Terminal => task'[t].state = task[t].state]_allVars

(* While Store and handler do not fail, the record owns up to an effect in *)
(* the end and for good: it says succeeded or asks for reconciliation, or, *)
(* where a cancel has covered that, the audit chain still says it.         *)
EffectIsAccountedFor ==
  \A t \in Commits :
    <>[](t \in performed =>
           \/ task[t].state \in {"succeeded", "waiting_input", "disputed"}
           \/ /\ task[t].state = "cancelled"
              /\ \E i \in DOMAIN audit[t] :
                   audit[t][i].type \in {"settled", "settlement_pending", "disputed"})

(* A reservation is charged in the end, given back, or held by a task or   *)
(* an answer that asks for reconciliation.                                 *)
ReservationIsResolved ==
  \A h \in Holds :
    hold[h] # NoAmount ~>
      \/ settleByHold[h] # None
      \/ h \in released
      \/ task[h].state \in {"waiting_input", "disputed"}
      \/ result[h].kind = "unknown"

-----------------------------------------------------------------------------
(* What the documents say of commit and the code does not do.              *)

(* "Ambiguous billing, persistence, callback, upload, or provider effects  *)
(* remain locked for reconciliation": a claim whose answer is an unknown   *)
(* outcome is still held.                                                  *)
UnknownKeepsItsClaim ==
  \A r \in Requests :
    pc[r] = "done" /\ result[r].kind = "unknown" => Held(key[r])

=============================================================================
