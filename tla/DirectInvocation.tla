-------------------------- MODULE DirectInvocation --------------------------
(***************************************************************************)
(* The one-call flow of pkg/server/direct.go: handleInvoke plans a request *)
(* with the service, claims its key when it has one, and executeDirect     *)
(* reserves, executes, settles, signs and stores the invocation.           *)
(*                                                                         *)
(* The handler is not handleMutating: it plans and checks approval before  *)
(* the claim, the key is optional, nothing recovers from a panic, and no   *)
(* result asks for a release of the claim.  ImplementsHandler says that    *)
(* its keyed requests nevertheless keep the same claim discipline.         *)
(*                                                                         *)
(* Invocation, hold and settlement IDs are the name of the request that    *)
(* makes them.  The invocation ID is the contract ID of the reservation,   *)
(* the digest of the request's body its binding.                           *)
(***************************************************************************)
EXTENDS IdempotencyStore, MockProcessor, Sequences

CONSTANTS
  Invocations,      \* POST /v1/invoke requests
  Invoke,           \* what each may send: keys and digests
  Body,             \* the billing authorization in the body of a digest, and
                    \* when the approval in it expires
  Plans,            \* the plans PlanDirect may return for each
  NoKey,            \* the absent Idempotency-Key
  BackendFaults,    \* requests whose idempotency calls may report an error
  StoreFaults,      \* requests whose PutInvocation may report an error
  BillingFaults,    \* requests whose Processor calls may report a
                    \* TemporaryError or an UnknownOutcomeError
  SignerFaults,     \* requests whose signatures or audit root may fail
  ProviderUncertain,\* requests whose ExecuteDirect may report a problem
                    \* after its effect
  Panics            \* requests in which a call may panic

DirectCalls == [key : Keys \cup {NoKey}, digest : Digests]

DirectPlans == [eligible : BOOLEAN, needsKey : BOOLEAN, needsApproval : BOOLEAN,
                price : Amounts, ceiling : Amounts, variable : BOOLEAN, free : BOOLEAN]

ASSUME DirectConstants ==
  /\ Responses = Invocations
  /\ Contracts = Invocations /\ Holds = Invocations /\ SettleRefs = Invocations
  /\ Bindings = Digests
  /\ BillKeys = Keys \cup Invocations
  /\ None \notin Invocations
  /\ Keys # {}
  /\ NoKey \notin Keys
  /\ Invoke \in [Invocations -> SUBSET DirectCalls]
  /\ Body \in [Digests -> [auth : Authorizations, approvedUntil : Nat]]
  /\ Plans \in [Invocations -> SUBSET DirectPlans]
  /\ {BackendFaults, StoreFaults, BillingFaults, SignerFaults,
      ProviderUncertain, Panics} \subseteq SUBSET Invocations

VARIABLES
  call,       \* the claim key (or NoKey) and the digest of each request
  plan,       \* the plan PlanDirect returns for each request
  at,         \* the next call of its goroutine
  effectAt,   \* when ExecuteDirect had its effect (history)
  bill,       \* billingRecord
  charge,     \* finalPrice
  audit,      \* the types of the events of its audit chain
  record,     \* Store.invocations
  told,       \* operationResult: its kind and the state its body gives
  answer      \* what the client was told, as in MutatingHandler

directVars == <<call, plan, at, effectAt, bill, charge, audit, record, told, answer>>
allVars == <<entries, now, billVars, directVars>>

Never == -1
NoAnswer == [kind |-> "none", from |-> NoResponse]
Told(kind) == [kind |-> kind, from |-> NoResponse]
NoBill == [state |-> "none", hold |-> None, settlement |-> None, amount |-> NoAmount]
Untold == [kind |-> "none", state |-> "none"]
NoRecord == [state |-> "none", bill |-> NoBill]

DirectInit ==
  /\ IdemInit
  /\ BillInit
  /\ call \in [Invocations -> DirectCalls]
  /\ plan \in [Invocations -> DirectPlans]
  /\ \A r \in Invocations : call[r] \in Invoke[r] /\ plan[r] \in Plans[r]
  /\ at = [r \in Invocations |-> "plan"]
  /\ effectAt = [r \in Invocations |-> Never]
  /\ bill = [r \in Invocations |-> NoBill]
  /\ charge = [r \in Invocations |-> NoAmount]
  /\ audit = [r \in Invocations |-> <<>>]
  /\ record = [r \in Invocations |-> NoRecord]
  /\ told = [r \in Invocations |-> Untold]
  /\ answer = [r \in Invocations |-> NoAnswer]

-----------------------------------------------------------------------------

Keyed(r) == call[r].key # NoKey

AuthOf(r) == Body[call[r].digest].auth

Goto(r, from, to) ==
  /\ at[r] = from
  /\ at' = [at EXCEPT ![r] = to]

(* executeDirect returns an operationResult.                               *)
Result(r, from, kind, state) ==
  /\ Goto(r, from, "return")
  /\ told' = [told EXCEPT ![r] = [kind |-> kind, state |-> state]]

(* appendAudit drops an event it cannot sign.                              *)
Kept(r, events) ==
  IF r \in SignerFaults
  THEN {events, <<>>} \cup {<<events[i]>> : i \in DOMAIN events}
  ELSE {events}

Log(r, events) == \E kept \in Kept(r, events) : audit' = [audit EXCEPT ![r] = @ \o kept]

Outside == <<entries, now, call, plan, answer>>

-----------------------------------------------------------------------------
(* Before the claim                                                        *)

(* validateDirectPlan                                                      *)
PlanValid(p) ==
  /\ p.price <= p.ceiling
  /\ ~p.variable => p.price = p.ceiling
  /\ p.free => p.price = 0

DirectAllowed(r) ==
  LET p == plan[r] IN
    /\ p.eligible
    /\ PlanValid(p)
    /\ p.needsApproval => now < Body[call[r].digest].approvedUntil
    /\ p.needsKey => Keyed(r)

Plan(r) ==
  /\ DirectAllowed(r)
  /\ Goto(r, "plan", IF Keyed(r) THEN "begin" ELSE "reserve")
  /\ UNCHANGED <<entries, now, billVars, call, plan, effectAt, bill, charge, audit, record, told, answer>>

(* References, a problem of PlanDirect or a missing scope refuse too.  An  *)
(* identical retry is refused here although its answer may be stored.      *)
PlanRefuses(r) ==
  /\ Goto(r, "plan", "refused")
  /\ UNCHANGED <<entries, now, billVars, call, plan, effectAt, bill, charge, audit, record, told, answer>>

(* Begin: a new claim runs on, every other outcome is the answer.          *)
Claim(r, ans) ==
  /\ Goto(r, "begin", IF ans = NoAnswer THEN "reserve" ELSE "done")
  /\ answer' = [answer EXCEPT ![r] = ans]
  /\ UNCHANGED <<now, billVars, call, plan, effectAt, bill, charge, audit, record, told>>

(* Mutant: a claim in progress is taken for a new one.                     *)
InvokeShared(r) ==
  LET d == call[r].digest IN
  /\ at[r] = "begin"
  /\ \/ entries[call[r].key].status \in {"absent", "in_progress"} /\ UNCHANGED entries /\ Claim(r, NoAnswer)
     \/ BeginReplay(call[r].key, d)
          /\ Claim(r, [kind |-> "replay", from |-> entries[call[r].key].response])

InvokeBegins(r) ==
  LET d == call[r].digest IN
  /\ at[r] = "begin"
  /\ \/ BeginNew(call[r].key, d) /\ Claim(r, NoAnswer)
     \/ BeginReplay(call[r].key, d)
          /\ Claim(r, [kind |-> "replay", from |-> entries[call[r].key].response])
     \/ BeginConflict(call[r].key, d) /\ Claim(r, Told("conflict"))
     \/ BeginInProgress(call[r].key, d) /\ Claim(r, Told("in_progress"))

InvokeUnavailable(r) ==
  /\ r \in BackendFaults
  /\ at[r] = "begin"
  /\ BeginNew(call[r].key, call[r].digest) \/ UNCHANGED entries
  /\ Claim(r, Told("unavailable"))

-----------------------------------------------------------------------------
(* reserveBilling                                                          *)

NotBilled(amount) ==
  [state |-> "not_billed", hold |-> None, settlement |-> None, amount |-> amount]

Reserved(h, amount) ==
  [state |-> "reserved", hold |-> h, settlement |-> None, amount |-> amount]

ReserveFree(r) ==
  /\ plan[r].free
  /\ Goto(r, "reserve", "execute")
  /\ bill' = [bill EXCEPT ![r] = NotBilled(plan[r].ceiling)]
  /\ Log(r, <<"accepted", "reserved">>)
  /\ UNCHANGED <<Outside, billVars, effectAt, charge, record, told>>

BillingAuthorizationValid(r) ==
  /\ AuthorizationAccepted(AuthOf(r), plan[r].ceiling)
  /\ AuthOf(r).usage # "other"

(* directBillingKey: the client's key, or else the invocation ID.          *)
BillingKey(r) == IF Keyed(r) THEN call[r].key ELSE r

(* An identical retry, once its key is given away again, finds by its      *)
(* mandate the hold an earlier invocation made.                            *)
Reserves(r, h) ==
  LET d == call[r].digest IN
    /\ BillingAuthorizationValid(r)
    /\ \/ ReserveExisting(r, d, BillingKey(r), AuthOf(r), plan[r].ceiling, h)
       \/ h = r /\ ReserveNew(r, d, BillingKey(r), AuthOf(r), plan[r].ceiling, h)

ReserveOk(r) ==
  /\ ~plan[r].free
  /\ Goto(r, "reserve", "execute")
  /\ \E h \in Holds :
       /\ Reserves(r, h)
       /\ bill' = [bill EXCEPT ![r] = Reserved(h, hold'[h])]
  /\ Log(r, <<"accepted", "reserved">>)
  /\ UNCHANGED <<Outside, effectAt, charge, record, told>>

(* The body of a reservation problem is made before the state is known.    *)
ReserveRefused(r) ==
  /\ ~plan[r].free
  /\ Result(r, "reserve", "problem", "none")
  /\ \/ ~BillingAuthorizationValid(r) /\ UNCHANGED billVars
     \/ ReserveDeclined(r, call[r].digest, BillingKey(r), AuthOf(r), plan[r].ceiling)
  /\ Log(r, <<"accepted">>)
  /\ UNCHANGED <<Outside, effectAt, bill, charge, record>>

(* Every error of Reserve, a temporary one marked retryable and an unknown *)
(* outcome too, is answered as such and completes the claim.               *)
ReserveErrs(r) ==
  /\ r \in BillingFaults
  /\ ~plan[r].free
  /\ \/ Result(r, "reserve", "problem", "none") /\ UNCHANGED billVars
     \/ /\ Result(r, "reserve", "unknown", "none")
        /\ (\E h \in Holds : Reserves(r, h)) \/ UNCHANGED billVars
  /\ Log(r, <<"accepted">>)
  /\ UNCHANGED <<Outside, effectAt, bill, charge, record>>

-----------------------------------------------------------------------------
(* ExecuteDirect and resolveDirectPrice                                    *)

Performs(r) == effectAt' = [effectAt EXCEPT ![r] = now]

FinalPrice(p, reported) == IF reported = NoAmount THEN p.price ELSE reported

PriceAllowed(p, reported, sums) ==
  /\ p.variable => reported # NoAmount
  /\ FinalPrice(p, reported) <= p.ceiling
  /\ ~p.variable => FinalPrice(p, reported) = p.price
  /\ sums

ExecuteOk(r) ==
  /\ Goto(r, "execute", IF bill[r].hold = None THEN "sign" ELSE "settle")
  /\ \E reported \in Amounts \cup {NoAmount}, sums \in BOOLEAN :
       /\ PriceAllowed(plan[r], reported, sums)
       /\ charge' = [charge EXCEPT ![r] = FinalPrice(plan[r], reported)]
  /\ Performs(r)
  /\ UNCHANGED <<Outside, billVars, bill, audit, record, told>>

(* The effect is done and its price is not acceptable.                     *)
ExecuteMisprices(r) ==
  /\ \E reported \in Amounts \cup {NoAmount}, sums \in BOOLEAN :
       ~PriceAllowed(plan[r], reported, sums)
  /\ IF bill[r].hold = None
     THEN Result(r, "execute", "problem", "failed")
     ELSE Goto(r, "execute", "void_price") /\ UNCHANGED told
  /\ Performs(r)
  /\ UNCHANGED <<Outside, billVars, bill, charge, audit, record>>

ExecuteProblem(r) ==
  /\ IF bill[r].hold = None
     THEN Result(r, "execute", "problem", "failed") /\ Log(r, <<"failed">>)
     ELSE Goto(r, "execute", "void") /\ UNCHANGED <<audit, told>>
  /\ \/ UNCHANGED effectAt
     \/ r \in ProviderUncertain /\ Performs(r)
  /\ UNCHANGED <<Outside, billVars, bill, charge, record>>

(* Processor.Release reports an error.                                     *)
ReleaseErrs(r) ==
  \/ ReleaseHoldRefused(bill[r].hold)
  \/ r \in BillingFaults /\ (ReleaseHold(bill[r].hold) \/ UNCHANGED billVars)

(* Mutant: an execution that was refused is charged all the same.          *)
VoidCharges(r) ==
  /\ Goto(r, "void", "settle")
  /\ charge' = [charge EXCEPT ![r] = plan[r].price]
  /\ UNCHANGED <<Outside, billVars, effectAt, bill, audit, record, told>>

(* Mutant: an error of Release is ignored.                                 *)
VoidRegardless(r) ==
  /\ Result(r, "void", "problem", "failed")
  /\ ReleaseHold(bill[r].hold) \/ ReleaseErrs(r)
  /\ UNCHANGED <<Outside, effectAt, bill, charge, audit, record>>

(* Mutant: the failure is logged whether or not the hold could be released. *)
VoidLogsFirst(r) ==
  /\ \/ Result(r, "void", "problem", "failed") /\ ReleaseHold(bill[r].hold)
     \/ Result(r, "void", "unknown", "accepted") /\ ReleaseErrs(r)
  /\ Log(r, <<"failed">>)
  /\ UNCHANGED <<Outside, effectAt, bill, charge, record>>

(* An error of Release leaves the invocation accepted, without a record.   *)
Void(r) ==
  /\ \/ /\ Result(r, "void", "problem", "failed")
        /\ ReleaseHold(bill[r].hold)
        /\ bill' = [bill EXCEPT ![r].state = "released"]
        /\ Log(r, <<"failed">>)
     \/ /\ \/ Result(r, "void", "unknown", "accepted") /\ ReleaseErrs(r)
           \/ Result(r, "void", "problem", "accepted") /\ r \in BillingFaults /\ UNCHANGED billVars
        /\ UNCHANGED <<bill, audit>>
  /\ UNCHANGED <<Outside, effectAt, charge, record>>

(* An error of Release is discarded: the invocation failed whatever it is. *)
VoidPrice(r) ==
  /\ Result(r, "void_price", "problem", "failed")
  /\ ReleaseHold(bill[r].hold) \/ ReleaseErrs(r)
  /\ UNCHANGED <<Outside, effectAt, bill, charge, audit, record>>

-----------------------------------------------------------------------------
(* Settle, sign, store                                                     *)

Settles(r, s) ==
  \/ SettleExisting(bill[r].hold, charge[r], BillingKey(r), s)
  \/ s = r /\ SettleNew(bill[r].hold, charge[r], BillingKey(r), s)

SettledAs(b, s, amount) ==
  [state |-> "settled", hold |-> b.hold, settlement |-> s, amount |-> amount]

SettleOk(r) ==
  /\ Goto(r, "settle", "sign")
  /\ \E s \in SettleRefs :
       /\ Settles(r, s)
       /\ bill' = [bill EXCEPT ![r] = SettledAs(@, s, settled'[s])]
  /\ Log(r, <<"settled">>)
  /\ UNCHANGED <<Outside, effectAt, charge, record, told>>

(* Mutant: a failed settlement is logged and called settled.               *)
SettleErrsSettled(r) ==
  /\ Goto(r, "settle", "sign")
  /\ SettleDeclined(bill[r].hold, charge[r], BillingKey(r)) \/ (r \in BillingFaults /\ UNCHANGED billVars)
  /\ bill' = [bill EXCEPT ![r].state = "settled"]
  /\ Log(r, <<"settled">>)
  /\ UNCHANGED <<Outside, effectAt, charge, record, told>>

SettleErrs(r) ==
  /\ Goto(r, "settle", "sign")
  /\ \/ SettleDeclined(bill[r].hold, charge[r], BillingKey(r))
     \/ r \in BillingFaults /\ ((\E s \in SettleRefs : Settles(r, s)) \/ UNCHANGED billVars)
  /\ bill' = [bill EXCEPT ![r].state = "settlement_pending"]
  /\ Log(r, <<"settlement_pending">>)
  /\ UNCHANGED <<Outside, effectAt, charge, record, told>>

Outcome(r) == IF bill[r].state = "settlement_pending" THEN "accepted" ELSE "succeeded"

Sign(r) ==
  /\ \/ Goto(r, "sign", "put") /\ UNCHANGED told
     \/ r \in SignerFaults /\ Result(r, "sign", "unknown", Outcome(r))
  /\ Log(r, <<Outcome(r)>>)
  /\ UNCHANGED <<Outside, billVars, effectAt, bill, charge, record>>

Response(r) == [state |-> Outcome(r), bill |-> bill[r]]

PutInvocation(r) ==
  /\ \/ /\ Goto(r, "put", "issue")
        /\ record' = [record EXCEPT ![r] = Response(r)]
        /\ UNCHANGED told
     \/ /\ r \in StoreFaults
        /\ Result(r, "put", "unknown", Outcome(r))
        /\ record' \in {record, [record EXCEPT ![r] = Response(r)]}
  /\ UNCHANGED <<Outside, billVars, effectAt, bill, charge, audit>>

Issue(r) ==
  /\ Result(r, "issue", "response", Outcome(r))
  /\ Log(r, <<"receipt">>)
  /\ UNCHANGED <<Outside, billVars, effectAt, bill, charge, record>>

-----------------------------------------------------------------------------
(* The handler after executeDirect                                         *)

Returns(r) ==
  /\ Goto(r, "return", IF Keyed(r) THEN "complete" ELSE "done")
  /\ answer' = [answer EXCEPT ![r] = IF Keyed(r) THEN @ ELSE Told("result")]
  /\ UNCHANGED <<entries, now, billVars, call, plan, effectAt, bill, charge, audit, record, told>>

InvokeCompletes(r) ==
  /\ Goto(r, "complete", "done")
  /\ \/ /\ Complete(call[r].key, r)
        /\ answer' = [answer EXCEPT ![r] = Told("result")]
     \/ /\ \/ CompleteRefused(call[r].key)
           \/ r \in BackendFaults /\ (Complete(call[r].key, r) \/ UNCHANGED entries)
        /\ answer' = [answer EXCEPT ![r] = Told("unknown")]
  /\ UNCHANGED <<now, billVars, call, plan, effectAt, bill, charge, audit, record, told>>

Running == {"reserve", "execute", "void", "void_price", "settle", "sign", "put", "issue"}

(* net/http closes the connection: the client gets no answer.              *)
InvokePanics(r) ==
  /\ r \in Panics
  /\ at[r] \in Running
  /\ at' = [at EXCEPT ![r] = "panicked"]
  /\ UNCHANGED <<entries, now, billVars, call, plan, effectAt, bill, charge, audit, record, told, answer>>

Pass == Tick /\ UNCHANGED <<billVars, directVars>>

Execution(r) ==
  \/ ReserveFree(r) \/ ReserveOk(r) \/ ReserveRefused(r) \/ ReserveErrs(r)
  \/ ExecuteOk(r) \/ ExecuteMisprices(r) \/ ExecuteProblem(r)
  \/ Void(r) \/ VoidPrice(r) \/ SettleOk(r) \/ SettleErrs(r)
  \/ Sign(r) \/ PutInvocation(r) \/ Issue(r)

Handling(r) ==
  \/ Plan(r) \/ PlanRefuses(r) \/ InvokeBegins(r) \/ InvokeUnavailable(r)
  \/ Returns(r) \/ InvokeCompletes(r)

DirectNext ==
  \/ \E r \in Invocations : Handling(r) \/ Execution(r) \/ InvokePanics(r)
  \/ Pass

DirectSpec == DirectInit /\ [][DirectNext]_allVars

(* A goroutine runs on as long as the calls it makes return.               *)
FairDirectSpec == DirectSpec /\ \A r \in Invocations : WF_allVars(Handling(r) \/ Execution(r))

-----------------------------------------------------------------------------

InvocationStates == {"none", "accepted", "succeeded", "failed"}

Bills == [state : {"none", "not_billed", "reserved", "released", "settled", "settlement_pending"},
          hold : Holds \cup {None}, settlement : SettleRefs \cup {None},
          amount : Amounts \cup {NoAmount}]

AuditTypes == {"accepted", "reserved", "settled", "settlement_pending", "succeeded",
               "failed", "receipt"}

Calls == Running \cup {"plan", "refused", "begin", "return", "complete", "done", "panicked"}

(* Type invariant of the claim table, the processor and the invocations.   *)
DirectTypeOK ==
  /\ IdemTypeOK
  /\ BillTypeOK
  /\ call \in [Invocations -> DirectCalls]
  /\ plan \in [Invocations -> DirectPlans]
  /\ at \in [Invocations -> Calls]
  /\ effectAt \in [Invocations -> {Never} \cup 0 .. MaxTime]
  /\ bill \in [Invocations -> Bills]
  /\ charge \in [Invocations -> Amounts \cup {NoAmount}]
  /\ audit \in [Invocations -> Seq(AuditTypes)]
  /\ record \in [Invocations -> [state : InvocationStates, bill : Bills]]
  /\ told \in [Invocations -> [kind : {"none", "response", "problem", "unknown"},
                               state : InvocationStates]]
  /\ answer \in [Invocations -> [kind : {"none", "replay", "conflict", "in_progress",
                                         "unavailable", "result", "unknown"},
                                 from : Responses \cup {NoResponse}]]

(* handleMutating's view of a request: it is sent until it claims, and a  *)
(* panic, which leaves the claim, is its recovered one.  A request without *)
(* a key never gets to the handler.                                        *)
HandlerPc(r) ==
  CASE ~Keyed(r) \/ at[r] \in {"plan", "refused", "begin"} -> "sent"
    [] Keyed(r) /\ at[r] \in Running \cup {"return"} -> "running"
    [] Keyed(r) /\ at[r] = "complete" -> "returned"
    [] Keyed(r) /\ at[r] \in {"done", "panicked"} -> "done"

AnyKey == CHOOSE k \in Keys : TRUE

Handler ==
  INSTANCE MutatingHandler WITH
    Requests <- Invocations,
    BackendFaults <- BackendFaults # {},
    pc <- [r \in Invocations |-> HandlerPc(r)],
    key <- [r \in Invocations |-> IF Keyed(r) THEN call[r].key ELSE AnyKey],
    digest <- [r \in Invocations |-> call[r].digest],
    effectAt <- [r \in Invocations |-> IF Keyed(r) THEN effectAt[r] ELSE Never],
    release <- [r \in Invocations |-> FALSE],
    answer <- [r \in Invocations |-> IF ~Keyed(r) THEN NoAnswer
                                    ELSE IF at[r] = "panicked" THEN Told("unknown")
                                    ELSE answer[r]]

(* The second handler of the repository keeps the claims the first one     *)
(* keeps, though it shares none of its code: one runner per key, no effect *)
(* repeated before the retention is over, replays of the same request.     *)
ImplementsHandler == Handler!Spec

(* It uses the processor through its four calls only.                      *)
ImplementsBilling == BillSpec

(* An invocation that is answered or stored as succeeded had its effect    *)
(* and, when it is billed, is charged what its record says, within the     *)
(* ceiling its hold was made for; a free one holds nothing.                *)
SucceededIsCharged ==
  \A r \in Invocations :
    record[r].state = "succeeded" \/ told[r].state = "succeeded" =>
      /\ effectAt[r] # Never
      /\ IF plan[r].free
         THEN bill[r].hold = None
         ELSE /\ bill[r].settlement # None
              /\ settleByHold[bill[r].hold] = bill[r].settlement
              /\ settled[bill[r].settlement] = bill[r].amount
              /\ bill[r].amount <= plan[bill[r].hold].ceiling

(* Nothing is charged for an invocation whose effect did not happen, nor   *)
(* for one that is answered as failed, whoever made the hold: a settlement *)
(* is of the hold its invocation was given, after its effect.              *)
ChargedOnlyForAnEffect ==
  \A s \in Invocations :
    settled[s] # NoAmount =>
      /\ effectAt[s] # Never
      /\ told[s].state # "failed"
      /\ settleByHold[bill[s].hold] = s

(* What a client was answered is what GET /v1/invocations/{id} serves it,  *)
(* from before the answer is sent.                                         *)
AnswerIsRecorded ==
  \A r \in Invocations :
    told[r].kind = "response" =>
      record[r] = [state |-> told[r].state, bill |-> bill[r]]

PaysSingleUse(r) == AuthOf(r).ref # None /\ AuthOf(r).usage = "single_use"

(* "A single-use authorization MUST NOT fund a different digest or         *)
(* idempotency key": the invocations it pays for are one request and its   *)
(* retries, and all of them share the one hold.                            *)
OneHoldPerMandate ==
  \A r, s \in Invocations :
    /\ PaysSingleUse(r) /\ PaysSingleUse(s)
    /\ AuthOf(r).ref = AuthOf(s).ref
    /\ bill[r].hold # None /\ bill[s].hold # None
    => /\ bill[r].hold = bill[s].hold
       /\ call[r].digest = call[s].digest
       /\ BillingKey(r) = BillingKey(s)

(* The claim of an invocation that panicked is never given to a retry,     *)
(* whatever the retention: the key stays locked for reconciliation.        *)
PanicLocksItsKey ==
  \A r \in Invocations : at[r] = "panicked" /\ Keyed(r) => Held(call[r].key)

(* The chain of an invocation may lack an event that could not be signed,  *)
(* but it tells of no settlement, outcome or receipt there was not.        *)
AuditTellsTheTruth ==
  \A r \in Invocations : \A i \in DOMAIN audit[r] :
    /\ audit[r][i] = "settled" => settleByHold[bill[r].hold] = bill[r].settlement
                                  /\ bill[r].settlement # None
    /\ audit[r][i] = "succeeded" => effectAt[r] # Never
    /\ audit[r][i] = "failed" => bill[r].hold = None \/ bill[r].hold \in released
    /\ audit[r][i] = "receipt" => record[r] # NoRecord

(* A reservation whose goroutine runs on is charged, given back, or        *)
(* reported: as accepted, as unknown, or as a failed invocation whose      *)
(* price was refused, the one whose error of Release is discarded.         *)
ReservationIsReported ==
  \A r \in Invocations :
    hold[r] # NoAmount ~>
      \/ settleByHold[r] # None
      \/ r \in released
      \/ at[r] = "panicked"
      \/ /\ answer[r].kind \in {"result", "unknown"}
         /\ \/ told[r].kind = "unknown" \/ told[r].state = "accepted"
            \/ told[r].state = "failed" /\ effectAt[r] # Never

-----------------------------------------------------------------------------
(* What the documents say and the code does not do.                        *)

(* "A provider MUST NOT return failed when an irreversible provider        *)
(* effect, billing operation, or durable persistence outcome remains       *)
(* unknown": a client that is answered failed has its reservation back.    *)
FailedIsDefinitive ==
  \A r \in Invocations :
    answer[r].kind = "result" /\ told[r].state = "failed" =>
      bill[r].hold = None \/ bill[r].hold \in released

=============================================================================
