# A verification project for the Agent Service Contract Protocol reference service

TLA+ models of the stateful core of this repository, TLC runs that check them
on small instances, and TLAPS proofs of what matters most for every instance.
The repository is Go; the core is `pkg/server`, `pkg/billing`, `pkg/audit` and
the exact-decimal and quote checks of `pkg/ascp`. An HTTP request is a
goroutine, each shared component is guarded by a mutex of its own, nothing is
locked between two calls, and nothing is persisted.

## 1. Inventory

| Component | State it keeps | Operations | Talks to | What is hard | What makes it correct | Modelled in |
|---|---|---|---|---|---|---|
| Idempotency store, `pkg/server/idempotency.go` | `entries`: per scope and key a digest, in-progress flag, stored response, expiry | `Begin`, `Complete`, `Release`, each under the mutex | the handlers | retries at any time, expiry, `Complete` checks no owner | one runner per key; effects of a key apart by the retention period; replay only to the identical body | `IdempotencyStore` |
| Mutating handler, `handleMutating` in `server.go` | none but the goroutine | claim, run the operation, complete or release, recover from a panic | idempotency backend, an operation | backend errors that took effect, panics, late completion | a claim is never dropped after an effect | `MutatingHandler` |
| Billing processor, `pkg/billing/mock.go` | reservations by key and reference, mandate uses, settlements by key, reference and hold, refunds, totals, released holds | `Reserve`, `Settle`, `Release`, `Refund`, each under the mutex | commit, cancel, direct invocation | repeated calls, `Settle` against `Release`, mandates shared by contracts | one settlement per hold, settled or released, single-use mandates, refunds within the charge | `MockProcessor` |
| Commit, `commit` and `attachReceipt` in `server.go` | local copies of task, billing record, receipt | validate, reserve, record, start, execute, void or settle, bind, succeed, sign and attach the receipt | store, processor, service, signer, audit log | every call may fail with or without effect; a cancel may run in between | tasks, charges, effects and receipts agree; refusals leave nothing | `ContractCommit` |
| Cancel, `cancel` | local copy of the task | check, release, update, report | store, processor, service, audit log | works on a copy, commit may go on | a cancelled task is not charged; terminal states are final | `ContractCommit` |
| Direct invocation, `direct.go` | an invocation record | plan, claim (the key is optional), reserve, execute, settle, sign, store, issue, complete | idempotency backend, processor, service, store, signer, audit log | a second copy of the claim protocol; no recovery of panics; errors that are dropped | same claim discipline; answers, records, charges and chains agree | `DirectInvocation` |
| Audit log, `pkg/audit/log.go` | one hash chain per resource | `Append`, `List`, `Root`, verification | all handlers | several appenders; a failed signature drops an event; `List` and `Root` are two calls | every chain verifies; a receipt's root is the chain before it | `AuditLog` |
| Audit and event reads | position of a stream's client | `handleAudit`, `handleInvocationAudit`, `handleEvents` with `Last-Event-ID` | audit log | connections that break between two events | listings and streams are first parts of the chain; every event arrives | `AuditLog` |
| Negotiate and prepare, `server.go`, `pkg/ascp/validation.go` | offers, signed quotes | validate, ask the service, check, sign, store | service, store, files | the clock is read at each step, files expire | quotes within budget, files ready and unexpired | `Quotes` |
| File store and upload routes, `files.go`, `file_routes.go` | files with ticket, declared digest, content and expiry | `Prepare`, `Upload`, `Get`, `Content`, `Validate` | prepare, negotiate, direct | retried and late uploads, expiry between check and use, `Content` under two locks | content never changes once ready | `FileStore` |
| Money, `pkg/ascp/money.go` | none | exact comparison, addition | billing, quotes | scale, trailing zeros | equals arithmetic of integers of one scale | `Money` |
| Store, `store.go` | offers, quotes, tasks, invocations | put, get (cloned outside the lock), `UpdateTask` (a closure under the lock) | all handlers | lost updates between copies | versions grow, records are not replaced | with its callers |
| Service, `service.go`, `internal/email` | messages by task | `Execute`, `Cancel`, `Plan` and others | commit, cancel, direct | reports that lie about effects | one message per task | as a choice of outcomes |
| Adapters, discovery, client, commands, schemas | none that is shared | - | - | - | - | not modelled (section 7) |

`PROJECT.json` lists the same parts with their status and, under `hazards`, the
lines where something can go wrong that a test would hardly reach.

## 2. Modules

    IdempotencyStore               the claim table and the clock
      |         |  EXTENDS
      |   MutatingHandler          requests around an arbitrary operation
      |         |
      |         +------------ ContractCommit      commit and cancel, tasks, audit chains
      |                          |  EXTENDS
      |                       MockProcessor       the billing maps
      |                          |  EXTENDS
      +--------------------- DirectInvocation     the one-call flow
                                 :  INSTANCE      (refines MutatingHandler)

    FileStore -- Money --> Quotes                 files, exact decimals; negotiate,
                                                  prepare and the checks of commit
    AppendOnlyLedger <..INSTANCE.. AuditLog       chains, receipts, listings, streams

    MC*        instances for TLC          *Proofs        TLAPS proofs

Abstract specifications are modules of their own: `MutatingHandler` is what any
operation may do to its claim, `MockProcessor` what any client may do to the
billing maps, `AppendOnlyLedger` what an audit trail promises. The detailed
modules are shown to implement them.

**IdempotencyStore** has no next-state relation. `Begin` is four actions,
`BeginNew`, `BeginReplay`, `BeginConflict` and `BeginInProgress`, of which
exactly one is enabled; `Complete` and `Release` have a success and a refusal.
A key of the model is scope plus client key. `Expired` is strict, as
`time.After` is.

**MutatingHandler** is `handleMutating` with its operation known only by
contract: it may cross the effect boundary once (`CrossEffect`), return with or
without `ReleaseClaim` (`Return`; only without an effect) or panic. It is
therefore also the *abstract specification* of an operation.
`pc` is where the goroutine is, `answer` what the client was told, `effectAt` is
history. An `IdempotencyBackend` call may report an error and have taken effect.

**MockProcessor** has one action per outcome of each call and a next-state
relation for any clients in any order. It is the abstract specification of what
its callers may do with it. References made by `MustNewID` are any unused one.
`Contracts` are the IDs a caller reserves for, `Bindings` the digests it asks
with: a hold is found by contract and key, or, when a single-use mandate was
consumed, by digest and key alone (`SameUse`, `mock.go:121`). `paidWith` is
history.

**ContractCommit** refines both. `at[r]` is the next call the operation of
request `r` makes; `snap`, `held`, `charge` and `root` are its local variables
`task`, `billingRecord.ReservationRef`, `finalPrice` and `root`; `task` is the
store's map and `audit` the chains. The steps are the calls, in the order of
the code:

| Code | Actions |
|---|---|
| `commit` 568-605 | `ValidateOk`, `ValidateRefuses` |
| `reserveBilling`, 607-624 | `ReserveFree`, `ReserveOk`, `ReserveRefused`, `ReserveUnknown` |
| `PutTask`, start, 626-679 | `PutTask`, `PutTaskFails`, `StartOk`, `StartFails`, `Abandon` (the release after either failure) |
| `Service.Execute`, `resolveFinalCharge` | `ExecuteOk` (any reported price), `ExecuteProblem` |
| provider refused, 684-742 | `Void`, `VoidPending`, `Fail` |
| price outside the contract, 745-777 | `VoidPrice`, `Dispute` |
| settlement, 779-827 | `SettleOk`, `SettleFails`, `SettlePending`, `Bind` |
| success, 829-861 | `Succeed` |
| answers and final events | `Report`, `Close` |
| `attachReceipt` 872-916 | `Anchor`, `Attach`, `Issue` |
| `cancel` 1229-1272 | `ReadRecord`, `CloneBilling` (`GetTask`), `ReadRefuses`, `CloneRefuses`, `CancelReleases`, `CancelUpdates`, `CancelReports` |

`Transition` is the shape every `UpdateTask` of commit has: the record changes
and the copy is what the store returned, or the store reports an error (having
written or not), the copy becomes the zero task and the answer is
`taskOutcomeUnknownResult`.

Three decisions deserve a word.

- *Audit appends.* An append that precedes a call to another component is part
  of the step of that call. The two commute with everything another request
  does between them, except with appends to and reads of the same chain, and
  the reads that matter (`Root`, then `receipt.issued`) are steps of their own.
  `AuditLog` has every append as a step.
- *GetTask.* The map entry is copied under the lock and what its `Billing`
  pointer refers to is cloned after it, while the closures of `UpdateTask`
  assign through that pointer. It is a data race; the model reads the record in
  one step and its billing part in the next.
- *What a client knows.* A task ID is random, so a cancel can only follow an
  answer that named it, or an effect that did (`EffectNamesTask`; the email
  service stores it with the message).

Not in the model of commit, because nothing checked depends on it: progress,
status reasons, artifacts, the price breakdown beyond whether it adds up, the
modes of billing beyond free or not, invoice and period references.

**DirectInvocation** is `handleInvoke` and `executeDirect`. `plan` is what
`PlanDirect` returned; a request with a key then claims it
(`InvokeBegins`, `InvokeUnavailable`), one without a key goes straight to
`reserve`. `bill`, `charge` and `told` are the local billing record, final price
and result; `record` is `Store.invocations`. `Body` is what the bytes behind a
digest say of billing: an authorization, or a standing arrangement when it names
none. A reservation is asked for under the invocation's ID with the digest of the
body (`direct.go:251`), so an identical request whose key has been given away
again finds by its mandate the hold of the first one (`Reserves`). A reservation
problem is made before `executeDirect` sets the state (251-256), so that the
client is told no state in that case.

| Code | Actions |
|---|---|
| `handleInvoke` before the claim, `validateDirectPlan`, approval | `Plan`, `PlanRefuses` |
| `Begin` | `InvokeBegins`, `InvokeUnavailable` |
| `reserveBilling` | `ReserveFree`, `ReserveOk`, `ReserveRefused`, `ReserveErrs` |
| `ExecuteDirect`, `resolveDirectPrice` | `ExecuteOk`, `ExecuteMisprices`, `ExecuteProblem` |
| the two releases | `Void`, `VoidPrice` (whose error is discarded) |
| `Settle`, sign, `PutInvocation`, `receipt.issued` | `SettleOk`, `SettleErrs`, `Sign`, `PutInvocation`, `Issue` |
| answer and `Complete` | `Returns`, `InvokeCompletes` |
| a panic, which `net/http` ends the connection for | `InvokePanics` |

It shares no code with `handleMutating`, so it is not built on
`MutatingHandler` but compared with it: `Handler` is `INSTANCE
MutatingHandler` with `pc`, `key`, `answer` and the others written in terms of
`at`, `call` and `answer`. A request without a key never reaches the handler of
that view, and a panic, which nothing recovers from, is the handler's recovered
one, because both leave the claim.

**AuditLog** has the log's three operations and every actor that uses them: an
append of a handler (`Write`), the root and the event of a receipt (`ReadRoot`,
`IssueReceipt`, `AbandonReceipt`), the two calls of an audit request
(`ListAudit`, `RootAudit`) and a client that follows the event stream over
connections that end and break (`Open`, `Deliver`, `Close`, `Break`). A hash is
the sequence of the events it covers. `Verify` and `VerifyReceiptAnchor` are
operators of the listing, as in the code.

**AppendOnlyLedger** is what this amounts to: ledgers that grow by a page linked
to the last one, and observers whose copy is a first part that only gets longer.

**FileStore** is `MemoryFileStore` under its routes. `PutFinds` and `PutUploads`
are two steps because the body is read between them; `FindContent` and
`ReadContent` are the two locks of `Content`. The digest of a content is the
content. **Quotes** adds negotiate, prepare and the checks of commit that read
the quote and the clock, one step for each read of clock, files or store; the
service may return any contract. **Money** is the arithmetic of decimals as
pairs of units and scale; `TenTo` is the power of ten, `Totals` in `Quotes` the
loop of `validatePriceComponents`.

## 3. Runs

All in `PROJECT.json`. A run is deadlock-free only in `processor`: elsewhere the
requests are finitely many and the clock is bounded, so behaviours end and
`CHECK_DEADLOCK` is off.

| Run | Instance | What it shows |
|---|---|---|
| `handler` | 3 requests, 2 keys, 2 bodies, retention 1, clock 0..3, backend errors | claims serialize operations, hold until the answer is stored, separate effects by the retention period, and replay only to the same body |
| `processor` | 2 contracts, digests, keys, holds and settlements, 1 mandate, amounts 0..1 | whatever the order of calls: at most one settlement, never after a release; one hold per single-use mandate; refunds add up to at most the charge |
| `commit_cancel` | 1 commit with a variable price, 2 cancels after an answer (so none races with it), all faults and panics, a service that permits any cancel | the record is right about effect, bill, settlement and receipt; a refusal leaves nothing; every step is one of `MutatingHandler` |
| `commit_retry` | a commit, its retry and another body under the key, clock 0..3, faults, panics, an uncertain provider | one effect per key while no quote outlives the retention period |
| `commit_reopened` | a commit and its retry, a quote that outlives the retention period, a third commit under another key, one single-use authorization | the second task of a reopened key shares hold and settlement with the first and says so correctly; the authorization pays under one key |
| `commit_race` | 1 commit, 2 cancels allowed while it runs, processor errors, fairness | even then: charges only for effects; reservations are resolved; an effect stays on the record for good, or on the audit chain where a cancel has covered it |
| `direct` | an invocation and its retry, with the same body, without a key, or with another body; the first body has a single-use authorization, the other is billed to a standing arrangement; variable, free, fixed and invalid plans, the retry's below the first one's ceiling; every fault and a panic, split between the two; clock 0..2; fairness | keyed requests implement `MutatingHandler`; charges are for effects, also when the retry shares the first one's hold; an authorization makes one hold; chains that dropped events still tell the truth; a reservation is charged, given back or reported |
| `audit` | a chain with a writer, 2 receipts, an audit request and a stream with 2 breaks, beside a chain with a writer; a writer and a receipt whose events may be dropped | chains verify, a torn listing is covered by its root, an anchor verifies exactly when nothing came between, the log implements the ledger, every event is streamed |
| `quotes` | a file, 2 uploads with the right or wrong bytes, a download, a negotiation, a prepare and a commit, 7 contracts in scales 0 to 2, clock 0..4 | quotes are within budget to the last digit and their files ready, owned and unexpired; ready files do not change |
| `unknown_outcome`, `failed_invocation`, `stale_files` | the smallest instance of each | counterexamples to what the documents say, section 5 |

Why the bounds are enough. Properties about pairs of requests, holds or keys
need two of each, and a third request to disturb the pair (a conflict, a cancel,
a third key). With retention 1 the tick that completes an answer, the last tick
at which it replays and the first at which it does not all fall into 0..3. With
amounts 0..2 a final price can be below, at and above a ceiling of 1, and with
0..1 a refund can be repeated and exceed a settlement. One commit visits every
branch; the interleavings of two commits on one key are those of their claims.
A torn listing needs an append between two calls, a broken anchor an append
between root and receipt: one writer and two receipts on a chain give both, and
two breaks let a connection break at its first and at a later event. In `quotes`
the life of a ticket (1), of an offer and of a quote (1 or 2) and of a file (3)
end at different ticks of 0..4, so each can expire between any two steps of
prepare; amounts of three scales meet in every comparison and sum. What the
bounds cut off is covered by the proofs of section 4 wherever there is one.

*Fairness.* `FairCommitSpec` and `FairDirectSpec` are weak fairness of the steps
of each request: the Go runtime runs every goroutine that is not blocked, and
every call returns (the assumption about the service and the adapters). Nothing
is assumed of clients, of the clock, or of the outcome of a call; in
`FairCommitSpec` a request need not even be sent. `FairAuditSpec` is weak
fairness of a stream: its client asks again when a connection has ended or
broken, which is what an event source does; connections break at most `MaxBreaks`
times, since nothing can be promised to a client that never stays connected.

Each property has a mutant of the model, a small bug written beside the
definition it replaces ("Mutant: ..."), that makes the property fail.

## 4. Proofs

The theorems hold for any finite or infinite sets of requests, keys, digests,
contracts, holds, mandates, files and chains, any retention and any amounts,
under the `ASSUME`s of the modules, which say that absent values are not values,
that requests are commits or cancels, and what a commit, a cancel, a call and a
quote are. Each module proves `Init => Inv`, one lemma per kind of step, and the
properties from the invariant.

*MutatingHandlerProofs.* The properties are not inductive. `HandlerInv` adds
that an operation that asks for release has no effect (`ReleasersHaveNoEffect`);
that a stored response is that of a finished run with the entry's key and digest
(`StoredResponseIsItsRun`); and that the table remembers an effect after its
request has ended: the claim is held by nobody, or a response that outlives the
retention of the effect is stored, or that retention has passed
(`EffectIsRemembered`). The last one is why a new claim, which needs the old
entry absent or expired, comes late enough.
Theorems: `TypeCorrect`, `MutualExclusion`, `ClaimOwnership`,
`RetentionSeparatesEffects`, `ReplayFidelity`, `ClaimSurvival`.

*MockProcessorProofs.* `BillInv` joins the properties, which need each other,
and adds that only a hold that was made is released or paid for, that a used
mandate records the hold made with it (`MadeHolds`), and that the processor's
running total is what its refunds add up to (`RefundsAddUp`). A sum over the keys
is the cardinality of a set here: `Refunded` has one element for every unit of
every refund, so a refund adds a set of its own size, disjoint from the others.
Theorems: `BillTypeCorrect`, `SettleReleaseExclusion`,
`NoDuplicateSettlement`, `SingleUseMandates`, `RefundsAreCovered`.

*ContractCommitProofs.* `CommitImplementsHandler`: each step of commit and
cancel is a step of `MutatingHandler` or leaves its variables alone. The step
that needs an invariant is the return of an operation: `NothingRecordedYet` says
that until `Reserve` answers nothing is recorded, and that a result that
releases the claim is decided no later.
`CommitImplementsBilling`: each step is a call of `MockProcessor` or leaves its
variables alone; `OperandsKnown` says that the references and amounts a call
passes are those earlier calls returned. With `CommitTypeCorrect` the theorems
of the two parts carry over: `CommitsAreSerialized`, `CommitChargesOnce`.

*CommitOutcomeProofs.* What a commit leaves behind. `OutcomeInv` joins the
invariants of the three modules above and says of each commit (`Outcome`) that
it has made nothing before `Reserve` answers or if it refuses
(`RefusalsAreTrue`), that the provider's effect comes after one the handler
knows of (`EffectsAreDated`), which calls precede and which follow an execution
(`ExecutionIsKnown`), that its hold is for its ceiling and its record states the
processor's settlement and amount (`TaskIsBilled`), and that a failing commit
has given its hold back (`FailureIsClean`). A step is either the commit's own,
and then described by `OwnMove`, or it leaves the commit as it is but for a
cancel that writes "cancelled" (`OwnOrLeftAlone`). Two parts need more than one
commit. `HoldsAreForCeilings`: a hold found by key or by mandate is for the
ceiling of the same contract. `IsAlone`: while a commit is past its validation
no other request of its key has an effect, because one that has ended would be
remembered (`EffectIsRemembered`) and could only be forgotten after the quote's
expiry (`StartsAlone`); that is how the handler's retention, the expiry check at
the head of `commit` and the order of the two make a key buy one effect.
Theorems: `RefusalsLeaveNothing`, `KeysBuyOneEffect`, `ChargesFollowEffects`,
`SuccessIsTrue`, and `FailuresAreResolved` under `~ProviderUncertain`.

*CommitRecordProofs.* What the record of a task says while commit and cancel,
which take no common lock, both write it. `RecordInv` adds to `OutcomeInv` what
the state, the settlement and the receipt on the record are at each call of the
commit (`StateFollowsCall`, `SettlementFollowsCall`, `ReceiptFollowsCall`), that a
cancelled task's hold was given back (`CancelledGaveBack`), and what a cancel
has found (`CancelFinds`): from its checks on, its task is `Quiet`, that is, its
commit has made its last write, it carries no settlement and it neither
succeeded nor failed. A commit is `Active` until then, and while it is, every
copy it works on is the record. So no cancel writes beside a commit, and no
event of a cancel comes between a receipt's root and its announcement. This rests on
`CancelsComeLater`: the service permits no cancel of an accepted or running
task, or nothing names the task before its commit has answered. Without it TLC
finds each of the four properties violated (the race of section 5). The step
proof has two halves, the commit's own step (`CommitRecordMoves`,
`CommitChainMoves`, `CommitCopyMoves`) and a step of anybody else (`OwnOrAside`).
`MandateInv` dates every reservation of a key by the effect of a commit that
made it and says that a commit with a single-use authorization holds only what
was bought with it, under its key (`HoldsCostMandates`). Its hypotheses say that
a reference names an authorization of one usage, and that a key keeps its authorization or
no quote outlives the answers; without the second TLC finds the
reopened key of section 5.
Theorems: `CancelledTasksAreFree`, `ReceiptsAreAnchored`, `ReceiptsAreTrue`,
`FinalStatesStay`, `MandatesBuyOneEffect`.

*DirectInvocationProofs.* `DirectInv` is local to a request where it can be:
`BillFits` (the local bill is the processor's), `Progress` (what has happened
at each call), `Outcomes` (what the record and the answer say) and `ChainIsTrue`
(events that survive a dropped one still say what happened). Across requests it
needs that a hold found by contract and key is the invocation's own, that a hold
is for the ceiling of the invocation that made it and that a mandate leads to a
hold that was made (`HoldsAreOwn`), that a billed invocation with a single-use
authorization holds what the mandate was consumed for, with its own digest and
key (`MandateFits`), and that a claimed key is held (`ClaimsAreHeld`). Two
invocations may share a hold, so a bill says less than it would otherwise: its
ceiling is that of the hold's maker, and a settlement is named by the invocation
that asked for it, of the hold it was given.
Refinement of the handler also needs that a request before its claim has no
answer (`Unanswered`).
Theorems: `DirectTypeCorrect`, `SuccessIsCharged`, `ChargesHaveEffects`,
`AnswersAreRecorded`, `ChainsTellTheTruth`, `MandatesPayOnce`,
`PanicsLockTheirKeys`, `DirectImplementsBilling`, `DirectImplementsHandler`.

*AuditLogProofs.* `AuditInv` says that each chain is linked (`LogIsChained`),
that an event is by its appender and of the kind that appender writes
(`EventsAreTheirAppenders`, `EventsSayWhatTheyAre`), that a root a receipt holds
was once the tip of its chain (`RootsWereTips`), and that listings and streams
are first parts of the chain (`ReadersFollow`, `StreamsFollow`).
Theorems: `AuditTypeCorrect`, `ChainsVerify`, `ListingsAreCovered`,
`StreamsAreParts`, `AnchorsAreExact`, `AuditImplementsLedger`. The ledger's
pages are the events and its observers the readers and streams.

*QuotesProofs.* `FileInv`: what a file holds is what was declared, and what
an upload or a download found stays as found, since a ready file never changes. `QuotesInv`
follows a contract from prepare to commit: `Validate` compared each reference
with a file that was ready, `ValidateQuoteSemantics` bounded the quote's expiry
by the expiry the references state, and neither changes afterwards.
Theorems: `QuotesTypeCorrect`, `DownloadsAreDeclared`, `ReadyFilesAreFinal`,
`QuotesNameSoundFiles`, `CommitsFindTheirFiles`, `QuotesOnlyReadFiles`.
The prices need two more things. `PriceInv` follows the limits: what
`CheckContract` compared holds until the quote is issued, and a stored quote has
the prices of a contract that passed the checks. And the arithmetic has to be
right for all amounts: `TenToAdds` (moving the point by a and then by b places
moves it by their sum), `TrimmedIs` (only zeros are dropped), and from them that
`CompareMoney` and `AddMoney` compare and add the amounts themselves, whatever
their scales (`CompareIsExact`, `AddIsExact`); then, by induction on the
components, that every running total is the exact sum so far (`TotalsAreExact`).
Theorems: `QuotesStayWithinBudgets`, `PricesAddUp`, under `AmountsFit`: the scale
at which the properties compare (`Precision`) is fine enough for every amount.
This is a matter of how the properties are written and restricts nothing: with
18, the limit of `ValidateMoney`, it always holds (`TheFinestScaleFits`). The run
uses 2, since TLC's integers have 32 bits.

*Induction over data.* The library's induction theorems take an operator, which
the installed provers cannot instantiate. `WFMin`, that a set of numbers has a
smallest, takes none: from it `SetInduction` (a set with 0 that is closed under
successor has all numbers) and `RecursiveFunction` (a function may be defined by
a first value and a step, both values) follow, and these carry the powers of ten
and the sums of a breakdown. The model writes them as recursive functions for
that reason: the prover knows no law of `^`.

*Only model-checked.*

- The liveness properties `EffectIsAccountedFor`, `ReservationIsResolved`,
  `ReservationIsReported` and `EverythingIsStreamed`: fairness and `ENABLED` are
  beyond the prover.

`AnswersAreRecorded` is proved and has no run. Everything else the passing runs check, each invariant, each action property and
each refinement, is stated by a theorem, under the hypotheses named above where
it has any.

## 5. Where code and documents differ

Three runs show a disagreement.

- `unknown_outcome`. An answer of unknown outcome completes the claim
  (`server.go:322`), where `billing.go:82`, `idempotency.go:118` and invariant 14
  of `spec/invariants.md` keep it locked for reconciliation. After the retention
  period the key runs the operation again.
- `failed_invocation`. After an invalid price, `executeDirect` discards the error
  of `Release` (`direct.go:292`) and answers with the state failed, which
  `spec/state-machine.md:13` forbids while a billing outcome is unknown. A
  reservation whose outcome is unknown is not such a case: its answer carries no
  state.
- `stale_files`. Commit does not look at the input files (`server.go:595`), as
  `spec/ASCP-0.2.md:417-424` asks. The quote's expiry covers for it only if the
  caller's reference states the file's; when it leaves `expires_at` out, the
  file may be gone.

Seen while modelling, and left to a reader of the code:

- A task can be cancelled after its effect. `spec/state-machine.md:27` defines
  cancelled as "stopped before an uncompensated effect", section 5 there asks for
  reconciliation that is not terminal when a settlement is unknown, and
  `spec/ASCP-0.2.md:601` says that changing a state erases no effect. `cancel`
  (`server.go:1245-1248`) refuses four final states and asks the service about the
  rest: if the service permits it, a task that is `waiting_input` because its
  settlement failed after the effect, one that is disputed, and one whose commit
  is still executing have their hold released and are written as cancelled.
  `commit_race` reaches all of these, and `EffectIsAccountedFor` checks what the
  code does ensure: the audit chain of such a task still tells of the settlement,
  the failed one or the dispute. The email service permits the cancel of an
  accepted or scheduled task only (`internal/email/service.go:455`).
- A failed `UpdateTask` replaces the local task by the zero task, so the answer
  that says "Query the returned task ID" has none (`server.go:664`, 969).
- A receipt that cannot be signed leaves a task that says succeeded without one
  (`server.go:845`, `spec/state-machine.md:28`).
- The receipt of a failed, voided task states the reserved amount as billed
  (`server.go:890`); that of a free task or invocation states the price ceiling
  (`direct.go:403`).
- A reservation found by its key is returned before the authorization is looked
  at (`mock.go:101-104`). If a key is used again after its answer was forgotten,
  for the same contract and with another single-use authorization, that
  authorization is accepted without being consumed, and can pay again under
  another key.
- An identical direct invocation after the retention period that presents the
  same single-use authorization gets the first one's hold and settlement
  (`mock.go:121`), and the provider's effect happens again: one payment, two
  effects. Bound authorizations must name the digest of the body they are in
  (`server.go:1140`, `spec/ASCP-0.2.md:252-256`), which makes this a narrow case;
  the model takes digests as arbitrary.
- If a service permits the cancel of a running task, commit does not look at the
  record again before writing it (`server.go:1256`, 830, 873): a cancelled task
  can be charged, can leave its state, and an event can come between a receipt
  and its root. The email service permits no such cancel.
- A direct retry is planned and checked for approval before its key is looked
  up, so an identical retry may be refused instead of replayed (invariant 13).
- `direct.go:225` advises to "reconcile by invocation ID", but failed and
  unknown invocations are not stored, and a failed one has no receipt.
- `validateDirectPlan` accepts a billed plan that requires no idempotency key
  (invariant 12).
- At the tick at which a file and its quote both expire, the commit is still
  accepted and the file already refused: one comparison is strict.

`FailedIsResolved` is checked, and proved, for providers whose problems are
definite: the `Execute` interface has no way to say "unknown", and the engine
takes each problem for "no effect". `ProviderUncertain` is the constant; the
runs that set it do not check the property.

## 6. What is left

`GetTask`, `handleGetTask` and `handleGetInvocation` are modelled only as far as
another operation depends on them. An abstract specification of a task's life
(states, bill and receipt together) that `ContractCommit` refines would restate
section 5's cancel race as one missing guard. The store's interface could be
given faults of a crash if an implementation that persists appears in the
repository.

## 7. Not modelled

Signatures, canonical JSON, digests, schemas and the validation of single
documents (stateless); authentication and authorization adapters (constant
tables; the verifier's outcome is a choice in `ValidateRefuses`); the email
service's rules for addresses and content (one implementation of the `Service`
interface, which the models leave open); discovery, options and HTTP plumbing
(no shared state); the client, commands, conformance runner, SQL and deployment
files. Crash and restart do not occur in the models because the reference
service keeps everything in memory; backend errors stand for what a durable
implementation of the interfaces may do.
