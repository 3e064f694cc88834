---------------------------- MODULE MockProcessor ----------------------------
(***************************************************************************)
(* The billing processor of pkg/billing/mock.go, the implementation of     *)
(* billing.Processor the repository ships.  Each call runs under the       *)
(* processor's mutex and is one action: Reserve has three outcomes (a new  *)
(* hold, an existing hold, declined), Settle three, Release two, Refund    *)
(* three.  Identifiers made by ascp.MustNewID are any unused reference.    *)
(* Money has one currency here; amounts are natural numbers of its unit.   *)
(***************************************************************************)
EXTENDS Integers, FiniteSets

CONSTANTS
  Contracts,   \* contract or invocation IDs
  Bindings,    \* digests of what the caller approved: a quote, or the body of
               \* a direct request
  BillKeys,    \* billing idempotency keys
  Holds,       \* references of reservations
  SettleRefs,  \* references of settlements
  Mandates,    \* BillingAuthorization.AuthorizationRef values
  MaxAmount,   \* largest amount of the model (a bound)
  None         \* the missing map entry, and the missing authorization

ASSUME BillingConstants ==
  /\ MaxAmount \in Nat
  /\ None \notin Holds \cup SettleRefs \cup Mandates

VARIABLES
  holdByKey,        \* reservationsByKey
  hold,             \* reservationsByRef: the reserved amount, or NoAmount
  mandateUse,       \* mandateUse
  settleByKey,      \* settlementsByKey
  settleByHold,     \* settlementByHold
  settled,          \* settlementsByRef: the settled amount, or NoAmount
  refund,           \* refundsByKey: the refunded amount, or NoAmount
  refundedTotal,    \* refundedTotals
  released,         \* released
  paidWith          \* the single-use mandate a hold was made with (history)

billVars == <<holdByKey, hold, mandateUse, settleByKey, settleByHold, settled,
              refund, refundedTotal, released, paidWith>>

-----------------------------------------------------------------------------

NoAmount == -1
Amounts == 0 .. MaxAmount

NoUse == [binding |-> None, billKey |-> None, hold |-> None]

(* A per-call authorization; without one the reference is None and nothing *)
(* is checked.  "bound" stands for the checks of mode, audience, binding   *)
(* digest, expiry, arrangement and reference prefix.                       *)
Authorizations ==
  [ref : Mandates \cup {None}, usage : {"single_use", "reusable", "other"},
   maximum : Amounts, bound : BOOLEAN]

BillInit ==
  /\ holdByKey = [c \in Contracts |-> [k \in BillKeys |-> None]]
  /\ hold = [h \in Holds |-> NoAmount]
  /\ mandateUse = [m \in Mandates |-> NoUse]
  /\ settleByKey = [h \in Holds |-> [k \in BillKeys |-> None]]
  /\ settleByHold = [h \in Holds |-> None]
  /\ settled = [s \in SettleRefs |-> NoAmount]
  /\ refund = [s \in SettleRefs |-> [k \in BillKeys |-> NoAmount]]
  /\ refundedTotal = [s \in SettleRefs |-> 0]
  /\ released = {}
  /\ paidWith = [h \in Holds |-> None]

-----------------------------------------------------------------------------
(* Reserve                                                                 *)

AuthorizationAccepted(auth, amount) == auth.bound /\ auth.maximum >= amount

Consumed(auth) ==
  /\ auth.ref # None
  /\ auth.usage = "single_use"
  /\ mandateUse[auth.ref] # NoUse

(* The call asks with the digest and the key of the one that consumed the  *)
(* mandate; it may be another contract's or invocation's.                  *)
SameUse(auth, b, k) ==
  /\ Consumed(auth)
  /\ mandateUse[auth.ref].binding = b
  /\ mandateUse[auth.ref].billKey = k

UnsupportedUsage(auth) == auth.ref # None /\ auth.usage = "other"

(* A repeated call gets the hold it made, whatever became of it since.     *)
ReserveExisting(c, b, k, auth, amount, h) ==
  /\ AuthorizationAccepted(auth, amount)
  /\ h \in Holds
  /\ \/ holdByKey[c][k] = h
     \/ holdByKey[c][k] = None /\ SameUse(auth, b, k) /\ mandateUse[auth.ref].hold = h
  /\ UNCHANGED billVars

(* Mutant: mandateUse is written but not looked up.                        *)
ReserveNewUsed(c, b, k, auth, amount, h) ==
  /\ AuthorizationAccepted(auth, amount)
  /\ holdByKey[c][k] = None
  /\ hold[h] = NoAmount
  /\ hold' = [hold EXCEPT ![h] = amount]
  /\ holdByKey' = [holdByKey EXCEPT ![c][k] = h]
  /\ paidWith' = [paidWith EXCEPT ![h] = auth.ref]
  /\ UNCHANGED <<mandateUse, settleByKey, settleByHold, settled, refund,
                 refundedTotal, released>>

ReserveNew(c, b, k, auth, amount, h) ==
  /\ AuthorizationAccepted(auth, amount)
  /\ holdByKey[c][k] = None
  /\ ~UnsupportedUsage(auth)
  /\ ~Consumed(auth)
  /\ hold[h] = NoAmount
  /\ hold' = [hold EXCEPT ![h] = amount]
  /\ holdByKey' = [holdByKey EXCEPT ![c][k] = h]
  /\ IF auth.ref # None /\ auth.usage = "single_use"
     THEN /\ mandateUse' = [mandateUse EXCEPT ![auth.ref] =
                              [binding |-> b, billKey |-> k, hold |-> h]]
          /\ paidWith' = [paidWith EXCEPT ![h] = auth.ref]
     ELSE UNCHANGED <<mandateUse, paidWith>>
  /\ UNCHANGED <<settleByKey, settleByHold, settled, refund, refundedTotal, released>>

ReserveDeclined(c, b, k, auth, amount) ==
  /\ \/ ~AuthorizationAccepted(auth, amount)
     \/ /\ holdByKey[c][k] = None
        /\ \/ UnsupportedUsage(auth)
           \/ Consumed(auth) /\ ~SameUse(auth, b, k)
  /\ UNCHANGED billVars

-----------------------------------------------------------------------------
(* Settle                                                                  *)

SettleExisting(h, amount, k, s) ==
  /\ s \in SettleRefs
  /\ \/ settleByKey[h][k] = s /\ UNCHANGED settleByKey
     \/ /\ settleByKey[h][k] = None
        /\ settleByHold[h] = s
        /\ settled[s] = amount
        /\ settleByKey' = [settleByKey EXCEPT ![h][k] = s]
  /\ UNCHANGED <<holdByKey, hold, mandateUse, settleByHold, settled, refund,
                 refundedTotal, released, paidWith>>

(* Mutant: only the key is looked up, not the hold's settlement.           *)
SettleNewPerKey(h, amount, k, s) ==
  /\ settleByKey[h][k] = None
  /\ hold[h] # NoAmount /\ h \notin released /\ hold[h] >= amount
  /\ settled[s] = NoAmount
  /\ settled' = [settled EXCEPT ![s] = amount]
  /\ settleByKey' = [settleByKey EXCEPT ![h][k] = s]
  /\ settleByHold' = [settleByHold EXCEPT ![h] = s]
  /\ UNCHANGED <<holdByKey, hold, mandateUse, refund, refundedTotal, released, paidWith>>

SettleNew(h, amount, k, s) ==
  /\ settleByKey[h][k] = None
  /\ settleByHold[h] = None
  /\ hold[h] # NoAmount
  /\ h \notin released
  /\ hold[h] >= amount
  /\ settled[s] = NoAmount
  /\ settled' = [settled EXCEPT ![s] = amount]
  /\ settleByKey' = [settleByKey EXCEPT ![h][k] = s]
  /\ settleByHold' = [settleByHold EXCEPT ![h] = s]
  /\ UNCHANGED <<holdByKey, hold, mandateUse, refund, refundedTotal, released, paidWith>>

SettleDeclined(h, amount, k) ==
  /\ settleByKey[h][k] = None
  /\ \/ settleByHold[h] # None /\ settled[settleByHold[h]] # amount
     \/ /\ settleByHold[h] = None
        /\ hold[h] = NoAmount \/ h \in released \/ hold[h] < amount
  /\ UNCHANGED billVars

-----------------------------------------------------------------------------
(* Release and Refund                                                      *)

(* Mutant: a settled hold is given back.                                   *)
ReleaseSettled(h) ==
  /\ hold[h] # NoAmount
  /\ released' = released \cup {h}
  /\ UNCHANGED <<holdByKey, hold, mandateUse, settleByKey, settleByHold, settled,
                 refund, refundedTotal, paidWith>>

ReleaseHold(h) ==
  /\ hold[h] # NoAmount
  /\ settleByHold[h] = None
  /\ released' = released \cup {h}
  /\ UNCHANGED <<holdByKey, hold, mandateUse, settleByKey, settleByHold, settled,
                 refund, refundedTotal, paidWith>>

ReleaseHoldRefused(h) ==
  /\ hold[h] = NoAmount \/ settleByHold[h] # None
  /\ UNCHANGED billVars

RefundExisting(s, k) ==
  /\ refund[s][k] # NoAmount
  /\ UNCHANGED billVars

(* Mutant: each refund alone is compared with the settlement.              *)
RefundNewAlone(s, amount, k) ==
  /\ refund[s][k] = NoAmount
  /\ settled[s] # NoAmount
  /\ amount <= settled[s]
  /\ refund' = [refund EXCEPT ![s][k] = amount]
  /\ refundedTotal' = [refundedTotal EXCEPT ![s] = @ + amount]
  /\ UNCHANGED <<holdByKey, hold, mandateUse, settleByKey, settleByHold, settled,
                 released, paidWith>>

RefundNew(s, amount, k) ==
  /\ refund[s][k] = NoAmount
  /\ settled[s] # NoAmount
  /\ refundedTotal[s] + amount <= settled[s]
  /\ refund' = [refund EXCEPT ![s][k] = amount]
  /\ refundedTotal' = [refundedTotal EXCEPT ![s] = @ + amount]
  /\ UNCHANGED <<holdByKey, hold, mandateUse, settleByKey, settleByHold, settled,
                 released, paidWith>>

RefundRefused(s, amount, k) ==
  /\ refund[s][k] = NoAmount
  /\ settled[s] = NoAmount \/ refundedTotal[s] + amount > settled[s]
  /\ UNCHANGED billVars

-----------------------------------------------------------------------------
(* Any client of the processor, in any order                               *)

Reserving ==
  \E c \in Contracts, b \in Bindings, k \in BillKeys, auth \in Authorizations,
     amount \in Amounts :
    \/ \E h \in Holds : ReserveExisting(c, b, k, auth, amount, h)
    \/ \E h \in Holds : ReserveNew(c, b, k, auth, amount, h)
    \/ ReserveDeclined(c, b, k, auth, amount)

Settling ==
  \E h \in Holds, amount \in Amounts, k \in BillKeys :
    \/ \E s \in SettleRefs : SettleExisting(h, amount, k, s)
    \/ \E s \in SettleRefs : SettleNew(h, amount, k, s)
    \/ SettleDeclined(h, amount, k)

Releasing ==
  \E h \in Holds : ReleaseHold(h) \/ ReleaseHoldRefused(h)

Refunding ==
  \E s \in SettleRefs, amount \in Amounts, k \in BillKeys :
    \/ RefundExisting(s, k)
    \/ RefundNew(s, amount, k)
    \/ RefundRefused(s, amount, k)

BillNext == Reserving \/ Settling \/ Releasing \/ Refunding

BillSpec == BillInit /\ [][BillNext]_billVars

-----------------------------------------------------------------------------

Uses == [binding : Bindings \cup {None}, billKey : BillKeys \cup {None},
         hold : Holds \cup {None}]

(* Type invariant of the processor's maps.                                 *)
BillTypeOK ==
  /\ holdByKey \in [Contracts -> [BillKeys -> Holds \cup {None}]]
  /\ hold \in [Holds -> Amounts \cup {NoAmount}]
  /\ mandateUse \in [Mandates -> Uses]
  /\ settleByKey \in [Holds -> [BillKeys -> SettleRefs \cup {None}]]
  /\ settleByHold \in [Holds -> SettleRefs \cup {None}]
  /\ settled \in [SettleRefs -> Amounts \cup {NoAmount}]
  /\ refund \in [SettleRefs -> [BillKeys -> Amounts \cup {NoAmount}]]
  /\ refundedTotal \in [SettleRefs -> Amounts]
  /\ released \subseteq Holds
  /\ paidWith \in [Holds -> Mandates \cup {None}]

(* A hold is charged or given back, never both, in whatever order Settle   *)
(* and Release of different requests reach the processor.                  *)
SettledXorReleased ==
  \A h \in Holds : settleByHold[h] # None => h \notin released

(* However often and under however many keys a hold is settled, there is   *)
(* one settlement of it, made of a real hold, for at most its amount; and  *)
(* no settlement stands for two holds.                                     *)
OneSettlementPerHold ==
  /\ \A h \in Holds :
       /\ \A k \in BillKeys : settleByKey[h][k] \in {None, settleByHold[h]}
       /\ settleByHold[h] # None =>
            /\ hold[h] # NoAmount
            /\ settled[settleByHold[h]] \in 0 .. hold[h]
  /\ \A g, h \in Holds :
       settleByHold[g] = settleByHold[h] /\ settleByHold[g] # None => g = h

(* A single-use authorization pays for one hold only, whatever contracts   *)
(* and keys it is presented with.                                          *)
MandateConsumedOnce ==
  \A g, h \in Holds :
    paidWith[g] = paidWith[h] /\ paidWith[g] # None => g = h

(* What was given back for a settlement, unit by unit, each with the key   *)
(* of its refund.                                                          *)
Refunded(s) ==
  {unit \in BillKeys \X Amounts : 0 < unit[2] /\ unit[2] <= refund[s][unit[1]]}

(* The refunds a client was promised never add up to more than what was    *)
(* charged ("No duplicate settlement and no over-settlement or             *)
(* over-refund"): repeated calls count once, distinct keys accumulate.     *)
RefundsWithinSettlement ==
  \A s \in SettleRefs : Refunded(s) # {} => Cardinality(Refunded(s)) <= settled[s]

=============================================================================
