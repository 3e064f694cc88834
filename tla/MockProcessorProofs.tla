------------------------ MODULE MockProcessorProofs ------------------------
(***************************************************************************)
(* Proofs about MockProcessor for any contracts, keys, holds, mandates and *)
(* amounts.  A client may call the processor in any order.                 *)
(***************************************************************************)
EXTENDS MockProcessor, FiniteSetTheorems, TLAPS

(* Only a hold that was made is settled, released or paid for.             *)
MadeHolds ==
  /\ \A h \in Holds :
       paidWith[h] # None \/ h \in released => hold[h] # NoAmount
  /\ \A h \in Holds :
       paidWith[h] # None => mandateUse[paidWith[h]].hold = h

(* The running total of a settlement is what its refunds add up to.        *)
RefundsAddUp ==
  \A s \in SettleRefs :
    /\ IsFiniteSet(Refunded(s))
    /\ Cardinality(Refunded(s)) = refundedTotal[s]
    /\ refundedTotal[s] > 0 => refundedTotal[s] <= settled[s]

BillInv ==
  /\ BillTypeOK
  /\ MadeHolds
  /\ SettledXorReleased
  /\ OneSettlementPerHold
  /\ MandateConsumedOnce
  /\ RefundsAddUp

(* Every step is one of the five calls that change a map, or changes none. *)
LEMMA EveryStep ==
  ASSUME [BillNext]_billVars
  PROVE  \/ \E c \in Contracts, b \in Bindings, k \in BillKeys,
               auth \in Authorizations, amount \in Amounts, h \in Holds : ReserveNew(c, b, k, auth, amount, h)
         \/ \E h \in Holds, amount \in Amounts, k \in BillKeys, s \in SettleRefs :
               SettleExisting(h, amount, k, s)
         \/ \E h \in Holds, amount \in Amounts, k \in BillKeys, s \in SettleRefs :
               SettleNew(h, amount, k, s)
         \/ \E h \in Holds : ReleaseHold(h)
         \/ \E s \in SettleRefs, amount \in Amounts, k \in BillKeys :
               RefundNew(s, amount, k)
         \/ UNCHANGED billVars
<1>1. CASE Reserving
  BY <1>1 DEF Reserving, ReserveExisting, ReserveDeclined
<1>2. CASE Settling
  BY <1>2 DEF Settling, SettleDeclined
<1>3. CASE Releasing
  BY <1>3 DEF Releasing, ReleaseHoldRefused
<1>4. CASE Refunding
  BY <1>4 DEF Refunding, RefundExisting, RefundRefused
<1>5. QED
  BY <1>1, <1>2, <1>3, <1>4 DEF BillNext

(* Types are preserved by every call.                                      *)
LEMMA BillTypeStep ==
  ASSUME BillTypeOK, [BillNext]_billVars
  PROVE  BillTypeOK'
<1> USE BillingConstants DEF BillTypeOK, Amounts, NoAmount, NoUse, Uses, Authorizations
<1>1. ASSUME NEW c \in Contracts, NEW b \in Bindings, NEW k \in BillKeys,
              NEW auth \in Authorizations, NEW amount \in Amounts,
              NEW h \in Holds, ReserveNew(c, b, k, auth, amount, h)
       PROVE  BillTypeOK'
  <2> USE <1>1 DEF ReserveNew
  <2>1. /\ holdByKey' \in [Contracts -> [BillKeys -> Holds \cup {None}]]
        /\ hold' \in [Holds -> Amounts \cup {NoAmount}]
    OBVIOUS
  <2>2. CASE auth.ref # None /\ auth.usage = "single_use"
    <3>1. auth.ref \in Mandates
      BY <2>2
    <3>2. [binding |-> b, billKey |-> k, hold |-> h] \in Uses
      OBVIOUS
    <3>3. /\ mandateUse' = [mandateUse EXCEPT ![auth.ref] =
                              [binding |-> b, billKey |-> k, hold |-> h]]
          /\ paidWith' = [paidWith EXCEPT ![h] = auth.ref]
      BY <2>2
    <3>4. mandateUse' \in [Mandates -> Uses]
      BY <3>1, <3>2, <3>3
    <3>5. paidWith' \in [Holds -> Mandates \cup {None}]
      BY <3>1, <3>3
    <3>6. QED
      BY <2>1, <3>4, <3>5
  <2>3. CASE ~(auth.ref # None /\ auth.usage = "single_use")
    BY <2>1, <2>3
  <2>4. QED
    BY <2>2, <2>3
<1>2. ASSUME NEW h \in Holds, NEW amount \in Amounts, NEW k \in BillKeys,
              NEW s \in SettleRefs, SettleExisting(h, amount, k, s)
       PROVE  BillTypeOK'
  <2>1. settleByKey' \in [Holds -> [BillKeys -> SettleRefs \cup {None}]]
    <3>1. CASE UNCHANGED settleByKey
      BY <3>1
    <3>2. CASE settleByKey' = [settleByKey EXCEPT ![h][k] = s]
      BY <3>2
    <3>3. QED
      BY <1>2, <3>1, <3>2 DEF SettleExisting
  <2>2. QED
    BY <1>2, <2>1 DEF SettleExisting
<1>3. ASSUME NEW h \in Holds, NEW amount \in Amounts, NEW k \in BillKeys,
              NEW s \in SettleRefs, SettleNew(h, amount, k, s)
       PROVE  BillTypeOK'
  BY <1>3 DEF SettleNew
<1>4. ASSUME NEW h \in Holds, ReleaseHold(h)
       PROVE  BillTypeOK'
  BY <1>4 DEF ReleaseHold
<1>5. ASSUME NEW s \in SettleRefs, NEW amount \in Amounts, NEW k \in BillKeys,
              RefundNew(s, amount, k)
       PROVE  BillTypeOK'
  BY <1>5 DEF RefundNew
<1>6. CASE UNCHANGED billVars
  BY <1>6 DEF billVars
<1>7. QED
  BY <1>1, <1>2, <1>3, <1>4, <1>5, <1>6, EveryStep

(* Holds are never unmade.                                                 *)
LEMMA MadeHoldsStep ==
  ASSUME BillTypeOK, MadeHolds, [BillNext]_billVars
  PROVE  MadeHolds'
<1> USE BillingConstants DEF BillTypeOK, Amounts, NoAmount, NoUse, Uses,
        Authorizations, MadeHolds
<1>1. ASSUME NEW c \in Contracts, NEW b \in Bindings, NEW k \in BillKeys,
              NEW auth \in Authorizations, NEW amount \in Amounts,
              NEW h \in Holds, ReserveNew(c, b, k, auth, amount, h)
       PROVE  MadeHolds'
  <2> USE <1>1 DEF ReserveNew, Consumed
  <2>1. CASE auth.ref # None /\ auth.usage = "single_use"
    <3>1. auth.ref \in Mandates /\ mandateUse[auth.ref] = NoUse
      BY <2>1
    <3>2. \A g \in Holds : paidWith[g] # auth.ref
      BY <3>1
    <3>3. /\ mandateUse' = [mandateUse EXCEPT ![auth.ref] =
                              [binding |-> b, billKey |-> k, hold |-> h]]
          /\ paidWith' = [paidWith EXCEPT ![h] = auth.ref]
      BY <2>1
    <3>4. /\ mandateUse'[auth.ref].hold = h
          /\ \A m \in Mandates \ {auth.ref} : mandateUse'[m] = mandateUse[m]
          /\ paidWith'[h] = auth.ref
          /\ \A g \in Holds \ {h} : paidWith'[g] = paidWith[g]
      BY <3>1, <3>3
    <3>5. hold'[h] # NoAmount /\ \A g \in Holds : hold[g] # NoAmount => hold'[g] # NoAmount
      OBVIOUS
    <3>6. ASSUME NEW g \in Holds, paidWith'[g] # None
          PROVE  mandateUse'[paidWith'[g]].hold = g
      <4>1. CASE g = h
        BY <3>4, <4>1
      <4>2. CASE g # h
        <5>1. paidWith'[g] = paidWith[g] /\ paidWith[g] \in Mandates \ {auth.ref}
          BY <3>2, <3>4, <3>6, <4>2
        <5>2. mandateUse[paidWith[g]].hold = g
          BY <3>6, <5>1
        <5>3. QED
          BY <3>4, <5>1, <5>2
      <4>3. QED
        BY <4>1, <4>2
    <3>7. ASSUME NEW g \in Holds, paidWith'[g] # None \/ g \in released'
          PROVE  hold'[g] # NoAmount
      BY <3>4, <3>5, <3>7
    <3>8. QED
      BY <3>6, <3>7
  <2>2. CASE ~(auth.ref # None /\ auth.usage = "single_use")
    BY <2>2
  <2>3. QED
    BY <2>1, <2>2
<1>2. ASSUME NEW h \in Holds, NEW amount \in Amounts, NEW k \in BillKeys,
              NEW s \in SettleRefs, SettleExisting(h, amount, k, s)
       PROVE  MadeHolds'
  BY <1>2 DEF SettleExisting
<1>3. ASSUME NEW h \in Holds, NEW amount \in Amounts, NEW k \in BillKeys,
              NEW s \in SettleRefs, SettleNew(h, amount, k, s)
       PROVE  MadeHolds'
  BY <1>3 DEF SettleNew
<1>4. ASSUME NEW h \in Holds, ReleaseHold(h)
       PROVE  MadeHolds'
  BY <1>4 DEF ReleaseHold
<1>5. ASSUME NEW s \in SettleRefs, NEW amount \in Amounts, NEW k \in BillKeys,
              RefundNew(s, amount, k)
       PROVE  MadeHolds'
  BY <1>5 DEF RefundNew
<1>6. CASE UNCHANGED billVars
  BY <1>6 DEF billVars
<1>7. QED
  BY <1>1, <1>2, <1>3, <1>4, <1>5, <1>6, EveryStep

(* A consumed mandate makes no second hold.                                *)
LEMMA MandateStep ==
  ASSUME BillTypeOK, MadeHolds, MandateConsumedOnce, [BillNext]_billVars
  PROVE  MandateConsumedOnce'
<1> USE BillingConstants DEF BillTypeOK, Amounts, NoAmount, NoUse, Uses,
        Authorizations, MadeHolds, MandateConsumedOnce
<1>1. ASSUME NEW c \in Contracts, NEW b \in Bindings, NEW k \in BillKeys,
              NEW auth \in Authorizations, NEW amount \in Amounts,
              NEW h \in Holds, ReserveNew(c, b, k, auth, amount, h)
       PROVE  MandateConsumedOnce'
  BY <1>1 DEF ReserveNew, Consumed, UnsupportedUsage, AuthorizationAccepted
<1>2. ASSUME NEW h \in Holds, NEW amount \in Amounts, NEW k \in BillKeys,
              NEW s \in SettleRefs, SettleExisting(h, amount, k, s)
       PROVE  MandateConsumedOnce'
  BY <1>2 DEF SettleExisting
<1>3. ASSUME NEW h \in Holds, NEW amount \in Amounts, NEW k \in BillKeys,
              NEW s \in SettleRefs, SettleNew(h, amount, k, s)
       PROVE  MandateConsumedOnce'
  BY <1>3 DEF SettleNew
<1>4. ASSUME NEW h \in Holds, ReleaseHold(h)
       PROVE  MandateConsumedOnce'
  BY <1>4 DEF ReleaseHold
<1>5. ASSUME NEW s \in SettleRefs, NEW amount \in Amounts, NEW k \in BillKeys,
              RefundNew(s, amount, k)
       PROVE  MandateConsumedOnce'
  BY <1>5 DEF RefundNew
<1>6. CASE UNCHANGED billVars
  BY <1>6 DEF billVars
<1>7. QED
  BY <1>1, <1>2, <1>3, <1>4, <1>5, <1>6, EveryStep

(* Settle refuses a released hold and Release a settled one.               *)
LEMMA ExclusionStep ==
  ASSUME BillTypeOK, MadeHolds, OneSettlementPerHold, SettledXorReleased, [BillNext]_billVars
  PROVE  SettledXorReleased'
<1> USE BillingConstants DEF BillTypeOK, Amounts, NoAmount, MadeHolds,
        OneSettlementPerHold, SettledXorReleased
<1>1. ASSUME NEW c \in Contracts, NEW b \in Bindings, NEW k \in BillKeys,
              NEW auth \in Authorizations, NEW amount \in Amounts,
              NEW h \in Holds, ReserveNew(c, b, k, auth, amount, h)
       PROVE  SettledXorReleased'
  BY <1>1 DEF ReserveNew, Consumed, UnsupportedUsage, AuthorizationAccepted
<1>2. ASSUME NEW h \in Holds, NEW amount \in Amounts, NEW k \in BillKeys,
              NEW s \in SettleRefs, SettleExisting(h, amount, k, s)
       PROVE  SettledXorReleased'
  BY <1>2 DEF SettleExisting
<1>3. ASSUME NEW h \in Holds, NEW amount \in Amounts, NEW k \in BillKeys,
              NEW s \in SettleRefs, SettleNew(h, amount, k, s)
       PROVE  SettledXorReleased'
  BY <1>3 DEF SettleNew
<1>4. ASSUME NEW h \in Holds, ReleaseHold(h)
       PROVE  SettledXorReleased'
  BY <1>4 DEF ReleaseHold
<1>5. ASSUME NEW s \in SettleRefs, NEW amount \in Amounts, NEW k \in BillKeys,
              RefundNew(s, amount, k)
       PROVE  SettledXorReleased'
  BY <1>5 DEF RefundNew
<1>6. CASE UNCHANGED billVars
  BY <1>6 DEF billVars
<1>7. QED
  BY <1>1, <1>2, <1>3, <1>4, <1>5, <1>6, EveryStep

(* The three settlement maps agree.                                        *)
LEMMA SettlementStep ==
  ASSUME BillTypeOK, OneSettlementPerHold, [BillNext]_billVars
  PROVE  OneSettlementPerHold'
<1> USE BillingConstants DEF BillTypeOK, Amounts, NoAmount, OneSettlementPerHold
<1>1. ASSUME NEW c \in Contracts, NEW b \in Bindings, NEW k \in BillKeys,
              NEW auth \in Authorizations, NEW amount \in Amounts,
              NEW h \in Holds, ReserveNew(c, b, k, auth, amount, h)
       PROVE  OneSettlementPerHold'
  BY <1>1 DEF ReserveNew, Consumed, UnsupportedUsage, AuthorizationAccepted
<1>2. ASSUME NEW h \in Holds, NEW amount \in Amounts, NEW k \in BillKeys,
              NEW s \in SettleRefs, SettleExisting(h, amount, k, s)
       PROVE  OneSettlementPerHold'
  <2>1. \A x \in Holds : \A j \in BillKeys :
          settleByKey'[x][j] \in {settleByKey[x][j], settleByHold[x]}
    BY <1>2 DEF SettleExisting
  <2>2. UNCHANGED <<hold, settleByHold, settled>>
    BY <1>2 DEF SettleExisting
  <2>3. QED
    BY <2>1, <2>2
<1>3. ASSUME NEW h \in Holds, NEW amount \in Amounts, NEW k \in BillKeys,
              NEW s \in SettleRefs, SettleNew(h, amount, k, s)
       PROVE  OneSettlementPerHold'
  BY <1>3 DEF SettleNew
<1>4. ASSUME NEW h \in Holds, ReleaseHold(h)
       PROVE  OneSettlementPerHold'
  BY <1>4 DEF ReleaseHold
<1>5. ASSUME NEW s \in SettleRefs, NEW amount \in Amounts, NEW k \in BillKeys,
              RefundNew(s, amount, k)
       PROVE  OneSettlementPerHold'
  BY <1>5 DEF RefundNew
<1>6. CASE UNCHANGED billVars
  BY <1>6 DEF billVars
<1>7. QED
  BY <1>1, <1>2, <1>3, <1>4, <1>5, <1>6, EveryStep

(* A refund adds as many units as it is of, all under its new key.         *)
LEMMA RefundAdds ==
  ASSUME BillTypeOK, NEW s \in SettleRefs, NEW amount \in Amounts, NEW k \in BillKeys,
         RefundNew(s, amount, k), IsFiniteSet(Refunded(s))
  PROVE  /\ IsFiniteSet(Refunded(s)')
         /\ Cardinality(Refunded(s)') = Cardinality(Refunded(s)) + amount
         /\ \A t \in SettleRefs \ {s} : Refunded(t)' = Refunded(t)
<1> DEFINE New == {k} \X (1 .. amount)
<1>1. /\ refund \in [SettleRefs -> [BillKeys -> Amounts \cup {NoAmount}]]
      /\ refund' = [refund EXCEPT ![s][k] = amount]
      /\ refund[s][k] = NoAmount
      /\ amount \in Nat
  BY BillingConstants DEF BillTypeOK, RefundNew, Amounts
<1>2. /\ \A t \in SettleRefs \ {s} : refund'[t] = refund[t]
      /\ \A j \in BillKeys \ {k} : refund'[s][j] = refund[s][j]
      /\ refund'[s][k] = amount
  BY <1>1
<1>3. \A t \in SettleRefs \ {s} : Refunded(t)' = Refunded(t)
  BY <1>2 DEF Refunded
<1>4. 1 .. amount \subseteq Amounts /\ NoAmount = -1
  BY BillingConstants DEF Amounts, NoAmount
<1>5. Refunded(s)' = Refunded(s) \cup New
  <2>1. ASSUME NEW j \in BillKeys, NEW n \in Amounts
        PROVE  <<j, n>> \in Refunded(s)' <=> <<j, n>> \in Refunded(s) \cup New
    BY <1>1, <1>2, <1>4 DEF Refunded, Amounts
  <2>2. New \subseteq BillKeys \X Amounts
    BY <1>4
  <2>3. Refunded(s) \subseteq BillKeys \X Amounts /\ Refunded(s)' \subseteq BillKeys \X Amounts
    BY DEF Refunded
  <2>4. QED
    BY <2>1, <2>2, <2>3
<1>6. Refunded(s) \cap New = {}
  BY <1>1, <1>4 DEF Refunded, Amounts
<1>7. IsFiniteSet(New) /\ Cardinality(New) = amount
  <2>1. IsFiniteSet({k}) /\ Cardinality({k}) = 1
    BY FS_Singleton
  <2>2. IsFiniteSet(1 .. amount) /\ Cardinality(1 .. amount) = amount
    BY <1>1, FS_Interval
  <2>3. \A P, Q : IsFiniteSet(P) /\ IsFiniteSet(Q) =>
          IsFiniteSet(P \X Q) /\ Cardinality(P \X Q) = Cardinality(P) * Cardinality(Q)
    BY FS_Product
  <2>4. IsFiniteSet(New) /\ Cardinality(New) = Cardinality({k}) * Cardinality(1 .. amount)
    BY <2>1, <2>2, <2>3
  <2>5. Cardinality(New) = 1 * amount
    BY <2>1, <2>2, <2>4
  <2>6. QED
    BY <1>1, <2>4, <2>5
<1> HIDE DEF New
<1>8. /\ IsFiniteSet(Refunded(s) \cup New)
      /\ Cardinality(Refunded(s) \cup New) =
           Cardinality(Refunded(s)) + Cardinality(New) - Cardinality(Refunded(s) \cap New)
  BY <1>7, FS_Union
<1>9. Cardinality(Refunded(s)) \in Nat /\ Cardinality({}) = 0
  BY FS_CardinalityType, FS_EmptySet
<1>10. IsFiniteSet(Refunded(s)')
  BY <1>5, <1>8
<1>11. Cardinality(Refunded(s)') = Cardinality(Refunded(s)) + amount
  <2>1. Cardinality(Refunded(s)') = Cardinality(Refunded(s)) + amount - 0
    BY <1>5, <1>6, <1>7, <1>8, <1>9
  <2>2. QED
    BY <1>1, <1>9, <2>1
<1>12. QED
  BY <1>3, <1>10, <1>11

(* Only Refund changes what was given back, and Settle never a settlement  *)
(* that was made.                                                          *)
LEMMA RefundStep ==
  ASSUME BillTypeOK, RefundsAddUp, [BillNext]_billVars
  PROVE  RefundsAddUp'
<1>1. /\ refundedTotal \in [SettleRefs -> Amounts]
      /\ settled \in [SettleRefs -> Amounts \cup {NoAmount}]
      /\ Amounts \subseteq Nat /\ NoAmount = -1
  BY BillingConstants DEF BillTypeOK, Amounts, NoAmount
<1>2. ASSUME UNCHANGED <<refund, refundedTotal>>,
             \A s \in SettleRefs : settled[s] # NoAmount => settled'[s] = settled[s]
      PROVE  RefundsAddUp'
  <2>1. ASSUME NEW s \in SettleRefs
        PROVE  /\ Refunded(s)' = Refunded(s)
               /\ refundedTotal'[s] = refundedTotal[s]
               /\ refundedTotal[s] > 0 => settled'[s] = settled[s]
    <3>1. Refunded(s)' = Refunded(s)
      BY <1>2 DEF Refunded
    <3>2. refundedTotal'[s] = refundedTotal[s]
      BY <1>2
    <3>3. refundedTotal[s] > 0 => settled[s] # NoAmount
      <4>1. refundedTotal[s] > 0 => refundedTotal[s] <= settled[s]
        BY DEF RefundsAddUp
      <4>2. refundedTotal[s] \in Nat /\ NoAmount = -1
        BY <1>1
      <4>3. QED
        BY <4>1, <4>2
    <3>4. QED
      BY <1>2, <3>1, <3>2, <3>3
  <2>2. QED
    BY <2>1 DEF RefundsAddUp
<1>3. ASSUME NEW c \in Contracts, NEW b \in Bindings, NEW k \in BillKeys,
              NEW auth \in Authorizations, NEW amount \in Amounts,
              NEW h \in Holds, ReserveNew(c, b, k, auth, amount, h)
       PROVE  RefundsAddUp'
  BY <1>2, <1>3 DEF ReserveNew
<1>4. ASSUME NEW h \in Holds, NEW amount \in Amounts, NEW k \in BillKeys,
              NEW s \in SettleRefs, SettleExisting(h, amount, k, s)
       PROVE  RefundsAddUp'
  BY <1>2, <1>4 DEF SettleExisting
<1>5. ASSUME NEW h \in Holds, NEW amount \in Amounts, NEW k \in BillKeys,
              NEW s \in SettleRefs, SettleNew(h, amount, k, s)
       PROVE  RefundsAddUp'
  BY <1>1, <1>2, <1>5 DEF SettleNew
<1>6. ASSUME NEW h \in Holds, ReleaseHold(h)
       PROVE  RefundsAddUp'
  BY <1>2, <1>6 DEF ReleaseHold
<1>7. ASSUME NEW s \in SettleRefs, NEW amount \in Amounts, NEW k \in BillKeys,
              RefundNew(s, amount, k)
       PROVE  RefundsAddUp'
  <2>1. /\ UNCHANGED settled
        /\ refundedTotal' = [refundedTotal EXCEPT ![s] = refundedTotal[s] + amount]
        /\ refundedTotal[s] + amount <= settled[s]
    BY <1>7 DEF RefundNew
  <2>2. /\ IsFiniteSet(Refunded(s)')
        /\ Cardinality(Refunded(s)') = Cardinality(Refunded(s)) + amount
        /\ \A t \in SettleRefs \ {s} : Refunded(t)' = Refunded(t)
    BY <1>7, RefundAdds DEF RefundsAddUp
  <2>3. /\ refundedTotal'[s] = refundedTotal[s] + amount
        /\ \A t \in SettleRefs \ {s} : refundedTotal'[t] = refundedTotal[t]
    BY <1>1, <2>1
  <2>4. ASSUME NEW t \in SettleRefs
        PROVE  /\ IsFiniteSet(Refunded(t)')
               /\ Cardinality(Refunded(t)') = refundedTotal'[t]
               /\ refundedTotal'[t] > 0 => refundedTotal'[t] <= settled'[t]
    <3>1. CASE t = s
      BY <2>1, <2>2, <2>3, <3>1 DEF RefundsAddUp
    <3>2. CASE t # s
      BY <2>1, <2>2, <2>3, <3>2 DEF RefundsAddUp
    <3>3. QED
      BY <3>1, <3>2
  <2>5. QED
    BY <2>4 DEF RefundsAddUp
<1>8. CASE UNCHANGED billVars
  BY <1>2, <1>8 DEF billVars
<1>9. QED
  BY <1>3, <1>4, <1>5, <1>6, <1>7, <1>8, EveryStep

(* The processor starts with empty maps.                                   *)
LEMMA BillInitInv == BillInit => BillInv
<1> SUFFICES ASSUME BillInit
             PROVE  BillInv
  OBVIOUS
<1>1. /\ BillTypeOK /\ MadeHolds /\ SettledXorReleased /\ OneSettlementPerHold
      /\ MandateConsumedOnce
  BY BillingConstants
  DEF BillInit, BillTypeOK, Amounts, NoAmount, NoUse, Uses, MadeHolds,
      SettledXorReleased, OneSettlementPerHold, MandateConsumedOnce
<1>2. ASSUME NEW s \in SettleRefs
      PROVE  Refunded(s) = {} /\ refundedTotal[s] = 0
  BY BillingConstants DEF BillInit, Refunded, Amounts, NoAmount
<1>3. RefundsAddUp
  BY <1>2, FS_EmptySet DEF RefundsAddUp
<1>4. QED
  BY <1>1, <1>3 DEF BillInv

(* Every call preserves the invariant.                                     *)
LEMMA BillStep == BillInv /\ [BillNext]_billVars => BillInv'
  BY BillTypeStep, MadeHoldsStep, MandateStep, ExclusionStep, SettlementStep,
     RefundStep
  DEF BillInv

(* So it holds of every client.                                            *)
LEMMA BillInductive == BillSpec => []BillInv
  BY BillInitInv, BillStep, PTL DEF BillSpec

(* The processor's maps keep their types.                                  *)
THEOREM BillTypeCorrect == BillSpec => []BillTypeOK
<1>1. BillInv => BillTypeOK
  BY DEF BillInv
<1>2. QED
  BY BillInductive, <1>1, PTL

(* No order of Settle and Release both charges a hold and gives it back.   *)
THEOREM SettleReleaseExclusion == BillSpec => []SettledXorReleased
<1>1. BillInv => SettledXorReleased
  BY DEF BillInv
<1>2. QED
  BY BillInductive, <1>1, PTL

(* Repeated settlement, under any keys, charges a hold once and never more *)
(* than it reserved.                                                       *)
THEOREM NoDuplicateSettlement == BillSpec => []OneSettlementPerHold
<1>1. BillInv => OneSettlementPerHold
  BY DEF BillInv
<1>2. QED
  BY BillInductive, <1>1, PTL

(* A single-use authorization pays for at most one hold.                   *)
THEOREM SingleUseMandates == BillSpec => []MandateConsumedOnce
<1>1. BillInv => MandateConsumedOnce
  BY DEF BillInv
<1>2. QED
  BY BillInductive, <1>1, PTL

(* The refunds of a settlement, under whatever keys, never add up to more  *)
(* than was charged.                                                       *)
THEOREM RefundsAreCovered == BillSpec => []RefundsWithinSettlement
<1>1. BillInv => RefundsWithinSettlement
  <2> SUFFICES ASSUME BillInv, NEW s \in SettleRefs, Refunded(s) # {}
               PROVE  Cardinality(Refunded(s)) <= settled[s]
    BY DEF RefundsWithinSettlement
  <2>1. /\ IsFiniteSet(Refunded(s)) /\ Cardinality(Refunded(s)) = refundedTotal[s]
        /\ refundedTotal[s] > 0 => refundedTotal[s] <= settled[s]
    BY DEF BillInv, RefundsAddUp
  <2>2. Cardinality(Refunded(s)) \in Nat /\ Cardinality(Refunded(s)) # 0
    BY <2>1, FS_CardinalityType, FS_EmptySet
  <2>3. QED
    BY <2>1, <2>2
<1>2. QED
  BY BillInductive, <1>1, PTL

=============================================================================
