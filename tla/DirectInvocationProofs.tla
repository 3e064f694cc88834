----------------------- MODULE DirectInvocationProofs -----------------------
(***************************************************************************)
(* Proofs about DirectInvocation for any invocations, keys, plans and      *)
(* faults: what a direct invocation answers, stores and logs is what it    *)
(* did; its keyed requests implement the request handler, and what it      *)
(* calls implements the billing processor.                                 *)
(***************************************************************************)
EXTENDS DirectInvocation, MockProcessorProofs, SequenceTheorems

-----------------------------------------------------------------------------
(* The inductive invariant                                                 *)

(* From its claim to the completion a request has its key for itself, and  *)
(* a panic leaves it with it.                                              *)
Claims(r) == Keyed(r) /\ at[r] \in Running \cup {"return", "complete", "panicked"}

ClaimsAreHeld ==
  /\ \A r \in Invocations : Claims(r) => Held(call[r].key)
  /\ \A r, s \in Invocations :
       Claims(r) /\ Claims(s) /\ call[r].key = call[s].key => r = s
  /\ \A r \in Invocations : at[r] \in {"begin", "complete"} => Keyed(r)

(* An invocation makes one hold, of its plan's ceiling, and finds it again *)
(* by its key; a mandate leads to a hold that was made.                    *)
KeysAreOwn ==
  \A c \in Contracts, k \in BillKeys :
    holdByKey[c][k] # None => holdByKey[c][k] = c /\ hold[c] # NoAmount

HoldsAreCeilings == \A h \in Holds : hold[h] # NoAmount => hold[h] = plan[h].ceiling

MandatesAreMade ==
  \A m \in Mandates : mandateUse[m].hold # None => hold[mandateUse[m].hold] # NoAmount

HoldsAreOwn == KeysAreOwn /\ HoldsAreCeilings /\ MandatesAreMade

(* Nothing has been done before Reserve.                                   *)
Untouched(r) ==
  /\ bill[r] = NoBill
  /\ effectAt[r] = Never
  /\ audit[r] = <<>>
  /\ hold[r] = NoAmount

(* The billing record against the plan and the processor.                  *)
BillFits(r) ==
  /\ bill[r].state = "none" => bill[r].hold = None
  /\ bill[r].state = "not_billed" => plan[r].free /\ bill[r].hold = None
  /\ bill[r].state \notin {"none", "not_billed"} =>
       ~plan[r].free /\ bill[r].hold \in Holds /\ hold[bill[r].hold] # NoAmount
  /\ bill[r].state = "settled" =>
       /\ bill[r].settlement \in SettleRefs
       /\ settleByHold[bill[r].hold] = bill[r].settlement
       /\ settled[bill[r].settlement] = bill[r].amount
       /\ bill[r].amount # NoAmount
       /\ bill[r].amount <= plan[bill[r].hold].ceiling

(* An invocation billed to a single-use mandate holds what the mandate was *)
(* used for, and asked for it as it was asked for first.                   *)
UseOf(r) == [binding |-> call[r].digest, billKey |-> BillingKey(r), hold |-> bill[r].hold]

MandateFits(r) ==
  bill[r].hold # None /\ PaysSingleUse(r) => mandateUse[AuthOf(r).ref] = UseOf(r)

(* What is known at each call of executeDirect.                            *)
Progress(r) ==
  /\ at[r] \in {"plan", "refused", "begin", "reserve"} => Untouched(r)
  /\ at[r] \in {"plan", "refused", "begin"} \cup Running => told[r] = Untold
  /\ at[r] \in {"plan", "refused", "begin", "reserve", "execute", "void", "void_price", "settle"}
     => record[r] = NoRecord
  /\ at[r] = "execute" => bill[r].state \in {"not_billed", "reserved"} /\ effectAt[r] = Never
  /\ at[r] \in {"void", "void_price", "settle"} => bill[r].state = "reserved"
  /\ at[r] \in {"plan", "refused", "begin", "reserve", "execute", "void", "void_price", "settle"}
     => settled[r] = NoAmount
  /\ at[r] = "settle" => effectAt[r] # Never /\ charge[r] \in Amounts
  /\ at[r] \in {"sign", "put", "issue"} =>
       effectAt[r] # Never /\ bill[r].state \in {"not_billed", "settled", "settlement_pending"}
  /\ at[r] = "issue" => record[r] = Response(r)

(* What has been answered, stored and charged agrees with what was done.   *)
Outcomes(r) ==
  /\ settled[r] # NoAmount =>
       /\ effectAt[r] # Never /\ told[r].state # "failed"
       /\ bill[r].hold \in Holds /\ settleByHold[bill[r].hold] = r
  /\ told[r].state = "succeeded" \/ record[r].state = "succeeded" =>
       effectAt[r] # Never /\ bill[r].state \in {"not_billed", "settled"}
  /\ told[r].kind = "response" => record[r] = [state |-> told[r].state, bill |-> bill[r]]

(* What an event says of the invocation.                                   *)
TellsTruth(r, event) ==
  /\ event = "settled" => bill[r].state = "settled"
  /\ event = "succeeded" => effectAt[r] # Never
  /\ event = "failed" => bill[r].hold = None \/ bill[r].hold \in released
  /\ event = "receipt" => record[r] # NoRecord

ChainIsTrue(r) == \A i \in DOMAIN audit[r] : TellsTruth(r, audit[r][i])

LocalInv(r) ==
  BillFits(r) /\ MandateFits(r) /\ Progress(r) /\ Outcomes(r) /\ ChainIsTrue(r)

DirectInv ==
  /\ DirectTypeOK
  /\ BillInv
  /\ HoldsAreOwn
  /\ ClaimsAreHeld
  /\ \A r \in Invocations : LocalInv(r)

-----------------------------------------------------------------------------
(* Initially                                                               *)

(* No request has been planned and the processor is empty.                 *)
LEMMA DirectInitially == DirectInit => DirectInv
<1> SUFFICES ASSUME DirectInit PROVE DirectInv
  OBVIOUS
<1> USE DirectConstants, BillingConstants, IdempotencyConstants
<1>1. BillInv
  BY BillInitInv DEF DirectInit
<1>2. DirectTypeOK
  <2>1. IdemTypeOK
    BY DEF DirectInit, IdemInit, IdemTypeOK, NoEntry, Entry, ClaimStatus
  <2>2. NoBill \in Bills
    BY DEF NoBill, Bills, NoAmount
  <2>3. /\ at \in [Invocations -> Calls]
        /\ effectAt \in [Invocations -> {Never} \cup 0 .. MaxTime]
        /\ bill \in [Invocations -> Bills]
        /\ charge \in [Invocations -> Amounts \cup {NoAmount}]
    BY <2>2 DEF DirectInit, Calls
  <2>4. <<>> \in Seq(AuditTypes)
    OBVIOUS
  <2>5. audit \in [Invocations -> Seq(AuditTypes)]
    BY <2>4 DEF DirectInit
  <2>6. record \in [Invocations -> [state : InvocationStates, bill : Bills]]
    BY <2>2 DEF DirectInit, NoRecord, InvocationStates
  <2>7. told \in [Invocations -> [kind : {"none", "response", "problem", "unknown"},
                                  state : InvocationStates]]
    BY DEF DirectInit, Untold, InvocationStates
  <2>8. answer \in [Invocations -> [kind : {"none", "replay", "conflict", "in_progress",
                                            "unavailable", "result", "unknown"},
                                    from : Responses \cup {NoResponse}]]
    BY DEF DirectInit, NoAnswer
  <2>9. call \in [Invocations -> DirectCalls] /\ plan \in [Invocations -> DirectPlans]
    BY DEF DirectInit
  <2>10. BillTypeOK
    BY <1>1 DEF BillInv
  <2>11. QED
    BY <2>1, <2>3, <2>5, <2>6, <2>7, <2>8, <2>9, <2>10 DEF DirectTypeOK
<1>3. HoldsAreOwn
  BY DEF DirectInit, BillInit, HoldsAreOwn, KeysAreOwn, HoldsAreCeilings, MandatesAreMade, NoUse
<1>4. ClaimsAreHeld
  BY DEF DirectInit, ClaimsAreHeld, Claims, Running
<1>5. ASSUME NEW r \in Invocations PROVE LocalInv(r)
  <2>1. /\ at[r] = "plan" /\ bill[r] = NoBill /\ effectAt[r] = Never /\ audit[r] = <<>>
        /\ hold[r] = NoAmount /\ settled[r] = NoAmount /\ told[r] = Untold /\ record[r] = NoRecord
    BY DEF DirectInit, BillInit
  <2>2. BillFits(r)
    BY <2>1 DEF BillFits, NoBill
  <2>3. Progress(r)
    BY <2>1 DEF Progress, Untouched
  <2>4. Outcomes(r)
    BY <2>1 DEF Outcomes, Untold, NoRecord
  <2>5. ChainIsTrue(r)
    BY <2>1 DEF ChainIsTrue
  <2>6. MandateFits(r)
    BY <2>1 DEF MandateFits, NoBill
  <2>7. QED
    BY <2>2, <2>3, <2>4, <2>5, <2>6 DEF LocalInv
<1>6. QED
  BY <1>1, <1>2, <1>3, <1>4, <1>5 DEF DirectInv

-----------------------------------------------------------------------------
(* Types                                                                   *)

Answered == [kind : {"none", "response", "problem", "unknown"}, state : InvocationStates]
Records == [state : InvocationStates, bill : Bills]

(* The variables executeDirect assigns.                                    *)
ExecutionTypes ==
  /\ at \in [Invocations -> Calls]
  /\ effectAt \in [Invocations -> {Never} \cup 0 .. MaxTime]
  /\ bill \in [Invocations -> Bills]
  /\ charge \in [Invocations -> Amounts \cup {NoAmount}]
  /\ audit \in [Invocations -> Seq(AuditTypes)]
  /\ record \in [Invocations -> Records]
  /\ told \in [Invocations -> Answered]

(* The slots of another request stay.                                      *)
OthersStay(r) ==
  \A s \in Invocations \ {r} :
    /\ at'[s] = at[s]
    /\ effectAt'[s] = effectAt[s]
    /\ bill'[s] = bill[s]
    /\ charge'[s] = charge[s]
    /\ audit'[s] = audit[s]
    /\ record'[s] = record[s]
    /\ told'[s] = told[s]

(* Writing one slot of a table.                                            *)
LEMMA OneSlot ==
  ASSUME NEW S, NEW T, NEW f \in [S -> T], NEW s \in S, NEW v \in T
  PROVE  /\ [f EXCEPT ![s] = v] \in [S -> T]
         /\ \A t \in S \ {s} : [f EXCEPT ![s] = v][t] = f[t]
  OBVIOUS

(* An append adds some of its events and keeps the others.                 *)
LEMMA LogGives ==
  ASSUME NEW r \in Invocations, audit \in [Invocations -> Seq(AuditTypes)],
         NEW events \in Seq(AuditTypes), Log(r, events)
  PROVE  /\ audit' \in [Invocations -> Seq(AuditTypes)]
         /\ \A s \in Invocations \ {r} : audit'[s] = audit[s]
         /\ \A i \in DOMAIN audit'[r] :
              \/ \E j \in DOMAIN audit[r] : audit'[r][i] = audit[r][j]
              \/ \E j \in DOMAIN events : audit'[r][i] = events[j]
<1>1. PICK kept \in Kept(r, events) : audit' = [audit EXCEPT ![r] = audit[r] \o kept]
  BY DEF Log
<1>2. kept \in Seq(AuditTypes) /\ \A i \in DOMAIN kept : \E j \in DOMAIN events : kept[i] = events[j]
  <2>1. \/ kept = events
        \/ kept = <<>>
        \/ \E i \in DOMAIN events : kept = <<events[i]>>
    BY Zenon DEF Kept
  <2>2. CASE \E i \in DOMAIN events : kept = <<events[i]>>
    <3>1. PICK i \in DOMAIN events : kept = <<events[i]>>
      BY <2>2
    <3>2. events[i] \in AuditTypes
      OBVIOUS
    <3>3. QED
      BY <3>1, <3>2
  <2>3. CASE kept = <<>>
    <3>1. kept \in Seq(AuditTypes)
      BY <2>3
    <3>2. DOMAIN kept = {}
      BY <2>3
    <3>3. QED
      BY <3>1, <3>2
  <2>4. CASE kept = events
    BY <2>4
  <2>5. QED
    BY <2>1, <2>2, <2>3, <2>4, Zenon
<1>3. audit[r] \o kept \in Seq(AuditTypes)
  BY <1>2
<1>4. ASSUME NEW i \in DOMAIN (audit[r] \o kept)
      PROVE  \/ \E j \in DOMAIN audit[r] : (audit[r] \o kept)[i] = audit[r][j]
             \/ \E j \in DOMAIN kept : (audit[r] \o kept)[i] = kept[j]
  <2>1. audit[r] \in Seq(AuditTypes)
    OBVIOUS
  <2>2. /\ Len(audit[r]) \in Nat /\ Len(kept) \in Nat
        /\ DOMAIN audit[r] = 1 .. Len(audit[r]) /\ DOMAIN kept = 1 .. Len(kept)
        /\ i \in 1 .. Len(audit[r]) + Len(kept)
    BY <1>2, <1>3, <2>1, LenProperties, ConcatProperties
  <2>3. CASE i <= Len(audit[r])
    BY <1>2, <2>1, <2>2, <2>3, ConcatProperties
  <2>4. CASE ~(i <= Len(audit[r]))
    <3>1. i - Len(audit[r]) \in DOMAIN kept
      BY <2>2, <2>4
    <3>2. (audit[r] \o kept)[i] = kept[i - Len(audit[r])]
      BY <1>2, <2>1, <2>2, <2>4, ConcatProperties
    <3>3. QED
      BY <3>1, <3>2
  <2>5. QED
    BY <2>3, <2>4
<1>5. audit'[r] = audit[r] \o kept
  BY <1>1
<1>6. /\ audit' \in [Invocations -> Seq(AuditTypes)]
      /\ \A s \in Invocations \ {r} : audit'[s] = audit[s]
  BY <1>1, <1>3, OneSlot
<1>7. ASSUME NEW i \in DOMAIN audit'[r]
      PROVE  \/ \E j \in DOMAIN audit[r] : audit'[r][i] = audit[r][j]
             \/ \E j \in DOMAIN events : audit'[r][i] = events[j]
  <2>1. i \in DOMAIN (audit[r] \o kept) /\ audit'[r][i] = (audit[r] \o kept)[i]
    BY <1>5
  <2>2. CASE \E j \in DOMAIN audit[r] : (audit[r] \o kept)[i] = audit[r][j]
    BY <2>1, <2>2, Zenon
  <2>3. ASSUME NEW j \in DOMAIN kept, (audit[r] \o kept)[i] = kept[j]
        PROVE  \E n \in DOMAIN events : audit'[r][i] = events[n]
    <3>1. PICK n \in DOMAIN events : kept[j] = events[n]
      BY <1>2, Zenon
    <3>2. QED
      BY <2>1, <2>3, <3>1, Zenon
  <2>4. QED
    BY <1>4, <2>1, <2>2, <2>3, Zenon
<1>8. QED
  BY <1>6, <1>7, Zenon

(* The events of executeDirect are typed.                                  *)
LEMMA EventTypes ==
  /\ <<"accepted", "reserved">> \in Seq(AuditTypes)
  /\ \A e \in AuditTypes : <<e>> \in Seq(AuditTypes)
  BY DEF AuditTypes

(* The billing records executeDirect makes are typed.                      *)
LEMMA BillTypes ==
  ASSUME NEW amount \in Amounts \cup {NoAmount}, NEW h \in Holds, NEW s \in SettleRefs,
         NEW b \in Bills, NEW state \in {"released", "settlement_pending"}
  PROVE  /\ NotBilled(amount) \in Bills
         /\ Reserved(h, amount) \in Bills
         /\ SettledAs(b, s, amount) \in Bills
         /\ [b EXCEPT !.state = state] \in Bills
  BY DEF NotBilled, Reserved, SettledAs, Bills

(* Each call of executeDirect keeps the types, and touches no slot of      *)
(* another request.                                                        *)
LEMMA ExecutionKeepsTypes ==
  ASSUME DirectTypeOK, NEW r \in Invocations, Execution(r),
         at[r] = "settle" => bill[r].hold \in Holds
  PROVE  /\ ExecutionTypes'
         /\ OthersStay(r)
         /\ UNCHANGED <<entries, now, call, plan, answer>>
         /\ at[r] \in Running /\ at'[r] \in Running \cup {"return"}
<1>0. /\ ExecutionTypes
      /\ plan[r] \in DirectPlans /\ bill[r] \in Bills
      /\ plan[r].ceiling \in Amounts /\ plan[r].price \in Amounts
      /\ now \in 0 .. MaxTime /\ BillTypeOK
      /\ audit \in [Invocations -> Seq(AuditTypes)]
  <2>1. plan \in [Invocations -> DirectPlans] /\ bill \in [Invocations -> Bills]
    BY DEF DirectTypeOK
  <2>2. ExecutionTypes /\ now \in 0 .. MaxTime /\ BillTypeOK
    BY DEF DirectTypeOK, ExecutionTypes, IdemTypeOK, Answered, Records
  <2>3. plan[r] \in DirectPlans /\ bill[r] \in Bills
    BY <2>1
  <2>4. plan[r].ceiling \in Amounts /\ plan[r].price \in Amounts
    BY <2>3 DEF DirectPlans
  <2>5. QED
    BY <2>2, <2>3, <2>4 DEF ExecutionTypes
<1>1. \A c \in Running \cup {"return"} : c \in Calls
  BY DEF Calls
<1>2. ASSUME at[r] \in Running,
             \E to \in Running \cup {"return"} : at' = [at EXCEPT ![r] = to],
             bill' = bill \/ \E b \in Bills : bill' = [bill EXCEPT ![r] = b],
             effectAt' = effectAt \/ effectAt' = [effectAt EXCEPT ![r] = now],
             \/ charge' = charge
             \/ \E c \in Amounts \cup {NoAmount} : charge' = [charge EXCEPT ![r] = c],
             record' = record \/ \E rec \in Records : record' = [record EXCEPT ![r] = rec],
             told' = told \/ \E t \in Answered : told' = [told EXCEPT ![r] = t],
             audit' = audit \/ \E events \in Seq(AuditTypes) : Log(r, events),
             UNCHANGED <<entries, now, call, plan, answer>>
      PROVE  /\ ExecutionTypes'
             /\ OthersStay(r)
             /\ UNCHANGED <<entries, now, call, plan, answer>>
             /\ at[r] \in Running /\ at'[r] \in Running \cup {"return"}
  <2>1. /\ audit' \in [Invocations -> Seq(AuditTypes)]
        /\ \A s \in Invocations \ {r} : audit'[s] = audit[s]
    BY <1>0, <1>2, LogGives
  <2>2. /\ at' \in [Invocations -> Calls] /\ at'[r] \in Running \cup {"return"}
        /\ \A s \in Invocations \ {r} : at'[s] = at[s]
    BY <1>0, <1>1, <1>2 DEF ExecutionTypes
  <2>3. /\ bill' \in [Invocations -> Bills]
        /\ \A s \in Invocations \ {r} : bill'[s] = bill[s]
    <3>1. bill \in [Invocations -> Bills]
      BY <1>0 DEF ExecutionTypes
    <3>2. CASE bill' = bill
      BY <3>1, <3>2
    <3>3. CASE \E b \in Bills : bill' = [bill EXCEPT ![r] = b]
      BY <3>1, <3>3, OneSlot
    <3>4. QED
      BY <1>2, <3>2, <3>3
  <2>4. /\ effectAt' \in [Invocations -> {Never} \cup 0 .. MaxTime]
        /\ \A s \in Invocations \ {r} : effectAt'[s] = effectAt[s]
    BY <1>0, <1>2 DEF ExecutionTypes
  <2>5. /\ charge' \in [Invocations -> Amounts \cup {NoAmount}]
        /\ \A s \in Invocations \ {r} : charge'[s] = charge[s]
    BY <1>0, <1>2 DEF ExecutionTypes
  <2>6. /\ record' \in [Invocations -> Records]
        /\ \A s \in Invocations \ {r} : record'[s] = record[s]
    <3>1. record \in [Invocations -> Records]
      BY <1>0 DEF ExecutionTypes
    <3>2. CASE record' = record
      BY <3>1, <3>2
    <3>3. CASE \E rec \in Records : record' = [record EXCEPT ![r] = rec]
      BY <3>1, <3>3, OneSlot
    <3>4. QED
      BY <1>2, <3>2, <3>3
  <2>7. /\ told' \in [Invocations -> Answered]
        /\ \A s \in Invocations \ {r} : told'[s] = told[s]
    <3>1. told \in [Invocations -> Answered]
      BY <1>0 DEF ExecutionTypes
    <3>2. CASE told' = told
      BY <3>1, <3>2
    <3>3. CASE \E t \in Answered : told' = [told EXCEPT ![r] = t]
      BY <3>1, <3>3, OneSlot
    <3>4. QED
      BY <1>2, <3>2, <3>3
  <2>8. QED
    BY <1>2, <2>1, <2>2, <2>3, <2>4, <2>5, <2>6, <2>7 DEF ExecutionTypes, OthersStay
<1>3. /\ bill[r] \in Bills /\ effectAt[r] \in {Never} \cup 0 .. MaxTime
      /\ now \in {Never} \cup 0 .. MaxTime /\ charge[r] \in Amounts \cup {NoAmount}
      /\ record[r] \in Records /\ told[r] \in Answered
  BY <1>0 DEF ExecutionTypes
<1>4. ASSUME NEW kind \in {"problem", "unknown", "response"}, NEW state \in InvocationStates
      PROVE  [kind |-> kind, state |-> state] \in Answered
  BY DEF Answered
<1>5. Outcome(r) \in InvocationStates /\ Outcome(r) \in AuditTypes
  BY DEF Outcome, InvocationStates, AuditTypes
<1>6. Response(r) \in Records
  BY <1>3, <1>5 DEF Response, Records
<1>7. \A reported \in Amounts \cup {NoAmount} :
        FinalPrice(plan[r], reported) \in Amounts \cup {NoAmount}
  BY <1>0 DEF FinalPrice
<1>8. {"none", "failed", "accepted", "succeeded"} \subseteq InvocationStates
      /\ {"accepted", "failed", "settled", "settlement_pending", "receipt"} \subseteq AuditTypes
      /\ {"reserve", "execute", "void", "void_price", "settle", "sign", "put", "issue"} = Running
  BY DEF InvocationStates, AuditTypes, Running
<1> USE <1>0, <1>3, <1>8, EventTypes DEF Outside, Goto, Result
<1> HIDE DEF ExecutionTypes, OthersStay
<1>9. CASE ReserveFree(r)
  <2>1. NotBilled(plan[r].ceiling) \in Bills
    BY DEF NotBilled, Bills
  <2>2. QED
    BY <1>2, <1>9, <2>1 DEF ReserveFree
<1>10. CASE ReserveOk(r)
  <2>1. PICK h \in Holds :
          Reserves(r, h) /\ bill' = [bill EXCEPT ![r] = Reserved(h, hold'[h])]
    BY <1>10 DEF ReserveOk
  <2>2. hold'[h] \in Amounts \cup {NoAmount}
    BY <2>1 DEF Reserves, ReserveExisting, ReserveNew, BillTypeOK, billVars
  <2>3. Reserved(h, hold'[h]) \in Bills
    BY <2>2 DEF Reserved, Bills
  <2>4. QED
    BY <1>2, <1>10, <2>1, <2>3 DEF ReserveOk
<1>11. CASE ReserveRefused(r)
  BY <1>2, <1>4, <1>11 DEF ReserveRefused
<1>12. CASE ReserveErrs(r)
  BY <1>2, <1>4, <1>12 DEF ReserveErrs
<1>13. CASE ExecuteOk(r)
  BY <1>2, <1>7, <1>13 DEF ExecuteOk, Performs
<1>14. CASE ExecuteMisprices(r)
  BY <1>2, <1>4, <1>14 DEF ExecuteMisprices, Performs
<1>15. CASE ExecuteProblem(r)
  BY <1>2, <1>4, <1>15 DEF ExecuteProblem, Performs
<1>16. CASE Void(r)
  <2>1. [bill[r] EXCEPT !.state = "released"] \in Bills
    BY DEF Bills
  <2>2. bill' = bill \/ bill' = [bill EXCEPT ![r] = [bill[r] EXCEPT !.state = "released"]]
    BY <1>16 DEF Void
  <2>3. QED
    BY <1>2, <1>4, <1>16, <2>1, <2>2 DEF Void
<1>17. CASE VoidPrice(r)
  BY <1>2, <1>4, <1>17 DEF VoidPrice
<1>18. CASE SettleOk(r)
  <2>1. PICK s \in SettleRefs :
          Settles(r, s) /\ bill' = [bill EXCEPT ![r] = SettledAs(bill[r], s, settled'[s])]
    BY <1>18 DEF SettleOk
  <2>2. charge[r] \in Amounts \cup {NoAmount}
    OBVIOUS
  <2>3. settled'[s] \in Amounts \cup {NoAmount}
    BY <2>1, <2>2 DEF Settles, SettleExisting, SettleNew, BillTypeOK
  <2>4. SettledAs(bill[r], s, settled'[s]) \in Bills
    BY <2>3 DEF SettledAs, Bills
  <2>5. QED
    BY <1>2, <1>18, <2>1, <2>4 DEF SettleOk
<1>19. CASE SettleErrs(r)
  <2>1. [bill[r] EXCEPT !.state = "settlement_pending"] \in Bills
    BY DEF Bills
  <2>2. bill' = [bill EXCEPT ![r] = [bill[r] EXCEPT !.state = "settlement_pending"]]
    BY <1>19 DEF SettleErrs
  <2>3. QED
    BY <1>2, <1>19, <2>1, <2>2 DEF SettleErrs
<1>20. CASE Sign(r)
  BY <1>2, <1>4, <1>5, <1>20 DEF Sign
<1>21. CASE PutInvocation(r)
  BY <1>2, <1>4, <1>5, <1>6, <1>21 DEF PutInvocation
<1>22. CASE Issue(r)
  BY <1>2, <1>4, <1>5, <1>22 DEF Issue
<1>23. QED
  BY <1>9, <1>10, <1>11, <1>12, <1>13, <1>14, <1>15, <1>16, <1>17, <1>18, <1>19, <1>20,
     <1>21, <1>22 DEF Execution

-----------------------------------------------------------------------------
(* The calls to the processor                                              *)

CallsProcessor(r) ==
  \/ UNCHANGED billVars
  \/ at[r] = "reserve" /\ \E h \in Holds : Reserves(r, h)
  \/ at[r] = "settle" /\ \E s \in SettleRefs : Settles(r, s)
  \/ at[r] \in {"void", "void_price"} /\ ReleaseHold(bill[r].hold)

(* executeDirect changes the processor at three of its calls only.         *)
LEMMA ExecutionCallsProcessor ==
  ASSUME NEW r \in Invocations, Execution(r)
  PROVE  CallsProcessor(r)
<1> USE DEF CallsProcessor, Goto, Result
<1>1. CASE ReserveFree(r)
  BY <1>1 DEF ReserveFree
<1>2. CASE ReserveOk(r)
  BY <1>2 DEF ReserveOk
<1>3. CASE ReserveRefused(r)
  BY <1>3 DEF ReserveRefused, ReserveDeclined
<1>4. CASE ReserveErrs(r)
  BY <1>4 DEF ReserveErrs
<1>5. CASE ExecuteOk(r) \/ ExecuteMisprices(r) \/ ExecuteProblem(r)
  BY <1>5 DEF ExecuteOk, ExecuteMisprices, ExecuteProblem
<1>6. CASE Void(r)
  BY <1>6 DEF Void, ReleaseErrs, ReleaseHoldRefused
<1>7. CASE VoidPrice(r)
  BY <1>7 DEF VoidPrice, ReleaseErrs, ReleaseHoldRefused
<1>8. CASE SettleOk(r)
  BY <1>8 DEF SettleOk
<1>9. CASE SettleErrs(r)
  BY <1>9 DEF SettleErrs, SettleDeclined
<1>10. CASE Sign(r) \/ PutInvocation(r) \/ Issue(r)
  BY <1>10 DEF Sign, PutInvocation, Issue
<1>11. QED
  BY <1>1, <1>2, <1>3, <1>4, <1>5, <1>6, <1>7, <1>8, <1>9, <1>10 DEF Execution

(* The key and authorization of a request are the processor's.             *)
LEMMA Operands ==
  ASSUME DirectTypeOK, NEW r \in Invocations
  PROVE  /\ r \in Contracts /\ r \in Holds /\ r \in SettleRefs /\ r # None
         /\ BillingKey(r) \in BillKeys
         /\ call[r].digest \in Bindings
         /\ AuthOf(r) \in Authorizations
         /\ plan[r].ceiling \in Amounts
<1>1. call[r] \in DirectCalls /\ plan[r] \in DirectPlans
  BY DEF DirectTypeOK
<1>2. BillingKey(r) \in BillKeys
  BY <1>1, DirectConstants DEF BillingKey, Keyed, DirectCalls
<1>3. call[r].digest \in Bindings /\ Body[call[r].digest] \in [auth : Authorizations, approvedUntil : Nat]
  BY <1>1, DirectConstants DEF DirectCalls
<1>4. AuthOf(r) \in Authorizations
  BY <1>3 DEF AuthOf
<1>5. QED
  BY <1>1, <1>2, <1>3, <1>4, DirectConstants DEF DirectPlans

(* A request that has no hold yet is given one that was made, of the       *)
(* ceiling of the request that made it; by a single-use mandate it is the  *)
(* hold of the request's body and key.                                     *)
LEMMA OwnReserve ==
  ASSUME DirectTypeOK, BillInv, HoldsAreOwn, NEW r \in Invocations, NEW h \in Holds,
         Reserves(r, h), hold[r] = NoAmount, UNCHANGED plan
  PROVE  /\ [BillNext]_billVars
         /\ HoldsAreOwn'
         /\ UNCHANGED <<settleByHold, settled, released>>
         /\ hold'[h] # NoAmount
         /\ \A o \in Holds : hold[o] # NoAmount => hold'[o] # NoAmount
         /\ \A o \in Invocations \ {r} : hold'[o] = hold[o]
         /\ \A m \in Mandates : mandateUse[m].hold # None => mandateUse'[m] = mandateUse[m]
         /\ PaysSingleUse(r) => mandateUse'[AuthOf(r).ref] =
              [binding |-> call[r].digest, billKey |-> BillingKey(r), hold |-> h]
<1> DEFINE k == BillingKey(r)
           d == call[r].digest
           auth == AuthOf(r)
           amount == plan[r].ceiling
           use == [binding |-> d, billKey |-> k, hold |-> h]
<1>0. /\ r \in Contracts /\ r \in Holds /\ r # None /\ k \in BillKeys /\ d \in Bindings
      /\ auth \in Authorizations /\ amount \in Amounts /\ h # None
      /\ BillTypeOK
  BY Operands, BillingConstants DEF BillInv
<1>1. ReserveExisting(r, d, k, auth, amount, h) \/ (h = r /\ ReserveNew(r, d, k, auth, amount, h))
  BY DEF Reserves
<1>2. [BillNext]_billVars
  BY <1>0, <1>1 DEF BillNext, Reserving
<1>3. auth.ref \in Mandates \cup {None}
  BY <1>0 DEF Authorizations
<1>4. PaysSingleUse(r) <=> auth.ref # None /\ auth.usage = "single_use"
  BY DEF PaysSingleUse
<1>5. mandateUse \in [Mandates -> Uses]
  BY <1>0 DEF BillTypeOK
<1> HIDE DEF k, d, auth, amount
<1>6. CASE ReserveExisting(r, d, k, auth, amount, h)
  <2>1. UNCHANGED billVars
    BY <1>6 DEF ReserveExisting
  <2>2. UNCHANGED <<holdByKey, settleByHold, settled, released, hold, mandateUse>>
    BY <2>1 DEF billVars
  <2>3. holdByKey[r][k] = None
    BY <1>0 DEF HoldsAreOwn, KeysAreOwn
  <2>4. SameUse(auth, d, k) /\ mandateUse[auth.ref].hold = h
    BY <1>0, <1>6, <2>3 DEF ReserveExisting
  <2>5. /\ auth.ref \in Mandates
        /\ mandateUse[auth.ref].binding = d /\ mandateUse[auth.ref].billKey = k
    BY <1>3, <2>4 DEF SameUse, Consumed
  <2>6. mandateUse[auth.ref] = use
    <3>1. mandateUse[auth.ref] \in Uses
      BY <1>5, <2>5
    <3>2. QED
      BY <2>4, <2>5, <3>1 DEF Uses
  <2>7. hold[h] # NoAmount
    BY <1>0, <2>4, <2>5 DEF HoldsAreOwn, MandatesAreMade
  <2>8. HoldsAreOwn'
    BY <2>2 DEF HoldsAreOwn, KeysAreOwn, HoldsAreCeilings, MandatesAreMade
  <2>9. QED
    BY <1>2, <2>2, <2>6, <2>7, <2>8 DEF auth, k, d
<1>7. CASE h = r /\ ReserveNew(r, d, k, auth, amount, h)
  <2>1. /\ holdByKey' = [holdByKey EXCEPT ![r][k] = r]
        /\ hold' = [hold EXCEPT ![r] = amount]
        /\ UNCHANGED <<settleByHold, settled, released>>
    BY <1>7 DEF ReserveNew
  <2>2. /\ hold'[r] = amount /\ hold'[r] # NoAmount
        /\ \A s \in Holds \ {r} : hold'[s] = hold[s]
    BY <1>0, <2>1, BillingConstants DEF BillTypeOK, Amounts, NoAmount
  <2>3. \A c \in Contracts, j \in BillKeys :
          holdByKey'[c][j] = holdByKey[c][j] \/ (c = r /\ holdByKey'[c][j] = r)
    BY <1>0, <2>1 DEF BillTypeOK
  <2>4. KeysAreOwn'
    BY <2>2, <2>3, DirectConstants DEF HoldsAreOwn, KeysAreOwn
  <2>5. HoldsAreCeilings'
    BY <2>2 DEF HoldsAreOwn, HoldsAreCeilings, amount
  <2>6. /\ \A m \in Mandates : mandateUse[m].hold # None => mandateUse'[m] = mandateUse[m]
        /\ PaysSingleUse(r) => mandateUse'[auth.ref] = use
        /\ \A m \in Mandates : mandateUse'[m] = mandateUse[m] \/ mandateUse'[m] = use
    <3>1. CASE PaysSingleUse(r)
      <4>1. auth.ref \in Mandates /\ mandateUse[auth.ref] = NoUse
        BY <1>3, <1>4, <1>7, <3>1 DEF ReserveNew, Consumed
      <4>2. mandateUse' = [mandateUse EXCEPT ![auth.ref] = use]
        BY <1>4, <1>7, <3>1 DEF ReserveNew
      <4>3. /\ mandateUse'[auth.ref] = use
            /\ \A m \in Mandates \ {auth.ref} : mandateUse'[m] = mandateUse[m]
        BY <1>5, <4>1, <4>2
      <4>4. mandateUse[auth.ref].hold = None
        BY <4>1 DEF NoUse
      <4>5. QED
        BY <4>3, <4>4
    <3>2. CASE ~PaysSingleUse(r)
      BY <1>4, <1>7, <3>2 DEF ReserveNew
    <3>3. QED
      BY <3>1, <3>2
  <2>7. MandatesAreMade'
    <3>1. ASSUME NEW m \in Mandates, mandateUse'[m].hold # None
          PROVE  hold'[mandateUse'[m].hold] # NoAmount
      <4>1. CASE mandateUse'[m] = use
        BY <1>7, <2>2, <4>1
      <4>2. CASE mandateUse'[m] = mandateUse[m]
        <5>1. mandateUse[m].hold \in Holds
          BY <1>5, <3>1, <4>2 DEF Uses
        <5>2. hold[mandateUse[m].hold] # NoAmount
          BY <3>1, <4>2 DEF HoldsAreOwn, MandatesAreMade
        <5>3. QED
          BY <2>2, <4>2, <5>1, <5>2
      <4>3. QED
        BY <2>6, <4>1, <4>2
    <3>2. QED
      BY <3>1 DEF MandatesAreMade
  <2>8. HoldsAreOwn'
    BY <2>4, <2>5, <2>7 DEF HoldsAreOwn
  <2>9. \A o \in Invocations \ {r} : hold'[o] = hold[o]
    BY <2>2, DirectConstants
  <2>10. \A o \in Holds : hold[o] # NoAmount => hold'[o] # NoAmount
    BY <2>2
  <2>11. PaysSingleUse(r) => mandateUse'[AuthOf(r).ref] =
              [binding |-> call[r].digest, billKey |-> BillingKey(r), hold |-> h]
    BY <2>6 DEF auth, k, d
  <2>12. hold'[h] # NoAmount
    BY <1>7, <2>2
  <2>13. QED
    BY <1>2, <2>1, <2>6, <2>8, <2>9, <2>10, <2>11, <2>12
<1>8. QED
  BY <1>1, <1>6, <1>7

(* Settle gives the one settlement of the hold, an earlier invocation's,   *)
(* or a new one that is named like the request.                            *)
LEMMA OwnSettle ==
  ASSUME DirectTypeOK, BillInv, HoldsAreOwn, NEW r \in Invocations, NEW s \in SettleRefs,
         Settles(r, s), bill[r].hold \in Holds, charge[r] \in Amounts, settled[r] = NoAmount,
         UNCHANGED plan
  PROVE  /\ [BillNext]_billVars
         /\ HoldsAreOwn'
         /\ UNCHANGED <<released, hold, mandateUse>>
         /\ settleByHold'[bill[r].hold] = s
         /\ settled'[s] # NoAmount /\ settled'[s] <= plan[bill[r].hold].ceiling
         /\ settled'[r] # NoAmount => settleByHold'[bill[r].hold] = r
         /\ \A h \in Holds : settleByHold[h] # None => settleByHold'[h] = settleByHold[h]
         /\ \A t \in SettleRefs : settled[t] # NoAmount => settled'[t] = settled[t]
         /\ \A o \in Invocations \ {r} : settled'[o] = settled[o]
<1> DEFINE k == BillingKey(r)
           h == bill[r].hold
<1>0. /\ h \in Holds /\ r \in SettleRefs /\ r # None /\ k \in BillKeys /\ s # None
      /\ BillTypeOK /\ OneSettlementPerHold
  BY Operands, BillingConstants DEF BillInv
<1> HIDE DEF k, h
<1>1. \/ SettleExisting(h, charge[r], k, s)
      \/ s = r /\ SettleNew(h, charge[r], k, s)
  BY DEF Settles, h, k
<1>2. [BillNext]_billVars
  BY <1>0, <1>1 DEF BillNext, Settling
<1>3. UNCHANGED <<holdByKey, hold, mandateUse, released>>
  BY <1>1 DEF SettleExisting, SettleNew
<1>4. HoldsAreOwn'
  BY <1>3 DEF HoldsAreOwn, KeysAreOwn, HoldsAreCeilings, MandatesAreMade
<1>5. /\ settleByHold'[h] = s
      /\ settled'[r] # NoAmount => settleByHold'[h] = r
      /\ \A g \in Holds : settleByHold[g] # None => settleByHold'[g] = settleByHold[g]
      /\ \A t \in SettleRefs : settled[t] # NoAmount => settled'[t] = settled[t]
      /\ \A o \in SettleRefs \ {r} : settled'[o] = settled[o]
  <2>1. CASE SettleExisting(h, charge[r], k, s)
    <3>1. UNCHANGED <<settleByHold, settled>>
      BY <2>1 DEF SettleExisting
    <3>2. settleByKey[h][k] \in {None, settleByHold[h]}
      BY <1>0 DEF OneSettlementPerHold
    <3>3. settleByHold[h] = s
      BY <1>0, <2>1, <3>2 DEF SettleExisting
    <3>4. QED
      BY <3>1, <3>3
  <2>2. CASE s = r /\ SettleNew(h, charge[r], k, s)
    <3>1. /\ settled' = [settled EXCEPT ![r] = charge[r]]
          /\ settleByHold' = [settleByHold EXCEPT ![h] = r]
          /\ settleByHold[h] = None
      BY <2>2 DEF SettleNew
    <3>2. /\ settleByHold'[h] = r
          /\ \A g \in Holds \ {h} : settleByHold'[g] = settleByHold[g]
          /\ \A o \in SettleRefs \ {r} : settled'[o] = settled[o]
      BY <1>0, <3>1 DEF BillTypeOK
    <3>3. QED
      BY <2>2, <3>1, <3>2
  <2>3. QED
    BY <1>1, <2>1, <2>2
<1>6. settled'[s] # NoAmount /\ settled'[s] <= plan[h].ceiling
  <2>1. OneSettlementPerHold' /\ BillTypeOK'
    BY <1>2, BillStep DEF BillInv
  <2>2. hold'[h] # NoAmount /\ settled'[s] \in 0 .. hold'[h]
    BY <1>0, <1>5, <2>1 DEF OneSettlementPerHold
  <2>3. hold'[h] = plan[h].ceiling /\ hold'[h] \in Nat
    BY <1>0, <1>4, <2>1, <2>2, BillingConstants
    DEF HoldsAreOwn, HoldsAreCeilings, BillTypeOK, Amounts, NoAmount
  <2>4. QED
    BY <2>2, <2>3 DEF NoAmount
<1>7. QED
  BY <1>2, <1>3, <1>4, <1>5, <1>6, DirectConstants DEF h

(* Release gives a hold back.                                              *)
LEMMA OwnRelease ==
  ASSUME HoldsAreOwn, NEW h \in Holds, ReleaseHold(h), UNCHANGED plan
  PROVE  /\ [BillNext]_billVars
         /\ HoldsAreOwn'
         /\ released' = released \cup {h}
         /\ UNCHANGED <<settleByHold, settled, hold, mandateUse>>
<1>1. [BillNext]_billVars
  BY DEF BillNext, Releasing
<1>2. /\ UNCHANGED <<holdByKey, hold, mandateUse, settleByHold, settled>>
      /\ released' = released \cup {h}
  BY DEF ReleaseHold
<1>3. HoldsAreOwn'
  BY <1>2 DEF HoldsAreOwn, KeysAreOwn, HoldsAreCeilings, MandatesAreMade
<1>4. QED
  BY <1>1, <1>2, <1>3

(* What a step of one request leaves of the processor.                     *)
LeavesTheRest(r) ==
  /\ released \subseteq released'
  /\ \A o \in Holds : hold[o] # NoAmount => hold'[o] # NoAmount
  /\ \A m \in Mandates : mandateUse[m].hold # None => mandateUse'[m] = mandateUse[m]
  /\ \A h \in Holds : settleByHold[h] # None => settleByHold'[h] = settleByHold[h]
  /\ \A s \in SettleRefs : settled[s] # NoAmount => settled'[s] = settled[s]
  /\ at[r] # "settle" => UNCHANGED settled
  /\ \A o \in Invocations \ {r} : hold'[o] = hold[o] /\ settled'[o] = settled[o]

(* executeDirect keeps the plan it was given.                              *)
LEMMA ExecutionKeepsPlan ==
  ASSUME NEW r \in Invocations, Execution(r)
  PROVE  UNCHANGED plan
<1>1. CASE ReserveFree(r) \/ ReserveOk(r) \/ ReserveRefused(r) \/ ReserveErrs(r)
  BY <1>1 DEF ReserveFree, ReserveOk, ReserveRefused, ReserveErrs, Outside
<1>2. CASE ExecuteOk(r) \/ ExecuteMisprices(r) \/ ExecuteProblem(r)
  BY <1>2 DEF ExecuteOk, ExecuteMisprices, ExecuteProblem, Outside
<1>3. CASE Void(r) \/ VoidPrice(r) \/ SettleOk(r) \/ SettleErrs(r)
  BY <1>3 DEF Void, VoidPrice, SettleOk, SettleErrs, Outside
<1>4. CASE Sign(r) \/ PutInvocation(r) \/ Issue(r)
  BY <1>4 DEF Sign, PutInvocation, Issue, Outside
<1>5. QED
  BY <1>1, <1>2, <1>3, <1>4 DEF Execution

(* A step of a request is a call to the processor, about its own hold.     *)
LEMMA ProcessorStep ==
  ASSUME DirectInv, NEW r \in Invocations, Execution(r)
  PROVE  [BillNext]_billVars /\ BillInv' /\ HoldsAreOwn' /\ LeavesTheRest(r)
<1>0. DirectTypeOK /\ BillInv /\ HoldsAreOwn /\ BillFits(r) /\ Progress(r)
  BY DEF DirectInv, LocalInv
<1>1. UNCHANGED plan
  BY ExecutionKeepsPlan
<1>2. [BillNext]_billVars /\ HoldsAreOwn' /\ LeavesTheRest(r)
  <2>1. CASE UNCHANGED billVars
    <3>1. UNCHANGED <<holdByKey, hold, mandateUse, settleByHold, settled, released>>
      BY <2>1 DEF billVars
    <3>2. HoldsAreOwn'
      BY <1>0, <1>1, <3>1 DEF HoldsAreOwn, KeysAreOwn, HoldsAreCeilings, MandatesAreMade
    <3>3. QED
      BY <2>1, <3>1, <3>2 DEF LeavesTheRest
  <2>2. ASSUME at[r] = "reserve", NEW h \in Holds, Reserves(r, h)
        PROVE  [BillNext]_billVars /\ HoldsAreOwn' /\ LeavesTheRest(r)
    <3>1. hold[r] = NoAmount
      BY <1>0, <2>2 DEF Progress, Untouched
    <3>2. QED
      BY <1>0, <1>1, <2>2, <3>1, OwnReserve DEF LeavesTheRest
  <2>3. ASSUME at[r] = "settle", NEW s \in SettleRefs, Settles(r, s)
        PROVE  [BillNext]_billVars /\ HoldsAreOwn' /\ LeavesTheRest(r)
    <3>1. bill[r].hold \in Holds /\ charge[r] \in Amounts /\ settled[r] = NoAmount
      BY <1>0, <2>3 DEF BillFits, Progress
    <3>2. QED
      BY <1>0, <1>1, <2>3, <3>1, OwnSettle DEF LeavesTheRest
  <2>4. ASSUME at[r] \in {"void", "void_price"}, ReleaseHold(bill[r].hold)
        PROVE  [BillNext]_billVars /\ HoldsAreOwn' /\ LeavesTheRest(r)
    <3>1. bill[r].hold \in Holds
      BY <1>0, <2>4 DEF BillFits, Progress
    <3>2. QED
      BY <1>0, <1>1, <2>4, <3>1, OwnRelease DEF LeavesTheRest
  <2>5. QED
    BY <2>1, <2>2, <2>3, <2>4, ExecutionCallsProcessor DEF CallsProcessor
<1>3. QED
  BY <1>0, <1>2, BillStep

-----------------------------------------------------------------------------
(* What a request knows of itself                                          *)

(* A record stays within the processor when the processor grows.           *)
LEMMA RecordFitsStill ==
  ASSUME NEW r \in Invocations, BillFits(r), UNCHANGED plan,
         \A o \in Holds : hold[o] # NoAmount => hold'[o] # NoAmount,
         \A h \in Holds : settleByHold[h] # None => settleByHold'[h] = settleByHold[h],
         \A s \in SettleRefs : settled[s] # NoAmount => settled'[s] = settled[s],
         bill'[r] = bill[r]
  PROVE  BillFits(r)'
<1>1. bill[r].state = "settled" => settleByHold[bill[r].hold] # None /\ bill[r].hold \in Holds
  BY BillingConstants DEF BillFits
<1>2. bill[r].state = "settled" =>
        /\ settleByHold'[bill[r].hold] = bill[r].settlement
        /\ settled'[bill[r].settlement] = bill[r].amount
  BY <1>1 DEF BillFits
<1>3. QED
  BY <1>2 DEF BillFits

(* And the mandate it was billed to stays used for it.                     *)
LEMMA MandateFitsStill ==
  ASSUME DirectTypeOK, NEW r \in Invocations, MandateFits(r), UNCHANGED call,
         \A m \in Mandates : mandateUse[m].hold # None => mandateUse'[m] = mandateUse[m],
         bill'[r].hold \in {None, bill[r].hold}
  PROVE  MandateFits(r)'
<1>1. /\ AuthOf(r)' = AuthOf(r) /\ (PaysSingleUse(r)' <=> PaysSingleUse(r))
      /\ BillingKey(r)' = BillingKey(r)
  BY DEF AuthOf, PaysSingleUse, BillingKey, Keyed
<1>2. PaysSingleUse(r) => AuthOf(r).ref \in Mandates
  BY Operands DEF PaysSingleUse, Authorizations
<1>3. SUFFICES ASSUME bill'[r].hold # None, PaysSingleUse(r)
               PROVE  mandateUse'[AuthOf(r).ref] = UseOf(r)'
  BY <1>1 DEF MandateFits
<1>4. bill'[r].hold = bill[r].hold /\ mandateUse[AuthOf(r).ref] = UseOf(r)
  BY <1>3 DEF MandateFits
<1>5. mandateUse[AuthOf(r).ref].hold # None
  BY <1>3, <1>4 DEF UseOf
<1>6. UseOf(r)' = UseOf(r)
  BY <1>1, <1>4 DEF UseOf
<1>7. QED
  BY <1>2, <1>3, <1>4, <1>5, <1>6

(* It is not disturbed by what another request does.                       *)
LEMMA OthersKeepIt ==
  ASSUME DirectTypeOK, NEW r \in Invocations, LocalInv(r),
         UNCHANGED <<plan, call>>, released \subseteq released',
         \A o \in Holds : hold[o] # NoAmount => hold'[o] # NoAmount,
         \A m \in Mandates : mandateUse[m].hold # None => mandateUse'[m] = mandateUse[m],
         \A h \in Holds : settleByHold[h] # None => settleByHold'[h] = settleByHold[h],
         \A s \in SettleRefs : settled[s] # NoAmount => settled'[s] = settled[s],
         at'[r] = at[r], effectAt'[r] = effectAt[r], bill'[r] = bill[r],
         charge'[r] = charge[r], audit'[r] = audit[r], record'[r] = record[r],
         told'[r] = told[r], hold'[r] = hold[r], settled'[r] = settled[r]
  PROVE  LocalInv(r)'
<1>1. BillFits(r)'
  BY RecordFitsStill DEF LocalInv
<1>2. MandateFits(r)'
  BY MandateFitsStill DEF LocalInv
<1>3. Progress(r)'
  BY DEF LocalInv, Progress, Untouched, Response, Outcome
<1>4. Outcomes(r)'
  <2>1. settled[r] # NoAmount =>
          settleByHold[bill[r].hold] = r /\ bill[r].hold \in Holds /\ r # None
    BY DirectConstants DEF LocalInv, Outcomes
  <2>2. QED
    BY <2>1 DEF LocalInv, Outcomes
<1>5. ChainIsTrue(r)'
  BY DEF LocalInv, ChainIsTrue, TellsTruth
<1>6. QED
  BY <1>1, <1>2, <1>3, <1>4, <1>5 DEF LocalInv

(* The chain stays true if what it says stays true and each new event is.  *)
LEMMA ChainStaysTrue ==
  ASSUME NEW r \in Invocations, audit \in [Invocations -> Seq(AuditTypes)], ChainIsTrue(r),
         NEW events \in Seq(AuditTypes), Log(r, events),
         \A e \in AuditTypes :
           \/ TellsTruth(r, e) /\ \E j \in DOMAIN audit[r] : e = audit[r][j]
           \/ \E j \in DOMAIN events : e = events[j]
           => TellsTruth(r, e)'
  PROVE  ChainIsTrue(r)'
<1>1. ASSUME NEW i \in DOMAIN audit'[r]
      PROVE  \E e \in AuditTypes : e = audit'[r][i] /\ TellsTruth(r, e)'
  <2>1. \/ \E j \in DOMAIN audit[r] : audit'[r][i] = audit[r][j]
        \/ \E j \in DOMAIN events : audit'[r][i] = events[j]
    BY LogGives
  <2>2. \A j \in DOMAIN audit[r] : audit[r][j] \in AuditTypes
    BY audit[r] \in Seq(AuditTypes)
  <2>3. \A j \in DOMAIN events : events[j] \in AuditTypes
    OBVIOUS
  <2>4. QED
    BY <2>1, <2>2, <2>3 DEF ChainIsTrue
<1>2. QED
  BY <1>1 DEF ChainIsTrue, TellsTruth

(* So it does if nothing is appended.                                      *)
LEMMA QuietChain ==
  ASSUME NEW r \in Invocations, audit \in [Invocations -> Seq(AuditTypes)], ChainIsTrue(r),
         UNCHANGED audit, \A e \in AuditTypes : TellsTruth(r, e) => TellsTruth(r, e)'
  PROVE  ChainIsTrue(r)'
<1>1. audit[r] \in Seq(AuditTypes)
  OBVIOUS
<1>2. \A i \in DOMAIN audit[r] : audit[r][i] \in AuditTypes
  BY <1>1
<1>3. QED
  BY <1>2 DEF ChainIsTrue, TellsTruth

(* What a request knows when it takes a step.                              *)
LEMMA Known ==
  ASSUME DirectInv, NEW r \in Invocations
  PROVE  /\ DirectTypeOK /\ ExecutionTypes /\ BillInv /\ HoldsAreOwn /\ LocalInv(r)
         /\ BillFits(r) /\ Progress(r) /\ Outcomes(r) /\ ChainIsTrue(r)
         /\ plan[r] \in DirectPlans /\ bill[r] \in Bills /\ now \in Nat
         /\ audit \in [Invocations -> Seq(AuditTypes)]
<1>1. DirectTypeOK /\ BillInv /\ HoldsAreOwn /\ LocalInv(r)
  BY DEF DirectInv
<1>2. ExecutionTypes /\ plan[r] \in DirectPlans /\ bill[r] \in Bills
  BY <1>1 DEF DirectTypeOK, ExecutionTypes, Answered, Records
<1>3. now \in Nat
  BY <1>1, IdempotencyConstants DEF DirectTypeOK, IdemTypeOK
<1>4. QED
  BY <1>1, <1>2, <1>3 DEF LocalInv, ExecutionTypes

(* reserveBilling: nothing is known but the record it makes.               *)
LEMMA ReserveKeepsIt ==
  ASSUME DirectInv, NEW r \in Invocations,
         ReserveFree(r) \/ ReserveOk(r) \/ ReserveRefused(r) \/ ReserveErrs(r)
  PROVE  LocalInv(r)'
<1>0. /\ ExecutionTypes /\ DirectTypeOK /\ BillInv /\ HoldsAreOwn
      /\ BillFits(r) /\ Progress(r) /\ Outcomes(r) /\ ChainIsTrue(r)
  BY Known
<1>1. at[r] = "reserve" /\ LeavesTheRest(r) /\ UNCHANGED <<plan, call>>
  <2>1. at[r] = "reserve" /\ UNCHANGED call
    BY DEF ReserveFree, ReserveOk, ReserveRefused, ReserveErrs, Goto, Result, Outside
  <2>2. Execution(r)
    BY DEF Execution
  <2>3. QED
    BY <2>1, <2>2, ProcessorStep, ExecutionKeepsPlan
<1>2. /\ bill[r] = NoBill /\ effectAt[r] = Never /\ audit[r] = <<>> /\ hold[r] = NoAmount
      /\ settled[r] = NoAmount /\ told[r] = Untold /\ record[r] = NoRecord
  BY <1>0, <1>1 DEF Progress, Untouched, Running
<1>3. effectAt'[r] = Never /\ record'[r] = NoRecord /\ settled'[r] = NoAmount
  BY <1>1, <1>2 DEF LeavesTheRest, ReserveFree, ReserveOk, ReserveRefused, ReserveErrs
<1>4. /\ bill'[r].state \in {"none", "not_billed", "reserved"}
      /\ BillFits(r)'
      /\ MandateFits(r)'
      /\ \/ at'[r] = "execute" /\ told'[r] = Untold /\ bill'[r].state # "none"
         \/ at'[r] = "return" /\ told'[r].kind # "response" /\ told'[r].state = "none"
  <2>1. CASE ReserveFree(r)
    <3>1. bill'[r] = NotBilled(plan[r].ceiling) /\ plan'[r].free /\ at'[r] = "execute" /\ told' = told
      BY <1>0, <2>1 DEF ReserveFree, Goto, Outside, ExecutionTypes
    <3>2. QED
      BY <1>2, <3>1 DEF NotBilled, BillFits, MandateFits
  <2>2. CASE ReserveOk(r)
    <3>1. PICK h \in Holds : Reserves(r, h) /\ bill' = [bill EXCEPT ![r] = Reserved(h, hold'[h])]
      BY <2>2 DEF ReserveOk
    <3>2. /\ hold'[h] # NoAmount
          /\ PaysSingleUse(r) => mandateUse'[AuthOf(r).ref] =
               [binding |-> call[r].digest, billKey |-> BillingKey(r), hold |-> h]
      BY <1>0, <1>1, <1>2, <3>1, OwnReserve
    <3>3. /\ bill'[r] = Reserved(h, hold'[h]) /\ ~plan'[r].free /\ at'[r] = "execute"
          /\ told' = told
      BY <1>0, <2>2, <3>1, <3>2 DEF ReserveOk, Goto, Outside, ExecutionTypes
    <3>4. bill'[r].state = "reserved" /\ bill'[r].hold = h
      BY <3>3 DEF Reserved
    <3>5. BillFits(r)'
      BY <3>2, <3>3, <3>4 DEF BillFits
    <3>6. MandateFits(r)'
      <4>1. /\ AuthOf(r)' = AuthOf(r) /\ (PaysSingleUse(r)' <=> PaysSingleUse(r))
            /\ BillingKey(r)' = BillingKey(r)
        BY <1>1 DEF AuthOf, PaysSingleUse, BillingKey, Keyed
      <4>2. UseOf(r)' = [binding |-> call[r].digest, billKey |-> BillingKey(r), hold |-> h]
        BY <1>1, <3>4, <4>1 DEF UseOf
      <4>3. QED
        BY <3>2, <4>1, <4>2 DEF MandateFits
    <3>7. QED
      BY <1>2, <3>3, <3>4, <3>5, <3>6
  <2>3. CASE ReserveRefused(r) \/ ReserveErrs(r)
    <3>1. bill'[r] = NoBill /\ at'[r] = "return" /\ told'[r].kind # "response" /\ told'[r].state = "none"
      BY <1>0, <1>2, <2>3 DEF ReserveRefused, ReserveErrs, Result, Goto, ExecutionTypes
    <3>2. QED
      BY <3>1 DEF NoBill, BillFits, MandateFits
  <2>4. QED
    BY <2>1, <2>2, <2>3
<1>5. Progress(r)'
  BY <1>3, <1>4 DEF Progress, Untouched, Running
<1>6. Outcomes(r)'
  BY <1>3, <1>4 DEF Outcomes, Untold, NoRecord
<1>7. ChainIsTrue(r)'
  <2>1. PICK events \in {<<"accepted", "reserved">>, <<"accepted">>} : Log(r, events)
    BY DEF ReserveFree, ReserveOk, ReserveRefused, ReserveErrs
  <2>2. events \in Seq(AuditTypes)
    BY EventTypes DEF AuditTypes
  <2>3. \A e \in AuditTypes : (\E j \in DOMAIN events : e = events[j]) => e \in {"accepted", "reserved"}
    BY <2>1
  <2>4. DOMAIN audit[r] = {}
    BY <1>2
  <2>5. \A e \in {"accepted", "reserved"} : TellsTruth(r, e)'
    BY DEF TellsTruth
  <2>6. QED
    BY <1>0, <2>1, <2>2, <2>3, <2>4, <2>5, ChainStaysTrue DEF ExecutionTypes
<1>8. QED
  BY <1>4, <1>5, <1>6, <1>7 DEF LocalInv

(* ExecuteDirect: its effect, or the problem that may hide one.            *)
LEMMA ExecuteKeepsIt ==
  ASSUME DirectInv, NEW r \in Invocations,
         ExecuteOk(r) \/ ExecuteMisprices(r) \/ ExecuteProblem(r)
  PROVE  LocalInv(r)'
<1>0. /\ ExecutionTypes /\ DirectTypeOK
      /\ BillFits(r) /\ MandateFits(r) /\ Progress(r) /\ Outcomes(r) /\ ChainIsTrue(r)
      /\ plan[r] \in DirectPlans /\ bill[r] \in Bills /\ now \in Nat
  BY Known DEF LocalInv
<1>1. at[r] = "execute" /\ LeavesTheRest(r)
  BY ProcessorStep DEF Execution, ExecuteOk, ExecuteMisprices, ExecuteProblem, Goto, Result
<1>2. /\ bill[r].state \in {"not_billed", "reserved"} /\ effectAt[r] = Never
      /\ settled[r] = NoAmount /\ told[r] = Untold /\ record[r] = NoRecord
      /\ bill[r].state = "not_billed" => bill[r].hold = None
      /\ bill[r].state = "reserved" => bill[r].hold # None
  BY <1>0, <1>1, BillingConstants DEF Progress, BillFits, Running
<1>3. /\ bill'[r] = bill[r] /\ record'[r] = NoRecord /\ settled'[r] = NoAmount
      /\ UNCHANGED <<plan, call>>
  BY <1>1, <1>2 DEF LeavesTheRest, ExecuteOk, ExecuteMisprices, ExecuteProblem, Outside
<1>4. effectAt' = [effectAt EXCEPT ![r] = now] => effectAt'[r] # Never
  BY <1>0 DEF ExecutionTypes, Never
<1>5. \/ at'[r] = "sign" /\ effectAt'[r] # Never /\ bill[r].state = "not_billed" /\ told'[r] = Untold
      \/ /\ at'[r] = "settle" /\ effectAt'[r] # Never /\ bill[r].state = "reserved"
         /\ told'[r] = Untold
         /\ charge'[r] \in Amounts
      \/ at'[r] \in {"void", "void_price"} /\ bill[r].state = "reserved" /\ told'[r] = Untold
      \/ at'[r] = "return" /\ told'[r] = [kind |-> "problem", state |-> "failed"]
  <2>1. CASE ExecuteOk(r)
    <3>1. PICK reported \in Amounts \cup {NoAmount}, sums \in BOOLEAN :
            /\ PriceAllowed(plan[r], reported, sums)
            /\ charge' = [charge EXCEPT ![r] = FinalPrice(plan[r], reported)]
      BY <2>1 DEF ExecuteOk
    <3>2. charge'[r] = FinalPrice(plan[r], reported)
      BY <1>0, <3>1 DEF ExecutionTypes
    <3>3. plan[r].price \in Amounts
      BY <1>0 DEF DirectPlans
    <3>4. charge'[r] \in Amounts
      BY <3>1, <3>2, <3>3 DEF PriceAllowed, FinalPrice
    <3>5. /\ at'[r] = IF bill[r].hold = None THEN "sign" ELSE "settle"
          /\ told' = told /\ effectAt'[r] # Never
      BY <1>0, <1>4, <2>1 DEF ExecuteOk, Goto, Performs, ExecutionTypes
    <3>6. QED
      BY <1>2, <3>4, <3>5
  <2>2. CASE ExecuteMisprices(r)
    BY <1>0, <1>2, <2>2 DEF ExecuteMisprices, Goto, Result, ExecutionTypes
  <2>3. CASE ExecuteProblem(r)
    BY <1>0, <1>2, <2>3 DEF ExecuteProblem, Goto, Result, ExecutionTypes
  <2>4. QED
    BY <2>1, <2>2, <2>3
<1>6. BillFits(r)'
  BY <1>0, <1>1, <1>3, RecordFitsStill DEF LeavesTheRest
<1>7. MandateFits(r)'
  BY <1>0, <1>1, <1>3, MandateFitsStill DEF LeavesTheRest
<1>8. Progress(r)'
  BY <1>2, <1>3, <1>5 DEF Progress, Untouched, Running
<1>9. Outcomes(r)'
  BY <1>3, <1>5 DEF Outcomes, Untold, NoRecord
<1>10. ChainIsTrue(r)'
  <2>1. UNCHANGED audit \/ (Log(r, <<"failed">>) /\ bill[r].hold = None)
    BY DEF ExecuteOk, ExecuteMisprices, ExecuteProblem
  <2>2. <<"failed">> \in Seq(AuditTypes)
    BY EventTypes DEF AuditTypes
  <2>3. ASSUME NEW e \in AuditTypes, TellsTruth(r, e) PROVE TellsTruth(r, e)'
    BY <1>1, <1>2, <1>3, <2>3 DEF TellsTruth, LeavesTheRest
  <2>4. CASE UNCHANGED audit
    BY <1>0, <2>3, <2>4, QuietChain DEF ExecutionTypes
  <2>5. CASE Log(r, <<"failed">>) /\ bill[r].hold = None
    <3>1. TellsTruth(r, "failed")'
      BY <1>3, <2>5 DEF TellsTruth
    <3>2. \A e \in AuditTypes : (\E j \in DOMAIN <<"failed">> : e = <<"failed">>[j]) => e = "failed"
      OBVIOUS
    <3>3. QED
      BY <1>0, <2>2, <2>3, <2>5, <3>1, <3>2, ChainStaysTrue DEF ExecutionTypes
  <2>6. QED
    BY <2>1, <2>4, <2>5
<1>11. QED
  BY <1>6, <1>7, <1>8, <1>9, <1>10 DEF LocalInv

(* Release after a refused execution or a refused price.                   *)
LEMMA VoidKeepsIt ==
  ASSUME DirectInv, NEW r \in Invocations, Void(r) \/ VoidPrice(r)
  PROVE  LocalInv(r)'
<1>0. /\ ExecutionTypes /\ DirectTypeOK /\ BillInv /\ HoldsAreOwn /\ bill[r] \in Bills
      /\ BillFits(r) /\ MandateFits(r) /\ Progress(r) /\ Outcomes(r) /\ ChainIsTrue(r)
  BY Known DEF LocalInv
<1>1. at[r] \in {"void", "void_price"} /\ LeavesTheRest(r)
  BY ProcessorStep DEF Execution, Void, VoidPrice, Goto, Result
<1>2. /\ bill[r].state = "reserved" /\ bill[r].hold \in Holds /\ hold[bill[r].hold] # NoAmount
      /\ ~plan[r].free
      /\ settled[r] = NoAmount /\ told[r] = Untold /\ record[r] = NoRecord
  BY <1>0, <1>1 DEF Progress, BillFits, Running
<1>3. /\ record'[r] = NoRecord /\ settled'[r] = NoAmount /\ effectAt'[r] = effectAt[r]
      /\ at'[r] = "return" /\ told'[r].kind # "response"
      /\ told'[r].state \in {"accepted", "failed"}
      /\ UNCHANGED <<plan, call>>
  BY <1>0, <1>1, <1>2 DEF LeavesTheRest, Void, VoidPrice, Outside, Result, Goto, ExecutionTypes
<1>4. \/ bill'[r] = bill[r] /\ UNCHANGED audit
      \/ /\ bill'[r] = [bill[r] EXCEPT !.state = "released"]
         /\ bill[r].hold \in released'
         /\ Log(r, <<"failed">>)
  <2>1. CASE UNCHANGED <<bill, audit>>
    BY <2>1
  <2>2. CASE /\ ReleaseHold(bill[r].hold)
             /\ bill' = [bill EXCEPT ![r].state = "released"]
             /\ Log(r, <<"failed">>)
    <3>1. bill[r].hold \in released'
      BY <1>0, <1>2, <1>3, <2>2, OwnRelease
    <3>2. bill'[r] = [bill[r] EXCEPT !.state = "released"]
      BY <1>0, <2>2 DEF ExecutionTypes
    <3>3. QED
      BY <2>2, <3>1, <3>2
  <2>3. QED
    BY <2>1, <2>2 DEF Void, VoidPrice
<1>5. bill'[r].hold = bill[r].hold /\ bill'[r].state \in {"reserved", "released"}
  BY <1>0, <1>2, <1>4 DEF Bills
<1>6. BillFits(r)'
  BY <1>1, <1>2, <1>3, <1>5 DEF BillFits, LeavesTheRest
<1>7. MandateFits(r)'
  BY <1>0, <1>1, <1>3, <1>5, MandateFitsStill DEF LeavesTheRest
<1>8. Progress(r)'
  BY <1>3 DEF Progress, Running
<1>9. Outcomes(r)'
  BY <1>3 DEF Outcomes, NoRecord
<1>10. ASSUME NEW e \in AuditTypes, TellsTruth(r, e) PROVE TellsTruth(r, e)'
  BY <1>1, <1>2, <1>3, <1>5, <1>10 DEF TellsTruth, LeavesTheRest
<1>11. ChainIsTrue(r)'
  <2>1. CASE UNCHANGED audit
    BY <1>0, <1>10, <2>1, QuietChain DEF ExecutionTypes
  <2>2. CASE bill[r].hold \in released' /\ Log(r, <<"failed">>)
    <3>1. TellsTruth(r, "failed")'
      BY <1>5, <2>2 DEF TellsTruth
    <3>2. <<"failed">> \in Seq(AuditTypes)
      BY EventTypes DEF AuditTypes
    <3>3. \A e \in AuditTypes : (\E j \in DOMAIN <<"failed">> : e = <<"failed">>[j]) => e = "failed"
      OBVIOUS
    <3>4. QED
      BY <1>0, <1>10, <2>2, <3>1, <3>2, <3>3, ChainStaysTrue DEF ExecutionTypes
  <2>3. QED
    BY <1>4, <2>1, <2>2
<1>12. QED
  BY <1>6, <1>7, <1>8, <1>9, <1>11 DEF LocalInv

(* Settle, and its error, which may hide a settlement.                     *)
LEMMA SettleKeepsIt ==
  ASSUME DirectInv, NEW r \in Invocations, SettleOk(r) \/ SettleErrs(r)
  PROVE  LocalInv(r)'
<1>0. /\ ExecutionTypes /\ DirectTypeOK /\ BillInv /\ HoldsAreOwn /\ bill[r] \in Bills
      /\ BillFits(r) /\ MandateFits(r) /\ Progress(r) /\ Outcomes(r) /\ ChainIsTrue(r)
  BY Known DEF LocalInv
<1>1. at[r] = "settle" /\ LeavesTheRest(r)
  BY ProcessorStep DEF Execution, SettleOk, SettleErrs, Goto
<1>2. /\ bill[r].state = "reserved" /\ bill[r].hold \in Holds /\ hold[bill[r].hold] # NoAmount
      /\ ~plan[r].free
      /\ settled[r] = NoAmount /\ told[r] = Untold /\ record[r] = NoRecord
      /\ effectAt[r] # Never /\ charge[r] \in Amounts
  BY <1>0, <1>1 DEF Progress, BillFits, Running
<1>3. /\ record'[r] = NoRecord /\ told'[r] = Untold /\ effectAt'[r] # Never
      /\ at'[r] = "sign" /\ UNCHANGED <<plan, call>>
  BY <1>0, <1>2 DEF SettleOk, SettleErrs, Outside, Goto, ExecutionTypes
<1>4. settled'[r] # NoAmount => settleByHold'[bill[r].hold] = r
  <2>1. CASE UNCHANGED billVars
    BY <1>2, <2>1 DEF billVars
  <2>2. ASSUME NEW s \in SettleRefs, Settles(r, s)
        PROVE  settled'[r] # NoAmount => settleByHold'[bill[r].hold] = r
    BY <1>0, <1>2, <1>3, <2>2, OwnSettle
  <2>3. QED
    BY <2>1, <2>2 DEF SettleOk, SettleErrs, SettleDeclined
<1>5. PICK event \in {"settled", "settlement_pending"} :
        /\ Log(r, <<event>>)
        /\ bill'[r].state = event /\ bill'[r].hold = bill[r].hold
        /\ event = "settled" =>
             /\ bill'[r].settlement \in SettleRefs
             /\ settleByHold'[bill[r].hold] = bill'[r].settlement
             /\ settled'[bill'[r].settlement] = bill'[r].amount
             /\ bill'[r].amount # NoAmount
             /\ bill'[r].amount <= plan[bill[r].hold].ceiling
  <2>1. CASE SettleOk(r)
    <3>1. PICK s \in SettleRefs :
            Settles(r, s) /\ bill' = [bill EXCEPT ![r] = SettledAs(bill[r], s, settled'[s])]
      BY <2>1 DEF SettleOk
    <3>2. /\ settleByHold'[bill[r].hold] = s
          /\ settled'[s] # NoAmount /\ settled'[s] <= plan[bill[r].hold].ceiling
      BY <1>0, <1>2, <1>3, <3>1, OwnSettle
    <3>3. bill'[r] = SettledAs(bill[r], s, settled'[s])
      BY <1>0, <3>1 DEF ExecutionTypes
    <3>4. /\ bill'[r].state = "settled" /\ bill'[r].hold = bill[r].hold
          /\ bill'[r].settlement = s /\ bill'[r].amount = settled'[s]
      BY <3>3 DEF SettledAs
    <3>5. Log(r, <<"settled">>)
      BY <2>1 DEF SettleOk
    <3>6. QED
      BY <3>2, <3>4, <3>5
  <2>2. CASE SettleErrs(r)
    <3>1. bill'[r] = [bill[r] EXCEPT !.state = "settlement_pending"] /\ Log(r, <<"settlement_pending">>)
      BY <1>0, <2>2 DEF SettleErrs, ExecutionTypes
    <3>2. QED
      BY <1>0, <1>2, <3>1 DEF Bills
  <2>3. QED
    BY <2>1, <2>2
<1>6. BillFits(r)'
  BY <1>1, <1>2, <1>3, <1>5 DEF BillFits, LeavesTheRest
<1>7. MandateFits(r)'
  BY <1>0, <1>1, <1>3, <1>5, MandateFitsStill DEF LeavesTheRest
<1>8. Progress(r)'
  BY <1>3, <1>5 DEF Progress, Running
<1>9. Outcomes(r)'
  BY <1>2, <1>3, <1>4, <1>5 DEF Outcomes, Untold, NoRecord
<1>10. ChainIsTrue(r)'
  <2>1. ASSUME NEW e \in AuditTypes, TellsTruth(r, e) PROVE TellsTruth(r, e)'
    BY <1>1, <1>2, <1>3, <1>5, <2>1 DEF TellsTruth, LeavesTheRest
  <2>2. TellsTruth(r, event)'
    BY <1>5 DEF TellsTruth
  <2>3. <<event>> \in Seq(AuditTypes)
    BY EventTypes DEF AuditTypes
  <2>4. \A e \in AuditTypes : (\E j \in DOMAIN <<event>> : e = <<event>>[j]) => e = event
    OBVIOUS
  <2>5. QED
    BY <1>0, <1>5, <2>1, <2>2, <2>3, <2>4, ChainStaysTrue DEF ExecutionTypes
<1>11. QED
  BY <1>6, <1>7, <1>8, <1>9, <1>10 DEF LocalInv

(* Signing, storing and announcing the response.                           *)
LEMMA AnswerKeepsIt ==
  ASSUME DirectInv, NEW r \in Invocations, Sign(r) \/ PutInvocation(r) \/ Issue(r)
  PROVE  LocalInv(r)'
<1>0. /\ ExecutionTypes /\ DirectTypeOK
      /\ BillFits(r) /\ MandateFits(r) /\ Progress(r) /\ Outcomes(r) /\ ChainIsTrue(r)
  BY Known DEF LocalInv
<1>1. at[r] \in {"sign", "put", "issue"} /\ LeavesTheRest(r)
  BY ProcessorStep DEF Execution, Sign, PutInvocation, Issue, Goto, Result
<1>2. /\ effectAt[r] # Never /\ bill[r].state \in {"not_billed", "settled", "settlement_pending"}
      /\ told[r] = Untold
  BY <1>0, <1>1 DEF Progress, Running
<1>3. /\ bill'[r] = bill[r] /\ effectAt'[r] = effectAt[r]
      /\ UNCHANGED <<plan, call, settleByHold, settled>>
  BY <1>1 DEF LeavesTheRest, Sign, PutInvocation, Issue, Outside, billVars
<1>4. Outcome(r) = "succeeded" => bill[r].state \in {"not_billed", "settled"}
  BY <1>2 DEF Outcome
<1>5. /\ Outcome(r) \in {"accepted", "succeeded"} /\ Response(r) = [state |-> Outcome(r), bill |-> bill[r]]
      /\ Response(r) # NoRecord
  BY DEF Outcome, Response, NoRecord
<1>6. /\ \/ at'[r] \in {"put", "issue"} /\ told'[r] = Untold
         \/ /\ at'[r] = "return"
            /\ told'[r] \in {[kind |-> "unknown", state |-> Outcome(r)],
                             [kind |-> "response", state |-> Outcome(r)]}
      /\ at'[r] = "issue" => record'[r] = Response(r)
      /\ told'[r].kind = "response" => record'[r] = Response(r)
      /\ record'[r] \in {record[r], Response(r)}
  <2>1. CASE Sign(r)
    BY <1>0, <1>2, <2>1 DEF Sign, Goto, Result, ExecutionTypes, Untold
  <2>2. CASE PutInvocation(r)
    BY <1>0, <1>2, <2>2 DEF PutInvocation, Goto, Result, ExecutionTypes, Untold
  <2>3. CASE Issue(r)
    BY <1>0, <1>1, <1>2, <2>3 DEF Issue, Goto, Result, ExecutionTypes, Progress
  <2>4. QED
    BY <2>1, <2>2, <2>3
<1>7. BillFits(r)' /\ MandateFits(r)'
  BY <1>0, <1>1, <1>3, RecordFitsStill, MandateFitsStill DEF LeavesTheRest
<1>8. Progress(r)'
  <2>1. Response(r)' = Response(r)
    BY <1>3 DEF Response, Outcome
  <2>2. QED
    BY <1>2, <1>3, <1>6, <2>1 DEF Progress, Running
<1>9. Outcomes(r)'
  <2>1. told'[r].state \in {"none", Outcome(r)}
    BY <1>6 DEF Untold
  <2>2. record'[r].state = "succeeded" => record[r].state = "succeeded" \/ Outcome(r) = "succeeded"
    BY <1>5, <1>6
  <2>3. told'[r].kind = "response" => told'[r].state = Outcome(r)
    BY <1>6 DEF Untold
  <2>4. told'[r].state # "failed"
    BY <1>5, <2>1
  <2>5. QED
    BY <1>0, <1>2, <1>3, <1>4, <1>5, <1>6, <2>1, <2>2, <2>3, <2>4 DEF Outcomes
<1>10. ChainIsTrue(r)'
  <2>1. ASSUME NEW e \in AuditTypes, TellsTruth(r, e) PROVE TellsTruth(r, e)'
    BY <1>1, <1>3, <1>5, <1>6, <2>1 DEF TellsTruth, LeavesTheRest
  <2>2. CASE UNCHANGED audit
    BY <1>0, <2>1, <2>2, QuietChain DEF ExecutionTypes
  <2>3. ASSUME NEW event \in {"accepted", "succeeded", "receipt"}, Log(r, <<event>>),
               event = "receipt" => record'[r] # NoRecord
        PROVE  ChainIsTrue(r)'
    <3>1. TellsTruth(r, event)'
      BY <1>2, <1>3, <2>3 DEF TellsTruth
    <3>2. <<event>> \in Seq(AuditTypes)
      BY EventTypes DEF AuditTypes
    <3>3. \A e \in AuditTypes : (\E j \in DOMAIN <<event>> : e = <<event>>[j]) => e = event
      OBVIOUS
    <3>4. QED
      BY <1>0, <2>1, <2>3, <3>1, <3>2, <3>3, ChainStaysTrue DEF ExecutionTypes
  <2>4. CASE Sign(r)
    BY <1>5, <2>3, <2>4 DEF Sign
  <2>5. CASE PutInvocation(r)
    BY <2>2, <2>5 DEF PutInvocation
  <2>6. CASE Issue(r)
    <3>1. record'[r] # NoRecord
      BY <1>0, <1>5, <2>6 DEF Issue, Result, Goto, Progress
    <3>2. QED
      BY <2>3, <2>6, <3>1 DEF Issue
  <2>7. QED
    BY <2>4, <2>5, <2>6
<1>11. QED
  BY <1>7, <1>8, <1>9, <1>10 DEF LocalInv

-----------------------------------------------------------------------------
(* The handler around executeDirect                                        *)

HandlerUnchanged == <<now, billVars, call, plan, effectAt, bill, charge, audit, record, told>>

(* Where a request goes outside executeDirect.                             *)
Moves(r) ==
  \/ at[r] = "plan" /\ at'[r] = IF Keyed(r) THEN "begin" ELSE "reserve"
  \/ at[r] = "plan" /\ at'[r] = "refused"
  \/ at[r] = "begin" /\ at'[r] \in {"reserve", "done"}
  \/ at[r] = "return" /\ at'[r] = IF Keyed(r) THEN "complete" ELSE "done"
  \/ at[r] = "complete" /\ at'[r] = "done"
  \/ at[r] \in Running /\ at'[r] = "panicked"

(* What becomes of the claim table and of the answer.                      *)
Answers(r) ==
  \/ UNCHANGED entries
  \/ at[r] = "begin" /\ BeginNew(call[r].key, call[r].digest)
  \/ at[r] = "complete" /\ Complete(call[r].key, r)

(* The handler moves one request and writes the claim table and an answer. *)
LEMMA HandlingShape ==
  ASSUME DirectTypeOK, ClaimsAreHeld, NEW r \in Invocations, Handling(r) \/ InvokePanics(r)
  PROVE  /\ UNCHANGED HandlerUnchanged
         /\ at' \in [Invocations -> Calls]
         /\ \A s \in Invocations \ {r} : at'[s] = at[s]
         /\ Moves(r)
         /\ Answers(r)
         /\ at[r] = "begin" /\ at'[r] = "reserve" => BeginNew(call[r].key, call[r].digest)
         /\ at[r] \in {"begin", "complete"} => Keyed(r)
<1>0. at \in [Invocations -> Calls] /\ (at[r] \in {"begin", "complete"} => Keyed(r))
  BY DEF DirectTypeOK, ClaimsAreHeld
<1> USE DEF HandlerUnchanged, Goto
<1>1. ASSUME NEW to \in {"begin", "reserve", "refused", "done", "complete", "panicked"},
             at' = [at EXCEPT ![r] = to]
      PROVE  /\ at' \in [Invocations -> Calls] /\ at'[r] = to
             /\ \A s \in Invocations \ {r} : at'[s] = at[s]
  BY <1>0, <1>1 DEF Calls, Running
<1>2. CASE Plan(r)
  BY <1>0, <1>1, <1>2 DEF Plan, Moves, Answers
<1>3. CASE PlanRefuses(r)
  BY <1>0, <1>1, <1>3 DEF PlanRefuses, Moves, Answers
<1>4. CASE InvokeBegins(r)
  <2>1. PICK ans : Claim(r, ans) /\ at[r] = "begin"
                   /\ (ans = NoAnswer => BeginNew(call[r].key, call[r].digest))
                   /\ Answers(r)
    <3>1. NoAnswer.kind # "replay" /\ Told("conflict") # NoAnswer /\ Told("in_progress") # NoAnswer
      BY DEF NoAnswer, Told
    <3>2. CASE BeginNew(call[r].key, call[r].digest) /\ Claim(r, NoAnswer)
      BY <1>4, <3>2 DEF InvokeBegins, Answers
    <3>3. CASE /\ BeginReplay(call[r].key, call[r].digest)
               /\ Claim(r, [kind |-> "replay", from |-> entries[call[r].key].response])
      BY <1>4, <3>1, <3>3 DEF InvokeBegins, Answers, BeginReplay
    <3>4. CASE BeginConflict(call[r].key, call[r].digest) /\ Claim(r, Told("conflict"))
      BY <1>4, <3>1, <3>4 DEF InvokeBegins, Answers, BeginConflict
    <3>5. CASE BeginInProgress(call[r].key, call[r].digest) /\ Claim(r, Told("in_progress"))
      BY <1>4, <3>1, <3>5 DEF InvokeBegins, Answers, BeginInProgress
    <3>6. QED
      BY <1>4, <3>2, <3>3, <3>4, <3>5 DEF InvokeBegins
  <2>2. at' = [at EXCEPT ![r] = IF ans = NoAnswer THEN "reserve" ELSE "done"]
    BY <2>1 DEF Claim
  <2>3. UNCHANGED HandlerUnchanged
    BY <2>1 DEF Claim
  <2>4. /\ at' \in [Invocations -> Calls]
        /\ at'[r] = IF ans = NoAnswer THEN "reserve" ELSE "done"
        /\ \A s \in Invocations \ {r} : at'[s] = at[s]
    BY <1>1, <2>2
  <2>5. Moves(r)
    BY <2>1, <2>4 DEF Moves
  <2>6. QED
    BY <1>0, <2>1, <2>3, <2>4, <2>5
<1>5. CASE InvokeUnavailable(r)
  <2>1. Told("unavailable") # NoAnswer
    BY DEF NoAnswer, Told
  <2>2. /\ at[r] = "begin" /\ at' = [at EXCEPT ![r] = "done"] /\ UNCHANGED HandlerUnchanged
        /\ Answers(r)
    BY <1>5, <2>1 DEF InvokeUnavailable, Claim, Answers
  <2>3. /\ at' \in [Invocations -> Calls] /\ at'[r] = "done"
        /\ \A s \in Invocations \ {r} : at'[s] = at[s]
    BY <1>1, <2>2
  <2>4. QED
    BY <1>0, <2>2, <2>3 DEF Moves
<1>6. CASE Returns(r)
  BY <1>0, <1>1, <1>6 DEF Returns, Moves, Answers
<1>7. CASE InvokeCompletes(r)
  BY <1>0, <1>1, <1>7 DEF InvokeCompletes, Moves, Answers, CompleteRefused
<1>8. CASE InvokePanics(r)
  <2>1. at' = [at EXCEPT ![r] = "panicked"] /\ at[r] \in Running /\ UNCHANGED <<HandlerUnchanged, entries>>
    BY <1>8 DEF InvokePanics
  <2>2. "begin" \notin Running
    BY DEF Running
  <2>3. /\ at' \in [Invocations -> Calls] /\ at'[r] = "panicked"
        /\ \A s \in Invocations \ {r} : at'[s] = at[s]
    BY <1>1, <2>1
  <2>4. QED
    BY <1>0, <2>1, <2>2, <2>3 DEF Moves, Answers
<1>9. QED
  BY <1>2, <1>3, <1>4, <1>5, <1>6, <1>7, <1>8 DEF Handling

(* The claim table keeps its type.                                         *)
LEMMA EntriesType ==
  ASSUME DirectTypeOK, NEW r \in Invocations, Keyed(r) \/ UNCHANGED entries, Answers(r)
  PROVE  entries' \in [Keys -> Entry]
<1>1. /\ entries \in [Keys -> Entry] /\ now \in 0 .. MaxTime /\ call[r] \in DirectCalls
      /\ r \in Responses
  BY DirectConstants DEF DirectTypeOK, IdemTypeOK
<1>2. CASE UNCHANGED entries
  BY <1>1, <1>2
<1>3. now + Retention \in 0 .. MaxTime + Retention
  BY <1>1, IdempotencyConstants
<1>4. CASE Keyed(r)
  <2>1. call[r].key \in Keys /\ call[r].digest \in Digests
    BY <1>1, <1>4 DEF Keyed, DirectCalls
  <2>2. CASE BeginNew(call[r].key, call[r].digest)
    <3>1. [status |-> "in_progress", digest |-> call[r].digest,
           response |-> NoResponse, expiresAt |-> now + Retention] \in Entry
      BY <1>3, <2>1 DEF Entry, ClaimStatus
    <3>2. QED
      BY <1>1, <2>2, <3>1 DEF BeginNew
  <2>3. CASE Complete(call[r].key, r)
    <3>1. entries[call[r].key].digest \in Digests \cup {NoDigest}
      BY <1>1, <2>1 DEF Entry
    <3>2. [status |-> "completed", digest |-> entries[call[r].key].digest,
           response |-> r, expiresAt |-> now + Retention] \in Entry
      BY <1>1, <1>3, <3>1 DEF Entry, ClaimStatus
    <3>3. QED
      BY <1>1, <2>3, <3>2 DEF Complete
  <2>4. QED
    BY <1>2, <2>2, <2>3 DEF Answers
<1>5. QED
  BY <1>2, <1>4

(* A claim stays its request's until the request completes it.             *)
LEMMA ClaimsStayHeld ==
  ASSUME DirectTypeOK, ClaimsAreHeld, NEW r \in Invocations, UNCHANGED call,
         \A s \in Invocations \ {r} : at'[s] = at[s],
         Moves(r), Answers(r),
         at[r] = "begin" /\ at'[r] = "reserve" => BeginNew(call[r].key, call[r].digest)
  PROVE  ClaimsAreHeld'
<1> DEFINE k == call[r].key
<1>0. /\ at[r] \in {"begin", "complete"} => Keyed(r)
      /\ entries \in [Keys -> Entry] /\ call[r] \in DirectCalls
      /\ \A s \in Invocations : call[s] \in DirectCalls
  BY DEF ClaimsAreHeld, DirectTypeOK, IdemTypeOK
<1>1. \A s \in Invocations : Keyed(s)' <=> Keyed(s)
  BY DEF Keyed
<1>2. \A s \in Invocations \ {r} : Claims(s)' <=> Claims(s)
  BY <1>1 DEF Claims, Running
<1>3. Claims(r)' => Claims(r) \/ (at[r] = "begin" /\ at'[r] = "reserve" /\ Keyed(r))
  BY <1>0, <1>1 DEF Claims, Moves, Running
<1>4. \A s \in Invocations : at'[s] \in {"begin", "complete"} => Keyed(s)'
  BY <1>0, <1>1 DEF Moves, ClaimsAreHeld
<1>5. CASE UNCHANGED entries
  <2>1. ~(at[r] = "begin" /\ at'[r] = "reserve" /\ Keyed(r))
    <3>1. SUFFICES ASSUME BeginNew(k, call[r].digest), Keyed(r) PROVE FALSE
      OBVIOUS
    <3>2. k \in Keys
      BY <1>0, <3>1 DEF Keyed, DirectCalls
    <3>3. entries'[k].status = "in_progress"
      BY <1>0, <3>1, <3>2 DEF BeginNew
    <3>4. entries[k].status # "in_progress"
      BY <3>1 DEF BeginNew, Expired
    <3>5. QED
      BY <1>5, <3>3, <3>4
  <2>2. \A s \in Invocations : Claims(s)' => Claims(s)
    BY <1>2, <1>3, <2>1
  <2>3. QED
    BY <1>4, <1>5, <2>2 DEF ClaimsAreHeld, Held
<1>6. CASE at[r] = "begin" /\ BeginNew(k, call[r].digest)
  <2>1. Keyed(r) /\ k \in Keys
    BY <1>0, <1>6 DEF Keyed, DirectCalls
  <2>2. entries[k].status # "in_progress"
    BY <1>6 DEF BeginNew, Expired
  <2>3. /\ entries'[k].status = "in_progress"
        /\ \A j \in Keys \ {k} : entries'[j] = entries[j]
    BY <1>0, <1>6, <2>1 DEF BeginNew
  <2>4. \A s \in Invocations : Claims(s) => call[s].key # k /\ call[s].key \in Keys
    BY <1>0, <2>2 DEF ClaimsAreHeld, Held, Claims, Keyed, DirectCalls
  <2>5. \A s \in Invocations : Claims(s)' => Held(call[s].key)'
    BY <1>2, <1>3, <2>3, <2>4 DEF ClaimsAreHeld, Held
  <2>6. \A s, t \in Invocations :
          Claims(s)' /\ Claims(t)' /\ call'[s].key = call'[t].key => s = t
    BY <1>2, <1>3, <2>4 DEF ClaimsAreHeld
  <2>7. QED
    BY <1>4, <2>5, <2>6 DEF ClaimsAreHeld
<1>7. CASE at[r] = "complete" /\ Complete(k, r)
  <2>1. Keyed(r) /\ k \in Keys /\ Claims(r)
    BY <1>0, <1>7 DEF Keyed, DirectCalls, Claims
  <2>2. ~Claims(r)'
    BY <1>7 DEF Claims, Moves, Running
  <2>3. \A j \in Keys \ {k} : entries'[j] = entries[j]
    BY <1>0, <1>7, <2>1 DEF Complete
  <2>4. \A s \in Invocations : Claims(s)' => Claims(s) /\ call[s].key # k /\ call[s].key \in Keys
    BY <1>0, <1>2, <2>1, <2>2 DEF ClaimsAreHeld, Claims, Keyed, DirectCalls
  <2>5. QED
    BY <1>4, <2>3, <2>4 DEF ClaimsAreHeld, Held
<1>8. QED
  BY <1>5, <1>6, <1>7 DEF Answers

(* Only executeDirect moves among its calls.                               *)
LEMMA ExecutionKeepsClaims ==
  ASSUME ClaimsAreHeld, NEW r \in Invocations, UNCHANGED <<entries, call>>,
         \A s \in Invocations \ {r} : at'[s] = at[s],
         at[r] \in Running, at'[r] \in Running \cup {"return"}
  PROVE  ClaimsAreHeld'
<1>1. \A s \in Invocations : Keyed(s)' <=> Keyed(s)
  BY DEF Keyed
<1>2. \A s \in Invocations : Claims(s)' <=> Claims(s)
  BY <1>1 DEF Claims
<1>3. \A s \in Invocations : at'[s] \in {"begin", "complete"} => Keyed(s)'
  BY <1>1 DEF ClaimsAreHeld, Running
<1>4. QED
  BY <1>2, <1>3 DEF ClaimsAreHeld, Held

AnswerRecords == [kind : {"none", "replay", "conflict", "in_progress",
                          "unavailable", "result", "unknown"},
                  from : Responses \cup {NoResponse}]

(* The answers of the handler are typed.                                   *)
LEMMA AnswerType ==
  ASSUME DirectTypeOK, ClaimsAreHeld, NEW r \in Invocations, Handling(r)
  PROVE  answer' \in [Invocations -> AnswerRecords]
<1>1. answer \in [Invocations -> AnswerRecords]
  BY DEF DirectTypeOK, AnswerRecords
<1>2. NoAnswer \in AnswerRecords
      /\ \A kind \in {"conflict", "in_progress", "unavailable", "result", "unknown"} :
           Told(kind) \in AnswerRecords
  BY DEF NoAnswer, Told, AnswerRecords
<1>3. CASE Plan(r) \/ PlanRefuses(r)
  BY <1>1, <1>3 DEF Plan, PlanRefuses
<1>4. CASE InvokeBegins(r)
  <2>1. call[r].key \in Keys
    BY <1>4 DEF InvokeBegins, ClaimsAreHeld, DirectTypeOK, Keyed, DirectCalls
  <2>2. entries[call[r].key].response \in Responses \cup {NoResponse}
    BY <2>1 DEF DirectTypeOK, IdemTypeOK, Entry
  <2>3. [kind |-> "replay", from |-> entries[call[r].key].response] \in AnswerRecords
    BY <2>2 DEF AnswerRecords
  <2>4. PICK ans \in AnswerRecords : Claim(r, ans)
    BY <1>2, <1>4, <2>3 DEF InvokeBegins
  <2>5. QED
    BY <1>1, <2>4 DEF Claim
<1>5. CASE InvokeUnavailable(r)
  <2>1. PICK ans \in AnswerRecords : Claim(r, ans)
    BY <1>2, <1>5 DEF InvokeUnavailable
  <2>2. QED
    BY <1>1, <2>1 DEF Claim
<1>6. CASE Returns(r)
  <2>1. answer' = [answer EXCEPT ![r] = IF Keyed(r) THEN answer[r] ELSE Told("result")]
    BY <1>6 DEF Returns
  <2>2. QED
    BY <1>1, <1>2, <2>1
<1>7. CASE InvokeCompletes(r)
  BY <1>1, <1>2, <1>7 DEF InvokeCompletes
<1>8. QED
  BY <1>3, <1>4, <1>5, <1>6, <1>7 DEF Handling

-----------------------------------------------------------------------------
(* The invariant                                                           *)

(* Outside executeDirect nothing a request knows of itself changes but     *)
(* where it is.                                                            *)
LEMMA HandlingKeepsIt ==
  ASSUME DirectInv, NEW r \in Invocations, UNCHANGED HandlerUnchanged, Moves(r)
  PROVE  LocalInv(r)'
<1>0. /\ DirectTypeOK /\ audit \in [Invocations -> Seq(AuditTypes)]
      /\ BillFits(r) /\ MandateFits(r) /\ Progress(r) /\ Outcomes(r) /\ ChainIsTrue(r)
  BY Known DEF LocalInv
<1>1. /\ UNCHANGED <<hold, mandateUse, settleByHold, settled, released, call, plan, effectAt, bill,
                 charge, audit, record, told>>
  BY DEF HandlerUnchanged, billVars
<1>2. BillFits(r)' /\ MandateFits(r)'
  BY <1>0, <1>1, RecordFitsStill, MandateFitsStill
<1>3. Progress(r)'
  BY <1>0, <1>1 DEF Progress, Untouched, Moves, Running
<1>4. Outcomes(r)'
  BY <1>0, <1>1 DEF Outcomes
<1>5. ChainIsTrue(r)'
  <2>1. ASSUME NEW e \in AuditTypes, TellsTruth(r, e) PROVE TellsTruth(r, e)'
    BY <1>1, <2>1 DEF TellsTruth
  <2>2. QED
    BY <1>0, <1>1, <2>1, QuietChain
<1>6. QED
  BY <1>2, <1>3, <1>4, <1>5 DEF LocalInv

(* Every step of executeDirect preserves the invariant.                    *)
LEMMA ExecutionStep ==
  ASSUME DirectInv, NEW r \in Invocations, Execution(r)
  PROVE  DirectInv' /\ [BillNext]_billVars
<1>0. DirectTypeOK /\ BillFits(r) /\ Progress(r) /\ ClaimsAreHeld
  BY Known DEF DirectInv
<1>1. at[r] = "settle" => bill[r].hold \in Holds
  BY <1>0 DEF BillFits, Progress
<1>2. /\ ExecutionTypes'
      /\ OthersStay(r)
      /\ UNCHANGED <<entries, now, call, plan, answer>>
      /\ at[r] \in Running /\ at'[r] \in Running \cup {"return"}
  BY <1>0, <1>1, ExecutionKeepsTypes
<1>3. [BillNext]_billVars /\ BillInv' /\ HoldsAreOwn' /\ LeavesTheRest(r)
  BY ProcessorStep
<1>4. LocalInv(r)'
  BY ReserveKeepsIt, ExecuteKeepsIt, VoidKeepsIt, SettleKeepsIt, AnswerKeepsIt DEF Execution
<1>5. ASSUME NEW s \in Invocations \ {r} PROVE LocalInv(s)'
  <2>1. LocalInv(s) /\ UNCHANGED <<plan, call>>
    BY <1>2, Known
  <2>2. QED
    BY <1>0, <1>2, <1>3, <2>1, OthersKeepIt DEF OthersStay, LeavesTheRest
<1>6. ClaimsAreHeld'
  BY <1>0, <1>2, ExecutionKeepsClaims DEF OthersStay
<1>7. DirectTypeOK'
  <2>1. IdemTypeOK'
    BY <1>0, <1>2 DEF DirectTypeOK, IdemTypeOK
  <2>2. BillTypeOK'
    BY <1>3 DEF BillInv
  <2>3. QED
    BY <1>0, <1>2, <2>1, <2>2 DEF DirectTypeOK, ExecutionTypes, Answered, Records
<1>8. QED
  BY <1>3, <1>4, <1>5, <1>6, <1>7 DEF DirectInv

(* So does every step of the handler around it, a panic included.          *)
LEMMA HandlingStep ==
  ASSUME DirectInv, NEW r \in Invocations, Handling(r) \/ InvokePanics(r)
  PROVE  DirectInv'
<1>0. DirectTypeOK /\ ClaimsAreHeld /\ BillInv /\ HoldsAreOwn
  BY DEF DirectInv
<1>1. /\ UNCHANGED HandlerUnchanged
      /\ at' \in [Invocations -> Calls]
      /\ \A s \in Invocations \ {r} : at'[s] = at[s]
      /\ Moves(r)
      /\ Answers(r)
      /\ at[r] = "begin" /\ at'[r] = "reserve" => BeginNew(call[r].key, call[r].digest)
      /\ at[r] \in {"begin", "complete"} => Keyed(r)
  BY <1>0, HandlingShape
<1>2. UNCHANGED <<now, billVars, call, plan, effectAt, bill, charge, audit, record, told>>
  BY <1>1 DEF HandlerUnchanged
<1>3. BillInv' /\ HoldsAreOwn' /\ UNCHANGED <<hold, mandateUse, settleByHold, settled, released>>
  <2>1. UNCHANGED <<holdByKey, hold, mandateUse, settleByHold, settled, released>>
    BY <1>2 DEF billVars
  <2>2. HoldsAreOwn'
    BY <1>0, <1>2, <2>1 DEF HoldsAreOwn, KeysAreOwn, HoldsAreCeilings, MandatesAreMade
  <2>3. BillInv'
    BY <1>0, <1>2, BillStep
  <2>4. QED
    BY <2>1, <2>2, <2>3
<1>4. ClaimsAreHeld'
  BY <1>0, <1>1, <1>2, ClaimsStayHeld
<1>5. LocalInv(r)'
  BY <1>1, HandlingKeepsIt
<1>6. ASSUME NEW s \in Invocations \ {r} PROVE LocalInv(s)'
  <2>1. LocalInv(s)
    BY Known
  <2>2. QED
    BY <1>0, <1>1, <1>2, <1>3, <2>1, OthersKeepIt
<1>7. DirectTypeOK'
  <2>1. entries' \in [Keys -> Entry]
    <3>1. CASE UNCHANGED entries
      BY <1>0, <3>1 DEF DirectTypeOK, IdemTypeOK
    <3>2. CASE Keyed(r)
      BY <1>0, <1>1, <3>2, EntriesType
    <3>3. QED
      BY <1>1, <3>1, <3>2 DEF Answers
  <2>2. IdemTypeOK'
    BY <1>0, <1>2, <2>1 DEF DirectTypeOK, IdemTypeOK
  <2>3. answer' \in [Invocations -> AnswerRecords]
    <3>1. CASE InvokePanics(r)
      BY <1>0, <3>1 DEF InvokePanics, DirectTypeOK, AnswerRecords
    <3>2. QED
      BY <1>0, <3>1, AnswerType
  <2>4. BillTypeOK'
    BY <1>3 DEF BillInv
  <2>5. QED
    BY <1>0, <1>1, <1>2, <2>2, <2>3, <2>4 DEF DirectTypeOK, AnswerRecords
<1>8. QED
  BY <1>3, <1>4, <1>5, <1>6, <1>7 DEF DirectInv

(* And the clock.                                                          *)
LEMMA PassStep ==
  ASSUME DirectInv, Pass \/ UNCHANGED allVars
  PROVE  DirectInv'
<1>0. DirectTypeOK /\ ClaimsAreHeld /\ BillInv /\ HoldsAreOwn
  BY DEF DirectInv
<1>1. UNCHANGED <<entries, billVars, directVars>> /\ now' \in 0 .. MaxTime
  BY <1>0, IdempotencyConstants DEF Pass, Tick, allVars, DirectTypeOK, IdemTypeOK
<1>2. UNCHANGED <<call, plan, at, effectAt, bill, charge, audit, record, told, answer>>
  BY <1>1 DEF directVars
<1>3. BillInv' /\ HoldsAreOwn' /\ UNCHANGED <<hold, mandateUse, settleByHold, settled, released>>
  <2>1. UNCHANGED <<holdByKey, hold, mandateUse, settleByHold, settled, released>>
    BY <1>1 DEF billVars
  <2>2. HoldsAreOwn'
    BY <1>0, <1>2, <2>1 DEF HoldsAreOwn, KeysAreOwn, HoldsAreCeilings, MandatesAreMade
  <2>3. BillInv'
    BY <1>0, <1>1, BillStep
  <2>4. QED
    BY <2>1, <2>2, <2>3
<1>4. ClaimsAreHeld'
  BY <1>0, <1>1, <1>2 DEF ClaimsAreHeld, Claims, Keyed, Held
<1>5. ASSUME NEW s \in Invocations PROVE LocalInv(s)'
  <2>1. LocalInv(s)
    BY Known
  <2>2. QED
    BY <1>0, <1>2, <1>3, <2>1, OthersKeepIt
<1>6. DirectTypeOK'
  <2>1. IdemTypeOK'
    BY <1>0, <1>1 DEF DirectTypeOK, IdemTypeOK
  <2>2. BillTypeOK'
    BY <1>3 DEF BillInv
  <2>3. QED
    BY <1>0, <1>2, <2>1, <2>2 DEF DirectTypeOK
<1>7. QED
  BY <1>3, <1>4, <1>5, <1>6 DEF DirectInv

(* The invariant holds of every step.                                      *)
LEMMA DirectStep == DirectInv /\ [DirectNext]_allVars => DirectInv'
  BY ExecutionStep, HandlingStep, PassStep DEF DirectNext

(* So it always holds.                                                     *)
LEMMA DirectInductive == DirectSpec => []DirectInv
  BY DirectInitially, DirectStep, PTL DEF DirectSpec

-----------------------------------------------------------------------------
(* What follows                                                            *)

(* The claim table, the processor and the invocations keep their types.    *)
THEOREM DirectTypeCorrect == DirectSpec => []DirectTypeOK
<1>1. DirectInv => DirectTypeOK
  BY DEF DirectInv
<1>2. QED
  BY DirectInductive, <1>1, PTL

(* A succeeded invocation had its effect and is charged what its record    *)
(* says, whatever failed on the way.                                       *)
THEOREM SuccessIsCharged == DirectSpec => []SucceededIsCharged
<1>1. DirectInv => SucceededIsCharged
  <2>1. SUFFICES ASSUME DirectInv, NEW r \in Invocations,
                        record[r].state = "succeeded" \/ told[r].state = "succeeded"
                 PROVE  /\ effectAt[r] # Never
                        /\ IF plan[r].free
                           THEN bill[r].hold = None
                           ELSE /\ bill[r].settlement # None
                                /\ settleByHold[bill[r].hold] = bill[r].settlement
                                /\ settled[bill[r].settlement] = bill[r].amount
                                /\ bill[r].amount <= plan[bill[r].hold].ceiling
    BY DEF SucceededIsCharged
  <2>2. BillFits(r) /\ Outcomes(r)
    BY <2>1, Known
  <2>3. QED
    BY <2>1, <2>2, BillingConstants DEF BillFits, Outcomes
<1>2. QED
  BY DirectInductive, <1>1, PTL

(* No invocation is charged without its effect, nor one called failed.     *)
THEOREM ChargesHaveEffects == DirectSpec => []ChargedOnlyForAnEffect
<1>1. DirectInv => ChargedOnlyForAnEffect
  BY Known DEF ChargedOnlyForAnEffect, Outcomes
<1>2. QED
  BY DirectInductive, <1>1, PTL

(* An answer is what GET /v1/invocations/{id} serves.                      *)
THEOREM AnswersAreRecorded == DirectSpec => []AnswerIsRecorded
<1>1. DirectInv => AnswerIsRecorded
  BY Known DEF AnswerIsRecorded, Outcomes
<1>2. QED
  BY DirectInductive, <1>1, PTL

(* The chain of an invocation, with or without gaps, tells the truth.      *)
THEOREM ChainsTellTheTruth == DirectSpec => []AuditTellsTheTruth
<1>1. DirectInv => AuditTellsTheTruth
  <2>1. SUFFICES ASSUME DirectInv, NEW r \in Invocations, NEW i \in DOMAIN audit[r]
                 PROVE  /\ audit[r][i] = "settled" =>
                              settleByHold[bill[r].hold] = bill[r].settlement
                              /\ bill[r].settlement # None
                        /\ audit[r][i] = "succeeded" => effectAt[r] # Never
                        /\ audit[r][i] = "failed" =>
                              bill[r].hold = None \/ bill[r].hold \in released
                        /\ audit[r][i] = "receipt" => record[r] # NoRecord
    BY DEF AuditTellsTheTruth
  <2>2. BillFits(r) /\ TellsTruth(r, audit[r][i])
    BY <2>1, Known DEF ChainIsTrue
  <2>3. QED
    BY <2>2, BillingConstants DEF BillFits, TellsTruth
<1>2. QED
  BY DirectInductive, <1>1, PTL

(* A single-use authorization pays for one body under one key: whatever    *)
(* retries are served by it share the hold the first of them made.         *)
THEOREM MandatesPayOnce == DirectSpec => []OneHoldPerMandate
<1>1. DirectInv => OneHoldPerMandate
  <2>1. SUFFICES ASSUME DirectInv, NEW r \in Invocations, NEW s \in Invocations,
                        PaysSingleUse(r), PaysSingleUse(s),
                        AuthOf(r).ref = AuthOf(s).ref,
                        bill[r].hold # None, bill[s].hold # None
                 PROVE  /\ bill[r].hold = bill[s].hold
                        /\ call[r].digest = call[s].digest
                        /\ BillingKey(r) = BillingKey(s)
    BY DEF OneHoldPerMandate
  <2>2. MandateFits(r) /\ MandateFits(s)
    BY <2>1 DEF DirectInv, LocalInv
  <2>3. UseOf(r) = UseOf(s)
    BY <2>1, <2>2 DEF MandateFits
  <2>4. QED
    BY <2>3 DEF UseOf
<1>2. QED
  BY DirectInductive, <1>1, PTL

(* A panic locks the key of its request for good.                          *)
THEOREM PanicsLockTheirKeys == DirectSpec => []PanicLocksItsKey
<1>1. DirectInv => PanicLocksItsKey
  BY DEF DirectInv, ClaimsAreHeld, Claims, PanicLocksItsKey
<1>2. QED
  BY DirectInductive, <1>1, PTL

(* Direct invocations change the processor through its four calls only.    *)
THEOREM DirectImplementsBilling == DirectSpec => ImplementsBilling
<1>1. DirectInit => BillInit
  BY DEF DirectInit
<1>2. DirectInv /\ [DirectNext]_allVars => [BillNext]_billVars
  <2>1. SUFFICES ASSUME DirectInv, [DirectNext]_allVars PROVE [BillNext]_billVars
    OBVIOUS
  <2>2. ASSUME NEW r \in Invocations, Handling(r) \/ InvokePanics(r) PROVE UNCHANGED billVars
    BY <2>1, <2>2, HandlingShape DEF HandlerUnchanged, DirectInv
  <2>3. CASE Pass \/ UNCHANGED allVars
    BY <2>3 DEF Pass, allVars
  <2>4. QED
    BY <2>1, <2>2, <2>3, ExecutionStep DEF DirectNext
<1>3. QED
  BY DirectInductive, <1>1, <1>2, PTL DEF DirectSpec, ImplementsBilling, BillSpec

-----------------------------------------------------------------------------
(* The refinement of the request handler                                   *)

(* What handleMutating's goroutine of a request would look like.           *)
PcView == [r \in Invocations |-> HandlerPc(r)]
KeyView == [r \in Invocations |-> IF Keyed(r) THEN call[r].key ELSE AnyKey]
DigestView == [r \in Invocations |-> call[r].digest]
EffectView == [r \in Invocations |-> IF Keyed(r) THEN effectAt[r] ELSE Never]
AnswerView == [r \in Invocations |-> IF ~Keyed(r) THEN NoAnswer
                                     ELSE IF at[r] = "panicked" THEN Told("unknown")
                                     ELSE answer[r]]

(* Requests are sent with keys and bodies.                                 *)
LEMMA HandlerInitially == DirectInit => Handler!Init
<1> SUFFICES ASSUME DirectInit PROVE Handler!Init
  OBVIOUS
<1>1. AnyKey \in Keys
  BY DirectConstants DEF AnyKey
<1>2. \A r \in Invocations : call[r] \in DirectCalls
  BY DEF DirectInit
<1>3. KeyView \in [Invocations -> Keys] /\ DigestView \in [Invocations -> Digests]
  BY <1>1, <1>2 DEF KeyView, DigestView, Keyed, DirectCalls
<1>4. PcView = [r \in Invocations |-> "sent"]
  <2>1. ASSUME NEW r \in Invocations PROVE HandlerPc(r) = "sent"
    <3>1. at[r] = "plan"
      BY DEF DirectInit
    <3>2. QED
      BY <3>1 DEF HandlerPc, Running
  <2>2. QED
    BY <2>1 DEF PcView
<1>5. EffectView = [r \in Invocations |-> Handler!Never]
  BY DEF EffectView, Never, Handler!Never, DirectInit
<1>6. AnswerView = [r \in Invocations |-> Handler!NoAnswer]
  BY DEF AnswerView, NoAnswer, Handler!NoAnswer, DirectInit
<1>7. Handler!IdemInit
  BY DEF DirectInit, IdemInit, Handler!IdemInit, NoEntry, Handler!NoEntry
<1>8. QED
  BY <1>3, <1>4, <1>5, <1>6, <1>7
  DEF Handler!Init, PcView, KeyView, DigestView, EffectView, AnswerView

(* A step of one request changes its part of the view only.                *)
LEMMA ViewStep ==
  ASSUME DirectTypeOK, NEW r \in Invocations, UNCHANGED call,
         \A s \in Invocations \ {r} :
           at'[s] = at[s] /\ effectAt'[s] = effectAt[s] /\ answer'[s] = answer[s]
  PROVE  /\ UNCHANGED <<KeyView, DigestView>>
         /\ PcView' = [PcView EXCEPT ![r] = HandlerPc(r)']
         /\ EffectView' = [EffectView EXCEPT ![r] = IF Keyed(r) THEN effectAt'[r] ELSE Never]
         /\ AnswerView' = [AnswerView EXCEPT ![r] = IF ~Keyed(r) THEN NoAnswer
                                     ELSE IF at'[r] = "panicked" THEN Told("unknown")
                                     ELSE answer'[r]]
<1>1. \A s \in Invocations : Keyed(s)' <=> Keyed(s)
  BY DEF Keyed
<1>2. UNCHANGED <<KeyView, DigestView>>
  BY <1>1 DEF KeyView, DigestView
<1>3. \A s \in Invocations \ {r} : HandlerPc(s)' = HandlerPc(s)
  BY <1>1 DEF HandlerPc
<1>4. PcView' = [PcView EXCEPT ![r] = HandlerPc(r)']
  BY <1>3 DEF PcView
<1>5. EffectView' = [EffectView EXCEPT ![r] = IF Keyed(r) THEN effectAt'[r] ELSE Never]
  BY <1>1 DEF EffectView
<1>6. AnswerView' = [AnswerView EXCEPT ![r] = IF ~Keyed(r) THEN NoAnswer
                                     ELSE IF at'[r] = "panicked" THEN Told("unknown")
                                     ELSE answer'[r]]
  BY <1>1 DEF AnswerView
<1>7. QED
  BY <1>2, <1>4, <1>5, <1>6

(* A request that stays where it is for the handler takes no step of it.   *)
LEMMA ViewStays ==
  ASSUME DirectTypeOK, NEW r \in Invocations, UNCHANGED <<entries, now, call>>,
         \A s \in Invocations \ {r} :
           at'[s] = at[s] /\ effectAt'[s] = effectAt[s] /\ answer'[s] = answer[s],
         HandlerPc(r)' = HandlerPc(r),
         Keyed(r) => /\ effectAt'[r] = effectAt[r] /\ answer'[r] = answer[r]
                     /\ at[r] # "panicked" /\ at'[r] # "panicked"
  PROVE  UNCHANGED Handler!vars
<1>1. UNCHANGED <<KeyView, DigestView>>
  BY ViewStep
<1>2. PcView' = PcView
  <2>1. PcView' = [PcView EXCEPT ![r] = PcView[r]]
    BY ViewStep DEF PcView
  <2>2. QED
    BY <2>1 DEF PcView
<1>3. EffectView' = EffectView
  <2>1. EffectView' = [EffectView EXCEPT ![r] = EffectView[r]]
    BY ViewStep DEF EffectView
  <2>2. QED
    BY <2>1 DEF EffectView
<1>4. AnswerView' = AnswerView
  <2>1. AnswerView' = [AnswerView EXCEPT ![r] = AnswerView[r]]
    BY ViewStep DEF AnswerView
  <2>2. QED
    BY <2>1 DEF AnswerView
<1>5. QED
  BY <1>1, <1>2, <1>3, <1>4 DEF Handler!vars, Handler!handlerVars, PcView, KeyView, DigestView, EffectView, AnswerView

(* Whatever executeDirect does, the handler sees an effect or nothing.     *)
LEMMA ExecutionRefines ==
  ASSUME DirectInv, NEW r \in Invocations, Execution(r)
  PROVE  [Handler!Next]_Handler!vars
<1>0. DirectTypeOK /\ BillFits(r) /\ Progress(r)
  BY Known
<1>1. at[r] = "settle" => bill[r].hold \in Holds
  BY <1>0 DEF BillFits, Progress
<1>2. /\ OthersStay(r)
      /\ UNCHANGED <<entries, now, call, plan, answer>>
      /\ at[r] \in Running /\ at'[r] \in Running \cup {"return"}
  BY <1>0, <1>1, ExecutionKeepsTypes
<1>3. UNCHANGED effectAt \/ (at[r] = "execute" /\ Performs(r))
  <2>1. CASE ExecuteOk(r) \/ ExecuteMisprices(r) \/ ExecuteProblem(r)
    BY <2>1 DEF ExecuteOk, ExecuteMisprices, ExecuteProblem, Goto, Result
  <2>2. CASE ReserveFree(r) \/ ReserveOk(r) \/ ReserveRefused(r) \/ ReserveErrs(r)
    BY <2>2 DEF ReserveFree, ReserveOk, ReserveRefused, ReserveErrs
  <2>3. CASE Void(r) \/ VoidPrice(r) \/ SettleOk(r) \/ SettleErrs(r)
    BY <2>3 DEF Void, VoidPrice, SettleOk, SettleErrs
  <2>4. CASE Sign(r) \/ PutInvocation(r) \/ Issue(r)
    BY <2>4 DEF Sign, PutInvocation, Issue
  <2>5. QED
    BY <2>1, <2>2, <2>3, <2>4 DEF Execution
<1>4. \A s \in Invocations \ {r} :
        at'[s] = at[s] /\ effectAt'[s] = effectAt[s] /\ answer'[s] = answer[s]
  BY <1>2 DEF OthersStay
<1>5. at[r] # "panicked" /\ at'[r] # "panicked"
  BY <1>2 DEF Running
<1>6. HandlerPc(r)' = HandlerPc(r) /\ (Keyed(r) => HandlerPc(r) = "running")
  <2>1. Keyed(r)' <=> Keyed(r)
    BY <1>2 DEF Keyed
  <2>2. QED
    BY <1>2, <2>1 DEF HandlerPc, Running
<1>7. CASE ~Keyed(r) \/ UNCHANGED effectAt
  <2>1. UNCHANGED Handler!vars
    BY <1>0, <1>2, <1>4, <1>5, <1>6, <1>7, ViewStays
  <2>2. QED
    BY <2>1
<1>8. CASE Keyed(r) /\ at[r] = "execute" /\ Performs(r)
  <2>1. effectAt[r] = Never /\ effectAt'[r] = now
    BY <1>0, <1>8 DEF Progress, Performs, DirectTypeOK
  <2>2. /\ UNCHANGED <<KeyView, DigestView>>
        /\ PcView' = [PcView EXCEPT ![r] = "running"]
        /\ EffectView' = [EffectView EXCEPT ![r] = now]
        /\ AnswerView' = [AnswerView EXCEPT ![r] = answer[r]]
    BY <1>0, <1>2, <1>4, <1>5, <1>6, <1>8, <2>1, ViewStep
  <2>3. PcView[r] = "running" /\ EffectView[r] = Never /\ AnswerView[r] = answer[r]
    BY <1>5, <1>6, <1>8, <2>1 DEF PcView, EffectView, AnswerView
  <2>4. UNCHANGED <<PcView, AnswerView>>
    BY <2>2, <2>3 DEF PcView, AnswerView
  <2>5. Handler!CrossEffect(r)
    BY <1>2, <2>2, <2>3, <2>4
    DEF Handler!CrossEffect, Handler!Never, Never, PcView, KeyView, DigestView, EffectView, AnswerView
  <2>6. QED
    BY <2>5 DEF Handler!Next, Handler!RequestStep
<1>9. QED
  BY <1>3, <1>7, <1>8

(* Only the request of a step is answered.                                 *)
LEMMA HandlingAnswers ==
  ASSUME DirectTypeOK, NEW r \in Invocations, Handling(r) \/ InvokePanics(r)
  PROVE  \A s \in Invocations \ {r} : answer'[s] = answer[s]
<1>1. UNCHANGED answer \/ \E a : answer' = [answer EXCEPT ![r] = a]
  <2>1. CASE Plan(r) \/ PlanRefuses(r) \/ InvokePanics(r)
    BY <2>1 DEF Plan, PlanRefuses, InvokePanics
  <2>2. CASE InvokeBegins(r) \/ InvokeUnavailable(r)
    BY <2>2 DEF InvokeBegins, InvokeUnavailable, Claim
  <2>3. CASE Returns(r) \/ InvokeCompletes(r)
    BY <2>3 DEF Returns, InvokeCompletes
  <2>4. QED
    BY <2>1, <2>2, <2>3 DEF Handling
<1>2. answer \in [Invocations -> AnswerRecords]
  BY DEF DirectTypeOK, AnswerRecords
<1>3. QED
  BY <1>1, <1>2

(* The four places a request has for the handler.                          *)
PcCases(r) ==
  /\ ~Keyed(r) \/ at[r] \in {"plan", "refused", "begin"} => HandlerPc(r) = "sent"
  /\ Keyed(r) /\ at[r] \in Running \cup {"return"} => HandlerPc(r) = "running"
  /\ Keyed(r) /\ at[r] = "complete" => HandlerPc(r) = "returned"
  /\ Keyed(r) /\ at[r] \in {"done", "panicked"} => HandlerPc(r) = "done"

(* Before and after any step.                                              *)
LEMMA PcIs == ASSUME NEW r \in Invocations PROVE PcCases(r) /\ PcCases(r)'
<1>1. PcCases(r)
  BY DEF PcCases, HandlerPc, Running
<1>2. PcCases(r)'
  BY DEF PcCases, HandlerPc, Running
<1>3. QED
  BY <1>1, <1>2

(* Nothing is answered before the claim.                                   *)
Unanswered == \A r \in Invocations : at[r] \in {"plan", "begin"} => answer[r] = NoAnswer

(* It holds of every step.                                                 *)
LEMMA UnansweredAlways == DirectSpec => [](DirectInv /\ Unanswered)
<1>1. DirectInit => Unanswered
  BY DEF DirectInit, Unanswered
<1>2. DirectInv /\ Unanswered /\ [DirectNext]_allVars => Unanswered'
  <2> SUFFICES ASSUME DirectInv, Unanswered, [DirectNext]_allVars PROVE Unanswered'
    OBVIOUS
  <2>1. DirectTypeOK /\ ClaimsAreHeld
    BY DEF DirectInv
  <2>2. ASSUME NEW r \in Invocations, Handling(r) \/ InvokePanics(r) PROVE Unanswered'
    <3>1. /\ \A s \in Invocations \ {r} : at'[s] = at[s]
          /\ Moves(r)
      BY <2>1, <2>2, HandlingShape
    <3>2. \A s \in Invocations \ {r} : answer'[s] = answer[s]
      BY <2>1, <2>2, HandlingAnswers
    <3>3. at'[r] \in {"plan", "begin"} => at[r] = "plan" /\ UNCHANGED answer
      <4>1. at'[r] \in {"plan", "begin"} => at[r] = "plan"
        BY <3>1 DEF Moves
      <4>2. CASE Plan(r) \/ PlanRefuses(r) \/ InvokePanics(r)
        BY <4>1, <4>2 DEF Plan, PlanRefuses, InvokePanics
      <4>3. CASE InvokeBegins(r) \/ InvokeUnavailable(r) \/ Returns(r) \/ InvokeCompletes(r)
        BY <4>1, <4>3 DEF InvokeBegins, InvokeUnavailable, Returns, InvokeCompletes, Goto
      <4>4. QED
        BY <2>2, <4>2, <4>3 DEF Handling
    <3>4. QED
      BY <3>1, <3>2, <3>3 DEF Unanswered
  <2>3. ASSUME NEW r \in Invocations, Execution(r) PROVE Unanswered'
    <3>1. BillFits(r) /\ Progress(r)
      BY Known
    <3>2. at[r] = "settle" => bill[r].hold \in Holds
      BY <3>1 DEF BillFits, Progress
    <3>3. OthersStay(r) /\ UNCHANGED answer /\ at'[r] \in Running \cup {"return"}
      BY <2>1, <2>3, <3>2, ExecutionKeepsTypes
    <3>4. QED
      BY <3>3 DEF Unanswered, OthersStay, Running
  <2>4. CASE Pass \/ UNCHANGED allVars
    BY <2>4 DEF Pass, allVars, directVars, Unanswered
  <2>5. QED
    BY <2>2, <2>3, <2>4 DEF DirectNext
<1>3. QED
  BY DirectInductive, <1>1, <1>2, PTL DEF DirectSpec

(* A request that claims takes one of the claim steps of the handler.      *)
LEMMA ClaimRefines ==
  ASSUME DirectInv, Unanswered, NEW r \in Invocations,
         InvokeBegins(r) \/ InvokeUnavailable(r)
  PROVE  Handler!Next
<1> DEFINE k == call[r].key
           d == call[r].digest
<1>0. DirectTypeOK /\ ClaimsAreHeld
  BY DEF DirectInv
<1>1. PICK ans :
        /\ Claim(r, ans)
        /\ \/ BeginNew(k, d) /\ ans = NoAnswer
           \/ BeginReplay(k, d) /\ ans = [kind |-> "replay", from |-> entries[k].response]
           \/ BeginConflict(k, d) /\ ans = Told("conflict")
           \/ BeginInProgress(k, d) /\ ans = Told("in_progress")
           \/ /\ BackendFaults # {}
              /\ BeginNew(k, d) \/ UNCHANGED entries
              /\ ans = Told("unavailable")
  <2>1. CASE InvokeBegins(r)
    BY <2>1 DEF InvokeBegins
  <2>2. CASE InvokeUnavailable(r)
    BY <2>2 DEF InvokeUnavailable
  <2>3. QED
    BY <2>1, <2>2
<1>2. /\ at[r] = "begin" /\ answer[r] = NoAnswer /\ Keyed(r)
      /\ at' = [at EXCEPT ![r] = IF ans = NoAnswer THEN "reserve" ELSE "done"]
      /\ answer' = [answer EXCEPT ![r] = ans]
      /\ UNCHANGED <<now, call, effectAt>>
  BY <1>0, <1>1 DEF Claim, Goto, Unanswered, ClaimsAreHeld
<1>3. /\ at'[r] = IF ans = NoAnswer THEN "reserve" ELSE "done"
      /\ answer'[r] = ans
      /\ \A s \in Invocations \ {r} :
           at'[s] = at[s] /\ effectAt'[s] = effectAt[s] /\ answer'[s] = answer[s]
      /\ Keyed(r)'
  BY <1>0, <1>2 DEF DirectTypeOK, Keyed
<1>4. HandlerPc(r) = "sent"
  BY <1>2, PcIs DEF PcCases
<1>5. HandlerPc(r)' = IF ans = NoAnswer THEN "running" ELSE "done"
  <2>1. CASE ans = NoAnswer
    BY <1>3, <2>1, PcIs DEF PcCases, Running
  <2>2. CASE ans # NoAnswer
    BY <1>3, <2>2, PcIs DEF PcCases, Running
  <2>3. QED
    BY <2>1, <2>2
<1>6. /\ UNCHANGED <<KeyView, DigestView>>
      /\ PcView' = [PcView EXCEPT ![r] = IF ans = NoAnswer THEN "running" ELSE "done"]
      /\ EffectView' = [EffectView EXCEPT ![r] = effectAt[r]]
      /\ AnswerView' = [AnswerView EXCEPT ![r] = ans]
  <2>1. at'[r] # "panicked"
    BY <1>3
  <2>2. QED
    BY <1>0, <1>2, <1>3, <1>5, <2>1, ViewStep
<1>7. /\ PcView[r] = "sent" /\ KeyView[r] = k /\ DigestView[r] = d
      /\ AnswerView[r] = NoAnswer /\ EffectView[r] = effectAt[r]
  BY <1>2, <1>4 DEF PcView, KeyView, DigestView, AnswerView, EffectView
<1>8. UNCHANGED EffectView
  BY <1>6, <1>7 DEF EffectView
<1>9. ans # NoAnswer => PcView' = [PcView EXCEPT ![r] = "done"]
  BY <1>6
<1> USE DEF PcView, KeyView, DigestView, EffectView, AnswerView
<1>10. NoAnswer.kind # "replay" /\ \A kind \in {"conflict", "in_progress", "unavailable"} :
          Told(kind) # NoAnswer /\ Told(kind) = Handler!Told(kind)
  BY DEF NoAnswer, Told, Handler!Told
<1>11. CASE BeginNew(k, d) /\ ans = NoAnswer
  <2>1. AnswerView' = AnswerView
    BY <1>6, <1>7, <1>11
  <2>2. PcView' = [PcView EXCEPT ![r] = "running"]
    BY <1>6, <1>11
  <2>3. Handler!BeginNew(KeyView[r], DigestView[r])
    BY <1>7, <1>11 DEF BeginNew, Handler!BeginNew, Expired, Handler!Expired
  <2>4. Handler!ClaimNew(r)
    BY <1>2, <1>6, <1>7, <1>8, <2>1, <2>2, <2>3 DEF Handler!ClaimNew, Handler!Goto
  <2>5. QED
    BY <2>4 DEF Handler!Next, Handler!RequestStep
<1>12. CASE BeginReplay(k, d) /\ ans = [kind |-> "replay", from |-> entries[k].response]
  <2>1. ans # NoAnswer
    BY <1>10, <1>12
  <2>2. Handler!BeginReplay(KeyView[r], DigestView[r])
    BY <1>7, <1>12 DEF BeginReplay, Handler!BeginReplay, Expired, Handler!Expired
  <2>3. Handler!ClaimReplay(r)
    BY <1>2, <1>6, <1>7, <1>8, <1>9, <1>12, <2>1, <2>2
    DEF Handler!ClaimReplay, Handler!Goto, Handler!Reply
  <2>4. QED
    BY <2>3 DEF Handler!Next, Handler!RequestStep
<1>13. CASE BeginConflict(k, d) /\ ans = Told("conflict")
  <2>1. Handler!BeginConflict(KeyView[r], DigestView[r])
    BY <1>7, <1>13 DEF BeginConflict, Handler!BeginConflict
  <2>2. Handler!ClaimConflict(r)
    BY <1>2, <1>6, <1>7, <1>8, <1>9, <1>10, <1>13, <2>1
    DEF Handler!ClaimConflict, Handler!Goto, Handler!Reply
  <2>3. QED
    BY <2>2 DEF Handler!Next, Handler!RequestStep
<1>14. CASE BeginInProgress(k, d) /\ ans = Told("in_progress")
  <2>1. Handler!BeginInProgress(KeyView[r], DigestView[r])
    BY <1>7, <1>14 DEF BeginInProgress, Handler!BeginInProgress, Held, Handler!Held
  <2>2. Handler!ClaimInProgress(r)
    BY <1>2, <1>6, <1>7, <1>8, <1>9, <1>10, <1>14, <2>1
    DEF Handler!ClaimInProgress, Handler!Goto, Handler!Reply
  <2>3. QED
    BY <2>2 DEF Handler!Next, Handler!RequestStep
<1>15. CASE /\ BackendFaults # {}
            /\ BeginNew(k, d) \/ UNCHANGED entries
            /\ ans = Told("unavailable")
  <2>1. Handler!BeginNew(KeyView[r], DigestView[r]) \/ UNCHANGED entries
    BY <1>7, <1>15 DEF BeginNew, Handler!BeginNew, Expired, Handler!Expired
  <2>2. Handler!ClaimUnavailable(r)
    BY <1>2, <1>6, <1>7, <1>8, <1>9, <1>10, <1>15, <2>1
    DEF Handler!ClaimUnavailable, Handler!Goto, Handler!Reply
  <2>3. QED
    BY <2>2 DEF Handler!Next, Handler!RequestStep
<1>16. QED
  BY <1>1, <1>11, <1>12, <1>13, <1>14, <1>15

(* One that is done with executeDirect returns, completes or has panicked. *)
LEMMA EndRefines ==
  ASSUME DirectInv, NEW r \in Invocations, Keyed(r),
         Returns(r) \/ InvokeCompletes(r) \/ InvokePanics(r)
  PROVE  Handler!Next
<1>0. DirectTypeOK /\ ClaimsAreHeld
  BY DEF DirectInv
<1>1. /\ \A s \in Invocations \ {r} : at'[s] = at[s]
      /\ UNCHANGED <<now, call, effectAt>>
  BY <1>0, HandlingShape DEF Handling, HandlerUnchanged
<1>2. Keyed(r)' /\ \A s \in Invocations \ {r} :
        at'[s] = at[s] /\ effectAt'[s] = effectAt[s] /\ answer'[s] = answer[s]
  BY <1>0, <1>1, HandlingAnswers DEF Keyed, Handling
<1>3. /\ UNCHANGED <<KeyView, DigestView>>
      /\ PcView' = [PcView EXCEPT ![r] = HandlerPc(r)']
      /\ EffectView' = [EffectView EXCEPT ![r] = effectAt[r]]
      /\ AnswerView' = [AnswerView EXCEPT ![r] =
                          IF at'[r] = "panicked" THEN Told("unknown") ELSE answer'[r]]
  BY <1>0, <1>1, <1>2, ViewStep
<1>4. /\ PcView[r] = HandlerPc(r) /\ KeyView[r] = call[r].key /\ DigestView[r] = call[r].digest
      /\ EffectView[r] = effectAt[r]
      /\ at[r] # "panicked" => AnswerView[r] = answer[r]
  BY DEF PcView, KeyView, DigestView, AnswerView, EffectView
<1>5. UNCHANGED EffectView
  BY <1>3, <1>4 DEF EffectView
<1>6. \A kind \in {"unknown", "result"} : Told(kind) = Handler!Told(kind)
  BY DEF Told, Handler!Told
<1> USE DEF PcView, KeyView, DigestView, EffectView, AnswerView
<1>7. CASE Returns(r)
  <2>1. at[r] = "return" /\ at' = [at EXCEPT ![r] = "complete"] /\ answer' = answer
        /\ UNCHANGED entries
    <3>1. answer \in [Invocations -> AnswerRecords]
      BY <1>0 DEF DirectTypeOK, AnswerRecords
    <3>2. QED
      BY <1>7, <3>1 DEF Returns, Goto
  <2>2. at'[r] = "complete"
    BY <1>0, <2>1 DEF DirectTypeOK
  <2>3. HandlerPc(r) = "running" /\ HandlerPc(r)' = "returned"
    BY <1>2, <2>1, <2>2, PcIs DEF PcCases
  <2>4. AnswerView' = AnswerView
    BY <1>3, <1>4, <2>1, <2>2
  <2>5. PcView' = [PcView EXCEPT ![r] = "returned"]
    BY <1>3, <2>3
  <2>6. Handler!Return(r)
    <3>1. [s \in Invocations |-> FALSE] = [[s \in Invocations |-> FALSE] EXCEPT ![r] = FALSE]
      OBVIOUS
    <3>2. QED
      BY <1>1, <1>3, <1>4, <1>5, <2>1, <2>3, <2>4, <2>5, <3>1 DEF Handler!Return, Handler!Goto
  <2>7. QED
    BY <2>6 DEF Handler!Next, Handler!RequestStep
<1>8. CASE InvokeCompletes(r)
  <2>1. at[r] = "complete" /\ at'[r] = "done"
    BY <1>0, <1>8 DEF InvokeCompletes, Goto, DirectTypeOK
  <2>2. HandlerPc(r) = "returned" /\ HandlerPc(r)' = "done"
    BY <1>2, <2>1, PcIs DEF PcCases
  <2>3. PcView' = [PcView EXCEPT ![r] = "done"] /\ PcView[r] = "returned"
        /\ AnswerView' = [AnswerView EXCEPT ![r] = answer'[r]]
    BY <1>3, <1>4, <2>1, <2>2
  <2>4. CASE Complete(call[r].key, r) /\ answer' = [answer EXCEPT ![r] = Told("result")]
    <3>1. answer'[r] = Told("result")
      BY <1>0, <2>4 DEF DirectTypeOK
    <3>2. Handler!Complete(KeyView[r], r)
      BY <1>4, <2>4 DEF Complete, Handler!Complete
    <3>3. Handler!CompleteClaim(r)
      BY <1>1, <1>3, <1>5, <1>6, <2>3, <3>1, <3>2
      DEF Handler!CompleteClaim, Handler!Goto, Handler!Reply
    <3>4. QED
      BY <3>3 DEF Handler!Next, Handler!RequestStep
  <2>5. CASE /\ \/ CompleteRefused(call[r].key)
                \/ r \in BackendFaults /\ (Complete(call[r].key, r) \/ UNCHANGED entries)
             /\ answer' = [answer EXCEPT ![r] = Told("unknown")]
    <3>1. answer'[r] = Told("unknown")
      BY <1>0, <2>5 DEF DirectTypeOK
    <3>2. \/ Handler!CompleteRefused(KeyView[r])
          \/ BackendFaults # {} /\ (Handler!Complete(KeyView[r], r) \/ UNCHANGED entries)
      BY <1>4, <2>5 DEF Complete, Handler!Complete, CompleteRefused, Handler!CompleteRefused
    <3>3. Handler!CompleteClaimFails(r)
      BY <1>1, <1>3, <1>5, <1>6, <2>3, <3>1, <3>2
      DEF Handler!CompleteClaimFails, Handler!Goto, Handler!Reply
    <3>4. QED
      BY <3>3 DEF Handler!Next, Handler!RequestStep
  <2>6. QED
    BY <1>8, <2>4, <2>5 DEF InvokeCompletes
<1>9. CASE InvokePanics(r)
  <2>1. at[r] \in Running /\ at'[r] = "panicked" /\ UNCHANGED entries
    BY <1>0, <1>9 DEF InvokePanics, DirectTypeOK
  <2>2. HandlerPc(r) = "running" /\ HandlerPc(r)' = "done"
    BY <1>2, <2>1, PcIs DEF PcCases
  <2>3. PcView' = [PcView EXCEPT ![r] = "done"] /\ PcView[r] = "running"
        /\ AnswerView' = [AnswerView EXCEPT ![r] = Told("unknown")]
    BY <1>3, <1>4, <2>1, <2>2
  <2>4. Handler!Panic(r)
    BY <1>1, <1>3, <1>5, <1>6, <2>1, <2>3 DEF Handler!Panic, Handler!Goto, Handler!Reply
  <2>5. QED
    BY <2>4 DEF Handler!Next, Handler!RequestStep
<1>10. QED
  BY <1>7, <1>8, <1>9

(* The steps around it are those of handleMutating.                        *)
LEMMA HandlingRefines ==
  ASSUME DirectInv, Unanswered, NEW r \in Invocations, Handling(r) \/ InvokePanics(r)
  PROVE  [Handler!Next]_Handler!vars
<1>0. DirectTypeOK /\ ClaimsAreHeld
  BY DEF DirectInv
<1>1. /\ \A s \in Invocations \ {r} : at'[s] = at[s]
      /\ Moves(r)
      /\ UNCHANGED <<now, call, effectAt>>
  BY <1>0, HandlingShape DEF HandlerUnchanged
<1>2. (Keyed(r)' <=> Keyed(r)) /\ \A s \in Invocations \ {r} :
        at'[s] = at[s] /\ effectAt'[s] = effectAt[s] /\ answer'[s] = answer[s]
  BY <1>0, <1>1, HandlingAnswers DEF Keyed
<1>3. CASE InvokeBegins(r) \/ InvokeUnavailable(r)
  BY <1>3, ClaimRefines
<1>4. CASE Keyed(r) /\ (Returns(r) \/ InvokeCompletes(r) \/ InvokePanics(r))
  BY <1>4, EndRefines
<1>5. CASE Plan(r) \/ PlanRefuses(r)
  <2>1. at[r] = "plan" /\ UNCHANGED <<entries, answer>>
    BY <1>5 DEF Plan, PlanRefuses, Goto
  <2>2. at'[r] \in {"begin", "reserve", "refused"} /\ (at'[r] = "reserve" => ~Keyed(r))
    BY <1>1, <2>1 DEF Moves, Running
  <2>3. HandlerPc(r) = "sent" /\ HandlerPc(r)' = "sent"
    BY <1>2, <2>1, <2>2, PcIs DEF PcCases
  <2>4. UNCHANGED Handler!vars
    BY <1>0, <1>1, <1>2, <2>1, <2>2, <2>3, ViewStays
  <2>5. QED
    BY <2>4
<1>6. CASE ~Keyed(r) /\ (Returns(r) \/ InvokeCompletes(r) \/ InvokePanics(r))
  <2>1. UNCHANGED entries
    <3>1. ~InvokeCompletes(r)
      BY <1>0, <1>6 DEF ClaimsAreHeld, InvokeCompletes, Goto
    <3>2. QED
      BY <1>6, <3>1 DEF Returns, InvokePanics
  <2>2. HandlerPc(r) = "sent" /\ HandlerPc(r)' = "sent"
    BY <1>2, <1>6, PcIs DEF PcCases
  <2>3. UNCHANGED Handler!vars
    BY <1>0, <1>1, <1>2, <1>6, <2>1, <2>2, ViewStays
  <2>4. QED
    BY <2>3
<1>7. QED
  BY <1>3, <1>4, <1>5, <1>6 DEF Handling

(* handleInvoke keeps the claim discipline of handleMutating.              *)
THEOREM DirectImplementsHandler == DirectSpec => ImplementsHandler
<1>1. DirectInv /\ Unanswered /\ [DirectNext]_allVars => [Handler!Next]_Handler!vars
  <2> SUFFICES ASSUME DirectInv, Unanswered, [DirectNext]_allVars
               PROVE  [Handler!Next]_Handler!vars
    OBVIOUS
  <2>1. ASSUME NEW r \in Invocations, Handling(r) \/ Execution(r) \/ InvokePanics(r)
        PROVE  [Handler!Next]_Handler!vars
    BY <2>1, HandlingRefines, ExecutionRefines
  <2>2. CASE Pass \/ UNCHANGED allVars
    <3>1. UNCHANGED <<entries, call, at, effectAt, answer>>
      BY <2>2 DEF Pass, Tick, allVars, directVars
    <3>2. UNCHANGED <<PcView, KeyView, DigestView, EffectView, AnswerView>>
      <4>1. \A r \in Invocations : (Keyed(r)' <=> Keyed(r)) /\ HandlerPc(r)' = HandlerPc(r)
        BY <3>1 DEF Keyed, HandlerPc
      <4>2. QED
        BY <3>1, <4>1 DEF PcView, KeyView, DigestView, EffectView, AnswerView
    <3>3. CASE Pass
      BY <3>1, <3>2, <3>3
      DEF Pass, Tick, Handler!Next, Handler!Pass, Handler!Tick, Handler!handlerVars,
          PcView, KeyView, DigestView, EffectView, AnswerView
    <3>4. CASE UNCHANGED allVars
      BY <3>1, <3>2, <3>4
      DEF allVars, Handler!vars, Handler!handlerVars,
          PcView, KeyView, DigestView, EffectView, AnswerView
    <3>5. QED
      BY <2>2, <3>3, <3>4
  <2>3. QED
    BY <2>1, <2>2 DEF DirectNext
<1>2. QED
  BY HandlerInitially, UnansweredAlways, <1>1, PTL DEF DirectSpec, ImplementsHandler, Handler!Spec

=============================================================================
