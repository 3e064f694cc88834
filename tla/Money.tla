-------------------------------- MODULE Money --------------------------------
(***************************************************************************)
(* Exact decimal amounts: pkg/ascp/money.go.  The amount "0.010" is the    *)
(* units 10 at the scale 3.  The syntax ValidateMoney refuses has no value *)
(* here, except for the limit on the digits after the point.               *)
(***************************************************************************)
EXTENDS Integers

Scales == 0 .. 18

ValidateMoney(m) == m.units >= 0 /\ m.scale \in Scales

(* What a digit is worth more than one n places after it.                  *)
TenTo[n \in Scales] == IF n = 0 THEN 1 ELSE 10 * TenTo[n - 1]

(* Mutant: the digits are compared, without the place of the point.        *)
AtItsOwnScale(m, scale) == m.units

(* The units of an amount at a scale not below its own.                    *)
AtScale(m, scale) == m.units * TenTo[scale - m.scale]

CommonScale(l, r) == IF l.scale > r.scale THEN l.scale ELSE r.scale

(* Both fail when the currencies differ.                                   *)
Comparable(l, r) == l.currency = r.currency /\ ValidateMoney(l) /\ ValidateMoney(r)

CompareMoney(l, r) ==
  LET s == CommonScale(l, r)
      d == AtScale(l, s) - AtScale(r, s)
  IN  IF d < 0 THEN -1 ELSE IF d = 0 THEN 0 ELSE 1

AtMost(l, r) == Comparable(l, r) /\ CompareMoney(l, r) <= 0
SameAmount(l, r) == Comparable(l, r) /\ CompareMoney(l, r) = 0

(* Trailing zeros after the point are removed.                             *)
Trimmed(units, scale) ==
  CHOOSE s \in 0 .. scale :
    /\ units % TenTo[scale - s] = 0
    /\ \A t \in 0 .. s - 1 : units % TenTo[scale - t] # 0

(* Mutant: the digits are added, without the place of the points.          *)
AddDigits(l, r) ==
  [currency |-> l.currency, units |-> l.units + r.units, scale |-> r.scale]

AddMoney(l, r) ==
  LET s == CommonScale(l, r)
      sum == AtScale(l, s) + AtScale(r, s)
      t == Trimmed(sum, s)
  IN  [currency |-> l.currency, units |-> sum \div TenTo[s - t], scale |-> t]

Zero(currency) == [currency |-> currency, units |-> 0, scale |-> 0]

=============================================================================
