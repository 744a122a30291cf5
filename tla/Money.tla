------------------------------- MODULE Money -------------------------------
(***************************************************************************)
(* Fixed-point money and quantity, as in                                   *)
(* shared/neuromancing_shared/money.py.  The code keeps every amount as a  *)
(* Decimal and rounds it, half away from zero, to a quantum: 10^-8 for     *)
(* money and 10^-10 for quantities.  Here an amount is the INTEGER number  *)
(* of its quanta, and the two resolutions are parameters, so that an       *)
(* instance small enough for TLC still rounds where the code rounds.       *)
(***************************************************************************)
EXTENDS Integers

CONSTANTS MoneyUnit,   \* money quanta in one dollar    (10^8 in the code)
          QtyUnit,     \* quantity quanta in one share  (10^10 in the code)
          None         \* Python's None / a row that does not exist

ASSUME UnitsAssumption == MoneyUnit \in Nat \ {0} /\ QtyUnit \in Nat \ {0}
ASSUME NoneAssumption  == None \notin Int

Dollars(n) == n * MoneyUnit

(* The rational num/den (den > 0) rounded to an integer number of quanta,  *)
(* ROUND_HALF_UP: ties go away from zero.                                  *)
RoundNat(num, den) == (num \div den) + (IF 2 * (num % den) >= den THEN 1 ELSE 0)
quantize(num, den) == IF num >= 0 THEN RoundNat(num, den) ELSE -RoundNat(-num, den)

(* quantize_money(qty * price + extra): qty * price has QtyUnit as its     *)
(* denominator, `extra` (fees) is already a whole number of money quanta.  *)
quantize_money(qtyTimesPrice, extra) == quantize(qtyTimesPrice + extra * QtyUnit, QtyUnit)

(* Python's abs/max/min on two numbers.                                    *)
Abs(x) == IF x < 0 THEN -x ELSE x
Larger(x, y)  == IF y > x THEN y ELSE x
Smaller(x, y) == IF y < x THEN y ELSE x
=============================================================================
