-------------------------- MODULE PortfolioProofs --------------------------
(***************************************************************************)
(* What rounding and apply_fill guarantee for every amount: the lemmas the *)
(* proofs about the broker and the book rest on.                           *)
(***************************************************************************)
EXTENDS Portfolio, TLAPS

(* Rounding a rational to a quantum gives a whole number of quanta, and    *)
(* keeps a non-negative amount non-negative.                               *)
LEMMA QuantizeInt ==
    ASSUME NEW num \in Int, NEW den \in Nat \ {0}
    PROVE  /\ quantize(num, den) \in Int
           /\ num >= 0 => quantize(num, den) \in Nat
<1>1. ASSUME NEW n \in Nat PROVE RoundNat(n, den) \in Nat
  <2>1. n \div den \in Nat /\ n % den \in Nat
    BY SMT
  <2>. QED BY <2>1 DEF RoundNat
<1>2. CASE num >= 0
  BY <1>1, <1>2 DEF quantize
<1>3. CASE ~(num >= 0)
  <2>1. -num \in Nat BY <1>3
  <2>2. RoundNat(-num, den) \in Nat BY <1>1, <2>1
  <2>. QED BY <1>3, <2>2 DEF quantize
<1>. QED BY <1>2, <1>3

LEMMA QuantizeMoneyInt ==
    ASSUME NEW x \in Int, NEW extra \in Int
    PROVE  quantize_money(x, extra) \in Int
<1>1. QtyUnit \in Nat \ {0} BY UnitsAssumption
<1>2. x + extra * QtyUnit \in Int BY <1>1
<1>. QED BY <1>1, <1>2, QuantizeInt DEF quantize_money

(* The fee of a capped close, and the blended entry price, are amounts.    *)
LEMMA FeeInt ==
    ASSUME NEW fees \in Int, NEW filled \in Int, NEW qty \in Int
    PROVE  ProratedFee(fees, filled, qty) \in Int
<1>1. fees * filled \in Int OBVIOUS
<1>. QED BY <1>1, QuantizeInt DEF ProratedFee

LEMMA EntryInt ==
    ASSUME NEW held \in Int, NEW avg \in Int, NEW qty \in Int, NEW price \in Int
    PROVE  BlendedEntry(held, avg, qty, price) \in Int
<1>1. held * avg + qty * price \in Int OBVIOUS
<1>2. held + qty > 0 => held + qty \in Nat \ {0} OBVIOUS
<1>. QED BY <1>1, <1>2, QuantizeInt DEF BlendedEntry

Arm(side, posQty) ==
    \/ side = "buy"  /\ posQty < 0
    \/ side = "sell" /\ posQty > 0
    \/ side = "buy"  /\ posQty >= 0
    \/ side = "sell" /\ posQty <= 0

(* The four transitions, without the CASE.                                 *)
LEMMA ApplyFillArms ==
    ASSUME NEW cash, NEW posQty \in Int, NEW posAvg, NEW side \in Sides,
           NEW qty, NEW price, NEW fees
    PROVE  LET out == apply_fill(cash, posQty, posAvg, side, qty, price, fees)
           IN  /\ side = "buy"  /\ posQty < 0  => out = CoverShort(cash, posQty, posAvg, qty, price, fees)
               /\ side = "sell" /\ posQty > 0  => out = CloseLong(cash, posQty, posAvg, qty, price, fees)
               /\ side = "buy"  /\ posQty >= 0 => out = OpenLong(cash, posQty, posAvg, qty, price, fees)
               /\ side = "sell" /\ posQty <= 0 => out = OpenShort(cash, posQty, posAvg, qty, price, fees)
               /\ Arm(side, posQty)
  BY DEF apply_fill, Sides, Arm

(* Every figure of a fill is a whole number of quanta, and the executed    *)
(* quantity is neither negative nor more than was asked for.               *)
LEMMA ApplyFillTypes ==
    ASSUME NEW cash \in Int, NEW posQty \in Int, NEW posAvg \in Int, NEW side \in Sides,
           NEW qty \in Nat, NEW price \in Int, NEW fees \in Int
    PROVE  LET out == apply_fill(cash, posQty, posAvg, side, qty, price, fees)
           IN  /\ out \in [cash : Int, qty : Int, avg : Int, realized : Int, filled : Nat, fee : Int]
               /\ out.filled <= qty
<1>. DEFINE out == apply_fill(cash, posQty, posAvg, side, qty, price, fees)
<1>1. CASE side = "buy" /\ posQty < 0
  <2>1. out = CoverShort(cash, posQty, posAvg, qty, price, fees) BY <1>1, ApplyFillArms
  <2>. DEFINE filled == CappedQty(qty, -posQty)
              fee    == ProratedFee(fees, filled, qty)
  <2>2. filled \in Nat /\ filled <= qty BY <1>1 DEF CappedQty
  <2>3. fee \in Int BY <2>2, FeeInt
  <2>4. filled * price \in Int /\ filled * (posAvg - price) \in Int /\ -fee \in Int BY <2>2, <2>3
  <2>5. /\ quantize_money(filled * price, fee) \in Int
        /\ quantize_money(filled * (posAvg - price), -fee) \in Int
    BY <2>3, <2>4, QuantizeMoneyInt
  <2>. HIDE DEF filled, fee
  <2>6. out = FillOutcome(cash - quantize_money(filled * price, fee), posQty + filled,
                          IF posQty + filled < 0 THEN posAvg ELSE 0,
                          quantize_money(filled * (posAvg - price), -fee), filled, fee)
    BY <2>1 DEF CoverShort, filled, fee
  <2>. QED BY <2>2, <2>3, <2>5, <2>6 DEF FillOutcome
<1>2. CASE side = "sell" /\ posQty > 0
  <2>1. out = CloseLong(cash, posQty, posAvg, qty, price, fees) BY <1>2, ApplyFillArms
  <2>. DEFINE filled == CappedQty(qty, posQty)
              fee    == ProratedFee(fees, filled, qty)
  <2>2. filled \in Nat /\ filled <= qty BY <1>2 DEF CappedQty
  <2>3. fee \in Int BY <2>2, FeeInt
  <2>4. filled * price \in Int /\ filled * (price - posAvg) \in Int /\ -fee \in Int BY <2>2, <2>3
  <2>5. /\ quantize_money(filled * price, -fee) \in Int
        /\ quantize_money(filled * (price - posAvg), -fee) \in Int
    BY <2>3, <2>4, QuantizeMoneyInt
  <2>. HIDE DEF filled, fee
  <2>6. out = FillOutcome(cash + quantize_money(filled * price, -fee), posQty - filled,
                          IF posQty - filled > 0 THEN posAvg ELSE 0,
                          quantize_money(filled * (price - posAvg), -fee), filled, fee)
    BY <2>1 DEF CloseLong, filled, fee
  <2>. QED BY <2>2, <2>3, <2>5, <2>6 DEF FillOutcome
<1>3. CASE side = "buy" /\ posQty >= 0
  <2>1. out = OpenLong(cash, posQty, posAvg, qty, price, fees) BY <1>3, ApplyFillArms
  <2>2. qty * price \in Int OBVIOUS
  <2>3. quantize_money(qty * price, fees) \in Int BY <2>2, QuantizeMoneyInt
  <2>4. BlendedEntry(posQty, posAvg, qty, price) \in Int BY EntryInt
  <2>. QED BY <2>1, <2>3, <2>4 DEF OpenLong, FillOutcome
<1>4. CASE side = "sell" /\ posQty <= 0
  <2>1. out = OpenShort(cash, posQty, posAvg, qty, price, fees) BY <1>4, ApplyFillArms
  <2>2. qty * price \in Int /\ -fees \in Int /\ -posQty \in Int OBVIOUS
  <2>3. quantize_money(qty * price, -fees) \in Int BY <2>2, QuantizeMoneyInt
  <2>4. BlendedEntry(-posQty, posAvg, qty, price) \in Int BY <2>2, EntryInt
  <2>. QED BY <2>1, <2>3, <2>4 DEF OpenShort, FillOutcome
<1>. QED BY <1>1, <1>2, <1>3, <1>4, ApplyFillArms DEF Arm

(* One fill never flips a position: a close or a cover stops at flat and   *)
(* an open moves away from flat.                                           *)
LEMMA ApplyFillNeverFlips ==
    ASSUME NEW cash \in Int, NEW posQty \in Int, NEW posAvg \in Int, NEW side \in Sides,
           NEW qty \in Nat, NEW price \in Int, NEW fees \in Int
    PROVE  LET out == apply_fill(cash, posQty, posAvg, side, qty, price, fees)
           IN  /\ posQty > 0 => out.qty >= 0
               /\ posQty < 0 => out.qty <= 0
               /\ ~IsOpening(side, posQty) => Abs(out.qty) <= Abs(posQty)
<1>. DEFINE out == apply_fill(cash, posQty, posAvg, side, qty, price, fees)
<1>1. CASE side = "buy" /\ posQty < 0
  <2>1. out = CoverShort(cash, posQty, posAvg, qty, price, fees) BY <1>1, ApplyFillArms
  <2>2. out.qty = posQty + CappedQty(qty, -posQty) BY <2>1 DEF CoverShort, FillOutcome
  <2>. QED BY <1>1, <2>2 DEF CappedQty, Abs
<1>2. CASE side = "sell" /\ posQty > 0
  <2>1. out = CloseLong(cash, posQty, posAvg, qty, price, fees) BY <1>2, ApplyFillArms
  <2>2. out.qty = posQty - CappedQty(qty, posQty) BY <2>1 DEF CloseLong, FillOutcome
  <2>. QED BY <1>2, <2>2 DEF CappedQty, Abs
<1>3. CASE side = "buy" /\ posQty >= 0
  <2>1. out = OpenLong(cash, posQty, posAvg, qty, price, fees) BY <1>3, ApplyFillArms
  <2>2. out.qty = posQty + qty BY <2>1 DEF OpenLong, FillOutcome
  <2>. QED BY <1>3, <2>2 DEF IsOpening
<1>4. CASE side = "sell" /\ posQty <= 0
  <2>1. out = OpenShort(cash, posQty, posAvg, qty, price, fees) BY <1>4, ApplyFillArms
  <2>2. out.qty = posQty - qty BY <2>1 DEF OpenShort, FillOutcome
  <2>. QED BY <1>4, <2>2 DEF IsOpening
<1>. QED BY <1>1, <1>2, <1>3, <1>4, ApplyFillArms DEF Arm
=============================================================================
