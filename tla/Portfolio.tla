----------------------------- MODULE Portfolio -----------------------------
(***************************************************************************)
(* trade-api/app/engine/portfolio.py: what one fill does to the cash and   *)
(* the signed position (qty > 0 long, qty < 0 short, 0 flat) of an         *)
(* account.  Pure operators; SimBroker applies them inside a transaction.  *)
(***************************************************************************)
EXTENDS Money, Functions

(* short_collateral_mult of trade-api/app/config.py, as a fraction.        *)
CollateralNum == 3
CollateralDen == 2

Sides == {"buy", "sell"}

FillOutcome(cash, qty, avg, realized, filled, fee) ==
    [cash |-> cash, qty |-> qty, avg |-> avg,
     realized |-> realized, filled |-> filled, fee |-> fee]

(* A closing fill never executes more than is held, and its fee shrinks    *)
(* with it.                                                                *)
CappedQty(qty, held) == IF qty <= held THEN qty ELSE held
ProratedFee(fees, filled, qty) == IF qty > 0 THEN quantize(fees * filled, qty) ELSE fees

(* Mutant: the last price wins.                                            *)
LastPriceEntry(held, avg, qty, price) == price

(* Weighted average entry of `held` at `avg` increased by `qty` at `price`.*)
BlendedEntry(held, avg, qty, price) ==
    IF held + qty > 0 THEN quantize(held * avg + qty * price, held + qty) ELSE 0

(* buy while short: buy-to-cover, never past flat.                         *)
CoverShort(cash, posQty, posAvg, qty, price, fees) ==
    LET filled == CappedQty(qty, -posQty)
        fee    == ProratedFee(fees, filled, qty)
        newQty == posQty + filled
    IN  FillOutcome(cash - quantize_money(filled * price, fee),
                    newQty, IF newQty < 0 THEN posAvg ELSE 0,
                    quantize_money(filled * (posAvg - price), -fee), filled, fee)

(* sell while long: sell-to-close, never past flat.                        *)
CloseLong(cash, posQty, posAvg, qty, price, fees) ==
    LET filled == CappedQty(qty, posQty)
        fee    == ProratedFee(fees, filled, qty)
        newQty == posQty - filled
    IN  FillOutcome(cash + quantize_money(filled * price, -fee),
                    newQty, IF newQty > 0 THEN posAvg ELSE 0,
                    quantize_money(filled * (price - posAvg), -fee), filled, fee)

(* buy while flat or long: pay and blend the entry price.                  *)
OpenLong(cash, posQty, posAvg, qty, price, fees) ==
    FillOutcome(cash - quantize_money(qty * price, fees), posQty + qty,
                BlendedEntry(posQty, posAvg, qty, price), 0, qty, fees)

(* sell while flat or short: receive the proceeds of the short sale.       *)
OpenShort(cash, posQty, posAvg, qty, price, fees) ==
    FillOutcome(cash + quantize_money(qty * price, -fees), posQty - qty,
                BlendedEntry(-posQty, posAvg, qty, price), 0, qty, fees)

apply_fill(cash, posQty, posAvg, side, qty, price, fees) ==
    CASE side = "buy"  /\ posQty < 0  -> CoverShort(cash, posQty, posAvg, qty, price, fees)
      [] side = "sell" /\ posQty > 0  -> CloseLong(cash, posQty, posAvg, qty, price, fees)
      [] side = "buy"  /\ posQty >= 0 -> OpenLong(cash, posQty, posAvg, qty, price, fees)
      [] side = "sell" /\ posQty <= 0 -> OpenShort(cash, posQty, posAvg, qty, price, fees)

(* SimBroker._fill_market: does a fill on this side open or increase?      *)
IsOpening(side, posQty) == \/ side = "buy"  /\ posQty >= 0
                           \/ side = "sell" /\ posQty <= 0

(* `marks` and `positions` are functions over symbols; a symbol whose mark *)
(* is missing contributes nothing.                                         *)
positions_value(marks, positions) ==
    quantize_money(SumFunctionOnSet(
        [s \in DOMAIN positions |-> IF marks[s] = None THEN 0 ELSE positions[s] * marks[s]],
        DOMAIN positions), 0)

(* Reserve for one short of `size` entered at `avg`, before rounding: its  *)
(* denominator is QtyUnit * CollateralDen.                                 *)
ShortReserve(size, avg) == size * avg * CollateralNum
QuantizeReserve(total)  == quantize(total, QtyUnit * CollateralDen)

(* `holdings[s]` is [qty, avg]; only shorts reserve, and the sum is rounded*)
(* once.                                                                   *)
short_collateral(holdings) ==
    QuantizeReserve(SumFunctionOnSet(
        [s \in DOMAIN holdings |->
            IF holdings[s].qty < 0 THEN ShortReserve(-holdings[s].qty, holdings[s].avg) ELSE 0],
        DOMAIN holdings))
=============================================================================
