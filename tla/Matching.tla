------------------------------ MODULE Matching ------------------------------
(***************************************************************************)
(* trade-api/app/engine/matching.py and prices.py: pricing a fill against  *)
(* a quote, and deciding when a protected position must be closed.  A      *)
(* quote is [bid, ask, last, stale]; bid and ask may be None.              *)
(***************************************************************************)
EXTENDS Money

BPS     == 10000     \* basis points in one
PctUnit == 10000     \* exit levels are Numeric(6, 4) fractions

(* What market-ingest writes: positive prices, bid and ask possibly None.  *)
Amounts   == Nat \ {0}
QuoteRows == [bid : Amounts \cup {None}, ask : Amounts \cup {None}, last : Amounts, stale : BOOLEAN]

(* Quote.side_price: a buy lifts the ask, a sell hits the bid, else last.  *)
side_price(quote, side) ==
    CASE side = "buy"  /\ quote.ask # None -> quote.ask
      [] side = "sell" /\ quote.bid # None -> quote.bid
      [] OTHER -> quote.last

Usable(quote) == quote # None /\ ~quote.stale

(* `notional` and the tiers are compared exactly: the caller passes the    *)
(* estimate scaled by QtyUnit.                                             *)
slippage_bps_for(notionalTimesQtyUnit) ==
    LET below(d) == notionalTimesQtyUnit < Dollars(d) * QtyUnit
    IN  CASE below(1000) -> 1
          [] ~below(1000)  /\ below(10000)  -> 3
          [] ~below(10000) /\ below(100000) -> 8
          [] OTHER -> 15

fee_bps_for(asset) == IF asset = "crypto" THEN 10 ELSE 0

(* Exactly one of qty / notional is given (the other is None).  Slippage   *)
(* is adverse to the taker.  A notional order is converted to a quantity   *)
(* at the slipped price.                                                   *)
compute_fill(quote, side, asset, qty, notional) ==
    LET ref      == side_price(quote, side)
        estimate == IF notional # None THEN notional * QtyUnit ELSE qty * ref
        slip     == slippage_bps_for(estimate)
        price    == quantize(ref * (IF side = "buy" THEN BPS + slip ELSE BPS - slip), BPS)
        fillQty  == IF qty = None THEN quantize(notional * QtyUnit, price) ELSE qty
        gross    == quantize_money(fillQty * price, 0)
    IN  [qty |-> fillQty, price |-> price, slippage_bps |-> slip,
         fees |-> quantize(gross * fee_bps_for(asset), BPS), notional |-> gross]

(* ---- evaluate_exit -----------------------------------------------------*)
Active(pct) == pct # None /\ pct # 0

(* +1 for a long, -1 for a short: prices times the direction are           *)
(* "the more, the better" for both.                                        *)
Direction(qty) == IF qty < 0 THEN -1 ELSE 1

(* The favourable extreme since entry: highest for a long, lowest short.   *)
Ratchet(qty, highWater, avg, last) ==
    LET wm == IF highWater # None THEN highWater ELSE avg
    IN  IF qty < 0 THEN Smaller(wm, last) ELSE Larger(wm, last)

(* Mutant: a stop below the base, also for a short.                        *)
LongStopLevel(qty, base, pct) == base * (PctUnit - pct)

(* The levels, scaled by PctUnit: protective ones lie against the          *)
(* direction of the position, the target along it.                         *)
StopLevel(qty, base, pct)   == base * (PctUnit - Direction(qty) * pct)
TargetLevel(qty, base, pct) == base * (PctUnit + Direction(qty) * pct)
AtOrBeyond(qty, x, y)       == Direction(qty) * x >= Direction(qty) * y

(* The tighter of the fixed and the trailing stop decides, the fixed one   *)
(* on a tie; the target is looked at only when no stop was hit.            *)
evaluate_exit(avg, last, qty, highWater, sl, tp, ts) ==
    LET wm       == Ratchet(qty, highWater, avg, last)
        now      == last * PctUnit
        fixed    == StopLevel(qty, avg, sl)
        trail    == StopLevel(qty, wm, ts)
        useFixed == Active(sl) /\ (Active(ts) => AtOrBeyond(qty, fixed, trail))
        stopped  == \/ useFixed /\ AtOrBeyond(qty, fixed, now)
                    \/ ~useFixed /\ Active(ts) /\ AtOrBeyond(qty, trail, now)
        profit   == Active(tp) /\ AtOrBeyond(qty, now, TargetLevel(qty, avg, tp))
        reason   == CASE stopped /\ useFixed  -> "stop_loss"
                      [] stopped /\ ~useFixed -> "trailing_stop"
                      [] ~stopped /\ profit   -> "take_profit"
                      [] OTHER -> None
    IN  [should_exit |-> stopped \/ profit, reason |-> reason, high_water |-> wm]
=============================================================================
