-------------------------- MODULE FillMarketProofs --------------------------
(***************************************************************************)
(* What one market fill does to a workspace, for every order body and      *)
(* every quote: types, and that cash moves by exactly what the Fill row it *)
(* inserts stands for.                                                     *)
(***************************************************************************)
EXTENDS FillMarket, PortfolioProofs

LEMMA SlippageValues == \A x : slippage_bps_for(x) \in {1, 3, 8, 15}
  BY DEF slippage_bps_for

(* Pricing a valid order against a stored quote gives a positive price.    *)
LEMMA ComputeFillTypes ==
    ASSUME NEW quote \in QuoteRows, NEW side \in Sides, NEW asset,
           NEW qty \in Amounts \cup {None}, NEW notional \in Amounts \cup {None},
           qty = None <=> notional # None
    PROVE  LET fq == compute_fill(quote, side, asset, qty, notional)
           IN  fq.qty \in Nat /\ fq.price \in Amounts /\ fq.fees \in Int
<1>. DEFINE ref      == side_price(quote, side)
            estimate == IF notional # None THEN notional * QtyUnit ELSE qty * ref
            slip     == slippage_bps_for(estimate)
            scaled   == ref * (IF side = "buy" THEN BPS + slip ELSE BPS - slip)
            price    == quantize(scaled, BPS)
            fillQty  == IF qty = None THEN quantize(notional * QtyUnit, price) ELSE qty
            gross    == quantize_money(fillQty * price, 0)
            fees     == quantize(gross * fee_bps_for(asset), BPS)
<1>1. ref \in Amounts
  BY DEF side_price, QuoteRows, Amounts
<1>2. slip \in {1, 3, 8, 15} BY SlippageValues
<1>. HIDE DEF ref, slip
<1>3. scaled \in Nat /\ scaled >= 9985
  <2>1. ref \in Nat /\ ref >= 1 BY <1>1 DEF Amounts
  <2>2. CASE slip = 1  BY <2>1, <2>2 DEF BPS
  <2>3. CASE slip = 3  BY <2>1, <2>3 DEF BPS
  <2>4. CASE slip = 8  BY <2>1, <2>4 DEF BPS
  <2>5. CASE slip = 15 BY <2>1, <2>5 DEF BPS
  <2>. QED BY <1>2, <2>2, <2>3, <2>4, <2>5
<1>. HIDE DEF scaled
<1>4. price \in Amounts
  BY <1>3 DEF price, quantize, RoundNat, BPS, Amounts
<1>. HIDE DEF price
<1>5. fillQty \in Nat
  <2>1. CASE qty = None
    <3>1. notional \in Nat BY <2>1 DEF Amounts
    <3>2. QtyUnit \in Nat BY UnitsAssumption
    <3>3. notional * QtyUnit \in Int /\ notional * QtyUnit >= 0 BY <3>1, <3>2
    <3>4. quantize(notional * QtyUnit, price) \in Nat BY <1>4, <3>3, QuantizeInt DEF Amounts
    <3>. QED BY <2>1, <3>4
  <2>2. CASE qty # None BY <2>2 DEF Amounts
  <2>. QED BY <2>1, <2>2
<1>. HIDE DEF fillQty
<1>6. gross \in Int
  <2>1. fillQty * price \in Int BY <1>4, <1>5 DEF Amounts
  <2>. QED BY <2>1, QuantizeMoneyInt
<1>. HIDE DEF gross
<1>7. fees \in Int
  <2>1. gross * fee_bps_for(asset) \in Int BY <1>6 DEF fee_bps_for
  <2>. QED BY <2>1, QuantizeInt DEF BPS
<1>. HIDE DEF fees
<1>8. compute_fill(quote, side, asset, qty, notional)
        = [qty |-> fillQty, price |-> price, slippage_bps |-> slip, fees |-> fees, notional |-> gross]
  BY DEF compute_fill, fees, gross, fillQty, price, scaled, slip, ref
<1>. QED BY <1>4, <1>5, <1>7, <1>8

(* Clamping keeps a level a level.                                         *)
LEMMA LevelsTypes ==
    ASSUME NEW req \in OrderBodies
    PROVE  Levels(req) \in [sl : Int \cup {None}, tp : Int \cup {None}, ts : Int \cup {None}]
  BY DEF Levels, clamp_pct, Smaller, OrderBodies

(* The row a fill leaves behind is a row, and never one of quantity zero.  *)
LEMMA RowAfterTypes ==
    ASSUME NEW ids, NEW pid \in ids, NEW row \in PosRows(ids) \cup {None}, NEW side \in Sides,
           NEW out, out.qty \in Int, out.avg \in Int, NEW price \in Int,
           NEW lv \in [sl : Int \cup {None}, tp : Int \cup {None}, ts : Int \cup {None}]
    PROVE  LET after == RowAfter(row, pid, IsOpening(side, HeldQty(row)), out, price, lv)
           IN  /\ after \in PosRows(ids) \cup {None}
               /\ row # None /\ after # None => after.id = row.id
<1>. DEFINE opening == IsOpening(side, HeldQty(row))
<1>. /\ lv.sl \in Int \cup {None} /\ lv.tp \in Int \cup {None} /\ lv.ts \in Int \cup {None}
  OBVIOUS
<1>1. CASE out.qty = 0 BY <1>1 DEF RowAfter
<1>2. CASE out.qty # 0 /\ opening
  <2>1. RowAfter(row, pid, opening, out, price, lv) = OpenedRow(row, pid, out, price, lv)
    BY <1>2 DEF RowAfter
  <2>2. CASE row = None
    <3>1. OpenedRow(row, pid, out, price, lv)
            = [id |-> pid, qty |-> out.qty, avg |-> out.avg,
               sl |-> lv.sl, tp |-> lv.tp, ts |-> lv.ts, hw |-> price]
      BY <2>2 DEF OpenedRow
    <3>2. out.qty \in Int \ {0} BY <1>2
    <3>3. OpenedRow(row, pid, out, price, lv) \in PosRows(ids) BY <3>1, <3>2 DEF PosRows
    <3>. QED BY <2>1, <2>2, <3>3
  <2>3. CASE row # None
    <3>1. row \in PosRows(ids) BY <2>3
    <3>2. /\ row.id \in ids /\ row.hw \in Int
          /\ row.sl \in Int \cup {None} /\ row.tp \in Int \cup {None} /\ row.ts \in Int \cup {None}
      BY <3>1 DEF PosRows
    <3>3. /\ Smaller(row.hw, price) \in Int /\ Larger(row.hw, price) \in Int
      BY <3>2 DEF Smaller, Larger
    <3>4. OpenedRow(row, pid, out, price, lv) \in PosRows(ids)
      BY <1>2, <2>3, <3>2, <3>3 DEF OpenedRow, PosRows
    <3>5. OpenedRow(row, pid, out, price, lv).id = row.id BY <2>3 DEF OpenedRow
    <3>. QED BY <2>1, <3>4, <3>5
  <2>. QED BY <2>2, <2>3
<1>3. CASE out.qty # 0 /\ ~opening
  <2>1. row # None BY <1>3 DEF IsOpening, HeldQty, Sides
  <2>2. RowAfter(row, pid, opening, out, price, lv) = [row EXCEPT !.qty = out.qty, !.avg = out.avg]
    BY <1>3 DEF RowAfter
  <2>. QED BY <1>3, <2>1, <2>2 DEF PosRows
<1>. QED BY <1>1, <1>2, <1>3

(* The cash a fill leaves is the cash before it plus the effect of the     *)
(* executed quantity, price and fee: what its Fill row records.            *)
LEMMA CashMovesByFill ==
    ASSUME NEW cash \in Int, NEW posQty \in Int, NEW posAvg \in Int, NEW side \in Sides,
           NEW qty \in Nat, NEW price \in Int, NEW fees \in Int
    PROVE  LET out == apply_fill(cash, posQty, posAvg, side, qty, price, fees)
           IN  /\ out.cash = cash + CashEffect(side, out.filled, price, out.fee)
               /\ CashEffect(side, out.filled, price, out.fee) \in Int
<1>. DEFINE out == apply_fill(cash, posQty, posAvg, side, qty, price, fees)
<1>1. /\ out.filled \in Nat /\ out.fee \in Int
  BY ApplyFillTypes
<1>2. /\ out.filled * price \in Int /\ -out.fee \in Int
  BY <1>1
<1>. HIDE DEF out
<1>3. /\ quantize_money(out.filled * price, out.fee) \in Int
      /\ quantize_money(out.filled * price, -out.fee) \in Int
  BY <1>1, <1>2, QuantizeMoneyInt
<1>4. CASE side = "buy"
  <2>1. out.cash = cash - quantize_money(out.filled * price, out.fee)
    BY <1>4, ApplyFillArms DEF Arm, CoverShort, OpenLong, FillOutcome, out
  <2>. QED BY <1>3, <1>4, <2>1 DEF CashEffect, out
<1>5. CASE side = "sell"
  <2>1. out.cash = cash + quantize_money(out.filled * price, -out.fee)
    BY <1>5, ApplyFillArms DEF Arm, CloseLong, OpenShort, FillOutcome, out
  <2>. QED BY <1>3, <1>5, <2>1 DEF CashEffect, out
<1>. QED BY <1>4, <1>5 DEF Sides

(* r is what a workspace w can become by one order `key`: the order is     *)
(* filled or rejected, nothing else is inserted, and cash and the cash     *)
(* effect of the inserted Fill rows move together.                         *)
Result(r, w, key, ids) ==
    /\ r = [cash |-> r.cash, bp |-> r.bp, pos |-> r.pos, ord |-> r.ord, delta |-> r.delta]
    /\ r.cash \in Int /\ r.delta \in Int
    /\ r.pos \in [Symbols -> PosRows(ids) \cup {None}]
    /\ \A sym \in Symbols : w.pos[sym] # None /\ r.pos[sym] # None => r.pos[sym].id = w.pos[sym].id
    /\ r.cash - r.delta = w.cash - w.delta
    /\ DOMAIN r.ord = DOMAIN w.ord \cup {key}
    /\ \A k \in DOMAIN r.ord : k # key => r.ord[k] = w.ord[k]
    /\ r.ord[key] \in {"filled", "rejected"}

(* Every fill against a workspace has such a result.                       *)
LEMMA FillMarketWork ==
    ASSUME NEW ids, NEW pid \in ids, NEW key, NEW quote \in QuoteRows, NEW req \in OrderBodies,
           NEW w, NEW seen,
           w = [cash |-> w.cash, bp |-> w.bp, pos |-> w.pos, ord |-> w.ord, delta |-> w.delta],
           w.cash \in Int, w.delta \in Int,
           w.pos \in [Symbols -> PosRows(ids) \cup {None}]
    PROVE  Result(fill_market(w, key, req, quote, pid, seen), w, key, ids)
<1>. DEFINE r   == fill_market(w, key, req, quote, pid, seen)
            fq  == Price(req, quote)
            row == w.pos[req.symbol]
<1>1. /\ req.symbol \in Symbols /\ req.side \in Sides
      /\ req.qty \in Amounts \cup {None} /\ req.notional \in Amounts \cup {None}
      /\ req.qty = None <=> req.notional # None
  BY DEF OrderBodies
<1>2. fq.qty \in Nat /\ fq.price \in Int /\ fq.fees \in Int
  BY <1>1, ComputeFillTypes DEF Price, Amounts
<1>3. row \in PosRows(ids) \cup {None} BY <1>1
<1>. HIDE DEF fq, row
<1>4. HeldQty(row) \in Int /\ HeldAvg(row) \in Int BY <1>3 DEF HeldQty, HeldAvg, PosRows
<1>5. CASE Refused(w, req, row, fq)
  <2>1. r = WithStatus(w, key, "rejected") BY <1>5 DEF fill_market, fq, row
  <2>2. r = [cash |-> w.cash, bp |-> w.bp, pos |-> w.pos,
             ord |-> [k \in DOMAIN w.ord \cup {key} |-> IF k = key THEN "rejected" ELSE w.ord[k]],
             delta |-> w.delta]
    BY <2>1 DEF WithStatus
  <2>. HIDE DEF r
  <2>3. Result(r, w, key, ids) BY <2>2 DEF Result
  <2>. QED BY <2>3 DEF r
<1>6. CASE ~Refused(w, req, row, fq)
  <2>. DEFINE out    == apply_fill(w.cash, HeldQty(row), HeldAvg(row), req.side, fq.qty, fq.price, fq.fees)
              effect == CashEffect(req.side, out.filled, fq.price, out.fee)
              newRow == RowAfter(row, pid, IsOpening(req.side, HeldQty(row)), out, fq.price, Levels(req))
              newPos == [w.pos EXCEPT ![req.symbol] = newRow]
  <2>1. r = Executed(w, key, req, row, fq, pid, seen) BY <1>6 DEF fill_market, fq, row
  <2>2. r = [cash |-> out.cash, bp |-> BuyingPower(out.cash, [seen EXCEPT ![req.symbol] = newRow]), pos |-> newPos,
             ord |-> [k \in DOMAIN w.ord \cup {key} |-> IF k = key THEN "filled" ELSE w.ord[k]],
             delta |-> w.delta + effect]
    BY <2>1 DEF Executed
  <2>3. out.cash \in Int /\ out.qty \in Int /\ out.avg \in Int
    BY <1>1, <1>2, <1>4, ApplyFillTypes
  <2>4. out.cash = w.cash + effect /\ effect \in Int
    BY <1>1, <1>2, <1>4, CashMovesByFill
  <2>5. newRow \in PosRows(ids) \cup {None} /\ (row # None /\ newRow # None => newRow.id = row.id)
    BY <1>1, <1>2, <1>3, <2>3, LevelsTypes, RowAfterTypes
  <2>6. /\ newPos \in [Symbols -> PosRows(ids) \cup {None}]
        /\ \A sym \in Symbols : w.pos[sym] # None /\ newPos[sym] # None => newPos[sym].id = w.pos[sym].id
    BY <1>1, <2>5 DEF row
  <2>. HIDE DEF r, out, effect, newRow, newPos
  <2>7. Result(r, w, key, ids) BY <2>2, <2>3, <2>4, <2>6 DEF Result
  <2>. QED BY <2>7 DEF r
<1>. QED BY <1>5, <1>6
=============================================================================
