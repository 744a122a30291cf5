----------------------------- MODULE FillMarket -----------------------------
(***************************************************************************)
(* SimBroker._fill_market of trade-api/app/brokers/sim.py: one market fill *)
(* against the rows of one account, as a function of what the transaction  *)
(* has loaded.  `w` is that workspace: [cash, bp, pos, ord, delta], where  *)
(* pos maps symbols to position rows (or None), ord the keys of the orders *)
(* the transaction inserts to their status, and delta is the cash effect   *)
(* of the Fill rows it inserts.                                            *)
(***************************************************************************)
EXTENDS Portfolio, Matching

CONSTANTS Symbols,
          AssetOf        \* [Symbols -> {"equity", "crypto"}]

(* schemas.OrderCreate after its validator: exactly one of qty and         *)
(* notional, and a positive one.                                           *)
OrderBodies ==
    {r \in [symbol : Symbols, side : Sides, type : {"market", "limit", "stop", "stop_limit"},
            qty : Amounts \cup {None}, notional : Amounts \cup {None}, reduce_only : BOOLEAN,
            sl : Int \cup {None}, tp : Int \cup {None}, ts : Int \cup {None}] :
        r.qty = None <=> r.notional # None}

(* _clamp_pct: a missing or non-positive level is dropped, a large one cut.*)
clamp_pct(pct, hi) == IF pct = None THEN None ELSE IF pct <= 0 THEN None ELSE Smaller(pct, hi)
Levels(req) == [sl |-> clamp_pct(req.sl, 9000),
                tp |-> clamp_pct(req.tp, 50000),
                ts |-> clamp_pct(req.ts, 9000)]

(* Rows of the position table; a row never holds quantity zero.            *)
PosRows(ids) ==
           [id : ids, qty : Int \ {0}, avg : Int, sl : Int \cup {None}, tp : Int \cup {None},
            ts : Int \cup {None}, hw : Int]
ASSUME RowAssumption == None \notin PosRows(Nat)

HeldQty(row)   == IF row = None THEN 0 ELSE row.qty
HeldAvg(row)   == IF row = None THEN 0 ELSE row.avg
Protected(row) == row.sl # None \/ row.tp # None \/ row.ts # None

(* The cash a Fill row stands for.                                         *)
CashEffect(side, filled, price, fee) ==
    IF side = "buy" THEN -quantize_money(filled * price, fee)
                    ELSE quantize_money(filled * price, -fee)

(* buying_power after a fill: cash less the collateral of the open shorts. *)
BuyingPower(cash, pos) ==
    cash - short_collateral([s \in Symbols |-> [qty |-> HeldQty(pos[s]), avg |-> HeldAvg(pos[s])]])

(* What an opening fill needs of buying_power: a buy its cost, a short     *)
(* sale the collateral it will reserve.                                    *)
Need(side, fq) == IF side = "buy" THEN quantize_money(fq.qty * fq.price, fq.fees)
                                  ELSE QuantizeReserve(ShortReserve(fq.qty, fq.price))

(* Mutant: an increase restarts the high-water mark at its own price.      *)
RestartedRow(row, pid, out, price, lv) ==
    [id |-> IF row = None THEN pid ELSE row.id, qty |-> out.qty, avg |-> out.avg,
     sl |-> lv.sl, tp |-> lv.tp, ts |-> lv.ts, hw |-> price]

(* Exit levels and high-water mark of the row after an opening fill: taken *)
(* whole from the order when the position was flat, else only what the     *)
(* order specifies.                                                        *)
OpenedRow(row, pid, out, price, lv) ==
    IF row = None
    THEN [id |-> pid, qty |-> out.qty, avg |-> out.avg,
          sl |-> lv.sl, tp |-> lv.tp, ts |-> lv.ts, hw |-> price]
    ELSE [id |-> row.id, qty |-> out.qty, avg |-> out.avg,
          sl |-> IF lv.sl # None THEN lv.sl ELSE row.sl,
          tp |-> IF lv.tp # None THEN lv.tp ELSE row.tp,
          ts |-> IF lv.ts # None THEN lv.ts ELSE row.ts,
          hw |-> IF out.qty < 0 THEN Smaller(row.hw, price) ELSE Larger(row.hw, price)]

(* Mutant: the row of a closed position lingers with quantity zero.        *)
LingeringRow(row, pid, opening, out, price, lv) ==
    IF opening THEN OpenedRow(row, pid, out, price, lv)
               ELSE [row EXCEPT !.qty = out.qty, !.avg = out.avg]

(* A reducing fill keeps the levels; a row that reaches zero is deleted.   *)
RowAfter(row, pid, opening, out, price, lv) ==
    CASE out.qty = 0 -> None
      [] out.qty # 0 /\ opening -> OpenedRow(row, pid, out, price, lv)
      [] out.qty # 0 /\ ~opening -> [row EXCEPT !.qty = out.qty, !.avg = out.avg]

(* Mutant: reduce_only is forgotten.                                       *)
IgnoresReduceOnly(w, req, row, fq) ==
    IsOpening(req.side, HeldQty(row)) /\ Need(req.side, fq) > w.bp

(* The order may not execute: a reduce_only order with nothing to reduce,  *)
(* or an opening fill beyond the buying power.                             *)
Refused(w, req, row, fq) ==
    LET opening == IsOpening(req.side, HeldQty(row))
    IN  \/ req.reduce_only /\ (opening \/ HeldQty(row) = 0)
        \/ opening /\ Need(req.side, fq) > w.bp

(* Mutant: the collateral is summed before the fill is flushed.            *)
ExecutedBeforeFlush(w, key, req, row, fq, pid, seen) ==
    LET out    == apply_fill(w.cash, HeldQty(row), HeldAvg(row), req.side, fq.qty, fq.price, fq.fees)
        newRow == RowAfter(row, pid, IsOpening(req.side, HeldQty(row)), out, fq.price, Levels(req))
    IN  [cash |-> out.cash, bp |-> BuyingPower(out.cash, seen),
         pos |-> [w.pos EXCEPT ![req.symbol] = newRow],
         ord |-> [k \in DOMAIN w.ord \cup {key} |-> IF k = key THEN "filled" ELSE w.ord[k]],
         delta |-> w.delta + CashEffect(req.side, out.filled, fq.price, out.fee)]

(* The order executes against the account rows w.  `seen` is what the      *)
(* session's identity map shows of the account's rows when the collateral  *)
(* is summed: SQLAlchemy does not overwrite an instance it already holds.  *)
Executed(w, key, req, row, fq, pid, seen) ==
    LET out     == apply_fill(w.cash, HeldQty(row), HeldAvg(row), req.side, fq.qty, fq.price, fq.fees)
        newRow  == RowAfter(row, pid, IsOpening(req.side, HeldQty(row)), out, fq.price, Levels(req))
    IN  [cash  |-> out.cash,
         bp    |-> BuyingPower(out.cash, [seen EXCEPT ![req.symbol] = newRow]),
         pos   |-> [w.pos EXCEPT ![req.symbol] = newRow],
         ord   |-> [k \in DOMAIN w.ord \cup {key} |-> IF k = key THEN "filled" ELSE w.ord[k]],
         delta |-> w.delta + CashEffect(req.side, out.filled, fq.price, out.fee)]

(* A fill too small to survive quantisation opens nothing: the row added   *)
(* for it is deleted before it was ever flushed, which SQLAlchemy refuses. *)
DeletesUnsavedRow(w, req, row, fq) == row = None /\ fq.qty = 0 /\ ~Refused(w, req, row, fq)

Price(req, quote) == compute_fill(quote, req.side, AssetOf[req.symbol], req.qty, req.notional)

WithStatus(w, key, status) ==
    [w EXCEPT !.ord = [k \in DOMAIN w.ord \cup {key} |-> IF k = key THEN status ELSE w.ord[k]]]

fill_market(w, key, req, quote, pid, seen) ==
    LET fq  == Price(req, quote)
        row == w.pos[req.symbol]
    IN  IF Refused(w, req, row, fq) THEN WithStatus(w, key, "rejected")
                                    ELSE Executed(w, key, req, row, fq, pid, seen)
=============================================================================
