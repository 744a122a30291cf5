----------------------------- MODULE ExitWatch -----------------------------
(***************************************************************************)
(* The life of one position row as the exit machinery sees it: opening and *)
(* increasing fills set its levels and its high-water mark (_fill_market), *)
(* reducing fills keep them, and every sweep of the monitor with a fresh   *)
(* quote ratchets the mark and decides (evaluate_exit).                    *)
(***************************************************************************)
EXTENDS FillMarket

CONSTANTS LookPrices,      \* fill prices and fresh last prices
          StopPcts, TargetPcts, TrailPcts,   \* levels an order may carry, None included
          MaxQty       \* bound: size of the position

ASSUME WatchAssumption ==
    /\ LookPrices \subseteq Amounts /\ MaxQty \in Nat
    /\ StopPcts \cup TargetPcts \cup TrailPcts \subseteq Int \cup {None}

VARIABLES row,         \* the position row, or None
          seen,        \* history: prices of the opening fills and fresh quotes of this life
          looked       \* the last price the monitor evaluated, None before and after other steps
watchVars == <<row, seen, looked>>

WatchInit == row = None /\ seen = {} /\ looked = None

OrderLevels == [sl : StopPcts, tp : TargetPcts, ts : TrailPcts]

(* A fill of one unit on either side.                                      *)
FillOne(side, price, lv) ==
    LET out     == apply_fill(0, HeldQty(row), HeldAvg(row), side, 1, price, 0)
        opening == IsOpening(side, HeldQty(row))
    IN  /\ opening => Abs(HeldQty(row)) < MaxQty
        /\ row'  = RowAfter(row, 1, opening, out, price, lv)
        /\ seen' = CASE row' = None -> {}
                     [] row' # None /\ opening -> seen \cup {price}
                     [] row' # None /\ ~opening -> seen
        /\ looked' = None

(* settle_exits on this row: persist the mark; a hit sells or covers the   *)
(* whole position and the row goes.                                        *)
Look(last) ==
    LET d == evaluate_exit(row.avg, last, row.qty, row.hw, row.sl, row.tp, row.ts)
    IN  /\ row # None /\ Protected(row)
        /\ row'    = IF d.should_exit THEN None ELSE [row EXCEPT !.hw = d.high_water]
        /\ seen'   = IF d.should_exit THEN {} ELSE seen \cup {last}
        /\ looked' = last

WatchNext == \/ \E side \in Sides, price \in LookPrices, lv \in OrderLevels : FillOne(side, price, lv)
             \/ \E last \in LookPrices : Look(last)
WatchSpec == WatchInit /\ [][WatchNext]_watchVars

-----------------------------------------------------------------------------
IsBest(x, S, qty) == x \in S /\ \A y \in S : IF qty < 0 THEN x <= y ELSE x >= y

(* The stored high_water_price is the best price for the position among    *)
(* its opening fills and every fresh quote a sweep saw in THIS life of the *)
(* row: increases, partial closes and re-opens never lose or leak it.      *)
HighWaterIsExtreme == row # None => IsBest(row.hw, seen, row.qty)

(* The levels of the docstring of evaluate_exit, stated separately for     *)
(* longs and shorts and against the prices actually seen.                  *)
CrossedLong(r, best, last) ==
    \/ Active(r.sl) /\ last * PctUnit <= r.avg * (PctUnit - r.sl)
    \/ Active(r.ts) /\ last * PctUnit <= best * (PctUnit - r.ts)
    \/ Active(r.tp) /\ last * PctUnit >= r.avg * (PctUnit + r.tp)
CrossedShort(r, best, last) ==
    \/ Active(r.sl) /\ last * PctUnit >= r.avg * (PctUnit + r.sl)
    \/ Active(r.ts) /\ last * PctUnit >= best * (PctUnit + r.ts)
    \/ Active(r.tp) /\ last * PctUnit <= r.avg * (PctUnit - r.tp)
Crossed(r, S, last) ==
    \E best \in S : /\ IsBest(best, S, r.qty)
                    /\ IF r.qty < 0 THEN CrossedShort(r, best, last) ELSE CrossedLong(r, best, last)

(* A sweep closes the position exactly when one of its levels is crossed,  *)
(* the trailing one measured from the best price of this life: no missed   *)
(* stop, no early exit, for longs and shorts alike.                        *)
ExitsExactlyWhenCrossed ==
    [][looked' # None => (row' = None <=> Crossed(row, seen \cup {looked'}, looked'))]_watchVars
=============================================================================
