---------------------------- MODULE PositionBook ----------------------------
(***************************************************************************)
(* The life of one position of one account under a sequence of fills of    *)
(* either side, every one applied by apply_fill.  Beside the state the     *)
(* code stores (cash, qty, avg) the module accumulates what apply_fill     *)
(* reports, the realized P&L and the fees of opening fills, to compare the *)
(* running book with mark_to_market's derived figure.                      *)
(***************************************************************************)
EXTENDS Portfolio

CONSTANTS StartingCash,  \* starting_equity, in money quanta
          Prices,        \* fill prices, in money quanta
          Qtys,          \* fill sizes, in quantity quanta
          Fees,          \* fees of a fill
          MaxFills       \* bound on the number of fills

ASSUME BookAssumption ==
    /\ StartingCash \in Nat /\ MaxFills \in Nat
    /\ Prices \subseteq Nat \ {0} /\ Qtys \subseteq Nat \ {0} /\ Fees \subseteq Nat
    /\ \E q \in Qtys : \A p \in Qtys : p <= q

VARIABLES cash, qty, avg,  \* Account.cash_balance, Position.qty, .avg_entry_price
          realized,        \* sum of FillOutcome.realized_pnl
          openFees,        \* sum of the fees of opening fills
          fills            \* number of fills applied
bookVars == <<cash, qty, avg, realized, openFees, fills>>

BookInit == /\ cash = StartingCash /\ qty = 0 /\ avg = 0
            /\ realized = 0 /\ openFees = 0 /\ fills = 0

ApplyFill(side, size, price, fees) ==
    LET outcome == apply_fill(cash, qty, avg, side, size, price, fees)
    IN  /\ cash' = outcome.cash
        /\ qty'  = outcome.qty
        /\ avg'  = outcome.avg
        /\ realized' = realized + outcome.realized
        /\ openFees' = openFees + (IF IsOpening(side, qty) THEN outcome.fee ELSE 0)
        /\ fills' = fills + 1

BookNext == /\ fills < MaxFills
            /\ \E side \in Sides, size \in Qtys, price \in Prices, fees \in Fees :
                  ApplyFill(side, size, price, fees)

BookSpec == BookInit /\ [][BookNext]_bookVars

-----------------------------------------------------------------------------
(* Types, and a flat book carries no entry price.                          *)
BookTypeOK == /\ cash \in Int /\ qty \in Int /\ avg \in Nat
              /\ realized \in Int /\ openFees \in Nat /\ fills \in 0 .. MaxFills
              /\ qty = 0 => avg = 0

(* mark_to_market derives realized P&L as total equity minus starting      *)
(* equity minus unrealized, which is cash + cost basis - starting equity.  *)
(* That must be what the fills realized, less the fees paid on opens, up   *)
(* to the rounding apply_fill commits: at most one money quantum for a     *)
(* fill and half a quantum per quantity quantum of a re-blended entry.     *)
DerivedRealized == (cash - StartingCash) * QtyUnit + qty * avg
MaxSize == CHOOSE q \in Qtys : \A p \in Qtys : p <= q
RealizedReconciles ==
    2 * Abs(DerivedRealized - (realized - openFees) * QtyUnit)
        <= fills * (2 * QtyUnit + MaxFills * MaxSize)

(* The stored book is well formed and its derived P&L is what fills made.  *)
BookInv == BookTypeOK /\ RealizedReconciles
=============================================================================
