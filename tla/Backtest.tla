------------------------------ MODULE Backtest ------------------------------
(***************************************************************************)
(* The replay of a strategy over historical bars (strategies/backtest.py,  *)
(* behind the equity kinds of strategies/interface.py): one position at a  *)
(* time, booked by the live apply_fill and protected by the live           *)
(* evaluate_exit, with a cost on each side.  What the strategy says at a   *)
(* bar is an input.                                                        *)
(***************************************************************************)
EXTENDS Portfolio, Matching, Sequences

CONSTANTS BtCash,        \* starting_cash
          BarPrices,     \* closes
          AllocPct,      \* alloc_pct, in hundredths
          CostBps,       \* cost_bps
          Disciplines,   \* stop, target and trailing levels a request may carry
          MaxBars,       \* bound: bars
          WarmUp         \* bars before the first signal (WARMUP)

(* schemas: a level is a number of hundredths of a percent, or absent.      *)
DisciplineLevels == [sl : Int \cup {None}, tp : Int \cup {None}, ts : Int \cup {None}]

ASSUME BacktestAssumption ==
    /\ Disciplines \subseteq DisciplineLevels
    /\ {BtCash, AllocPct, CostBps, MaxBars, WarmUp} \subseteq Nat /\ BtCash > 0
    /\ BarPrices \subseteq Nat \ {0}

DefaultStop == 800     \* DEFAULT_STOP_LOSS_PCT

VARIABLES exits,         \* ExitConfig, None before the request
          book,          \* _Book: [cash, qty, avg, high, trades, wins]
          curve,         \* equity at each bar
          close,         \* the last bar's close
          seenBars,      \* history: closes since the entry
          before,        \* history: cash before the last entry, less its cost
          gained,        \* history: round trips that returned more than a quantum over that
          kept,          \* history: round trips that returned no less than that
          earned         \* history: what closes realized, less the costs of entries
history == <<seenBars, before, gained, kept, earned>>
btVars == <<exits, book, curve, close, history>>

EmptyBook == [cash |-> BtCash, qty |-> 0, avg |-> 0, high |-> None, trades |-> 0, wins |-> 0]

BtInit == /\ exits = None /\ book = EmptyBook /\ curve = <<>> /\ close = None
          /\ seenBars = {} /\ before = 0 /\ gained = 0 /\ kept = 0 /\ earned = 0

(* _bt_config and ExitConfig: a stop is mandatory.                         *)
Discipline(d) == [d EXCEPT !.sl = IF Active(@) THEN @ ELSE DefaultStop]

Request == /\ exits = None
           /\ \E d \in Disciplines : exits' = Discipline(d)
           /\ UNCHANGED <<book, curve, close, history>>

(***************************************************************************)
(* _Book.                                                                  *)
(***************************************************************************)
(* A short's quantity is what buying it back would cost.                   *)
EquityAt(b, price) == b.cash * QtyUnit + b.qty * price
Cost(size, price)  == quantize(size * price * CostBps, QtyUnit * BPS)
AllocNotional      == quantize(BtCash * AllocPct, 100)

(* A long is never sized beyond the cash that is left.                     *)
EntryNotional(b, side) == IF side = "buy" THEN Smaller(AllocNotional, b.cash) ELSE AllocNotional

OpenBook(b, side, price) ==
    LET notional == EntryNotional(b, side)
        size == quantize(notional * QtyUnit, price)
        out  == apply_fill(b.cash, b.qty, b.avg, side, size, price, Cost(size, price))
    IN  IF notional <= 0 \/ size <= 0 THEN b
        ELSE [b EXCEPT !.cash = out.cash, !.qty = out.qty, !.avg = out.avg, !.high = price, !.trades = @ + 1]

Closing(b, price) ==
    apply_fill(b.cash, b.qty, b.avg, IF b.qty > 0 THEN "sell" ELSE "buy", Abs(b.qty), price, Cost(Abs(b.qty), price))

(* Mutant: a rising price is a win, for a short too.                       *)
CloseRising(b, price) ==
    LET out == Closing(b, price)
    IN  [b EXCEPT !.cash = out.cash, !.qty = out.qty, !.avg = out.avg, !.high = None,
                  !.wins = IF price > b.avg THEN @ + 1 ELSE @]

CloseBook(b, price) ==
    LET out == Closing(b, price)
    IN  [b EXCEPT !.cash = out.cash, !.qty = out.qty, !.avg = out.avg, !.high = None,
                  !.wins = IF out.realized > 0 THEN @ + 1 ELSE @]

ExitDecision(b, price) == evaluate_exit(b.avg, price, b.qty, b.high, exits.sl, exits.tp, exits.ts)

(* Mutant: the high-water mark is not threaded from bar to bar.            *)
SettleForgets(b, price) ==
    IF b.qty # 0 /\ ExitDecision(b, price).should_exit THEN CloseBook(b, price) ELSE b

settle_exit(b, price) ==
    IF b.qty = 0 THEN b
    ELSE IF ExitDecision(b, price).should_exit THEN CloseBook(b, price)
    ELSE [b EXCEPT !.high = ExitDecision(b, price).high_water]

step(b, action, price) ==
    CASE action = "buy"   /\ b.qty = 0 -> OpenBook(b, "buy", price)
      [] action = "short" /\ b.qty = 0 -> OpenBook(b, "sell", price)
      [] action \in {"sell", "exit"} /\ b.qty > 0 -> CloseBook(b, price)
      [] action = "cover" /\ b.qty < 0 -> CloseBook(b, price)
      [] OTHER -> b

(* replay: exits first.                                                    *)
BarBook(b, action, price) == step(settle_exit(b, price), action, price)

Actions == {"buy", "sell", "exit", "short", "cover", "hold"}

Bar(action, price) ==
    LET new    == BarBook(book, action, price)
        opened == new.trades > book.trades
        ended  == book.qty # 0 /\ (new.qty = 0 \/ opened)
        out    == Closing(book, price)
        paid   == IF opened THEN Cost(Abs(new.qty), price) ELSE 0
    IN  /\ exits # None /\ Len(curve) < MaxBars
        /\ action # "hold" => Len(curve) + 1 >= WarmUp
        /\ book' = new
        /\ curve' = Append(curve, EquityAt(new, price))
        /\ close' = price
        /\ seenBars' = IF new.qty = 0 THEN {} ELSE IF opened THEN {price} ELSE seenBars \cup {price}
        /\ before' = IF opened THEN (IF ended THEN out.cash ELSE book.cash) - paid ELSE before
        /\ gained' = IF ended /\ out.cash > before + 1 THEN gained + 1 ELSE gained
        /\ kept' = IF ended /\ out.cash >= before THEN kept + 1 ELSE kept
        /\ earned' = earned + (IF ended THEN out.realized ELSE 0) - paid
        /\ UNCHANGED exits

BtNext == Request \/ \E action \in Actions, price \in BarPrices : Bar(action, price)
BtSpec == BtInit /\ [][BtNext]_btVars

(* _metrics: in QtyUnit-ths of a quantum, and the drawdown in hundredths.  *)
Greatest(S)  == CHOOSE x \in S : \A y \in S : y <= x
total_return == (IF curve = <<>> THEN BtCash * QtyUnit ELSE curve[Len(curve)]) - BtCash * QtyUnit
Peak(n)      == Greatest({BtCash * QtyUnit} \cup {curve[i] : i \in 1 .. n})
max_drawdown == Greatest({0} \cup {((Peak(n) - curve[n]) * 100) \div Peak(n) : n \in DOMAIN curve})

-----------------------------------------------------------------------------
(* backtest.py: backtest and live position "share ONE accounting".  The    *)
(* equity curve ends where the realized results, less the costs of the     *)
(* entries, plus the open position say, up to the rounding of each fill;   *)
(* and what was lost in all is not more than the worst drawdown.           *)
ReplayReconciles ==
    close # None =>
        /\ Abs(total_return - earned * QtyUnit - book.qty * (close - book.avg)) <= 2 * book.trades * QtyUnit
        /\ curve[Len(curve)] >= 0 => (-total_return * 100) \div (BtCash * QtyUnit) <= max_drawdown

(* backtest.py: a position the live stop would have closed "cannot be      *)
(* rescued by a later signal on the same bar".  A close that reaches a     *)
(* level of the position held before it, the trailing one measured from    *)
(* the best close since the entry, ends that position.                     *)
Reaches(best) ==
    LET gain(from) == (IF book.qty > 0 THEN close' - from ELSE from - close') * PctUnit
    IN  \/ gain(book.avg) <= -(book.avg * exits.sl)
        \/ Active(exits.ts) /\ gain(best) <= -(best * exits.ts)
        \/ Active(exits.tp) /\ gain(book.avg) >= book.avg * exits.tp
ReplayStopsOut ==
    [][book.qty # 0 /\ curve' # curve /\
         (\E best \in seenBars \cup {close'} :
            /\ \A x \in seenBars \cup {close'} : IF book.qty > 0 THEN best >= x ELSE best <= x
            /\ Reaches(best))
         => book'.qty = 0 \/ book'.trades > book.trades]_btVars

(* win_rate counts the round trips that made money, the cost of the entry  *)
(* aside, for longs and shorts and whatever closes them: a win brought     *)
(* back what was put in, and a trip that brought back over a quantum more  *)
(* is a win.  Within that quantum the three roundings of a trip decide.    *)
WinsMadeMoney == gained <= book.wins /\ book.wins <= kept

(* What the metrics of a replay are computed from is what its fills made.  *)
ReplayInv == ReplayReconciles /\ WinsMadeMoney
=============================================================================
