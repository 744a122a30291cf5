---------------------------- MODULE MCPositions -----------------------------
(***************************************************************************)
(* One run over the independent scopes of positions, strategies and the    *)
(* quote they are marked at: a state lies in one scope, whose variables    *)
(* alone change.                                                           *)
(***************************************************************************)
EXTENDS PositionBook, ExitWatch, Backtest, Composed, StrategyRegistry, Quotes

CONSTANT Scopes
VARIABLE scope

all == <<scope, bookVars, watchVars, btVars, evalVars, registryVars, quoteVars>>

PositionsInit == scope \in Scopes /\ BookInit /\ WatchInit /\ BtInit /\ ComposedInit /\ RegistryInit /\ QuotesInit

(* The scopes whose inputs are bounded come to an end.                     *)
Ends == scope # "watch" /\ UNCHANGED all

PositionsNext ==
    \/ scope = "book"       /\ BookNext     /\ UNCHANGED <<scope, watchVars, btVars, evalVars, registryVars, quoteVars>>
    \/ scope = "watch"      /\ WatchNext    /\ UNCHANGED <<scope, bookVars, btVars, evalVars, registryVars, quoteVars>>
    \/ scope = "replay"     /\ BtNext       /\ UNCHANGED <<scope, bookVars, watchVars, evalVars, registryVars, quoteVars>>
    \/ scope = "evaluation" /\ ComposedNext /\ UNCHANGED <<scope, bookVars, watchVars, btVars, registryVars, quoteVars>>
    \/ scope = "registry"   /\ RegistryNext /\ UNCHANGED <<scope, bookVars, watchVars, btVars, evalVars, quoteVars>>
    \/ scope = "quotes"     /\ QuotesNext   /\ UNCHANGED <<scope, bookVars, watchVars, btVars, evalVars, registryVars>>
    \/ Ends
PositionsSpec == PositionsInit /\ [][PositionsNext]_all

-----------------------------------------------------------------------------
(* Prices whose averages need rounding, sizes of one to three half-shares, *)
(* a fee that a capped close must prorate.                                 *)
PbPrices == {3, 5, 8}
PbQtys   == {1, 2, 3}
PbFees   == {0, 3}

(* Prices far enough apart to cross 10 percent and 25 percent levels and   *)
(* close enough to stay inside them.                                       *)
EwPrices == {80, 90, 100, 115, 130}
EwAsset  == [sym \in Symbols |-> "crypto"]

(* A request without discipline and one with all three levels.             *)
Discipline3(stop, target, trail) == [sl |-> stop, tp |-> target, ts |-> trail]
BtDisciplines == {Discipline3(None, None, None), Discipline3(2600, 3000, 1500)}

(* Specifications on two timeframes: a level and its negation, a history   *)
(* field, crossings of a value and of a slower average, an empty group, a  *)
(* level of an average as long as the lookback and one of a seeded average *)
(* (both fire at every bar once there are more bars than are loaded, or    *)
(* other than in a replay).                                                *)
Unit == 324
Uses(id, fn, tf, p) == [id |-> id, fn |-> fn, timeframe |-> tf, period |-> p]
Compares(i, f, op, cr, v, o) ==
    [indicator |-> i, field |-> f, op |-> op, cross |-> cr, value |-> v, other |-> o, other_field |-> Absent]
Above1  == Compares("a", Absent, ">", Absent, Unit, Absent)
CrossesUp == Compares("a", Absent, Absent, "above", Absent, "h")
Falling == Compares("m", "hist", "<", Absent, 0, Absent)
Authored(inds, buy, exit) ==
    [base |-> Absent, indicators |-> inds, states |-> [up |-> Above1], buy |-> buy, exit |-> exit,
     cover |-> Absent, short |-> Absent]
Fast == Uses("a", "sma", 1, 2)
Slow == Uses("h", "sma", 2, 1)
Macd == Uses("m", "macd", 1, Absent)
Level(fast) == Authored(<<fast, Slow>>, <<"state", "up">>, <<"not", <<"state", "up">>>>)
CoSpecs ==
    {Level(Fast), Level(Uses("a", "sma", 1, Lookback)),
     Authored(<<Uses("a", "ema", 1, 2), Slow>>, <<"cond", CrossesUp>>, <<"not", <<"state", "up">>>>),
     Authored(<<Fast, Slow, Macd>>, <<"all", << <<"cond", CrossesUp>>, <<"cond", Falling>> >> >>,
              <<"any", << <<"cond", Falling>> >> >>),
     Authored(<<Fast, Slow>>, <<"cond", CrossesUp>>, Absent),
     Authored(<<Fast>>, <<"cond", CrossesUp>>, Absent),
     Authored(<<Fast, Slow>>, <<"all", <<>> >>, Absent)}

(* indicators.py in parts of a Unit; the macd's spans 12, 26 and 9 are     *)
(* shortened to 1, 2 and 2.                                                *)
Mean(v, from, to) == FoldLeft(LAMBDA x, y : x + y, 0, SubSeq(v, from, to)) \div (to - from + 1)
Ema(v, n) ==
    LET e[j \in n .. Len(v)] == IF j = n THEN Mean(v, 1, n) ELSE (2 * v[j] + (n - 1) * e[j - 1]) \div (n + 1) IN e
CoCompute(i, w) ==
    LET v == [j \in DOMAIN w |-> Unit * w[j].close]
        n == IF i.fn = "macd" THEN 3 ELSE i.period
    IN  IF Len(v) < n THEN Unknown
        ELSE CASE i.fn = "sma"  -> Mean(v, Len(v) - n + 1, Len(v))
               [] i.fn = "ema"  -> Ema(v, n)[Len(v)]
               [] i.fn = "macd" -> LET line == [j \in 1 .. Len(v) - 1 |-> v[j + 1] - Ema(v, 2)[j + 1]]
                                       last == line[Len(line)]
                                   IN  [line |-> last, hist |-> last - Ema(line, 2)[Len(line)]]

(* Creations that meet a name of the catalog, at its version and another,  *)
(* one that is refused, two that raise and one of no kind of the table.    *)
ReCatalog == <<"h1", "h2">>
ReBody(n, v, k, s) == [name |-> n, version |-> v, kind |-> k, spec |-> s, status |-> "active"]
ReBodies == {ReBody("h2", 1, "indicator_dsl", "good"), ReBody("h2", 2, "signal_fn", "raises"),
             ReBody("h1", 1, "rule_dsl", "raises"), ReBody("h1", 1, "rule_dsl", "refused"),
             ReBody("h1", 1, "option_structure", "good")}

(* A session after which time goes on.                                     *)
QuSessions == {[open |-> 2, close |-> 4]}
=============================================================================
