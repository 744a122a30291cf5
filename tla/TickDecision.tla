---------------------------- MODULE TickDecision ----------------------------
(***************************************************************************)
(* One tick of one agent from the strategies' signals to the orders:       *)
(* build_context (context.py) merges the signals and drops those that      *)
(* would change nothing, the manager answers (llm.py: a model's tool calls *)
(* or the deterministic fallback), the guardrails judge the answer and     *)
(* apply_activity places what is left, one order after the other.          *)
(*                                                                         *)
(* Marks are 1, so that a size is its value; a symbol without a mark has   *)
(* the value 0.  What the account holds, what the strategies emit and what *)
(* a model answers are inputs.                                             *)
(***************************************************************************)
EXTENDS Guardrails, FiniteSetsExt, SequencesExt

CONSTANTS Books,         \* agents: [universe, cash, positions, marked]
          Evaluations,   \* sequences of [symbol, action, strength] in 0 .. 100
          Answers        \* sequences of actions a model may answer

Qty(book, s)   == IF s \in DOMAIN book.positions THEN book.positions[s] ELSE 0
Value(book, s) == IF s \in book.marked THEN Qty(book, s) ELSE 0

(* mark_to_market's equity, and trade-api's buying power.                  *)
Equity(book) == book.cash + MapThenSumSet(LAMBDA s : Value(book, s), DOMAIN book.positions)
BuyingPower(book) ==
    book.cash - (3 * MapThenSumSet(LAMBDA s : AtLeast0(-Qty(book, s)), DOMAIN book.positions)) \div 2

(* _parse_tool_calls: only an order has a side, and its notional is a      *)
(* number.                                                                 *)
Ask(type, s, side, notional, stop) ==
    [type |-> type, symbol |-> s, side |-> side, notional |-> notional, stop |-> stop]
ToolCall(a) ==
    /\ a = Ask(a.type, a.symbol, a.side, a.notional, a.stop)
    /\ \/ a.type = "close" /\ a.side = Absent
       \/ a.type = "order" /\ a.notional \in Int

(* Amounts are numbers.                                                    *)
ASSUME DecisionAssumption ==
    /\ \A book \in Books :
         /\ IsFiniteSet(DOMAIN book.positions) /\ book.cash \in Int
         /\ \A s \in DOMAIN book.positions : book.positions[s] \in Int
    /\ \A sigs \in Evaluations : \A i \in DOMAIN sigs :
         /\ i \in Nat /\ sigs[i].strength \in 0 .. 100
         /\ sigs[i].action \in {"buy", "short", "exit", "sell", "cover", "hold"}
    /\ \A actions \in Answers : \A i \in DOMAIN actions : i \in Nat /\ ToolCall(actions[i])

VARIABLES stage,         \* where the tick is
          emitted,       \* history: the signals the strategies emitted
          context,       \* build_context's result
          answered,      \* the manager's actions
          valid,         \* places of the actions the guardrails let through, not yet placed
          holding        \* signed value of each position
tickVars == <<stage, emitted, context, answered, valid, holding>>

Nothing == [s \in {} |-> 0]

TickInit == /\ stage = "idle" /\ emitted = <<>> /\ context = Absent
            /\ answered = <<>> /\ valid = {} /\ holding = Nothing

(* merge_signals: the strongest signal of a symbol, the first among equals.*)
Of(sigs, s) == {i \in DOMAIN sigs : sigs[i].symbol = s /\ sigs[i].action # "hold"}
Primary(sigs, s) ==
    IF Of(sigs, s) = {} THEN Absent
    ELSE sigs[CHOOSE i \in Of(sigs, s) : \A j \in Of(sigs, s) :
                 \/ sigs[i].strength > sigs[j].strength
                 \/ sigs[i].strength = sigs[j].strength /\ i <= j]

(* Mutant: a position that is held is not added to.                        *)
WhenFlat(action, qty, value, cap) ==
    \/ action \in {"buy", "short"} /\ qty = 0
    \/ action \in {"exit", "sell"} /\ qty > 0
    \/ action = "cover" /\ qty < 0

(* actionable_signals.                                                     *)
Actionable(action, qty, value, cap) ==
    \/ action = "buy"   /\ 100 * value < cap
    \/ action = "short" /\ 100 * AtLeast0(-value) < cap
    \/ action \in {"exit", "sell"} /\ qty > 0
    \/ action = "cover" /\ qty < 0

Side(sig) == IF sig = Absent THEN Absent ELSE sig.action

(* build_context: the account, and the signals that are left when the      *)
(* market is closed and when what the account holds is considered.         *)
Keeps(book, sigs, open, s) ==
    LET p == Primary(sigs, s) IN
    /\ p # Absent
    /\ open \/ s \in Crypto
    /\ Actionable(p.action, Qty(book, s), Value(book, s), MaxPct * Equity(book))

Context(book, sigs, open) ==
    LET known == book.universe \cup DOMAIN book.positions
    IN  [positions |-> book.positions, universe |-> book.universe, equity_open |-> open,
         values  |-> [s \in known |-> Value(book, s)],
         signals |-> [s \in known |-> IF Keeps(book, sigs, open, s) THEN Primary(sigs, s).action ELSE Absent],
         strength |-> [s \in known |-> IF Keeps(book, sigs, open, s) THEN Primary(sigs, s).strength ELSE Absent],
         equity |-> Equity(book), cash |-> book.cash, bp |-> BuyingPower(book)]

(* _holds_crypto, _should_sleep: hours decide for an agent that neither    *)
(* trades crypto nor is long in it.                                        *)
Sleeps(book, active) ==
    /\ book.universe \cap Crypto = {}
    /\ ~active
    /\ \A s \in DOMAIN book.positions \cap Crypto : book.positions[s] <= 0

(* decide_activity asks for the hours twice, and ends the tick when the    *)
(* agent sleeps or nothing is left to decide.                              *)
Decide(book, sigs, active, open) ==
    /\ stage = "idle"
    /\ \A i \in DOMAIN sigs : sigs[i].symbol \in book.universe
    /\ LET c == Context(book, sigs, open) IN
       IF Sleeps(book, active) \/ \A s \in DOMAIN c.signals : c.signals[s] = Absent
       THEN stage' = "skipped" /\ UNCHANGED <<emitted, context, holding>>
       ELSE /\ stage' = "manage" /\ emitted' = sigs /\ context' = c
            /\ holding' = [s \in DOMAIN c.signals |-> Qty(book, s)]
    /\ UNCHANGED <<answered, valid>>

(* _fallback.                                                              *)
FallbackSize(c, s) ==
    LET n == RoundEven(c.equity * 8 * (50 + c.strength[s]), 10000) IN IF n < 5000 THEN 5000 ELSE n
FallbackAction(c, s) ==
    CASE c.signals[s] = "buy"   -> Ask("order", s, "buy", FallbackSize(c, s), Absent)
      [] c.signals[s] = "short" -> Ask("order", s, "short", FallbackSize(c, s), 8)
      [] OTHER -> Ask("close", s, Absent, Absent, Absent)
Fallback(c) == {FallbackAction(c, s) : s \in {t \in DOMAIN c.signals : c.signals[t] # Absent}}

Answer(actions) ==
    /\ stage = "manage"
    /\ answered' = actions
    /\ valid' = validate(actions, context)
    /\ stage' = "apply"
    /\ UNCHANGED <<emitted, context, holding>>

ByModel == \E actions \in Answers : Answer(actions)
ByFallback == \E actions \in SetToSeqs(Fallback(context)) : Answer(actions)

(* The order of one action, sized by the snapshot; trade-api fills or      *)
(* rejects it, a close only down to flat.                                  *)
Filled(a) ==
    CASE a.type = "close" \/ a.side \in {"sell", "cover"} -> 0
      [] a.side = "buy"   -> holding[a.symbol] + a.notional
      [] a.side = "short" -> holding[a.symbol] - a.notional

Place ==
    /\ stage = "apply"
    /\ \E i \in valid :
         /\ \A j \in valid : i <= j
         /\ LET a == Sized(answered[i], context) IN
            \/ holding' = [holding EXCEPT ![a.symbol] = Filled(a)]
            \/ UNCHANGED holding
         /\ valid' = valid \ {i}
    /\ UNCHANGED <<stage, emitted, context, answered>>

TickNext ==
    \/ \E book \in Books, sigs \in Evaluations, active, open \in BOOLEAN : Decide(book, sigs, active, open)
    \/ stage = "manage" /\ (ByModel \/ ByFallback)
    \/ Place
TickSpec == TickInit /\ [][TickNext]_tickVars

-----------------------------------------------------------------------------
(* docs/04: the actionability filter "never drops a trade the guardrails   *)
(* would allow": whatever the strongest signal of a symbol asks for, if    *)
(* the guardrails, told of that signal, would accept an order for it, the  *)
(* signal has survived.                                                    *)
WouldAllow(c, s, side) ==
    LET a == IF side \in {"buy", "short"} THEN Ask("order", s, side, 1, 8)
             ELSE Ask("order", s, IF side = "cover" THEN "cover" ELSE "sell", Absent, Absent)
    IN  Accepts(a, [c EXCEPT !.signals[s] = side])
FilterDropsNothing ==
    stage = "manage" => \A s \in context.universe :
        LET p == Primary(emitted, s) IN
        p # Absent /\ WouldAllow(context, s, Side(p)) => context.signals[s] = p.action

(* docs/12 D2: the model cannot originate a trade.  Whatever it answers,   *)
(* a position that grows has, this tick, a strategy signal for that side.  *)
NeverOriginates ==
    [][stage = "apply" => \A s \in DOMAIN holding :
         LET emit(side) == \E i \in DOMAIN emitted : emitted[i].symbol = s /\ emitted[i].action = side
         IN  /\ holding'[s] > holding[s] /\ holding'[s] > 0 => emit("buy")
             /\ holding'[s] < holding[s] /\ holding'[s] < 0 => emit("short")]_tickVars

Size(n) == IF n < 0 THEN -n ELSE n
Cap100 == MaxPct * context.equity
Twice == \E i, j \in DOMAIN answered : i # j /\ answered[i].symbol = answered[j].symbol

(* With a mark and one action for each symbol, no order takes a position   *)
(* beyond the concentration cap (up to half a cent) or grows one that is   *)
(* beyond it, although sizes are judged before any order is placed.        *)
CapKept ==
    [][stage = "apply" /\ ~Twice => \A s \in DOMAIN holding :
         Size(holding'[s]) > Size(holding[s]) /\ (Qty(context, s) # 0 => context.values[s] # 0)
            => 200 * Size(holding'[s]) <= 2 * Cap100 + 100]_tickVars

(* guardrails.py: "no single position > 20% of equity".                    *)
NoPositionOverCap ==
    stage = "apply" => \A s \in DOMAIN holding :
        Size(holding[s]) > Size(context.values[s]) => 200 * Size(holding[s]) <= 2 * Cap100 + 100

(* The decision boundary: no order without its signal, none beyond the cap.*)
OrdersAreAllowed == NeverOriginates /\ CapKept
=============================================================================
