----------------------------- MODULE Guardrails -----------------------------
(***************************************************************************)
(* game-api/app/agents/guardrails.py: which of the manager's actions pass, *)
(* and with what size, judged one by one against the snapshot of the tick. *)
(* Amounts are cents; a cap, before it is rounded, counts 1/300 of a cent, *)
(* in which a percentage and the collateral multiple 3/2 are exact.        *)
(***************************************************************************)
EXTENDS Integers, Sequences, FiniteSets

CONSTANTS Crypto,        \* the symbols that is_crypto recognises
          MaxPositions,  \* DEFAULT_MAX_POSITIONS
          MaxPct,        \* max_position_pct, in percent
          PerTickPct,    \* per_tick_notional_pct, in percent
          Absent         \* Python's None

ASSUME GuardrailAssumption ==
    /\ MaxPositions \in Nat /\ MaxPct \in Nat /\ PerTickPct \in Nat
    /\ Absent \notin Int \cup {"buy", "short", "exit", "sell", "cover"}

Fine == 300
Least(x, y) == IF x < y THEN x ELSE y
AtLeast0(x) == IF x < 0 THEN 0 ELSE x

(* round(x, 2) of a rational number of cents: half to even.                *)
RoundEven(num, den) ==
    LET q == num \div den  r == num % den
    IN  IF 2 * r > den \/ (2 * r = den /\ q % 2 = 1) THEN q + 1 ELSE q

(* The context c: positions (signed sizes), values (signed, 0 where there  *)
(* is no mark), signals, universe, equity, cash, bp, equity_open.          *)
Longs(c)  == {s \in DOMAIN c.positions : c.positions[s] > 0}
Shorts(c) == {s \in DOMAIN c.positions : c.positions[s] < 0}
HeldNow(c) == Longs(c) \cup Shorts(c)

PerTickCap(c) == (Fine \div 100) * PerTickPct * c.equity
MaxPosValue(c) == (Fine \div 100) * MaxPct * c.equity

(* Mutant: what is held short already is not counted.                      *)
RoomForgets(a, c) == AtLeast0(MaxPosValue(c) - Fine * AtLeast0(c.values[a.symbol]))

Exposed(a, c) == IF a.side = "buy" THEN c.values[a.symbol] ELSE AtLeast0(-c.values[a.symbol])
Room(a, c) == AtLeast0(MaxPosValue(c) - Fine * Exposed(a, c))

(* cash for a long, buying power over the collateral multiple for a short. *)
Afford(a, c) == IF a.side = "buy" THEN Fine * c.cash ELSE (Fine * c.bp * 2) \div 3

Capped(a, c) == Least(Least(Fine * a.notional, PerTickCap(c)), Least(Room(a, c), Afford(a, c)))

Tradable(a, c) == a.symbol \in c.universe /\ (c.equity_open \/ a.symbol \in Crypto)

AcceptsClose(a, c) ==
    \/ a.type = "close" /\ a.symbol \in HeldNow(c)
    \/ a.type = "order" /\ a.side = "sell" /\ a.symbol \in Longs(c)
    \/ a.type = "order" /\ a.side = "cover" /\ a.symbol \in Shorts(c)

Backed(a, c) == c.signals[a.symbol] = a.side

AcceptsOpen(a, c) ==
    /\ a.type = "order" /\ a.side \in {"buy", "short"}
    /\ a.symbol \notin (IF a.side = "buy" THEN Shorts(c) ELSE Longs(c))
    /\ Backed(a, c)
    /\ a.symbol \in HeldNow(c) \/ Cardinality(HeldNow(c)) < MaxPositions
    /\ a.side = "short" => a.stop # Absent
    /\ a.notional > 0
    /\ Capped(a, c) > 0

Accepts(a, c) == Tradable(a, c) /\ (AcceptsClose(a, c) \/ AcceptsOpen(a, c))

(* _pass_open: an open goes on with its capped size.                       *)
Sized(a, c) == IF AcceptsOpen(a, c) THEN [a EXCEPT !.notional = RoundEven(Capped(a, c), Fine)] ELSE a

(* The actions that pass, by their place in the answer.                    *)
validate(actions, c) == {i \in DOMAIN actions : Accepts(actions[i], c)}
=============================================================================
