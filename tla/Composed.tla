------------------------------ MODULE Composed ------------------------------
(***************************************************************************)
(* The indicator_dsl strategies: the gate that accepts a specification     *)
(* (shared/neuromancing_shared/strategy_spec.py) and its evaluation        *)
(* (trade-api/app/strategies/composed.py), live at each tick over the      *)
(* newest bars and in a replay over all of them.                           *)
(*                                                                         *)
(* A bar is [ts, close], stamped with the time it opens; a timeframe is    *)
(* its number of time units.  What an indicator makes of its window is a   *)
(* constant.  A node of a rule is a pair of a tag and its content.         *)
(***************************************************************************)
EXTENDS Integers, Sequences, SequencesExt

CONSTANTS Specs,         \* what is sent to the gate
          Compute(_, _), \* compute_indicator: of an indicator over a window, or Unknown
          Unknown,       \* None: too few bars, no such field
          Absent,        \* a key that is not there
          Closes,        \* closes of bars
          Lookback,      \* EvaluateRequest.lookback
          MaxNow         \* bound: time units

ASSUME ComposedAssumption == Lookback \in Nat /\ MaxNow \in Nat

VARIABLES spec,          \* the strategy, Absent before it is accepted
          clock,         \* the newest bar of the fastest timeframe closes now
          series,        \* timeframe 1: the closed bars, in order
          ticked,        \* history: [at, bars, action] of each tick
          refused        \* history: the gate has refused one
evalVars == <<spec, clock, series, ticked, refused>>

ComposedInit == spec = Absent /\ clock = 0 /\ series = <<>> /\ ticked = <<>> /\ refused = FALSE

(***************************************************************************)
(* strategy_spec.py.                                                       *)
(***************************************************************************)
DictFields == [macd |-> {"line", "hist"}]
Fns        == {"sma", "ema", "rsi", "macd"}
Ops        == {"<", ">"}
Crosses    == {"above", "below"}
Groups     == <<"buy", "exit", "cover", "short">>

IndicatorOf(s, id) == LET i == CHOOSE j \in DOMAIN s.indicators : s.indicators[j].id = id IN s.indicators[i]
IdsOf(s) == {s.indicators[i].id : i \in DOMAIN s.indicators}

Smallest(S) == CHOOSE x \in S : \A y \in S : x <= y
TimeframesOf(s) == {s.indicators[i].timeframe : i \in DOMAIN s.indicators} \ {Absent}
base_timeframe(s) ==
    IF s.base # Absent THEN s.base ELSE IF TimeframesOf(s) = {} THEN 1 ELSE Smallest(TimeframesOf(s))
required_timeframes(s) == TimeframesOf(s) \cup {base_timeframe(s)}

ValidIndicator(i) ==
    /\ i.fn \in Fns
    /\ i.period # Absent => i.period > 0
    /\ i.fn \in {"sma", "ema"} => i.period # Absent

FieldFits(s, id, field) ==
    LET fn == IndicatorOf(s, id).fn IN IF fn \in DOMAIN DictFields THEN field \in DictFields[fn] ELSE TRUE

check_cond(s, c) ==
    /\ c.indicator \in IdsOf(s)
    /\ FieldFits(s, c.indicator, c.field)
    /\ IndicatorOf(s, c.indicator).fn \notin DOMAIN DictFields => c.field = Absent
    /\ (c.op = Absent) # (c.cross = Absent)
    /\ c.op # Absent => c.op \in Ops
    /\ c.cross # Absent => c.cross \in Crosses
    /\ (c.value = Absent) # (c.other = Absent)
    /\ c.other # Absent => c.other \in IdsOf(s) /\ FieldFits(s, c.other, c.other_field)

RECURSIVE check_group(_, _)
check_group(s, node) ==
    CASE node[1] = "state" -> node[2] \in DOMAIN s.states
      [] node[1] = "cond"  -> check_cond(s, node[2])
      [] node[1] = "not"   -> check_group(s, node[2])
      [] OTHER -> node[2] # <<>> /\ \A i \in DOMAIN node[2] : check_group(s, node[2][i])

validate_spec(s) ==
    /\ s.indicators # <<>>
    /\ \A i, j \in DOMAIN s.indicators : i # j => s.indicators[i].id # s.indicators[j].id
    /\ \A i \in DOMAIN s.indicators : ValidIndicator(s.indicators[i])
    /\ \A n \in DOMAIN s.states : check_cond(s, s.states[n])
    /\ \E g \in Range(Groups) : s[g] # Absent
    /\ \A g \in Range(Groups) : s[g] # Absent => check_group(s, s[g])

(***************************************************************************)
(* evaluate_composed.                                                      *)
(***************************************************************************)
(* Bars of a longer timeframe: one for each span that has begun, whose     *)
(* close is the newest one in it.                                          *)
Bars(n, closed) ==
    IF n = 1 THEN closed
    ELSE LET spans  == {closed[i].ts \div n : i \in DOMAIN closed}
             lastOf(p) == CHOOSE i \in DOMAIN closed : closed[i].ts \div n = p /\
                              \A j \in DOMAIN closed : closed[j].ts \div n = p => j <= i
         IN  SetToSortSeq({[ts |-> p * n, close |-> closed[lastOf(p)].close] : p \in spans},
                          LAMBDA x, y : x.ts < y.ts)


ClosedBy(bars, n, cutoff) == SelectSeq(bars, LAMBDA b : b.ts + n <= cutoff)

(* The value of an indicator (and field) k base steps ago.                 *)
Raw(s, byTf, id, field, k) ==
    LET base == byTf[base_timeframe(s)]
        ind  == IndicatorOf(s, id)
        tf   == IF ind.timeframe = Absent THEN base_timeframe(s) ELSE ind.timeframe
        v    == Compute(ind, ClosedBy(byTf[tf], tf, base[Len(base) - k].ts + base_timeframe(s)))
    IN  IF Len(base) <= k THEN Unknown
        ELSE IF v = Unknown THEN Unknown
        ELSE IF ind.fn \in DOMAIN DictFields THEN v[field] ELSE v

Threshold(s, byTf, c, k) == IF c.other # Absent THEN Raw(s, byTf, c.other, c.other_field, k) ELSE c.value

Compare(op, x, y) == IF op = "<" THEN x < y ELSE x > y

cond_true(s, byTf, c, k) ==
    LET x == Raw(s, byTf, c.indicator, c.field, k)
        y == Threshold(s, byTf, c, k)
        px == Raw(s, byTf, c.indicator, c.field, k + 1)
        py == Threshold(s, byTf, c, k + 1)
    IN  IF c.cross = Absent THEN Unknown \notin {x, y} /\ Compare(c.op, x, y)
        ELSE /\ k < 2 /\ Unknown \notin {x, y, px, py}
             /\ IF c.cross = "above" THEN px <= py /\ x > y ELSE px >= py /\ x < y

RECURSIVE node_true(_, _, _, _)
node_true(s, byTf, node, k) ==
    CASE node[1] = "state" -> cond_true(s, byTf, s.states[node[2]], k)
      [] node[1] = "cond"  -> cond_true(s, byTf, node[2], k)
      [] node[1] = "not"   -> ~node_true(s, byTf, node[2], k)
      [] node[1] = "all"   -> \A i \in DOMAIN node[2] : node_true(s, byTf, node[2][i], k)
      [] node[1] = "any"   -> \E i \in DOMAIN node[2] : node_true(s, byTf, node[2][i], k)

fired(s, byTf, node) == node_true(s, byTf, node, 0) /\ ~node_true(s, byTf, node, 1)

evaluate_composed(s, byTf) ==
    LET fires(g) == s[g] # Absent /\ fired(s, byTf, s[g]) IN
    IF Len(byTf[base_timeframe(s)]) < 2 THEN "hold"
    ELSE LET hit == SelectSeq(Groups, fires) IN IF hit = <<>> THEN "hold" ELSE Head(hit)

(***************************************************************************)
(* The callers.                                                            *)
(***************************************************************************)
Loaded(s, closed, limit) ==
    [tf \in required_timeframes(s) |->
        LET b == Bars(tf, closed) IN IF Len(b) <= limit THEN b ELSE SubSeq(b, Len(b) - limit + 1, Len(b))]

(* IndicatorDslStrategy.backtest at bar i of the base series; the longer   *)
(* series are passed whole.                                                *)
Replayed(s, closed, i) ==
    LET whole == Loaded(s, closed, Len(closed)) IN
    evaluate_composed(s, [whole EXCEPT ![base_timeframe(s)] = SubSeq(@, 1, i)])

(* create_strategy or compile_proposal.                                    *)
Submit(s) ==
    /\ spec = Absent
    /\ IF validate_spec(s) THEN spec' = s /\ UNCHANGED refused ELSE refused' = TRUE /\ UNCHANGED spec
    /\ UNCHANGED <<clock, series, ticked>>

(* A span passes, with or without a trade in it.                           *)
TimePasses ==
    /\ spec # Absent /\ clock < MaxNow
    /\ clock' = clock + 1
    /\ \/ \E c \in Closes : series' = Append(series, [ts |-> clock, close |-> c])
       \/ UNCHANGED series
    /\ UNCHANGED <<spec, ticked, refused>>

(* A decision tick evaluates the strategy over the newest bars.            *)
EvaluateTick ==
    /\ spec # Absent /\ series # <<>>
    /\ \A i \in DOMAIN ticked : ticked[i].at < clock
    /\ ticked' = Append(ticked, [at |-> clock, bars |-> Len(series),
                                 action |-> evaluate_composed(spec, Loaded(spec, series, Lookback))])
    /\ UNCHANGED <<spec, clock, series, refused>>

ComposedNext == (\E s \in Specs : Submit(s)) \/ TimePasses \/ EvaluateTick
ComposedSpec == ComposedInit /\ [][ComposedNext]_evalVars

-----------------------------------------------------------------------------
(* A live evaluation loads the newest bars only, and the gate has no limit *)
(* for a period.  What it sees of the present step and of the two before   *)
(* is what the whole series shows when no indicator reaches beyond the     *)
(* bars that are loaded even then, of a longer timeframe one more; an      *)
(* average that is seeded with the oldest bar reaches back to it.          *)
Reach(i) == IF i.fn = "rsi" THEN 1 + (IF i.period = Absent THEN 14 ELSE i.period) ELSE i.period
Settled(s) ==
    \A j \in DOMAIN s.indicators :
        LET i == s.indicators[j]
        IN  /\ i.fn \notin {"ema", "macd"}
            /\ Reach(i) + (IF i.timeframe \in {Absent, base_timeframe(s)} THEN 2 ELSE 3) <= Lookback
SeesEnough(t) == base_timeframe(spec) = 1 /\ (t.bars <= Lookback \/ Settled(spec))

(* composed.py: "no lookahead".  What a tick concluded is what a replay    *)
(* over everything that has happened since concludes for the same bar,     *)
(* though the replay is handed the longer series to their ends, as long as *)
(* the tick saw what the rules look at.                                    *)
ReplayAgrees ==
    \A i \in DOMAIN ticked :
        SeesEnough(ticked[i]) => Replayed(spec, series, ticked[i].bars) = ticked[i].action

(* composed.py: a signal fires "only on the group's false->true            *)
(* transition": never the same one at two bars in a row, unless the tick   *)
(* does not see what the rules look at.                                    *)
NeverTwiceRunning ==
    \A i, j \in DOMAIN ticked :
        ticked[j].bars = ticked[i].bars + 1 /\ SeesEnough(ticked[j]) /\ ticked[i].action # "hold"
            => ticked[j].action # ticked[i].action

(* strategy_spec.py is the "fail-closed gate": the rules of an accepted    *)
(* specification name only what their evaluation finds.                    *)
RECURSIVE NamesOf(_, _)
NamesOf(s, node) ==
    CASE node[1] = "state" -> {s.states[node[2]].indicator, s.states[node[2]].other}
      [] node[1] = "cond"  -> {node[2].indicator, node[2].other}
      [] node[1] = "not"   -> NamesOf(s, node[2])
      [] OTHER -> UNION {NamesOf(s, node[2][i]) : i \in DOMAIN node[2]}
AcceptedEvaluates ==
    spec # Absent => \A g \in Range(Groups) : spec[g] # Absent => NamesOf(spec, spec[g]) \subseteq IdsOf(spec) \cup {Absent}

(* library.py, composed.py: a persistent state does not re-emit "the same  *)
(* signal every tick": two ticks never emit the signal of one transition.  *)
FiresOncePerTransition ==
    \A i, j \in DOMAIN ticked :
        i # j /\ ticked[i].bars = ticked[j].bars => "hold" \in {ticked[i].action, ticked[j].action}

=============================================================================
