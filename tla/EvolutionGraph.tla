--------------------------- MODULE EvolutionGraph ---------------------------
(***************************************************************************)
(* The reasoning graph of one agent's evolution (evolve/graph.py):         *)
(* reflect, propose, backtest, decide, and once more from propose when the *)
(* gate rejects.  Its channels are checkpointed under the cycle's thread:  *)
(* a retry of the activity (workflow.py) starts again at reflect with the  *)
(* channels of the attempt before, except those of the new input.          *)
(*                                                                         *)
(* A specification stands for the period of its indicators and the         *)
(* threshold of its conditions.  How a specification really does on a      *)
(* symbol over a span of days is a constant; a backtest may fail, and then *)
(* contributes nothing.  Returns and drawdowns are in hundredths of a      *)
(* percent.                                                                *)
(***************************************************************************)
EXTENDS Integers, Sequences, FiniteSets, SequencesExt

CONSTANTS Incumbent0,    \* the agent's specification: [period, value, timeframe]
          Sampled,       \* the symbols backtested: universe[:backtest_symbols]
          Measure(_, _, _),   \* what a specification does on a symbol in a set of days
          Proposals,     \* what the reasoner may propose: sequences of specifications
          NoSpec,        \* no specification, no metrics
          MinTrades, MaxDD, ReturnMargin,   \* GateConfig
          EvoBudget,     \* llm_daily_token_budget_evolution, in calls
          MaxCycles,     \* bound: graphs that are started
          MaxSetbacks    \* bound: backtests that fail, Redis commands that
                         \* fail and attempts that run on, together

(* ALLOWED_TIMEFRAMES; what validate_spec and the reasoner's schema admit. *)
Timeframes == {"1m", "5m", "1h", "1d"}
Specs == [period : Int, value : Int, timeframe : Timeframes]

ASSUME GraphAssumption ==
    /\ Incumbent0 \in Specs /\ Proposals \subseteq Seq(Specs)
    /\ IsFiniteSet(Sampled)
    /\ ReturnMargin \in Nat \ {0} /\ {MinTrades, EvoBudget, MaxCycles, MaxSetbacks} \subseteq Nat

Windows == {"w1", "w2"}

VARIABLES node,          \* the node that runs next, or "idle"
          keyed,         \* llm.has_key()
          today,         \* ctx["now"] of this attempt, in days
          tries,         \* attempts of this cycle
          candidates, backtests, incumbent_metrics, best, refines, adopted,   \* channels
          failing,       \* backtests of this round that have failed
          evoUsed,       \* Redis: today's calls, of all agents
          behind,        \* calls that attempts given up may still make
          cycles, failed, evoZombies, evoFaults,   \* bounded inputs used up
          evoSpent,      \* history: today's answered calls
          unanswered     \* history: symbols and windows whose backtest failed in this cycle
channels  == <<candidates, backtests, incumbent_metrics, best, refines, adopted>>
rounds    == <<failing, failed, unanswered>>
spending  == <<evoUsed, evoSpent, evoFaults>>
graphVars == <<node, keyed, today, tries, channels, rounds, spending, behind, cycles, evoZombies>>

GraphInit ==
    /\ node = "idle" /\ keyed = FALSE /\ today = 0 /\ tries = 0
    /\ candidates = <<>> /\ backtests = <<>> /\ incumbent_metrics = NoSpec
    /\ best = 0 /\ refines = 0 /\ adopted = NoSpec
    /\ failing = {} /\ failed = 0 /\ unanswered = {}
    /\ evoUsed = 0 /\ evoSpent = 0 /\ evoFaults = 0
    /\ behind = 0 /\ cycles = 0 /\ evoZombies = 0

Setbacks == failed + evoZombies + evoFaults

(***************************************************************************)
(* budget.py.                                                              *)
(***************************************************************************)
(* over_budget: a failed read counts as nothing spent.                     *)
LookUp(goes) ==
    \/ goes = (evoUsed < EvoBudget) /\ UNCHANGED evoFaults
    \/ goes /\ Setbacks < MaxSetbacks /\ evoFaults' = evoFaults + 1

(* An answered call is charged, unless the Redis command fails or the      *)
(* answer reports no usage.                                                *)
Charge ==
    /\ evoSpent' = evoSpent + 1
    /\ \/ evoUsed' = evoUsed + 1 /\ UNCHANGED evoFaults
       \/ Setbacks < MaxSetbacks /\ evoFaults' = evoFaults + 1 /\ UNCHANGED evoUsed

(* A call that fails costs nothing.                                        *)
Call == Charge \/ UNCHANGED spending

(***************************************************************************)
(* _evolve_one around the graph.                                           *)
(***************************************************************************)
(* over_budget is looked at once, before the graph.                        *)
StartGraph ==
    /\ node = "idle" /\ cycles < MaxCycles
    /\ LookUp(TRUE)
    /\ cycles' = cycles + 1 /\ tries' = 1
    /\ keyed' \in BOOLEAN
    /\ node' = "reflect"
    /\ candidates' = <<>> /\ backtests' = <<>> /\ incumbent_metrics' = NoSpec
    /\ best' = 0 /\ refines' = 0 /\ adopted' = NoSpec /\ failing' = {} /\ unanswered' = {}
    /\ UNCHANGED <<today, failed, evoUsed, evoSpent, behind, evoZombies>>

(* What an attempt may still call: one in reflect, one in each propose.    *)
Left == IF ~keyed \/ node \in {"idle", "done"} THEN 0
        ELSE 2 - refines + IF node = "reflect" THEN 1 ELSE 0

(* An attempt that Temporal gives up is lost with its worker, or runs on   *)
(* with channels of its own and does what it would have done.              *)
Abandon ==
    \/ UNCHANGED <<behind, evoZombies>>
    \/ evoZombies' = evoZombies + 1 /\ behind' = behind + Left

(* The second attempt looks at the budget again and has a later            *)
(* ctx["now"].  Only refine_count is in its input.                         *)
RetryGraph ==
    /\ node # "idle" /\ tries = 1
    /\ tries' = 2
    /\ Abandon
    /\ \E goes \in BOOLEAN : LookUp(goes) /\ node' = IF goes THEN "reflect" ELSE "idle"
    /\ failed + evoZombies' + evoFaults' <= MaxSetbacks
    /\ today' = today + 1
    /\ refines' = 0 /\ failing' = {}
    /\ UNCHANGED <<keyed, candidates, backtests, incumbent_metrics, best, adopted, failed, unanswered, evoUsed, evoSpent,
                   cycles>>

(* maximum_attempts = 2.                                                   *)
GiveUpGraph ==
    /\ node # "idle" /\ tries = 2
    /\ Abandon
    /\ failed + evoZombies' + evoFaults <= MaxSetbacks
    /\ node' = "idle" /\ failing' = {}
    /\ UNCHANGED <<keyed, today, tries, channels, failed, unanswered, spending, cycles>>

(* An attempt that runs on calls, or goes on to the next agent.            *)
LateCall ==
    /\ behind > 0
    /\ behind' = behind - 1
    /\ Call
    /\ UNCHANGED <<node, keyed, today, tries, channels, rounds, cycles, evoZombies>>

LateStart ==
    /\ cycles < MaxCycles /\ behind + 3 <= 3 * evoZombies
    /\ LookUp(TRUE)
    /\ cycles' = cycles + 1
    /\ behind' = behind + 3
    /\ UNCHANGED <<node, keyed, today, tries, channels, rounds, evoUsed, evoSpent, evoZombies>>

(***************************************************************************)
(* The nodes.                                                              *)
(***************************************************************************)
Reflect ==
    /\ node = "reflect"
    /\ IF keyed THEN Call ELSE UNCHANGED spending
    /\ node' = "propose"
    /\ UNCHANGED <<keyed, today, tries, channels, rounds, behind, cycles, evoZombies>>

(* compile_proposal: validate_spec admits positive periods only; a refused *)
(* candidate is dropped, the others are appended in order (a fold rather   *)
(* than SelectSeq, which no prover can look into).                         *)
ValidSpec(spec) == spec.period > 0
Kept(seq) == FoldLeft(LAMBDA out, x : IF ValidSpec(x) THEN Append(out, x) ELSE out, <<>>, seq)

(* _period_variants: two nudges up and one down, none to 1 or less, and    *)
(* the thresholds scaled by a tenth (a threshold of 0 stays what it was).  *)
Nudged(spec, d) == IF spec.period + d > 1 THEN <<[spec EXCEPT !.period = @ + d]>> ELSE <<>>
Heuristic(spec) ==
    Nudged(spec, 2) \o Nudged(spec, -2) \o Nudged(spec, 4)
        \o <<[spec EXCEPT !.value = (@ * 11) \div 10], [spec EXCEPT !.value = (@ * 9) \div 10]>>

Proposed(specs) ==
    /\ candidates' = Kept(specs)
    /\ refines' = refines + 1
    /\ node' = "backtest"
    /\ UNCHANGED <<keyed, today, tries, backtests, incumbent_metrics, best, adopted, rounds, behind, cycles, evoZombies>>

Propose ==
    /\ node = "propose"
    /\ \/ keyed /\ Charge /\ \E specs \in Proposals : Proposed(specs)
       \/ /\ IF keyed THEN Call ELSE UNCHANGED spending
          /\ Proposed(Heuristic(Incumbent0))

(* walk_forward_windows: the span of the shallowest timeframe's archive.   *)
Depth(spec) == CASE spec.timeframe = "1m" -> 5 [] spec.timeframe = "5m" -> 20
                 [] spec.timeframe = "1h" -> 120 [] spec.timeframe = "1d" -> 365
Span(spec) == LET third == Depth(spec) \div 3 IN IF third < 2 THEN 2 ELSE third
Days(spec, w, now) ==
    IF w = "w1" THEN now - Span(spec) .. now - 1
    ELSE now - (2 * Span(spec) + 1) .. now - Span(spec) - 2

Total(f) == FoldFunction(LAMBDA x, sum : x + sum, 0, f)

(* backtest_candidate: the mean return, the trades and the worst drawdown  *)
(* over the symbols whose backtest answered.                               *)
Aggregate(spec, w, now, answering) ==
    LET m   == [s \in answering |-> Measure(spec, s, Days(spec, w, now))]
        dds == {m[s].max_drawdown : s \in answering}
    IN  IF answering = {} THEN [total_return |-> 0, trades |-> 0, max_drawdown |-> 0]
        ELSE [total_return |-> Total([s \in answering |-> m[s].total_return]) \div Cardinality(answering),
              trades       |-> Total([s \in answering |-> m[s].trades]),
              max_drawdown |-> CHOOSE d \in dds : \A e \in dds : e <= d]
Metrics(spec, now, lost) ==
    [w \in Windows |-> Aggregate(spec, w, now, {s \in Sampled : <<s, w>> \notin lost})]

Score(m) == m["w1"].total_return + m["w2"].total_return

(* The incumbent is measured once, when no checkpoint holds its metrics.   *)
Lost(i) == {x \in Sampled \X Windows : <<i, x[1], x[2]>> \in failing}
Measured ==
    /\ backtests' = [i \in DOMAIN candidates |-> Metrics(candidates[i], today, Lost(i))]
    /\ incumbent_metrics' = IF incumbent_metrics = NoSpec THEN Metrics(Incumbent0, today, Lost(0))
                            ELSE incumbent_metrics
    /\ best' = CHOOSE i \in DOMAIN candidates : \A j \in DOMAIN candidates :
                  LET si == Score(backtests'[i]) sj == Score(backtests'[j])
                  IN  si > sj \/ (si = sj /\ i <= j)

(* trade-api refuses or answers too late: a backtest of candidate i or, as *)
(* 0, of the incumbent.                                                    *)
BacktestFails(i, s, w) ==
    /\ node = "backtest" /\ Setbacks < MaxSetbacks
    /\ candidates # <<>> /\ i \in 0 .. Len(candidates)
    /\ <<i, s, w>> \notin failing
    /\ i = 0 => incumbent_metrics = NoSpec
    /\ failing' = failing \cup {<<i, s, w>>}
    /\ failed' = failed + 1
    /\ unanswered' = unanswered \cup {<<s, w>>}
    /\ UNCHANGED <<node, keyed, today, tries, channels, spending, behind, cycles, evoZombies>>

Backtest ==
    /\ node = "backtest"
    /\ node' = "decide"
    /\ \/ candidates = <<>> /\ backtests' = <<>> /\ best' = 0 /\ UNCHANGED incumbent_metrics
       \/ candidates # <<>> /\ Measured
    /\ failing' = {}
    /\ UNCHANGED <<keyed, today, tries, candidates, refines, adopted, failed, unanswered, spending, behind, cycles,
                   evoZombies>>

(* Mutant: the sum of both windows is compared.                            *)
AdoptOnSum(i, c) ==
    /\ \A w \in Windows : c[w].trades >= MinTrades /\ c[w].max_drawdown <= MaxDD
    /\ Score(c) - Score(i) >= 2 * ReturnMargin

(* gate.py.                                                                *)
should_adopt(i, c) ==
    \A w \in Windows :
        /\ c[w].trades >= MinTrades
        /\ c[w].max_drawdown <= MaxDD
        /\ c[w].total_return - i[w].total_return >= ReturnMargin

(* route_after_decide, with MAX_REFINE = 1.                                *)
Refine == keyed /\ refines <= 1

DecideGate ==
    /\ node = "decide"
    /\ LET adopt == best # 0 /\ should_adopt(incumbent_metrics, backtests[best])
       IN  /\ adopted' = IF adopt THEN candidates[best] ELSE NoSpec
           /\ node' = IF adopt THEN "done" ELSE IF Refine THEN "propose" ELSE "done"
    /\ UNCHANGED <<keyed, today, tries, candidates, backtests, incumbent_metrics, best, refines, rounds, spending,
                   behind, cycles, evoZombies>>

(* The experiment is recorded and the thread deleted.                      *)
Conclude ==
    /\ node = "done"
    /\ node' = "idle"
    /\ UNCHANGED <<keyed, today, tries, channels, rounds, spending, behind, cycles, evoZombies>>

GraphStep == Reflect \/ Propose \/ Backtest \/ DecideGate \/ Conclude
GraphNext ==
    \/ StartGraph \/ RetryGraph \/ GiveUpGraph \/ LateCall \/ LateStart \/ GraphStep
    \/ \E i \in 0 .. Len(candidates), s \in Sampled, w \in Windows : BacktestFails(i, s, w)
GraphSpec == GraphInit /\ [][GraphNext]_graphVars

-----------------------------------------------------------------------------
Apart(spec) == \A x \in Days(spec, "w1", 0), y \in Days(spec, "w2", 0) : x > y

(* What a specification does on both windows, as far as it was measured.   *)
Outdoes(c, i) ==
    \A w \in Windows : /\ c[w].trades >= MinTrades
                       /\ c[w].max_drawdown <= MaxDD
                       /\ c[w].total_return >= i[w].total_return + ReturnMargin

(* gate.py: "the model proposes, deterministic code decides".  Whatever is *)
(* proposed, what the graph adopts beats the incumbent by the margin on    *)
(* two separate spans of the archive.  Of the evidence nothing is missing  *)
(* but backtests that failed in this cycle (tools.py leaves them out), and *)
(* only the incumbent's, after a retry, may date from the attempt before;  *)
(* so it is never the incumbent once more unless one of these happened.    *)
AdoptionIsSound ==
    node = "done" /\ adopted # NoSpec =>
        /\ \E lost \in SUBSET unanswered, gone \in SUBSET unanswered, then \in {today, today - (tries - 1)} :
             Outdoes(Metrics(adopted, today, lost), Metrics(Incumbent0, then, gone))
        /\ Apart(adopted)
        /\ \A x \in Days(adopted, "w2", 0) : x >= -Depth(adopted)

(* evolve/budget.py: the expensive reasoner "can never starve the trading  *)
(* loop".  The budget is looked at once per attempt, which then makes at   *)
(* most three calls: a day exceeds it by what one attempt may call, and    *)
(* once more for each attempt that runs on beside its successor and for    *)
(* each read or charge that Redis loses, which nothing in the code bounds. *)
ReasonerBounded == evoSpent <= EvoBudget - 1 + 3 * (1 + evoZombies + evoFaults)

(* The gate decides on evidence, and what a day's reasoning spends is      *)
(* bounded by the budget and the setbacks.                                 *)
GraphInv == AdoptionIsSound /\ ReasonerBounded
=============================================================================
