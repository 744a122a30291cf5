----------------------------- MODULE MCWorkers ------------------------------
(***************************************************************************)
(* One run over the independent scopes of the background workers: a state  *)
(* lies in one scope, whose variables alone change and whose fairness      *)
(* alone binds.                                                            *)
(***************************************************************************)
EXTENDS IngestSupervisor, LlmCalls, EvolutionGraph, MarketHours

CONSTANT Scopes
VARIABLE scope
all == <<scope, vars, llmVars, graphVars, hoursVars>>

(* The scopes that rest have one initial state each.                       *)
WorkersInit ==
    /\ scope \in Scopes /\ Init /\ LlmInit /\ GraphInit /\ HoursInit
    /\ scope # "ingest" => \A s \in Crypto : quoteAge[s] = None

In(s, A) ==
    /\ scope = s /\ A /\ UNCHANGED scope
    /\ s # "ingest" => UNCHANGED vars
    /\ s # "llm"    => UNCHANGED llmVars
    /\ s # "graph"  => UNCHANGED graphVars
    /\ s # "hours"  => UNCHANGED hoursVars

(* The scopes whose inputs are bounded come to an end.                     *)
Ends == scope \in {"llm", "graph", "hours"} /\ UNCHANGED all

WorkersNext ==
    \/ In("ingest", Next)
    \/ In("llm", LlmNext)
    \/ In("graph", GraphNext)
    \/ In("hours", HoursNext)
    \/ Ends

(* What each loop does next; a state enables those of its scope.           *)
LoopGoes ==
    \/ In("ingest", Supervise)
    \/ In("llm", \E x \in Calls : Proceed(x) \/ CallFails(x))

(* The fairness of each module, in its scope.                              *)
WorkersSpec ==
    /\ WorkersInit /\ [][WorkersNext]_all
    /\ WF_all(LoopGoes)
    /\ WF_all(In("ingest", Deadman)) /\ WF_all(In("ingest", Restart))
    /\ WF_all(In("ingest", Deliver)) /\ SF_all(In("ingest", Tick))

-----------------------------------------------------------------------------
(* An ollama worker with a key but no llm_api_key, the same switched off,  *)
(* and one whose provider has no key.                                      *)
LlOn == [llm_enabled |-> TRUE, llm_api_key |-> "", llm_provider |-> "ollama", ollama_api_key |-> "k"]
LlSettings == {LlOn, [LlOn EXCEPT !.llm_enabled = FALSE], [LlOn EXCEPT !.llm_provider = "openrouter"]}

(* What a specification returns on a symbol depends on its period: one is  *)
(* better everywhere, one only on the days a lookahead would show, one     *)
(* falls short on one symbol's newest days, one trades too little, one     *)
(* loses too much.                                                         *)
EgSpec(p, v) == [period |-> p, value |-> v, timeframe |-> "1m"]
EgIncumbent == EgSpec(14, 0)
PerDay(p, s) == CASE p = 14 -> 10 [] p = 12 -> 200 [] p = 24 -> 250
                  [] p = 20 -> IF s = "b" THEN 260 ELSE 180 [] OTHER -> 0
EgMeasure(spec, s, D) ==
    [total_return |-> PerDay(spec.period, s) * Cardinality(D)
                      + IF spec.period = 16 THEN 400 * Cardinality(D \cap {-2, -1, 0})
                        ELSE IF spec.period = 20 /\ s = "a" /\ -1 \in D THEN -500 ELSE 0,
     trades |-> IF spec.period = 12 THEN 1 ELSE 3, max_drawdown |-> IF spec.period = 18 THEN 5000 ELSE 500]
EgProposals == {<<>>, <<EgSpec(16, 0), EgSpec(0, 0)>>, <<EgSpec(14, 0)>>, <<EgSpec(20, 5)>>, <<EgSpec(24, 0), EgSpec(12, 0)>>}
=============================================================================
