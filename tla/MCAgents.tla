----------------------------- MODULE MCAgents -------------------------------
(***************************************************************************)
(* One run over the independent scopes of the agents' strategies, their    *)
(* decisions, the bars they read and the board that ranks them: a state    *)
(* lies in one scope, whose variables alone change and whose fairness      *)
(* alone binds.                                                            *)
(***************************************************************************)
EXTENDS Evolution, TickDecision, EvolutionTrigger, PriceStore, Standings

CONSTANT Scopes
VARIABLE scope
evolutionVars == <<tables, locals, bounds, day, current, seed>>
all == <<scope, evolutionVars, tickVars, clockVars, storeVars, boardVars>>

(* The scopes that rest have one initial state each; the price can rise.   *)
AgentsInit ==
    /\ scope \in Scopes /\ Init /\ TickInit /\ TriggerInit /\ StoreInit /\ StandingsInit
    /\ scope # "trigger"   => episodes = 0 /\ cryptoOnly
    /\ scope # "store"     => live = "poll"
    /\ \A p \in MarkPrices : price <= p

In(s, A) ==
    /\ scope = s /\ A /\ UNCHANGED scope
    /\ s # "evolution" => UNCHANGED evolutionVars
    /\ s # "decision"  => UNCHANGED tickVars
    /\ s # "trigger"   => UNCHANGED clockVars
    /\ s # "store"     => UNCHANGED storeVars
    /\ s # "standings" => UNCHANGED boardVars

(* The scopes whose inputs are bounded come to an end.                     *)
Ends == scope \in {"evolution", "decision", "trigger"} /\ UNCHANGED all

AgentsNext ==
    \/ In("evolution", Next)
    \/ In("decision", TickNext)
    \/ In("trigger", TriggerNext)
    \/ In("store", StoreNext)
    \/ In("standings", StandingsNext)
    \/ Ends

(* The fairness of PriceStore's StoreFairSpec, and a weaker one than that  *)
(* of StandingsSpec, each in its scope.                                    *)
AgentsSpec ==
    /\ AgentsInit /\ [][AgentsNext]_all
    /\ WF_all(In("store", \E x \in Fillers : Fill(x)))
    /\ WF_all(\/ In("store", FlushRead \/ FlushWrite)
              \/ In("standings", \E s \in Sweepers : StartSweep(s) \/ SweepStep(s)))

-----------------------------------------------------------------------------
(* Accounts without a position, at the cap, short, without a mark and      *)
(* short of cash; a position outside the universe.                         *)
Holdings(S) == [x \in {y[1] : y \in S} |-> (CHOOSE y \in S : y[1] = x)[2]]
TdBook(c, pos, marked) == [universe |-> {"btc", "aapl"}, cash |-> c, positions |-> Holdings(pos), marked |-> marked]
TdBooks ==
    {TdBook(100000, {}, {"btc", "aapl"}),
     TdBook(60000, {<<"btc", 15000>>, <<"aapl", 30000>>}, {"btc", "aapl"}),
     TdBook(100000, {<<"btc", -14000>>}, {"btc", "aapl"}),
     TdBook(90000, {<<"aapl", 10000>>}, {"btc"}),
     TdBook(20000, {<<"aapl", -30000>>}, {"btc", "aapl"}),
     [TdBook(100000, {<<"btc", -14000>>}, {"btc"}) EXCEPT !.universe = {"aapl"}]}

(* Up to two signals, and up to two tool calls.                            *)
UpTo2(S) == {<<x>> : x \in S} \cup {<<x, y>> : x \in S, y \in S}
Emit(s, a, n) == [symbol |-> s, action |-> a, strength |-> n]
TdEvaluations == UpTo2({Emit("btc", "buy", 40), Emit("btc", "short", 90), Emit("btc", "exit", 90),
                        Emit("btc", "cover", 40), Emit("aapl", "buy", 40), Emit("aapl", "exit", 90)})
TdAsks == [type : {"order"}, symbol : {"btc", "aapl"}, side : {"buy", "short"}, notional : {9000, 90000}, stop : {5}]
          \cup {Ask("order", "btc", "short", 9000, Absent), Ask("close", "btc", Absent, Absent, Absent),
                Ask("close", "aapl", Absent, Absent, Absent)}
TdAnswers == {<<>>} \cup UpTo2(TdAsks)

(* Sessions before and after a weekend, the last with an early close.      *)
EtCloses == [d \in {0, 1, 2, 5, 6} |-> IF d = 6 THEN 18 ELSE 21]

StRanked == <<"a1", "a2">>
=============================================================================
