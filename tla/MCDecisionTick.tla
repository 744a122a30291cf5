-------------------------- MODULE MCDecisionTick ---------------------------
(***************************************************************************)
(* Two scopes of DecisionTick in one run: ticks of up to two actions under *)
(* crashes, and two ticks in a row under failing reads.  Every state lies  *)
(* in one of the scopes.                                                   *)
(***************************************************************************)
EXTENDS DecisionTick, Functions

Second == \E t \in Ticks : t > 1 /\ plan[t] # None
Asked  == UNION {Range(plan[t].actions) : t \in {u \in Ticks : plan[u] # None}}
Long   == \E t \in Ticks : plan[t] # None /\ Len(plan[t].actions) > 1

Retried == /\ ~Second
           /\ readFails = 0
           /\ \A s \in Symbols : Abs(pos[s]) <= 1
           /\ \A a \in Asked : a.kind # "close" => a.stop = "positive"
Traded  == ~Long /\ crashes = 0

Bounded == Retried \/ Traded
BoundedSpec == Init /\ [][Next /\ Bounded']_vars
=============================================================================
