---------------------------- MODULE MCSimBroker ----------------------------
(***************************************************************************)
(* Instances of SimBroker.  Amounts are whole dollars and whole shares     *)
(* (MoneyUnit = QtyUnit = 1) at prices around 5000, where a 3 bps slippage *)
(* and a 10 bps crypto fee still round to something.                       *)
(***************************************************************************)
EXTENDS SimBroker, TLC

MCAssetOf == [sym \in Symbols |-> "crypto"]

Order(side, qty, reduce) ==
    [symbol |-> CHOOSE sym \in Symbols : TRUE, side |-> side, type |-> "market",
     qty |-> qty, notional |-> None, reduce_only |-> reduce,
     sl |-> None, tp |-> None, ts |-> None]
Guarded(o, sl, tp, ts) == [o EXCEPT !.sl = sl, !.tp = tp, !.ts = ts]
Limit(o) == [o EXCEPT !.type = "limit"]
Notional(o, n) == [o EXCEPT !.qty = None, !.notional = n]

Q(last) == [bid |-> last - 5, ask |-> last + 5, last |-> last, stale |-> FALSE]
Bare(last) == [bid |-> None, ask |-> None, last |-> last, stale |-> FALSE]
StaleQ(last) == [bid |-> None, ask |-> None, last |-> last, stale |-> TRUE]

Symmetry == Permutations(Clients) \cup Permutations(Monitors) \cup Permutations(ClientIds)

(* One account: longs, shorts, closes, a tiny notional, a resting order.   *)
TradeRequests == {Guarded(Order("buy", 2, FALSE), 1000, None, None),
                  Guarded(Order("sell", 1, FALSE), None, 1000, 500),
                  Order("sell", 3, TRUE), Order("buy", 3, TRUE),
                  Notional(Order("buy", 1, FALSE), 2000),
                  Limit(Order("buy", 1, FALSE))}
TradeQuotes == {Q(4000), Bare(5000), StaleQ(5000)}

(* A long that the sweep will exit and, on the other symbol, a short it    *)
(* watches but keeps, which the client may grow in between.                *)
GrowRequests == LET other == CHOOSE sym \in Symbols : sym # Order("buy", 1, FALSE).symbol
                IN  {Guarded(Order("buy", 1, FALSE), 1000, None, None), Order("buy", 2, FALSE),
                     [Guarded(Order("sell", 1, FALSE), None, 9000, None) EXCEPT !.symbol = other]}

(* Every quote stays beyond the stop of a long entered at 5000 and never   *)
(* goes stale: the only fresh price is 4000, reached by taking the ask of  *)
(* a wide book.                                                            *)
FairRequests == {Guarded(Order("buy", 1, FALSE), 1000, None, None), Order("sell", 1, TRUE)}
FairQuotes   == {[bid |-> 3995, ask |-> 5000, last |-> 4000, stale |-> FALSE]}
=============================================================================
