------------------------------- MODULE Quotes -------------------------------
(***************************************************************************)
(* The quote of one equity, quote:{symbol} in Redis.  The poller of each   *)
(* timeframe (ingest/equity_poll.py) and the gap-fill (backfill.py) write  *)
(* the close of the newest bar they were answered with, under the time     *)
(* that bar opened.  Nobody compares times, and an answer may be           *)
(* overtaken.  The pollers pause outside the hours of the exchange, while  *)
(* the quote's time to live runs on.                                       *)
(*                                                                         *)
(* A price stands for the time it was traded at.  Time is explicit: it     *)
(* does not pass the end of a poller's sleep, nor the longest time an      *)
(* answer is held before it is written.                                    *)
(***************************************************************************)
EXTENDS Integers, FiniteSets

CONSTANTS Widths,        \* timeframes that are polled; each sleeps its own width
          EquitySessions,   \* [open, close] of each session of the exchange
          PollBuffer,    \* _BUFFER_MIN
          GapReach,      \* run_recent(days=1)
          MaxHold,       \* ingest_rest_timeout_s, and the writes of a batch
          QuoteTtl,      \* QUOTE_TTL_S
          NoQuote,       \* nothing written, nothing on its way
          MaxTime,       \* bound: time units
          MaxTrades,     \* bound: trades
          MaxLapses      \* bound: moments at which a request fails or Redis starts empty

ASSUME QuotesAssumption ==
    /\ Widths \subseteq Nat \ {0} /\ Widths # {} /\ IsFiniteSet(Widths)
    /\ EquitySessions \subseteq [open : Nat, close : Nat]
    /\ {PollBuffer, GapReach, MaxHold, QuoteTtl, MaxTime, MaxTrades, MaxLapses} \subseteq Nat
    /\ \A w \in Widths : MaxHold <= w

VARIABLES moment,        \* now
          trades,        \* when the symbol was traded
          answer,        \* what each writer was told, and when, and has not written yet
          polled,        \* when each poller fell asleep
          quoted,        \* quote:{symbol}: [ts, last], and the moment it expires
          lapses         \* history: moments of a failed request or an emptied Redis
quoteVars == <<moment, trades, answer, polled, quoted, lapses>>

GapFill == 0
Writers == Widths \cup {GapFill}
Fastest == CHOOSE w \in Widths : \A v \in Widths : w <= v

QuotesInit ==
    /\ moment = 0 /\ trades = {} /\ answer = [w \in Writers |-> NoQuote]
    /\ polled = [w \in Widths |-> 0] /\ quoted = NoQuote /\ lapses = {}

(* Within the buffer around a session.                                     *)
equity_active(m) == \E s \in EquitySessions : s.open - PollBuffer <= m /\ m <= s.close + PollBuffer

(* Redis drops a quote nobody has rewritten.  The symbol is traded outside *)
(* the session too.                                                        *)
MarketMoves ==
    /\ moment < MaxTime
    /\ \A w \in Writers : answer[w] # NoQuote => moment - answer[w].asked < MaxHold
    /\ \A w \in Widths : answer[w] = NoQuote => moment - polled[w] < w
    /\ moment' = moment + 1
    /\ trades' \in {trades} \cup {t \in {trades \cup {moment'}} : Cardinality(t) <= MaxTrades}
    /\ quoted' = IF quoted # NoQuote /\ moment' > quoted.until THEN NoQuote ELSE quoted
    /\ UNCHANGED <<answer, polled, lapses>>

(* The bar the last trade belongs to opened at its span's beginning.       *)
LastTrade == CHOOSE t \in trades : \A u \in trades : u <= t
Opened(w) == (LastTrade \div w) * w

(* A request for the bars of a timeframe since a time: none, or the newest.*)
InReach(w, since) == trades # {} /\ Opened(w) >= since
Told(x, w) ==
    /\ answer' = [answer EXCEPT ![x] = [ts |-> Opened(w), last |-> LastTrade, asked |-> moment]]
    /\ UNCHANGED <<moment, trades, polled, quoted, lapses>>

(* The poller wakes: in the hours of the exchange, or when its calendar    *)
(* cannot be read, it asks for the bars of four widths; else, or when      *)
(* there are none, it goes back to sleep.                                  *)
Poll(w) ==
    /\ answer[w] = NoQuote /\ polled[w] < moment
    /\ \E readable \in BOOLEAN :
         IF (readable => equity_active(moment)) /\ InReach(w, moment - 4 * w) THEN Told(w, w)
         ELSE polled' = [polled EXCEPT ![w] = moment] /\ UNCHANGED <<moment, trades, answer, quoted, lapses>>

(* run_recent asks for each timeframe in turn, at any hour.                *)
RunRecent ==
    /\ answer[GapFill] = NoQuote
    /\ \E w \in Widths : InReach(w, moment - GapReach) /\ Told(GapFill, w)

Answers(x) ==
    /\ answer' = [answer EXCEPT ![x] = NoQuote]
    /\ polled' = [w \in Widths |-> IF w = x THEN moment ELSE polled[w]]
    /\ UNCHANGED <<moment, trades>>


write_quote(x) ==
    /\ answer[x] # NoQuote
    /\ quoted' = [ts |-> answer[x].ts, last |-> answer[x].last, until |-> moment + QuoteTtl]
    /\ Answers(x)
    /\ UNCHANGED lapses

Lapse == lapses' = lapses \cup {moment} /\ Cardinality(lapses') <= MaxLapses

(* The request fails or its timeout passes, and is logged.                 *)
FetchLost(x) ==
    /\ answer[x] # NoQuote
    /\ Lapse
    /\ Answers(x)
    /\ UNCHANGED quoted

(* A Redis that starts empty.                                              *)
QuoteLost ==
    /\ quoted # NoQuote
    /\ Lapse
    /\ quoted' = NoQuote
    /\ UNCHANGED <<moment, trades, answer, polled>>

QuotesNext ==
    \/ MarketMoves \/ QuoteLost \/ RunRecent
    \/ \E w \in Widths : Poll(w)
    \/ \E x \in Writers : write_quote(x) \/ FetchLost(x)
QuotesSpec == QuotesInit /\ [][QuotesNext]_quoteVars

-----------------------------------------------------------------------------
(* The last moment the pollers were awake; whether nothing failed in the   *)
(* Lag before it.  Between two writes of the fastest poller lie its sleep  *)
(* and the time its answer is held; what another writes meanwhile is as    *)
(* old as its answer.                                                      *)
Lag     == Fastest + 2 * MaxHold
Watched == CHOOSE m \in {n \in 0 .. moment : equity_active(n) \/ n = 0} :
               \A n \in m + 1 .. moment : ~equity_active(n)
Tended  == \A m \in Watched - Lag .. Watched : m >= 0 /\ equity_active(m) /\ m \notin lapses

=============================================================================
