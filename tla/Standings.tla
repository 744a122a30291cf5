----------------------------- MODULE Standings ------------------------------
(***************************************************************************)
(* The standings: agents/maintenance.py marks every account to market and  *)
(* rebuilds the board (leaderboard.py), on a schedule that skips while a   *)
(* run is under way; an attempt that timed out is not stopped and goes on  *)
(* beside its retry.  Marks are fetched (marks.py) for the symbols listed  *)
(* before; sim.mark_to_market reads the account, then its positions, and   *)
(* takes no lock: fills commit between any two of these.                   *)
(* One symbol; fees are zero; a trade is of one unit at the mark.          *)
(***************************************************************************)
EXTENDS Integers, Sequences

CONSTANTS Ranked,        \* agents, in the order of the query
          Sweepers,      \* attempts of the activity that may overlap
          Starting,      \* starting equity
          MarkPrices,
          Unmarked,      \* no mark
          MaxChanges,    \* bound: trades and price moves
          MaxMishaps     \* bound: failed calls, missing marks, timeouts

ASSUME StandingsAssumption ==
    /\ Len(Ranked) \in Nat \ {0}
    /\ Starting \in Int /\ MarkPrices \subseteq Nat /\ Unmarked \notin MarkPrices
    /\ MaxChanges \in Nat /\ MaxMishaps \in Nat

VARIABLES cash, qty,     \* trade.account, trade.position
          price,         \* the quote, or the last bar's close
          snapshot,      \* each agent's latest trade.equity_snapshot
          sweep,         \* where each attempt is, what it has read
          outlived,      \* attempts the server has given up
          board,         \* redis leaderboard:current
          changes, mishaps
boardVars == <<cash, qty, price, snapshot, sweep, outlived, board, changes, mishaps>>

N == Len(Ranked)
Entrants == 1 .. N
Resting == [at |-> "idle", agent |-> 1, mark |-> Unmarked, cash |-> 0, torn |-> FALSE, rows |-> <<>>]

StandingsInit ==
    /\ cash = [a \in Entrants |-> Starting] /\ qty = [a \in Entrants |-> 0] /\ price \in MarkPrices
    /\ snapshot = [a \in Entrants |-> [equity |-> Starting, stale |-> FALSE, torn |-> FALSE, mark |-> Unmarked]]
    /\ sweep = [s \in Sweepers |-> Resting] /\ outlived = {}
    /\ board = [a \in Entrants |-> Starting] /\ changes = 0 /\ mishaps = 0

At(s, place) == sweep[s].at = place
NextAgent(s) ==
    sweep' = [sweep EXCEPT ![s] = [Resting EXCEPT !.at = IF sweep[s].agent < N THEN "list" ELSE "rank",
                                                  !.agent = (sweep[s].agent % N) + 1]]
Mishap == mishaps < MaxMishaps /\ mishaps' = mishaps + 1

-----------------------------------------------------------------------------
(* A fill: cash and position in one commit.  A mark to market that has     *)
(* read the account and not yet its positions is torn by it.               *)
Trade(a) ==
    /\ changes < MaxChanges /\ changes' = changes + 1
    /\ \E d \in {-1, 1} : qty' = [qty EXCEPT ![a] = @ + d] /\ cash' = [cash EXCEPT ![a] = @ - d * price]
    /\ sweep' = [s \in Sweepers |-> IF At(s, "positions") /\ sweep[s].agent = a
                                    THEN [sweep[s] EXCEPT !.torn = TRUE] ELSE sweep[s]]
    /\ UNCHANGED <<price, snapshot, outlived, board, mishaps>>

PriceMoves ==
    /\ changes < MaxChanges /\ changes' = changes + 1
    /\ price' \in MarkPrices \ {price}
    /\ UNCHANGED <<cash, qty, snapshot, sweep, outlived, board, mishaps>>

(* The schedule skips a start while a run it knows of is under way.        *)
StartSweep(s) ==
    /\ At(s, "idle") /\ \A o \in Sweepers : At(o, "idle") \/ o \in outlived
    /\ sweep' = [sweep EXCEPT ![s].at = "list"]
    /\ UNCHANGED <<cash, qty, price, snapshot, outlived, board, changes, mishaps>>

AttemptTimesOut(s) ==
    /\ ~At(s, "idle") /\ s \notin outlived /\ Mishap
    /\ outlived' = outlived \cup {s}
    /\ UNCHANGED <<cash, qty, price, snapshot, sweep, board, changes>>

(* list_positions and get_marks: a symbol that is not held when listed, or *)
(* has neither quote nor bar, gets no mark.                                *)
get_marks(s) ==
    /\ At(s, "list")
    /\ \E mark \in {price, Unmarked} :
         /\ sweep' = [sweep EXCEPT ![s].at = "account", ![s].mark = mark]
         /\ IF qty[sweep[s].agent] = 0 THEN mark = Unmarked /\ UNCHANGED mishaps
            ELSE \/ mark = price /\ UNCHANGED mishaps
                 \/ mark = Unmarked /\ Mishap
    /\ UNCHANGED <<cash, qty, price, snapshot, outlived, board, changes>>

(* The endpoint loads the account; the session keeps the object.           *)
ReadAccount(s) ==
    /\ At(s, "account")
    /\ sweep' = [sweep EXCEPT ![s].at = "positions", ![s].cash = cash[sweep[s].agent]]
    /\ UNCHANGED <<cash, qty, price, snapshot, outlived, board, changes, mishaps>>

(* A failed mark is logged and the next agent is marked.                   *)
MarkFails(s) ==
    /\ sweep[s].at \in {"account", "positions"} /\ Mishap /\ NextAgent(s)
    /\ UNCHANGED <<cash, qty, price, snapshot, outlived, board, changes>>

(* Only the call that marks is inside the try: an account or positions     *)
(* that cannot be listed, marks or snapshots that cannot be read end the   *)
(* whole attempt, and the next starts with the first agent.                *)
AttemptRaises(s) ==
    /\ sweep[s].at \in {"list", "rank"} /\ Mishap
    /\ sweep' = [sweep EXCEPT ![s] = Resting] /\ outlived' = outlived \ {s}
    /\ UNCHANGED <<cash, qty, price, snapshot, board, changes>>

positions_value(mark, q) == IF mark = Unmarked THEN 0 ELSE q * mark

(* Mutant: no snapshot is ever stale.                                      *)
NeverStale(mark, q) == FALSE

IsStale(mark, q) == q # 0 /\ mark = Unmarked

mark_to_market(s) ==
    LET a == sweep[s].agent  mark == sweep[s].mark IN
    /\ At(s, "positions")
    /\ snapshot' = [snapshot EXCEPT ![a] =
           [equity |-> sweep[s].cash + positions_value(mark, qty[a]), stale |-> IsStale(mark, qty[a]),
            torn |-> sweep[s].torn, mark |-> mark]]
    /\ NextAgent(s)
    /\ UNCHANGED <<cash, qty, price, outlived, board, changes, mishaps>>

(* Mutant: the first snapshot is read, not the latest.                     *)
FirstEquity(a) == Starting

LatestEquity(a) == snapshot[a].equity

(* compute_ranking reads one agent's latest snapshot after another's.      *)
compute_ranking(s) ==
    LET rows == Append(sweep[s].rows, LatestEquity(sweep[s].agent)) IN
    /\ At(s, "rank")
    /\ sweep' = [sweep EXCEPT ![s].rows = rows, ![s].agent = (@ % N) + 1,
                              ![s].at = IF Len(rows) = N THEN "rebuild" ELSE "rank"]
    /\ UNCHANGED <<cash, qty, price, snapshot, outlived, board, changes, mishaps>>

(* A failed redis write is logged; the snapshot row is written before.     *)
rebuild(s) ==
    /\ At(s, "rebuild")
    /\ \/ board' = sweep[s].rows /\ UNCHANGED mishaps
       \/ Mishap /\ UNCHANGED board
    /\ sweep' = [sweep EXCEPT ![s] = Resting] /\ outlived' = outlived \ {s}
    /\ UNCHANGED <<cash, qty, price, snapshot, changes>>

SweepStep(s) == get_marks(s) \/ ReadAccount(s) \/ mark_to_market(s) \/ compute_ranking(s) \/ rebuild(s)
StandingsNext ==
    \/ PriceMoves \/ \E a \in Entrants : Trade(a)
    \/ \E s \in Sweepers : StartSweep(s) \/ AttemptTimesOut(s) \/ MarkFails(s) \/ AttemptRaises(s) \/ SweepStep(s)
StandingsFairness ==
    WF_boardVars(\E s \in Sweepers : StartSweep(s)) /\ \A s \in Sweepers : WF_boardVars(SweepStep(s))
StandingsSpec == StandingsInit /\ [][StandingsNext]_boardVars /\ StandingsFairness

-----------------------------------------------------------------------------
(* A mark to market may be torn by a fill, or lack the mark of a position  *)
(* opened since the listing; a snapshot that is neither torn nor flagged   *)
(* stale is what the account was worth at its marks when it was written.   *)
StaleOrExact ==
    [][\A a \in Entrants : LET new == snapshot'[a] IN
          new # snapshot[a] /\ ~new.stale /\ ~new.torn
              => \/ qty[a] = 0 /\ new.equity = cash[a]
                 \/ new.mark # Unmarked /\ new.equity = cash[a] + qty[a] * new.mark]_boardVars

(* Whatever was torn, stale, lost or written late by an attempt given up,  *)
(* once trades and prices rest the board ends at what every account is     *)
(* worth.                                                                  *)
BoardConverges == <>[](\A a \in Entrants : board[a] = cash[a] + qty[a] * price)
=============================================================================
