----------------------------- MODULE SimBroker -----------------------------
(***************************************************************************)
(* trade-api/app/brokers/sim.py with the routers that call it: concurrent  *)
(* HTTP requests, each one database transaction (READ COMMITTED) on the    *)
(* trade schema, serialised per account by SELECT ... FOR UPDATE on the    *)
(* account row.                                                            *)
(*                                                                         *)
(* A session is one request handler.  Its work on a locked account (the    *)
(* rows SQLAlchemy has loaded under the lock, with its own flushed but     *)
(* uncommitted changes) lives in `work`; commit publishes it, an exception *)
(* or a crash drops it.  What Redis holds for a symbol is outside this     *)
(* component: every read of a quote may return any member of Quotes.       *)
(***************************************************************************)
EXTENDS FillMarket

CONSTANTS Accounts,      \* ids of account rows (numbers: the sweep sorts them)
          Clients,       \* handlers of account and order requests
          Monitors,      \* handlers of POST /positions/settle-exits
          ClientIds,     \* client_order_id values chosen by callers
          Ticks,         \* tick_id values of the position monitor
          Requests,      \* order bodies that pass the OrderCreate validator
          Quotes,        \* what reading a quote may return, None included
          StartingCash,  \* starting_cash of a new account
          MaxPid,        \* bound: position row ids
          MaxCrashes     \* bound: sessions lost before their commit

Sessions  == Clients \cup Monitors
PosIds    == 1 .. MaxPid
ExitKeys  == [pid : PosIds, tick : Ticks]    \* "exit:{pid}:{tick_id}"
OrderKeys == ClientIds \cup ExitKeys
Statuses  == {"accepted", "filled", "rejected", "canceled"}

ASSUME BrokerAssumption ==
    /\ Accounts \subseteq Nat
    /\ Clients \cap Monitors = {}
    /\ None \notin Sessions
    /\ ClientIds \cap ExitKeys = {}
    /\ None \notin Statuses
    /\ \A r \in Requests : r \in OrderBodies
    /\ \A quote \in Quotes : quote = None \/ quote \in QuoteRows
    /\ StartingCash \in Nat
    /\ MaxPid \in Nat /\ MaxCrashes \in Nat

VARIABLES
    account,    \* account table: [cash, bp] of each account that exists
    position,   \* position table: row per account and symbol, or None
    order,      \* order table: committed status per account and key, or None
    fillRows,   \* fill table: number of Fill rows of each order
    booked,     \* history: starting equity plus the cash effect of all Fill rows
    nextPid,    \* the position id sequence
    lock,       \* which session holds the FOR UPDATE lock of an account row
    pc,         \* where each session is
    job,        \* what each session was asked to do
    work,       \* what each session has loaded and changed under its locks
    crashes     \* sessions lost so far

dbVars   == <<account, position, order, fillRows, booked, nextPid>>
sessVars == <<lock, pc, job, work>>
vars     == <<dbVars, sessVars, crashes>>

(***************************************************************************)
(* Transactions.                                                           *)
(***************************************************************************)
Exists(a) == a \in DOMAIN account

NoWork == [a \in Accounts |-> None]
Holds(s, a) == lock[a] = s

(* Mutant: the account is read without FOR UPDATE.                         *)
NeverLocked(a) == TRUE

LockFree(a) == lock[a] = None

(* The rows a session sees once it holds the account's lock.               *)
Loaded(a) == [cash |-> account[a].cash, bp |-> account[a].bp, pos |-> position[a],
              ord |-> [k \in {} |-> None], delta |-> 0]

(* _lock_account: SELECT ... FOR UPDATE, and the reads that follow it.     *)
LockAndLoad(s, a) ==
    /\ LockFree(a)
    /\ lock' = [lock EXCEPT ![a] = s]
    /\ work' = [work EXCEPT ![s][a] = Loaded(a)]

(* The transaction is over: its locks go, and the handler is at `where`.   *)
EndTransaction(s, where) ==
    /\ lock' = [a \in Accounts |-> IF lock[a] = s THEN None ELSE lock[a]]
    /\ work' = [work EXCEPT ![s] = NoWork]
    /\ job'  = [job EXCEPT ![s] = None]
    /\ pc'   = [pc EXCEPT ![s] = where]

Rollback(s, where) == EndTransaction(s, where) /\ UNCHANGED dbVars

(* Publish w, the session's final workspace for every account.             *)
Commit(s, w) ==
    /\ account'  = [a \in DOMAIN account |-> IF w[a] = None THEN account[a]
                                             ELSE [cash |-> w[a].cash, bp |-> w[a].bp]]
    /\ position' = [a \in Accounts |-> IF w[a] = None THEN position[a] ELSE w[a].pos]
    /\ order'    = [a \in Accounts |-> [k \in OrderKeys |->
                      IF w[a] # None /\ k \in DOMAIN w[a].ord THEN w[a].ord[k] ELSE order[a][k]]]
    /\ fillRows' = [a \in Accounts |-> [k \in OrderKeys |->
                      IF w[a] # None /\ k \in DOMAIN w[a].ord /\ w[a].ord[k] = "filled"
                      THEN fillRows[a][k] + 1 ELSE fillRows[a][k]]]
    /\ booked'   = [a \in Accounts |-> IF w[a] = None THEN booked[a] ELSE booked[a] + w[a].delta]
    /\ EndTransaction(s, "idle")

(***************************************************************************)
(* POST /accounts: look the external_ref up, insert when absent.  The      *)
(* unique constraint refuses the second of two concurrent inserts.         *)
(***************************************************************************)
CreateCheck(s, a) ==
    /\ pc[s] = "idle"
    /\ ~Exists(a)
    /\ pc'  = [pc EXCEPT ![s] = "create"]
    /\ job' = [job EXCEPT ![s] = [acct |-> a]]
    /\ UNCHANGED <<dbVars, lock, work, crashes>>

CreateInsert(s) ==
    /\ pc[s] = "create"
    /\ ~Exists(job[s].acct)
    /\ account' = [a \in DOMAIN account \cup {job[s].acct} |->
                     IF a = job[s].acct THEN [cash |-> StartingCash, bp |-> StartingCash]
                                        ELSE account[a]]
    /\ booked'  = [booked EXCEPT ![job[s].acct] = StartingCash]
    /\ EndTransaction(s, "idle")
    /\ UNCHANGED <<position, order, fillRows, nextPid, crashes>>

CreateDuplicate(s) ==
    /\ pc[s] = "create"
    /\ Exists(job[s].acct)
    /\ Rollback(s, "err_account")
    /\ UNCHANGED crashes

(***************************************************************************)
(* POST /accounts/{id}/orders.                                             *)
(***************************************************************************)
(* The idempotency look-up, before the lock.  A known key returns the      *)
(* original order and changes nothing.                                     *)
PlaceCheck(s, a, k, r) ==
    /\ pc[s] = "idle"
    /\ order[a][k] = None
    /\ pc'  = [pc EXCEPT ![s] = "lock"]
    /\ job' = [job EXCEPT ![s] = [acct |-> a, key |-> k, req |-> r]]
    /\ UNCHANGED <<dbVars, lock, work, crashes>>

(* ValueError("account not found"): 400.                                   *)
PlaceNoAccount(s) ==
    /\ pc[s] = "lock"
    /\ ~Exists(job[s].acct)
    /\ Rollback(s, "idle")
    /\ UNCHANGED crashes

(* Mutant: no unique constraint on (account_id, client_order_id).          *)
PlaceAgain(s) ==
    /\ pc[s] = "lock"
    /\ Exists(job[s].acct)
    /\ LockAndLoad(s, job[s].acct)
    /\ pc' = [pc EXCEPT ![s] = "fill"]
    /\ UNCHANGED <<dbVars, job, crashes>>

PlaceLock(s) ==
    /\ pc[s] = "lock"
    /\ Exists(job[s].acct)
    /\ order[job[s].acct][job[s].key] = None
    /\ LockAndLoad(s, job[s].acct)
    /\ pc' = [pc EXCEPT ![s] = "fill"]
    /\ UNCHANGED <<dbVars, job, crashes>>

(* The same key was committed between the look-up and the lock: inserting  *)
(* the order violates unique(account_id, client_order_id), which nothing   *)
(* catches.                                                                *)
PlaceDuplicate(s) ==
    /\ pc[s] = "lock"
    /\ Exists(job[s].acct)
    /\ LockFree(job[s].acct)
    /\ order[job[s].acct][job[s].key] # None
    /\ Rollback(s, "err_order")
    /\ UNCHANGED crashes

PlaceReject(s) ==
    /\ pc[s] = "fill"
    /\ \E quote \in Quotes : ~Usable(quote)
    /\ LET a == job[s].acct
       IN  Commit(s, [work[s] EXCEPT ![a] = WithStatus(@, job[s].key, "rejected")])
    /\ UNCHANGED <<nextPid, crashes>>

PlaceAccept(s) ==
    /\ pc[s] = "fill"
    /\ job[s].req.type # "market"
    /\ \E quote \in Quotes : Usable(quote)
    /\ LET a == job[s].acct
       IN  Commit(s, [work[s] EXCEPT ![a] = WithStatus(@, job[s].key, "accepted")])
    /\ UNCHANGED <<nextPid, crashes>>

Opens(before, after) == \E sym \in Symbols : before.pos[sym] = None /\ after.pos[sym] # None

PlaceFill(s) ==
    /\ pc[s] = "fill"
    /\ job[s].req.type = "market"
    /\ \E quote \in Quotes :
         LET a == job[s].acct
             w == work[s][a]
             r == job[s].req
             done == fill_market(w, job[s].key, r, quote, nextPid, w.pos)
         IN  /\ Usable(quote)
             /\ ~DeletesUnsavedRow(w, r, w.pos[r.symbol], Price(r, quote))
             /\ Opens(w, done) => nextPid \in PosIds
             /\ nextPid' = IF Opens(w, done) THEN nextPid + 1 ELSE nextPid
             /\ Commit(s, [work[s] EXCEPT ![a] = done])
    /\ UNCHANGED crashes

PlaceFillFails(s) ==
    /\ pc[s] = "fill"
    /\ job[s].req.type = "market"
    /\ \E quote \in Quotes :
         LET w == work[s][job[s].acct]
             r == job[s].req
         IN  Usable(quote) /\ DeletesUnsavedRow(w, r, w.pos[r.symbol], Price(r, quote))
    /\ Rollback(s, "err_delete")
    /\ UNCHANGED crashes

(***************************************************************************)
(* DELETE /accounts/{id}/orders/{order}: no lock; the status is read and,  *)
(* when it was open, overwritten.                                          *)
(***************************************************************************)
(* Mutant: any order is canceled.                                          *)
CancelAny(s, a, k) ==
    /\ pc[s] = "idle"
    /\ order[a][k] # None
    /\ pc'  = [pc EXCEPT ![s] = "cancel"]
    /\ job' = [job EXCEPT ![s] = [acct |-> a, key |-> k]]
    /\ UNCHANGED <<dbVars, lock, work, crashes>>

CancelRead(s, a, k) ==
    /\ pc[s] = "idle"
    /\ order[a][k] = "accepted"
    /\ pc'  = [pc EXCEPT ![s] = "cancel"]
    /\ job' = [job EXCEPT ![s] = [acct |-> a, key |-> k]]
    /\ UNCHANGED <<dbVars, lock, work, crashes>>

CancelWrite(s) ==
    /\ pc[s] = "cancel"
    /\ order' = [order EXCEPT ![job[s].acct][job[s].key] = "canceled"]
    /\ EndTransaction(s, "idle")
    /\ UNCHANGED <<account, position, fillRows, booked, nextPid, crashes>>

(***************************************************************************)
(* POST /positions/settle-exits: one transaction over all accounts that    *)
(* hold a protected position.                                              *)
(***************************************************************************)
(* What the scan loads of a watched row and the handler keeps until it     *)
(* refreshes it.                                                           *)
Entry(a, sym) == [acct |-> a, sym |-> sym, pid |-> position[a][sym].id,
                  qty |-> position[a][sym].qty, avg |-> position[a][sym].avg]
Guards(a, sym) == IF position[a][sym] = None THEN FALSE ELSE Protected(position[a][sym])
Watched == {Entry(x[1], x[2]) : x \in {y \in Accounts \X Symbols : Guards(y[1], y[2])}}

(* The unlocked scan.  With nothing to watch the handler returns at once.  *)
SettleScan(s, t) ==
    /\ pc[s] = "idle"
    /\ Watched # {}
    /\ pc'  = [pc EXCEPT ![s] = "sweep"]
    /\ job' = [job EXCEPT ![s] = [tick |-> t, todo |-> Watched]]
    /\ UNCHANGED <<dbVars, lock, work, crashes>>

(* Mutant: accounts are locked in any order.                               *)
AnyAccount(todo) == {e.acct : e \in todo}

(* sorted(by_account), then sorted by row id.                              *)
NextAccounts(todo) == {e.acct : e \in {x \in todo : \A y \in todo : x.acct <= y.acct}}
NextEntries(todo)  == {e \in todo : \A y \in todo : y.acct = e.acct => e.pid <= y.pid}

SettleLock(s) ==
    /\ pc[s] = "sweep"
    /\ \E a \in NextAccounts(job[s].todo) : ~Holds(s, a) /\ LockAndLoad(s, a)
    /\ UNCHANGED <<dbVars, pc, job, crashes>>

(* The entry the sweep is at: its account is locked by the session.        *)
Current(s) == {e \in NextEntries(job[s].todo) :
                 e.acct \in NextAccounts(job[s].todo) /\ Holds(s, e.acct)}
Gone(s, e) == LET row == work[s][e.acct].pos[e.sym]
              IN  IF row = None THEN TRUE ELSE row.id # e.pid

(* Mutant: the exit is on the side of the position.                        *)
ExitGrows(sym, qty) ==
    [symbol |-> sym, side |-> IF qty < 0 THEN "sell" ELSE "buy", type |-> "market",
     qty |-> Abs(qty), notional |-> None, reduce_only |-> TRUE,
     sl |-> None, tp |-> None, ts |-> None]

ExitRequest(sym, qty) ==
    [symbol |-> sym, side |-> IF qty < 0 THEN "buy" ELSE "sell", type |-> "market",
     qty |-> Abs(qty), notional |-> None, reduce_only |-> TRUE,
     sl |-> None, tp |-> None, ts |-> None]

Judge(row, quote) == evaluate_exit(row.avg, quote.last, row.qty, row.hw, row.sl, row.tp, row.ts)

(* The account's rows as the session sees them while it looks at e: a row  *)
(* it scanned before the lock and has not refreshed yet is still as old as *)
(* the scan.                                                               *)
Unrefreshed(s, e, sym) ==
    {x \in job[s].todo \ {e} : /\ x.acct = e.acct /\ x.sym = sym
                              /\ ~Gone(s, x)}
Seen(s, e) ==
    [sym \in Symbols |->
        IF Unrefreshed(s, e, sym) = {} THEN work[s][e.acct].pos[sym]
        ELSE LET x == CHOOSE x \in Unrefreshed(s, e, sym) : TRUE
             IN  [work[s][e.acct].pos[sym] EXCEPT !.qty = x.qty, !.avg = x.avg]]

(* The workspace after the sweep looked at entry e with a fresh quote: the *)
(* high-water mark is persisted either way; a crossed level is executed    *)
(* unless this tick already did.                                           *)
AfterExit(s, e, quote) ==
    LET w    == work[s][e.acct]
        row  == w.pos[e.sym]
        d    == Judge(row, quote)
        key  == [pid |-> e.pid, tick |-> job[s].tick]
        kept == [w EXCEPT !.pos[e.sym].hw = d.high_water]
    IN  IF d.should_exit /\ order[e.acct][key] = None
        THEN fill_market(kept, key, ExitRequest(e.sym, row.qty), quote, e.pid, Seen(s, e))
        ELSE kept

SettlePosition(s) ==
    /\ pc[s] = "sweep"
    /\ \E e \in Current(s), quote \in Quotes :
         /\ ~Gone(s, e)
         /\ work' = IF Usable(quote) THEN [work EXCEPT ![s][e.acct] = AfterExit(s, e, quote)] ELSE work
         /\ job'  = [job EXCEPT ![s].todo = @ \ {e}]
    /\ UNCHANGED <<dbVars, lock, pc, crashes>>

(* session.refresh of a row that another transaction deleted since the     *)
(* scan raises, and the whole sweep is rolled back.                        *)
SettleRowGone(s) ==
    /\ pc[s] = "sweep"
    /\ \E e \in Current(s) : Gone(s, e)
    /\ Rollback(s, "err_refresh")
    /\ UNCHANGED crashes

SettleCommit(s) ==
    /\ pc[s] = "sweep"
    /\ job[s].todo = {}
    /\ Commit(s, work[s])
    /\ UNCHANGED <<nextPid, crashes>>

(***************************************************************************)
(* A handler that raised answers 500; one that is lost never commits.      *)
(***************************************************************************)
Errors == {"err_account", "err_order", "err_delete", "err_refresh"}

Return500(s) ==
    /\ pc[s] \in Errors
    /\ pc' = [pc EXCEPT ![s] = "idle"]
    /\ UNCHANGED <<dbVars, lock, job, work, crashes>>

Crash(s) ==
    /\ pc[s] \notin Errors \cup {"idle"}
    /\ crashes < MaxCrashes
    /\ crashes' = crashes + 1
    /\ Rollback(s, "idle")

(* The requests that are answered without writing anything: the account    *)
(* exists, the key is known (the original order is returned untouched),    *)
(* the order is no longer open, no position is watched.                    *)
EarlyReturn(s) ==
    /\ pc[s] = "idle"
    /\ \/ s \in Clients /\ \E a \in Accounts : Exists(a)
       \/ s \in Clients /\ \E a \in Accounts, k \in ClientIds : order[a][k] # None
       \/ s \in Monitors /\ Watched = {}
    /\ UNCHANGED vars

-----------------------------------------------------------------------------
Init ==
    /\ account  = [a \in {} |-> None]
    /\ position = [a \in Accounts |-> [sym \in Symbols |-> None]]
    /\ order    = [a \in Accounts |-> [k \in OrderKeys |-> None]]
    /\ fillRows = [a \in Accounts |-> [k \in OrderKeys |-> 0]]
    /\ booked   = [a \in Accounts |-> 0]
    /\ nextPid  = 1
    /\ lock     = [a \in Accounts |-> None]
    /\ pc       = [s \in Sessions |-> "idle"]
    /\ job      = [s \in Sessions |-> None]
    /\ work     = [s \in Sessions |-> NoWork]
    /\ crashes  = 0

ClientStart(s) ==
    \/ \E a \in Accounts : CreateCheck(s, a)
    \/ \E a \in Accounts, k \in ClientIds, r \in Requests : PlaceCheck(s, a, k, r)
    \/ \E a \in Accounts, k \in ClientIds : CancelRead(s, a, k)

(* What a handler does once its request arrived.                           *)
Proceed(s) ==
    \/ CreateInsert(s) \/ CreateDuplicate(s)
    \/ PlaceNoAccount(s) \/ PlaceLock(s) \/ PlaceDuplicate(s)
    \/ PlaceReject(s) \/ PlaceAccept(s) \/ PlaceFill(s) \/ PlaceFillFails(s)
    \/ CancelWrite(s)
    \/ SettleLock(s) \/ SettlePosition(s) \/ SettleRowGone(s) \/ SettleCommit(s)
    \/ Return500(s)

MonitorStart(s) == \E t \in Ticks : SettleScan(s, t)

Next ==
    \/ \E s \in Clients : ClientStart(s)
    \/ \E s \in Monitors : MonitorStart(s)
    \/ \E s \in Sessions : Proceed(s) \/ EarlyReturn(s) \/ Crash(s)

Spec == Init /\ [][Next]_vars

(* A session can take its next step (what ENABLED Proceed(s) amounts to):  *)
(* only a FOR UPDATE lock held by another transaction makes it wait.       *)
Ready(s) ==
    \/ pc[s] \in Errors \cup {"create", "fill", "cancel"}
    \/ pc[s] = "lock"  /\ (~Exists(job[s].acct) \/ LockFree(job[s].acct))
    \/ pc[s] = "sweep" /\ \A a \in NextAccounts(job[s].todo) : Holds(s, a) \/ LockFree(a)

(* Handlers run on, and PostgreSQL grants a row lock in the order of       *)
(* waiting, so a waiter is not passed over forever (strong fairness); the  *)
(* monitor's schedule keeps firing.  Nobody has to send orders.            *)
Fairness == /\ \A s \in Sessions : []<>Ready(s) => []<><<Proceed(s)>>_vars
            /\ \A s \in Monitors : WF_vars(MonitorStart(s))
FairSpec == Spec /\ Fairness

-----------------------------------------------------------------------------
(***************************************************************************)
(* Properties.                                                             *)
(***************************************************************************)
Places == {"idle", "create", "lock", "fill", "cancel", "sweep"} \cup Errors

(* What a session was asked, by where it is.                               *)
JobOK(s) ==
    /\ pc[s] = "create" => job[s] \in [acct : Accounts]
    /\ pc[s] \in {"lock", "fill"} => job[s] \in [acct : Accounts, key : ClientIds, req : Requests]
    /\ pc[s] = "cancel" => job[s] \in [acct : Accounts, key : ClientIds]
    /\ pc[s] = "sweep"  => job[s] \in [tick : Ticks, todo :
                               SUBSET [acct : Accounts, sym : Symbols, pid : PosIds, qty : Int, avg : Int]]

(* A workspace; what its buying power must be is BuyingPowerExact's matter.*)
WorkOK(w) ==
    /\ w = [cash |-> w.cash, bp |-> w.bp, pos |-> w.pos, ord |-> w.ord, delta |-> w.delta]
    /\ w.cash \in Int /\ w.delta \in Int
    /\ w.pos \in [Symbols -> PosRows(PosIds) \cup {None}]
    /\ DOMAIN w.ord \subseteq OrderKeys
    /\ \A k \in DOMAIN w.ord : w.ord[k] \in Statuses

(* Every variable has its type.                                            *)
TypeOK ==
    /\ DOMAIN account \subseteq Accounts
    /\ \A a \in DOMAIN account : account[a].cash \in Int
    /\ position \in [Accounts -> [Symbols -> PosRows(PosIds) \cup {None}]]
    /\ order \in [Accounts -> [OrderKeys -> Statuses \cup {None}]]
    /\ fillRows \in [Accounts -> [OrderKeys -> Nat]]
    /\ booked \in [Accounts -> Int]
    /\ nextPid \in 1 .. MaxPid + 1
    /\ lock \in [Accounts -> Sessions \cup {None}]
    /\ pc \in [Sessions -> Places]
    /\ DOMAIN job = Sessions /\ \A s \in Sessions : JobOK(s)
    /\ DOMAIN work = Sessions
    /\ \A s \in Sessions : /\ DOMAIN work[s] = Accounts
                           /\ \A a \in Accounts : work[s][a] # None => WorkOK(work[s][a])
    /\ crashes \in 0 .. MaxCrashes

(* No update of cash_balance is lost: whatever orders, retries, exits and  *)
(* crashes interleave, the balance of an account is its starting equity    *)
(* plus the cash effect of every Fill row ever committed for it (what the  *)
(* account lock of _lock_account is for).                                  *)
LedgerBalanced == \A a \in DOMAIN account : account[a].cash = booked[a]

(* The stored buying_power is always the cash less the collateral of the   *)
(* shorts that are open NOW; it is recomputed only by _fill_market, so a   *)
(* position changed behind its back would leave it stale.                  *)
BuyingPowerExact ==
    \A a \in DOMAIN account :
        account[a].bp = BuyingPower(account[a].cash, position[a])

(* A client_order_id, or one exit of one position in one tick, is executed *)
(* at most once, and it has a Fill row exactly when it says "filled":      *)
(* place_order's promise that a retried submit never double-fills.         *)
FilledExactlyOnce ==
    \A a \in Accounts, k \in OrderKeys :
        fillRows[a][k] = IF order[a][k] = "filled" THEN 1 ELSE 0

(* No order that ended (filled, rejected or canceled) ever changes again,  *)
(* although cancel_order writes the status without holding any lock.       *)
EndedOrdersStay ==
    [][\A a \in Accounts, k \in OrderKeys :
         order[a][k] \in {"filled", "rejected", "canceled"} => order'[a][k] = order[a][k]]_vars

(* A reduce_only order, decided on a snapshot that may be stale by the     *)
(* time it executes, never opens, grows or flips a position.               *)
Exposure(pos, sym) == HeldQty(pos[sym])
ReduceOnlyReduces ==
    [][\A s \in Clients : pc[s] = "fill" /\ pc'[s] = "idle" /\ job[s].req.reduce_only =>
         \A sym \in Symbols :
            LET before == Exposure(position[job[s].acct], sym)
                after  == Exposure(position'[job[s].acct], sym)
            IN  before * after >= 0 /\ Abs(after) <= Abs(before)]_vars

(* Whoever else traded in between, a fill that grows a position leaves the *)
(* account with non-negative buying power (no overspending).               *)
OpensAreFunded ==
    [][\A a \in Accounts :
         (\E sym \in Symbols : Abs(Exposure(position'[a], sym)) > Abs(Exposure(position[a], sym)))
            => account'[a].bp >= 0]_vars

(* Every request is answered: nobody waits for a lock forever, although a  *)
(* sweep holds the locks of several accounts at once.                      *)
RequestsComplete == \A s \in Sessions : pc[s] # "idle" ~> pc[s] = "idle"

(* When every quote stays fresh and beyond one of its exit levels, a       *)
(* protected position is eventually closed by the monitor, even if some    *)
(* sweeps are lost or rolled back.                                         *)
MustExit(row) == /\ Protected(row)
                 /\ \A quote \in Quotes : Usable(quote) /\ Judge(row, quote).should_exit
ProtectedPositionsClose ==
    \A a \in Accounts, sym \in Symbols :
        (position[a][sym] # None /\ MustExit(position[a][sym])) ~> position[a][sym] = None

(* To its callers the broker is an OrderLedger: no session, lock, sweep or *)
(* crash shows, and every commit decides its orders at once, money and     *)
(* holdings moving with the fills and with nothing else.                   *)
Ledger == INSTANCE OrderLedger WITH
    Keys    <- OrderKeys,
    balance <- [a \in Accounts |-> IF Exists(a) THEN account[a].cash ELSE None],
    holding <- [a \in Accounts |-> [sym \in Symbols |-> HeldQty(position[a][sym])]],
    status  <- order
ImplementsLedger == Ledger!LedgerSpec
=============================================================================
