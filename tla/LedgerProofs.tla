---------------------------- MODULE LedgerProofs ----------------------------
(***************************************************************************)
(* What callers of trade-api may rely on, for any accounts, symbols,       *)
(* handlers, orders, quotes and crashes: the broker implements the ledger  *)
(* of OrderLedger, and a reduce_only order never opens, grows or flips a   *)
(* position.                                                               *)
(*                                                                         *)
(* A handler decides on the rows it has loaded.  That these are the rows   *)
(* its commit replaces, and that it replaces them by what its own orders   *)
(* made of them, is what the account lock is for (Carried): nobody else    *)
(* writes an account from the moment a handler has its lock.  That a sweep *)
(* has an exit of its own for every position it moved needs the rows of an *)
(* account to have different ids (RowsDiffer).                             *)
(***************************************************************************)
EXTENDS SimBrokerProofs, FiniteSetTheorems

(* What a sweep has made of an account it holds: every order it is about   *)
(* to insert was filled, without one the cash is as it was, rows keep      *)
(* their ids, and a position that changed has an exit of its own.          *)
Owed(w, a) ==
    /\ IsFiniteSet(DOMAIN w.ord)
    /\ \A k \in DOMAIN w.ord : w.ord[k] = "filled"
    /\ DOMAIN w.ord = {} => w.cash = account[a].cash
    /\ \A sym \in Symbols :
         /\ w.pos[sym] # None => position[a][sym] # None /\ w.pos[sym].id = position[a][sym].id
         /\ \/ HeldQty(w.pos[sym]) = HeldQty(position[a][sym])
            \/ /\ position[a][sym] # None
               /\ \E k \in DOMAIN w.ord : k \in ExitKeys /\ k.pid = position[a][sym].id

(* A handler about to fill holds one account and has changed nothing; a    *)
(* sweep has executed exits.                                               *)
Carries(t, a) ==
    IF pc[t] = "fill" THEN a = job[t].acct /\ work[t][a] = Loaded(a) ELSE Owed(work[t][a], a)
Carried == \A t \in Sessions, a \in Accounts : lock[a] = t => Carries(t, a)

LEMMA InitCarried == Init => Carried
  BY NoneIsNoSession DEF Init, Carried

(* A commit touches no account that another session has locked.            *)
LEMMA CommitElsewhere ==
    ASSUME Inv, NEW s \in Sessions, Commits(s), NEW a \in Accounts, lock[a] # s, Exists(a)
    PROVE  account'[a] = account[a] /\ position'[a] = position[a]
<1>1. PICK w : Committable(s, w) /\ Commit(s, w) BY DEF Commits
<1>2. w[a] = None BY <1>1 DEF Committable
<1>. QED BY <1>1, <1>2 DEF Commit, Exists

(* What a step leaves to a session t that holds the account a after it.    *)
Left(t, a) == /\ lock[a] = t /\ pc'[t] = pc[t] /\ job'[t] = job[t] /\ work'[t] = work[t]
              /\ account'[a] = account[a] /\ position'[a] = position[a]

LEMMA HolderUndisturbed ==
    ASSUME Inv, [Next]_vars, NEW t \in Sessions, NEW a \in Accounts, lock'[a] = t,
           ~PlaceLock(t), ~SettleLock(t), ~SettlePosition(t)
    PROVE  Left(t, a)
<1>. TypeOK /\ LockInv /\ FillInv BY DEF Inv
<1>0. /\ DOMAIN pc = Sessions /\ DOMAIN job = Sessions /\ DOMAIN work = Sessions /\ DOMAIN lock = Accounts
      /\ \A x \in Sessions : DOMAIN work[x] = Accounts
      /\ lock[a] = t => pc[t] \in {"fill", "sweep"} /\ Exists(a)
  BY DEF TypeOK, LockInv, Sound
(* Whoever ends a transaction holds nothing, and keeps to itself.          *)
<1>1. ASSUME NEW s \in Sessions, NEW where \in Errors \cup {"idle"}, EndTransaction(s, where)
      PROVE  t # s /\ lock[a] = t /\ pc'[t] = pc[t] /\ job'[t] = job[t] /\ work'[t] = work[t]
  <2>1. Ended(s, where) BY <1>1, AfterEnd
  <2>. QED BY <2>1 DEF Ended
<1>2. ASSUME NEW s \in Sessions, NEW where \in Errors \cup {"idle"}, EndTransaction(s, where),
             account' = account, position' = position
      PROVE  Left(t, a)
  BY <1>1, <1>2 DEF Left
<1>3. ASSUME NEW s \in Sessions, NEW where \in Errors \cup {"idle"}, Rollback(s, where)
      PROVE  Left(t, a)
  BY <1>2, <1>3 DEF Rollback, dbVars
<1>4. ASSUME NEW s \in Sessions, Commits(s) PROVE Left(t, a)
  <2>1. EndTransaction(s, "idle") BY <1>4 DEF Commits, Commit
  <2>2. t # s /\ lock[a] = t /\ pc'[t] = pc[t] /\ job'[t] = job[t] /\ work'[t] = work[t] BY <1>1, <2>1
  <2>3. account'[a] = account[a] /\ position'[a] = position[a] BY <1>0, <1>4, <2>2, CommitElsewhere
  <2>. QED BY <2>2, <2>3 DEF Left
<1>5. ASSUME NEW s \in Sessions, ClientStart(s) \/ MonitorStart(s) PROVE Left(t, a)
  <2>1. /\ account' = account /\ position' = position /\ work' = work /\ lock' = lock
        /\ \A x \in Sessions : x # s => pc'[x] = pc[x] /\ job'[x] = job[x]
        /\ pc[s] = "idle"
    BY <1>0, <1>5 DEF ClientStart, MonitorStart, CreateCheck, PlaceCheck, CancelRead, SettleScan, dbVars
  <2>. QED BY <1>0, <2>1 DEF Left
<1>6. ASSUME NEW s \in Sessions, Proceed(s) PROVE Left(t, a)
  <2>1. CASE PlaceReject(s) \/ PlaceAccept(s) \/ PlaceFill(s) \/ SettleCommit(s)
    BY <1>4, <2>1, PlaceCommits, SettleCommitCommits
  <2>2. CASE CreateDuplicate(s) \/ PlaceNoAccount(s) \/ PlaceDuplicate(s) \/ PlaceFillFails(s) \/ SettleRowGone(s)
    BY <1>3, <2>2 DEF CreateDuplicate, PlaceNoAccount, PlaceDuplicate, PlaceFillFails, SettleRowGone, Errors
  <2>3. CASE CancelWrite(s)
    BY <1>2, <2>3 DEF CancelWrite
  <2>4. CASE CreateInsert(s)
    <3>1. EndTransaction(s, "idle") /\ position' = position /\ ~Exists(job[s].acct)
      BY <2>4 DEF CreateInsert
    <3>2. t # s /\ lock[a] = t /\ pc'[t] = pc[t] /\ job'[t] = job[t] /\ work'[t] = work[t] BY <1>1, <3>1
    <3>3. account'[a] = account[a] BY <1>0, <2>4, <3>1, <3>2 DEF CreateInsert, Exists
    <3>. QED BY <3>1, <3>2, <3>3 DEF Left
  <2>5. CASE PlaceLock(s) \/ SettleLock(s)
    <3>1. t # s BY <2>5
    <3>2. /\ job' = job /\ account' = account /\ position' = position
          /\ pc' = pc \/ pc' = [pc EXCEPT ![s] = "fill"]
          /\ \E x : lock' = [lock EXCEPT ![x] = s] /\ work' = [work EXCEPT ![s][x] = Loaded(x)]
      BY <2>5 DEF PlaceLock, SettleLock, LockAndLoad, dbVars
    <3>. QED BY <1>0, <3>1, <3>2 DEF Left
  <2>6. CASE SettlePosition(s)
    <3>1. pc' = pc /\ account' = account /\ position' = position /\ lock' = lock /\ t # s
      BY <2>6 DEF SettlePosition, dbVars
    <3>2. \A x \in Sessions : x # s => work'[x] = work[x] /\ job'[x] = job[x]
      BY <1>0, <2>6 DEF SettlePosition
    <3>. QED BY <3>1, <3>2 DEF Left
  <2>7. CASE Return500(s)
    <3>1. pc[s] \in Errors /\ pc' = [pc EXCEPT ![s] = "idle"] /\ UNCHANGED <<dbVars, lock, job, work>>
      BY <2>7 DEF Return500
    <3>2. t # s BY <1>0, <3>1 DEF Errors
    <3>. QED BY <1>0, <3>1, <3>2 DEF dbVars, Left
  <2>. QED BY <1>6, <2>1, <2>2, <2>3, <2>4, <2>5, <2>6, <2>7 DEF Proceed
<1>7. ASSUME NEW s \in Sessions, EarlyReturn(s) \/ Crash(s) PROVE Left(t, a)
  <2>1. CASE Crash(s) BY <1>3, <2>1 DEF Crash
  <2>2. CASE EarlyReturn(s) BY <2>2 DEF EarlyReturn, vars, dbVars, sessVars, Left
  <2>. QED BY <1>7, <2>1, <2>2
<1>8. CASE UNCHANGED vars BY <1>8 DEF vars, dbVars, sessVars, Left
<1>. QED BY <1>5, <1>6, <1>7, <1>8 DEF Next, Sessions

(* What was just loaded owes nothing.                                      *)
LEMMA LoadedOwed == \A a \in Accounts : Owed(Loaded(a), a)
  BY FS_EmptySet DEF Owed, Loaded

(* Raising the high-water mark of a row leaves a row.                      *)
LEMMA JudgedRow ==
    ASSUME NEW row \in PosRows(PosIds), NEW quote \in QuoteRows
    PROVE  LET kept == [row EXCEPT !.hw = Judge(row, quote).high_water]
           IN  kept # None /\ kept.id = row.id /\ kept.qty = row.qty /\ kept.qty \in Int \ {0}
<1>. DEFINE d == Judge(row, quote)
<1>1. row.qty \in Int /\ row.avg \in Int /\ row.hw \in Int /\ quote.last \in Int
  BY DEF PosRows, QuoteRows, Amounts
<1>2. d.high_water = Ratchet(row.qty, row.hw, row.avg, quote.last) BY DEF Judge, evaluate_exit
<1>. HIDE DEF d
<1>3. d.high_water \in Int BY <1>1, <1>2 DEF Ratchet, Smaller, Larger
<1>4. [row EXCEPT !.hw = d.high_water] \in PosRows(Nat) BY <1>3, BrokerAssumption DEF PosRows, PosIds
<1>5. [row EXCEPT !.hw = d.high_water] # None BY <1>4, RowAssumption
<1>. QED BY <1>5 DEF PosRows, d

(* What a fill that closes a part of a row leaves of it.                   *)
Shrunk(row, out) == [row EXCEPT !.qty = out.qty, !.avg = out.avg]

(* An exit sells a long and buys a short back: it is never refused, and    *)
(* what is left of the row keeps its id.                                   *)
LEMMA ExitExecutes ==
    ASSUME NEW w, NEW sym, NEW row, row # None, row.qty \in Int \ {0},
           NEW req, req = ExitRequest(sym, row.qty),
           NEW fq, NEW out, NEW pid, NEW price, NEW lv
    PROVE  /\ ~Refused(w, req, row, fq)
           /\ RowAfter(row, pid, IsOpening(req.side, HeldQty(row)), out, price, lv) \in {None, Shrunk(row, out)}
<1>1. HeldQty(row) = row.qty BY DEF HeldQty
<1>2. ~IsOpening(req.side, HeldQty(row)) BY <1>1 DEF IsOpening, ExitRequest
<1>3. ~Refused(w, req, row, fq)
  BY <1>1, <1>2 DEF Refused, ExitRequest
<1>. QED BY <1>2, <1>3 DEF RowAfter, Shrunk

(* A look at a watched position leaves the account's workspace in order.   *)
LEMMA AfterExitOwed ==
    ASSUME Inv, NEW s \in Sessions, pc[s] = "sweep", NEW e \in Current(s), ~Gone(s, e),
           NEW quote \in QuoteRows, Owed(work[s][e.acct], e.acct)
    PROVE  Owed(AfterExit(s, e, quote), e.acct)
<1>. DEFINE a    == e.acct
            w    == work[s][a]
            row  == w.pos[e.sym]
            d    == Judge(row, quote)
            key  == [pid |-> e.pid, tick |-> job[s].tick]
            kept == [w EXCEPT !.pos[e.sym].hw = d.high_water]
            keptRow == [row EXCEPT !.hw = d.high_water]
            req  == ExitRequest(e.sym, row.qty)
            held == position[a]
<1>1. /\ e \in job[s].todo /\ lock[a] = s /\ job[s].tick \in Ticks
      /\ a \in Accounts /\ e.sym \in Symbols /\ e.pid \in PosIds
  BY DEF Current, NextEntries, Holds, Inv, TypeOK, JobOK
<1>2. WorkOK(w) BY <1>1 DEF Inv, LockInv, Sound
<1>3. row \in PosRows(PosIds) /\ row # None /\ row.id = e.pid
  BY <1>1, <1>2 DEF Gone, WorkOK
<1>4. key \in ExitKeys BY <1>1 DEF ExitKeys
<1>5. held[e.sym] # None /\ held[e.sym].id = e.pid
  BY <1>1, <1>3 DEF Owed
<1>6. /\ w = [cash |-> w.cash, bp |-> w.bp, pos |-> w.pos, ord |-> w.ord, delta |-> w.delta]
      /\ w.pos \in [Symbols -> PosRows(PosIds) \cup {None}]
  BY <1>2 DEF WorkOK
<1>7. /\ kept.cash = w.cash /\ kept.ord = w.ord
      /\ kept.pos = [w.pos EXCEPT ![e.sym] = keptRow]
  BY <1>6
<1>8. keptRow # None /\ keptRow.id = e.pid /\ keptRow.qty = row.qty /\ keptRow.qty \in Int \ {0}
  BY <1>3, JudgedRow
<1>. HIDE DEF d, keptRow, kept
<1>9. /\ kept.pos[e.sym] = keptRow
      /\ \A sym \in Symbols : sym # e.sym => kept.pos[sym] = w.pos[sym]
  BY <1>1, <1>6, <1>7
<1>. HIDE DEF w, key
<1>10. CASE AfterExit(s, e, quote) = kept
  <2>1. HeldQty(keptRow) = HeldQty(row) BY <1>3, <1>8 DEF HeldQty
  <2>2. ASSUME NEW sym \in Symbols
        PROVE  /\ kept.pos[sym] # None => w.pos[sym] # None /\ kept.pos[sym].id = w.pos[sym].id
               /\ HeldQty(kept.pos[sym]) = HeldQty(w.pos[sym])
    BY <1>3, <1>8, <1>9, <2>1
  <2>3. Owed(w, a) BY DEF w
  <2>. QED BY <1>7, <1>10, <2>2, <2>3 DEF Owed
<1>11. CASE AfterExit(s, e, quote) = fill_market(kept, key, req, quote, e.pid, Seen(s, e))
  <2>. DEFINE r  == fill_market(kept, key, req, quote, e.pid, Seen(s, e))
              fq == Price(req, quote)
              out == apply_fill(kept.cash, HeldQty(keptRow), HeldAvg(keptRow), req.side, fq.qty, fq.price, fq.fees)
              after == RowAfter(keptRow, e.pid, IsOpening(req.side, HeldQty(keptRow)), out, fq.price, Levels(req))
  <2>0. req = ExitRequest(e.sym, keptRow.qty) /\ req.symbol = e.sym BY <1>8 DEF ExitRequest
  <2>. HIDE DEF req, fq, out
  <2>1. /\ ~Refused(kept, req, keptRow, fq)
        /\ after \in {None, Shrunk(keptRow, out)}
    BY <1>8, <2>0, ExitExecutes
  <2>. USE DEF fq, out
  <2>2. r = Executed(kept, key, req, keptRow, fq, e.pid, Seen(s, e))
    BY <1>9, <2>0, <2>1 DEF fill_market
  <2>3. /\ r.pos = [kept.pos EXCEPT ![e.sym] = after]
        /\ r.ord = [k \in DOMAIN kept.ord \cup {key} |-> IF k = key THEN "filled" ELSE kept.ord[k]]
    BY <2>0, <2>2 DEF Executed
  <2>. HIDE DEF r, fq, out
  <2>4. after # None => after.id = e.pid
    <3>. SUFFICES ASSUME after # None PROVE after.id = e.pid OBVIOUS
    <3>1. after = [keptRow EXCEPT !.qty = out.qty, !.avg = out.avg] BY <2>1 DEF Shrunk
    <3>2. keptRow = [row EXCEPT !.hw = d.high_water] BY DEF keptRow
    <3>3. DOMAIN keptRow = {"id", "qty", "avg", "sl", "tp", "ts", "hw"} BY <1>3, <3>2 DEF PosRows
    <3>. HIDE DEF after
    <3>. QED BY <1>8, <3>1, <3>3
  <2>. HIDE DEF after
  <2>5. /\ DOMAIN r.ord = DOMAIN w.ord \cup {key} /\ key \in DOMAIN r.ord
        /\ \A k \in DOMAIN r.ord : k # key => r.ord[k] = w.ord[k]
        /\ r.ord[key] = "filled"
    BY <1>7, <2>3
  <2>6. /\ DOMAIN kept.pos = Symbols BY <1>6, <1>7
  <2>7. /\ r.pos[e.sym] = after
        /\ \A sym \in Symbols : sym # e.sym => r.pos[sym] = w.pos[sym]
    BY <1>1, <1>9, <2>3, <2>6
  <2>8. Owed(w, a) BY DEF w
  <2>9. IsFiniteSet(DOMAIN r.ord) BY <2>5, <2>8, FS_AddElement DEF Owed
  <2>10. \A k \in DOMAIN r.ord : r.ord[k] = "filled" BY <2>5, <2>8 DEF Owed
  <2>11. ASSUME NEW sym \in Symbols
         PROVE  /\ r.pos[sym] # None => held[sym] # None /\ r.pos[sym].id = held[sym].id
                /\ \/ HeldQty(r.pos[sym]) = HeldQty(held[sym])
                   \/ /\ held[sym] # None
                      /\ \E k \in DOMAIN r.ord : k \in ExitKeys /\ k.pid = held[sym].id
    <3>1. CASE sym = e.sym
      <4>1. key.pid = e.pid BY DEF key
      <4>. QED BY <1>4, <1>5, <2>4, <2>5, <2>7, <3>1, <4>1
    <3>2. CASE sym # e.sym BY <2>5, <2>7, <2>8, <3>2 DEF Owed
    <3>. QED BY <3>1, <3>2
  <2>12. Owed(r, a) BY <2>5, <2>9, <2>10, <2>11 DEF Owed
  <2>. QED BY <1>11, <2>12 DEF r
<1>12. \/ AfterExit(s, e, quote) = kept
       \/ AfterExit(s, e, quote) = fill_market(kept, key, req, quote, e.pid, Seen(s, e))
  BY DEF AfterExit, kept, key, w, d
<1>. QED BY <1>10, <1>11, <1>12

LEMMA NextCarried == Inv /\ Carried /\ [Next]_vars => Carried'
<1>. SUFFICES ASSUME Inv, Carried, [Next]_vars, NEW t \in Sessions, NEW a \in Accounts, lock'[a] = t
              PROVE  Carries(t, a)'
  BY DEF Carried
<1>0. /\ DOMAIN pc = Sessions /\ DOMAIN job = Sessions /\ DOMAIN work = Sessions /\ DOMAIN lock = Accounts
      /\ \A x \in Sessions : DOMAIN work[x] = Accounts
      /\ lock[a] = t => pc[t] \in {"fill", "sweep"} /\ Carries(t, a)
  BY DEF Inv, TypeOK, LockInv, Carried
<1>1. CASE ~PlaceLock(t) /\ ~SettleLock(t) /\ ~SettlePosition(t)
  <2>1. Left(t, a) BY <1>1, HolderUndisturbed
  <2>2. Carries(t, a) BY <1>0, <2>1 DEF Left
  <2>. QED BY <2>1, <2>2 DEF Left, Carries, Owed, Loaded
<1>2. CASE PlaceLock(t)
  <2>1. /\ job' = job /\ UNCHANGED dbVars /\ pc[t] = "lock" /\ pc' = [pc EXCEPT ![t] = "fill"]
        /\ lock' = [lock EXCEPT ![job[t].acct] = t]
        /\ work' = [work EXCEPT ![t][job[t].acct] = Loaded(job[t].acct)]
    BY <1>2 DEF PlaceLock, LockAndLoad
  <2>2. a = job[t].acct BY <1>0, <2>1
  <2>3. work'[t][a] = Loaded(a) BY <1>0, <2>1, <2>2
  <2>. QED BY <1>0, <2>1, <2>2, <2>3 DEF Carries, Loaded, dbVars
<1>3. CASE SettleLock(t)
  <2>1. /\ job' = job /\ UNCHANGED dbVars /\ pc[t] = "sweep" /\ pc' = pc
    BY <1>3 DEF SettleLock
  <2>2. PICK x : lock' = [lock EXCEPT ![x] = t] /\ work' = [work EXCEPT ![t][x] = Loaded(x)]
    BY <1>3 DEF SettleLock, LockAndLoad
  <2>3. Owed(work'[t][a], a)
    <3>1. CASE a = x
      <4>1. work'[t][a] = Loaded(a) BY <1>0, <2>2, <3>1
      <4>. QED BY <4>1, LoadedOwed
    <3>2. CASE a # x BY <1>0, <2>1, <2>2, <3>2 DEF Carries
    <3>. QED BY <3>1, <3>2
  <2>. QED BY <2>1, <2>3 DEF Carries, Owed, dbVars
<1>4. CASE SettlePosition(t)
  <2>1. /\ UNCHANGED dbVars /\ pc[t] = "sweep" /\ pc' = pc /\ lock' = lock
    BY <1>4 DEF SettlePosition
  <2>2. Owed(work[t][a], a) BY <1>0, <2>1 DEF Carries
  <2>3. PICK e \in Current(t), quote \in Quotes :
           /\ ~Gone(t, e)
           /\ work' = IF Usable(quote) THEN [work EXCEPT ![t][e.acct] = AfterExit(t, e, quote)] ELSE work
    BY <1>4 DEF SettlePosition
  <2>4. Owed(work'[t][a], a)
    <3>1. CASE Usable(quote) /\ e.acct = a
      <4>1. quote \in QuoteRows BY <3>1, BrokerAssumption DEF Usable
      <4>2. Owed(AfterExit(t, e, quote), a) BY <2>1, <2>2, <2>3, <3>1, <4>1, AfterExitOwed
      <4>3. work'[t][a] = AfterExit(t, e, quote) BY <1>0, <2>3, <3>1
      <4>. QED BY <4>2, <4>3
    <3>2. CASE ~(Usable(quote) /\ e.acct = a)
      <4>1. work'[t][a] = work[t][a] BY <1>0, <2>3, <3>2
      <4>. QED BY <2>2, <4>1
    <3>. QED BY <3>1, <3>2
  <2>. QED BY <2>1, <2>4 DEF Carries, Owed, dbVars
<1>. QED BY <1>1, <1>2, <1>3, <1>4

-----------------------------------------------------------------------------
(* Rows of an account have different ids, all of them already drawn: an    *)
(* exit's key names one position.                                          *)
RowsDiffer ==
    \A a \in Accounts : \A sym \in Symbols : position[a][sym] # None =>
        /\ position[a][sym].id < nextPid
        /\ \A other \in Symbols : position[a][other] # None /\ position[a][other].id = position[a][sym].id
                                    => other = sym

(* What the workspace w does to the account a when it is published.  In    *)
(* the terms of the ledger: orders are filled, rejected or accepted, the   *)
(* cash moves only with a fill, and no more symbols move than are filled.  *)
FilledBy(w)   == {k \in DOMAIN w.ord : w.ord[k] = "filled"}
MovedBy(w, a) == {sym \in Symbols : HeldQty(w.pos[sym]) # HeldQty(position[a][sym])}
Pays(w, a) ==
    /\ \A k \in DOMAIN w.ord : w.ord[k] \in {"filled", "rejected", "accepted"}
    /\ FilledBy(w) = {} => w.cash = account[a].cash
    /\ Cardinality(MovedBy(w, a)) <= Cardinality(FilledBy(w))

(* Rows keep their ids, and one row may be new.                            *)
KeepsRow(w, a, sym) == position[a][sym] # None /\ w.pos[sym].id = position[a][sym].id
KeepsRows(w, a) ==
    \/ \A sym \in Symbols : w.pos[sym] # None => KeepsRow(w, a, sym)
    \/ /\ nextPid' = nextPid + 1
       /\ \E new \in Symbols : \A sym \in Symbols : w.pos[sym] # None =>
             IF sym = new THEN w.pos[sym].id = nextPid ELSE KeepsRow(w, a, sym)

LEMMA InitRowsDiffer == Init => RowsDiffer
  BY DEF Init, RowsDiffer

(* One for each: every position a sweep moved has an exit of its own.      *)
LEMMA OwedPays ==
    ASSUME RowsDiffer, NEW a \in Accounts, NEW w, Owed(w, a)
    PROVE  Pays(w, a) /\ KeepsRows(w, a)
<1>. DEFINE moved == MovedBy(w, a)
            ExitOf(sym) == CHOOSE k \in DOMAIN w.ord : k.pid = position[a][sym].id
            f == [sym \in moved |-> ExitOf(sym)]
<1>1. FilledBy(w) = DOMAIN w.ord /\ IsFiniteSet(DOMAIN w.ord) BY DEF Owed, FilledBy
<1>2. ASSUME NEW sym \in moved
      PROVE  /\ sym \in Symbols /\ position[a][sym] # None
             /\ ExitOf(sym) \in DOMAIN w.ord /\ ExitOf(sym).pid = position[a][sym].id
  <2>1. sym \in Symbols /\ HeldQty(w.pos[sym]) # HeldQty(position[a][sym]) BY DEF MovedBy
  <2>2. position[a][sym] # None /\ \E k \in DOMAIN w.ord : k.pid = position[a][sym].id
    BY <2>1 DEF Owed
  <2>. QED BY <2>1, <2>2
<1>. HIDE DEF moved, ExitOf
<1>3. f \in [moved -> DOMAIN w.ord] BY <1>2
<1>4. ASSUME NEW x \in moved, NEW y \in moved, f[x] = f[y] PROVE x = y
  <2>1. position[a][x].id = position[a][y].id BY <1>2, <1>4
  <2>. QED BY <1>2, <2>1 DEF RowsDiffer
<1>5. f \in Injection(moved, DOMAIN w.ord)
  <2>. HIDE DEF f
  <2>. QED BY <1>3, <1>4 DEF Injection, IsInjective
<1>6. Cardinality(moved) <= Cardinality(DOMAIN w.ord)
  <2>. HIDE DEF f
  <2>. QED BY <1>1, <1>5, FS_Injection
<1>7. Pays(w, a) BY <1>1, <1>6 DEF Pays, Owed, moved
<1>8. KeepsRows(w, a) BY DEF KeepsRows, KeepsRow, Owed
<1>. QED BY <1>7, <1>8

(* An order that is put on the books, or refused, moves nothing.           *)
LEMMA StatusPays ==
    ASSUME NEW a \in Accounts, NEW key, NEW status \in {"rejected", "accepted"}
    PROVE  Pays(WithStatus(Loaded(a), key, status), a) /\ KeepsRows(WithStatus(Loaded(a), key, status), a)
<1>. DEFINE w == WithStatus(Loaded(a), key, status)
<1>1. /\ w.cash = account[a].cash /\ w.pos = position[a]
      /\ w.ord = [k \in {key} |-> status]
  BY DEF WithStatus, Loaded
<1>. HIDE DEF w
<1>2. FilledBy(w) = {} BY <1>1 DEF FilledBy
<1>3. MovedBy(w, a) = {} BY <1>1 DEF MovedBy
<1>4. Pays(w, a) BY <1>1, <1>2, <1>3, FS_EmptySet DEF Pays
<1>5. KeepsRows(w, a) BY <1>1 DEF KeepsRows, KeepsRow
<1>. QED BY <1>4, <1>5 DEF w

(* One order against the rows it was loaded with moves at most its symbol, *)
(* and opens at most one row, under the next id.                           *)
LEMMA FillPays ==
    ASSUME NEW a \in Accounts, Sound(Loaded(a), a), NEW key, NEW quote \in QuoteRows,
           NEW req \in OrderBodies, NEW seen,
           nextPid' = IF Opens(Loaded(a), fill_market(Loaded(a), key, req, quote, nextPid, seen))
                      THEN nextPid + 1 ELSE nextPid
    PROVE  /\ Pays(fill_market(Loaded(a), key, req, quote, nextPid, seen), a)
           /\ KeepsRows(fill_market(Loaded(a), key, req, quote, nextPid, seen), a)
<1>. DEFINE w   == Loaded(a)
            ids == PosIds \cup {nextPid}
            r   == fill_market(w, key, req, quote, nextPid, seen)
            fq  == Price(req, quote)
            row == w.pos[req.symbol]
            out == apply_fill(w.cash, HeldQty(row), HeldAvg(row), req.side, fq.qty, fq.price, fq.fees)
            new == RowAfter(row, nextPid, IsOpening(req.side, HeldQty(row)), out, fq.price, Levels(req))
<1>1. /\ w.cash = account[a].cash /\ w.pos = position[a] /\ w.ord = [k \in {} |-> None]
      /\ w = [cash |-> w.cash, bp |-> w.bp, pos |-> w.pos, ord |-> w.ord, delta |-> w.delta]
      /\ w.cash \in Int /\ w.delta \in Int /\ w.pos \in [Symbols -> PosRows(PosIds) \cup {None}]
  BY DEF Loaded, Sound, WorkOK
<1>2. /\ req.symbol \in Symbols /\ req.side \in Sides BY DEF OrderBodies
<1>3. w.pos \in [Symbols -> PosRows(ids) \cup {None}] BY <1>1 DEF PosRows
<1>4. Result(r, w, key, ids)
  <2>. HIDE DEF w
  <2>. QED BY <1>1, <1>3, FillMarketWork
<1>5. nextPid' = IF Opens(w, r) THEN nextPid + 1 ELSE nextPid OBVIOUS
<1>. HIDE DEF w, ids
<1>6. CASE Refused(w, req, row, fq)
  <2>1. r = WithStatus(w, key, "rejected") BY <1>6 DEF fill_market
  <2>. QED BY <2>1, StatusPays DEF w
<1>7. CASE ~Refused(w, req, row, fq)
  <2>1. r = Executed(w, key, req, row, fq, nextPid, seen) BY <1>7 DEF fill_market
  <2>2. /\ r.pos = [w.pos EXCEPT ![req.symbol] = new]
        /\ r.ord = [k \in {key} |-> "filled"]
    BY <1>1, <2>1 DEF Executed
  <2>3. row = None => new = None \/ new.id = nextPid
    <3>. SUFFICES ASSUME row = None, new # None PROVE new.id = nextPid OBVIOUS
    <3>1. IsOpening(req.side, HeldQty(row)) BY <1>2 DEF IsOpening, HeldQty, Sides
    <3>. HIDE DEF out, fq, row
    <3>2. new = OpenedRow(row, nextPid, out, fq.price, Levels(req)) BY <3>1 DEF RowAfter
    <3>. QED BY <3>2 DEF OpenedRow
  <2>. HIDE DEF r, fq, out, new, row
  <2>4. /\ r.pos[req.symbol] = new
        /\ \A sym \in Symbols : sym # req.symbol => r.pos[sym] = w.pos[sym]
    BY <1>1, <1>2, <2>2
  <2>5. FilledBy(r) = {key} BY <2>2 DEF FilledBy
  <2>6. MovedBy(r, a) \in SUBSET {req.symbol} BY <1>1, <2>4 DEF MovedBy
  <2>7. Cardinality(MovedBy(r, a)) <= 1
    <3>. HIDE DEF MovedBy
    <3>1. IsFiniteSet({req.symbol}) /\ Cardinality({req.symbol}) = 1 BY FS_Singleton
    <3>. QED BY <2>6, <3>1, FS_Subset
  <2>8. Cardinality(FilledBy(r)) = 1 BY <2>5, FS_Singleton
  <2>9. \A k \in DOMAIN r.ord : r.ord[k] = "filled" BY <2>2
  <2>10. Pays(r, a) BY <2>5, <2>7, <2>8, <2>9 DEF Pays
  <2>11. KeepsRows(r, a)
    <3>1. CASE row = None /\ new # None
      <4>1. Opens(w, r) BY <1>2, <2>4, <3>1 DEF Opens, row
      <4>2. nextPid' = nextPid + 1 BY <1>5, <4>1 DEF r
      <4>3. \A sym \in Symbols : r.pos[sym] # None =>
               IF sym = req.symbol THEN r.pos[sym].id = nextPid ELSE KeepsRow(r, a, sym)
        BY <1>1, <2>3, <2>4, <3>1 DEF KeepsRow
      <4>. QED BY <1>2, <4>2, <4>3 DEF KeepsRows
    <3>2. CASE ~(row = None /\ new # None)
      <4>1. \A sym \in Symbols : r.pos[sym] # None => w.pos[sym] # None BY <2>4, <3>2 DEF row
      <4>2. \A sym \in Symbols : r.pos[sym] # None => KeepsRow(r, a, sym)
        BY <1>1, <1>4, <4>1 DEF Result, KeepsRow, r
      <4>. QED BY <4>2 DEF KeepsRows
    <3>. QED BY <3>1, <3>2
  <2>. QED BY <2>10, <2>11 DEF r, w
<1>. QED BY <1>6, <1>7

(* Every commit publishes workspaces of accounts it holds, that pay.       *)
Publishes(s) ==
    \E w : /\ Committable(s, w) /\ Commit(s, w) /\ nextPid' \in {nextPid, nextPid + 1}
           /\ \A a \in Accounts : w[a] # None => Pays(w[a], a) /\ KeepsRows(w[a], a)

LEMMA PlacePublishes ==
    ASSUME Inv, Carried, NEW s \in Sessions, PlaceReject(s) \/ PlaceAccept(s) \/ PlaceFill(s)
    PROVE  Publishes(s)
<1>. DEFINE acct == job[s].acct
            key  == job[s].key
            Final(r) == [work[s] EXCEPT ![acct] = r]
<1>1. pc[s] = "fill" BY DEF PlaceReject, PlaceAccept, PlaceFill
<1>2. /\ acct \in Accounts /\ key \in OrderKeys /\ job[s].req \in OrderBodies
      /\ order[acct][key] = None /\ Sound(work[s][acct], acct)
      /\ \A r : Sound(r, acct) => Committable(s, Final(r))
  BY <1>1, AtFill
<1>3. DOMAIN work[s] = Accounts /\ lock[acct] = s BY <1>1 DEF Inv, TypeOK, FillInv
<1>4. work[s][acct] = Loaded(acct) /\ \A a \in Accounts : a # acct => work[s][a] = None
  BY <1>1, <1>2, <1>3 DEF Inv, LockInv, Carried, Carries
<1>5. ASSUME NEW r, Commit(s, Final(r)), Sound(r, acct), nextPid' \in {nextPid, nextPid + 1},
             Pays(r, acct), KeepsRows(r, acct)
      PROVE  Publishes(s)
  <2>1. \A a \in Accounts : Final(r)[a] # None => a = acct /\ Final(r)[a] = r BY <1>2, <1>3, <1>4
  <2>2. Committable(s, Final(r)) BY <1>2, <1>5
  <2>. HIDE DEF Final
  <2>. QED BY <1>5, <2>1, <2>2 DEF Publishes
<1>6. CASE PlaceReject(s) \/ PlaceAccept(s)
  <2>1. PICK status \in {"rejected", "accepted"} :
           /\ Commit(s, [work[s] EXCEPT ![acct] = WithStatus(@, key, status)])
           /\ nextPid' = nextPid
    BY <1>6 DEF PlaceReject, PlaceAccept
  <2>2. [work[s] EXCEPT ![acct] = WithStatus(@, key, status)] = Final(WithStatus(Loaded(acct), key, status))
    BY <1>2, <1>3, <1>4
  <2>3. Commit(s, Final(WithStatus(Loaded(acct), key, status))) BY <2>1, <2>2
  <2>4. Sound(WithStatus(Loaded(acct), key, status), acct)
    BY <1>2, <1>4, WithStatusSound DEF Statuses
  <2>. HIDE DEF Final
  <2>. QED BY <1>2, <1>5, <2>1, <2>3, <2>4, StatusPays
<1>7. CASE PlaceFill(s)
  <2>1. PICK quote \in Quotes :
           LET w    == work[s][acct]
               done == fill_market(w, key, job[s].req, quote, nextPid, w.pos)
           IN  /\ Usable(quote)
               /\ Opens(w, done) => nextPid \in PosIds
               /\ nextPid' = IF Opens(w, done) THEN nextPid + 1 ELSE nextPid
               /\ Commit(s, Final(done))
    BY <1>7 DEF PlaceFill
  <2>. DEFINE done == fill_market(Loaded(acct), key, job[s].req, quote, nextPid, Loaded(acct).pos)
  <2>. HIDE DEF Final
  <2>2. /\ Usable(quote)
        /\ Opens(Loaded(acct), done) => nextPid \in PosIds
        /\ nextPid' = IF Opens(Loaded(acct), done) THEN nextPid + 1 ELSE nextPid
        /\ Commit(s, Final(done))
    BY <1>4, <2>1
  <2>3. quote \in QuoteRows BY <2>2, BrokerAssumption DEF Usable
  <2>4. Sound(Loaded(acct), acct) BY <1>2, <1>4
  <2>5. Sound(done, acct) BY <1>2, <2>2, <2>3, <2>4, FillSound
  <2>6. Pays(done, acct) /\ KeepsRows(done, acct) BY <1>2, <2>2, <2>3, <2>4, FillPays
  <2>. HIDE DEF done
  <2>. QED BY <1>5, <2>2, <2>5, <2>6
<1>. QED BY <1>6, <1>7

LEMMA SettlePublishes ==
    ASSUME Inv, Carried, RowsDiffer, NEW s \in Sessions, SettleCommit(s)
    PROVE  Publishes(s)
<1>1. Commit(s, work[s]) /\ nextPid' = nextPid /\ pc[s] = "sweep" BY DEF SettleCommit
<1>2. ASSUME NEW a \in Accounts, work[s][a] # None
      PROVE  lock[a] = s /\ Sound(work[s][a], a) /\ Owed(work[s][a], a)
  BY <1>1, <1>2 DEF Inv, LockInv, Carried, Carries
<1>3. Committable(s, work[s]) BY <1>2 DEF Committable
<1>4. \A a \in Accounts : work[s][a] # None => Pays(work[s][a], a) /\ KeepsRows(work[s][a], a)
  BY <1>2, OwedPays
<1>. QED BY <1>1, <1>3, <1>4 DEF Publishes

(* To the tables, a step is a commit, a new account, a cancel, or nothing. *)
Silent == account' = account /\ position' = position /\ order' = order /\ nextPid' = nextPid

LEMMA StepKinds ==
    ASSUME Inv, Carried, RowsDiffer, [Next]_vars
    PROVE  Silent \/ \E s \in Sessions : Publishes(s) \/ CreateInsert(s) \/ CancelWrite(s)
<1>1. ASSUME NEW s \in Sessions, ClientStart(s) \/ MonitorStart(s) \/ EarlyReturn(s) \/ Crash(s)
      PROVE  Silent
  BY <1>1 DEF ClientStart, MonitorStart, CreateCheck, PlaceCheck, CancelRead, SettleScan, EarlyReturn, Crash,
              Rollback, dbVars, vars, Silent
<1>2. ASSUME NEW s \in Sessions, Proceed(s) PROVE Silent \/ Publishes(s) \/ CreateInsert(s) \/ CancelWrite(s)
  <2>1. CASE PlaceReject(s) \/ PlaceAccept(s) \/ PlaceFill(s) BY <2>1, PlacePublishes
  <2>2. CASE SettleCommit(s) BY <2>2, SettlePublishes
  <2>3. CASE \/ CreateDuplicate(s) \/ PlaceNoAccount(s) \/ PlaceLock(s) \/ PlaceDuplicate(s) \/ PlaceFillFails(s)
             \/ SettleLock(s) \/ SettlePosition(s) \/ SettleRowGone(s) \/ Return500(s)
    BY <2>3 DEF CreateDuplicate, PlaceNoAccount, PlaceLock, PlaceDuplicate, PlaceFillFails, SettleLock,
                SettlePosition, SettleRowGone, Return500, Rollback, dbVars, Silent
  <2>. QED BY <1>2, <2>1, <2>2, <2>3 DEF Proceed
<1>3. CASE UNCHANGED vars BY <1>3 DEF vars, dbVars, Silent
<1>. QED BY <1>1, <1>2, <1>3 DEF Next, Sessions

LEMMA NextRowsDiffer == Inv /\ Carried /\ RowsDiffer /\ [Next]_vars => RowsDiffer'
<1>. SUFFICES ASSUME Inv, Carried, RowsDiffer, [Next]_vars PROVE RowsDiffer'
  OBVIOUS
<1>0. /\ nextPid \in Nat
      /\ \A a \in Accounts, sym \in Symbols : position[a][sym] # None => position[a][sym].id \in Nat
  BY BrokerAssumption DEF Inv, TypeOK, PosRows, PosIds
<1>1. CASE \/ Silent
           \/ \E s \in Sessions : CreateInsert(s) \/ CancelWrite(s)
  <2>1. position' = position /\ nextPid' = nextPid BY <1>1 DEF Silent, CreateInsert, CancelWrite
  <2>. QED BY <2>1 DEF RowsDiffer
<1>2. ASSUME NEW s \in Sessions, Publishes(s) PROVE RowsDiffer'
  <2>1. PICK w : /\ Commit(s, w) /\ nextPid' \in {nextPid, nextPid + 1}
                 /\ \A a \in Accounts : w[a] # None => KeepsRows(w[a], a)
    BY <1>2 DEF Publishes
  <2>. SUFFICES ASSUME NEW a \in Accounts
                PROVE  \A sym \in Symbols : position'[a][sym] # None =>
                         /\ position'[a][sym].id < nextPid'
                         /\ \A other \in Symbols :
                               position'[a][other] # None /\ position'[a][other].id = position'[a][sym].id
                                 => other = sym
    BY DEF RowsDiffer
  <2>2. position'[a] = IF w[a] = None THEN position[a] ELSE w[a].pos BY <2>1 DEF Commit
  <2>3. CASE w[a] = None BY <1>0, <2>1, <2>2, <2>3 DEF RowsDiffer
  <2>4. CASE w[a] # None /\ \A sym \in Symbols : w[a].pos[sym] # None => KeepsRow(w[a], a, sym)
    BY <1>0, <2>1, <2>2, <2>4 DEF RowsDiffer, KeepsRow
  <2>5. ASSUME w[a] # None, nextPid' = nextPid + 1, NEW new \in Symbols,
               \A sym \in Symbols : w[a].pos[sym] # None =>
                  IF sym = new THEN w[a].pos[sym].id = nextPid ELSE KeepsRow(w[a], a, sym)
        PROVE  \A sym \in Symbols : position'[a][sym] # None =>
                 /\ position'[a][sym].id < nextPid'
                 /\ \A other \in Symbols :
                       position'[a][other] # None /\ position'[a][other].id = position'[a][sym].id
                         => other = sym
    BY <1>0, <2>2, <2>5 DEF RowsDiffer, KeepsRow
  <2>. QED BY <2>1, <2>3, <2>4, <2>5 DEF KeepsRows
<1>. QED BY <1>1, <1>2, StepKinds

(* What the ledger sees of an account.                                     *)
Cash(a)    == IF Exists(a) THEN account[a].cash ELSE None
Held(a, sym) == HeldQty(position[a][sym])

(* A commit that pays is a decision of the ledger.                         *)
LEMMA CommitDecides ==
    ASSUME Inv, NEW s \in Sessions, Publishes(s)
    PROVE  Ledger!Decide
<1>. TypeOK BY DEF Inv
<1>1. PICK w : /\ Committable(s, w) /\ Commit(s, w)
               /\ \A a \in Accounts : w[a] # None => Pays(w[a], a)
  BY DEF Publishes
<1>2. /\ DOMAIN account' = DOMAIN account
      /\ \A a \in DOMAIN account : account'[a] = IF w[a] = None THEN account[a]
                                                 ELSE [cash |-> w[a].cash, bp |-> w[a].bp]
      /\ \A a \in Accounts : position'[a] = IF w[a] = None THEN position[a] ELSE w[a].pos
      /\ DOMAIN order' = Accounts
      /\ \A a \in Accounts, k \in OrderKeys :
            order'[a][k] = IF w[a] # None /\ k \in DOMAIN w[a].ord THEN w[a].ord[k] ELSE order[a][k]
  BY <1>1 DEF Commit
<1>3. ASSUME NEW a \in Accounts, w[a] # None
      PROVE  /\ Exists(a) /\ w[a].cash \in Int /\ DOMAIN w[a].ord \subseteq OrderKeys
             /\ \A k \in DOMAIN w[a].ord : order[a][k] = None
             /\ Pays(w[a], a)
  BY <1>1, <1>3 DEF Committable, Sound, WorkOK
<1>4. \A a \in Accounts : Exists(a) => account[a].cash \in Int /\ account[a].cash # None
  BY NoneAssumption DEF Exists, TypeOK
<1>5. None # "filled" BY BrokerAssumption DEF Statuses
<1>6. ASSUME NEW a \in Accounts
      PROVE  /\ \A k \in OrderKeys : order'[a][k] # order[a][k] =>
                  /\ Exists(a) /\ order[a][k] = None
                  /\ order'[a][k] \in {"filled", "rejected", "accepted"}
             /\ {k \in OrderKeys : order'[a][k] = "filled" /\ order[a][k] # "filled"} = {}
                  => (Exists(a) => account'[a].cash = account[a].cash)
             /\ Exists(a) => account'[a].cash \in Int
             /\ Cardinality({sym \in Symbols : HeldQty(position'[a][sym]) # HeldQty(position[a][sym])})
                  <= Cardinality({k \in OrderKeys : order'[a][k] = "filled" /\ order[a][k] # "filled"})
  <2>. DEFINE moved  == {sym \in Symbols : HeldQty(position'[a][sym]) # HeldQty(position[a][sym])}
              filled == {k \in OrderKeys : order'[a][k] = "filled" /\ order[a][k] # "filled"}
  <2>1. CASE w[a] = None
    <3>1. moved = {} /\ filled = {} BY <1>2, <2>1
    <3>2. Cardinality(moved) <= Cardinality(filled)
      <4>. HIDE DEF moved, filled
      <4>. QED BY <3>1, FS_EmptySet
    <3>. QED BY <1>2, <1>4, <2>1, <3>2 DEF Exists
  <2>2. CASE w[a] # None
    <3>1. moved = MovedBy(w[a], a) BY <1>2, <2>2 DEF MovedBy
    <3>2. filled = FilledBy(w[a]) BY <1>2, <1>3, <1>5, <2>2 DEF FilledBy
    <3>3. Cardinality(moved) <= Cardinality(filled) BY <1>3, <2>2, <3>1, <3>2 DEF Pays
    <3>4. account'[a].cash = w[a].cash BY <1>2, <1>3, <2>2 DEF Exists
    <3>5. filled = {} => account'[a].cash = account[a].cash BY <1>3, <2>2, <3>2, <3>4 DEF Pays
    <3>6. \A k \in OrderKeys : order'[a][k] # order[a][k] =>
            Exists(a) /\ order[a][k] = None /\ order'[a][k] \in {"filled", "rejected", "accepted"}
      BY <1>2, <1>3, <2>2 DEF Pays
    <3>. QED BY <1>3, <2>2, <3>3, <3>4, <3>5, <3>6
  <2>. QED BY <2>1, <2>2
<1>7. ASSUME NEW a \in Accounts
      PROVE  /\ \A k \in OrderKeys : order'[a][k] # order[a][k] =>
                  /\ Cash(a) # None /\ order[a][k] = None
                  /\ order'[a][k] \in {"filled", "rejected", "accepted"}
             /\ {k \in OrderKeys : order'[a][k] = "filled" /\ order[a][k] # "filled"} = {} => Cash(a)' = Cash(a)
             /\ Cash(a) = None <=> Cash(a)' = None
  BY <1>2, <1>4, <1>6, NoneAssumption DEF Cash, Exists
<1>8. ASSUME NEW a \in Accounts
      PROVE  /\ Ledger!Filled(a) = {k \in OrderKeys : order'[a][k] = "filled" /\ order[a][k] # "filled"}
             /\ Ledger!Moved(a) = {sym \in Symbols : HeldQty(position'[a][sym]) # HeldQty(position[a][sym])}
  BY DEF Ledger!Filled, Ledger!Moved
<1>9. \A a \in Accounts :
         /\ \A k \in OrderKeys : order'[a][k] # order[a][k] =>
              Cash(a) # None /\ order[a][k] = None /\ order'[a][k] \in {"filled", "rejected", "accepted"}
         /\ Ledger!Filled(a) = {} => Cash(a)' = Cash(a)
         /\ Cash(a) = None <=> Cash(a)' = None
         /\ Cardinality(Ledger!Moved(a)) <= Cardinality(Ledger!Filled(a))
  BY <1>6, <1>7, <1>8
<1>10. \A S : Ledger!Cardinality(S) = Cardinality(S)
  BY DEF Ledger!Cardinality, Cardinality
<1>. QED BY <1>2, <1>9, <1>10 DEF Ledger!Decide, Cash

(* The first of two concurrent inserts opens the account.                  *)
LEMMA CreateOpens ==
    ASSUME Inv, NEW s \in Sessions, CreateInsert(s)
    PROVE  Ledger!Open
<1>1. PICK new \in Accounts :
         /\ ~Exists(new)
         /\ account' = [a \in DOMAIN account \cup {new} |->
                          IF a = new THEN [cash |-> StartingCash, bp |-> StartingCash] ELSE account[a]]
         /\ position' = position /\ order' = order
  BY DEF CreateInsert, Inv, TypeOK, JobOK
<1>2. /\ Cash(new) = None /\ Cash(new)' = StartingCash
      /\ \A a \in Accounts : a # new => Cash(a)' = Cash(a)
  BY <1>1 DEF Cash, Exists
<1>3. [a \in Accounts |-> Cash(a)'] = [[a \in Accounts |-> Cash(a)] EXCEPT ![new] = StartingCash]
  BY <1>1, <1>2
<1>. QED BY <1>1, <1>2, <1>3 DEF Ledger!Open, Cash

(* A cancel closes an open order; a second one changes nothing.            *)
LEMMA CancelCancels ==
    ASSUME Inv, NEW s \in Sessions, CancelWrite(s)
    PROVE  Ledger!Cancel \/ UNCHANGED <<account, position, order>>
<1>1. /\ pc[s] = "cancel" /\ order' = [order EXCEPT ![job[s].acct][job[s].key] = "canceled"]
      /\ account' = account /\ position' = position
  BY DEF CancelWrite
<1>2. /\ job[s].acct \in Accounts /\ job[s].key \in OrderKeys
      /\ order \in [Accounts -> [OrderKeys -> Statuses \cup {None}]]
      /\ order[job[s].acct][job[s].key] \in {"accepted", "canceled"}
  BY <1>1 DEF Inv, TypeOK, JobOK, CancelInv, OrderKeys
<1>3. CASE order[job[s].acct][job[s].key] = "accepted"
  BY <1>1, <1>2, <1>3 DEF Ledger!Cancel, Exists
<1>4. CASE order[job[s].acct][job[s].key] = "canceled"
  BY <1>1, <1>2, <1>4
<1>. QED BY <1>2, <1>3, <1>4

LEMMA LedgerStutters ==
    ASSUME UNCHANGED <<account, position, order>>
    PROVE  UNCHANGED Ledger!ledgerVars
  BY DEF Ledger!ledgerVars, Exists

LEMMA LedgerStep ==
    ASSUME Inv, Carried, RowsDiffer, [Next]_vars
    PROVE  [Ledger!LedgerNext]_(Ledger!ledgerVars)
<1>1. CASE Silent
  <2>1. UNCHANGED <<account, position, order>> BY <1>1 DEF Silent
  <2>. QED BY <2>1, LedgerStutters
<1>2. ASSUME NEW s \in Sessions, Publishes(s) \/ CreateInsert(s) \/ CancelWrite(s)
      PROVE  [Ledger!LedgerNext]_(Ledger!ledgerVars)
  <2>1. CASE Publishes(s) BY <2>1, CommitDecides DEF Ledger!LedgerNext
  <2>2. CASE CreateInsert(s) BY <2>2, CreateOpens DEF Ledger!LedgerNext
  <2>3. CASE CancelWrite(s) BY <2>3, CancelCancels, LedgerStutters DEF Ledger!LedgerNext
  <2>. QED BY <1>2, <2>1, <2>2, <2>3
<1>. QED BY <1>1, <1>2, StepKinds

LEMMA LedgerStart == Init => Ledger!LedgerInit
  BY DEF Init, Ledger!LedgerInit, Exists, HeldQty

LEMMA LedgerInvariant == Spec => [](Carried /\ RowsDiffer)
<1>1. Init => Carried /\ RowsDiffer BY InitCarried, InitRowsDiffer
<1>2. Inv /\ (Carried /\ RowsDiffer) /\ [Next]_vars => (Carried /\ RowsDiffer)'
  BY NextCarried, NextRowsDiffer
<1>. QED BY <1>1, <1>2, BrokerInvariant, PTL DEF Spec

(* Whatever sessions, locks, sweeps, retries and crashes do, the broker is *)
(* an OrderLedger to its callers: place_order, cancel_order, settle_exits  *)
(* and the creation of accounts implement it.                              *)
THEOREM BrokerImplementsLedger == Spec => ImplementsLedger
<1>1. Inv /\ Carried /\ RowsDiffer /\ [Next]_vars => [Ledger!LedgerNext]_(Ledger!ledgerVars)
  BY LedgerStep
<1>2. Spec => []Carried /\ []RowsDiffer BY LedgerInvariant, PTL
<1>. QED BY <1>1, <1>2, LedgerStart, BrokerInvariant, PTL DEF Spec, ImplementsLedger, Ledger!LedgerSpec
-----------------------------------------------------------------------------
(* One fill of a reduce_only order against the rows it was loaded with.    *)
Shrinks(before, after) == before * after >= 0 /\ Abs(after) <= Abs(before)

LEMMA SameShrinks == \A x \in Int : Shrinks(x, x)
  BY DEF Shrinks, Abs

LEMMA FillShrinks ==
    ASSUME NEW ids \in SUBSET Nat, NEW pid, NEW key, NEW quote \in QuoteRows, NEW req \in OrderBodies,
           NEW w, NEW seen, NEW sym \in Symbols, w.cash \in Int,
           w = [cash |-> w.cash, bp |-> w.bp, pos |-> w.pos, ord |-> w.ord, delta |-> w.delta],
           w.pos \in [Symbols -> PosRows(ids) \cup {None}], req.reduce_only
    PROVE  Shrinks(HeldQty(w.pos[sym]), HeldQty(fill_market(w, key, req, quote, pid, seen).pos[sym]))
<1>. DEFINE r   == fill_market(w, key, req, quote, pid, seen)
            fq  == Price(req, quote)
            row == w.pos[req.symbol]
            opening == IsOpening(req.side, HeldQty(row))
            out == apply_fill(w.cash, HeldQty(row), HeldAvg(row), req.side, fq.qty, fq.price, fq.fees)
            after == RowAfter(row, pid, opening, out, fq.price, Levels(req))
<1>1. /\ req.symbol \in Symbols /\ req.side \in Sides
      /\ req.qty \in Amounts \cup {None} /\ req.notional \in Amounts \cup {None}
      /\ req.qty = None <=> req.notional # None
  BY DEF OrderBodies
<1>2. fq.qty \in Nat /\ fq.price \in Amounts /\ fq.fees \in Int
  BY <1>1, ComputeFillTypes DEF Price
<1>3. \A s \in Symbols : HeldQty(w.pos[s]) \in Int /\ HeldAvg(w.pos[s]) \in Int
  BY DEF HeldQty, HeldAvg, PosRows
<1>4. CASE Refused(w, req, row, fq)
  <2>1. r = WithStatus(w, key, "rejected") BY <1>4 DEF fill_market
  <2>2. r.pos = w.pos BY <2>1 DEF WithStatus
  <2>. QED BY <1>3, <2>2, SameShrinks
<1>5. CASE ~Refused(w, req, row, fq)
  <2>1. ~opening /\ HeldQty(row) # 0 BY <1>5 DEF Refused
  <2>2. r.pos = [w.pos EXCEPT ![req.symbol] = after] BY <1>5 DEF fill_market, Executed
  <2>3. CASE sym # req.symbol
    <3>1. r.pos[sym] = w.pos[sym] BY <2>2, <2>3
    <3>. QED BY <1>3, <3>1, SameShrinks
  <2>4. CASE sym = req.symbol
    <3>1. r.pos[sym] = after BY <1>1, <2>2, <2>4
    <3>2. fq.price \in Int BY <1>2 DEF Amounts
    <3>. HIDE DEF fq, r
    <3>3. /\ out.qty \in Int /\ out.avg \in Int
          /\ HeldQty(row) > 0 => out.qty >= 0
          /\ HeldQty(row) < 0 => out.qty <= 0
          /\ Abs(out.qty) <= Abs(HeldQty(row))
      BY <1>1, <1>2, <1>3, <2>1, <3>2, ApplyFillTypes, ApplyFillNeverFlips
    <3>4. HeldQty(row) \in Int /\ row # None BY <1>1, <1>3, <2>1 DEF HeldQty
    <3>. HIDE DEF out
    <3>5. HeldQty(after) = out.qty
      <4>1. CASE out.qty = 0 BY <4>1 DEF RowAfter, HeldQty
      <4>2. CASE out.qty # 0
        <5>1. after = [row EXCEPT !.qty = out.qty, !.avg = out.avg] BY <2>1, <4>2 DEF RowAfter
        <5>2. row \in PosRows(ids) BY <1>1, <3>4
        <5>3. after \in PosRows(Nat) /\ after.qty = out.qty BY <3>3, <4>2, <5>1, <5>2 DEF PosRows
        <5>. QED BY <5>3, RowAssumption DEF HeldQty
      <4>. QED BY <4>1, <4>2
    <3>. HIDE DEF after, row
    <3>6. HeldQty(row) * out.qty >= 0 BY <3>3, <3>4
    <3>. QED BY <2>4, <3>1, <3>3, <3>5, <3>6 DEF Shrinks, row, r
  <2>. QED BY <2>3, <2>4
<1>. QED BY <1>4, <1>5

(* How a handler about to fill can become idle.                            *)
LEMMA FillerEnds ==
    ASSUME Inv, [Next]_vars, NEW s \in Sessions, pc[s] = "fill", pc'[s] = "idle"
    PROVE  PlaceReject(s) \/ PlaceAccept(s) \/ PlaceFill(s) \/ position' = position
<1>. TypeOK BY DEF Inv
<1>0. DOMAIN pc = Sessions BY DEF TypeOK
<1>1. ASSUME NEW x \in Sessions, ClientStart(x) \/ MonitorStart(x) \/ EarlyReturn(x) \/ Crash(x)
      PROVE  position' = position
  BY <1>1 DEF ClientStart, MonitorStart, CreateCheck, PlaceCheck, CancelRead, SettleScan, EarlyReturn, Crash,
              Rollback, dbVars, vars
<1>2. ASSUME NEW x \in Sessions, Proceed(x), x # s
      PROVE  pc'[s] = pc[s]
  BY <1>0, <1>2 DEF Proceed, CreateInsert, CreateDuplicate, PlaceNoAccount, PlaceLock, PlaceDuplicate, PlaceReject,
        PlaceAccept, PlaceFill, PlaceFillFails, CancelWrite, SettleLock, SettlePosition, SettleRowGone,
        SettleCommit, Return500, Rollback, Commit, EndTransaction
<1>3. CASE Proceed(s)
  BY <1>3 DEF Proceed, CreateInsert, CreateDuplicate, PlaceNoAccount, PlaceLock, PlaceDuplicate, PlaceFillFails,
        CancelWrite, SettleLock, SettlePosition, SettleRowGone, SettleCommit, Return500, Errors, Rollback, dbVars
<1>4. CASE UNCHANGED vars BY <1>4 DEF vars, dbVars
<1>. QED BY <1>1, <1>2, <1>3, <1>4 DEF Next, Sessions

(* The step that ends a reduce_only order shrinks what it touches.         *)
LEMMA ReduceOnlyStep ==
    ASSUME Inv, Carried, [Next]_vars, NEW s \in Clients, pc[s] = "fill", pc'[s] = "idle",
           job[s].req.reduce_only, NEW sym \in Symbols
    PROVE  Shrinks(Exposure(position[job[s].acct], sym), Exposure(position'[job[s].acct], sym))
<1>. s \in Sessions BY DEF Sessions
<1>. DEFINE acct == job[s].acct
            key  == job[s].key
            w    == work[s][acct]
<1>1. acct \in Accounts /\ job[s].req \in OrderBodies /\ Sound(w, acct) BY AtFill
<1>2. w.pos = position[acct]
  <2>1. lock[acct] = s BY DEF Inv, FillInv
  <2>2. w = Loaded(acct) BY <1>1, <2>1 DEF Carried, Carries
  <2>. QED BY <2>2 DEF Loaded
<1>3. /\ w = [cash |-> w.cash, bp |-> w.bp, pos |-> w.pos, ord |-> w.ord, delta |-> w.delta]
      /\ w.cash \in Int /\ w.pos \in [Symbols -> PosRows(PosIds) \cup {None}]
  BY <1>1 DEF Sound, WorkOK
<1>4. HeldQty(w.pos[sym]) \in Int BY <1>3 DEF HeldQty, PosRows
<1>5. DOMAIN work[s] = Accounts BY DEF Inv, TypeOK
<1>6. ASSUME NEW done, Commit(s, [work[s] EXCEPT ![acct] = done])
      PROVE  position'[acct] = done.pos \/ position'[acct] = position[acct]
  BY <1>1, <1>5, <1>6 DEF Commit
<1>7. CASE position' = position BY <1>2, <1>4, <1>7, SameShrinks DEF Exposure
<1>8. CASE PlaceReject(s) \/ PlaceAccept(s)
  <2>1. PICK status : Commit(s, [work[s] EXCEPT ![acct] = WithStatus(@, key, status)])
    BY <1>8 DEF PlaceReject, PlaceAccept
  <2>. DEFINE done == WithStatus(w, key, status)
  <2>2. [work[s] EXCEPT ![acct] = WithStatus(@, key, status)] = [work[s] EXCEPT ![acct] = done]
    BY <1>1, <1>5
  <2>3. done.pos = w.pos BY <1>3 DEF WithStatus
  <2>4. Commit(s, [work[s] EXCEPT ![acct] = done]) BY <2>1, <2>2
  <2>. HIDE DEF done
  <2>5. position'[acct] = done.pos \/ position'[acct] = position[acct] BY <1>6, <2>4
  <2>. QED BY <1>2, <1>4, <2>3, <2>5, SameShrinks DEF Exposure
<1>9. CASE PlaceFill(s)
  <2>1. PICK quote \in Quotes :
           /\ Usable(quote)
           /\ Commit(s, [work[s] EXCEPT ![acct] = fill_market(w, key, job[s].req, quote, nextPid, w.pos)])
    BY <1>9 DEF PlaceFill
  <2>. DEFINE done == fill_market(w, key, job[s].req, quote, nextPid, w.pos)
  <2>2. quote \in QuoteRows BY <2>1, BrokerAssumption DEF Usable
  <2>3. Shrinks(HeldQty(w.pos[sym]), HeldQty(done.pos[sym]))
    BY <1>1, <1>3, <2>2, FillShrinks, BrokerAssumption DEF PosIds
  <2>. HIDE DEF done
  <2>4. Commit(s, [work[s] EXCEPT ![acct] = done]) BY <2>1 DEF done
  <2>5. position'[acct] = done.pos \/ position'[acct] = position[acct] BY <1>6, <2>4
  <2>. QED BY <1>2, <1>4, <2>3, <2>5, SameShrinks DEF Exposure
<1>. QED BY <1>7, <1>8, <1>9, FillerEnds

(* A reduce_only order, decided on a snapshot that may be stale by the     *)
(* time it executes (the manager's close, the monitor's neighbour), never  *)
(* opens, grows or flips a position: place_order with _fill_market.        *)
THEOREM ReduceOnlyNeverGrows == Spec => ReduceOnlyReduces
<1>1. Inv /\ Carried /\ [Next]_vars =>
        [\A s \in Clients : pc[s] = "fill" /\ pc'[s] = "idle" /\ job[s].req.reduce_only =>
           \A sym \in Symbols :
              LET before == Exposure(position[job[s].acct], sym)
                  after  == Exposure(position'[job[s].acct], sym)
              IN  before * after >= 0 /\ Abs(after) <= Abs(before)]_vars
  BY ReduceOnlyStep DEF Shrinks
<1>2. Spec => []Carried BY LedgerInvariant, PTL
<1>. QED BY <1>1, <1>2, BrokerInvariant, PTL DEF Spec, ReduceOnlyReduces
=============================================================================
