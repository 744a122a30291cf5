-------------------------- MODULE SimBrokerProofs --------------------------
(***************************************************************************)
(* For any number of accounts, symbols, handlers, orders and crashes: the  *)
(* broker's type invariant, that no cash update is ever lost, that an      *)
(* order is executed at most once, that ended orders never change, and     *)
(* when the stored buying power is exact.                                  *)
(*                                                                         *)
(* The invariant is about the account lock.  What a session has loaded is  *)
(* worth something only while it holds the account's lock; under the lock  *)
(* the loaded cash, less what the session itself has filled, is what the   *)
(* committed Fill rows add up to, and the orders it is about to insert are *)
(* still absent.  LedgerBalanced alone is not inductive: it says nothing   *)
(* about the balance a commit is going to write.                           *)
(***************************************************************************)
EXTENDS SimBroker, FillMarketProofs, FiniteSetTheorems, WellFoundedInduction

(* What a session may rely on for an account it has locked.                *)
Sound(w, a) ==
    /\ WorkOK(w)
    /\ Exists(a)
    /\ w.cash - w.delta = booked[a]
    /\ \A k \in DOMAIN w.ord : order[a][k] = None

(* Only the holder of an account's lock has its rows loaded, and what it   *)
(* has loaded is sound.                                                    *)
LockInv ==
    \A s \in Sessions, a \in Accounts :
        /\ work[s][a] # None => lock[a] = s
        /\ lock[a] = s => pc[s] \in {"fill", "sweep"} /\ Sound(work[s][a], a)

(* A handler about to fill holds its account, and its order is new.        *)
FillInv == \A s \in Sessions : pc[s] = "fill" =>
               lock[job[s].acct] = s /\ order[job[s].acct][job[s].key] = None

(* A handler about to cancel saw an order that can only have been canceled *)
(* since.                                                                  *)
CancelInv == \A s \in Sessions : pc[s] = "cancel" =>
                 order[job[s].acct][job[s].key] \in {"accepted", "canceled"}

(* Positions belong to accounts that exist, and so does all that a sweep   *)
(* has to look at.                                                         *)
HasAccount == \A a \in Accounts, sym \in Symbols : position[a][sym] # None => Exists(a)
SweepInv   == \A s \in Sessions : pc[s] = "sweep" => \A e \in job[s].todo : Exists(e.acct)

Inv == /\ TypeOK /\ LockInv /\ FillInv /\ CancelInv /\ HasAccount /\ SweepInv
       /\ LedgerBalanced /\ FilledExactlyOnce

LEMMA NoneIsNoSession == \A s \in Sessions : s # None
  BY BrokerAssumption

(* The initial state.                                                      *)
LEMMA InitInv == Init => Inv
<1>. SUFFICES ASSUME Init PROVE Inv
  OBVIOUS
<1>. USE DEF Init
<1>1. TypeOK
  BY BrokerAssumption DEF TypeOK, NoWork, Places, JobOK
<1>2. LockInv BY NoneIsNoSession DEF LockInv, NoWork
<1>3. FillInv /\ CancelInv /\ HasAccount /\ SweepInv /\ LedgerBalanced
  BY DEF FillInv, CancelInv, HasAccount, SweepInv, LedgerBalanced
<1>4. FilledExactlyOnce BY BrokerAssumption DEF FilledExactlyOnce, Statuses
<1>. QED BY <1>1, <1>2, <1>3, <1>4 DEF Inv

(* A step that changes nothing changes nothing.                            *)
LEMMA StutterInv == Inv /\ UNCHANGED vars => Inv'
<1>. SUFFICES ASSUME Inv, UNCHANGED vars PROVE Inv'
  OBVIOUS
<1>1. /\ account' = account /\ position' = position /\ order' = order
      /\ fillRows' = fillRows /\ booked' = booked /\ nextPid' = nextPid
      /\ lock' = lock /\ pc' = pc /\ job' = job /\ work' = work /\ crashes' = crashes
  BY DEF vars, dbVars, sessVars
<1>2. TypeOK' BY <1>1 DEF Inv, TypeOK, JobOK, WorkOK
<1>3. LockInv' BY <1>1 DEF Inv, LockInv, Sound, WorkOK, Exists
<1>4. FillInv' /\ CancelInv' /\ HasAccount' /\ SweepInv'
  BY <1>1 DEF Inv, FillInv, CancelInv, HasAccount, SweepInv, Exists
<1>5. LedgerBalanced' /\ FilledExactlyOnce' BY <1>1 DEF Inv, LedgerBalanced, FilledExactlyOnce
<1>. QED BY <1>2, <1>3, <1>4, <1>5 DEF Inv

(* The end of a transaction, however it ends: s keeps nothing, the others  *)
(* keep everything.                                                        *)
Ended(s, where) ==
    /\ lock' \in [Accounts -> Sessions \cup {None}]
    /\ pc' \in [Sessions -> Places] /\ pc'[s] = where
    /\ DOMAIN job' = Sessions /\ DOMAIN work' = Sessions
    /\ \A a \in Accounts : lock'[a] # s
    /\ \A a \in Accounts, t \in Sessions : t # s => (lock'[a] = t <=> lock[a] = t)
    /\ \A t \in Sessions : t # s => pc'[t] = pc[t] /\ job'[t] = job[t] /\ work'[t] = work[t]
    /\ work'[s] = NoWork
    /\ \A t \in Sessions : JobOK(t)'
    /\ \A t \in Sessions : DOMAIN work'[t] = Accounts

LEMMA AfterEnd ==
    ASSUME TypeOK, NEW s \in Sessions, NEW where \in Errors \cup {"idle"}, EndTransaction(s, where)
    PROVE  Ended(s, where)
<1>1. /\ lock' = [a \in Accounts |-> IF lock[a] = s THEN None ELSE lock[a]]
      /\ work' = [work EXCEPT ![s] = NoWork]
      /\ job'  = [job EXCEPT ![s] = None]
      /\ pc'   = [pc EXCEPT ![s] = where]
  BY DEF EndTransaction
<1>2. /\ lock \in [Accounts -> Sessions \cup {None}] /\ pc \in [Sessions -> Places]
      /\ DOMAIN job = Sessions /\ DOMAIN work = Sessions
      /\ \A t \in Sessions : DOMAIN work[t] = Accounts
      /\ \A t \in Sessions : JobOK(t)
  BY DEF TypeOK
<1>3. where \in Places /\ where \notin {"create", "lock", "fill", "cancel", "sweep"}
  BY DEF Places, Errors
<1>4. /\ lock' \in [Accounts -> Sessions \cup {None}]
      /\ \A a \in Accounts : lock'[a] # s
      /\ \A a \in Accounts, t \in Sessions : t # s => (lock'[a] = t <=> lock[a] = t)
  BY <1>1, <1>2, NoneIsNoSession
<1>5. /\ pc' \in [Sessions -> Places] /\ pc'[s] = where
      /\ DOMAIN job' = Sessions /\ DOMAIN work' = Sessions
      /\ \A t \in Sessions : t # s => pc'[t] = pc[t] /\ job'[t] = job[t] /\ work'[t] = work[t]
      /\ work'[s] = NoWork
  BY <1>1, <1>2, <1>3
<1>6. \A t \in Sessions : DOMAIN work'[t] = Accounts
  BY <1>2, <1>5 DEF NoWork
<1>7. ASSUME NEW t \in Sessions PROVE JobOK(t)'
  <2>1. CASE t = s BY <2>1, <1>3, <1>5 DEF JobOK
  <2>2. CASE t # s
    <3>1. pc'[t] = pc[t] /\ job'[t] = job[t] BY <2>2, <1>5
    <3>. QED BY <3>1, <1>2 DEF JobOK
  <2>. QED BY <2>1, <2>2
<1>. QED BY <1>4, <1>5, <1>6, <1>7 DEF Ended

(* A session that gives up leaves the invariant intact.                    *)
LEMMA RollbackInv ==
    ASSUME Inv, NEW s \in Sessions, NEW where \in Errors \cup {"idle"},
           Rollback(s, where), crashes' \in 0 .. MaxCrashes
    PROVE  Inv'
<1>. EndTransaction(s, where) /\ UNCHANGED dbVars
  BY DEF Rollback
<1>1. /\ account' = account /\ position' = position /\ order' = order
      /\ fillRows' = fillRows /\ booked' = booked /\ nextPid' = nextPid
  BY DEF dbVars
<1>. TypeOK /\ LockInv /\ FillInv /\ CancelInv /\ HasAccount /\ SweepInv /\ LedgerBalanced /\ FilledExactlyOnce
  BY DEF Inv
<1>0. Ended(s, where) BY AfterEnd DEF Errors
<1>2. where \notin {"fill", "cancel", "sweep"} BY DEF Errors
<1>3. TypeOK'
  <2>1. ASSUME NEW t \in Sessions, NEW a \in Accounts, work'[t][a] # None
        PROVE  WorkOK(work'[t][a])
    <3>1. t # s BY <2>1, <1>0 DEF NoWork, Ended
    <3>2. work'[t] = work[t] BY <3>1, <1>0 DEF Ended
    <3>. QED BY <2>1, <3>2 DEF TypeOK
  <2>. QED BY <1>1, <2>1, <1>0 DEF TypeOK, WorkOK, Ended
<1>4. LockInv'
  <2>. SUFFICES ASSUME NEW t \in Sessions, NEW a \in Accounts
                PROVE  /\ work'[t][a] # None => lock'[a] = t
                       /\ lock'[a] = t => pc'[t] \in {"fill", "sweep"} /\ Sound(work[t][a], a)'
    BY DEF LockInv
  <2>1. CASE t = s BY <2>1, <1>0 DEF NoWork, Ended
  <2>2. CASE t # s
    <3>1. work'[t] = work[t] /\ pc'[t] = pc[t] /\ (lock'[a] = t <=> lock[a] = t)
      BY <2>2, <1>0 DEF Ended
    <3>2. Sound(work[t][a], a) => Sound(work[t][a], a)'
      BY <1>1, <3>1 DEF Sound, WorkOK, Exists
    <3>. QED BY <3>1, <3>2 DEF LockInv
  <2>. QED BY <2>1, <2>2
<1>5. FillInv' /\ CancelInv'
  <2>. SUFFICES ASSUME NEW t \in Sessions
                PROVE /\ pc'[t] = "fill" =>
                           lock'[job'[t].acct] = t /\ order'[job'[t].acct][job'[t].key] = None
                      /\ pc'[t] = "cancel" =>
                           order'[job'[t].acct][job'[t].key] \in {"accepted", "canceled"}
    BY DEF FillInv, CancelInv
  <2>1. CASE t = s BY <1>2, <2>1, <1>0 DEF Ended
  <2>2. CASE t # s
    <3>1. pc'[t] = pc[t] /\ job'[t] = job[t] BY <2>2, <1>0 DEF Ended
    <3>2. pc[t] = "fill" => job[t].acct \in Accounts BY DEF TypeOK, JobOK
    <3>3. \A a \in Accounts : lock'[a] = t <=> lock[a] = t BY <2>2, <1>0 DEF Ended
    <3>. QED BY <1>1, <3>1, <3>2, <3>3 DEF FillInv, CancelInv
  <2>. QED BY <2>1, <2>2
<1>6. HasAccount' /\ LedgerBalanced' /\ FilledExactlyOnce'
  BY <1>1 DEF HasAccount, Exists, LedgerBalanced, FilledExactlyOnce
<1>7. SweepInv'
  <2>. SUFFICES ASSUME NEW t \in Sessions, pc'[t] = "sweep"
                PROVE  \A e \in job'[t].todo : Exists(e.acct)'
    BY DEF SweepInv
  <2>1. t # s BY <1>0, <1>2 DEF Ended
  <2>2. pc'[t] = pc[t] /\ job'[t] = job[t] BY <2>1, <1>0 DEF Ended
  <2>. QED BY <1>1, <2>2 DEF SweepInv, Exists
<1>. QED BY <1>3, <1>4, <1>5, <1>6, <1>7 DEF Inv

(* A workspace that may be committed: what is in it was loaded or computed *)
(* under a lock s holds.                                                   *)
Committable(s, w) ==
    \A a \in Accounts : w[a] # None => lock[a] = s /\ Sound(w[a], a)

LEMMA CommitInv ==
    ASSUME Inv, NEW s \in Sessions, NEW w, Committable(s, w), Commit(s, w),
           nextPid' \in 1 .. MaxPid + 1, crashes' = crashes
    PROVE  Inv'
<1>. EndTransaction(s, "idle") BY DEF Commit
<1>. TypeOK /\ LockInv /\ FillInv /\ CancelInv /\ HasAccount /\ SweepInv /\ LedgerBalanced /\ FilledExactlyOnce
  BY DEF Inv
<1>0. Ended(s, "idle") BY AfterEnd DEF Errors
<1>1. /\ account'  = [a \in DOMAIN account |-> IF w[a] = None THEN account[a]
                                         ELSE [cash |-> w[a].cash, bp |-> w[a].bp]]
      /\ DOMAIN account' = DOMAIN account
      /\ position' = [a \in Accounts |-> IF w[a] = None THEN position[a] ELSE w[a].pos]
      /\ order'    = [a \in Accounts |-> [k \in OrderKeys |->
                        IF w[a] # None /\ k \in DOMAIN w[a].ord THEN w[a].ord[k] ELSE order[a][k]]]
      /\ fillRows' = [a \in Accounts |-> [k \in OrderKeys |->
                        IF w[a] # None /\ k \in DOMAIN w[a].ord /\ w[a].ord[k] = "filled"
                        THEN fillRows[a][k] + 1 ELSE fillRows[a][k]]]
      /\ booked'   = [a \in Accounts |-> IF w[a] = None THEN booked[a] ELSE booked[a] + w[a].delta]
  BY DEF Commit
<1>2. \A a \in Accounts : w[a] # None =>
         /\ lock[a] = s /\ WorkOK(w[a]) /\ Exists(a)
         /\ w[a].cash = booked[a] + w[a].delta
         /\ \A k \in DOMAIN w[a].ord : order[a][k] = None
  <2>. SUFFICES ASSUME NEW a \in Accounts, w[a] # None
                PROVE  /\ lock[a] = s /\ WorkOK(w[a]) /\ Exists(a)
                       /\ w[a].cash = booked[a] + w[a].delta
                       /\ \A k \in DOMAIN w[a].ord : order[a][k] = None
    OBVIOUS
  <2>1. lock[a] = s /\ Sound(w[a], a) BY DEF Committable
  <2>2. w[a].cash \in Int /\ w[a].delta \in Int /\ booked[a] \in Int
    BY <2>1 DEF Sound, WorkOK, TypeOK
  <2>. QED BY <2>1, <2>2 DEF Sound
(* Accounts locked by others are not touched.                              *)
<1>3. \A t \in Sessions, a \in Accounts : t # s /\ lock[a] = t =>
         order'[a] = order[a] /\ booked'[a] = booked[a]
  <2>. SUFFICES ASSUME NEW t \in Sessions, NEW a \in Accounts, t # s, lock[a] = t
                PROVE  order'[a] = order[a] /\ booked'[a] = booked[a]
    OBVIOUS
  <2>1. w[a] = None BY <1>2
  <2>2. order[a] \in [OrderKeys -> Statuses \cup {None}] BY DEF TypeOK
  <2>. QED BY <1>1, <2>1, <2>2
(* An order that exists keeps its status.                                  *)
<1>4. \A a \in Accounts, k \in OrderKeys : order[a][k] # None => order'[a][k] = order[a][k]
  BY <1>1, <1>2
<1>5. TypeOK'
  <2>1. ASSUME NEW t \in Sessions, NEW a \in Accounts, work'[t][a] # None
        PROVE  WorkOK(work'[t][a])
    <3>1. t # s BY <2>1, <1>0 DEF NoWork, Ended
    <3>2. work'[t] = work[t] BY <3>1, <1>0 DEF Ended
    <3>. QED BY <2>1, <3>2 DEF TypeOK
  <2>2. position' \in [Accounts -> [Symbols -> PosRows(PosIds) \cup {None}]]
    <3>. SUFFICES ASSUME NEW a \in Accounts
                  PROVE  (IF w[a] = None THEN position[a] ELSE w[a].pos)
                            \in [Symbols -> PosRows(PosIds) \cup {None}]
      BY <1>1
    <3>1. CASE w[a] = None BY <3>1 DEF TypeOK
    <3>2. CASE w[a] # None BY <1>2, <3>2 DEF WorkOK
    <3>. QED BY <3>1, <3>2
  <2>3. order' \in [Accounts -> [OrderKeys -> Statuses \cup {None}]]
    <3>. SUFFICES ASSUME NEW a \in Accounts, NEW k \in OrderKeys
                  PROVE  (IF w[a] # None /\ k \in DOMAIN w[a].ord THEN w[a].ord[k] ELSE order[a][k])
                            \in Statuses \cup {None}
      BY <1>1
    <3>1. CASE w[a] # None /\ k \in DOMAIN w[a].ord BY <1>2, <3>1 DEF WorkOK
    <3>2. CASE ~(w[a] # None /\ k \in DOMAIN w[a].ord) BY <3>2 DEF TypeOK
    <3>. QED BY <3>1, <3>2
  <2>4. fillRows' \in [Accounts -> [OrderKeys -> Nat]]
    BY <1>1 DEF TypeOK
  <2>5. booked' \in [Accounts -> Int]
    BY <1>1, <1>2 DEF TypeOK, WorkOK
  <2>6. DOMAIN account' \subseteq Accounts /\ \A a \in DOMAIN account' : account'[a].cash \in Int
    BY <1>1, <1>2 DEF TypeOK, WorkOK
  <2>7. crashes' \in 0 .. MaxCrashes BY DEF TypeOK
  <2>8. \A t \in Sessions : /\ DOMAIN work'[t] = Accounts
                            /\ \A a \in Accounts : work'[t][a] # None => WorkOK(work[t][a])'
    BY <2>1, <1>0 DEF WorkOK, Ended
  <2>. QED BY <2>2, <2>3, <2>4, <2>5, <2>6, <2>7, <2>8, <1>0 DEF TypeOK, Ended
<1>6. LockInv'
  <2>. SUFFICES ASSUME NEW t \in Sessions, NEW a \in Accounts
                PROVE  /\ work'[t][a] # None => lock'[a] = t
                       /\ lock'[a] = t => pc'[t] \in {"fill", "sweep"} /\ Sound(work[t][a], a)'
    BY DEF LockInv
  <2>1. CASE t = s BY <2>1, <1>0 DEF NoWork, Ended
  <2>2. CASE t # s
    <3>1. work'[t] = work[t] /\ pc'[t] = pc[t] /\ (lock'[a] = t <=> lock[a] = t)
      BY <2>2, <1>0 DEF Ended
    <3>2. ASSUME lock[a] = t, Sound(work[t][a], a) PROVE Sound(work[t][a], a)'
      <4>1. order'[a] = order[a] /\ booked'[a] = booked[a] BY <1>3, <2>2, <3>2
      <4>2. WorkOK(work[t][a])' BY <3>1, <3>2 DEF Sound, WorkOK
      <4>. QED BY <1>1, <3>1, <3>2, <4>1, <4>2 DEF Sound, Exists
    <3>. QED BY <3>1, <3>2 DEF LockInv
  <2>. QED BY <2>1, <2>2
<1>7. FillInv' /\ CancelInv'
  <2>. SUFFICES ASSUME NEW t \in Sessions
                PROVE /\ pc'[t] = "fill" =>
                           lock'[job'[t].acct] = t /\ order'[job'[t].acct][job'[t].key] = None
                      /\ pc'[t] = "cancel" =>
                           order'[job'[t].acct][job'[t].key] \in {"accepted", "canceled"}
    BY DEF FillInv, CancelInv
  <2>1. CASE t = s BY <2>1, <1>0 DEF Errors, Ended
  <2>2. CASE t # s
    <3>1. pc'[t] = pc[t] /\ job'[t] = job[t] BY <2>2, <1>0 DEF Ended
    <3>2. /\ pc[t] = "fill" => job[t].acct \in Accounts /\ job[t].key \in OrderKeys
          /\ pc[t] = "cancel" => job[t].acct \in Accounts /\ job[t].key \in OrderKeys
      BY DEF TypeOK, JobOK, OrderKeys
    <3>3. \A a \in Accounts : lock'[a] = t <=> lock[a] = t BY <2>2, <1>0 DEF Ended
    <3>4. ASSUME pc[t] = "fill"
          PROVE lock'[job[t].acct] = t /\ order'[job[t].acct][job[t].key] = None
      BY <1>3, <2>2, <3>2, <3>3, <3>4 DEF FillInv
    <3>5. ASSUME pc[t] = "cancel"
          PROVE order'[job[t].acct][job[t].key] \in {"accepted", "canceled"}
      BY <1>4, <3>2, <3>5, BrokerAssumption DEF CancelInv, Statuses
    <3>. QED BY <3>1, <3>4, <3>5
  <2>. QED BY <2>1, <2>2
<1>10. HasAccount'
  <2>. SUFFICES ASSUME NEW a \in Accounts, NEW sym \in Symbols, position'[a][sym] # None
                PROVE  a \in DOMAIN account
    BY <1>1 DEF HasAccount, Exists
  <2>1. CASE w[a] = None BY <1>1, <2>1 DEF HasAccount, Exists
  <2>2. CASE w[a] # None BY <1>2, <2>2 DEF Exists
  <2>. QED BY <2>1, <2>2
<1>11. SweepInv'
  <2>. SUFFICES ASSUME NEW t \in Sessions, pc'[t] = "sweep"
                PROVE  \A e \in job'[t].todo : Exists(e.acct)'
    BY DEF SweepInv
  <2>1. t # s BY <1>0 DEF Ended
  <2>2. pc'[t] = pc[t] /\ job'[t] = job[t] BY <2>1, <1>0 DEF Ended
  <2>. QED BY <1>1, <2>2 DEF SweepInv, Exists
<1>8. LedgerBalanced'
  <2>. SUFFICES ASSUME NEW a \in DOMAIN account PROVE account'[a].cash = booked'[a]
    BY <1>1 DEF LedgerBalanced
  <2>1. a \in Accounts BY DEF TypeOK
  <2>2. CASE w[a] = None BY <1>1, <2>1, <2>2 DEF LedgerBalanced
  <2>3. CASE w[a] # None BY <1>1, <1>2, <2>1, <2>3
  <2>. QED BY <2>2, <2>3
<1>9. FilledExactlyOnce'
  <2>. SUFFICES ASSUME NEW a \in Accounts, NEW k \in OrderKeys
                PROVE  fillRows'[a][k] = IF order'[a][k] = "filled" THEN 1 ELSE 0
    BY DEF FilledExactlyOnce
  <2>1. fillRows[a][k] = IF order[a][k] = "filled" THEN 1 ELSE 0 BY DEF FilledExactlyOnce
  <2>2. CASE w[a] # None /\ k \in DOMAIN w[a].ord
    <3>1. fillRows[a][k] = 0 BY <1>2, <2>1, <2>2, BrokerAssumption DEF Statuses
    <3>. QED BY <1>1, <2>2, <3>1
  <2>3. CASE ~(w[a] # None /\ k \in DOMAIN w[a].ord)
    BY <1>1, <2>1, <2>3
  <2>. QED BY <2>2, <2>3
<1>. QED BY <1>5, <1>6, <1>7, <1>8, <1>9, <1>10, <1>11 DEF Inv

(* A handler that holds no lock takes a request or gives its answer: only  *)
(* its place and its job change.                                           *)
Entries == [acct : Accounts, sym : Symbols, pid : PosIds, qty : Int, avg : Int]

Given(where, j) ==
    /\ where \in {"idle", "create", "lock", "cancel", "sweep"}
    /\ where = "create" => j \in [acct : Accounts]
    /\ where = "lock"   => j \in [acct : Accounts, key : ClientIds, req : Requests]
    /\ where = "cancel" => /\ j \in [acct : Accounts, key : ClientIds]
                          /\ order[j.acct][j.key] = "accepted"
    /\ where = "sweep"  => /\ j \in [tick : Ticks, todo : SUBSET Entries]
                          /\ \A e \in j.todo : Exists(e.acct)

LEMMA StartInv ==
    ASSUME Inv, NEW s \in Sessions, NEW where, NEW j, Given(where, j),
           pc[s] \in Errors \cup {"idle"},
           pc' = [pc EXCEPT ![s] = where],
           DOMAIN job' = Sessions, job'[s] = j, \A t \in Sessions : t # s => job'[t] = job[t],
           UNCHANGED <<dbVars, lock, work, crashes>>
    PROVE  Inv'
<1>. TypeOK /\ LockInv /\ FillInv /\ CancelInv /\ HasAccount /\ SweepInv /\ LedgerBalanced /\ FilledExactlyOnce
  BY DEF Inv
<1>1. /\ account' = account /\ position' = position /\ order' = order
      /\ fillRows' = fillRows /\ booked' = booked /\ nextPid' = nextPid
      /\ lock' = lock /\ work' = work /\ crashes' = crashes
  BY DEF dbVars
<1>2. where \in Places BY DEF Given, Places
<1>3. pc' \in [Sessions -> Places] /\ pc'[s] = where /\ \A t \in Sessions : t # s => pc'[t] = pc[t]
  BY <1>2 DEF TypeOK
<1>4. \A a \in Accounts : lock[a] # s BY DEF LockInv, Errors
<1>5. TypeOK'
  <2>1. ASSUME NEW t \in Sessions PROVE JobOK(t)'
    <3>1. CASE t = s BY <1>3, <3>1 DEF Given, JobOK, Entries
    <3>2. CASE t # s
      <4>1. pc'[t] = pc[t] /\ job'[t] = job[t] BY <1>3, <3>2
      <4>. QED BY <4>1 DEF TypeOK, JobOK
    <3>. QED BY <3>1, <3>2
  <2>2. \A t \in Sessions : /\ DOMAIN work'[t] = Accounts
                            /\ \A a \in Accounts : work'[t][a] # None => WorkOK(work[t][a])'
    BY <1>1 DEF TypeOK, WorkOK
  <2>. QED BY <1>1, <1>3, <2>1, <2>2 DEF TypeOK
<1>6. LockInv'
  <2>. SUFFICES ASSUME NEW t \in Sessions, NEW a \in Accounts
                PROVE  /\ work'[t][a] # None => lock'[a] = t
                       /\ lock'[a] = t => pc'[t] \in {"fill", "sweep"} /\ Sound(work[t][a], a)'
    BY DEF LockInv
  <2>1. work'[t][a] # None => lock'[a] = t BY <1>1 DEF LockInv
  <2>2. ASSUME lock'[a] = t PROVE pc'[t] \in {"fill", "sweep"} /\ Sound(work[t][a], a)'
    <3>1. t # s /\ lock[a] = t BY <1>1, <1>4, <2>2
    <3>2. pc'[t] \in {"fill", "sweep"} BY <1>3, <3>1 DEF LockInv
    <3>3. Sound(work[t][a], a) BY <3>1 DEF LockInv
    <3>4. Sound(work[t][a], a)' BY <1>1, <3>3 DEF Sound, WorkOK, Exists
    <3>. QED BY <3>2, <3>4
  <2>. QED BY <2>1, <2>2
<1>7. FillInv' /\ CancelInv' /\ SweepInv'
  <2>. SUFFICES ASSUME NEW t \in Sessions
                PROVE /\ pc'[t] = "fill" =>
                           lock'[job'[t].acct] = t /\ order'[job'[t].acct][job'[t].key] = None
                      /\ pc'[t] = "cancel" =>
                           order'[job'[t].acct][job'[t].key] \in {"accepted", "canceled"}
                      /\ pc'[t] = "sweep" => \A e \in job'[t].todo : Exists(e.acct)'
    BY DEF FillInv, CancelInv, SweepInv
  <2>1. CASE t = s BY <1>1, <1>3, <2>1 DEF Given, Exists
  <2>2. CASE t # s
    <3>1. pc'[t] = pc[t] /\ job'[t] = job[t] BY <1>3, <2>2
    <3>. QED BY <1>1, <3>1 DEF FillInv, CancelInv, SweepInv, Exists
  <2>. QED BY <2>1, <2>2
<1>8. HasAccount' /\ LedgerBalanced' /\ FilledExactlyOnce'
  BY <1>1 DEF HasAccount, Exists, LedgerBalanced, FilledExactlyOnce
<1>. QED BY <1>5, <1>6, <1>7, <1>8 DEF Inv

(* Taking an account's lock: what is loaded under it is sound.             *)
LEMMA LockAndLoadInv ==
    ASSUME Inv, NEW s \in Sessions, NEW a \in Accounts, Exists(a), LockAndLoad(s, a),
           NEW where, pc' = [pc EXCEPT ![s] = where],
           \/ where = "sweep" /\ pc[s] = "sweep"
           \/ /\ where = "fill" /\ pc[s] = "lock"
              /\ job[s].acct = a /\ order[a][job[s].key] = None,
           UNCHANGED <<dbVars, job, crashes>>
    PROVE  Inv'
<1>. TypeOK /\ LockInv /\ FillInv /\ CancelInv /\ HasAccount /\ SweepInv /\ LedgerBalanced /\ FilledExactlyOnce
  BY DEF Inv
<1>1. /\ account' = account /\ position' = position /\ order' = order
      /\ fillRows' = fillRows /\ booked' = booked /\ nextPid' = nextPid
      /\ job' = job /\ crashes' = crashes
  BY DEF dbVars
<1>2. /\ lock[a] = None
      /\ lock' = [lock EXCEPT ![a] = s]
      /\ work' = [work EXCEPT ![s][a] = Loaded(a)]
  BY DEF LockAndLoad, LockFree
<1>3. /\ pc' \in [Sessions -> Places] /\ pc'[s] = where
      /\ \A t \in Sessions : t # s => pc'[t] = pc[t]
  BY DEF TypeOK, Places
<1>4. /\ lock' \in [Accounts -> Sessions \cup {None}]
      /\ lock'[a] = s /\ \A b \in Accounts : b # a => lock'[b] = lock[b]
  BY <1>2 DEF TypeOK
<1>5. /\ DOMAIN work' = Sessions /\ work'[s][a] = Loaded(a)
      /\ \A t \in Sessions : DOMAIN work'[t] = Accounts
      /\ \A t \in Sessions, b \in Accounts : t # s \/ b # a => work'[t][b] = work[t][b]
  BY <1>2 DEF TypeOK
<1>6. Sound(Loaded(a), a)
  <2>1. account[a].cash \in Int /\ account[a].cash = booked[a] /\ booked[a] \in Int
    BY DEF Exists, TypeOK, LedgerBalanced
  <2>2. position[a] \in [Symbols -> PosRows(PosIds) \cup {None}] BY DEF TypeOK
  <2>3. WorkOK(Loaded(a)) BY <2>1, <2>2 DEF WorkOK, Loaded
  <2>. QED BY <2>1, <2>3 DEF Sound, Loaded
<1>7. \A t \in Sessions, b \in Accounts : work'[t][b] # None => WorkOK(work'[t][b])
  BY <1>5, <1>6 DEF TypeOK, Sound
<1>8. TypeOK'
  <2>1. \A t \in Sessions : JobOK(t)' BY <1>1, <1>3 DEF TypeOK, JobOK
  <2>2. \A t \in Sessions, b \in Accounts : work'[t][b] # None => WorkOK(work[t][b])'
    BY <1>7 DEF WorkOK
  <2>. QED BY <1>1, <1>3, <1>4, <1>5, <2>1, <2>2 DEF TypeOK
<1>9. LockInv'
  <2>. SUFFICES ASSUME NEW t \in Sessions, NEW b \in Accounts
                PROVE  /\ work'[t][b] # None => lock'[b] = t
                       /\ lock'[b] = t => pc'[t] \in {"fill", "sweep"} /\ Sound(work[t][b], b)'
    BY DEF LockInv
  <2>1. CASE t = s /\ b = a
    <3>1. Sound(work'[t][b], b) BY <1>5, <1>6, <2>1
    <3>2. Sound(work[t][b], b)' BY <1>1, <3>1 DEF Sound, WorkOK, Exists
    <3>. QED BY <1>3, <1>4, <2>1, <3>2
  <2>2. CASE b = a /\ t # s
    <3>1. lock[b] # t BY <1>2, <2>2, NoneIsNoSession
    <3>. QED BY <1>4, <1>5, <2>2, <3>1 DEF LockInv
  <2>3. CASE b # a
    <3>1. work'[t][b] = work[t][b] /\ lock'[b] = lock[b] BY <1>4, <1>5, <2>3
    <3>2. lock[b] = t => pc'[t] \in {"fill", "sweep"} BY <1>3 DEF LockInv
    <3>3. Sound(work[t][b], b) => Sound(work[t][b], b)' BY <1>1, <3>1 DEF Sound, WorkOK, Exists
    <3>. QED BY <3>1, <3>2, <3>3 DEF LockInv
  <2>. QED BY <2>1, <2>2, <2>3
<1>10. FillInv' /\ CancelInv' /\ SweepInv'
  <2>. SUFFICES ASSUME NEW t \in Sessions
                PROVE /\ pc'[t] = "fill" =>
                           lock'[job[t].acct] = t /\ order[job[t].acct][job[t].key] = None
                      /\ pc'[t] = "cancel" =>
                           order[job[t].acct][job[t].key] \in {"accepted", "canceled"}
                      /\ pc'[t] = "sweep" => \A e \in job[t].todo : Exists(e.acct)
    BY <1>1 DEF FillInv, CancelInv, SweepInv, Exists
  <2>1. CASE t = s BY <1>3, <1>4, <2>1 DEF SweepInv
  <2>2. CASE t # s
    <3>1. pc'[t] = pc[t] BY <1>3, <2>2
    <3>2. pc[t] = "fill" => job[t].acct \in Accounts BY DEF TypeOK, JobOK
    <3>3. pc[t] = "fill" => job[t].acct # a BY <1>2, NoneIsNoSession DEF FillInv
    <3>. QED BY <1>4, <3>1, <3>2, <3>3 DEF FillInv, CancelInv, SweepInv
  <2>. QED BY <2>1, <2>2
<1>11. HasAccount' /\ LedgerBalanced' /\ FilledExactlyOnce'
  BY <1>1 DEF HasAccount, Exists, LedgerBalanced, FilledExactlyOnce
<1>. QED BY <1>8, <1>9, <1>10, <1>11 DEF Inv

(* A new account starts balanced; whoever could know it did not exist yet. *)
LEMMA CreateInsertInv ==
    ASSUME Inv, NEW s \in Sessions, CreateInsert(s)
    PROVE  Inv'
<1>. TypeOK /\ LockInv /\ FillInv /\ CancelInv /\ HasAccount /\ SweepInv /\ LedgerBalanced /\ FilledExactlyOnce
  BY DEF Inv
<1>. DEFINE new == job[s].acct
<1>1. /\ pc[s] = "create" /\ new \notin DOMAIN account
      /\ account' = [a \in DOMAIN account \cup {new} |->
                       IF a = new THEN [cash |-> StartingCash, bp |-> StartingCash] ELSE account[a]]
      /\ booked' = [booked EXCEPT ![new] = StartingCash]
      /\ EndTransaction(s, "idle")
      /\ position' = position /\ order' = order /\ fillRows' = fillRows
      /\ nextPid' = nextPid /\ crashes' = crashes
  BY DEF CreateInsert, Exists
<1>0. Ended(s, "idle") BY <1>1, AfterEnd
<1>2. new \in Accounts BY <1>1 DEF TypeOK, JobOK
<1>. HIDE DEF new
<1>3. /\ DOMAIN account' = DOMAIN account \cup {new}
      /\ \A a \in DOMAIN account : account'[a] = account[a]
      /\ account'[new].cash = StartingCash
  BY <1>1
<1>4. booked' \in [Accounts -> Int] /\ booked'[new] = StartingCash
      /\ \A a \in Accounts : a # new => booked'[a] = booked[a]
  BY <1>1, <1>2, BrokerAssumption DEF TypeOK
<1>5. TypeOK'
  <2>1. ASSUME NEW t \in Sessions, NEW a \in Accounts, work'[t][a] # None
        PROVE  WorkOK(work[t][a])'
    <3>1. t # s BY <2>1, <1>0 DEF NoWork, Ended
    <3>2. work'[t] = work[t] BY <3>1, <1>0 DEF Ended
    <3>. QED BY <2>1, <3>2 DEF TypeOK, WorkOK
  <2>2. DOMAIN account' \subseteq Accounts /\ \A a \in DOMAIN account' : account'[a].cash \in Int
    BY <1>2, <1>3, BrokerAssumption DEF TypeOK
  <2>. QED BY <1>0, <1>1, <1>4, <2>1, <2>2 DEF TypeOK, Ended
<1>6. LockInv'
  <2>. SUFFICES ASSUME NEW t \in Sessions, NEW a \in Accounts
                PROVE  /\ work'[t][a] # None => lock'[a] = t
                       /\ lock'[a] = t => pc'[t] \in {"fill", "sweep"} /\ Sound(work[t][a], a)'
    BY DEF LockInv
  <2>1. CASE t = s BY <2>1, <1>0 DEF NoWork, Ended
  <2>2. CASE t # s
    <3>1. work'[t] = work[t] /\ pc'[t] = pc[t] /\ (lock'[a] = t <=> lock[a] = t)
      BY <2>2, <1>0 DEF Ended
    <3>2. ASSUME Sound(work[t][a], a) PROVE Sound(work[t][a], a)'
      <4>1. a # new /\ booked'[a] = booked[a] BY <1>1, <1>4, <3>2 DEF Sound, Exists, new
      <4>2. WorkOK(work[t][a])' BY <3>1, <3>2 DEF Sound, WorkOK
      <4>. QED BY <1>1, <1>3, <3>1, <3>2, <4>1, <4>2 DEF Sound, Exists
    <3>. QED BY <3>1, <3>2 DEF LockInv
  <2>. QED BY <2>1, <2>2
<1>7. FillInv' /\ CancelInv' /\ SweepInv'
  <2>. SUFFICES ASSUME NEW t \in Sessions
                PROVE /\ pc'[t] = "fill" =>
                           lock'[job'[t].acct] = t /\ order'[job'[t].acct][job'[t].key] = None
                      /\ pc'[t] = "cancel" =>
                           order'[job'[t].acct][job'[t].key] \in {"accepted", "canceled"}
                      /\ pc'[t] = "sweep" => \A e \in job'[t].todo : Exists(e.acct)'
    BY DEF FillInv, CancelInv, SweepInv
  <2>1. CASE t = s BY <2>1, <1>0 DEF Ended
  <2>2. CASE t # s
    <3>1. pc'[t] = pc[t] /\ job'[t] = job[t] BY <2>2, <1>0 DEF Ended
    <3>2. pc[t] = "fill" => job[t].acct \in Accounts BY DEF TypeOK, JobOK
    <3>3. \A a \in Accounts : lock'[a] = t <=> lock[a] = t BY <2>2, <1>0 DEF Ended
    <3>. QED BY <1>1, <1>3, <3>1, <3>2, <3>3 DEF FillInv, CancelInv, SweepInv, Exists
  <2>. QED BY <2>1, <2>2
<1>8. HasAccount' /\ FilledExactlyOnce'
  BY <1>1, <1>3 DEF HasAccount, Exists, FilledExactlyOnce
<1>9. LedgerBalanced'
  <2>. SUFFICES ASSUME NEW a \in DOMAIN account' PROVE account'[a].cash = booked'[a]
    BY DEF LedgerBalanced
  <2>1. CASE a = new BY <1>3, <1>4, <2>1
  <2>2. CASE a # new BY <1>3, <1>4, <2>2 DEF LedgerBalanced, TypeOK
  <2>. QED BY <2>1, <2>2
<1>. QED BY <1>5, <1>6, <1>7, <1>8, <1>9 DEF Inv

(* An unlocked cancel overwrites the status of an order that exists, is    *)
(* not filled and is in nobody's workspace.                                *)
LEMMA CancelWriteInv ==
    ASSUME Inv, NEW s \in Sessions, CancelWrite(s)
    PROVE  Inv'
<1>. TypeOK /\ LockInv /\ FillInv /\ CancelInv /\ HasAccount /\ SweepInv /\ LedgerBalanced /\ FilledExactlyOnce
  BY DEF Inv
<1>. DEFINE acct == job[s].acct
            key  == job[s].key
<1>1. /\ pc[s] = "cancel"
      /\ order' = [order EXCEPT ![acct][key] = "canceled"]
      /\ EndTransaction(s, "idle")
      /\ account' = account /\ position' = position /\ fillRows' = fillRows
      /\ booked' = booked /\ nextPid' = nextPid /\ crashes' = crashes
  BY DEF CancelWrite
<1>0. Ended(s, "idle") BY <1>1, AfterEnd
<1>2. acct \in Accounts /\ key \in OrderKeys BY <1>1 DEF TypeOK, JobOK, OrderKeys
<1>3. order[acct][key] \in {"accepted", "canceled"} BY <1>1 DEF CancelInv
<1>. HIDE DEF acct, key
<1>4. /\ order' \in [Accounts -> [OrderKeys -> Statuses \cup {None}]]
      /\ order'[acct][key] = "canceled"
      /\ \A a \in Accounts, k \in OrderKeys :
            a # acct \/ k # key => order'[a][k] = order[a][k]
  BY <1>1, <1>2 DEF TypeOK, Statuses
<1>5. /\ \A a \in Accounts, k \in OrderKeys : order[a][k] = None => order'[a][k] = None
      /\ \A a \in Accounts, k \in OrderKeys :
            order[a][k] \in {"accepted", "canceled"} => order'[a][k] \in {"accepted", "canceled"}
  BY <1>2, <1>3, <1>4, BrokerAssumption DEF Statuses
<1>6. TypeOK'
  <2>1. ASSUME NEW t \in Sessions, NEW a \in Accounts, work'[t][a] # None
        PROVE  WorkOK(work[t][a])'
    <3>1. t # s BY <2>1, <1>0 DEF NoWork, Ended
    <3>2. work'[t] = work[t] BY <3>1, <1>0 DEF Ended
    <3>. QED BY <2>1, <3>2 DEF TypeOK, WorkOK
  <2>. QED BY <1>0, <1>1, <1>4, <2>1 DEF TypeOK, Ended
<1>7. LockInv'
  <2>. SUFFICES ASSUME NEW t \in Sessions, NEW a \in Accounts
                PROVE  /\ work'[t][a] # None => lock'[a] = t
                       /\ lock'[a] = t => pc'[t] \in {"fill", "sweep"} /\ Sound(work[t][a], a)'
    BY DEF LockInv
  <2>1. CASE t = s BY <2>1, <1>0 DEF NoWork, Ended
  <2>2. CASE t # s
    <3>1. work'[t] = work[t] /\ pc'[t] = pc[t] /\ (lock'[a] = t <=> lock[a] = t)
      BY <2>2, <1>0 DEF Ended
    <3>2. ASSUME Sound(work[t][a], a) PROVE Sound(work[t][a], a)'
      <4>1. WorkOK(work[t][a])' BY <3>1, <3>2 DEF Sound, WorkOK
      <4>2. \A k \in DOMAIN work[t][a].ord : k \in OrderKeys BY <3>2 DEF Sound, WorkOK
      <4>. QED BY <1>1, <1>5, <3>1, <3>2, <4>1, <4>2 DEF Sound, Exists
    <3>. QED BY <3>1, <3>2 DEF LockInv
  <2>. QED BY <2>1, <2>2
<1>8. FillInv' /\ CancelInv' /\ SweepInv'
  <2>. SUFFICES ASSUME NEW t \in Sessions
                PROVE /\ pc'[t] = "fill" =>
                           lock'[job'[t].acct] = t /\ order'[job'[t].acct][job'[t].key] = None
                      /\ pc'[t] = "cancel" =>
                           order'[job'[t].acct][job'[t].key] \in {"accepted", "canceled"}
                      /\ pc'[t] = "sweep" => \A e \in job'[t].todo : Exists(e.acct)'
    BY DEF FillInv, CancelInv, SweepInv
  <2>1. CASE t = s BY <2>1, <1>0 DEF Ended
  <2>2. CASE t # s
    <3>1. pc'[t] = pc[t] /\ job'[t] = job[t] BY <2>2, <1>0 DEF Ended
    <3>2. pc[t] \in {"fill", "cancel"} => job[t].acct \in Accounts /\ job[t].key \in OrderKeys
      BY DEF TypeOK, JobOK, OrderKeys
    <3>3. \A a \in Accounts : lock'[a] = t <=> lock[a] = t BY <2>2, <1>0 DEF Ended
    <3>. QED BY <1>1, <1>5, <3>1, <3>2, <3>3 DEF FillInv, CancelInv, SweepInv, Exists
  <2>. QED BY <2>1, <2>2
<1>9. FilledExactlyOnce'
  <2>. SUFFICES ASSUME NEW a \in Accounts, NEW k \in OrderKeys
                PROVE  fillRows'[a][k] = IF order'[a][k] = "filled" THEN 1 ELSE 0
    BY DEF FilledExactlyOnce
  <2>1. fillRows[a][k] = IF order[a][k] = "filled" THEN 1 ELSE 0 BY DEF FilledExactlyOnce
  <2>2. CASE a = acct /\ k = key BY <1>1, <1>3, <1>4, <2>1, <2>2
  <2>3. CASE a # acct \/ k # key BY <1>1, <1>4, <2>1, <2>3
  <2>. QED BY <2>2, <2>3
<1>10. HasAccount' /\ LedgerBalanced' BY <1>1 DEF HasAccount, Exists, LedgerBalanced
<1>. QED BY <1>6, <1>7, <1>8, <1>9, <1>10 DEF Inv

(* Inserting an order without a fill keeps a workspace sound.              *)
LEMMA WithStatusSound ==
    ASSUME NEW a \in Accounts, NEW w, Sound(w, a), NEW key \in OrderKeys, order[a][key] = None,
           NEW status \in Statuses
    PROVE  Sound(WithStatus(w, key, status), a)
<1>. DEFINE r == WithStatus(w, key, status)
<1>1. r = [cash |-> w.cash, bp |-> w.bp, pos |-> w.pos,
           ord |-> [k \in DOMAIN w.ord \cup {key} |-> IF k = key THEN status ELSE w.ord[k]],
           delta |-> w.delta]
  BY DEF WithStatus, Sound, WorkOK
<1>. HIDE DEF r
<1>2. WorkOK(r) BY <1>1 DEF Sound, WorkOK
<1>3. Sound(r, a) BY <1>1, <1>2 DEF Sound
<1>. QED BY <1>3 DEF r

(* So does a fill, by FillMarketWork; a row it does not open keeps its id. *)
LEMMA FillSound ==
    ASSUME NEW a \in Accounts, NEW w, Sound(w, a), NEW key \in OrderKeys, order[a][key] = None,
           NEW pid, NEW quote \in QuoteRows, NEW req \in OrderBodies, NEW seen,
           pid \in PosIds \/ ~Opens(w, fill_market(w, key, req, quote, pid, seen))
    PROVE  Sound(fill_market(w, key, req, quote, pid, seen), a)
<1>. DEFINE r   == fill_market(w, key, req, quote, pid, seen)
            ids == PosIds \cup {pid}
<1>1. /\ w = [cash |-> w.cash, bp |-> w.bp, pos |-> w.pos, ord |-> w.ord, delta |-> w.delta]
      /\ w.cash \in Int /\ w.delta \in Int
      /\ w.pos \in [Symbols -> PosRows(PosIds) \cup {None}]
      /\ DOMAIN w.ord \subseteq OrderKeys
      /\ \A k \in DOMAIN w.ord : w.ord[k] \in Statuses /\ order[a][k] = None
  BY DEF Sound, WorkOK
<1>2. w.pos \in [Symbols -> PosRows(ids) \cup {None}] BY <1>1 DEF PosRows
<1>3. pid \in ids OBVIOUS
<1>. HIDE DEF ids
<1>4. Result(r, w, key, ids) BY <1>1, <1>2, <1>3, FillMarketWork
<1>5. pid \in PosIds \/ ~Opens(w, r) OBVIOUS
<1>. HIDE DEF r
<1>6. r.pos \in [Symbols -> PosRows(PosIds) \cup {None}]
  <2>. SUFFICES ASSUME NEW sym \in Symbols, r.pos[sym] # None
                PROVE  r.pos[sym] \in PosRows(PosIds)
    BY <1>4 DEF Result
  <2>1. r.pos[sym] \in PosRows(ids) BY <1>4 DEF Result
  <2>2. r.pos[sym].id \in PosIds
    <3>1. CASE w.pos[sym] # None
      <4>1. w.pos[sym].id \in PosIds BY <1>1, <3>1 DEF PosRows
      <4>. QED BY <1>4, <3>1, <4>1 DEF Result
    <3>2. CASE w.pos[sym] = None
      <4>1. pid \in PosIds BY <1>5, <3>2 DEF Opens
      <4>2. ids = PosIds BY <4>1 DEF ids
      <4>. QED BY <2>1, <4>2 DEF PosRows
    <3>. QED BY <3>1, <3>2
  <2>. QED BY <2>1, <2>2 DEF PosRows
<1>7. /\ DOMAIN r.ord \subseteq OrderKeys
      /\ \A k \in DOMAIN r.ord : r.ord[k] \in Statuses /\ order[a][k] = None
  BY <1>1, <1>4 DEF Result, Statuses
<1>8. r.cash - r.delta = booked[a] BY <1>4 DEF Result, Sound
<1>9. WorkOK(r) BY <1>4, <1>6, <1>7 DEF Result, WorkOK
<1>10. Sound(r, a) BY <1>7, <1>8, <1>9 DEF Sound
<1>. QED BY <1>10 DEF r

(* What a handler about to execute its order knows.                        *)
LEMMA AtFill ==
    ASSUME Inv, NEW s \in Sessions, pc[s] = "fill"
    PROVE  /\ job[s].acct \in Accounts /\ job[s].key \in OrderKeys /\ job[s].req \in OrderBodies
           /\ order[job[s].acct][job[s].key] = None
           /\ Sound(work[s][job[s].acct], job[s].acct)
           /\ \A w : Sound(w, job[s].acct)
                    => Committable(s, [work[s] EXCEPT ![job[s].acct] = w])
<1>1. /\ job[s].acct \in Accounts /\ job[s].key \in OrderKeys /\ job[s].req \in OrderBodies
  BY BrokerAssumption DEF Inv, TypeOK, JobOK, OrderKeys
<1>2. lock[job[s].acct] = s /\ order[job[s].acct][job[s].key] = None
  BY DEF Inv, FillInv
<1>3. Sound(work[s][job[s].acct], job[s].acct) BY <1>1, <1>2 DEF Inv, LockInv
<1>4. ASSUME NEW w, Sound(w, job[s].acct)
      PROVE  Committable(s, [work[s] EXCEPT ![job[s].acct] = w])
  <2>. SUFFICES ASSUME NEW a \in Accounts, [work[s] EXCEPT ![job[s].acct] = w][a] # None
                PROVE  lock[a] = s /\ Sound([work[s] EXCEPT ![job[s].acct] = w][a], a)
    BY DEF Committable
  <2>1. DOMAIN work[s] = Accounts BY DEF Inv, TypeOK
  <2>2. CASE a = job[s].acct BY <1>2, <1>4, <2>1, <2>2
  <2>3. CASE a # job[s].acct
    <3>1. [work[s] EXCEPT ![job[s].acct] = w][a] = work[s][a] BY <2>1, <2>3
    <3>2. lock[a] = s BY <3>1 DEF Inv, LockInv
    <3>. QED BY <3>1, <3>2 DEF Inv, LockInv
  <2>. QED BY <2>2, <2>3
<1>. QED BY <1>1, <1>2, <1>3, <1>4

(* Every commit publishes a workspace its session was entitled to.         *)
Commits(s) == \E w : /\ Committable(s, w) /\ Commit(s, w)
                     /\ nextPid' \in 1 .. MaxPid + 1 /\ crashes' = crashes

LEMMA PlaceCommits ==
    ASSUME Inv, NEW s \in Sessions, PlaceReject(s) \/ PlaceAccept(s) \/ PlaceFill(s)
    PROVE  Commits(s)
<1>. DEFINE acct == job[s].acct
            key  == job[s].key
            w    == work[s][acct]
<1>1. pc[s] = "fill" BY DEF PlaceReject, PlaceAccept, PlaceFill
<1>2. /\ acct \in Accounts /\ key \in OrderKeys /\ job[s].req \in OrderBodies
      /\ order[acct][key] = None /\ Sound(w, acct)
      /\ \A r : Sound(r, acct) => Committable(s, [work[s] EXCEPT ![acct] = r])
  BY <1>1, AtFill
<1>3. ASSUME NEW status \in Statuses, Commit(s, [work[s] EXCEPT ![acct] = WithStatus(@, key, status)]),
             nextPid' = nextPid, crashes' = crashes
      PROVE  Commits(s)
  <2>1. DOMAIN work[s] = Accounts BY DEF Inv, TypeOK
  <2>2. [work[s] EXCEPT ![acct] = WithStatus(@, key, status)] = [work[s] EXCEPT ![acct] = WithStatus(w, key, status)]
    BY <1>2, <2>1
  <2>3. Sound(WithStatus(w, key, status), acct) BY <1>2, WithStatusSound
  <2>4. Committable(s, [work[s] EXCEPT ![acct] = WithStatus(w, key, status)]) BY <1>2, <2>3
  <2>5. Committable(s, [work[s] EXCEPT ![acct] = WithStatus(@, key, status)]) BY <2>2, <2>4
  <2>6. nextPid' \in 1 .. MaxPid + 1 BY <1>3 DEF Inv, TypeOK
  <2>. QED BY <1>3, <2>5, <2>6 DEF Commits
<1>4. CASE PlaceReject(s)
  <2>1. /\ Commit(s, [work[s] EXCEPT ![acct] = WithStatus(@, key, "rejected")])
        /\ nextPid' = nextPid /\ crashes' = crashes
    BY <1>4 DEF PlaceReject
  <2>. QED BY <1>3, <2>1 DEF Statuses
<1>5. CASE PlaceAccept(s)
  <2>1. /\ Commit(s, [work[s] EXCEPT ![acct] = WithStatus(@, key, "accepted")])
        /\ nextPid' = nextPid /\ crashes' = crashes
    BY <1>5 DEF PlaceAccept
  <2>. QED BY <1>3, <2>1 DEF Statuses
<1>6. CASE PlaceFill(s)
  <2>1. PICK quote \in Quotes :
           LET done == fill_market(w, key, job[s].req, quote, nextPid, w.pos)
           IN  /\ Usable(quote)
               /\ Opens(w, done) => nextPid \in PosIds
               /\ nextPid' = IF Opens(w, done) THEN nextPid + 1 ELSE nextPid
               /\ Commit(s, [work[s] EXCEPT ![acct] = done])
    BY <1>6 DEF PlaceFill
  <2>. DEFINE done == fill_market(w, key, job[s].req, quote, nextPid, w.pos)
  <2>2. quote \in QuoteRows BY <2>1, BrokerAssumption DEF Usable
  <2>3. Sound(done, acct) BY <1>2, <2>1, <2>2, FillSound
  <2>4. Committable(s, [work[s] EXCEPT ![acct] = done]) BY <1>2, <2>3
  <2>5. crashes' = crashes BY <1>6 DEF PlaceFill
  <2>6. nextPid' \in 1 .. MaxPid + 1
    <3>1. nextPid \in 1 .. MaxPid + 1 BY DEF Inv, TypeOK
    <3>2. nextPid' = nextPid \/ (nextPid \in PosIds /\ nextPid' = nextPid + 1) BY <2>1
    <3>. QED BY <3>1, <3>2, BrokerAssumption DEF PosIds
  <2>. HIDE DEF done
  <2>7. Commit(s, [work[s] EXCEPT ![acct] = done]) BY <2>1 DEF done
  <2>. QED BY <2>4, <2>5, <2>6, <2>7 DEF Commits
<1>. QED BY <1>4, <1>5, <1>6

(* A sweep's look at one position keeps the workspace sound: the ratchet   *)
(* touches only the high-water mark, and an exit is a fill of a new order. *)
LEMMA AfterExitSound ==
    ASSUME Inv, NEW s \in Sessions, NEW quote \in QuoteRows, pc[s] = "sweep",
           NEW e \in Current(s), ~Gone(s, e)
    PROVE  /\ e.acct \in Accounts /\ lock[e.acct] = s
           /\ Sound(AfterExit(s, e, quote), e.acct)
<1>. DEFINE w    == work[s][e.acct]
            row  == w.pos[e.sym]
            d    == Judge(row, quote)
            key  == [pid |-> e.pid, tick |-> job[s].tick]
            kept == [w EXCEPT !.pos[e.sym].hw = d.high_water]
            req  == ExitRequest(e.sym, row.qty)
<1>1. job[s] \in [tick : Ticks, todo : SUBSET Entries]
  BY DEF Inv, TypeOK, JobOK, Entries
<1>2. e \in Entries /\ lock[e.acct] = s BY <1>1 DEF Current, NextEntries, Holds
<1>3. e.acct \in Accounts /\ e.sym \in Symbols /\ e.pid \in PosIds BY <1>2 DEF Entries
<1>4. Sound(w, e.acct) BY <1>2, <1>3 DEF Inv, LockInv
<1>5. key \in OrderKeys BY <1>1, <1>3 DEF OrderKeys, ExitKeys
<1>6. row \in PosRows(PosIds)
  <2>1. row \in PosRows(PosIds) \cup {None} BY <1>3, <1>4 DEF Sound, WorkOK
  <2>2. row # None BY DEF Gone
  <2>. QED BY <2>1, <2>2
<1>7. row.qty \in Int \ {0} /\ row.avg \in Int /\ row.hw \in Int BY <1>6 DEF PosRows
<1>8. d.high_water \in Int
  <2>1. d.high_water = Ratchet(row.qty, row.hw, row.avg, quote.last) BY DEF Judge, evaluate_exit
  <2>2. quote.last \in Int BY DEF QuoteRows, Amounts
  <2>. HIDE DEF d, row
  <2>. QED BY <1>7, <2>1, <2>2 DEF Ratchet, Smaller, Larger
<1>9. req \in OrderBodies
  <2>. HIDE DEF row
  <2>1. Abs(row.qty) \in Amounts BY <1>7 DEF Abs, Amounts
  <2>2. Abs(row.qty) # None BY <2>1, NoneAssumption DEF Amounts
  <2>. QED BY <1>3, <2>1, <2>2 DEF ExitRequest, OrderBodies, Sides
<1>. HIDE DEF d
<1>10. Sound(kept, e.acct)
  <2>. DEFINE newRow == [row EXCEPT !.hw = d.high_water]
              newPos == [w.pos EXCEPT ![e.sym] = newRow]
  <2>1. newRow \in PosRows(PosIds) BY <1>6, <1>8 DEF PosRows
  <2>2. w.pos \in [Symbols -> PosRows(PosIds) \cup {None}] BY <1>4 DEF Sound, WorkOK
  <2>3. newPos \in [Symbols -> PosRows(PosIds) \cup {None}] BY <1>3, <2>1, <2>2
  <2>4. w = [cash |-> w.cash, bp |-> w.bp, pos |-> w.pos, ord |-> w.ord, delta |-> w.delta]
    BY <1>4 DEF Sound, WorkOK
  <2>5. kept = [w EXCEPT !.pos = newPos] OBVIOUS
  <2>. HIDE DEF newPos, kept
  <2>6. kept = [cash |-> w.cash, bp |-> w.bp, pos |-> newPos, ord |-> w.ord, delta |-> w.delta]
    BY <2>4, <2>5
  <2>. HIDE DEF w
  <2>7. WorkOK(kept) BY <1>4, <2>3, <2>6 DEF Sound, WorkOK
  <2>. QED BY <1>4, <2>6, <2>7 DEF Sound
<1>11. CASE d.should_exit /\ order[e.acct][key] = None
  <2>1. AfterExit(s, e, quote) = fill_market(kept, key, req, quote, e.pid, Seen(s, e))
    BY <1>11 DEF AfterExit, d
  <2>. HIDE DEF kept, key, req
  <2>2. Sound(fill_market(kept, key, req, quote, e.pid, Seen(s, e)), e.acct)
    BY <1>3, <1>5, <1>9, <1>10, <1>11, FillSound
  <2>. QED BY <1>2, <1>3, <2>1, <2>2
<1>12. CASE ~(d.should_exit /\ order[e.acct][key] = None)
  <2>1. AfterExit(s, e, quote) = kept BY <1>12 DEF AfterExit, d
  <2>. QED BY <1>2, <1>3, <1>10, <2>1
<1>. QED BY <1>11, <1>12

(* Changing what s has loaded of an account it holds, to something sound,  *)
(* and shortening what it has to do.                                       *)
LEMMA SettlePositionInv ==
    ASSUME Inv, NEW s \in Sessions, SettlePosition(s)
    PROVE  Inv'
<1>. TypeOK /\ LockInv /\ FillInv /\ CancelInv /\ HasAccount /\ SweepInv /\ LedgerBalanced /\ FilledExactlyOnce
  BY DEF Inv
<1>1. PICK e \in Current(s), quote \in Quotes :
         /\ ~Gone(s, e)
         /\ work' = IF Usable(quote) THEN [work EXCEPT ![s][e.acct] = AfterExit(s, e, quote)] ELSE work
         /\ job'  = [job EXCEPT ![s].todo = @ \ {e}]
  BY DEF SettlePosition
<1>2. /\ account' = account /\ position' = position /\ order' = order
      /\ fillRows' = fillRows /\ booked' = booked /\ nextPid' = nextPid
      /\ lock' = lock /\ pc' = pc /\ crashes' = crashes /\ pc[s] = "sweep"
  BY DEF SettlePosition, dbVars
<1>3. /\ DOMAIN job' = Sessions /\ \A t \in Sessions : t # s => job'[t] = job[t]
      /\ job'[s] \in [tick : Ticks, todo : SUBSET Entries]
      /\ job'[s].todo \subseteq job[s].todo
  <2>1. job[s] \in [tick : Ticks, todo : SUBSET Entries] BY <1>2 DEF TypeOK, JobOK, Entries
  <2>2. DOMAIN job = Sessions BY DEF TypeOK
  <2>3. job'[s] = [job[s] EXCEPT !.todo = @ \ {e}] BY <1>1, <2>2
  <2>. QED BY <1>1, <2>1, <2>2, <2>3
<1>4. /\ DOMAIN work' = Sessions /\ \A t \in Sessions : DOMAIN work'[t] = Accounts
      /\ \A t \in Sessions, a \in Accounts :
            \/ work'[t][a] = work[t][a]
            \/ t = s /\ lock[a] = s /\ Sound(work'[t][a], a)
  <2>0. DOMAIN work = Sessions /\ \A t \in Sessions : DOMAIN work[t] = Accounts BY DEF TypeOK
  <2>1. CASE Usable(quote)
    <3>1. quote \in QuoteRows BY <2>1, BrokerAssumption DEF Usable
    <3>2. e.acct \in Accounts /\ lock[e.acct] = s /\ Sound(AfterExit(s, e, quote), e.acct)
      BY <1>1, <1>2, <3>1, AfterExitSound
    <3>3. work' = [work EXCEPT ![s][e.acct] = AfterExit(s, e, quote)] BY <1>1, <2>1
    <3>4. work'[s][e.acct] = AfterExit(s, e, quote) BY <2>0, <3>2, <3>3
    <3>. QED BY <2>0, <3>2, <3>3, <3>4
  <2>2. CASE ~Usable(quote) BY <1>1, <2>0, <2>2
  <2>. QED BY <2>1, <2>2
<1>5. ASSUME NEW t \in Sessions, NEW a \in Accounts, Sound(work'[t][a], a)
      PROVE  Sound(work[t][a], a)'
  BY <1>2, <1>5 DEF Sound, WorkOK, Exists
<1>6. TypeOK'
  <2>1. \A t \in Sessions : JobOK(t)'
    <3>. SUFFICES ASSUME NEW t \in Sessions PROVE JobOK(t)' OBVIOUS
    <3>1. CASE t = s BY <1>2, <1>3, <3>1 DEF JobOK, Entries
    <3>2. CASE t # s
      <4>1. job'[t] = job[t] BY <1>3, <3>2
      <4>. QED BY <1>2, <4>1 DEF TypeOK, JobOK
    <3>. QED BY <3>1, <3>2
  <2>2. ASSUME NEW t \in Sessions, NEW a \in Accounts, work'[t][a] # None
        PROVE  WorkOK(work[t][a])'
    <3>1. WorkOK(work'[t][a]) BY <1>4, <2>2 DEF TypeOK, Sound
    <3>. QED BY <3>1 DEF WorkOK
  <2>. QED BY <1>2, <1>3, <1>4, <2>1, <2>2 DEF TypeOK
<1>7. LockInv'
  <2>. SUFFICES ASSUME NEW t \in Sessions, NEW a \in Accounts
                PROVE  /\ work'[t][a] # None => lock[a] = t
                       /\ lock[a] = t => pc[t] \in {"fill", "sweep"} /\ Sound(work[t][a], a)'
    BY <1>2 DEF LockInv
  <2>1. work'[t][a] # None => lock[a] = t BY <1>4 DEF LockInv
  <2>2. lock[a] = t => Sound(work'[t][a], a) BY <1>4 DEF LockInv
  <2>. QED BY <1>5, <2>1, <2>2 DEF LockInv
<1>8. FillInv' /\ CancelInv' /\ SweepInv'
  <2>. SUFFICES ASSUME NEW t \in Sessions
                PROVE /\ pc[t] = "fill" =>
                           lock[job'[t].acct] = t /\ order[job'[t].acct][job'[t].key] = None
                      /\ pc[t] = "cancel" =>
                           order[job'[t].acct][job'[t].key] \in {"accepted", "canceled"}
                      /\ pc[t] = "sweep" => \A x \in job'[t].todo : Exists(x.acct)
    BY <1>2 DEF FillInv, CancelInv, SweepInv, Exists
  <2>1. CASE t = s BY <1>2, <1>3, <2>1 DEF SweepInv
  <2>2. CASE t # s
    <3>1. job'[t] = job[t] BY <1>3, <2>2
    <3>. QED BY <3>1 DEF FillInv, CancelInv, SweepInv
  <2>. QED BY <2>1, <2>2
<1>9. HasAccount' /\ LedgerBalanced' /\ FilledExactlyOnce'
  BY <1>2 DEF HasAccount, Exists, LedgerBalanced, FilledExactlyOnce
<1>. QED BY <1>6, <1>7, <1>8, <1>9 DEF Inv

LEMMA SettleCommitCommits ==
    ASSUME Inv, NEW s \in Sessions, SettleCommit(s)
    PROVE  Commits(s)
<1>1. Committable(s, work[s]) BY DEF Committable, Inv, LockInv
<1>2. Commit(s, work[s]) /\ nextPid' = nextPid /\ crashes' = crashes BY DEF SettleCommit
<1>3. nextPid' \in 1 .. MaxPid + 1 BY <1>2 DEF Inv, TypeOK
<1>. QED BY <1>1, <1>2, <1>3 DEF Commits

(* The invariant is preserved by every step of a request's start ...       *)
LEMMA BeginInv ==
    ASSUME Inv,
           NEW s \in Sessions, ClientStart(s) \/ MonitorStart(s)
    PROVE  Inv'
<1>. TypeOK /\ HasAccount BY DEF Inv
<1>1. ASSUME NEW a \in Accounts, CreateCheck(s, a) PROVE Inv'
  <2>. DEFINE j == [acct |-> a]
  <2>1. Given("create", j) BY DEF Given
  <2>2. /\ pc[s] = "idle" /\ pc' = [pc EXCEPT ![s] = "create"] /\ job' = [job EXCEPT ![s] = j]
        /\ UNCHANGED <<dbVars, lock, work, crashes>>
    BY <1>1 DEF CreateCheck
  <2>3. DOMAIN job' = Sessions /\ job'[s] = j /\ \A t \in Sessions : t # s => job'[t] = job[t]
    BY <2>2 DEF TypeOK
  <2>. QED BY <2>1, <2>2, <2>3, StartInv
<1>2. ASSUME NEW a \in Accounts, NEW k \in ClientIds, NEW r \in Requests, PlaceCheck(s, a, k, r)
      PROVE  Inv'
  <2>. DEFINE j == [acct |-> a, key |-> k, req |-> r]
  <2>1. Given("lock", j) BY DEF Given
  <2>2. /\ pc[s] = "idle" /\ pc' = [pc EXCEPT ![s] = "lock"] /\ job' = [job EXCEPT ![s] = j]
        /\ UNCHANGED <<dbVars, lock, work, crashes>>
    BY <1>2 DEF PlaceCheck
  <2>3. DOMAIN job' = Sessions /\ job'[s] = j /\ \A t \in Sessions : t # s => job'[t] = job[t]
    BY <2>2 DEF TypeOK
  <2>. QED BY <2>1, <2>2, <2>3, StartInv
<1>3. ASSUME NEW a \in Accounts, NEW k \in ClientIds, CancelRead(s, a, k) PROVE Inv'
  <2>. DEFINE j == [acct |-> a, key |-> k]
  <2>1. Given("cancel", j) BY <1>3 DEF Given, CancelRead
  <2>2. /\ pc[s] = "idle" /\ pc' = [pc EXCEPT ![s] = "cancel"] /\ job' = [job EXCEPT ![s] = j]
        /\ UNCHANGED <<dbVars, lock, work, crashes>>
    BY <1>3 DEF CancelRead
  <2>3. DOMAIN job' = Sessions /\ job'[s] = j /\ \A t \in Sessions : t # s => job'[t] = job[t]
    BY <2>2 DEF TypeOK
  <2>. QED BY <2>1, <2>2, <2>3, StartInv
<1>4. ASSUME NEW tick \in Ticks, SettleScan(s, tick) PROVE Inv'
  <2>. DEFINE j == [tick |-> tick, todo |-> Watched]
  <2>1. ASSUME NEW e \in Watched PROVE e \in Entries /\ Exists(e.acct)
    <3>1. PICK a \in Accounts, sym \in Symbols : Guards(a, sym) /\ e = Entry(a, sym)
      BY DEF Watched
    <3>2. position[a][sym] # None /\ position[a][sym] \in PosRows(PosIds) BY <3>1 DEF Guards, TypeOK
    <3>. QED BY <3>1, <3>2 DEF Entry, Entries, PosRows, HasAccount
  <2>2. Given("sweep", j) BY <2>1 DEF Given
  <2>3. /\ pc[s] = "idle" /\ pc' = [pc EXCEPT ![s] = "sweep"] /\ job' = [job EXCEPT ![s] = j]
        /\ UNCHANGED <<dbVars, lock, work, crashes>>
    BY <1>4 DEF SettleScan
  <2>4. DOMAIN job' = Sessions /\ job'[s] = j /\ \A t \in Sessions : t # s => job'[t] = job[t]
    BY <2>3 DEF TypeOK
  <2>. QED BY <2>2, <2>3, <2>4, StartInv
<1>. QED BY <1>1, <1>2, <1>3, <1>4 DEF ClientStart, MonitorStart

(* ... and by everything a handler does from there.                        *)
LEMMA ProceedInv ==
    ASSUME Inv, NEW s \in Sessions, Proceed(s) \/ EarlyReturn(s) \/ Crash(s)
    PROVE  Inv'
<1>. TypeOK BY DEF Inv
<1>1. ASSUME NEW where \in Errors \cup {"idle"}, Rollback(s, where), crashes' = crashes PROVE Inv'
  <2>1. crashes' \in 0 .. MaxCrashes BY <1>1 DEF TypeOK
  <2>. QED BY <1>1, <2>1, RollbackInv
<1>2. CASE CreateDuplicate(s) BY <1>1, <1>2 DEF CreateDuplicate, Errors
<1>3. CASE PlaceNoAccount(s) BY <1>1, <1>3 DEF PlaceNoAccount, Errors
<1>4. CASE PlaceDuplicate(s) BY <1>1, <1>4 DEF PlaceDuplicate, Errors
<1>5. CASE PlaceFillFails(s) BY <1>1, <1>5 DEF PlaceFillFails, Errors
<1>6. CASE SettleRowGone(s) BY <1>1, <1>6 DEF SettleRowGone, Errors
<1>7. CASE Crash(s)
  <2>1. crashes' \in 0 .. MaxCrashes BY <1>7, BrokerAssumption DEF Crash, TypeOK
  <2>2. Rollback(s, "idle") BY <1>7 DEF Crash
  <2>. QED BY <2>1, <2>2, RollbackInv
<1>8. CASE PlaceReject(s) \/ PlaceAccept(s) \/ PlaceFill(s) \/ SettleCommit(s)
  <2>1. Commits(s) BY <1>8, PlaceCommits, SettleCommitCommits
  <2>2. PICK w : /\ Committable(s, w) /\ Commit(s, w)
                 /\ nextPid' \in 1 .. MaxPid + 1 /\ crashes' = crashes
    BY <2>1 DEF Commits
  <2>. QED BY <2>2, CommitInv
<1>9. CASE PlaceLock(s)
  <2>. DEFINE a == job[s].acct
  <2>1. /\ pc[s] = "lock" /\ Exists(a) /\ order[a][job[s].key] = None
        /\ LockAndLoad(s, a) /\ pc' = [pc EXCEPT ![s] = "fill"]
        /\ UNCHANGED <<dbVars, job, crashes>>
    BY <1>9 DEF PlaceLock
  <2>2. a \in Accounts BY <2>1 DEF TypeOK, JobOK
  <2>. QED BY <2>1, <2>2, LockAndLoadInv
<1>10. CASE SettleLock(s)
  <2>1. PICK a \in NextAccounts(job[s].todo) : LockAndLoad(s, a) BY <1>10 DEF SettleLock
  <2>2. pc[s] = "sweep" /\ pc' = pc /\ UNCHANGED <<dbVars, job, crashes>> BY <1>10 DEF SettleLock
  <2>3. PICK e \in job[s].todo : a = e.acct BY <2>1 DEF NextAccounts
  <2>4. a \in Accounts /\ Exists(a) BY <2>2, <2>3 DEF Inv, SweepInv, TypeOK, JobOK
  <2>5. pc' = [pc EXCEPT ![s] = "sweep"] BY <2>2 DEF TypeOK
  <2>. QED BY <2>1, <2>2, <2>4, <2>5, LockAndLoadInv
<1>11. CASE Return500(s)
  <2>1. Given("idle", job[s]) BY DEF Given
  <2>2. /\ pc[s] \in Errors /\ pc' = [pc EXCEPT ![s] = "idle"] /\ job' = job
        /\ UNCHANGED <<dbVars, lock, work, crashes>>
    BY <1>11 DEF Return500
  <2>3. DOMAIN job' = Sessions BY <2>2 DEF TypeOK
  <2>. QED BY <2>1, <2>2, <2>3, StartInv
<1>12. CASE EarlyReturn(s)
  <2>1. UNCHANGED vars BY <1>12 DEF EarlyReturn
  <2>. QED BY <2>1, StutterInv
<1>13. CASE CreateInsert(s) BY <1>13, CreateInsertInv
<1>14. CASE CancelWrite(s) BY <1>14, CancelWriteInv
<1>15. CASE SettlePosition(s) BY <1>15, SettlePositionInv
<1>. QED BY <1>2, <1>3, <1>4, <1>5, <1>6, <1>7, <1>8, <1>9, <1>10, <1>11, <1>12, <1>13, <1>14, <1>15
         DEF Proceed

LEMMA NextInv == Inv /\ [Next]_vars => Inv'
<1>. SUFFICES ASSUME Inv, [Next]_vars PROVE Inv'
  OBVIOUS
<1>1. CASE UNCHANGED vars BY <1>1, StutterInv
<1>2. ASSUME NEW s \in Clients, ClientStart(s) PROVE Inv' BY <1>2, BeginInv DEF Sessions
<1>3. ASSUME NEW s \in Monitors, MonitorStart(s) PROVE Inv' BY <1>3, BeginInv DEF Sessions
<1>4. ASSUME NEW s \in Sessions, Proceed(s) \/ EarlyReturn(s) \/ Crash(s) PROVE Inv'
  BY <1>4, ProceedInv
<1>. QED BY <1>1, <1>2, <1>3, <1>4 DEF Next

THEOREM BrokerInvariant == Spec => []Inv
<1>. QED BY InitInv, NextInv, PTL DEF Spec

(* Every variable has its type, whatever the numbers of accounts, symbols, *)
(* handlers and orders (sim.py and its routers).                           *)
THEOREM BrokerTypeOK == Spec => []TypeOK
<1>1. Inv => TypeOK BY DEF Inv
<1>. QED BY <1>1, BrokerInvariant, PTL

(* No update of cash_balance is lost: the account lock of place_order and  *)
(* settle_exits is enough, although the sweep keeps several locks, takes   *)
(* them at different times and reads its worklist before any of them.      *)
THEOREM CashIsNeverLost == Spec => []LedgerBalanced
<1>1. Inv => LedgerBalanced BY DEF Inv
<1>. QED BY <1>1, BrokerInvariant, PTL

(* Neither a retried submit nor a repeated exit of the same tick fills     *)
(* twice, and a filled order has its Fill row (place_order, settle_exits). *)
THEOREM NoDoubleFill == Spec => []FilledExactlyOnce
<1>1. Inv => FilledExactlyOnce BY DEF Inv
<1>. QED BY <1>1, BrokerInvariant, PTL

(* What a step may do to an order that exists: cancel it while it is open. *)
LEMMA OrdersKept ==
    ASSUME Inv, [Next]_vars, NEW a \in Accounts, NEW k \in OrderKeys,
           order[a][k] \in {"filled", "rejected", "canceled"}
    PROVE  order'[a][k] = order[a][k]
<1>0. order[a][k] # None BY BrokerAssumption DEF Statuses
<1>1. ASSUME NEW s \in Sessions, Commits(s) PROVE order'[a][k] = order[a][k]
  <2>1. PICK w : Committable(s, w) /\ Commit(s, w) BY <1>1 DEF Commits
  <2>2. order'[a][k] = IF w[a] # None /\ k \in DOMAIN w[a].ord THEN w[a].ord[k] ELSE order[a][k]
    BY <2>1 DEF Commit
  <2>. QED BY <1>0, <2>1, <2>2 DEF Committable, Sound
<1>2. ASSUME NEW s \in Sessions, CancelWrite(s) PROVE order'[a][k] = order[a][k]
  <2>1. pc[s] = "cancel" /\ order' = [order EXCEPT ![job[s].acct][job[s].key] = "canceled"]
    BY <1>2 DEF CancelWrite
  <2>2. order[job[s].acct][job[s].key] \in {"accepted", "canceled"} BY <2>1 DEF Inv, CancelInv
  <2>3. order \in [Accounts -> [OrderKeys -> Statuses \cup {None}]] BY DEF Inv, TypeOK
  <2>4. job[s].acct \in Accounts /\ job[s].key \in OrderKeys
    BY <2>1 DEF Inv, TypeOK, JobOK, OrderKeys
  <2>5. CASE a = job[s].acct /\ k = job[s].key BY <2>1, <2>2, <2>3, <2>4, <2>5
  <2>6. CASE a # job[s].acct \/ k # job[s].key BY <2>1, <2>3, <2>4, <2>6
  <2>. QED BY <2>5, <2>6
<1>3. ASSUME NEW s \in Sessions, Proceed(s) PROVE order'[a][k] = order[a][k]
  <2>1. CASE PlaceReject(s) \/ PlaceAccept(s) \/ PlaceFill(s) \/ SettleCommit(s)
    BY <1>1, <2>1, PlaceCommits, SettleCommitCommits
  <2>2. CASE CancelWrite(s) BY <1>2, <2>2
  <2>3. CASE \/ CreateInsert(s) \/ CreateDuplicate(s) \/ PlaceNoAccount(s) \/ PlaceLock(s)
             \/ PlaceDuplicate(s) \/ PlaceFillFails(s) \/ SettleLock(s) \/ SettlePosition(s)
             \/ SettleRowGone(s) \/ Return500(s)
    BY <2>3 DEF CreateInsert, CreateDuplicate, PlaceNoAccount, PlaceLock, PlaceDuplicate, PlaceFillFails,
                SettleLock, SettlePosition, SettleRowGone, Return500, Rollback, dbVars
  <2>. QED BY <1>3, <2>1, <2>2, <2>3 DEF Proceed
<1>4. ASSUME NEW s \in Sessions, ClientStart(s) \/ MonitorStart(s) \/ EarlyReturn(s) \/ Crash(s)
      PROVE  order'[a][k] = order[a][k]
  BY <1>4 DEF ClientStart, MonitorStart, CreateCheck, PlaceCheck, CancelRead, SettleScan, EarlyReturn, Crash,
              Rollback, dbVars, vars
<1>5. CASE UNCHANGED vars BY <1>5 DEF vars, dbVars
<1>. QED BY <1>3, <1>4, <1>5 DEF Next, Sessions

(* An order that is filled, rejected or canceled stays so, although        *)
(* cancel_order reads and writes the status without a lock.                *)
THEOREM EndedOrdersNeverChange == Spec => EndedOrdersStay
<1>1. Inv /\ [Next]_vars =>
        [\A a \in Accounts, k \in OrderKeys :
           order[a][k] \in {"filled", "rejected", "canceled"} => order'[a][k] = order[a][k]]_vars
  BY OrdersKept
<1>. QED BY <1>1, BrokerInvariant, PTL DEF Spec, EndedOrdersStay

(***************************************************************************)
(* The stored buying power.  `seen` of fill_market is what the session's   *)
(* identity map shows of the account; the collateral is summed right when  *)
(* that is what the session is about to write.  A handler that locked the  *)
(* account and loaded its rows sees nothing older, and neither does a      *)
(* sweep over accounts of one symbol.                                      *)
(***************************************************************************)
OneView == /\ IsFiniteSet(Symbols)
           /\ Monitors = {} \/ \A x, y \in Symbols : x = y

(* The sum of a function that is zero everywhere, by the least subset that *)
(* sums to something else.                                                 *)
LEMMA LeastNatural ==
    ASSUME NEW S \in SUBSET Nat, S # {}
    PROVE  \E x \in S : \A y \in S : x <= y
<1>. DEFINE R == OpToRel(<, Nat)
<1>1. \A x, y \in Nat : y < x => <<y, x>> \in R BY DEF OpToRel
<1>2. IsWellFoundedOn(R, Nat) BY NatLessThanWellFounded, Zenon
<1>. HIDE DEF R
<1>3. PICK x \in S : \A y \in S : <<y, x>> \notin R BY <1>2, WFMin
<1>4. \A y \in S : x \in Nat /\ y \in Nat /\ ~(y < x) BY <1>1, <1>3
<1>. QED BY <1>3, <1>4

LEMMA SumOfZeros ==
    ASSUME NEW S, IsFiniteSet(S)
    PROVE  SumFunctionOnSet([x \in S |-> 0], S) = 0
<1>. DEFINE f == [x \in S |-> 0]
            Sums(g) == g = [s \in SUBSET S |->
                               IF s = {} THEN 0 ELSE f[CHOOSE x \in s : TRUE]
                                                     + g[s \ {CHOOSE x \in s : TRUE}]]
            iter == CHOOSE g : Sums(g)
            zero == [s \in SUBSET S |-> 0]
<1>1. SumFunctionOnSet(f, S) = iter[S]
  BY DEF SumFunctionOnSet, FoldFunctionOnSet, MapThenFoldSet
<1>2. \A s \in SUBSET S : s # {} => (CHOOSE x \in s : TRUE) \in s OBVIOUS
<1>3. Sums(zero)
  <2>1. ASSUME NEW s \in SUBSET S, s # {}
        PROVE  f[CHOOSE x \in s : TRUE] + zero[s \ {CHOOSE x \in s : TRUE}] = 0
    <3>1. f[CHOOSE x \in s : TRUE] = 0 BY <1>2, <2>1
    <3>2. s \ {CHOOSE x \in s : TRUE} \in SUBSET S OBVIOUS
    <3>. QED BY <3>1, <3>2
  <2>. QED BY <2>1
<1>4. Sums(iter) BY <1>3
<1>5. \A x \in S : f[x] = 0 OBVIOUS
<1>. HIDE DEF iter, f
<1>6. ASSUME NEW s \in SUBSET S
      PROVE  iter[s] = IF s = {} THEN 0 ELSE f[CHOOSE x \in s : TRUE]
                                             + iter[s \ {CHOOSE x \in s : TRUE}]
  BY <1>4
<1>. HIDE DEF Sums
<1>. DEFINE Bad  == {s \in SUBSET S : iter[s] # 0}
            Size == {Cardinality(s) : s \in Bad}
<1>7. \A s \in SUBSET S : IsFiniteSet(s) /\ Cardinality(s) \in Nat
  BY FS_Subset, FS_CardinalityType
<1>8. Bad = {}
  <2>. SUFFICES ASSUME Bad # {} PROVE FALSE OBVIOUS
  <2>1. Size \in SUBSET Nat /\ Size # {} BY <1>7
  <2>2. PICK n \in Size : \A m \in Size : n <= m BY <2>1, LeastNatural
  <2>3. PICK s \in Bad : n = Cardinality(s) BY <2>2
  <2>4. s \in SUBSET S /\ iter[s] # 0 BY <2>3
  <2>5. s # {} BY <1>6, <2>4
  <2>. DEFINE x == CHOOSE x \in s : TRUE
              t == s \ {x}
  <2>6. x \in s /\ x \in S /\ t \in SUBSET S BY <1>2, <2>4, <2>5
  <2>7. iter[s] = f[x] + iter[t] BY <1>6, <2>4, <2>5
  <2>8. f[x] = 0 BY <1>5, <2>6
  <2>. HIDE DEF x
  <2>9. Cardinality(t) = Cardinality(s) - 1 BY <1>7, <2>4, <2>6, FS_RemoveElement
  <2>10. Cardinality(t) \in Nat /\ Cardinality(s) \in Nat BY <1>7, <2>4, <2>6
  <2>11. ~(n <= Cardinality(t)) BY <2>3, <2>9, <2>10
  <2>12. t \notin Bad BY <2>2, <2>11
  <2>13. iter[t] = 0 BY <2>6, <2>12
  <2>. QED BY <2>4, <2>7, <2>8, <2>13
<1>9. iter[S] = 0 BY <1>8
<1>. QED BY <1>1, <1>9 DEF f

(* An account that holds nothing has all its cash to spend.                *)
LEMMA FlatBuysAll ==
    ASSUME IsFiniteSet(Symbols), NEW cash \in Int, NEW pos, \A sym \in Symbols : pos[sym] = None
    PROVE  BuyingPower(cash, pos) = cash
<1>. DEFINE h == [s \in Symbols |-> [qty |-> HeldQty(pos[s]), avg |-> HeldAvg(pos[s])]]
            f == [s \in DOMAIN h |->
                     IF h[s].qty < 0 THEN ShortReserve(-h[s].qty, h[s].avg) ELSE 0]
<1>1. \A s \in Symbols : h[s].qty = 0 BY DEF HeldQty
<1>2. DOMAIN h = Symbols OBVIOUS
<1>. HIDE DEF h
<1>3. f = [s \in Symbols |-> 0] BY <1>1, <1>2
<1>4. SumFunctionOnSet(f, Symbols) = 0 BY <1>3, SumOfZeros
<1>5. short_collateral(h) = QuantizeReserve(0) BY <1>2, <1>4 DEF short_collateral
<1>6. QuantizeReserve(0) = 0
  <2>. DEFINE den == QtyUnit * CollateralDen
  <2>1. den \in Nat \ {0} BY UnitsAssumption DEF CollateralDen
  <2>2. QuantizeReserve(0) = quantize(0, den) BY DEF QuantizeReserve
  <2>. HIDE DEF den
  <2>3. 0 \div den = 0 /\ 0 % den = 0 BY <2>1
  <2>. QED BY <2>1, <2>2, <2>3 DEF quantize, RoundNat
<1>7. BuyingPower(cash, pos) = cash - short_collateral(h) BY DEF BuyingPower, h
<1>. QED BY <1>5, <1>6, <1>7

(* Only what an account holds, and at which entry, reserves collateral.    *)
LEMMA SameHoldings ==
    ASSUME NEW cash, NEW p, NEW q,
           \A s \in Symbols : HeldQty(p[s]) = HeldQty(q[s]) /\ HeldAvg(p[s]) = HeldAvg(q[s])
    PROVE  BuyingPower(cash, p) = BuyingPower(cash, q)
<1>. DEFINE hold(r) == [s \in Symbols |-> [qty |-> HeldQty(r[s]), avg |-> HeldAvg(r[s])]]
<1>1. hold(p) = hold(q) OBVIOUS
<1>2. \A r : BuyingPower(cash, r) = cash - short_collateral(hold(r)) BY DEF BuyingPower
<1>. HIDE DEF hold
<1>. QED BY <1>1, <1>2

(* A workspace whose buying power is that of the rows it holds.            *)
Priced(w)      == w.bp = BuyingPower(w.cash, w.pos)
AllPriced      == \A s \in Sessions, a \in Accounts : lock[a] = s => Priced(work[s][a])
SweepsAreTimed == \A s \in Sessions : pc[s] = "sweep" => s \in Monitors

(* BuyingPowerExact says nothing of the buying power a commit will write,  *)
(* so what the sessions hold under their locks is priced as well.          *)
BpInv == BuyingPowerExact /\ AllPriced /\ SweepsAreTimed

(* What a step does to the sessions: a workspace held after it was held    *)
(* before it or is priced, and only a monitor starts a sweep.              *)
HeldPriced == \A s \in Sessions, a \in Accounts : lock'[a] = s =>
                  \/ lock[a] = s /\ work'[s][a] = work[s][a]
                  \/ Priced(work'[s][a])
NoNewSweep == \A s \in Sessions : pc'[s] = "sweep" => pc[s] = "sweep" \/ s \in Monitors

LEMMA SessionsBp ==
    ASSUME BpInv, HeldPriced, NoNewSweep
    PROVE  AllPriced' /\ SweepsAreTimed'
<1>1. ASSUME NEW s \in Sessions, NEW a \in Accounts, lock'[a] = s
      PROVE  Priced(work[s][a])'
  <2>1. Priced(work'[s][a]) BY <1>1 DEF BpInv, AllPriced, HeldPriced
  <2>. QED BY <2>1 DEF Priced
<1>2. SweepsAreTimed' BY DEF BpInv, SweepsAreTimed, NoNewSweep
<1>. QED BY <1>1, <1>2 DEF AllPriced

(* Nothing is published.                                                   *)
LEMMA UnpublishedBp ==
    ASSUME BpInv, account' = account, position' = position, HeldPriced, NoNewSweep
    PROVE  BpInv'
<1>1. BuyingPowerExact' BY DEF BpInv, BuyingPowerExact
<1>. QED BY <1>1, SessionsBp DEF BpInv

LEMMA EndedBp ==
    ASSUME Inv, NEW s \in Sessions, NEW where \in Errors \cup {"idle"}, EndTransaction(s, where)
    PROVE  HeldPriced /\ NoNewSweep
<1>1. Ended(s, where) BY AfterEnd DEF Inv
<1>2. where # "sweep" BY DEF Errors
<1>3. HeldPriced BY <1>1 DEF Ended, HeldPriced
<1>4. NoNewSweep BY <1>1, <1>2 DEF Ended, NoNewSweep
<1>. QED BY <1>3, <1>4

LEMMA RollbackBp ==
    ASSUME Inv, BpInv, NEW s \in Sessions, NEW where \in Errors \cup {"idle"}, Rollback(s, where)
    PROVE  BpInv'
<1>1. EndTransaction(s, where) /\ account' = account /\ position' = position
  BY DEF Rollback, dbVars
<1>. QED BY <1>1, EndedBp, UnpublishedBp

LEMMA CommitBp ==
    ASSUME Inv, BpInv, NEW s \in Sessions, NEW w, Commit(s, w),
           \A a \in Accounts : w[a] # None => Priced(w[a])
    PROVE  BpInv'
<1>1. /\ account'  = [a \in DOMAIN account |-> IF w[a] = None THEN account[a]
                                         ELSE [cash |-> w[a].cash, bp |-> w[a].bp]]
      /\ position' = [a \in Accounts |-> IF w[a] = None THEN position[a] ELSE w[a].pos]
      /\ EndTransaction(s, "idle")
  BY DEF Commit
<1>2. DOMAIN account' = DOMAIN account /\ DOMAIN account \subseteq Accounts
  BY <1>1 DEF Inv, TypeOK
<1>3. ASSUME NEW a \in DOMAIN account'
      PROVE  account'[a].bp = BuyingPower(account'[a].cash, position'[a])
  <2>0. a \in Accounts /\ a \in DOMAIN account BY <1>2
  <2>1. CASE w[a] = None
    <3>1. account'[a] = account[a] /\ position'[a] = position[a] BY <1>1, <2>0, <2>1
    <3>. QED BY <2>0, <3>1 DEF BpInv, BuyingPowerExact
  <2>2. CASE w[a] # None
    <3>1. account'[a].cash = w[a].cash /\ account'[a].bp = w[a].bp /\ position'[a] = w[a].pos
      BY <1>1, <2>0, <2>2
    <3>. QED BY <2>0, <2>2, <3>1 DEF Priced
  <2>. QED BY <2>1, <2>2
<1>4. BuyingPowerExact' BY <1>3 DEF BuyingPowerExact
<1>5. HeldPriced /\ NoNewSweep BY <1>1, EndedBp
<1>. QED BY <1>4, <1>5, SessionsBp DEF BpInv

(* A fill prices the workspace it leaves, when what the session sees of    *)
(* the other symbols is what it holds of them.                             *)
LEMMA FillPriced ==
    ASSUME NEW a \in Accounts, NEW w, Sound(w, a), Priced(w), NEW key, NEW quote, NEW pid, NEW view,
           NEW req \in OrderBodies,
           \A r : [view EXCEPT ![req.symbol] = r] = [w.pos EXCEPT ![req.symbol] = r]
    PROVE  Priced(fill_market(w, key, req, quote, pid, view))
<1>. DEFINE fq  == Price(req, quote)
            old == w.pos[req.symbol]
            out == apply_fill(w.cash, HeldQty(old), HeldAvg(old), req.side, fq.qty, fq.price, fq.fees)
            new == RowAfter(old, pid, IsOpening(req.side, HeldQty(old)), out, fq.price, Levels(req))
            res == Executed(w, key, req, old, fq, pid, view)
<1>1. /\ res.cash = out.cash
      /\ res.bp = BuyingPower(out.cash, [view EXCEPT ![req.symbol] = new])
      /\ res.pos = [w.pos EXCEPT ![req.symbol] = new]
  BY DEF Executed
<1>2. Priced(res)
  <2>. HIDE DEF res, new, out
  <2>1. [view EXCEPT ![req.symbol] = new] = [w.pos EXCEPT ![req.symbol] = new] OBVIOUS
  <2>. QED BY <1>1, <2>1 DEF Priced
<1>3. Priced(WithStatus(w, key, "rejected"))
  <2>1. w = [cash |-> w.cash, bp |-> w.bp, pos |-> w.pos, ord |-> w.ord, delta |-> w.delta]
    BY DEF Sound, WorkOK
  <2>. QED BY <2>1 DEF WithStatus, Priced
<1>. HIDE DEF res
<1>4. fill_market(w, key, req, quote, pid, view) \in {res, WithStatus(w, key, "rejected")}
  BY DEF fill_market, res
<1>. QED BY <1>2, <1>3, <1>4

(* A handler that commits its order writes a priced account: what it       *)
(* loaded under the lock is all there is.                                  *)
LEMMA PlaceBp ==
    ASSUME Inv, BpInv, NEW s \in Sessions, PlaceReject(s) \/ PlaceAccept(s) \/ PlaceFill(s)
    PROVE  BpInv'
<1>. DEFINE acct == job[s].acct
            key  == job[s].key
            w    == work[s][acct]
<1>1. pc[s] = "fill" BY DEF PlaceReject, PlaceAccept, PlaceFill
<1>2. acct \in Accounts /\ job[s].req \in OrderBodies /\ Sound(w, acct) BY <1>1, AtFill
<1>3. lock[acct] = s BY <1>1 DEF Inv, FillInv
<1>4. Priced(w) BY <1>2, <1>3 DEF BpInv, AllPriced
<1>5. DOMAIN work[s] = Accounts BY DEF Inv, TypeOK
<1>6. ASSUME NEW r, Priced(r), Commit(s, [work[s] EXCEPT ![acct] = r])
      PROVE  BpInv'
  <2>1. ASSUME NEW a \in Accounts, [work[s] EXCEPT ![acct] = r][a] # None
        PROVE  Priced([work[s] EXCEPT ![acct] = r][a])
    <3>1. CASE a = acct BY <1>5, <1>6, <3>1
    <3>2. CASE a # acct
      <4>1. [work[s] EXCEPT ![acct] = r][a] = work[s][a] BY <1>5, <3>2
      <4>2. lock[a] = s BY <2>1, <4>1 DEF Inv, LockInv
      <4>. QED BY <4>1, <4>2 DEF BpInv, AllPriced
    <3>. QED BY <3>1, <3>2
  <2>. QED BY <1>6, <2>1, CommitBp
<1>7. ASSUME NEW status, Commit(s, [work[s] EXCEPT ![acct] = WithStatus(@, key, status)])
      PROVE  BpInv'
  <2>1. [work[s] EXCEPT ![acct] = WithStatus(@, key, status)] = [work[s] EXCEPT ![acct] = WithStatus(w, key, status)]
    BY <1>2, <1>5
  <2>2. w = [cash |-> w.cash, bp |-> w.bp, pos |-> w.pos, ord |-> w.ord, delta |-> w.delta]
    BY <1>2 DEF Sound, WorkOK
  <2>3. Priced(WithStatus(w, key, status)) BY <1>4, <2>2 DEF WithStatus, Priced
  <2>4. Commit(s, [work[s] EXCEPT ![acct] = WithStatus(w, key, status)]) BY <1>7, <2>1
  <2>. QED BY <1>6, <2>3, <2>4
<1>8. CASE PlaceReject(s) BY <1>7, <1>8 DEF PlaceReject
<1>9. CASE PlaceAccept(s) BY <1>7, <1>9 DEF PlaceAccept
<1>10. CASE PlaceFill(s)
  <2>1. PICK quote \in Quotes :
           Commit(s, [work[s] EXCEPT ![acct] = fill_market(w, key, job[s].req, quote, nextPid, w.pos)])
    BY <1>10 DEF PlaceFill
  <2>2. Priced(fill_market(w, key, job[s].req, quote, nextPid, w.pos))
    BY <1>2, <1>4, FillPriced
  <2>. QED BY <1>6, <2>1, <2>2
<1>. QED BY <1>8, <1>9, <1>10

(* A sweep of an account with one symbol sees what it holds: the ratchet   *)
(* changes no holding, and an exit replaces the one row there is.          *)
LEMMA SweepPriced ==
    ASSUME Inv, BpInv, NEW s \in Sessions, NEW quote \in QuoteRows, pc[s] = "sweep",
           NEW e \in Current(s), ~Gone(s, e), \A x, y \in Symbols : x = y
    PROVE  Priced(AfterExit(s, e, quote))
<1>. DEFINE w    == work[s][e.acct]
            row  == w.pos[e.sym]
            d    == Judge(row, quote)
            key  == [pid |-> e.pid, tick |-> job[s].tick]
            kept == [w EXCEPT !.pos[e.sym].hw = d.high_water]
            req  == ExitRequest(e.sym, row.qty)
            newRow == [row EXCEPT !.hw = d.high_water]
            newPos == [w.pos EXCEPT ![e.sym] = newRow]
<1>1. job[s] \in [tick : Ticks, todo : SUBSET Entries]
  BY DEF Inv, TypeOK, JobOK, Entries
<1>2. e \in Entries /\ lock[e.acct] = s BY <1>1 DEF Current, NextEntries, Holds
<1>3. e.acct \in Accounts /\ e.sym \in Symbols BY <1>2 DEF Entries
<1>4. Sound(w, e.acct) /\ Priced(w) BY <1>2, <1>3 DEF Inv, LockInv, BpInv, AllPriced
<1>5. row \in PosRows(PosIds)
  <2>1. row \in PosRows(PosIds) \cup {None} BY <1>3, <1>4 DEF Sound, WorkOK
  <2>2. row # None BY DEF Gone
  <2>. QED BY <2>1, <2>2
<1>6. row.qty \in Int \ {0} /\ row.avg \in Int /\ row.hw \in Int BY <1>5 DEF PosRows
<1>7. d.high_water \in Int
  <2>1. d.high_water = Ratchet(row.qty, row.hw, row.avg, quote.last) BY DEF Judge, evaluate_exit
  <2>2. quote.last \in Int BY DEF QuoteRows, Amounts
  <2>. HIDE DEF d, row
  <2>. QED BY <1>6, <2>1, <2>2 DEF Ratchet, Smaller, Larger
<1>8. req \in OrderBodies
  <2>. HIDE DEF row
  <2>1. Abs(row.qty) \in Amounts BY <1>6 DEF Abs, Amounts
  <2>2. Abs(row.qty) # None BY <2>1, NoneAssumption DEF Amounts
  <2>. QED BY <1>3, <2>1, <2>2 DEF ExitRequest, OrderBodies, Sides
<1>9. req.symbol = e.sym BY DEF ExitRequest
<1>. HIDE DEF d
<1>10. newRow \in PosRows(PosIds) BY <1>5, <1>7 DEF PosRows
<1>11. w.pos \in [Symbols -> PosRows(PosIds) \cup {None}] BY <1>4 DEF Sound, WorkOK
<1>12. newPos \in [Symbols -> PosRows(PosIds) \cup {None}] /\ newPos[e.sym] = newRow
  BY <1>3, <1>10, <1>11
<1>13. HeldQty(newPos[e.sym]) = HeldQty(w.pos[e.sym]) /\ HeldAvg(newPos[e.sym]) = HeldAvg(w.pos[e.sym])
  <2>1. newRow # None /\ row # None
    <3>1. PosIds \subseteq Nat BY BrokerAssumption DEF PosIds
    <3>2. PosRows(PosIds) \subseteq PosRows(Nat) BY <3>1 DEF PosRows
    <3>. HIDE DEF newRow, row
    <3>. QED BY <1>5, <1>10, <3>2, RowAssumption
  <2>2. newRow.qty = row.qty /\ newRow.avg = row.avg BY <1>5 DEF PosRows
  <2>. HIDE DEF newPos, newRow
  <2>. QED BY <1>12, <2>1, <2>2 DEF HeldQty, HeldAvg
<1>14. kept = [w EXCEPT !.pos = newPos] OBVIOUS
<1>15. w = [cash |-> w.cash, bp |-> w.bp, pos |-> w.pos, ord |-> w.ord, delta |-> w.delta]
  BY <1>4 DEF Sound, WorkOK
<1>. HIDE DEF newPos, kept
<1>16. kept = [cash |-> w.cash, bp |-> w.bp, pos |-> newPos, ord |-> w.ord, delta |-> w.delta]
  BY <1>14, <1>15
<1>17. Priced(kept)
  <2>1. BuyingPower(w.cash, newPos) = BuyingPower(w.cash, w.pos)
    BY <1>3, <1>13, SameHoldings
  <2>. HIDE DEF w
  <2>. QED BY <1>4, <1>16, <2>1 DEF Priced
<1>18. Sound(kept, e.acct)
  <2>. HIDE DEF w
  <2>1. WorkOK(kept) BY <1>4, <1>12, <1>16 DEF Sound, WorkOK
  <2>. QED BY <1>4, <1>16, <2>1 DEF Sound
<1>19. ASSUME NEW r PROVE [Seen(s, e) EXCEPT ![e.sym] = r] = [kept.pos EXCEPT ![e.sym] = r]
  <2>. DEFINE view == Seen(s, e)
  <2>1. DOMAIN view = Symbols BY DEF Seen
  <2>2. DOMAIN kept.pos = Symbols BY <1>12, <1>16
  <2>. HIDE DEF view
  <2>3. [view EXCEPT ![e.sym] = r] = [x \in Symbols |-> r] BY <1>3, <2>1
  <2>4. [kept.pos EXCEPT ![e.sym] = r] = [x \in Symbols |-> r] BY <1>3, <2>2
  <2>. QED BY <2>3, <2>4 DEF view
<1>20. CASE d.should_exit /\ order[e.acct][key] = None
  <2>1. AfterExit(s, e, quote) = fill_market(kept, key, req, quote, e.pid, Seen(s, e))
    BY <1>20 DEF AfterExit, d, kept
  <2>. HIDE DEF key, req
  <2>2. \A r : [Seen(s, e) EXCEPT ![req.symbol] = r] = [kept.pos EXCEPT ![req.symbol] = r]
    BY <1>9, <1>19
  <2>3. Priced(fill_market(kept, key, req, quote, e.pid, Seen(s, e)))
    BY <1>3, <1>8, <1>17, <1>18, <2>2, FillPriced
  <2>. QED BY <2>1, <2>3
<1>21. CASE ~(d.should_exit /\ order[e.acct][key] = None)
  <2>1. AfterExit(s, e, quote) = kept BY <1>21 DEF AfterExit, d, kept
  <2>. QED BY <1>17, <2>1
<1>. QED BY <1>20, <1>21

LEMMA SettlePositionBp ==
    ASSUME OneView, Inv, BpInv, NEW s \in Sessions, SettlePosition(s)
    PROVE  BpInv'
<1>1. PICK e \in Current(s), quote \in Quotes :
         /\ ~Gone(s, e)
         /\ work' = IF Usable(quote) THEN [work EXCEPT ![s][e.acct] = AfterExit(s, e, quote)] ELSE work
  BY DEF SettlePosition
<1>2. /\ account' = account /\ position' = position /\ lock' = lock /\ pc' = pc
      /\ pc[s] = "sweep"
  BY DEF SettlePosition, dbVars
<1>3. \A x, y \in Symbols : x = y
  <2>1. s \in Monitors BY <1>2 DEF BpInv, SweepsAreTimed
  <2>. QED BY <2>1 DEF OneView
<1>4. DOMAIN work = Sessions /\ \A t \in Sessions : DOMAIN work[t] = Accounts
  BY DEF Inv, TypeOK
<1>5. HeldPriced
  <2>1. CASE Usable(quote)
    <3>1. quote \in QuoteRows BY <2>1, BrokerAssumption DEF Usable
    <3>2. e.acct \in Accounts /\ lock[e.acct] = s BY <1>1, <1>2, <3>1, AfterExitSound
    <3>3. Priced(AfterExit(s, e, quote)) BY <1>1, <1>2, <1>3, <3>1, SweepPriced
    <3>4. work' = [work EXCEPT ![s][e.acct] = AfterExit(s, e, quote)] BY <1>1, <2>1
    <3>5. work'[s][e.acct] = AfterExit(s, e, quote) BY <1>4, <3>2, <3>4
    <3>6. \A t \in Sessions, a \in Accounts : t # s \/ a # e.acct => work'[t][a] = work[t][a]
      BY <1>4, <3>2, <3>4
    <3>. QED BY <1>2, <3>3, <3>5, <3>6 DEF HeldPriced
  <2>2. CASE ~Usable(quote) BY <1>1, <1>2, <2>2 DEF HeldPriced
  <2>. QED BY <2>1, <2>2
<1>6. NoNewSweep BY <1>2 DEF NoNewSweep
<1>. QED BY <1>2, <1>5, <1>6, UnpublishedBp

(* A new account has its starting cash to spend, for it holds nothing.     *)
LEMMA CreateInsertBp ==
    ASSUME OneView, Inv, BpInv, NEW s \in Sessions, CreateInsert(s)
    PROVE  BpInv'
<1>. DEFINE new == job[s].acct
<1>1. /\ pc[s] = "create" /\ new \notin DOMAIN account
      /\ account' = [a \in DOMAIN account \cup {new} |->
                       IF a = new THEN [cash |-> StartingCash, bp |-> StartingCash] ELSE account[a]]
      /\ EndTransaction(s, "idle") /\ position' = position
  BY DEF CreateInsert, Exists
<1>2. new \in Accounts BY <1>1 DEF Inv, TypeOK, JobOK
<1>. HIDE DEF new
<1>3. \A sym \in Symbols : position[new][sym] = None
  BY <1>1, <1>2 DEF Inv, HasAccount, Exists
<1>4. BuyingPower(StartingCash, position[new]) = StartingCash
  <2>1. StartingCash \in Int BY BrokerAssumption
  <2>. QED BY <1>3, <2>1, FlatBuysAll DEF OneView
<1>5. ASSUME NEW a \in DOMAIN account'
      PROVE  account'[a].bp = BuyingPower(account'[a].cash, position'[a])
  <2>1. CASE a = new
    <3>1. account'[a] = [cash |-> StartingCash, bp |-> StartingCash] BY <1>1, <2>1
    <3>. QED BY <1>1, <1>4, <2>1, <3>1
  <2>2. CASE a # new
    <3>1. a \in DOMAIN account /\ account'[a] = account[a] BY <1>1, <2>2
    <3>. QED BY <1>1, <3>1 DEF BpInv, BuyingPowerExact
  <2>. QED BY <2>1, <2>2
<1>6. BuyingPowerExact' BY <1>5 DEF BuyingPowerExact
<1>7. HeldPriced /\ NoNewSweep BY <1>1, EndedBp
<1>. QED BY <1>6, <1>7, SessionsBp DEF BpInv

(* Taking the lock loads what the database holds.                          *)
LEMMA LockBp ==
    ASSUME Inv, BpInv, NEW s \in Sessions, NEW a \in Accounts, Exists(a), LockAndLoad(s, a),
           account' = account, position' = position, NoNewSweep
    PROVE  BpInv'
<1>1. lock' = [lock EXCEPT ![a] = s] /\ work' = [work EXCEPT ![s][a] = Loaded(a)]
  BY DEF LockAndLoad
<1>2. /\ lock \in [Accounts -> Sessions \cup {None}] /\ DOMAIN work = Sessions
      /\ \A t \in Sessions : DOMAIN work[t] = Accounts
  BY DEF Inv, TypeOK
<1>3. Priced(Loaded(a)) BY DEF Priced, Loaded, BpInv, BuyingPowerExact, Exists
<1>4. ASSUME NEW t \in Sessions, NEW b \in Accounts, lock'[b] = t
      PROVE  (lock[b] = t /\ work'[t][b] = work[t][b]) \/ Priced(work'[t][b])
  <2>1. CASE b = a
    <3>1. t = s BY <1>1, <1>2, <1>4, <2>1
    <3>2. work'[t][b] = Loaded(a) BY <1>1, <1>2, <2>1, <3>1
    <3>. QED BY <1>3, <3>2
  <2>2. CASE b # a
    <3>1. lock[b] = t BY <1>1, <1>2, <1>4, <2>2
    <3>2. work'[t][b] = work[t][b] BY <1>1, <1>2, <2>2
    <3>. QED BY <3>1, <3>2
  <2>. QED BY <2>1, <2>2
<1>5. HeldPriced BY <1>4 DEF HeldPriced
<1>. QED BY <1>5, UnpublishedBp

LEMMA InitBp == Init => BpInv
<1>. SUFFICES ASSUME Init PROVE BpInv OBVIOUS
<1>. USE DEF Init
<1>1. BuyingPowerExact BY DEF BuyingPowerExact
<1>2. AllPriced BY NoneIsNoSession DEF AllPriced
<1>3. SweepsAreTimed BY DEF SweepsAreTimed
<1>. QED BY <1>1, <1>2, <1>3 DEF BpInv

(* A step that writes no account and takes no lock.                        *)
LEMMA QuietBp ==
    ASSUME BpInv, account' = account, position' = position, lock' = lock, work' = work, NoNewSweep
    PROVE  BpInv'
<1>1. HeldPriced BY DEF HeldPriced
<1>. QED BY <1>1, UnpublishedBp

LEMMA ProceedBp ==
    ASSUME OneView, Inv, BpInv, NEW s \in Sessions, Proceed(s) \/ EarlyReturn(s) \/ Crash(s)
    PROVE  BpInv'
<1>0. pc \in [Sessions -> Places] BY DEF Inv, TypeOK
<1>1. ASSUME NEW where \in Errors \cup {"idle"}, Rollback(s, where) PROVE BpInv'
  BY <1>1, RollbackBp
<1>2. CASE CreateDuplicate(s) BY <1>1, <1>2 DEF CreateDuplicate, Errors
<1>3. CASE PlaceNoAccount(s) BY <1>1, <1>3 DEF PlaceNoAccount, Errors
<1>4. CASE PlaceDuplicate(s) BY <1>1, <1>4 DEF PlaceDuplicate, Errors
<1>5. CASE PlaceFillFails(s) BY <1>1, <1>5 DEF PlaceFillFails, Errors
<1>6. CASE SettleRowGone(s) BY <1>1, <1>6 DEF SettleRowGone, Errors
<1>7. CASE Crash(s) BY <1>1, <1>7 DEF Crash, Errors
<1>8. CASE PlaceReject(s) \/ PlaceAccept(s) \/ PlaceFill(s) BY <1>8, PlaceBp
<1>9. CASE PlaceLock(s)
  <2>. DEFINE a == job[s].acct
  <2>1. /\ pc[s] = "lock" /\ Exists(a) /\ LockAndLoad(s, a) /\ pc' = [pc EXCEPT ![s] = "fill"]
        /\ account' = account /\ position' = position
    BY <1>9 DEF PlaceLock, dbVars
  <2>2. a \in Accounts BY <2>1 DEF Inv, TypeOK, JobOK
  <2>3. NoNewSweep BY <1>0, <2>1 DEF NoNewSweep
  <2>. QED BY <2>1, <2>2, <2>3, LockBp
<1>10. CASE SettleLock(s)
  <2>1. PICK a \in NextAccounts(job[s].todo) : LockAndLoad(s, a) BY <1>10 DEF SettleLock
  <2>2. pc[s] = "sweep" /\ pc' = pc /\ account' = account /\ position' = position
    BY <1>10 DEF SettleLock, dbVars
  <2>3. PICK e \in job[s].todo : a = e.acct BY <2>1 DEF NextAccounts
  <2>4. a \in Accounts /\ Exists(a) BY <2>2, <2>3 DEF Inv, SweepInv, TypeOK, JobOK
  <2>5. NoNewSweep BY <2>2 DEF NoNewSweep
  <2>. QED BY <2>1, <2>2, <2>4, <2>5, LockBp
<1>11. CASE Return500(s)
  <2>1. /\ pc' = [pc EXCEPT ![s] = "idle"] /\ account' = account /\ position' = position
        /\ lock' = lock /\ work' = work
    BY <1>11 DEF Return500, dbVars
  <2>2. NoNewSweep BY <1>0, <2>1 DEF NoNewSweep
  <2>. QED BY <2>1, <2>2, QuietBp
<1>12. CASE EarlyReturn(s)
  <2>1. account' = account /\ position' = position /\ lock' = lock /\ work' = work /\ pc' = pc
    BY <1>12 DEF EarlyReturn, vars, dbVars, sessVars
  <2>2. NoNewSweep BY <2>1 DEF NoNewSweep
  <2>. QED BY <2>1, <2>2, QuietBp
<1>13. CASE CreateInsert(s) BY <1>13, CreateInsertBp
<1>14. CASE CancelWrite(s)
  <2>1. EndTransaction(s, "idle") /\ account' = account /\ position' = position
    BY <1>14 DEF CancelWrite
  <2>2. HeldPriced /\ NoNewSweep BY <2>1, EndedBp
  <2>. QED BY <2>1, <2>2, UnpublishedBp
<1>15. CASE SettlePosition(s) BY <1>15, SettlePositionBp
<1>16. CASE SettleCommit(s)
  <2>1. \A a \in Accounts : work[s][a] # None => Priced(work[s][a])
    BY DEF Inv, LockInv, BpInv, AllPriced
  <2>2. Commit(s, work[s]) BY <1>16 DEF SettleCommit
  <2>. QED BY <2>1, <2>2, CommitBp
<1>. QED BY <1>2, <1>3, <1>4, <1>5, <1>6, <1>7, <1>8, <1>9, <1>10, <1>11, <1>12, <1>13, <1>14, <1>15, <1>16
         DEF Proceed

LEMMA BeginBp ==
    ASSUME Inv, BpInv,
           \/ \E s \in Clients : ClientStart(s)
           \/ \E s \in Monitors : MonitorStart(s)
    PROVE  BpInv'
<1>0. pc \in [Sessions -> Places] BY DEF Inv, TypeOK
<1>1. ASSUME NEW s \in Sessions, NEW where, pc' = [pc EXCEPT ![s] = where],
             where # "sweep" \/ s \in Monitors,
             UNCHANGED <<dbVars, lock, work, crashes>>
      PROVE  BpInv'
  <2>1. account' = account /\ position' = position /\ lock' = lock /\ work' = work
    BY <1>1 DEF dbVars
  <2>2. NoNewSweep BY <1>0, <1>1 DEF NoNewSweep
  <2>. QED BY <2>1, <2>2, QuietBp
<1>2. ASSUME NEW s \in Clients, ClientStart(s) PROVE BpInv'
  <2>1. PICK where \in {"create", "lock", "cancel"} :
           pc' = [pc EXCEPT ![s] = where] /\ UNCHANGED <<dbVars, lock, work, crashes>>
    BY <1>2 DEF ClientStart, CreateCheck, PlaceCheck, CancelRead
  <2>. QED BY <1>1, <2>1 DEF Sessions
<1>3. ASSUME NEW s \in Monitors, MonitorStart(s) PROVE BpInv'
  <2>1. pc' = [pc EXCEPT ![s] = "sweep"] /\ UNCHANGED <<dbVars, lock, work, crashes>>
    BY <1>3 DEF MonitorStart, SettleScan
  <2>. QED BY <1>1, <2>1 DEF Sessions
<1>. QED BY <1>2, <1>3

LEMMA NextBp ==
    ASSUME OneView, Inv, BpInv, [Next]_vars
    PROVE  BpInv'
<1>1. CASE UNCHANGED vars
  <2>1. account' = account /\ position' = position /\ lock' = lock /\ work' = work /\ pc' = pc
    BY <1>1 DEF vars, dbVars, sessVars
  <2>2. NoNewSweep BY <2>1 DEF NoNewSweep
  <2>. QED BY <2>1, <2>2, QuietBp
<1>2. ASSUME NEW s \in Sessions, Proceed(s) \/ EarlyReturn(s) \/ Crash(s) PROVE BpInv'
  BY <1>2, ProceedBp
<1>. QED BY <1>1, <1>2, BeginBp DEF Next

(* The stored buying_power is always the cash less the collateral of the   *)
(* shorts that are open, as long as nobody settles exits on accounts that  *)
(* hold several symbols: every handler recomputes it from rows it loaded   *)
(* under the account's lock (the end of _fill_market).  The                *)
(* sweep of several symbols is where it goes wrong, and that the runs show.*)
THEOREM BuyingPowerIsExact ==
    ASSUME OneView
    PROVE  Spec => []BuyingPowerExact
<1>1. Init => BpInv BY InitBp
<1>2. Inv /\ BpInv /\ [Next]_vars => BpInv' BY NextBp
<1>3. BpInv => BuyingPowerExact BY DEF BpInv
<1>. QED BY <1>1, <1>2, <1>3, BrokerInvariant, PTL DEF Spec
=============================================================================
