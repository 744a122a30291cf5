------------------------- MODULE DecisionTickProofs -------------------------
(***************************************************************************)
(* The decision tick, for any symbols, any number of ticks and actions and *)
(* any number of lost answers, crashes, abandoned attempts, failed reads   *)
(* and exits of the monitor: a tick orders each of its actions once and    *)
(* the audit says what became of it; what it opens has a stop; and the     *)
(* diary follows the positions as long as the failures named in            *)
(* DiaryFollowsPositions stay away.                                        *)
(*                                                                         *)
(* That retrying is safe rests on three facts.  A key stands for one place *)
(* in the plan, in the ledger (KeysStand) and in every request that is     *)
(* still on its way (LateStand).  An attempt has accounted for exactly the *)
(* actions before the one it works on (Accounted).  And as long as Temporal*)
(* abandons nobody, the attempt it waits for is the only one alive (Alone),*)
(* so that what this attempt has read of the diary stays true (Follows).   *)
(***************************************************************************)
EXTENDS DecisionTick, TLAPS

Working == {"place", "record", "list", "find", "write"}
Reading == {"find", "write"}

KeysStand == \A k \in Keys : order[k] # None => order[k].act = k[2]

(* The order of key k.                                                     *)
KeyOrder(k) == OrderOf(k, k[2])

LateStand ==
    \A r \in late : /\ plan[r.key[1]] # None
                    /\ r.key[2] \in DOMAIN plan[r.key[1]].actions
                    /\ r.order = KeyOrder(r.key)

Started ==
    /\ \A x \in Attempts : run[x].pc # "off" => plan[x[1]] # None
    /\ \A t \in Ticks : audit[t] # None => plan[t] # None
    /\ current # None => run[current].pc \notin {"off", "done"}

Entered(x, p) == p.key = <<x[1], p.act>> /\ order[p.key] = [act |-> p.act, status |-> p.status]

Accounts(x) ==
    /\ {p.act : p \in run[x].placed} \cup run[x].failed = 1 .. run[x].at - 1
    /\ run[x].at - 1 <= Len(Actions(x))
    /\ run[x].pc # "place" => run[x].at - 1 = Len(Actions(x))
    /\ \A p \in run[x].placed : Entered(x, p)
Accounted == \A x \in Attempts : run[x].pc \in Working => Accounts(x)

(* What has been read is there.                                            *)
HasRead ==
    /\ \A x \in Attempts : /\ run[x].pc \in Reading => run[x].view \in Views
                           /\ run[x].pc = "write" => run[x].row \in Found
    /\ mon.pc # "idle" => mon.life \in [Symbols -> Nat]
    /\ mon.pc = "write" => mon.row \in Found

(* What is open on a symbol has one direction.                             *)
Sided(t) ==
    LET actions == plan[t].actions IN
    /\ \A i \in DOMAIN actions :
         /\ actions[i].kind = "close" => plan[t].positions[actions[i].symbol] # 0
         /\ actions[i].kind = "buy" => plan[t].positions[actions[i].symbol] >= 0
         /\ actions[i].kind = "short" => plan[t].positions[actions[i].symbol] <= 0
    /\ \A i, j \in DOMAIN actions :
         ~(actions[i].symbol = actions[j].symbol /\ actions[i].kind = "buy" /\ actions[j].kind = "short")
PlansSided == \A t \in Ticks : plan[t] # None => Sided(t)

(* What an attempt has read is not newer than the positions: a symbol it   *)
(* saw flat is flat, or has begun another life.                            *)
Seen(x) ==
    /\ \A s \in Symbols : run[x].view[s].life <= life[s]
    /\ readFails = 0 => \A s \in Symbols : run[x].view[s].qty = 0 => pos[s] = 0 \/ run[x].view[s].life < life[s]
SeenTrue == \A x \in Attempts : run[x].pc \in Reading => Seen(x)

LastLived == \A s \in Symbols : \A i \in DOMAIN diary[s] : diary[s][i].last <= life[s]
OneOpen == \A s \in Symbols : \A i, j \in OpenRows(diary[s]) : i = j

(* A row that was found is still there.                                    *)
Finds(row) == \A s \in Symbols : row[s] # None => row[s] \in DOMAIN diary[s]
FoundStays == /\ \A x \in Attempts : run[x].pc = "write" => Finds(run[x].row)
              /\ mon.pc = "write" => Finds(mon.row)

(* The attempt that Temporal waits for is alone.                           *)
Alone ==
    zombies = 0 => /\ \A x \in Attempts : Live(x) => x = current
                   /\ \A x \in Attempts : run[x].pc = "record" => audit[x[1]] = None
MonitorRests == exits = 0 => mon.pc = "idle"

(* Alone and without the monitor, an attempt finds the diary as it was.    *)
Current(x) ==
    /\ \A s \in Symbols : \A i \in DOMAIN diary[s] : diary[s][i].last <= run[x].view[s].life
    /\ run[x].pc = "write" => \A s \in Symbols :
         IF OpenRows(diary[s]) = {} THEN run[x].row[s] = None ELSE run[x].row[s] \in OpenRows(diary[s])
Follows == zombies + exits = 0 => \A x \in Attempts : run[x].pc \in Reading => Current(x)

(* Without any failure: what the tick has done to the positions, and what  *)
(* of it the diary still lacks.                                            *)
Clean == lost + crashes + zombies + readFails + exits = 0

Behind(x) ==
    /\ \A s \in Symbols : OpenRows(diary[s]) # {} <=> plan[x[1]].positions[s] # 0
    /\ \A s \in Symbols : pos[s] # 0 /\ plan[x[1]].positions[s] = 0 => s \in PlacedSymbols(x, {"buy", "short"})
    /\ \A s \in Symbols : pos[s] = 0 /\ plan[x[1]].positions[s] # 0 => s \in PlacedSymbols(x, {"close"})
    /\ \A i \in DOMAIN Actions(x) : /\ Actions(x)[i].kind = "buy" => pos[Actions(x)[i].symbol] >= 0
                                    /\ Actions(x)[i].kind = "short" => pos[Actions(x)[i].symbol] <= 0
    /\ run[x].pc \in Reading => \A s \in Symbols : run[x].view[s].qty = pos[s]

InStep ==
    Clean =>
        /\ late = {}
        /\ \A x \in Attempts : run[x].pc # "dead"
        /\ IF current = None THEN \A s \in Symbols : pos[s] # 0 <=> OpenRows(diary[s]) # {}
                             ELSE Behind(current)

OrderInv == TypeOK /\ KeysStand /\ LateStand /\ Started /\ Accounted /\ HasRead /\ AuditAccounts
DiaryInv == PlansSided /\ SeenTrue /\ LastLived /\ OneOpen /\ FoundStays /\ Alone /\ MonitorRests
            /\ Follows /\ InStep /\ ClosedAtFlat

-----------------------------------------------------------------------------
(* None is none of the values it stands beside.                            *)
LEMMA NoneApart ==
    /\ None \notin Attempts /\ None \notin PlanRows /\ None \notin OrderRows /\ None \notin AuditRows
    /\ None \notin Int
BY TickAssumption

LEMMA BoundsAreNat ==
    /\ MaxTicks \in Nat /\ MaxActions \in Nat /\ MaxQty \in Nat /\ MaxLost \in Nat /\ MaxCrashes \in Nat
    /\ MaxZombies \in Nat /\ MaxReadFails \in Nat /\ MaxExits \in Nat
BY TickAssumption

LEMMA KeyParts ==
    /\ \A k \in Keys : k[1] \in Ticks /\ k[2] \in Indices /\ k = <<k[1], k[2]>>
    /\ \A x \in Attempts : x[1] \in Ticks
    /\ \A t \in Ticks : <<t, 1>> \in Attempts /\ <<t, 2>> \in Attempts /\ <<t, 3>> \in Attempts
BY DEF Keys, Attempts

LEMMA DecisionTyped ==
    ASSUME NEW actions \in Decisions
    PROVE  /\ actions \in Seq(ActionSet)
           /\ Len(actions) \in 0 .. MaxActions
           /\ DOMAIN actions = 1 .. Len(actions)
           /\ \A i \in DOMAIN actions : actions[i] \in ActionSet /\ i \in Indices
<1>1. PICK n \in 0 .. MaxActions : actions \in [1 .. n -> ActionSet] BY DEF Decisions
<1>2. n \in Nat BY BoundsAreNat
<1>3. actions \in Seq(ActionSet) BY <1>1, <1>2
<1>4. Len(actions) = n BY <1>1, <1>2, <1>3
<1>. QED BY <1>1, <1>2, <1>3, <1>4, BoundsAreNat DEF Indices

LEMMA PlanTyped ==
    ASSUME TypeOK, NEW t \in Ticks, plan[t] # None
    PROVE  /\ plan[t].positions \in [Symbols -> Int]
           /\ plan[t].actions \in Decisions
           /\ Len(plan[t].actions) \in 0 .. MaxActions
           /\ DOMAIN plan[t].actions = 1 .. Len(plan[t].actions)
           /\ \A i \in DOMAIN plan[t].actions : plan[t].actions[i] \in ActionSet /\ i \in Indices
<1>1. plan[t] \in PlanRows BY DEF TypeOK
<1>2. plan[t].positions \in [Symbols -> Int] /\ plan[t].actions \in Decisions BY <1>1 DEF PlanRows
<1>. QED BY <1>2, DecisionTyped

(* An order of the plan.                                                   *)
LEMMA OrderTyped ==
    ASSUME TypeOK, NEW x, x[1] \in Ticks, plan[x[1]] # None, NEW i \in DOMAIN Actions(x)
    PROVE  /\ OrderOf(x, i).act = i
           /\ i \in Indices
           /\ OrderOf(x, i).symbol = Actions(x)[i].symbol
           /\ OrderOf(x, i).symbol \in Symbols
           /\ OrderOf(x, i).qty \in Int
           /\ OrderOf(x, i).reduce_only <=> Actions(x)[i].kind = "close"
           /\ Actions(x)[i].kind = "buy" => OrderOf(x, i).qty = 1
           /\ Actions(x)[i].kind = "short" => OrderOf(x, i).qty = -1
           /\ Actions(x)[i].kind \in {"buy", "short", "close"}
           /\ "negative" \notin Stops /\ Actions(x)[i].kind # "close" => OrderOf(x, i).stop = "positive"
<1>1. /\ Actions(x)[i] \in ActionSet
      /\ i \in Indices
      /\ plan[x[1]].positions \in [Symbols -> Int]
  BY PlanTyped DEF Actions
<1>2. /\ Actions(x)[i].symbol \in Symbols
      /\ Actions(x)[i].kind \in {"buy", "short", "close"}
      /\ Actions(x)[i].kind # "close" => Actions(x)[i].stop \in Stops
  BY <1>1 DEF ActionSet
<1>3. plan[x[1]].positions[Actions(x)[i].symbol] \in Int BY <1>1, <1>2
<1>4. CASE Actions(x)[i].kind = "close"
  <2>1. OrderOf(x, i) = [act |-> i, symbol |-> Actions(x)[i].symbol,
                         qty |-> -plan[x[1]].positions[Actions(x)[i].symbol], reduce_only |-> TRUE, stop |-> "none"]
    BY <1>4 DEF OrderOf
  <2>. QED BY <1>1, <1>2, <1>3, <1>4, <2>1
<1>5. CASE Actions(x)[i].kind # "close"
  <2>1. OrderOf(x, i) = [act |-> i, symbol |-> Actions(x)[i].symbol,
                         qty |-> IF Actions(x)[i].kind = "buy" THEN 1 ELSE -1,
                         reduce_only |-> FALSE, stop |-> StopOf(Actions(x)[i])]
    BY <1>5 DEF OrderOf
  <2>2. "negative" \notin Stops => StopOf(Actions(x)[i]) = "positive"
    BY <1>2, <1>5, TickAssumption DEF StopOf
  <2>. QED BY <1>1, <1>2, <1>5, <2>1, <2>2
<1>. QED BY <1>4, <1>5

(* What a key's order does to the broker: nothing if it is known; else it  *)
(* is entered, and only its symbol may change.                             *)
LEMMA HandleTyped ==
    ASSUME TypeOK, NEW k \in Keys, plan[k[1]] # None, k[2] \in DOMAIN plan[k[1]].actions,
           Handle(k, KeyOrder(k)), KeysStand
    PROVE  /\ pos' \in [Symbols -> -MaxQty .. MaxQty]
           /\ life' \in [Symbols -> Nat]
           /\ protected' \in [Symbols -> BOOLEAN]
           /\ order' \in [Keys -> OrderRows \cup {None}]
           /\ order'[k] # None /\ order'[k].act = k[2] /\ order'[k].status \in {"filled", "rejected"}
           /\ order'[k] = [act |-> k[2], status |-> order'[k].status]
           /\ \A j \in Keys : j # k \/ order[j] # None => order'[j] = order[j]
           /\ \A s \in Symbols : /\ life[s] <= life'[s]
                                 /\ pos[s] = 0 /\ pos'[s] # 0 => life[s] < life'[s]
                                 /\ s # KeyOrder(k).symbol => pos'[s] = pos[s] /\ protected'[s] = protected[s]
<1>. DEFINE o == KeyOrder(k)
<1>1. /\ o.act = k[2] /\ o.act \in Indices /\ o.symbol \in Symbols /\ o.qty \in Int
  BY KeyParts, OrderTyped DEF KeyOrder, Actions
<1>. HIDE DEF o
<1>2. ASSUME NEW st \in {"filled", "rejected"}, order[k] = None,
             order' = [order EXCEPT ![k] = [act |-> o.act, status |-> st]]
      PROVE  /\ order' \in [Keys -> OrderRows \cup {None}]
             /\ order'[k] # None /\ order'[k].act = k[2] /\ order'[k].status \in {"filled", "rejected"}
             /\ order'[k] = [act |-> k[2], status |-> order'[k].status]
             /\ \A j \in Keys : j # k \/ order[j] # None => order'[j] = order[j]
  <2>1. [act |-> o.act, status |-> st] \in OrderRows BY <1>1 DEF OrderRows
  <2>2. order'[k] = [act |-> o.act, status |-> st] BY <1>2 DEF TypeOK
  <2>. QED BY <2>1, <2>2, <1>1, <1>2, NoneApart DEF TypeOK
<1>3. CASE order[k] # None
  <2>1. UNCHANGED broker BY <1>3 DEF Handle
  <2>2. order[k] \in OrderRows /\ order[k].act = k[2] BY <1>3 DEF TypeOK, KeysStand
  <2>3. order[k] = [act |-> k[2], status |-> order[k].status] /\ order[k].status \in {"filled", "rejected"}
    BY <2>2 DEF OrderRows
  <2>. QED BY <1>3, <2>1, <2>2, <2>3 DEF broker, TypeOK
<1>4. CASE order[k] = None
  <2>1. Execute(k, o) BY <1>4 DEF Handle, o
  <2>2. CASE /\ Fills(o)
             /\ Levels(o)
             /\ life' = [life EXCEPT ![o.symbol] = IF pos[o.symbol] = 0 THEN @ + 1 ELSE @]
             /\ order' = [order EXCEPT ![k] = [act |-> o.act, status |-> "filled"]]
    <3>1. FilledQty(pos[o.symbol], o) \in -MaxQty .. MaxQty
      <4>1. pos[o.symbol] \in Int BY <1>1, BoundsAreNat DEF TypeOK
      <4>2. FilledQty(pos[o.symbol], o) \in Int BY <1>1, <4>1 DEF FilledQty
      <4>. QED BY <2>2, <4>2, BoundsAreNat DEF Fills, Abs
    <3>2. pos' = [pos EXCEPT ![o.symbol] = FilledQty(pos[o.symbol], o)] BY <2>2 DEF Fills
    <3>3. /\ pos' \in [Symbols -> -MaxQty .. MaxQty]
          /\ \A s \in Symbols : s # o.symbol => pos'[s] = pos[s]
      BY <1>1, <3>1, <3>2 DEF TypeOK
    <3>4. /\ protected' \in [Symbols -> BOOLEAN]
          /\ \A s \in Symbols : s # o.symbol => protected'[s] = protected[s]
      <4>1. PICK b \in BOOLEAN : protected' = [protected EXCEPT ![o.symbol] = b]
        BY <1>1, <2>2 DEF Levels, TypeOK
      <4>. QED BY <4>1 DEF TypeOK
    <3>5. /\ life' \in [Symbols -> Nat]
          /\ \A s \in Symbols : life[s] <= life'[s]
          /\ pos[o.symbol] = 0 => life[o.symbol] < life'[o.symbol]
      <4>1. life \in [Symbols -> Nat] BY DEF TypeOK
      <4>2. life' = [life EXCEPT ![o.symbol] = IF pos[o.symbol] = 0 THEN @ + 1 ELSE @] BY <2>2
      <4>. QED BY <1>1, <4>1, <4>2
    <3>6. \A s \in Symbols : pos[s] = 0 /\ pos'[s] # 0 => life[s] < life'[s] BY <3>3, <3>5
    <3>7. \A s \in Symbols : s # KeyOrder(k).symbol => pos'[s] = pos[s] /\ protected'[s] = protected[s]
      <4>1. KeyOrder(k) = o BY DEF o
      <4>. QED BY <3>3, <3>4, <4>1
    <3>. QED BY <1>2, <1>4, <2>2, <3>3, <3>4, <3>5, <3>6, <3>7
  <2>3. CASE /\ order' = [order EXCEPT ![k] = [act |-> o.act, status |-> "rejected"]]
             /\ UNCHANGED <<pos, life, protected>>
    BY <1>2, <1>4, <2>3 DEF TypeOK
  <2>. QED BY <2>1, <2>2, <2>3 DEF Execute
<1>. QED BY <1>3, <1>4

-----------------------------------------------------------------------------
LEMMA InitOrders == Init => OrderInv
<1>. SUFFICES ASSUME Init PROVE OrderInv OBVIOUS
<1>1. At("off") \in Locals BY BoundsAreNat DEF At, Locals
<1>2. Idle \in Sweeps BY DEF Idle, Sweeps
<1>3. TypeOK BY <1>1, <1>2, BoundsAreNat DEF Init, TypeOK
<1>4. KeysStand /\ LateStand /\ Started /\ HasRead /\ AuditAccounts
  BY DEF Init, KeysStand, LateStand, Started, HasRead, Reading, AuditAccounts, At, Idle
<1>5. Accounted BY DEF Init, Accounted, At, Working
<1>. QED BY <1>3, <1>4, <1>5 DEF OrderInv

(* What the ledger knows it keeps, and a plan is never made again.         *)
LEMMA EntryStays ==
    ASSUME TypeOK, NEW p \in Entries, NEW x, Entered(x, p),
           \A j \in Keys : order[j] # None => order'[j] = order[j]
    PROVE  Entered(x, p)'
<1>1. p.key \in Keys /\ [act |-> p.act, status |-> p.status] \in OrderRows BY DEF Entries, OrderRows
<1>2. order[p.key] # None BY <1>1, NoneApart DEF Entered
<1>. QED BY <1>1, <1>2 DEF Entered

LEMMA SamePlanSameOrder ==
    ASSUME NEW k \in Keys, plan'[k[1]] = plan[k[1]] PROVE KeyOrder(k)' = KeyOrder(k)
BY DEF KeyOrder, OrderOf, Actions

(* The attempts that a step leaves alone.                                  *)
LEMMA AccountsStay ==
    ASSUME TypeOK, NEW x \in Attempts, Accounts(x), run'[x] = run[x], plan'[x[1]] = plan[x[1]],
           \A j \in Keys : order[j] # None => order'[j] = order[j]
    PROVE  Accounts(x)'
<1>1. \A p \in run[x].placed : p \in Entries BY DEF TypeOK, Locals
<1>2. \A p \in run[x].placed : Entered(x, p)' BY <1>1, EntryStays DEF Accounts
<1>3. Actions(x)' = Actions(x) BY DEF Actions
<1>. QED BY <1>2, <1>3 DEF Accounts

LEMMA AuditStays ==
    ASSUME TypeOK, AuditAccounts, NEW t \in Ticks, audit[t] # None, audit'[t] = audit[t], plan'[t] = plan[t],
           \A j \in Keys : order[j] # None => order'[j] = order[j]
    PROVE  /\ {p.act : p \in audit'[t].placed} \cup audit'[t].failed = DOMAIN plan'[t].actions
           /\ \A p \in audit'[t].placed : order'[p.key] = [act |-> p.act, status |-> p.status]
<1>1. \A p \in audit[t].placed : p \in Entries BY DEF TypeOK, AuditRows
<1>2. ASSUME NEW p \in audit[t].placed PROVE order'[p.key] = [act |-> p.act, status |-> p.status]
  <2>1. p.key \in Keys /\ [act |-> p.act, status |-> p.status] \in OrderRows BY <1>1 DEF Entries, OrderRows
  <2>2. order[p.key] = [act |-> p.act, status |-> p.status] BY DEF AuditAccounts
  <2>. QED BY <2>1, <2>2, NoneApart
<1>. QED BY <1>2 DEF AuditAccounts

(* A step of one attempt that touches neither the ledger nor the plan.     *)
LEMMA LocalStep ==
    ASSUME OrderInv, NEW x \in Attempts, NEW r \in Locals, run' = [run EXCEPT ![x] = r],
           r.pc # "off", run[x].pc # "off" \/ plan[x[1]] # None,
           r.pc \in Working => Accounts(x)',
           r.pc \in Reading => r.view \in Views,
           r.pc = "write" => r.row \in Found,
           UNCHANGED <<broker, plan, mon>>, diary' \in [Symbols -> Seq(Rows)],
           \A rq \in late' : \/ rq \in late
                            \/ /\ rq.key \in Keys /\ plan[rq.key[1]] # None
                               /\ rq.key[2] \in DOMAIN plan[rq.key[1]].actions
                               /\ rq.order = KeyOrder(rq.key),
           current' \in {current, None, x}, current' = x => r.pc # "done",
           audit' \in [Ticks -> AuditRows \cup {None}],
           \A t \in Ticks : audit'[t] = audit[t] \/ t = x[1],
           AuditAccounts',
           lost' \in 0 .. MaxLost, crashes' \in 0 .. MaxCrashes, zombies' \in 0 .. MaxZombies,
           readFails' \in 0 .. MaxReadFails, exits' \in 0 .. MaxExits
    PROVE  OrderInv'
<1>. TypeOK /\ KeysStand /\ LateStand /\ Started /\ Accounted /\ HasRead BY DEF OrderInv
<1>1. TypeOK' BY DEF TypeOK, broker
<1>2. KeysStand' BY DEF KeysStand, broker
<1>3. LateStand'
  <2>1. \A rq \in late : rq.key \in Keys BY DEF TypeOK
  <2>2. \A k \in Keys : KeyOrder(k)' = KeyOrder(k) BY SamePlanSameOrder
  <2>. QED BY <2>1, <2>2 DEF LateStand
<1>4. Started' BY KeyParts DEF Started, TypeOK
<1>5. Accounted'
  <2>1. ASSUME NEW y \in Attempts, y # x, run[y].pc \in Working PROVE Accounts(y)'
    <3>1. run'[y] = run[y] BY <2>1 DEF TypeOK
    <3>. QED BY <2>1, <3>1, AccountsStay DEF Accounted, broker
  <2>. QED BY <2>1 DEF Accounted, TypeOK
<1>6. HasRead' BY DEF HasRead, TypeOK
<1>. QED BY <1>1, <1>2, <1>3, <1>4, <1>5, <1>6 DEF OrderInv

(* A step that touches no attempt, no plan and no audit row; what it does  *)
(* to the ledger it does as Handle does.                                   *)
LEMMA OutsideStep ==
    ASSUME OrderInv, UNCHANGED <<plan, current, run, audit>>, late' \subseteq late,
           pos' \in [Symbols -> -MaxQty .. MaxQty], life' \in [Symbols -> Nat],
           protected' \in [Symbols -> BOOLEAN], order' \in [Keys -> OrderRows \cup {None}],
           \A j \in Keys : order'[j] # None => order'[j].act = j[2],
           \A j \in Keys : order[j] # None => order'[j] = order[j],
           diary' \in [Symbols -> Seq(Rows)], mon' \in Sweeps,
           mon'.pc # "idle" => mon'.life \in [Symbols -> Nat], mon'.pc = "write" => mon'.row \in Found,
           lost' \in 0 .. MaxLost, crashes' \in 0 .. MaxCrashes, zombies' \in 0 .. MaxZombies,
           readFails' \in 0 .. MaxReadFails, exits' \in 0 .. MaxExits
    PROVE  OrderInv'
<1>. TypeOK /\ KeysStand /\ LateStand /\ Started /\ Accounted /\ HasRead /\ AuditAccounts BY DEF OrderInv
<1>1. TypeOK' BY DEF TypeOK
<1>2. KeysStand' BY DEF KeysStand
<1>3. LateStand'
  <2>1. \A r \in late : r.key \in Keys BY DEF TypeOK
  <2>2. \A k \in Keys : KeyOrder(k)' = KeyOrder(k) BY SamePlanSameOrder
  <2>. QED BY <2>1, <2>2 DEF LateStand
<1>4. Started' BY DEF Started
<1>5. Accounted'
  <2>1. ASSUME NEW y \in Attempts, run[y].pc \in Working PROVE Accounts(y)'
    BY <2>1, AccountsStay DEF Accounted
  <2>. QED BY <2>1 DEF Accounted
<1>6. AuditAccounts' BY AuditStays DEF AuditAccounts
<1>7. HasRead' BY DEF HasRead
<1>. QED BY <1>1, <1>2, <1>3, <1>4, <1>5, <1>6, <1>7 DEF OrderInv

(* Nothing an attempt does but RecordWrite touches the audit.              *)
LEMMA AuditUntouched ==
    ASSUME OrderInv, UNCHANGED <<plan, order, audit>> PROVE AuditAccounts'
BY DEF OrderInv, AuditAccounts

LEMMA EndedLocals == At("done") \in Locals /\ At("dead") \in Locals /\ At("place") \in Locals
                     /\ \A w : At(w).pc = w /\ At(w).at = 1 /\ At(w).placed = {} /\ At(w).failed = {}
BY BoundsAreNat DEF At, Locals

LEMMA HandleLateOrders ==
    ASSUME OrderInv, NEW r \in late, HandleLate(r) PROVE OrderInv'
<1>. TypeOK /\ KeysStand BY DEF OrderInv
<1>. DEFINE k == r.key
<1>1. /\ k \in Keys /\ plan[k[1]] # None /\ k[2] \in DOMAIN plan[k[1]].actions
      /\ r.order = KeyOrder(k)
  BY DEF OrderInv, TypeOK, LateStand
<1>2. Handle(k, KeyOrder(k)) /\ late' \subseteq late
      /\ UNCHANGED <<plan, current, run, audit, diary, mon, bounds>>
  BY <1>1 DEF HandleLate
<1>. HIDE DEF k
<1>3. /\ pos' \in [Symbols -> -MaxQty .. MaxQty] /\ life' \in [Symbols -> Nat]
      /\ protected' \in [Symbols -> BOOLEAN] /\ order' \in [Keys -> OrderRows \cup {None}]
      /\ order'[k].act = k[2]
      /\ \A j \in Keys : j # k \/ order[j] # None => order'[j] = order[j]
  BY <1>1, <1>2, HandleTyped
<1>4. \A j \in Keys : order[j] # None => order'[j] = order[j] BY <1>3
<1>5. \A j \in Keys : order'[j] # None => order'[j].act = j[2] BY <1>3 DEF KeysStand
<1>. QED BY <1>2, <1>3, <1>4, <1>5, OutsideStep DEF TypeOK, HasRead, OrderInv, bounds

(* The diary's operations give rows, and keep those that are there.        *)
LEMMA DiaryTyped ==
    ASSUME NEW rows \in Seq(Rows), NEW row \in Nat \cup {None}, NEW l \in Nat
    PROVE  /\ OpenOrUpdate(rows, row, l) \in Seq(Rows)
           /\ CloseOpen(rows, row, l) \in Seq(Rows)
           /\ DOMAIN rows \subseteq DOMAIN OpenOrUpdate(rows, row, l)
           /\ DOMAIN CloseOpen(rows, row, l) = DOMAIN rows
<1>1. ASSUME row = None
      PROVE  /\ OpenOrUpdate(rows, row, l) \in Seq(Rows)
             /\ DOMAIN rows \subseteq DOMAIN OpenOrUpdate(rows, row, l)
  <2>1. [status |-> "open", life |-> l, last |-> l, by |-> None] \in Rows BY DEF Rows
  <2>2. OpenOrUpdate(rows, row, l) = Append(rows, [status |-> "open", life |-> l, last |-> l, by |-> None])
    BY <1>1 DEF OpenOrUpdate
  <2>. QED BY <2>1, <2>2
<1>2. ASSUME row # None
      PROVE  /\ OpenOrUpdate(rows, row, l) \in Seq(Rows)
             /\ DOMAIN OpenOrUpdate(rows, row, l) = DOMAIN rows
             /\ CloseOpen(rows, row, l) \in Seq(Rows)
             /\ DOMAIN CloseOpen(rows, row, l) = DOMAIN rows
  <2>1. OpenOrUpdate(rows, row, l) = [rows EXCEPT ![row].last = l] BY <1>2 DEF OpenOrUpdate
  <2>2. CloseOpen(rows, row, l) = [rows EXCEPT ![row].status = "closed", ![row].by = l] BY <1>2 DEF CloseOpen
  <2>3. \A i \in DOMAIN rows : rows[i] \in Rows OBVIOUS
  <2>4. \A i \in DOMAIN rows : [rows EXCEPT ![row].last = l][i] \in Rows BY <2>3 DEF Rows
  <2>5. \A i \in DOMAIN rows : [rows EXCEPT ![row].status = "closed", ![row].by = l][i] \in Rows BY <2>3 DEF Rows
  <2>6. DOMAIN rows = 1 .. Len(rows) /\ Len(rows) \in Nat OBVIOUS
  <2>7. [rows EXCEPT ![row].last = l] \in [1 .. Len(rows) -> Rows]
    BY <2>4, <2>6
  <2>8. [rows EXCEPT ![row].status = "closed", ![row].by = l] \in [1 .. Len(rows) -> Rows]
    BY <2>5, <2>6
  <2>9. [1 .. Len(rows) -> Rows] \subseteq Seq(Rows) BY <2>6
  <2>. QED BY <2>1, <2>2, <2>6, <2>7, <2>8, <2>9
<1>3. row = None => CloseOpen(rows, row, l) = rows BY DEF CloseOpen
<1>. QED BY <1>1, <1>2, <1>3

LEMMA FoundTyped ==
    ASSUME TypeOK
    PROVE  /\ [s \in Symbols |-> OpenRow(diary[s])] \in Found
           /\ \A s \in Symbols : IF OpenRows(diary[s]) = {} THEN OpenRow(diary[s]) = None
                                ELSE OpenRow(diary[s]) \in OpenRows(diary[s])
           /\ \A s \in Symbols : OpenRow(diary[s]) # None => OpenRow(diary[s]) \in DOMAIN diary[s]
<1>1. \A s \in Symbols : OpenRows(diary[s]) \subseteq DOMAIN diary[s] BY DEF OpenRows
<1>2. \A s \in Symbols : IF OpenRows(diary[s]) = {} THEN OpenRow(diary[s]) = None
                        ELSE OpenRow(diary[s]) \in OpenRows(diary[s])
  BY DEF OpenRow
<1>3. \A s \in Symbols : DOMAIN diary[s] \subseteq Nat BY DEF TypeOK
<1>. QED BY <1>1, <1>2, <1>3 DEF Found

(* What an attempt notes of an order.                                      *)
Noted(l, p) == [l EXCEPT !.at = @ + 1, !.placed = @ \cup {p}]
Missed(l) == [l EXCEPT !.at = @ + 1, !.failed = @ \cup {l.at}]

LEMMA NotedTyped ==
    ASSUME NEW l \in Locals, l.at \in Indices, NEW p \in Entries
    PROVE  /\ Noted(l, p) \in Locals /\ Noted(l, p).pc = l.pc /\ Noted(l, p).at = l.at + 1
           /\ Noted(l, p).placed = l.placed \cup {p} /\ Noted(l, p).failed = l.failed
<1>1. l.at + 1 \in 1 .. MaxActions + 1 BY BoundsAreNat DEF Indices
<1>. QED BY <1>1 DEF Locals, Noted

LEMMA MissedTyped ==
    ASSUME NEW l \in Locals, l.at \in Indices
    PROVE  /\ Missed(l) \in Locals /\ Missed(l).pc = l.pc /\ Missed(l).at = l.at + 1
           /\ Missed(l).placed = l.placed /\ Missed(l).failed = l.failed \cup {l.at}
<1>1. l.at + 1 \in 1 .. MaxActions + 1 BY BoundsAreNat DEF Indices
<1>. QED BY <1>1 DEF Locals, Missed

LEMMA PlacingTyped ==
    ASSUME OrderInv, NEW x \in Attempts, Placing(x)
    PROVE  /\ run[x] \in Locals /\ run[x].at \in Indices /\ run[x].pc = "place"
           /\ x[1] \in Ticks /\ plan[x[1]] # None
           /\ run[x].at \in DOMAIN Actions(x)
           /\ KeyOf(x) \in Keys /\ KeyOf(x)[1] = x[1] /\ KeyOf(x)[2] = run[x].at
           /\ OrderOf(x, run[x].at) = KeyOrder(KeyOf(x))
<1>. TypeOK /\ Started BY DEF OrderInv
<1>1. run[x] \in Locals /\ run[x].pc = "place" /\ run[x].at <= Len(Actions(x)) BY DEF TypeOK, Placing
<1>2. x[1] \in Ticks /\ plan[x[1]] # None BY <1>1, KeyParts DEF Started
<1>3. run[x].at \in DOMAIN Actions(x) /\ run[x].at \in Indices
  BY <1>1, <1>2, PlanTyped DEF Actions, Locals
<1>4. KeyOf(x) \in Keys /\ KeyOf(x)[1] = x[1] /\ KeyOf(x)[2] = run[x].at
  BY <1>2, <1>3 DEF KeyOf, Keys
<1>5. OrderOf(x, run[x].at) = KeyOrder(KeyOf(x)) BY <1>4 DEF KeyOrder, OrderOf, Actions
<1>. QED BY <1>1, <1>2, <1>3, <1>4, <1>5

(* The entry of an answered order, as the attempt notes it.                *)
Answer(x) == [key |-> KeyOf(x), act |-> run[x].at, status |-> order'[KeyOf(x)].status]

LEMMA AnsweredOrder ==
    ASSUME OrderInv, NEW x \in Attempts, PlaceAnswered(x)
    PROVE  /\ Placing(x)
           /\ pos' \in [Symbols -> -MaxQty .. MaxQty] /\ life' \in [Symbols -> Nat]
           /\ protected' \in [Symbols -> BOOLEAN] /\ order' \in [Keys -> OrderRows \cup {None}]
           /\ \A j \in Keys : order[j] # None => order'[j] = order[j]
           /\ \A j \in Keys : order'[j] # None => order'[j].act = j[2]
           /\ Answer(x) \in Entries
           /\ order'[KeyOf(x)] = [act |-> run[x].at, status |-> Answer(x).status]
           /\ run' = [run EXCEPT ![x] = Noted(run[x], Answer(x))]
           /\ UNCHANGED <<late, plan, current, audit, diary, mon, bounds>>
<1>. TypeOK /\ KeysStand BY DEF OrderInv
<1>1. Placing(x) BY DEF PlaceAnswered
<1>2. /\ KeyOf(x) \in Keys /\ plan[KeyOf(x)[1]] # None /\ KeyOf(x)[2] \in DOMAIN plan[KeyOf(x)[1]].actions
      /\ Handle(KeyOf(x), KeyOrder(KeyOf(x))) /\ KeyOf(x)[2] = run[x].at /\ run[x].at \in Indices
  BY <1>1, PlacingTyped DEF PlaceAnswered, Actions
<1>3. /\ pos' \in [Symbols -> -MaxQty .. MaxQty] /\ life' \in [Symbols -> Nat]
      /\ protected' \in [Symbols -> BOOLEAN] /\ order' \in [Keys -> OrderRows \cup {None}]
      /\ \A j \in Keys : order[j] # None => order'[j] = order[j]
      /\ \A j \in Keys : order'[j] # None => order'[j].act = j[2]
      /\ order'[KeyOf(x)].status \in {"filled", "rejected"}
      /\ order'[KeyOf(x)] = [act |-> run[x].at, status |-> order'[KeyOf(x)].status]
  BY <1>2, HandleTyped DEF KeysStand
<1>4. Answer(x) \in Entries /\ Answer(x).status = order'[KeyOf(x)].status BY <1>2, <1>3 DEF Answer, Entries
<1>5. run' = [run EXCEPT ![x] = Noted(run[x], Answer(x))]
  BY DEF PlaceAnswered, Note, Noted, Answer, TypeOK
<1>. QED BY <1>1, <1>3, <1>4, <1>5 DEF PlaceAnswered

LEMMA PlaceAnsweredOrders ==
    ASSUME OrderInv, NEW x \in Attempts, PlaceAnswered(x) PROVE OrderInv'
<1>. TypeOK /\ KeysStand /\ LateStand /\ Started /\ Accounted /\ AuditAccounts BY DEF OrderInv
<1>1. /\ run[x] \in Locals /\ run[x].at \in Indices /\ run[x].pc = "place" /\ plan[x[1]] # None
      /\ KeyOf(x) \in Keys /\ KeyOf(x) = <<x[1], run[x].at>> /\ run[x].at \in DOMAIN Actions(x)
      /\ DOMAIN Actions(x) = 1 .. Len(Actions(x))
  BY AnsweredOrder, PlacingTyped, PlanTyped DEF KeyOf, Actions
<1>2. /\ Answer(x) \in Entries /\ Answer(x).act = run[x].at /\ Answer(x).key = KeyOf(x)
      /\ run' = [run EXCEPT ![x] = Noted(run[x], Answer(x))]
  BY AnsweredOrder DEF Answer
<1>3. \A j \in Keys : order[j] # None => order'[j] = order[j] BY AnsweredOrder
<1>0. late' = late /\ plan' = plan /\ current' = current /\ audit' = audit BY AnsweredOrder
<1>4. /\ run'[x] = Noted(run[x], Answer(x))
      /\ \A y \in Attempts : y # x => run'[y] = run[y]
      /\ run' \in [Attempts -> Locals]
  BY <1>1, <1>2, NotedTyped DEF TypeOK
<1>5. TypeOK' BY <1>4, AnsweredOrder DEF TypeOK, bounds
<1>6. KeysStand' BY AnsweredOrder DEF KeysStand
<1>7. LateStand'
  <2>1. \A r \in late : r.key \in Keys BY DEF TypeOK
  <2>2. \A k \in Keys : KeyOrder(k)' = KeyOrder(k) BY <1>0, SamePlanSameOrder
  <2>. QED BY <1>0, <2>1, <2>2 DEF LateStand
<1>8. Started'
  <2>1. run'[x].pc = "place" BY <1>1, <1>2, <1>4, NotedTyped
  <2>. QED BY <1>0, <1>1, <1>4, <2>1 DEF Started, TypeOK
<1>9. Accounts(x)'
  <2>1. Accounts(x) BY <1>1 DEF Accounted, Working
  <2>2. Actions(x)' = Actions(x) BY AnsweredOrder DEF Actions
  <2>3. /\ run'[x].pc = "place" /\ run'[x].at = run[x].at + 1 /\ run'[x].placed = run[x].placed \cup {Answer(x)}
        /\ run'[x].failed = run[x].failed
    BY <1>1, <1>2, <1>4, NotedTyped
  <2>4. \A p \in run[x].placed : p \in Entries /\ Entered(x, p) BY <2>1, <1>1 DEF Accounts, Locals
  <2>5. \A p \in run[x].placed : Entered(x, p)' BY <2>4, <1>3, EntryStays
  <2>7. /\ Answer(x).key = <<x[1], Answer(x).act>>
        /\ order'[Answer(x).key] = [act |-> Answer(x).act, status |-> Answer(x).status]
    BY <1>1, <1>2, AnsweredOrder
  <2>8. {p.act : p \in run'[x].placed} = {p.act : p \in run[x].placed} \cup {run[x].at} BY <2>3, <1>2
  <2>9. {p.act : p \in run'[x].placed} \cup run'[x].failed = 1 .. run'[x].at - 1
    <3>1. {p.act : p \in run[x].placed} \cup run[x].failed = 1 .. run[x].at - 1 BY <2>1 DEF Accounts
    <3>2. run[x].at \in Nat /\ run[x].at >= 1 BY <1>1, BoundsAreNat DEF Indices
    <3>3. \A n \in Nat : n >= 1 => 1 .. (n + 1) - 1 = (1 .. n - 1) \cup {n} OBVIOUS
    <3>4. 1 .. (run[x].at + 1) - 1 = (1 .. run[x].at - 1) \cup {run[x].at} BY <3>2, <3>3
    <3>. QED BY <2>3, <2>8, <3>1, <3>4
  <2>10. \A p \in run'[x].placed : p.key = <<x[1], p.act>> /\ order'[p.key] = [act |-> p.act, status |-> p.status]
    BY <2>3, <2>5, <2>7 DEF Entered
  <2>11. run'[x].at - 1 <= Len(Actions(x)) BY <1>1, <2>3 DEF Indices
  <2>. QED BY <2>2, <2>3, <2>9, <2>10, <2>11 DEF Accounts, Entered
<1>10. Accounted'
  <2>1. ASSUME NEW y \in Attempts, y # x, run[y].pc \in Working PROVE Accounts(y)'
    BY <1>3, <1>4, <2>1, AccountsStay, AnsweredOrder DEF Accounted
  <2>. QED BY <1>4, <1>9, <2>1 DEF Accounted
<1>11. AuditAccounts' BY <1>3, AuditStays, AnsweredOrder DEF AuditAccounts
<1>12. HasRead'
  <2>1. HasRead /\ mon' = mon BY AnsweredOrder DEF OrderInv
  <2>2. run'[x].pc = "place" BY <1>1, <1>2, <1>4, NotedTyped
  <2>. QED BY <1>4, <2>1, <2>2 DEF HasRead, Reading
<1>. QED BY <1>5, <1>6, <1>7, <1>8, <1>10, <1>11, <1>12 DEF OrderInv

(* An attempt that moves on keeps what it has noted; one that ends has     *)
(* nothing to account for.                                                 *)
LEMMA KeepsAccounts ==
    ASSUME OrderInv, NEW x \in Attempts, run[x].pc \in Working, UNCHANGED <<broker, plan>>,
           run'[x].placed = run[x].placed, run'[x].failed = run[x].failed, run'[x].at = run[x].at,
           run'[x].pc # "place" => run[x].at - 1 = Len(Actions(x))
    PROVE  Accounts(x)'
<1>1. Accounts(x) /\ Actions(x)' = Actions(x) BY DEF OrderInv, Accounted, Actions
<1>. QED BY <1>1 DEF Accounts, Entered, broker

LEMMA AttemptTyped ==
    ASSUME OrderInv, NEW x \in Attempts, run[x].pc \in Working
    PROVE  /\ run[x] \in Locals /\ x[1] \in Ticks /\ plan[x[1]] # None /\ Accounts(x)
           /\ run[x].at - 1 \in 0 .. Len(Actions(x)) /\ Len(Actions(x)) \in Nat
           /\ DOMAIN Actions(x) = 1 .. Len(Actions(x))
           /\ run[x].pc \in Reading => run[x].view \in Views
           /\ run[x].pc = "write" => run[x].row \in Found
<1>1. /\ run[x] \in Locals /\ x[1] \in Ticks /\ plan[x[1]] # None /\ Accounts(x)
      /\ run[x].pc \in Reading => run[x].view \in Views
      /\ run[x].pc = "write" => run[x].row \in Found
  BY KeyParts DEF OrderInv, TypeOK, Started, Accounted, HasRead, Working
<1>2. Len(Actions(x)) \in Nat /\ DOMAIN Actions(x) = 1 .. Len(Actions(x))
  BY <1>1, PlanTyped, BoundsAreNat DEF OrderInv, Actions
<1>3. run[x].at - 1 \in Nat BY <1>1, BoundsAreNat DEF Locals
<1>. QED BY <1>1, <1>2, <1>3 DEF Accounts

LEMMA PlaceRaisesOrders ==
    ASSUME OrderInv, NEW x \in Attempts, PlaceRaises(x) PROVE OrderInv'
<1>. TypeOK BY DEF OrderInv
<1>1. Placing(x) /\ lost < MaxLost /\ lost' = lost + 1
      /\ UNCHANGED <<broker, plan, current, audit, diary, mon, crashes, zombies, readFails, exits>>
  BY DEF PlaceRaises
<1>2. /\ run[x] \in Locals /\ run[x].at \in Indices /\ run[x].pc = "place" /\ plan[x[1]] # None
      /\ run[x].at \in DOMAIN Actions(x) /\ KeyOf(x) \in Keys /\ KeyOf(x)[1] = x[1] /\ KeyOf(x)[2] = run[x].at
      /\ OrderOf(x, run[x].at) = KeyOrder(KeyOf(x))
  BY <1>1, PlacingTyped
<1>3. run' = [run EXCEPT ![x] = Missed(run[x])] BY DEF PlaceRaises, Note, Missed, TypeOK
<1>4. \A rq \in late' : \/ rq \in late
                        \/ /\ rq.key \in Keys /\ plan[rq.key[1]] # None
                           /\ rq.key[2] \in DOMAIN plan[rq.key[1]].actions
                           /\ rq.order = KeyOrder(rq.key)
  <2>1. late' \subseteq late \cup {[key |-> KeyOf(x), order |-> OrderOf(x, run[x].at)]} BY DEF PlaceRaises
  <2>. QED BY <1>2, <2>1 DEF Actions
<1>6. /\ Missed(run[x]) \in Locals /\ Missed(run[x]).pc = "place" /\ Missed(run[x]).at = run[x].at + 1
      /\ Missed(run[x]).placed = run[x].placed /\ Missed(run[x]).failed = run[x].failed \cup {run[x].at}
  BY <1>2, MissedTyped
<1>7. Accounts(x)'
  <2>1. Accounts(x) /\ Len(Actions(x)) \in Nat /\ DOMAIN Actions(x) = 1 .. Len(Actions(x))
    BY <1>2, AttemptTyped DEF Working
  <2>2. run'[x] = Missed(run[x]) /\ Actions(x)' = Actions(x) BY <1>1, <1>3 DEF Actions, TypeOK
  <2>3. run[x].at \in Nat /\ run[x].at >= 1 BY <1>2, BoundsAreNat DEF Indices
  <2>4. \A n \in Nat : n >= 1 => 1 .. (n + 1) - 1 = (1 .. n - 1) \cup {n} OBVIOUS
  <2>5. {p.act : p \in run'[x].placed} \cup run'[x].failed = 1 .. run'[x].at - 1
    BY <1>6, <2>1, <2>2, <2>3, <2>4 DEF Accounts
  <2>6. \A p \in run'[x].placed : Entered(x, p)' BY <1>1, <1>6, <2>1, <2>2 DEF Accounts, Entered, broker
  <2>7. run'[x].at - 1 <= Len(Actions(x)) BY <1>2, <1>6, <2>1, <2>2, <2>3
  <2>. QED BY <1>6, <2>2, <2>5, <2>6, <2>7 DEF Accounts
<1>8. AuditAccounts' BY <1>1, AuditUntouched DEF broker
<1>9. /\ lost' \in 0 .. MaxLost /\ crashes' \in 0 .. MaxCrashes /\ zombies' \in 0 .. MaxZombies
      /\ readFails' \in 0 .. MaxReadFails /\ exits' \in 0 .. MaxExits
      /\ diary' \in [Symbols -> Seq(Rows)] /\ audit' \in [Ticks -> AuditRows \cup {None}]
      /\ \A t \in Ticks : audit'[t] = audit[t] \/ t = x[1]
      /\ current' \in {current, None}
  BY <1>1, BoundsAreNat DEF TypeOK
<1>10. UNCHANGED <<broker, plan, mon>> BY <1>1
<1>. QED BY <1>2, <1>3, <1>4, <1>6, <1>7, <1>8, <1>9, <1>10, LocalStep DEF Reading

LEMMA RecordOrders ==
    ASSUME OrderInv, NEW x \in Attempts, RecordCheck(x) \/ RecordWrite(x) \/ RecordRefused(x)
    PROVE  OrderInv'
<1>. TypeOK BY DEF OrderInv
<1>1. run[x].pc \in {"place", "record"} /\ UNCHANGED <<broker, late, plan, current, diary, mon, bounds>>
  BY DEF RecordCheck, RecordWrite, RecordRefused
<1>2. /\ run[x] \in Locals /\ Accounts(x) /\ run[x].at - 1 \in 0 .. Len(Actions(x)) /\ Len(Actions(x)) \in Nat
      /\ DOMAIN Actions(x) = 1 .. Len(Actions(x)) /\ x[1] \in Ticks /\ plan[x[1]] # None
  BY <1>1, AttemptTyped DEF Working
<1>3. ASSUME NEW w \in {"record", "list"}, Goto(x, w), run[x].at - 1 = Len(Actions(x)), AuditAccounts',
             audit' \in [Ticks -> AuditRows \cup {None}], \A t \in Ticks : audit'[t] = audit[t] \/ t = x[1]
      PROVE  OrderInv'
  <2>. DEFINE r == [run[x] EXCEPT !.pc = w]
  <2>1. r \in Locals /\ r.pc = w /\ r.placed = run[x].placed /\ r.failed = run[x].failed /\ r.at = run[x].at
    BY <1>2 DEF Locals
  <2>2. run' = [run EXCEPT ![x] = r] BY <1>3 DEF Goto
  <2>3. run'[x] = r BY <2>2 DEF TypeOK
  <2>. HIDE DEF r
  <2>4. Accounts(x)' BY <1>1, <1>3, <2>1, <2>3, KeepsAccounts DEF Working
  <2>. QED BY <1>1, <1>3, <2>1, <2>2, <2>4, LocalStep DEF TypeOK, Reading, bounds, OrderInv, Started
<1>4. CASE RecordCheck(x)
  <2>1. run[x].at - 1 = Len(Actions(x)) BY <1>2, <1>4 DEF RecordCheck, Locals
  <2>2. PICK w \in {"record", "list"} : Goto(x, w) BY <1>4 DEF RecordCheck
  <2>3. audit' = audit BY <1>4 DEF RecordCheck
  <2>4. AuditAccounts' BY <1>1, <2>3, AuditUntouched DEF broker
  <2>. QED BY <1>3, <2>1, <2>2, <2>3, <2>4 DEF TypeOK
<1>5. CASE RecordWrite(x)
  <2>. DEFINE a == [placed |-> run[x].placed, failed |-> run[x].failed]
  <2>1. Goto(x, "list") /\ audit' = [audit EXCEPT ![x[1]] = a] /\ run[x].pc = "record"
    BY <1>5 DEF RecordWrite
  <2>2. a \in AuditRows /\ a.placed = run[x].placed /\ a.failed = run[x].failed
    BY <1>2 DEF AuditRows, Locals
  <2>. HIDE DEF a
  <2>3. audit' \in [Ticks -> AuditRows \cup {None}] /\ audit'[x[1]] = a
        /\ \A t \in Ticks : audit'[t] = audit[t] \/ t = x[1]
    BY <1>2, <2>1, <2>2 DEF TypeOK
  <2>4. run[x].at - 1 = Len(Actions(x)) BY <1>2, <2>1 DEF Accounts
  <2>5. AuditAccounts'
    <3>1. ASSUME NEW t \in Ticks, audit'[t] # None
          PROVE  /\ {p.act : p \in audit'[t].placed} \cup audit'[t].failed = DOMAIN plan'[t].actions
                 /\ \A p \in audit'[t].placed : order'[p.key] = [act |-> p.act, status |-> p.status]
      <4>1. CASE t = x[1]
        BY <1>1, <1>2, <2>2, <2>3, <2>4, <4>1 DEF Accounts, Entered, broker, Actions
      <4>2. CASE t # x[1]
        BY <1>1, <2>3, <3>1, <4>2 DEF OrderInv, AuditAccounts, broker
      <4>. QED BY <4>1, <4>2
    <3>. QED BY <3>1 DEF AuditAccounts
  <2>. QED BY <1>3, <2>1, <2>3, <2>4, <2>5
<1>6. CASE RecordRefused(x)
  <2>1. run' = [run EXCEPT ![x] = At("dead")] /\ audit' = audit BY <1>6 DEF RecordRefused, Become
  <2>2. AuditAccounts' BY <1>1, <2>1, AuditUntouched DEF broker
  <2>. QED BY <1>1, <2>1, <2>2, EndedLocals, LocalStep DEF TypeOK, Reading, Working, bounds, OrderInv, Started
<1>. QED BY <1>4, <1>5, <1>6

LEMMA ReconcileOrders ==
    ASSUME OrderInv, NEW x \in Attempts,
           ReconcileNothing(x) \/ ListPositions(x) \/ FindRows(x) \/ WriteDiary(x) \/ DiaryFails(x)
    PROVE  OrderInv'
<1>. TypeOK BY DEF OrderInv
<1>0. run[x].pc \in {"list", "find", "write"} /\ UNCHANGED <<broker, late, plan, audit, mon>>
  BY DEF ReconcileNothing, ListPositions, FindRows, WriteDiary, DiaryFails
<1>1. /\ run[x] \in Locals /\ run[x].at - 1 = Len(Actions(x))
      /\ run[x].pc \in Reading => run[x].view \in Views
      /\ run[x].pc = "write" => run[x].row \in Found
  BY <1>0, AttemptTyped DEF Working, Accounts
<1>2. AuditAccounts' BY <1>0, AuditUntouched DEF broker
<1>3. /\ lost' \in 0 .. MaxLost /\ crashes' \in 0 .. MaxCrashes /\ zombies' \in 0 .. MaxZombies
      /\ readFails' \in 0 .. MaxReadFails /\ exits' \in 0 .. MaxExits
      /\ audit' \in [Ticks -> AuditRows \cup {None}] /\ \A t \in Ticks : audit'[t] = audit[t] \/ t = x[1]
  <2>1. \/ UNCHANGED bounds
        \/ /\ readFails < MaxReadFails /\ readFails' = readFails + 1
           /\ UNCHANGED <<lost, crashes, zombies, exits>>
    BY DEF ReconcileNothing, ListPositions, FindRows, WriteDiary, DiaryFails, bounds
  <2>. QED BY <1>0, <2>1, BoundsAreNat DEF TypeOK, bounds
<1>4. ASSUME End(x), diary' \in [Symbols -> Seq(Rows)] PROVE OrderInv'
  <2>1. run' = [run EXCEPT ![x] = At("done")] /\ current' \in {current, None} /\ current' # x
    BY <1>4, NoneApart DEF End, Become
  <2>. QED BY <1>0, <1>1, <1>2, <1>3, <1>4, <2>1, EndedLocals, LocalStep DEF Reading, Working
<1>5. ASSUME NEW r \in Locals, run' = [run EXCEPT ![x] = r], r.pc \in Reading,
             r.at = run[x].at, r.placed = run[x].placed, r.failed = run[x].failed,
             r.view \in Views, r.pc = "write" => r.row \in Found, UNCHANGED <<current, diary>>
      PROVE  OrderInv'
  <2>1. run'[x] = r BY <1>5 DEF TypeOK
  <2>2. Accounts(x)' BY <1>0, <1>1, <1>5, <2>1, KeepsAccounts DEF Working
  <2>. QED BY <1>0, <1>1, <1>2, <1>3, <1>5, <2>2, LocalStep DEF Reading, TypeOK
<1>6. CASE ReconcileNothing(x) \/ DiaryFails(x) BY <1>4, <1>6 DEF ReconcileNothing, DiaryFails, TypeOK
<1>7. CASE ListPositions(x)
  <2>1. Listed \in Views /\ Empty \in Views
    BY BoundsAreNat DEF Listed, Empty, Views, TypeOK
  <2>2. PICK v \in Views : run' = [run EXCEPT ![x].view = v, ![x].pc = "find"]
    BY <1>7, <2>1 DEF ListPositions
  <2>. DEFINE r == [run[x] EXCEPT !.view = v, !.pc = "find"]
  <2>3. run' = [run EXCEPT ![x] = r] BY <2>2 DEF TypeOK
  <2>4. r \in Locals /\ r.pc = "find" /\ r.view = v /\ r.at = run[x].at /\ r.placed = run[x].placed
        /\ r.failed = run[x].failed
    BY <1>1 DEF Locals
  <2>. HIDE DEF r
  <2>. QED BY <1>5, <1>7, <2>3, <2>4 DEF ListPositions, Reading
<1>8. CASE FindRows(x)
  <2>. DEFINE found == [s \in Symbols |-> OpenRow(diary[s])]
              r == [run[x] EXCEPT !.row = found, !.pc = "write"]
  <2>1. found \in Found BY FoundTyped
  <2>. HIDE DEF found
  <2>2. run' = [run EXCEPT ![x] = r] BY <1>8 DEF FindRows, TypeOK, found
  <2>3. r \in Locals /\ r.pc = "write" /\ r.row = found /\ r.view = run[x].view /\ r.at = run[x].at
        /\ r.placed = run[x].placed /\ r.failed = run[x].failed
    BY <1>1, <2>1 DEF Locals
  <2>. HIDE DEF r
  <2>4. run[x].view \in Views BY <1>1, <1>8 DEF FindRows, Reading
  <2>. QED BY <1>5, <1>8, <2>1, <2>2, <2>3, <2>4 DEF FindRows, Reading
<1>9. CASE WriteDiary(x)
  <2>1. run[x].view \in Views /\ run[x].row \in Found BY <1>1, <1>9 DEF WriteDiary, Reading
  <2>2. diary' \in [Symbols -> Seq(Rows)]
    <3>1. \A s \in Symbols : /\ diary[s] \in Seq(Rows) /\ run[x].row[s] \in Nat \cup {None}
                             /\ run[x].view[s].life \in Nat
      BY <2>1 DEF TypeOK, Found, Views
    <3>2. \A s \in Symbols :
              /\ OpenOrUpdate(diary[s], run[x].row[s], run[x].view[s].life) \in Seq(Rows)
              /\ CloseOpen(diary[s], run[x].row[s], run[x].view[s].life) \in Seq(Rows)
      BY <3>1, DiaryTyped
    <3>. QED BY <1>9, <3>1, <3>2 DEF WriteDiary, TypeOK
  <2>. QED BY <1>4, <1>9, <2>2 DEF WriteDiary
<1>. QED BY <1>6, <1>7, <1>8, <1>9

LEMMA CrashOrders == ASSUME OrderInv, NEW x \in Attempts, Crash(x) PROVE OrderInv'
<1>. TypeOK BY DEF OrderInv
<1>1. /\ run' = [run EXCEPT ![x] = At("dead")] /\ run[x].pc # "off"
      /\ crashes < MaxCrashes /\ crashes' = crashes + 1
      /\ UNCHANGED <<broker, late, plan, current, audit, diary, mon, lost, zombies, readFails, exits>>
  BY DEF Crash, Become, Live
<1>2. AuditAccounts' BY <1>1, AuditUntouched DEF broker
<1>3. crashes' \in 0 .. MaxCrashes BY <1>1, BoundsAreNat DEF TypeOK
<1>. QED BY <1>1, <1>2, <1>3, EndedLocals, LocalStep DEF TypeOK, Reading, Working

LEMMA StartTickOrders == ASSUME OrderInv, NEW t \in Ticks, StartTick(t) PROVE OrderInv'
<1>. TypeOK /\ KeysStand /\ LateStand /\ Started /\ Accounted /\ HasRead /\ AuditAccounts BY DEF OrderInv
<1>. DEFINE x == <<t, 1>>
<1>1. PICK actions \in Plans(pos) : plan' = [plan EXCEPT ![t] = [positions |-> pos, actions |-> actions]]
  BY DEF StartTick
<1>2. /\ plan[t] = None /\ current' = x /\ run' = [run EXCEPT ![x] = At("place")]
      /\ UNCHANGED <<broker, late, audit, diary, mon, bounds>>
  BY DEF StartTick, Become
<1>3. actions \in Decisions BY DEF Plans, Decisions
<1>4. [positions |-> pos, actions |-> actions] \in PlanRows
  <2>1. pos \in [Symbols -> Int] BY BoundsAreNat DEF TypeOK
  <2>. QED BY <1>3, <2>1 DEF PlanRows
<1>5. /\ x \in Attempts /\ x[1] = t
      /\ plan' \in [Ticks -> PlanRows \cup {None}] /\ plan'[t] # None /\ plan'[t].actions = actions
      /\ \A u \in Ticks : plan[u] # None => u # t /\ plan'[u] = plan[u]
      /\ \A u \in Ticks : u # t => plan'[u] = plan[u]
  BY <1>1, <1>2, <1>4, KeyParts, NoneApart DEF TypeOK
<1>6. run' \in [Attempts -> Locals] /\ run'[x] = At("place") /\ \A y \in Attempts : y # x => run'[y] = run[y]
  BY <1>2, <1>5, EndedLocals DEF TypeOK
<1>. HIDE DEF x
<1>7. TypeOK' BY <1>2, <1>5, <1>6 DEF TypeOK, broker, bounds
<1>8. KeysStand' BY <1>2 DEF KeysStand, broker
<1>9. LateStand'
  <2>1. ASSUME NEW r \in late PROVE plan'[r.key[1]] = plan[r.key[1]] /\ r.key \in Keys
    BY <1>5, KeyParts DEF LateStand, TypeOK
  <2>2. \A r \in late : KeyOrder(r.key)' = KeyOrder(r.key) BY <2>1, SamePlanSameOrder
  <2>. QED BY <1>2, <2>1, <2>2 DEF LateStand
<1>10. Started'
  <2>1. At("place").pc = "place" BY EndedLocals
  <2>. QED BY <1>2, <1>5, <1>6, <2>1, KeyParts DEF Started, TypeOK
<1>11. Accounted'
  <2>1. Accounts(x)'
    <3>1. Actions(x)' = actions BY <1>5 DEF Actions
    <3>. QED BY <1>3, <1>6, <3>1, EndedLocals, DecisionTyped DEF Accounts
  <2>2. ASSUME NEW y \in Attempts, y # x, run[y].pc \in Working PROVE Accounts(y)'
    <3>1. run'[y] = run[y] /\ Accounts(y) /\ plan[y[1]] # None BY <1>6, <2>2 DEF Accounted, Started, Working
    <3>2. plan'[y[1]] = plan[y[1]] BY <1>5, <3>1, KeyParts
    <3>. QED BY <1>2, <3>1, <3>2, AccountsStay DEF broker
  <2>. QED BY <1>6, <2>1, <2>2 DEF Accounted
<1>12. HasRead' BY <1>2, <1>6, EndedLocals DEF HasRead, Reading
<1>13. AuditAccounts'
  <2>1. \A u \in Ticks : audit[u] # None => plan'[u] = plan[u] /\ plan[u] # None BY <1>5 DEF Started
  <2>. QED BY <1>2, <2>1 DEF AuditAccounts, broker
<1>. QED BY <1>7, <1>8, <1>9, <1>10, <1>11, <1>12, <1>13 DEF OrderInv

LEMMA TemporalOrders ==
    ASSUME OrderInv, NEW t \in Ticks, (\E n \in 1 .. 2 : Retry(t, n)) \/ FailTick(t) PROVE OrderInv'
<1>. TypeOK /\ Started BY DEF OrderInv
<1>1. ASSUME NEW n \in 1 .. 3, GiveUp(<<t, n>>)
      PROVE  /\ UNCHANGED <<broker, late, plan, audit, diary, mon, lost, crashes, readFails, exits>>
             /\ zombies' \in 0 .. MaxZombies /\ plan[t] # None /\ AuditAccounts'
  <2>1. <<t, n>> \in Attempts /\ current = <<t, n>> /\ <<t, n>>[1] = t BY <1>1 DEF GiveUp, Attempts
  <2>2. plan[t] # None BY <2>1, NoneApart DEF Started
  <2>3. UNCHANGED <<broker, late, plan, audit, diary, mon, lost, crashes, readFails, exits>>
    BY <1>1 DEF GiveUp
  <2>4. zombies' \in 0 .. MaxZombies BY <1>1, BoundsAreNat DEF GiveUp, Live, TypeOK
  <2>5. AuditAccounts' BY <2>3, AuditUntouched DEF broker
  <2>. QED BY <2>2, <2>3, <2>4, <2>5
<1>2. ASSUME NEW n \in 1 .. 2, Retry(t, n) PROVE OrderInv'
  <2>. DEFINE x == <<t, n + 1>>
  <2>1. x \in Attempts /\ x[1] = t BY DEF Attempts
  <2>2. run' = [run EXCEPT ![x] = At("place")] /\ current' = x BY <1>2 DEF Retry, Become
  <2>. HIDE DEF x
  <2>3. /\ UNCHANGED <<broker, late, plan, audit, diary, mon, lost, crashes, readFails, exits>>
        /\ zombies' \in 0 .. MaxZombies /\ plan[t] # None /\ AuditAccounts'
    BY <1>1, <1>2 DEF Retry
  <2>4. Accounts(x)'
    <3>1. Actions(x)' = Actions(x) /\ Len(Actions(x)) \in Nat
      BY <2>1, <2>3, PlanTyped, BoundsAreNat DEF Actions
    <3>2. run'[x] = At("place") BY <2>1, <2>2 DEF TypeOK
    <3>. QED BY <3>1, <3>2, EndedLocals DEF Accounts
  <2>5. /\ At("place") \in Locals /\ At("place").pc = "place" BY EndedLocals
  <2>. QED BY <2>1, <2>2, <2>3, <2>4, <2>5, LocalStep DEF TypeOK, Reading
<1>3. ASSUME FailTick(t) PROVE OrderInv'
  <2>1. run' = run /\ current' = None /\ GiveUp(<<t, 3>>) BY <1>3 DEF FailTick
  <2>2. /\ UNCHANGED <<broker, late, plan, audit, diary, mon, lost, crashes, readFails, exits>>
        /\ zombies' \in 0 .. MaxZombies /\ AuditAccounts'
    BY <1>1, <2>1
  <2>3. TypeOK' /\ KeysStand' BY <2>1, <2>2 DEF TypeOK, KeysStand, OrderInv, broker
  <2>4. \A k \in Keys : KeyOrder(k)' = KeyOrder(k) BY <2>2, SamePlanSameOrder
  <2>5. LateStand' BY <2>2, <2>4 DEF OrderInv, LateStand, TypeOK
  <2>6. Started' /\ HasRead' BY <2>1, <2>2 DEF Started, OrderInv, HasRead
  <2>7. Accounted' BY <2>1, <2>2, AccountsStay DEF Accounted, OrderInv, broker
  <2>. QED BY <2>2, <2>3, <2>5, <2>6, <2>7 DEF OrderInv
<1>. QED BY <1>2, <1>3

LEMMA MonitorOrders ==
    ASSUME OrderInv, MonitorSettles \/ MonitorLost \/ MonitorFinds \/ MonitorWrites PROVE OrderInv'
<1>. TypeOK /\ KeysStand /\ HasRead BY DEF OrderInv
<1>1. Idle \in Sweeps /\ Idle.pc = "idle" BY DEF Idle, Sweeps
<1>2. UNCHANGED <<plan, current, run, audit, late, order, life, protected>>
  BY DEF MonitorSettles, MonitorLost, MonitorFinds, MonitorWrites, broker
<1>3. CASE MonitorSettles
  <2>1. PICK hit \in SUBSET Symbols :
            /\ pos' = [s \in Symbols |-> IF s \in hit THEN 0 ELSE pos[s]]
            /\ mon' = [pc |-> "settled", exits |-> hit, life |-> life, row |-> None]
    BY <1>3 DEF MonitorSettles
  <2>2. pos' \in [Symbols -> -MaxQty .. MaxQty] BY <2>1, BoundsAreNat DEF TypeOK
  <2>3. mon' \in Sweeps /\ mon'.pc = "settled" /\ mon'.life \in [Symbols -> Nat] BY <2>1 DEF Sweeps, TypeOK
  <2>4. exits' \in 0 .. MaxExits BY <1>3, BoundsAreNat DEF MonitorSettles, TypeOK
  <2>. QED BY <1>2, <1>3, <2>2, <2>3, <2>4, OutsideStep DEF MonitorSettles, TypeOK, KeysStand
<1>4. CASE MonitorLost
  <2>1. crashes' \in 0 .. MaxCrashes BY <1>4, BoundsAreNat DEF MonitorLost, TypeOK
  <2>. QED BY <1>1, <1>2, <1>4, <2>1, OutsideStep DEF MonitorLost, TypeOK, KeysStand, broker
<1>5. CASE MonitorFinds
  <2>1. mon' \in Sweeps /\ mon'.pc = "write" /\ mon'.row \in Found /\ mon'.life = mon.life /\ mon.pc = "settled"
    BY <1>5, FoundTyped DEF MonitorFinds, Sweeps, TypeOK
  <2>. QED BY <1>2, <1>5, <2>1, OutsideStep DEF MonitorFinds, TypeOK, KeysStand, HasRead, broker, bounds
<1>6. CASE MonitorWrites
  <2>1. mon.row \in Found /\ mon.life \in [Symbols -> Nat] BY <1>6 DEF MonitorWrites, HasRead
  <2>2. \A s \in Symbols : CloseOpen(diary[s], mon.row[s], mon.life[s]) \in Seq(Rows)
    BY <2>1, DiaryTyped DEF Found, TypeOK
  <2>3. diary' \in [Symbols -> Seq(Rows)] BY <1>6, <2>2 DEF MonitorWrites, TypeOK
  <2>. QED BY <1>1, <1>2, <1>6, <2>3, OutsideStep DEF MonitorWrites, TypeOK, KeysStand, broker, bounds
<1>. QED BY <1>3, <1>4, <1>5, <1>6

LEMMA NextOrders == OrderInv /\ [Next]_vars => OrderInv'
<1>. SUFFICES ASSUME OrderInv, [Next]_vars PROVE OrderInv' OBVIOUS
<1>1. ASSUME NEW x \in Attempts, Apply(x) \/ Crash(x) PROVE OrderInv'
  BY <1>1, PlaceAnsweredOrders, PlaceRaisesOrders, RecordOrders, ReconcileOrders, CrashOrders DEF Apply
<1>2. CASE UNCHANGED vars
  <2>1. \A k \in Keys : KeyOrder(k)' = KeyOrder(k) BY <1>2, SamePlanSameOrder DEF vars
  <2>2. TypeOK' /\ KeysStand' /\ Started' /\ HasRead' /\ AuditAccounts'
    BY <1>2 DEF OrderInv, TypeOK, KeysStand, Started, HasRead, AuditAccounts, vars, broker, bounds
  <2>3. LateStand' BY <1>2, <2>1 DEF OrderInv, LateStand, TypeOK, vars
  <2>4. Accounted' BY <1>2, AccountsStay DEF Accounted, OrderInv, vars, broker
  <2>. QED BY <2>2, <2>3, <2>4 DEF OrderInv
<1>. QED BY <1>1, <1>2, StartTickOrders, TemporalOrders, HandleLateOrders, MonitorOrders DEF Next

(* Whatever is lost, late, retried or runs in parallel.                    *)
LEMMA OrdersHold == Spec => []OrderInv
<1>. QED BY InitOrders, NextOrders, PTL DEF Spec

(* The audit of a tick accounts for every action of its decision, and what *)
(* it says was placed is in the ledger with the status it says, whichever  *)
(* attempt wrote it and whatever its predecessors had placed.              *)
THEOREM TickAudits == Spec => []AuditAccounts
<1>1. OrderInv => AuditAccounts BY DEF OrderInv
<1>. QED BY <1>1, OrdersHold, PTL

LEMMA KeysOrderOnce == OrderInv => OrderedOnce
<1>1. \A t \in Ticks, j \in Indices : <<t, j>> \in Keys /\ <<t, j>>[2] = j BY DEF Keys
<1>. QED BY <1>1 DEF OrderInv, KeysStand, OrderedOnce

-----------------------------------------------------------------------------
(* What an order does to the position of its symbol: a close brings it     *)
(* nearer to flat, an open away from it unless it is on the other side.    *)
LEMMA OrderMoves ==
    ASSUME OrderInv, NEW k \in Keys, plan[k[1]] # None, k[2] \in DOMAIN plan[k[1]].actions,
           Handle(k, KeyOrder(k)), NEW s \in Symbols, s = KeyOrder(k).symbol
    PROVE  /\ pos[s] \in Int /\ pos'[s] \in Int
           /\ Actions(k)[k[2]].symbol = s
           /\ Actions(k)[k[2]].kind = "close" =>
                  /\ pos[s] >= 0 => pos'[s] >= 0
                  /\ pos[s] <= 0 => pos'[s] <= 0
           /\ Actions(k)[k[2]].kind = "buy" /\ pos[s] >= 0 => pos'[s] >= 0 /\ (pos[s] # 0 => pos'[s] # 0)
           /\ Actions(k)[k[2]].kind = "short" /\ pos[s] <= 0 => pos'[s] <= 0 /\ (pos[s] # 0 => pos'[s] # 0)
           /\ "negative" \notin Stops /\ (pos[s] # 0 => protected[s]) => (pos'[s] # 0 => protected'[s])
<1>. TypeOK /\ KeysStand BY DEF OrderInv
<1>. DEFINE o == KeyOrder(k)
            a == Actions(k)[k[2]]
<1>1. /\ o.symbol = a.symbol /\ o.qty \in Int /\ a.kind \in {"buy", "short", "close"}
      /\ o.reduce_only <=> a.kind = "close"
      /\ a.kind = "buy" => o.qty = 1
      /\ a.kind = "short" => o.qty = -1
      /\ "negative" \notin Stops /\ a.kind # "close" => o.stop = "positive"
  BY KeyParts, OrderTyped DEF KeyOrder, Actions
<1>2. pos[s] \in Int /\ protected[s] \in BOOLEAN BY BoundsAreNat DEF TypeOK
<1>3. \/ pos' = pos /\ protected' = protected
      \/ Fills(o) /\ Levels(o)
  BY DEF Handle, Execute, broker
<1>. HIDE DEF a, o
<1>4. CASE pos' = pos /\ protected' = protected BY <1>1, <1>2, <1>4 DEF a, o
<1>5. CASE Fills(o) /\ Levels(o)
  <2>1. /\ o.reduce_only => Reduces(pos[s], o)
        /\ pos'[s] = FilledQty(pos[s], o)
        /\ s = o.symbol
    BY <1>5 DEF Fills, TypeOK, o
  <2>2. protected'[s] = IF pos[s] = 0 THEN o.stop = "positive"
                        ELSE IF Reduces(pos[s], o) THEN protected[s] ELSE protected[s] \/ o.stop = "positive"
    BY <1>5, <2>1 DEF Levels, TypeOK
  <2>3. pos'[s] \in Int BY <1>1, <1>2, <2>1 DEF FilledQty
  <2>4. a.kind = "close" => /\ pos[s] >= 0 => pos'[s] >= 0
                            /\ pos[s] <= 0 => pos'[s] <= 0
    BY <1>1, <1>2, <2>1 DEF FilledQty, Reduces, Abs
  <2>5. a.kind = "buy" /\ pos[s] >= 0 => pos'[s] >= 0 /\ (pos[s] # 0 => pos'[s] # 0)
    BY <1>1, <1>2, <2>1 DEF FilledQty, Reduces, Abs
  <2>6. a.kind = "short" /\ pos[s] <= 0 => pos'[s] <= 0 /\ (pos[s] # 0 => pos'[s] # 0)
    BY <1>1, <1>2, <2>1 DEF FilledQty, Reduces, Abs
  <2>7. "negative" \notin Stops /\ (pos[s] # 0 => protected[s]) => (pos'[s] # 0 => protected'[s])
    <3>1. SUFFICES ASSUME "negative" \notin Stops, pos[s] # 0 => protected[s] PROVE protected'[s]
      OBVIOUS
    <3>2. CASE pos[s] # 0 BY <1>2, <2>2, <3>1, <3>2
    <3>3. CASE pos[s] = 0
      <4>1. ~Reduces(pos[s], o) BY <3>3 DEF Reduces
      <4>2. o.stop = "positive" BY <1>1, <2>1, <3>1, <4>1
      <4>. QED BY <2>2, <3>3, <4>2
    <3>. QED BY <3>2, <3>3
  <2>. QED BY <1>1, <1>2, <2>1, <2>3, <2>4, <2>5, <2>6, <2>7 DEF a, o
<1>. QED BY <1>3, <1>4, <1>5

(* A step orders one action of a plan, or the monitor exits, or positions, *)
(* lives and levels stay.                                                  *)
Ordered(k) ==
    /\ plan[k[1]] # None
    /\ k[2] \in DOMAIN plan[k[1]].actions
    /\ Handle(k, KeyOrder(k))

LEMMA WhoOrders ==
    ASSUME OrderInv, [Next]_vars
    PROVE  \/ UNCHANGED <<pos, life, protected>>
           \/ MonitorSettles
           \/ \E x \in Attempts : PlaceAnswered(x) /\ KeyOf(x) \in Keys /\ Ordered(KeyOf(x))
           \/ \E r \in late : HandleLate(r) /\ r.key \in Keys /\ Ordered(r.key)
<1>. TypeOK BY DEF OrderInv
<1>1. ASSUME NEW x \in Attempts, PlaceAnswered(x) PROVE KeyOf(x) \in Keys /\ Ordered(KeyOf(x))
  BY <1>1, PlacingTyped DEF PlaceAnswered, Ordered, Actions
<1>2. ASSUME NEW r \in late, HandleLate(r) PROVE r.key \in Keys /\ Ordered(r.key)
  BY <1>2 DEF HandleLate, Ordered, OrderInv, LateStand, TypeOK
<1>3. ASSUME NEW x \in Attempts, Apply(x) \/ Crash(x), ~PlaceAnswered(x) PROVE UNCHANGED broker
  BY <1>3 DEF Apply, Crash, PlaceRaises, RecordCheck, RecordWrite, RecordRefused, ReconcileNothing,
              ListPositions, FindRows, WriteDiary, DiaryFails
<1>4. ASSUME NEW t \in Ticks, StartTick(t) \/ (\E n \in 1 .. 2 : Retry(t, n)) \/ FailTick(t)
      PROVE  UNCHANGED broker
  BY <1>4 DEF StartTick, Retry, FailTick, GiveUp
<1>5. ASSUME MonitorLost \/ MonitorFinds \/ MonitorWrites PROVE UNCHANGED broker
  BY <1>5 DEF MonitorLost, MonitorFinds, MonitorWrites
<1>6. UNCHANGED vars => UNCHANGED broker BY DEF vars
<1>. QED BY <1>1, <1>2, <1>3, <1>4, <1>5, <1>6 DEF Next, broker

LEMMA OthersStand ==
    ASSUME OrderInv, NEW k \in Keys, Ordered(k)
    PROVE  \A s \in Symbols : s # KeyOrder(k).symbol => pos'[s] = pos[s] /\ protected'[s] = protected[s]
<1>1. TypeOK /\ KeysStand BY DEF OrderInv
<1>2. plan[k[1]] # None /\ k[2] \in DOMAIN plan[k[1]].actions /\ Handle(k, KeyOrder(k)) BY DEF Ordered
<1>. QED BY <1>1, <1>2, HandleTyped

LEMMA NextProtects ==
    ASSUME OrderInv, [Next]_vars, "negative" \notin Stops, AlwaysProtected PROVE AlwaysProtected'
<1>1. CASE UNCHANGED <<pos, life, protected>> BY <1>1 DEF AlwaysProtected
<1>2. CASE MonitorSettles
  <2>1. protected' = protected /\ \A s \in Symbols : pos'[s] # 0 => pos'[s] = pos[s]
    BY <1>2 DEF MonitorSettles
  <2>. QED BY <2>1 DEF AlwaysProtected
<1>3. ASSUME NEW k \in Keys, Ordered(k) PROVE AlwaysProtected'
  <2>1. \A s \in Symbols : s # KeyOrder(k).symbol => pos'[s] = pos[s] /\ protected'[s] = protected[s]
    BY <1>3, OthersStand
  <2>2. \A s \in Symbols : s = KeyOrder(k).symbol => (pos'[s] # 0 => protected'[s])
    BY <1>3, OrderMoves DEF Ordered, AlwaysProtected
  <2>. QED BY <2>1, <2>2 DEF AlwaysProtected
<1>. QED BY <1>1, <1>2, <1>3, WhoOrders

(* Whatever is retried or answered late: a tick acts once on each of its   *)
(* actions, and, where the manager's stops are not negative, nothing that  *)
(* it opens is left without one.                                           *)
THEOREM TickActsOnce == ASSUME "negative" \notin Stops PROVE Spec => []TickInv
<1>1. Init => AlwaysProtected BY DEF Init, AlwaysProtected
<1>2. AlwaysProtected /\ OrderInv /\ [Next]_vars => AlwaysProtected' BY NextProtects
<1>3. AlwaysProtected /\ OrderInv => TickInv BY KeysOrderOnce DEF OrderInv, TickInv
<1>. QED BY <1>1, <1>2, <1>3, OrdersHold, PTL DEF Spec

(* Every variable has its type, whatever the manager's stops are.          *)
THEOREM TickTypeOK == Spec => []TypeOK
<1>1. OrderInv => TypeOK BY DEF OrderInv
<1>. QED BY <1>1, OrdersHold, PTL

(* "apply is idempotent (deterministic client_order_id) so retrying is     *)
(* safe": no action of a tick is ordered twice and no key stands for two   *)
(* actions, through late requests, retries and attempts in parallel.       *)
THEOREM TickOrdersOnce == Spec => []OrderedOnce
BY KeysOrderOnce, OrdersHold, PTL

-----------------------------------------------------------------------------
(* The rows of a symbol after one of the diary's operations.               *)
LEMMA Opening ==
    ASSUME NEW rows \in Seq(Rows), NEW row \in Nat \cup {None}, row # None => row \in DOMAIN rows, NEW l \in Nat
    PROVE  /\ row = None => OpenRows(OpenOrUpdate(rows, row, l)) = OpenRows(rows) \cup {Len(rows) + 1}
           /\ row # None => OpenRows(OpenOrUpdate(rows, row, l)) = OpenRows(rows)
           /\ \A i \in DOMAIN OpenOrUpdate(rows, row, l) :
                  \/ OpenOrUpdate(rows, row, l)[i].last = l
                  \/ i \in DOMAIN rows /\ OpenOrUpdate(rows, row, l)[i].last = rows[i].last
           /\ \A i \in DOMAIN OpenOrUpdate(rows, row, l) :
                  OpenOrUpdate(rows, row, l)[i].status = "closed" =>
                      /\ i \in DOMAIN rows /\ rows[i].status = "closed"
                      /\ i # row => OpenOrUpdate(rows, row, l)[i].last = rows[i].last
<1>. DEFINE new == OpenOrUpdate(rows, row, l)
<1>0. DOMAIN rows = 1 .. Len(rows) /\ Len(rows) \in Nat /\ \A i \in DOMAIN rows : rows[i] \in Rows OBVIOUS
<1>1. CASE row = None
  <2>. DEFINE e == [status |-> "open", life |-> l, last |-> l, by |-> None]
  <2>1. new = Append(rows, e) /\ e.status = "open" /\ e.last = l /\ e \in Rows BY <1>1 DEF OpenOrUpdate, Rows
  <2>. HIDE DEF e
  <2>2. /\ DOMAIN new = DOMAIN rows \cup {Len(rows) + 1} /\ new[Len(rows) + 1] = e
        /\ \A i \in DOMAIN rows : new[i] = rows[i]
    BY <1>0, <2>1
  <2>. HIDE DEF new
  <2>3. OpenRows(new) = OpenRows(rows) \cup {Len(rows) + 1} BY <2>1, <2>2 DEF OpenRows
  <2>. QED BY <1>1, <2>1, <2>2, <2>3 DEF new
<1>2. CASE row # None
  <2>1. new = [rows EXCEPT ![row].last = l] /\ row \in DOMAIN rows BY <1>2 DEF OpenOrUpdate
  <2>. HIDE DEF new
  <2>2. DOMAIN new = DOMAIN rows /\ \A i \in DOMAIN rows : i # row => new[i] = rows[i] BY <2>1
  <2>3. new[row] = [rows[row] EXCEPT !.last = l] BY <2>1
  <2>4. new[row].status = rows[row].status /\ new[row].last = l BY <1>0, <2>1, <2>3 DEF Rows
  <2>5. OpenRows(new) = OpenRows(rows) BY <2>2, <2>4 DEF OpenRows
  <2>6. \A i \in DOMAIN new : \/ new[i].last = l
                              \/ i \in DOMAIN rows /\ new[i].last = rows[i].last
    BY <2>2, <2>4
  <2>7. \A i \in DOMAIN new : new[i].status = "closed" =>
            /\ i \in DOMAIN rows /\ rows[i].status = "closed"
            /\ i # row => new[i].last = rows[i].last
    BY <2>2, <2>4
  <2>. QED BY <1>2, <2>5, <2>6, <2>7 DEF new
<1>. QED BY <1>1, <1>2

LEMMA Closing ==
    ASSUME NEW rows \in Seq(Rows), NEW row \in Nat \cup {None}, row # None => row \in DOMAIN rows, NEW l \in Nat
    PROVE  /\ OpenRows(CloseOpen(rows, row, l)) = OpenRows(rows) \ {row}
           /\ DOMAIN CloseOpen(rows, row, l) = DOMAIN rows
           /\ \A i \in DOMAIN rows : CloseOpen(rows, row, l)[i].last = rows[i].last
           /\ \A i \in DOMAIN rows : i # row => CloseOpen(rows, row, l)[i].status = rows[i].status
<1>. DEFINE new == CloseOpen(rows, row, l)
<1>0. DOMAIN rows = 1 .. Len(rows) /\ Len(rows) \in Nat /\ \A i \in DOMAIN rows : rows[i] \in Rows OBVIOUS
<1>1. CASE row = None
  <2>1. new = rows /\ row \notin OpenRows(rows) BY <1>0, <1>1, NoneApart DEF CloseOpen, OpenRows
  <2>. QED BY <2>1
<1>2. CASE row # None
  <2>1. new = [rows EXCEPT ![row].status = "closed", ![row].by = l] /\ row \in DOMAIN rows BY <1>2 DEF CloseOpen
  <2>. HIDE DEF new
  <2>2. DOMAIN new = DOMAIN rows /\ \A i \in DOMAIN rows : i # row => new[i] = rows[i] BY <2>1
  <2>3. new[row] = [rows[row] EXCEPT !.status = "closed", !.by = l] BY <2>1
  <2>4. new[row].status = "closed" /\ new[row].last = rows[row].last BY <1>0, <2>1, <2>3 DEF Rows
  <2>5. OpenRows(new) = OpenRows(rows) \ {row} BY <2>2, <2>4 DEF OpenRows
  <2>. QED BY <2>2, <2>4, <2>5 DEF new
<1>. QED BY <1>1, <1>2

(* What every step respects: lives go on, inputs used up are not given     *)
(* back, plans stay, and what an attempt has read is read by ListPositions *)
(* and FindRows.                                                           *)
LEMMA WorldMoves ==
    ASSUME OrderInv, [Next]_vars, NEW s \in Symbols
    PROVE  /\ life[s] \in Nat /\ life'[s] \in Nat /\ life[s] <= life'[s]
           /\ pos[s] = 0 /\ pos'[s] # 0 => life[s] < life'[s]
<1>. OrderInv' BY NextOrders
<1>0. life[s] \in Nat /\ life'[s] \in Nat BY DEF OrderInv, TypeOK
<1>1. CASE UNCHANGED <<pos, life, protected>> BY <1>0, <1>1
<1>2. CASE MonitorSettles
  <2>1. life' = life /\ (pos'[s] # 0 => pos'[s] = pos[s]) BY <1>2 DEF MonitorSettles
  <2>. QED BY <1>0, <2>1
<1>3. ASSUME NEW k \in Keys, Ordered(k)
      PROVE life[s] <= life'[s] /\ (pos[s] = 0 /\ pos'[s] # 0 => life[s] < life'[s])
  BY <1>3, HandleTyped DEF Ordered, OrderInv
<1>. QED BY <1>0, <1>1, <1>2, <1>3, WhoOrders

LEMMA BoundsGrow ==
    ASSUME OrderInv, [Next]_vars
    PROVE  /\ lost <= lost' /\ crashes <= crashes' /\ zombies <= zombies' /\ readFails <= readFails'
           /\ exits <= exits'
           /\ {lost, crashes, zombies, readFails, exits, lost', crashes', zombies', readFails', exits'} \subseteq Nat
<1>. OrderInv' BY NextOrders
<1>1. {lost, crashes, zombies, readFails, exits, lost', crashes', zombies', readFails', exits'} \subseteq Nat
  BY BoundsAreNat DEF OrderInv, TypeOK
<1>2. \/ UNCHANGED bounds
      \/ lost' = lost + 1 /\ UNCHANGED <<crashes, zombies, readFails, exits>>
      \/ crashes' = crashes + 1 /\ UNCHANGED <<lost, zombies, readFails, exits>>
      \/ zombies' = zombies + 1 /\ UNCHANGED <<lost, crashes, readFails, exits>>
      \/ readFails' = readFails + 1 /\ UNCHANGED <<lost, crashes, zombies, exits>>
      \/ exits' = exits + 1 /\ UNCHANGED <<lost, crashes, zombies, readFails>>
  <2>1. ASSUME NEW x \in Attempts, Apply(x) \/ Crash(x) PROVE <1>2!1 \/ <1>2!2 \/ <1>2!3 \/ <1>2!5
    BY <2>1 DEF Apply, Crash, PlaceAnswered, PlaceRaises, RecordCheck, RecordWrite, RecordRefused,
                ReconcileNothing, ListPositions, FindRows, WriteDiary, DiaryFails, bounds
  <2>2. ASSUME NEW t \in Ticks, StartTick(t) \/ (\E n \in 1 .. 2 : Retry(t, n)) \/ FailTick(t)
        PROVE  <1>2!1 \/ <1>2!4
    BY <2>2 DEF StartTick, Retry, FailTick, GiveUp, bounds
  <2>3. (\E r \in late : HandleLate(r)) \/ MonitorFinds \/ MonitorWrites => UNCHANGED bounds
    BY DEF HandleLate, MonitorFinds, MonitorWrites
  <2>4. MonitorSettles => <1>2!6 BY DEF MonitorSettles
  <2>5. MonitorLost => <1>2!3 BY DEF MonitorLost
  <2>6. UNCHANGED vars => UNCHANGED bounds BY DEF vars
  <2>. QED BY <2>1, <2>2, <2>3, <2>4, <2>5, <2>6 DEF Next
<1>. QED BY <1>1, <1>2 DEF bounds

LEMMA SumOfNone ==
    /\ \A a, b \in Nat : a + b = 0 => a = 0 /\ b = 0
    /\ \A a, b, c \in Nat : a + b + c = 0 => a = 0 /\ b = 0 /\ c = 0
<1>1. ASSUME NEW a \in Nat, NEW b \in Nat, a + b = 0 PROVE a = 0 /\ b = 0 BY <1>1
<1>2. ASSUME NEW a \in Nat, NEW b \in Nat, NEW c \in Nat, a + b + c = 0 PROVE a = 0 /\ b = 0 /\ c = 0
  BY <1>2
<1>. QED BY <1>1, <1>2

LEMMA NoneBefore ==
    ASSUME OrderInv, [Next]_vars
    PROVE  /\ zombies' = 0 => zombies = 0
           /\ exits' = 0 => exits = 0
           /\ readFails' = 0 => readFails = 0
           /\ zombies + exits = 0 => zombies = 0 /\ exits = 0
           /\ zombies' + exits' = 0 => zombies + exits = 0
           /\ readFails' + zombies' + exits' = 0 => readFails = 0 /\ zombies + exits = 0
           /\ readFails' + zombies' + exits' = 0 => readFails + zombies + exits = 0
<1>1. /\ zombies \in Nat /\ zombies' \in Nat /\ zombies <= zombies'
      /\ exits \in Nat /\ exits' \in Nat /\ exits <= exits'
      /\ readFails \in Nat /\ readFails' \in Nat /\ readFails <= readFails'
  BY BoundsGrow
<1>2. /\ zombies' = 0 => zombies = 0
      /\ exits' = 0 => exits = 0
      /\ readFails' = 0 => readFails = 0
  BY <1>1
<1>3. zombies + exits = 0 => zombies = 0 /\ exits = 0 BY <1>1, SumOfNone
<1>4. zombies' + exits' = 0 => zombies' = 0 /\ exits' = 0 BY <1>1, SumOfNone
<1>5. readFails' + zombies' + exits' = 0 => readFails' = 0 /\ zombies' = 0 /\ exits' = 0
  <2>. DEFINE a == readFails'
              b == zombies'
              c == exits'
  <2>1. a \in Nat /\ b \in Nat /\ c \in Nat BY <1>1
  <2>. HIDE DEF a, b, c
  <2>2. a + b + c = 0 => a = 0 /\ b = 0 /\ c = 0 BY <2>1
  <2>. QED BY <2>2 DEF a, b, c
<1>6. zombies = 0 /\ exits = 0 => zombies + exits = 0 OBVIOUS
<1>7. readFails = 0 /\ zombies = 0 /\ exits = 0 => readFails + zombies + exits = 0 OBVIOUS
<1>. QED BY <1>2, <1>3, <1>4, <1>5, <1>6, <1>7

LEMMA PlansStay ==
    ASSUME OrderInv, [Next]_vars, NEW t \in Ticks
    PROVE  /\ plan'[t] = plan[t] \/ StartTick(t)
           /\ plan[t] # None => plan'[t] = plan[t]
<1>1. ASSUME NEW u \in Ticks, StartTick(u)
      PROVE  plan[u] = None /\ (t # u => plan'[t] = plan[t])
  <2>1. plan[u] = None BY <1>1 DEF StartTick
  <2>2. PICK new : plan' = [plan EXCEPT ![u] = new] BY <1>1 DEF StartTick
  <2>. QED BY <2>1, <2>2 DEF OrderInv, TypeOK
<1>2. ASSUME NEW x \in Attempts, Apply(x) \/ Crash(x) PROVE plan' = plan
  BY <1>2 DEF Apply, Crash, PlaceAnswered, PlaceRaises, RecordCheck, RecordWrite, RecordRefused,
              ReconcileNothing, ListPositions, FindRows, WriteDiary, DiaryFails
<1>3. ASSUME NEW u \in Ticks, (\E n \in 1 .. 2 : Retry(u, n)) \/ FailTick(u) PROVE plan' = plan
  BY <1>3 DEF Retry, FailTick, GiveUp
<1>4. (\E r \in late : HandleLate(r)) \/ MonitorSettles \/ MonitorLost \/ MonitorFinds \/ MonitorWrites => plan' = plan
  BY DEF HandleLate, MonitorSettles, MonitorLost, MonitorFinds, MonitorWrites
<1>5. UNCHANGED vars => plan' = plan BY DEF vars
<1>. QED BY <1>1, <1>2, <1>3, <1>4, <1>5 DEF Next

(* An attempt that orders goes on ordering.                                *)
LEMMA StillPlacing ==
    ASSUME OrderInv, NEW x \in Attempts, PlaceAnswered(x) \/ PlaceRaises(x)
    PROVE  /\ run'[x].pc = "place"
           /\ \A y \in Attempts : y # x => run'[y] = run[y]
           /\ PlaceAnswered(x) => run'[x].placed = run[x].placed \cup {Answer(x)}
<1>. TypeOK BY DEF OrderInv
<1>1. CASE PlaceAnswered(x)
  <2>1. Answer(x) \in Entries /\ run' = [run EXCEPT ![x] = Noted(run[x], Answer(x))] /\ Placing(x)
    BY <1>1, AnsweredOrder
  <2>2. run[x] \in Locals /\ run[x].at \in Indices /\ run[x].pc = "place" BY <2>1, PlacingTyped
  <2>3. Noted(run[x], Answer(x)).pc = "place" /\ Noted(run[x], Answer(x)).placed = run[x].placed \cup {Answer(x)}
    BY <2>1, <2>2, NotedTyped
  <2>. QED BY <2>1, <2>3 DEF TypeOK
<1>2. CASE PlaceRaises(x) /\ ~PlaceAnswered(x)
  <2>1. run' = [run EXCEPT ![x] = Missed(run[x])] /\ Placing(x) BY <1>2 DEF PlaceRaises, Note, Missed, TypeOK
  <2>2. run[x] \in Locals /\ run[x].at \in Indices /\ run[x].pc = "place" BY <2>1, PlacingTyped
  <2>3. Missed(run[x]).pc = "place" BY <2>2, MissedTyped
  <2>. QED BY <1>2, <2>1, <2>3 DEF TypeOK
<1>. QED BY <1>1, <1>2

(* A step of an attempt is its own.                                        *)
LEMMA OneActs ==
    ASSUME OrderInv, NEW x \in Attempts, Apply(x) \/ Crash(x)
    PROVE  /\ Live(x) /\ mon' = mon
           /\ \A y \in Attempts : y # x => run'[y] = run[y]
           /\ \/ current' = current
              \/ current = x /\ current' = None /\ run'[x].pc = "done"
           /\ run'[x].pc = "done" /\ current = x => current' = None
<1>. TypeOK BY DEF OrderInv
<1>1. ASSUME End(x)
      PROVE  /\ \A y \in Attempts : y # x => run'[y] = run[y]
             /\ \/ current' = current
                \/ current = x /\ current' = None /\ run'[x].pc = "done"
             /\ current = x => current' = None
  BY <1>1, EndedLocals DEF End, Become, TypeOK
<1>2. CASE ReconcileNothing(x) \/ WriteDiary(x) \/ DiaryFails(x)
  BY <1>1, <1>2 DEF ReconcileNothing, WriteDiary, DiaryFails, Live
<1>3. CASE PlaceAnswered(x) \/ PlaceRaises(x)
  <2>1. Live(x) /\ mon' = mon /\ current' = current BY <1>3 DEF PlaceAnswered, PlaceRaises, Placing, Live
  <2>. QED BY <1>3, <2>1, StillPlacing
<1>4. CASE RecordCheck(x) \/ RecordWrite(x)
  <2>1. PICK w \in {"record", "list"} : Goto(x, w) BY <1>4 DEF RecordCheck, RecordWrite
  <2>2. run'[x].pc = w BY <2>1 DEF Goto, TypeOK, Locals
  <2>. QED BY <1>4, <2>1, <2>2 DEF RecordCheck, RecordWrite, Goto, TypeOK, Live
<1>5. CASE RecordRefused(x) \/ Crash(x)
  <2>1. run' = [run EXCEPT ![x] = At("dead")] BY <1>5 DEF RecordRefused, Crash, Become
  <2>. QED BY <1>5, <2>1, EndedLocals DEF RecordRefused, Crash, TypeOK, Live
<1>6. CASE ListPositions(x)
  <2>1. PICK v : run' = [run EXCEPT ![x].view = v, ![x].pc = "find"] BY <1>6 DEF ListPositions
  <2>2. run'[x].pc = "find" BY <2>1 DEF TypeOK, Locals
  <2>. QED BY <1>6, <2>1, <2>2 DEF ListPositions, TypeOK, Live
<1>7. CASE FindRows(x)
  <2>1. run'[x].pc = "write" BY <1>7 DEF FindRows, TypeOK, Locals
  <2>. QED BY <1>7, <2>1 DEF FindRows, TypeOK, Live
<1>. QED BY <1>2, <1>3, <1>4, <1>5, <1>6, <1>7 DEF Apply

(* A step that is no attempt's: the schedule's and Temporal's steps put an *)
(* attempt at its beginning.                                               *)
LEMMA NobodyActs ==
    ASSUME OrderInv, [Next]_vars, \A x \in Attempts : ~(Apply(x) \/ Crash(x))
    PROVE  \/ /\ UNCHANGED <<run, current>>
              /\ UNCHANGED zombies
           \/ \E t \in Ticks : StartTick(t)
           \/ \E t \in Ticks : \E n \in 1 .. 2 : Retry(t, n)
           \/ \E t \in Ticks : FailTick(t)
<1>1. (\E r \in late : HandleLate(r)) \/ MonitorSettles \/ MonitorLost \/ MonitorFinds \/ MonitorWrites
          => UNCHANGED <<run, current>> /\ UNCHANGED zombies
  BY DEF HandleLate, MonitorSettles, MonitorLost, MonitorFinds, MonitorWrites, bounds
<1>2. UNCHANGED vars => UNCHANGED <<run, current>> /\ UNCHANGED zombies BY DEF vars, bounds
<1>. QED BY <1>1, <1>2 DEF Next

LEMMA WhoReads ==
    ASSUME OrderInv, [Next]_vars, NEW y \in Attempts, run'[y].pc \in Reading
    PROVE  run'[y] = run[y] \/ ListPositions(y) \/ FindRows(y)
<1>. TypeOK BY DEF OrderInv
<1>1. ASSUME NEW x \in Attempts, Apply(x) \/ Crash(x) PROVE run'[y] = run[y] \/ ListPositions(y) \/ FindRows(y)
  <2>1. CASE x # y BY <1>1, <2>1, OneActs
  <2>2. CASE x = y /\ (PlaceAnswered(x) \/ PlaceRaises(x))
    BY <2>2, StillPlacing DEF Reading
  <2>3. CASE x = y /\ (RecordCheck(x) \/ RecordWrite(x))
    <3>1. PICK w \in {"record", "list"} : Goto(x, w) BY <2>3 DEF RecordCheck, RecordWrite
    <3>2. run'[x].pc = w BY <3>1 DEF Goto, TypeOK, Locals
    <3>. QED BY <2>3, <3>2 DEF Reading
  <2>4. CASE x = y /\ (RecordRefused(x) \/ Crash(x) \/ ReconcileNothing(x) \/ WriteDiary(x) \/ DiaryFails(x))
    <3>1. PICK w \in {"dead", "done"} : run' = [run EXCEPT ![x] = At(w)]
      BY <2>4 DEF RecordRefused, Crash, ReconcileNothing, WriteDiary, DiaryFails, End, Become
    <3>2. run'[x].pc = w BY <3>1, EndedLocals DEF TypeOK
    <3>. QED BY <2>4, <3>2 DEF Reading
  <2>. QED BY <1>1, <2>1, <2>2, <2>3, <2>4 DEF Apply
<1>2. ASSUME NEW x \in Attempts, run' = [run EXCEPT ![x] = At("place")] PROVE run'[y] = run[y]
  BY <1>2, EndedLocals DEF TypeOK, Reading
<1>3. ASSUME NEW t \in Ticks, StartTick(t) \/ (\E n \in 1 .. 2 : Retry(t, n)) \/ FailTick(t) PROVE run'[y] = run[y]
  <2>1. CASE StartTick(t) BY <1>2, <2>1, KeyParts DEF StartTick, Become
  <2>2. ASSUME NEW n \in 1 .. 2, Retry(t, n) PROVE run'[y] = run[y]
    <3>1. <<t, n + 1>> \in Attempts BY DEF Attempts
    <3>. QED BY <1>2, <2>2, <3>1 DEF Retry, Become
  <2>3. CASE FailTick(t) BY <2>3 DEF FailTick
  <2>. QED BY <1>3, <2>1, <2>2, <2>3
<1>. QED BY <1>1, <1>3, NobodyActs

LEMMA WhoWrites ==
    ASSUME OrderInv, [Next]_vars, diary' # diary
    PROVE  MonitorWrites \/ \E x \in Attempts : WriteDiary(x)
<1>1. ASSUME NEW x \in Attempts, Apply(x) \/ Crash(x), ~WriteDiary(x) PROVE diary' = diary
  BY <1>1 DEF Apply, Crash, PlaceAnswered, PlaceRaises, RecordCheck, RecordWrite, RecordRefused,
              ReconcileNothing, ListPositions, FindRows, DiaryFails
<1>2. ASSUME NEW t \in Ticks, StartTick(t) \/ (\E n \in 1 .. 2 : Retry(t, n)) \/ FailTick(t) PROVE diary' = diary
  BY <1>2 DEF StartTick, Retry, FailTick, GiveUp
<1>3. (\E r \in late : HandleLate(r)) \/ MonitorSettles \/ MonitorLost \/ MonitorFinds => diary' = diary
  BY DEF HandleLate, MonitorSettles, MonitorLost, MonitorFinds
<1>4. UNCHANGED vars => diary' = diary BY DEF vars
<1>. QED BY <1>1, <1>2, <1>3, <1>4 DEF Next

-----------------------------------------------------------------------------
LEMMA InitDiary == Init => DiaryInv
<1>. SUFFICES ASSUME Init PROVE DiaryInv OBVIOUS
<1>1. /\ plan = [t \in Ticks |-> None] /\ current = None /\ late = {} /\ mon.pc = "idle"
      /\ \A x \in Attempts : run[x] = At("off")
      /\ \A s \in Symbols : diary[s] = <<>> /\ pos[s] = 0
  BY DEF Init, Idle
<1>2. \A s \in Symbols : DOMAIN diary[s] = {} /\ OpenRows(diary[s]) = {} BY <1>1 DEF OpenRows
<1>3. \A x \in Attempts : run[x].pc = "off" BY <1>1, EndedLocals
<1>4. PlansSided /\ SeenTrue /\ LastLived /\ OneOpen /\ FoundStays
  BY <1>1, <1>2, <1>3 DEF PlansSided, SeenTrue, Reading, LastLived, OneOpen, FoundStays
<1>5. Alone /\ MonitorRests /\ Follows
  BY <1>1, <1>3 DEF Alone, MonitorRests, Follows, Live, Reading
<1>6. InStep /\ ClosedAtFlat BY <1>1, <1>2, <1>3 DEF InStep, ClosedAtFlat
<1>. QED BY <1>4, <1>5, <1>6 DEF DiaryInv

(* The manager's one signal for a symbol gives its opens one direction.    *)
LEMMA StartsSided ==
    ASSUME OrderInv, NEW t \in Ticks, StartTick(t)
    PROVE  plan'[t].positions = pos /\ Sided(t)'
<1>. TypeOK BY DEF OrderInv
<1>1. PICK actions \in Plans(pos) : plan' = [plan EXCEPT ![t] = [positions |-> pos, actions |-> actions]]
  BY DEF StartTick
<1>2. plan'[t].positions = pos /\ plan'[t].actions = actions BY <1>1 DEF TypeOK
<1>3. PICK n \in 0 .. MaxActions, signal \in [Symbols -> {"buy", "short"}] :
          actions \in [1 .. n -> {a \in ActionSet : Valid(pos, signal, a)}]
  BY DEF Plans
<1>4. \A i \in DOMAIN actions : actions[i] \in ActionSet /\ Valid(pos, signal, actions[i]) BY <1>3
<1>5. \A i \in DOMAIN actions : actions[i].symbol \in Symbols /\ actions[i].kind \in {"buy", "short", "close"}
  BY <1>4 DEF ActionSet
<1>6. ASSUME NEW i \in DOMAIN actions
      PROVE  /\ actions[i].kind = "close" => pos[actions[i].symbol] # 0
             /\ actions[i].kind = "buy" => pos[actions[i].symbol] >= 0 /\ signal[actions[i].symbol] = "buy"
             /\ actions[i].kind = "short" => pos[actions[i].symbol] <= 0 /\ signal[actions[i].symbol] = "short"
  BY <1>4, <1>5 DEF Valid
<1>. QED BY <1>2, <1>6 DEF Sided

LEMMA NextSided == ASSUME OrderInv, [Next]_vars, PlansSided PROVE PlansSided'
<1>1. ASSUME NEW t \in Ticks, plan'[t] # None PROVE Sided(t)'
  <2>1. CASE StartTick(t) BY <2>1, StartsSided
  <2>2. CASE plan'[t] = plan[t]
    BY <1>1, <2>2 DEF PlansSided, Sided
  <2>. QED BY <2>1, <2>2, PlansStay
<1>. QED BY <1>1 DEF PlansSided

(* What a write of the diary finds, and leaves.                            *)
LEMMA Writes ==
    ASSUME OrderInv, FoundStays, SeenTrue, NEW x \in Attempts, WriteDiary(x), NEW s \in Symbols
    PROVE  /\ diary[s] \in Seq(Rows) /\ run[x].row[s] \in Nat \cup {None}
           /\ run[x].row[s] # None => run[x].row[s] \in DOMAIN diary[s]
           /\ run[x].view[s].life \in Nat /\ run[x].view[s].life <= life[s]
           /\ \/ diary'[s] = diary[s]
              \/ /\ s \in Opens(x) /\ ~Refused(diary[s], run[x].row[s])
                 /\ diary'[s] = OpenOrUpdate(diary[s], run[x].row[s], run[x].view[s].life)
              \/ /\ s \in Closes(x)
                 /\ diary'[s] = CloseOpen(diary[s], run[x].row[s], run[x].view[s].life)
<1>1. /\ run[x].pc = "write" /\ run[x].view \in Views /\ run[x].row \in Found
      /\ Seen(x) /\ Finds(run[x].row) /\ diary[s] \in Seq(Rows)
  BY DEF WriteDiary, OrderInv, HasRead, FoundStays, SeenTrue, Reading, TypeOK
<1>2. \/ diary' = diary
      \/ /\ \A u \in Opens(x) : ~Refused(diary[u], run[x].row[u])
         /\ diary' = [u \in Symbols |->
                CASE u \in Opens(x)  -> OpenOrUpdate(diary[u], run[x].row[u], run[x].view[u].life)
                  [] u \in Closes(x) -> CloseOpen(diary[u], run[x].row[u], run[x].view[u].life)
                  [] OTHER -> diary[u]]
  BY DEF WriteDiary
<1>3. s \in Opens(x) => s \notin Closes(x) BY DEF Opens, Closes
<1>. QED BY <1>1, <1>2, <1>3 DEF Views, Found, Seen, Finds

LEMMA MonitorCloses ==
    ASSUME OrderInv, FoundStays, MonitorWrites, NEW s \in Symbols
    PROVE  /\ diary[s] \in Seq(Rows) /\ mon.row[s] \in Nat \cup {None} /\ mon.life[s] \in Nat
           /\ mon.row[s] # None => mon.row[s] \in DOMAIN diary[s]
           /\ diary'[s] = diary[s] \/ diary'[s] = CloseOpen(diary[s], mon.row[s], mon.life[s])
<1>1. /\ mon.pc = "write" /\ mon.row \in Found /\ mon.life \in [Symbols -> Nat] /\ Finds(mon.row)
      /\ diary[s] \in Seq(Rows)
  BY DEF MonitorWrites, OrderInv, HasRead, FoundStays, TypeOK
<1>. QED BY <1>1 DEF MonitorWrites, Found, Finds

(* Rows stay, last lives are of the past, and one row at most is open.     *)
LEMMA NextRows ==
    ASSUME OrderInv, [Next]_vars, FoundStays, SeenTrue, LastLived, OneOpen
    PROVE  /\ LastLived' /\ OneOpen'
           /\ \A s \in Symbols : DOMAIN diary[s] \subseteq DOMAIN diary'[s]
<1>. DEFINE Kept(s) == /\ \A i \in DOMAIN diary'[s] : diary'[s][i].last <= life'[s]
                       /\ \A i, j \in OpenRows(diary'[s]) : i = j
                       /\ DOMAIN diary[s] \subseteq DOMAIN diary'[s]
<1>1. ASSUME NEW s \in Symbols PROVE Kept(s)
  <2>1. /\ life[s] \in Nat /\ life'[s] \in Nat /\ life[s] <= life'[s]
        /\ diary[s] \in Seq(Rows) /\ \A i \in DOMAIN diary[s] : diary[s][i].last \in Nat
    <3>1. diary[s] \in Seq(Rows) BY DEF OrderInv, TypeOK
    <3>2. \A i \in DOMAIN diary[s] : diary[s][i] \in Rows BY <3>1
    <3>. QED BY <3>1, <3>2, WorldMoves DEF Rows
  <2>2. \A i \in DOMAIN diary[s] : diary[s][i].last <= life'[s] BY <2>1 DEF LastLived
  <2>3. \A i, j \in OpenRows(diary[s]) : i = j BY DEF OneOpen
  <2>4. CASE diary'[s] = diary[s] BY <2>2, <2>3, <2>4
  <2>5. ASSUME NEW row \in Nat \cup {None}, row # None => row \in DOMAIN diary[s], NEW l \in Nat,
               diary'[s] = CloseOpen(diary[s], row, l)
        PROVE  Kept(s)
    <3>1. diary[s] \in Seq(Rows) /\ (row # None => row \in DOMAIN diary[s]) BY <2>1, <2>5
    <3>. DEFINE rows == diary[s]
                new == CloseOpen(rows, row, l)
    <3>a. rows \in Seq(Rows) /\ (row # None => row \in DOMAIN rows) BY <3>1
    <3>. HIDE DEF rows
    <3>b. /\ OpenRows(new) = OpenRows(rows) \ {row}
          /\ DOMAIN new = DOMAIN rows
          /\ \A i \in DOMAIN rows : new[i].last = rows[i].last
      BY <3>a, <2>5, Closing
    <3>2. /\ OpenRows(new) = OpenRows(diary[s]) \ {row}
          /\ DOMAIN new = DOMAIN diary[s]
          /\ \A i \in DOMAIN diary[s] : new[i].last = diary[s][i].last
      BY <3>b DEF rows
    <3>3. diary'[s] = new BY <2>5 DEF rows
    <3>. HIDE DEF new
    <3>4. \A i \in DOMAIN new : new[i].last <= life'[s] BY <2>2, <3>2
    <3>5. \A i, j \in OpenRows(new) : i = j BY <2>3, <3>2
    <3>. QED BY <3>2, <3>3, <3>4, <3>5
  <2>6. ASSUME NEW row \in Nat \cup {None}, row # None => row \in DOMAIN diary[s], NEW l \in Nat, l <= life[s],
               diary'[s] = OpenOrUpdate(diary[s], row, l), ~Refused(diary[s], row)
        PROVE  Kept(s)
    <3>0. diary[s] \in Seq(Rows) /\ (row # None => row \in DOMAIN diary[s]) BY <2>1, <2>6
    <3>1. DOMAIN diary[s] \subseteq DOMAIN diary'[s]
      <4>1. DOMAIN diary[s] \subseteq DOMAIN OpenOrUpdate(diary[s], row, l) BY <3>0, DiaryTyped
      <4>. QED BY <2>6, <4>1
    <3>2. \A i \in DOMAIN diary'[s] : diary'[s][i].last <= life'[s]
      <4>1. \A i \in DOMAIN OpenOrUpdate(diary[s], row, l) :
                \/ OpenOrUpdate(diary[s], row, l)[i].last = l
                \/ i \in DOMAIN diary[s] /\ OpenOrUpdate(diary[s], row, l)[i].last = diary[s][i].last
        BY <3>0, Opening
      <4>. QED BY <2>1, <2>2, <2>6, <4>1
    <3>3. \A i, j \in OpenRows(diary'[s]) : i = j
      <4>1. /\ row = None => OpenRows(OpenOrUpdate(diary[s], row, l)) = OpenRows(diary[s]) \cup {Len(diary[s]) + 1}
            /\ row # None => OpenRows(OpenOrUpdate(diary[s], row, l)) = OpenRows(diary[s])
        BY <3>0, Opening
      <4>. QED BY <2>3, <2>6, <4>1 DEF Refused
    <3>. QED BY <3>1, <3>2, <3>3
  <2>7. CASE MonitorWrites BY <2>4, <2>5, <2>7, MonitorCloses
  <2>8. ASSUME NEW x \in Attempts, WriteDiary(x) PROVE Kept(s) BY <2>4, <2>5, <2>6, <2>8, Writes
  <2>. QED BY <2>4, <2>7, <2>8, WhoWrites
<1>. QED BY <1>1 DEF LastLived, OneOpen

LEMMA NextSeen == ASSUME OrderInv, [Next]_vars, SeenTrue PROVE SeenTrue'
<1>. TypeOK /\ HasRead BY DEF OrderInv
<1>0. readFails' = 0 => readFails = 0 BY NoneBefore
<1>1. ASSUME NEW x \in Attempts, Seen(x), run[x].view \in Views, run'[x].view = run[x].view PROVE Seen(x)'
  <2>1. ASSUME NEW s \in Symbols
        PROVE  /\ run[x].view[s].life <= life'[s]
               /\ readFails = 0 /\ run[x].view[s].qty = 0 => pos'[s] = 0 \/ run[x].view[s].life < life'[s]
    <3>1. run[x].view[s].life \in Nat /\ run[x].view[s].life <= life[s] BY <1>1 DEF Views, Seen
    <3>2. readFails = 0 /\ run[x].view[s].qty = 0 => pos[s] = 0 \/ run[x].view[s].life < life[s]
      BY <1>1 DEF Seen
    <3>. QED BY <3>1, <3>2, WorldMoves
  <2>. QED BY <1>0, <1>1, <2>1 DEF Seen
<1>2. ASSUME NEW x \in Attempts, ListPositions(x) PROVE Seen(x)'
  <2>0. pos' = pos /\ life' = life BY <1>2 DEF ListPositions, broker
  <2>1. \/ run' = [run EXCEPT ![x].view = Listed, ![x].pc = "find"]
        \/ run' = [run EXCEPT ![x].view = Empty, ![x].pc = "find"] /\ readFails' = readFails + 1
    BY <1>2 DEF ListPositions
  <2>2. \/ run'[x].view = Listed
        \/ run'[x].view = Empty /\ readFails' # 0
    BY <2>1, BoundsGrow DEF TypeOK, Locals
  <2>3. \A s \in Symbols : life[s] \in Nat BY DEF TypeOK
  <2>. QED BY <2>0, <2>2, <2>3 DEF Seen, Listed, Empty
<1>3. ASSUME NEW x \in Attempts, run'[x].pc \in Reading PROVE Seen(x)'
  <2>1. CASE run'[x] = run[x]
    <3>1. Seen(x) /\ run[x].view \in Views BY <1>3, <2>1 DEF SeenTrue, HasRead
    <3>. QED BY <1>1, <2>1, <3>1
  <2>2. CASE FindRows(x)
    <3>1. run[x].pc \in Reading /\ run' = [run EXCEPT ![x].row = [s \in Symbols |-> OpenRow(diary[s])], ![x].pc = "write"]
      BY <2>2 DEF FindRows, Reading
    <3>2. run'[x].view = run[x].view BY <3>1 DEF TypeOK, Locals
    <3>3. Seen(x) /\ run[x].view \in Views BY <3>1 DEF SeenTrue, HasRead
    <3>. QED BY <1>1, <3>2, <3>3
  <2>. QED BY <1>2, <1>3, <2>1, <2>2, WhoReads
<1>. QED BY <1>3 DEF SeenTrue

LEMMA NextFound ==
    ASSUME OrderInv, [Next]_vars, FoundStays, SeenTrue, LastLived, OneOpen PROVE FoundStays'
<1>. TypeOK /\ HasRead BY DEF OrderInv
<1>1. ASSUME NEW row, Finds(row) PROVE \A s \in Symbols : row[s] # None => row[s] \in DOMAIN diary'[s]
  BY <1>1, NextRows DEF Finds
<1>2. ASSUME NEW x \in Attempts, run'[x].pc = "write" PROVE Finds(run[x].row)'
  <2>1. CASE run'[x] = run[x] BY <1>1, <1>2, <2>1 DEF FoundStays, Finds
  <2>2. CASE FindRows(x)
    <3>1. run' = [run EXCEPT ![x].row = [s \in Symbols |-> OpenRow(diary[s])], ![x].pc = "write"] /\ diary' = diary
      BY <2>2 DEF FindRows
    <3>2. run'[x].row = [s \in Symbols |-> OpenRow(diary[s])] BY <3>1 DEF TypeOK, Locals
    <3>. QED BY <3>1, <3>2, FoundTyped DEF Finds
  <2>3. CASE ListPositions(x)
    <3>1. run'[x].pc = "find" BY <2>3 DEF ListPositions, TypeOK, Locals
    <3>. QED BY <1>2, <3>1
  <2>. QED BY <1>2, <2>1, <2>2, <2>3, WhoReads DEF Reading
<1>3. ASSUME mon'.pc = "write" PROVE Finds(mon.row)'
  <2>1. CASE mon' = mon BY <1>1, <1>3, <2>1 DEF FoundStays, Finds
  <2>2. CASE MonitorFinds
    <3>1. mon'.row = [s \in Symbols |-> OpenRow(diary[s])] /\ diary' = diary
      BY <2>2 DEF MonitorFinds, TypeOK, Sweeps
    <3>. QED BY <3>1, FoundTyped DEF Finds
  <2>3. CASE MonitorSettles
    <3>1. mon'.pc = "settled" BY <2>3 DEF MonitorSettles
    <3>. QED BY <1>3, <3>1
  <2>4. CASE MonitorLost \/ MonitorWrites
    <3>1. mon'.pc = "idle" BY <2>4 DEF MonitorLost, MonitorWrites, Idle
    <3>. QED BY <1>3, <3>1
  <2>5. \A x \in Attempts : Apply(x) \/ Crash(x) => mon' = mon BY OneActs
  <2>6. \A t \in Ticks : StartTick(t) \/ (\E n \in 1 .. 2 : Retry(t, n)) \/ FailTick(t) => mon' = mon
    BY DEF StartTick, Retry, FailTick, GiveUp
  <2>7. (\E r \in late : HandleLate(r)) \/ UNCHANGED vars => mon' = mon BY DEF HandleLate, vars
  <2>. QED BY <2>1, <2>2, <2>3, <2>4, <2>5, <2>6, <2>7 DEF Next
<1>. QED BY <1>2, <1>3 DEF FoundStays

LEMMA NextAlone == ASSUME OrderInv, [Next]_vars, Alone PROVE Alone'
<1>. TypeOK BY DEF OrderInv
<1>. SUFFICES ASSUME zombies' = 0 PROVE Alone' BY DEF Alone
<1>0. zombies = 0 BY NoneBefore
<1>1. /\ \A x \in Attempts : Live(x) => x = current
      /\ \A x \in Attempts : run[x].pc = "record" => audit[x[1]] = None
  BY <1>0 DEF Alone
<1>2. ASSUME NEW x \in Attempts, run'[x].pc = "record" PROVE audit'[x[1]] = None
  <2>1. ASSUME NEW y \in Attempts, Apply(y) \/ Crash(y) PROVE audit'[x[1]] = None
    <3>1. Live(y) /\ \A z \in Attempts : z # y => run'[z] = run[z] BY <2>1, OneActs
    <3>2. x = y
      <4>1. SUFFICES ASSUME x # y PROVE FALSE OBVIOUS
      <4>2. run[x].pc = "record" BY <1>2, <3>1, <4>1
      <4>. QED BY <1>1, <3>1, <4>1, <4>2 DEF Live
    <3>3. CASE RecordCheck(y)
      <4>1. PICK w \in {"record", "list"} : Goto(y, w) /\ (w = "record" => audit[y[1]] = None) /\ audit' = audit
        BY <3>3 DEF RecordCheck
      <4>2. run'[y].pc = w BY <4>1 DEF Goto, TypeOK, Locals
      <4>. QED BY <1>2, <3>2, <4>1, <4>2
    <3>4. CASE RecordWrite(y)
      <4>1. run'[y].pc = "list" BY <3>4 DEF RecordWrite, Goto, TypeOK, Locals
      <4>. QED BY <1>2, <3>2, <4>1
    <3>5. CASE PlaceAnswered(y) \/ PlaceRaises(y)
      BY <1>2, <3>2, <3>5, StillPlacing
    <3>6. CASE RecordRefused(y) \/ Crash(y) \/ ReconcileNothing(y) \/ WriteDiary(y) \/ DiaryFails(y)
      <4>1. PICK w \in {"dead", "done"} : run' = [run EXCEPT ![y] = At(w)]
        BY <3>6 DEF RecordRefused, Crash, ReconcileNothing, WriteDiary, DiaryFails, End, Become
      <4>2. run'[y].pc = w BY <4>1, EndedLocals DEF TypeOK
      <4>. QED BY <1>2, <3>2, <4>2
    <3>7. CASE ListPositions(y) \/ FindRows(y)
      <4>1. run'[y].pc \in {"find", "write"} BY <3>7 DEF ListPositions, FindRows, TypeOK, Locals
      <4>. QED BY <1>2, <3>2, <4>1
    <3>. QED BY <2>1, <3>3, <3>4, <3>5, <3>6, <3>7 DEF Apply
  <2>2. ASSUME run'[x] = run[x], audit' = audit PROVE audit'[x[1]] = None BY <1>1, <1>2, <2>2
  <2>3. ASSUME NEW y \in Attempts, run' = [run EXCEPT ![y] = At("place")] PROVE run'[x] = run[x]
    BY <1>2, <2>3, EndedLocals DEF TypeOK
  <2>4. ASSUME NEW t \in Ticks, StartTick(t) \/ (\E n \in 1 .. 2 : Retry(t, n)) \/ FailTick(t)
        PROVE  run'[x] = run[x] /\ audit' = audit
    <3>1. CASE StartTick(t) BY <2>3, <3>1, KeyParts DEF StartTick, Become
    <3>2. ASSUME NEW n \in 1 .. 2, Retry(t, n) PROVE run'[x] = run[x] /\ audit' = audit
      <4>1. <<t, n + 1>> \in Attempts BY DEF Attempts
      <4>. QED BY <2>3, <3>2, <4>1 DEF Retry, GiveUp, Become
    <3>3. CASE FailTick(t) BY <3>3 DEF FailTick, GiveUp
    <3>. QED BY <2>4, <3>1, <3>2, <3>3
  <2>5. (\E r \in late : HandleLate(r)) \/ MonitorSettles \/ MonitorLost \/ MonitorFinds \/ MonitorWrites \/ UNCHANGED vars
            => run' = run /\ audit' = audit
    BY DEF HandleLate, MonitorSettles, MonitorLost, MonitorFinds, MonitorWrites, vars
  <2>. QED BY <2>1, <2>2, <2>4, <2>5 DEF Next
<1>3. ASSUME NEW x \in Attempts, Live(x)' PROVE x = current'
  <2>1. ASSUME NEW y \in Attempts, Apply(y) \/ Crash(y) PROVE x = current'
    <3>1. /\ Live(y) /\ \A z \in Attempts : z # y => run'[z] = run[z]
          /\ \/ current' = current
             \/ current = y /\ current' = None /\ run'[y].pc = "done"
          /\ run'[y].pc = "done" /\ current = y => current' = None
      BY <2>1, OneActs
    <3>2. y = current BY <1>1, <3>1
    <3>3. x = y BY <1>1, <1>3, <3>1, <3>2 DEF Live
    <3>. QED BY <1>3, <3>1, <3>2, <3>3 DEF Live
  <2>2. CASE UNCHANGED <<run, current>> BY <1>1, <1>3, <2>2 DEF Live
  <2>3. ASSUME NEW t \in Ticks, StartTick(t) PROVE x = current'
    <3>1. current = None /\ current' = <<t, 1>> /\ run' = [run EXCEPT ![<<t, 1>>] = At("place")]
      BY <2>3 DEF StartTick, Become
    <3>2. x # <<t, 1>> => Live(x) BY <1>3, <3>1 DEF Live, TypeOK
    <3>. QED BY <1>1, <3>1, <3>2, NoneApart
  <2>4. ASSUME NEW t \in Ticks, NEW n \in 1 .. 3, GiveUp(<<t, n>>) PROVE \A z \in Attempts : ~Live(z)
    <3>1. run[<<t, n>>].pc = "dead" /\ current = <<t, n>> BY <1>0, <2>4 DEF GiveUp
    <3>. QED BY <1>1, <3>1 DEF Live
  <2>5. ASSUME NEW t \in Ticks, NEW n \in 1 .. 2, Retry(t, n) PROVE x = current'
    <3>1. current' = <<t, n + 1>> /\ run' = [run EXCEPT ![<<t, n + 1>>] = At("place")] /\ GiveUp(<<t, n>>)
      BY <2>5 DEF Retry, Become
    <3>2. x # <<t, n + 1>> => Live(x) BY <1>3, <3>1 DEF Live, TypeOK
    <3>3. n \in 1 .. 3 OBVIOUS
    <3>4. ~Live(x) BY <2>4, <3>1, <3>3
    <3>. QED BY <3>1, <3>2, <3>4
  <2>6. ASSUME NEW t \in Ticks, FailTick(t) PROVE FALSE
    <3>1. run' = run /\ GiveUp(<<t, 3>>) /\ 3 \in 1 .. 3 BY <2>6 DEF FailTick
    <3>2. ~Live(x) BY <2>4, <3>1
    <3>. QED BY <1>3, <3>1, <3>2 DEF Live
  <2>. QED BY <2>1, <2>2, <2>3, <2>5, <2>6, NobodyActs
<1>. QED BY <1>2, <1>3 DEF Alone

LEMMA NextRests == ASSUME OrderInv, [Next]_vars, MonitorRests PROVE MonitorRests'
<1>. SUFFICES ASSUME exits' = 0 PROVE mon'.pc = "idle" BY DEF MonitorRests
<1>1. exits = 0 /\ mon.pc = "idle" BY NoneBefore DEF MonitorRests
<1>2. \A x \in Attempts : Apply(x) \/ Crash(x) => mon' = mon BY OneActs
<1>3. \A t \in Ticks : StartTick(t) \/ (\E n \in 1 .. 2 : Retry(t, n)) \/ FailTick(t) => mon' = mon
  BY DEF StartTick, Retry, FailTick, GiveUp
<1>4. (\E r \in late : HandleLate(r)) \/ UNCHANGED vars => mon' = mon BY DEF HandleLate, vars
<1>5. ~MonitorSettles BY <1>1 DEF MonitorSettles
<1>6. ~MonitorLost /\ ~MonitorFinds /\ ~MonitorWrites
  BY <1>1 DEF MonitorLost, MonitorFinds, MonitorWrites
<1>. QED BY <1>1, <1>2, <1>3, <1>4, <1>5, <1>6 DEF Next

(* Alone and without the monitor, only the attempt's own write changes the *)
(* diary, and that is its last step.                                       *)
LEMMA OnlyWriter ==
    ASSUME OrderInv, [Next]_vars, Alone, MonitorRests, zombies + exits = 0
    PROVE  \/ diary' = diary
           \/ \E x \in Attempts : /\ WriteDiary(x) /\ x = current /\ current' = None /\ End(x)
                                  /\ \A y \in Attempts : ~Live(y)'
<1>1. zombies = 0 /\ exits = 0 BY NoneBefore
<1>2. ~MonitorWrites BY <1>1 DEF MonitorRests, MonitorWrites
<1>3. ASSUME NEW x \in Attempts, WriteDiary(x)
      PROVE  x = current /\ current' = None /\ \A y \in Attempts : ~Live(y)'
  <2>1. /\ Live(x) /\ \A y \in Attempts : y # x => run'[y] = run[y]
    BY <1>3, OneActs DEF Apply
  <2>2. x = current /\ \A y \in Attempts : y # x => ~Live(y) BY <1>1, <2>1 DEF Alone
  <2>3. run'[x].pc = "done" /\ current' = None
    BY <1>3, <2>2, EndedLocals DEF WriteDiary, End, Become, OrderInv, TypeOK
  <2>. QED BY <2>1, <2>2, <2>3 DEF Live
<1>4. \A x \in Attempts : WriteDiary(x) => End(x) BY DEF WriteDiary
<1>. QED BY <1>2, <1>3, <1>4, WhoWrites

LEMMA NextFollows ==
    ASSUME OrderInv, [Next]_vars, Alone, MonitorRests, LastLived, Follows PROVE Follows'
<1>. TypeOK BY DEF OrderInv
<1>. SUFFICES ASSUME zombies' + exits' = 0, NEW x \in Attempts, run'[x].pc \in Reading PROVE Current(x)'
  BY DEF Follows
<1>1. zombies + exits = 0 BY NoneBefore
<1>2. Live(x)' BY DEF Live, Reading
<1>3. diary' = diary BY <1>1, <1>2, OnlyWriter
<1>4. CASE run'[x] = run[x] BY <1>1, <1>3, <1>4 DEF Follows, Current
<1>5. CASE ListPositions(x)
  <2>1. PICK v : run' = [run EXCEPT ![x].view = v, ![x].pc = "find"] /\ v \in {Listed, Empty}
    BY <1>5 DEF ListPositions
  <2>2. run'[x].view = v /\ run'[x].pc = "find" BY <2>1 DEF TypeOK, Locals
  <2>3. \A s \in Symbols : v[s].life = life[s] BY <2>1 DEF Listed, Empty
  <2>. QED BY <1>3, <2>2, <2>3 DEF Current, LastLived
<1>6. CASE FindRows(x)
  <2>1. /\ run[x].pc = "find"
        /\ run' = [run EXCEPT ![x].row = [s \in Symbols |-> OpenRow(diary[s])], ![x].pc = "write"]
    BY <1>6 DEF FindRows
  <2>2. run'[x].view = run[x].view /\ run'[x].row = [s \in Symbols |-> OpenRow(diary[s])]
    BY <2>1 DEF TypeOK, Locals
  <2>3. \A s \in Symbols : \A i \in DOMAIN diary[s] : diary[s][i].last <= run[x].view[s].life
    BY <1>1, <2>1 DEF Follows, Reading, Current
  <2>4. \A s \in Symbols : IF OpenRows(diary[s]) = {} THEN run'[x].row[s] = None
                            ELSE run'[x].row[s] \in OpenRows(diary[s])
    BY <2>2, FoundTyped
  <2>5. \A s \in Symbols : \A i \in DOMAIN diary'[s] : diary'[s][i].last <= run'[x].view[s].life
    BY <1>3, <2>2, <2>3
  <2>6. \A s \in Symbols : IF OpenRows(diary'[s]) = {} THEN run'[x].row[s] = None
                            ELSE run'[x].row[s] \in OpenRows(diary'[s])
    BY <1>3, <2>4
  <2>. QED BY <2>5, <2>6 DEF Current
<1>. QED BY <1>4, <1>5, <1>6, WhoReads

LEMMA NextClosed ==
    ASSUME OrderInv, [Next]_vars, Alone, MonitorRests, LastLived, SeenTrue, FoundStays, Follows, ClosedAtFlat
    PROVE  ClosedAtFlat'
<1>. TypeOK BY DEF OrderInv
<1>. SUFFICES ASSUME readFails' + zombies' + exits' = 0,
                     NEW s \in Symbols, NEW i \in DOMAIN diary'[s], diary'[s][i].status = "closed"
              PROVE  diary'[s][i].last < life'[s] \/ pos'[s] = 0
  BY DEF ClosedAtFlat
<1>1. readFails = 0 /\ zombies + exits = 0 /\ readFails + zombies + exits = 0 BY NoneBefore
<1>2. /\ life[s] \in Nat /\ life'[s] \in Nat /\ life[s] <= life'[s]
      /\ pos[s] = 0 /\ pos'[s] # 0 => life[s] < life'[s]
  BY WorldMoves
<1>3. /\ diary[s] \in Seq(Rows)
      /\ \A j \in DOMAIN diary[s] : diary[s][j].last \in Nat /\ diary[s][j].last <= life[s]
  <2>1. diary[s] \in Seq(Rows) BY DEF TypeOK
  <2>2. \A j \in DOMAIN diary[s] : diary[s][j] \in Rows BY <2>1
  <2>. QED BY <2>1, <2>2 DEF Rows, LastLived
<1>4. ASSUME NEW j \in DOMAIN diary[s], diary[s][j].status = "closed", diary'[s][i].last = diary[s][j].last
      PROVE  diary'[s][i].last < life'[s] \/ pos'[s] = 0
  <2>1. diary[s][j].last < life[s] \/ pos[s] = 0 BY <1>1, <1>4 DEF ClosedAtFlat
  <2>. QED BY <1>2, <1>3, <1>4, <2>1
<1>5. CASE diary'[s] = diary[s] BY <1>4, <1>5
<1>6. ASSUME NEW x \in Attempts, WriteDiary(x), diary'[s] # diary[s]
      PROVE  diary'[s][i].last < life'[s] \/ pos'[s] = 0
  <2>. DEFINE row == run[x].row[s]
              l == run[x].view[s].life
  <2>1. /\ run[x].pc = "write" /\ pos' = pos /\ life' = life /\ Current(x) /\ Seen(x)
    BY <1>1, <1>6 DEF WriteDiary, broker, Follows, SeenTrue, Reading
  <2>2. /\ row \in Nat \cup {None} /\ (row # None => row \in DOMAIN diary[s]) /\ l \in Nat
        /\ \/ s \in Opens(x) /\ diary'[s] = OpenOrUpdate(diary[s], row, l)
           \/ s \in Closes(x) /\ diary'[s] = CloseOpen(diary[s], row, l)
    BY <1>6, Writes
  <2>3. /\ row # None => row \in OpenRows(diary[s])
        /\ \A j \in DOMAIN diary[s] : diary[s][j].last <= l
    BY <2>1 DEF Current
  <2>. HIDE DEF row, l
  <2>4. CASE diary'[s] = OpenOrUpdate(diary[s], row, l)
    <3>1. i \in DOMAIN diary[s] /\ diary[s][i].status = "closed" /\ (i # row => diary'[s][i].last = diary[s][i].last)
      <4>1. i \in DOMAIN OpenOrUpdate(diary[s], row, l) /\ OpenOrUpdate(diary[s], row, l)[i].status = "closed"
        BY <2>4
      <4>2. /\ diary[s] \in Seq(Rows) /\ row \in Nat \cup {None} /\ l \in Nat
            /\ row # None => row \in DOMAIN diary[s]
        BY <1>3, <2>2
      <4>3. \A j \in DOMAIN OpenOrUpdate(diary[s], row, l) :
                OpenOrUpdate(diary[s], row, l)[j].status = "closed" =>
                    /\ j \in DOMAIN diary[s] /\ diary[s][j].status = "closed"
                    /\ j # row => OpenOrUpdate(diary[s], row, l)[j].last = diary[s][j].last
        BY <4>2, Opening
      <4>. QED BY <2>4, <4>1, <4>3
    <3>2. i # row BY <1>3, <2>3, <3>1, NoneApart DEF OpenRows
    <3>. QED BY <1>4, <3>1, <3>2
  <2>5. CASE s \in Closes(x) /\ diary'[s] = CloseOpen(diary[s], row, l)
    <3>1. /\ DOMAIN CloseOpen(diary[s], row, l) = DOMAIN diary[s]
          /\ \A j \in DOMAIN diary[s] : CloseOpen(diary[s], row, l)[j].last = diary[s][j].last
      <4>1. diary[s] \in Seq(Rows) /\ row \in Nat \cup {None} /\ (row # None => row \in DOMAIN diary[s]) /\ l \in Nat
        BY <1>3, <2>2
      <4>. QED BY <4>1, Closing
    <3>2. run[x].view[s].qty = 0 BY <2>5 DEF Closes, HeldAfter
    <3>3. pos[s] = 0 \/ l < life[s] BY <1>1, <2>1, <3>2 DEF Seen, l
    <3>4. i \in DOMAIN diary[s] /\ diary'[s][i].last = diary[s][i].last BY <2>5, <3>1
    <3>5. diary[s][i].last \in Nat /\ diary[s][i].last <= l BY <1>3, <2>3, <3>4
    <3>. QED BY <1>2, <2>1, <2>2, <3>3, <3>4, <3>5
  <2>. QED BY <2>2, <2>4, <2>5
<1>. QED BY <1>1, <1>5, <1>6, OnlyWriter

LEMMA PlacedWhat ==
    ASSUME NEW x, NEW s, NEW kinds
    PROVE  s \in PlacedSymbols(x, kinds) <=>
               \E p \in run[x].placed : Actions(x)[p.act].kind \in kinds /\ Actions(x)[p.act].symbol = s
BY DEF PlacedSymbols

(* A step of the attempt that leaves positions, diary and entries alone.   *)
LEMMA BehindStays ==
    ASSUME NEW x, Behind(x), UNCHANGED <<pos, plan, diary>>, run'[x].placed = run[x].placed,
           run'[x].pc \in Reading => \A s \in Symbols : run'[x].view[s].qty = pos[s]
    PROVE  Behind(x)'
<1>1. Actions(x)' = Actions(x) BY DEF Actions
<1>2. \A kinds : PlacedSymbols(x, kinds)' = PlacedSymbols(x, kinds) BY <1>1 DEF PlacedSymbols
<1>. QED BY <1>1, <1>2 DEF Behind

LEMMA OrderedBehind ==
    ASSUME OrderInv, PlansSided, NEW x \in Attempts, PlaceAnswered(x), Behind(x) PROVE Behind(x)'
<1>. TypeOK BY DEF OrderInv
<1>. DEFINE k == KeyOf(x)
            a == Actions(x)[run[x].at]
            held == plan[x[1]].positions
<1>1. /\ Placing(x) /\ x[1] \in Ticks /\ plan[x[1]] # None /\ run[x].at \in DOMAIN Actions(x)
      /\ k \in Keys /\ Ordered(k) /\ k[1] = x[1] /\ k[2] = run[x].at
  BY PlacingTyped DEF PlaceAnswered, Ordered, Actions
<1>2. /\ plan' = plan /\ diary' = diary /\ Answer(x).act = run[x].at
      /\ run'[x].pc = "place" /\ run'[x].placed = run[x].placed \cup {Answer(x)}
  BY AnsweredOrder, StillPlacing DEF Answer
<1>3. Actions(x)' = Actions(x) /\ Actions(k)[k[2]] = a BY <1>1, <1>2 DEF Actions
<1>4. /\ a.symbol \in Symbols /\ KeyOrder(k).symbol = a.symbol /\ a.kind \in {"buy", "short", "close"}
  <2>1. k[1] \in Ticks /\ plan[k[1]] # None /\ k[2] \in DOMAIN Actions(k) BY <1>1 DEF Actions
  <2>. HIDE DEF k
  <2>2. /\ OrderOf(k, k[2]).symbol = Actions(k)[k[2]].symbol /\ OrderOf(k, k[2]).symbol \in Symbols
        /\ Actions(k)[k[2]].kind \in {"buy", "short", "close"}
    BY <2>1, OrderTyped
  <2>. QED BY <1>3, <2>2 DEF KeyOrder
<1>5. \A s \in Symbols : s # a.symbol => pos'[s] = pos[s] BY <1>1, <1>4, OthersStand
<1>6. /\ pos[a.symbol] \in Int /\ pos'[a.symbol] \in Int
      /\ a.kind = "close" => /\ pos[a.symbol] >= 0 => pos'[a.symbol] >= 0
                             /\ pos[a.symbol] <= 0 => pos'[a.symbol] <= 0
      /\ a.kind = "buy" /\ pos[a.symbol] >= 0
             => pos'[a.symbol] >= 0 /\ (pos[a.symbol] # 0 => pos'[a.symbol] # 0)
      /\ a.kind = "short" /\ pos[a.symbol] <= 0
             => pos'[a.symbol] <= 0 /\ (pos[a.symbol] # 0 => pos'[a.symbol] # 0)
  BY <1>1, <1>3, <1>4, OrderMoves DEF Ordered
<1>7. /\ a.kind = "close" => held[a.symbol] # 0
      /\ \A i, j \in DOMAIN Actions(x) :
             ~(Actions(x)[i].symbol = Actions(x)[j].symbol /\ Actions(x)[i].kind = "buy" /\ Actions(x)[j].kind = "short")
  BY <1>1 DEF PlansSided, Sided, Actions
<1>8. /\ a.kind = "buy" => pos[a.symbol] >= 0
      /\ a.kind = "short" => pos[a.symbol] <= 0
  BY <1>1 DEF Behind
<1>9. /\ \A s \in Symbols, kinds \in SUBSET {"buy", "short", "close"} :
             s \in PlacedSymbols(x, kinds) => s \in PlacedSymbols(x, kinds)'
      /\ \A kinds \in SUBSET {"buy", "short", "close"} : a.kind \in kinds => a.symbol \in PlacedSymbols(x, kinds)'
  BY <1>2, <1>3 DEF PlacedSymbols
<1>. HIDE DEF a, held, k
<1>10. ASSUME NEW s \in Symbols
       PROVE  /\ pos'[s] # 0 /\ held[s] = 0 => s \in PlacedSymbols(x, {"buy", "short"})'
              /\ pos'[s] = 0 /\ held[s] # 0 => s \in PlacedSymbols(x, {"close"})'
  <2>1. /\ pos[s] # 0 /\ held[s] = 0 => s \in PlacedSymbols(x, {"buy", "short"})'
        /\ pos[s] = 0 /\ held[s] # 0 => s \in PlacedSymbols(x, {"close"})'
    BY <1>9 DEF Behind, held
  <2>2. CASE s # a.symbol BY <1>5, <2>1, <2>2
  <2>3. CASE s = a.symbol /\ a.kind = "close" BY <1>7, <1>9, <2>3
  <2>4. CASE s = a.symbol /\ a.kind # "close"
    <3>1. s \in PlacedSymbols(x, {"buy", "short"})' BY <1>4, <1>9, <2>4
    <3>2. pos[s] # 0 => pos'[s] # 0 BY <1>4, <1>6, <1>8, <2>4
    <3>. QED BY <2>1, <3>1, <3>2
  <2>. QED BY <2>2, <2>3, <2>4
<1>11. ASSUME NEW i \in DOMAIN Actions(x)
       PROVE  /\ Actions(x)[i].kind = "buy" => pos'[Actions(x)[i].symbol] >= 0
              /\ Actions(x)[i].kind = "short" => pos'[Actions(x)[i].symbol] <= 0
  <2>1. Actions(x)[i].symbol \in Symbols BY <1>1, OrderTyped
  <2>2. /\ Actions(x)[i].kind = "buy" => pos[Actions(x)[i].symbol] >= 0
        /\ Actions(x)[i].kind = "short" => pos[Actions(x)[i].symbol] <= 0
    BY DEF Behind
  <2>3. CASE Actions(x)[i].symbol # a.symbol BY <1>5, <2>1, <2>2, <2>3
  <2>4. CASE Actions(x)[i].symbol = a.symbol
    <3>1. ~(a.kind = "buy" /\ Actions(x)[i].kind = "short") /\ ~(a.kind = "short" /\ Actions(x)[i].kind = "buy")
      BY <1>1, <1>7, <2>4 DEF a
    <3>. QED BY <1>4, <1>6, <1>8, <2>2, <2>4, <3>1
  <2>. QED BY <2>3, <2>4
<1>. QED BY <1>2, <1>3, <1>10, <1>11 DEF Behind, Reading, held

(* The attempt's write catches up.                                         *)
LEMMA WriteCatchesUp ==
    ASSUME OrderInv, OneOpen, FoundStays, SeenTrue, NEW x \in Attempts, WriteDiary(x), Behind(x), Current(x)
    PROVE  \A s \in Symbols : pos[s] # 0 <=> OpenRows(diary'[s]) # {}
<1>. TypeOK BY DEF OrderInv
<1>1. run[x].pc = "write" BY DEF WriteDiary
<1>2. \A s \in Symbols : /\ run[x].view[s].qty = pos[s]
                         /\ IF OpenRows(diary[s]) = {} THEN run[x].row[s] = None
                            ELSE run[x].row[s] \in OpenRows(diary[s])
  BY <1>1 DEF Behind, Current, Reading
<1>3. \A s \in Symbols : run[x].row[s] = None => OpenRows(diary[s]) = {}
  <2>1. \A s \in Symbols : OpenRows(diary[s]) \subseteq Int BY DEF OpenRows, TypeOK
  <2>. QED BY <1>2, <2>1, NoneApart
<1>4. Opens(x) \subseteq Symbols
  <2>1. \A p \in run[x].placed : p.act \in DOMAIN Actions(x)
    <3>1. Accounts(x) BY <1>1 DEF OrderInv, Accounted, Working
    <3>2. run[x].at - 1 \in 0 .. Len(Actions(x)) /\ DOMAIN Actions(x) = 1 .. Len(Actions(x)) /\ Len(Actions(x)) \in Nat
      BY <1>1, AttemptTyped DEF Working
    <3>3. 1 .. run[x].at - 1 \subseteq DOMAIN Actions(x) BY <3>2
    <3>. QED BY <3>1, <3>3 DEF Accounts
  <2>2. \A i \in DOMAIN Actions(x) : Actions(x)[i].symbol \in Symbols
    <3>1. x[1] \in Ticks /\ plan[x[1]] # None BY <1>1, AttemptTyped DEF Working
    <3>. QED BY <3>1, OrderTyped
  <2>. QED BY <2>1, <2>2 DEF Opens, PlacedSymbols
<1>5. \A s \in Opens(x) : ~Refused(diary[s], run[x].row[s]) BY <1>3, <1>4 DEF Refused
<1>6. diary' = [s \in Symbols |->
          CASE s \in Opens(x)  -> OpenOrUpdate(diary[s], run[x].row[s], run[x].view[s].life)
            [] s \in Closes(x) -> CloseOpen(diary[s], run[x].row[s], run[x].view[s].life)
            [] OTHER -> diary[s]]
  BY <1>5 DEF WriteDiary
<1>7. ASSUME NEW s \in Symbols PROVE pos[s] # 0 <=> OpenRows(diary'[s]) # {}
  <2>. DEFINE row == run[x].row[s]
              l == run[x].view[s].life
  <2>1. diary[s] \in Seq(Rows) /\ row \in Nat \cup {None} /\ (row # None => row \in DOMAIN diary[s]) /\ l \in Nat
    BY Writes
  <2>2. /\ row = None => OpenRows(diary[s]) = {}
        /\ row # None => row \in OpenRows(diary[s])
    BY <1>2, <1>3
  <2>3. /\ s \in Opens(x) <=> s \in PlacedSymbols(x, {"buy", "short"}) /\ pos[s] # 0
        /\ s \in Closes(x) <=> s \in PlacedSymbols(x, {"close"}) /\ pos[s] = 0
    BY <1>2 DEF Opens, Closes, HeldAfter
  <2>. HIDE DEF row, l
  <2>4. CASE s \in Opens(x)
    <3>1. diary'[s] = OpenOrUpdate(diary[s], row, l) BY <1>6, <2>3, <2>4 DEF row, l
    <3>2. /\ row = None => OpenRows(OpenOrUpdate(diary[s], row, l)) = OpenRows(diary[s]) \cup {Len(diary[s]) + 1}
          /\ row # None => OpenRows(OpenOrUpdate(diary[s], row, l)) = OpenRows(diary[s])
      BY <2>1, Opening
    <3>. QED BY <2>2, <2>3, <2>4, <3>1, <3>2
  <2>5. CASE s \notin Opens(x) /\ s \in Closes(x)
    <3>1. diary'[s] = CloseOpen(diary[s], row, l) BY <1>6, <2>5 DEF row, l
    <3>2. OpenRows(CloseOpen(diary[s], row, l)) = OpenRows(diary[s]) \ {row} BY <2>1, Closing
    <3>3. OpenRows(diary[s]) \ {row} = {} BY <2>2 DEF OneOpen
    <3>. QED BY <2>3, <2>5, <3>1, <3>2, <3>3
  <2>6. CASE s \notin Opens(x) /\ s \notin Closes(x)
    <3>1. diary'[s] = diary[s] BY <1>6, <2>6
    <3>. QED BY <2>3, <2>6, <3>1 DEF Behind
  <2>. QED BY <2>4, <2>5, <2>6
<1>. QED BY <1>7


(* Without any failure only the attempt that Temporal waits for acts.      *)
LEMMA CleanSteps ==
    ASSUME OrderInv, [Next]_vars, Alone, MonitorRests, InStep, Clean'
    PROVE  /\ Clean /\ readFails' = 0 /\ zombies + exits = 0
           /\ \/ UNCHANGED vars
              \/ \E t \in Ticks : StartTick(t)
              \/ /\ current \in Attempts /\ Live(current)
                 /\ \/ PlaceAnswered(current) \/ RecordCheck(current) \/ RecordWrite(current)
                    \/ ReconcileNothing(current) \/ ListPositions(current) \/ FindRows(current)
                    \/ WriteDiary(current)
<1>1. /\ lost = 0 /\ crashes = 0 /\ zombies = 0 /\ readFails = 0 /\ exits = 0
      /\ lost' = 0 /\ crashes' = 0 /\ zombies' = 0 /\ readFails' = 0 /\ exits' = 0
  BY BoundsGrow DEF Clean
<1>2. Clean /\ late = {} /\ mon.pc = "idle" /\ \A x \in Attempts : run[x].pc # "dead"
  BY <1>1 DEF Clean, InStep, MonitorRests
<1>3. \A x \in Attempts : Live(x) => x = current BY <1>1 DEF Alone
<1>4. ~MonitorSettles /\ ~MonitorLost /\ ~MonitorFinds /\ ~MonitorWrites
  BY <1>1, <1>2 DEF MonitorSettles, MonitorLost, MonitorFinds, MonitorWrites
<1>5. \A x : x \in Attempts => ~GiveUp(x) BY <1>1, <1>2 DEF GiveUp
<1>6. \A t \in Ticks : ~FailTick(t) /\ \A n \in 1 .. 2 : ~Retry(t, n)
  <2>1. \A t \in Ticks, n \in 1 .. 3 : <<t, n>> \in Attempts BY DEF Attempts
  <2>2. \A n \in 1 .. 2 : n \in 1 .. 3 OBVIOUS
  <2>3. 3 \in 1 .. 3 OBVIOUS
  <2>. QED BY <1>5, <2>1, <2>2, <2>3 DEF FailTick, Retry
<1>7. \A x \in Attempts : ~Crash(x) /\ ~PlaceRaises(x) /\ ~DiaryFails(x) /\ ~RecordRefused(x)
  BY <1>1 DEF Crash, PlaceRaises, DiaryFails, RecordRefused, Alone
<1>8. CASE \E x \in Attempts : Apply(x)
  <2>1. PICK x \in Attempts : Apply(x) BY <1>8
  <2>2. x = current /\ Live(x) BY <1>3, <2>1, OneActs
  <2>. QED BY <1>1, <1>2, <1>7, <2>1, <2>2 DEF Apply
<1>. QED BY <1>1, <1>2, <1>4, <1>6, <1>7, <1>8 DEF Next

(* A tick starts from positions that the diary shows.                      *)
LEMMA StartsBehind ==
    ASSUME OrderInv, NEW t \in Ticks, StartTick(t),
           \A s \in Symbols : pos[s] # 0 <=> OpenRows(diary[s]) # {}
    PROVE  Behind(<<t, 1>>)'
<1>1. UNCHANGED <<pos, diary>> /\ run' = [run EXCEPT ![<<t, 1>>] = At("place")]
  BY DEF StartTick, Become, broker
<1>2. <<t, 1>> \in Attempts /\ <<t, 1>>[1] = t BY DEF Attempts
<1>3. run'[<<t, 1>>].pc = "place" BY <1>1, <1>2 DEF At, OrderInv, TypeOK
<1>4. plan'[t].positions = pos /\ Sided(t)' BY StartsSided
<1>5. \A i \in DOMAIN plan'[t].actions :
          /\ plan'[t].actions[i].kind = "buy" => pos[plan'[t].actions[i].symbol] >= 0
          /\ plan'[t].actions[i].kind = "short" => pos[plan'[t].actions[i].symbol] <= 0
  BY <1>4 DEF Sided
<1>. QED BY <1>1, <1>2, <1>3, <1>4, <1>5 DEF Behind, Actions, Reading

(* Nothing was placed, so nothing has moved.                               *)
LEMMA NothingBehind ==
    ASSUME NEW x, Behind(x), run[x].placed = {}
    PROVE  \A s \in Symbols : pos[s] # 0 <=> OpenRows(diary[s]) # {}
<1>1. \A s, kinds : s \notin PlacedSymbols(x, kinds) BY DEF PlacedSymbols
<1>. QED BY <1>1 DEF Behind

LEMMA BehindNext == ASSUME NEW x, current' = x, Behind(x)' PROVE Behind(current)'
BY DEF Behind, Actions, PlacedSymbols

(* What the attempt does to its locals in a clean step.                    *)
LEMMA CleanLocals ==
    ASSUME OrderInv, NEW x \in Attempts, readFails' = 0
    PROVE  /\ RecordCheck(x) \/ RecordWrite(x) =>
                  run'[x].placed = run[x].placed /\ run'[x].pc \notin Reading
           /\ ListPositions(x) =>
                  run'[x].placed = run[x].placed /\ \A s \in Symbols : run'[x].view[s].qty = pos[s]
           /\ FindRows(x) => run'[x].placed = run[x].placed /\ run'[x].view = run[x].view /\ run[x].pc = "find"
<1>1. run \in [Attempts -> Locals] /\ run[x] \in Locals BY DEF OrderInv, TypeOK
<1>2. RecordCheck(x) \/ RecordWrite(x) =>
          run'[x].placed = run[x].placed /\ run'[x].pc \notin Reading
  <2>1. ASSUME NEW where \in {"record", "list"}, Goto(x, where)
        PROVE  run'[x].placed = run[x].placed /\ run'[x].pc \notin Reading
    BY <1>1, <2>1 DEF Goto, Reading, Locals
  <2>. QED BY <2>1 DEF RecordCheck, RecordWrite
<1>3. ASSUME ListPositions(x)
      PROVE  run'[x].placed = run[x].placed /\ \A s \in Symbols : run'[x].view[s].qty = pos[s]
  <2>1. readFails \in Nat BY DEF OrderInv, TypeOK
  <2>2. run' = [run EXCEPT ![x].view = Listed, ![x].pc = "find"] BY <1>3, <2>1 DEF ListPositions
  <2>3. run'[x].placed = run[x].placed /\ run'[x].view = Listed BY <1>1, <2>2 DEF Locals
  <2>. QED BY <2>3 DEF Listed
<1>4. FindRows(x) => run'[x].placed = run[x].placed /\ run'[x].view = run[x].view /\ run[x].pc = "find"
  BY <1>1 DEF FindRows, Locals
<1>. QED BY <1>2, <1>3, <1>4

LEMMA NextInStep ==
    ASSUME OrderInv, [Next]_vars, PlansSided, SeenTrue, OneOpen, FoundStays, Alone, MonitorRests, Follows, InStep
    PROVE  InStep'
<1>. SUFFICES ASSUME Clean'
              PROVE  /\ late' = {}
                     /\ \A x \in Attempts : run'[x].pc # "dead"
                     /\ IF current' = None THEN \A s \in Symbols : pos'[s] # 0 <=> OpenRows(diary'[s]) # {}
                                           ELSE Behind(current)'
  BY DEF InStep
<1>. TypeOK BY DEF OrderInv
<1>1. Clean /\ readFails' = 0 /\ zombies + exits = 0 BY CleanSteps
<1>2. /\ late = {} /\ \A x \in Attempts : run[x].pc # "dead"
      /\ current = None => \A s \in Symbols : pos[s] # 0 <=> OpenRows(diary[s]) # {}
      /\ current # None => Behind(current)
  BY <1>1 DEF InStep
<1>3. CASE UNCHANGED vars
  <2>1. ASSUME current # None, Behind(current) PROVE Behind(current)'
    BY <1>3, <2>1 DEF vars, broker, Behind, Actions, PlacedSymbols
  <2>. QED BY <1>2, <1>3, <2>1 DEF vars, broker
<1>4. ASSUME NEW t \in Ticks, StartTick(t)
      PROVE  /\ late' = {} /\ \A x \in Attempts : run'[x].pc # "dead"
             /\ current' # None /\ Behind(current)'
  <2>1. /\ current = None /\ current' = <<t, 1>> /\ late' = late /\ <<t, 1>> \in Attempts
        /\ run' = [run EXCEPT ![<<t, 1>>] = At("place")]
    BY <1>4 DEF StartTick, Attempts, Become
  <2>2. Behind(<<t, 1>>)'
    <3>1. \A s \in Symbols : pos[s] # 0 <=> OpenRows(diary[s]) # {} BY <1>2, <2>1
    <3>. QED BY <1>4, <3>1, StartsBehind
  <2>3. \A x \in Attempts : run'[x].pc # "dead" BY <1>2, <2>1 DEF At, TypeOK
  <2>4. current' # None BY <2>1, NoneApart
  <2>. QED BY <1>2, <2>1, <2>2, <2>3, <2>4, BehindNext
<1>5. ASSUME NEW x \in Attempts, x = current, Live(x),
             \/ PlaceAnswered(x) \/ RecordCheck(x) \/ RecordWrite(x) \/ ReconcileNothing(x)
             \/ ListPositions(x) \/ FindRows(x) \/ WriteDiary(x)
      PROVE  /\ late' = {} /\ \A y \in Attempts : run'[y].pc # "dead"
             /\ IF current' = None THEN \A s \in Symbols : pos'[s] # 0 <=> OpenRows(diary'[s]) # {}
                                   ELSE Behind(current)'
  <2>1. x # None /\ Behind(x)
    BY <1>2, <1>5, NoneApart
  <2>2. late' = late
    BY <1>5 DEF PlaceAnswered, RecordCheck, RecordWrite, ReconcileNothing, ListPositions, FindRows, WriteDiary
  <2>3. \A y \in Attempts : y # x => run'[y] = run[y] BY <1>5, OneActs DEF Apply
  <2>4. CASE PlaceAnswered(x)
    <3>1. Behind(x)' BY <2>1, <2>4, OrderedBehind
    <3>2. current' = x /\ run'[x].pc = "place" BY <1>5, <2>4, StillPlacing DEF PlaceAnswered
    <3>. QED BY <1>2, <2>1, <2>2, <2>3, <3>1, <3>2, BehindNext
  <2>5. CASE RecordCheck(x) \/ RecordWrite(x) \/ ListPositions(x) \/ FindRows(x)
    <3>1. current' = x /\ UNCHANGED <<pos, plan, diary>>
      BY <1>5, <2>5 DEF RecordCheck, RecordWrite, ListPositions, FindRows, broker
    <3>2. /\ run'[x].placed = run[x].placed
          /\ run'[x].pc \in Reading => \A s \in Symbols : run'[x].view[s].qty = pos[s]
      <4>1. FindRows(x) => \A s \in Symbols : run[x].view[s].qty = pos[s]
        BY <1>1, <2>1, CleanLocals DEF Behind, Reading
      <4>2. /\ RecordCheck(x) \/ RecordWrite(x) =>
                    run'[x].placed = run[x].placed /\ run'[x].pc \notin Reading
            /\ ListPositions(x) =>
                    run'[x].placed = run[x].placed /\ \A s \in Symbols : run'[x].view[s].qty = pos[s]
            /\ FindRows(x) => run'[x].placed = run[x].placed /\ run'[x].view = run[x].view
        BY <1>1, CleanLocals
      <4>. QED BY <2>5, <4>1, <4>2
    <3>3. Behind(x)' BY <2>1, <3>1, <3>2, BehindStays
    <3>4. run'[x].pc # "dead"
      <4>1. run[x] \in Locals BY DEF TypeOK
      <4>. QED BY <2>5, <4>1 DEF RecordCheck, RecordWrite, ListPositions, FindRows, Goto, TypeOK, Locals
    <3>. QED BY <1>2, <2>1, <2>2, <2>3, <3>1, <3>3, <3>4, BehindNext
  <2>6. CASE ReconcileNothing(x)
    <3>1. current' = None /\ run'[x].pc = "done" /\ UNCHANGED <<pos, diary>>
      BY <1>5, <2>6 DEF ReconcileNothing, End, Become, At, broker, TypeOK
    <3>2. \A s \in Symbols : pos[s] # 0 <=> OpenRows(diary[s]) # {}
      BY <2>1, <2>6, NothingBehind DEF ReconcileNothing
    <3>. QED BY <1>2, <2>2, <2>3, <3>1, <3>2
  <2>7. CASE WriteDiary(x)
    <3>1. current' = None /\ run'[x].pc = "done" /\ pos' = pos
      BY <1>5, <2>7 DEF WriteDiary, End, Become, At, broker, TypeOK
    <3>2. Current(x) BY <1>1, <2>7 DEF WriteDiary, Follows, Reading
    <3>3. \A s \in Symbols : pos[s] # 0 <=> OpenRows(diary'[s]) # {} BY <2>1, <2>7, <3>2, WriteCatchesUp
    <3>. QED BY <1>2, <2>2, <2>3, <3>1, <3>3
  <2>. QED BY <1>5, <2>4, <2>5, <2>6, <2>7
<1>6. \/ UNCHANGED vars
      \/ \E t \in Ticks : StartTick(t)
      \/ /\ current \in Attempts /\ Live(current)
         /\ \/ PlaceAnswered(current) \/ RecordCheck(current) \/ RecordWrite(current)
            \/ ReconcileNothing(current) \/ ListPositions(current) \/ FindRows(current) \/ WriteDiary(current)
  BY CleanSteps
<1>. QED BY <1>3, <1>4, <1>5, <1>6

LEMMA DiaryHolds == Spec => []DiaryInv
<1>1. Init => DiaryInv BY InitDiary
<1>2. OrderInv /\ DiaryInv /\ [Next]_vars => DiaryInv'
  BY NextSided, NextSeen, NextRows, NextFound, NextAlone, NextRests, NextFollows, NextInStep, NextClosed DEF DiaryInv
<1>. QED BY <1>1, <1>2, OrdersHold, PTL DEF Spec

(* Between ticks the diary shows what is held when the ticks alone traded  *)
(* and nothing failed, and it closes no episode of a position that goes on *)
(* unless an attempt outlived its timeout, the reconciliation could not    *)
(* read, or an exit raced it: the refusals of the diary's unique index and *)
(* rows that another transaction has closed meanwhile included.            *)
THEOREM DiaryKeepsUp == Spec => []DiaryFollowsPositions
<1>1. OrderInv /\ DiaryInv => DiaryFollowsPositions
  <2>. SUFFICES ASSUME OrderInv, DiaryInv, Quiet, Clean
                PROVE  \A s \in Symbols : (pos[s] # 0) <=> (OpenRows(diary[s]) # {})
    BY DEF DiaryInv, DiaryFollowsPositions, DiaryFollows, Clean
  <2>. QED BY DEF DiaryInv, InStep, Quiet
<1>. QED BY <1>1, OrdersHold, DiaryHolds, PTL
=============================================================================
