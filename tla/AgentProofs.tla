---------------------------- MODULE AgentProofs ----------------------------
(***************************************************************************)
(* The agents' side of the game: the evolution of their strategies, the    *)
(* way from signals to orders, and the store of the bars they decide on.   *)
(*                                                                         *)
(* Evolution, for any agents, house strategies, cycles, crashes, late      *)
(* attempts and reseeds: a retired construct is in no slot and has its     *)
(* successor, house strategies stay, an agent that is not reseeded keeps   *)
(* exactly one strategy in its slot, and without late attempts it evolves  *)
(* at most once a day.                                                     *)
(*                                                                         *)
(* The four transactions of an adoption are not isolated from one another. *)
(* What keeps overlapping adoptions apart is unique(name, version): the    *)
(* versions of an agent's constructs have no gap (Dense), so that only an  *)
(* attempt whose incumbent is the newest version can insert the next one;  *)
(* and a version that has been inserted and not adopted is nobody's        *)
(* incumbent (Pending), so that no other attempt can pass it.              *)
(*                                                                         *)
(* The daily clock: with a cooldown of at most 24 hours, an agent whose    *)
(* session has closed by a day's cycle is idle on that day only if it      *)
(* recorded an experiment on the day before. The readers: get_bars reads two tiers and shows  *)
(* the newest bars of both. Standings: a snapshot that is neither torn nor *)
(* flagged stale is what the account is worth.                             *)
(*                                                                         *)
(* The graph of one evolution: what it adopts was measured better than the *)
(* incumbent on both windows, as far as backtests answered, and its calls  *)
(* exceed the day's allowance by what overlaps and what Redis loses.       *)
(***************************************************************************)
EXTENDS Evolution, EvolutionGraph, TickDecision, EvolutionTrigger, PriceStore, Standings, FiniteSetTheorems, WellFoundedInduction, TLAPS

Adopting == {"read", "swap"}
Created  == {"read", "swap", "retire"}
Evolving == {"reason", "create", "read", "swap", "retire", "record"}

(* The rows: those not inserted yet, the house's, and an agent's versions, *)
(* each once and without a gap.                                            *)
Fresh     == \A i \in Ids \cap Nat : created < i => strategy[i] = None
HouseRows == \A h \in House : strategy[h] = [owner |-> "house", version |-> 1, status |-> "active"]
Single    == \A a \in Agents : \A i, j \in Constructs(a) : strategy[i].version = strategy[j].version => i = j
Dense     == \A a \in Agents : \A i \in Constructs(a) :
                 /\ strategy[i].version >= 2
                 /\ \A v \in 2 .. strategy[i].version : \E j \in Constructs(a) : strategy[j].version = v

(* A strategy an agent may run, and the newest of its kind.                *)
Own(a)    == House \cup Constructs(a)
Tip(a, i) == i \in Own(a) /\ \A j \in Constructs(a) : strategy[j].version # strategy[i].version + 1

(* The strategies of a slot are the house's and i; i alone, but for seed.py.*)
Held(S, i) == S \subseteq House \cup {i} /\ (reseeds = 0 => S = {i})

Slots == /\ \A a \in Agents : slots[a] \subseteq Own(a) /\ IsFiniteSet(slots[a])
         /\ \A x \in Attempts : IsFiniteSet(ids[x])
         /\ reseeds = 0 => \A a \in Agents : \E i \in Ids : slots[a] = {i}
         /\ seed # None => reseeds > 0

(* What an attempt believes to be an agent's strategy is one of its own,   *)
(* and it is the one it has as long as there is no newer version.          *)
Believes(x) ==
    /\ incumbent[x] \in [Agents -> Ids \cup {None}]
    /\ \A a \in Agents : incumbent[x][a] # None =>
         incumbent[x][a] \in Own(a) /\ (Tip(a, incumbent[x][a]) => Held(slots[a], incumbent[x][a]))
Beliefs == \A x \in Attempts : Live(x) => Believes(x)

(* An attempt that evolves an agent; what it has inserted; and, until this *)
(* is adopted, that nobody else knows of it and the slot is as it was.     *)
Works(x) ==
    /\ pc[x] \in Evolving => agent[x] \in Agents /\ Old(x) # None
    /\ pc[x] \in Created => /\ new[x] \in Constructs(agent[x])
                            /\ strategy[new[x]].version = Version(x)
Unknown(x) ==
    /\ \A y \in Attempts : Live(y) => incumbent[y][agent[x]] # new[x]
    /\ \A y \in Attempts : pc[y] \in Adopting /\ new[y] = new[x] => y = x
Pending(x) ==
    /\ pc[x] \in Adopting => /\ Tip(agent[x], new[x])
                             /\ Unknown(x)
                             /\ Held(slots[agent[x]], Old(x))
    /\ pc[x] = "swap" => Held(ids[x], Old(x))
    /\ pc[x] = "retire" => Old(x) \in House \/ Old(x) \notin slots[agent[x]]
AllWork  == \A x \in Attempts : Works(x)
Adoptions == \A x \in Attempts : Pending(x)

EvoInv == TypeOK /\ Fresh /\ HouseRows /\ Single /\ Dense /\ Slots /\ Beliefs /\ AllWork /\ Adoptions
          /\ RetiredIsSuperseded

-----------------------------------------------------------------------------
LEMMA Bounded == /\ {MaxRuns, MaxDays, MaxCreated, MaxCrashes, MaxZombies, MaxReseeds} \subseteq Nat
                 /\ \A h \in House : h \notin Nat
BY EvolutionAssumption

LEMMA NoneOutside == /\ None \notin Ids /\ None \notin Attempts /\ None \notin Rows /\ None \notin Agents
BY EvolutionAssumption DEF Ids

LEMMA Owners ==
    ASSUME NEW a \in Agents, NEW i
    PROVE  i \in Constructs(a) <=> i \in Ids /\ strategy[i] # None /\ strategy[i].owner = a
BY DEF Constructs

LEMMA RowTyped ==
    ASSUME TypeOK, NEW i \in Ids, strategy[i] # None
    PROVE  strategy[i] \in Rows
BY DEF TypeOK

(* House rows have no agent as their owner.                                *)
LEMMA HouseApart ==
    ASSUME HouseRows, NEW a \in Agents, NEW h \in House
    PROVE  h \notin Constructs(a) /\ h \in Ids /\ strategy[h] # None /\ strategy[h].version = 1
<1>1. h \in Ids BY DEF Ids
<1>2. strategy[h].owner = "house" /\ strategy[h].version = 1 BY DEF HouseRows
<1>3. strategy[h] \in Rows BY DEF HouseRows, Rows
<1>. QED BY <1>1, <1>2, <1>3, NoneOutside, Owners, EvolutionAssumption

(* The steps that write rows.                                              *)
Inserts(x) ==
    /\ pc[x] = "create" /\ ~Taken(x)
    /\ created < MaxCreated /\ created' = created + 1
    /\ strategy' = [strategy EXCEPT ![created + 1] = Row(x)]
    /\ UNCHANGED <<slots, agent, incumbent, ids, reseeds>>
    /\ \/ pc' = [pc EXCEPT ![x] = "read"] /\ new' = [new EXCEPT ![x] = created + 1]
       \/ pc' = [pc EXCEPT ![x] = "next"] /\ new' = new

Retires(x) ==
    /\ pc[x] = "retire" /\ OwnConstruct(x)
    /\ strategy' = [strategy EXCEPT ![Old(x)].status = "retired"]
    /\ pc' = [pc EXCEPT ![x] = "record"]
    /\ UNCHANGED <<slots, created, agent, incumbent, new, ids, reseeds>>

LEMMA WhoWrites ==
    ASSUME [Next]_vars
    PROVE  \/ strategy' = strategy /\ created' = created
           \/ \E x \in Attempts : Inserts(x) \/ Retires(x)
<1>1. CASE UNCHANGED vars BY <1>1 DEF vars, tables, bounds
<1>2. ASSUME NEW r \in Runs, StartCycle(r) \/ Retry(r) \/ FailCycle(r) PROVE strategy' = strategy /\ created' = created
  BY <1>2 DEF StartCycle, Retry, FailCycle, Begin, tables
<1>3. ASSUME NEW x \in Attempts, Create(x) \/ CreateTimesOut(x) PROVE Inserts(x)
  BY <1>3 DEF Create, CreateTimesOut, Insert, Step, Goto, Inserts
<1>4. ASSUME NEW x \in Attempts, Retire(x) PROVE Retires(x) \/ (strategy' = strategy /\ created' = created)
  BY <1>4 DEF Retire, Step, Goto, Retires, bounds
<1>5. ASSUME NEW x \in Attempts,
             \/ Crash(x) \/ Finish(x) \/ Reason(x) \/ CreateRefused(x) \/ SwapRead(x) \/ SwapCommit(x) \/ Record(x)
             \/ \E a \in Agents : Skip(x, a) \/ Consider(x, a)
      PROVE  strategy' = strategy /\ created' = created
  BY <1>5 DEF Crash, Finish, Reason, CreateRefused, SwapRead, SwapCommit, Record, Skip, Consider, Pick, tables, bounds
<1>6. CASE SeedRead \/ SeedWrite \/ DayPasses BY <1>6 DEF SeedRead, SeedWrite, DayPasses, tables, bounds
<1>. QED BY <1>1, <1>2, <1>3, <1>4, <1>5, <1>6 DEF Next

(* Who is alive, evolves or adopts after a step.                           *)
LEMMA WhoLives ==
    ASSUME TypeOK, [Next]_vars, NEW x \in Attempts, Live(x)'
    PROVE  \/ Live(x) /\ incumbent'[x] = incumbent[x]
           \/ /\ incumbent'[x] = [a \in Agents |-> Incumbent(slots[a])]
              /\ UNCHANGED <<strategy, slots, reseeds>> /\ pc'[x] = "next"
<1>1. /\ pc \in [Attempts -> {"off", "next", "reason", "create", "read", "swap", "retire", "record", "done", "dead"}]
      /\ incumbent \in [Attempts -> [Agents -> Ids \cup {None}] \cup {None}]
  BY DEF TypeOK
<1>2. CASE UNCHANGED vars BY <1>2 DEF vars, locals, Live
<1>3. ASSUME NEW y, Begin(y)
      PROVE  \/ Live(x) /\ incumbent'[x] = incumbent[x]
             \/ /\ incumbent'[x] = [a \in Agents |-> Incumbent(slots[a])]
                /\ UNCHANGED <<strategy, slots, reseeds>> /\ pc'[x] = "next"
  BY <1>1, <1>3 DEF Begin, tables, Live
<1>4. ASSUME NEW r \in Runs, StartCycle(r) \/ Retry(r) PROVE \E y : Begin(y)
  BY <1>4 DEF StartCycle, Retry
<1>5. CASE \E r \in Runs : FailCycle(r) BY <1>5 DEF FailCycle, locals, Live
<1>6. ASSUME NEW y \in Attempts,
             \/ Crash(y) \/ Finish(y) \/ Reason(y) \/ CreateRefused(y) \/ SwapRead(y) \/ SwapCommit(y) \/ Record(y)
             \/ Create(y) \/ CreateTimesOut(y) \/ Retire(y)
             \/ \E a \in Agents : Skip(y, a) \/ Consider(y, a)
      PROVE  Live(x) /\ incumbent' = incumbent
  BY <1>1, <1>6 DEF Crash, Finish, Reason, CreateRefused, SwapRead, SwapCommit, Record, Create, CreateTimesOut, Retire,
     Skip, Consider, Pick, Insert, Step, Goto, Live
<1>7. CASE SeedRead \/ SeedWrite \/ DayPasses BY <1>7 DEF SeedRead, SeedWrite, DayPasses, locals, Live
<1>. QED BY <1>2, <1>3, <1>4, <1>5, <1>6, <1>7 DEF Next

LEMMA WhoEvolves ==
    ASSUME TypeOK, [Next]_vars, NEW x \in Attempts, pc'[x] \in Evolving
    PROVE  \/ pc[x] \in Evolving /\ agent'[x] = agent[x] /\ incumbent'[x] = incumbent[x]
           \/ \E a \in Agents : /\ Consider(x, a) /\ agent'[x] = a /\ pc'[x] \in {"reason", "record"}
                                /\ incumbent'[x] = incumbent[x] /\ incumbent[x][a] # None
<1>1. /\ pc \in [Attempts -> {"off", "next", "reason", "create", "read", "swap", "retire", "record", "done", "dead"}]
      /\ agent \in [Attempts -> Agents \cup {None}]
      /\ incumbent \in [Attempts -> [Agents -> Ids \cup {None}] \cup {None}]
  BY DEF TypeOK
<1>2. CASE UNCHANGED vars BY <1>2 DEF vars, locals
<1>3. ASSUME NEW y, Begin(y) PROVE pc[x] \in Evolving /\ agent'[x] = agent[x] /\ incumbent'[x] = incumbent[x]
  BY <1>1, <1>3 DEF Begin, Evolving
<1>4. ASSUME NEW r \in Runs, StartCycle(r) \/ Retry(r) PROVE \E y : Begin(y)
  BY <1>4 DEF StartCycle, Retry
<1>5. CASE \E r \in Runs : FailCycle(r) BY <1>5 DEF FailCycle, locals
<1>6. ASSUME NEW y \in Attempts,
             \/ Crash(y) \/ Finish(y) \/ Reason(y) \/ CreateRefused(y) \/ SwapRead(y) \/ SwapCommit(y) \/ Record(y)
             \/ Create(y) \/ CreateTimesOut(y) \/ Retire(y)
             \/ \E a \in Agents : Skip(y, a)
      PROVE  pc[x] \in Evolving /\ agent'[x] = agent[x] /\ incumbent'[x] = incumbent[x]
  BY <1>1, <1>6 DEF Crash, Finish, Reason, CreateRefused, SwapRead, SwapCommit, Record, Create, CreateTimesOut, Retire,
     Skip, Insert, Step, Goto, Evolving
<1>7. ASSUME NEW y \in Attempts, NEW a \in Agents, Consider(y, a)
      PROVE  \/ pc[x] \in Evolving /\ agent'[x] = agent[x] /\ incumbent'[x] = incumbent[x]
             \/ /\ Consider(x, a) /\ agent'[x] = a /\ pc'[x] \in {"reason", "record"}
                /\ incumbent'[x] = incumbent[x] /\ incumbent[x][a] # None
  <2>1. incumbent' = incumbent /\ agent' = [agent EXCEPT ![y] = a] /\ incumbent[y][a] # None
        /\ (pc' = [pc EXCEPT ![y] = "reason"] \/ pc' = [pc EXCEPT ![y] = "record"])
    BY <1>7 DEF Consider, Pick, Goto
  <2>. QED BY <1>1, <1>7, <2>1 DEF Evolving
<1>8. CASE SeedRead \/ SeedWrite \/ DayPasses BY <1>8 DEF SeedRead, SeedWrite, DayPasses, locals
<1>. QED BY <1>2, <1>3, <1>4, <1>5, <1>6, <1>7, <1>8 DEF Next

LEMMA WhoCreated ==
    ASSUME TypeOK, [Next]_vars, NEW x \in Attempts, pc'[x] \in Created
    PROVE  /\ agent'[x] = agent[x] /\ incumbent'[x] = incumbent[x]
           /\ \/ pc'[x] = pc[x] /\ new'[x] = new[x] /\ ids'[x] = ids[x]
              \/ Inserts(x) /\ pc'[x] = "read" /\ new'[x] = created + 1
              \/ SwapRead(x) /\ pc[x] = "read" /\ pc'[x] = "swap" /\ new'[x] = new[x] /\ ids'[x] = slots[agent[x]]
              \/ SwapCommit(x) /\ pc[x] = "swap" /\ pc'[x] = "retire" /\ new'[x] = new[x]
<1>1. /\ pc \in [Attempts -> {"off", "next", "reason", "create", "read", "swap", "retire", "record", "done", "dead"}]
      /\ agent \in [Attempts -> Agents \cup {None}] /\ new \in [Attempts -> Ids \cup {None}]
      /\ ids \in [Attempts -> SUBSET Ids]
      /\ incumbent \in [Attempts -> [Agents -> Ids \cup {None}] \cup {None}]
  BY DEF TypeOK
<1>. DEFINE Stays == pc'[x] = pc[x] /\ new'[x] = new[x] /\ ids'[x] = ids[x]
<1>2. CASE UNCHANGED vars BY <1>2 DEF vars, locals
<1>3. ASSUME NEW y, Begin(y) PROVE agent'[x] = agent[x] /\ incumbent'[x] = incumbent[x] /\ Stays
  BY <1>1, <1>3 DEF Begin, Created
<1>4. ASSUME NEW r \in Runs, StartCycle(r) \/ Retry(r) PROVE \E y : Begin(y)
  BY <1>4 DEF StartCycle, Retry
<1>5. CASE \E r \in Runs : FailCycle(r) BY <1>5 DEF FailCycle, locals
<1>6. ASSUME NEW y \in Attempts,
             \/ Crash(y) \/ Finish(y) \/ Reason(y) \/ CreateRefused(y) \/ Record(y)
             \/ CreateTimesOut(y) \/ Retire(y)
             \/ \E a \in Agents : Skip(y, a) \/ Consider(y, a)
      PROVE  agent'[x] = agent[x] /\ incumbent'[x] = incumbent[x] /\ Stays
  BY <1>1, <1>6 DEF Crash, Finish, Reason, CreateRefused, Record, CreateTimesOut, Retire,
     Skip, Consider, Pick, Insert, Step, Goto, Created
<1>7. ASSUME NEW y \in Attempts, Create(y)
      PROVE  /\ agent'[x] = agent[x] /\ incumbent'[x] = incumbent[x]
             /\ Stays \/ (Inserts(x) /\ pc'[x] = "read" /\ new'[x] = created + 1)
  BY <1>1, <1>7 DEF Create, Insert, Inserts, Step, Goto
<1>8. ASSUME NEW y \in Attempts, SwapRead(y)
      PROVE  /\ agent'[x] = agent[x] /\ incumbent'[x] = incumbent[x]
             /\ \/ Stays
                \/ SwapRead(x) /\ pc[x] = "read" /\ pc'[x] = "swap" /\ new'[x] = new[x] /\ ids'[x] = slots[agent[x]]
  <2>1. /\ pc[y] = "read" /\ pc' = [pc EXCEPT ![y] = "swap"] /\ ids' = [ids EXCEPT ![y] = slots[agent[y]]]
        /\ UNCHANGED <<agent, incumbent, new>>
    BY <1>8 DEF SwapRead, Step, Goto
  <2>. QED BY <1>1, <1>8, <2>1
<1>9. ASSUME NEW y \in Attempts, SwapCommit(y)
      PROVE  /\ agent'[x] = agent[x] /\ incumbent'[x] = incumbent[x]
             /\ \/ Stays
                \/ SwapCommit(x) /\ pc[x] = "swap" /\ pc'[x] = "retire" /\ new'[x] = new[x]
  <2>1. /\ pc[y] = "swap" /\ pc' = [pc EXCEPT ![y] = "retire"]
        /\ UNCHANGED <<agent, incumbent, new, ids>>
    BY <1>9 DEF SwapCommit, Step, Goto
  <2>. QED BY <1>1, <1>9, <2>1
<1>10. CASE SeedRead \/ SeedWrite \/ DayPasses BY <1>10 DEF SeedRead, SeedWrite, DayPasses, locals
<1>. QED BY <1>2, <1>3, <1>4, <1>5, <1>6, <1>7, <1>8, <1>9, <1>10 DEF Next

LEMMA WhoSlots ==
    ASSUME TypeOK, [Next]_vars
    PROVE  /\ slots' = slots \/ SeedWrite \/ \E x \in Attempts : SwapCommit(x)
           /\ reseeds' \in Nat /\ reseeds \in Nat /\ reseeds <= reseeds'
<1>1. reseeds \in Nat BY Bounded DEF TypeOK
<1>2. CASE UNCHANGED vars BY <1>1, <1>2 DEF vars, tables, bounds
<1>3. ASSUME NEW r \in Runs, StartCycle(r) \/ Retry(r) \/ FailCycle(r) PROVE slots' = slots /\ reseeds' = reseeds
  BY <1>3 DEF StartCycle, Retry, FailCycle, Begin, tables
<1>4. ASSUME NEW x \in Attempts,
             \/ Crash(x) \/ Finish(x) \/ Reason(x) \/ CreateRefused(x) \/ SwapRead(x) \/ Record(x)
             \/ Create(x) \/ CreateTimesOut(x) \/ Retire(x)
             \/ \E a \in Agents : Skip(x, a) \/ Consider(x, a)
      PROVE  slots' = slots /\ reseeds' = reseeds
  BY <1>4 DEF Crash, Finish, Reason, CreateRefused, SwapRead, Record, Create, CreateTimesOut, Retire, Insert,
     Skip, Consider, Pick, tables, bounds
<1>5. ASSUME NEW x \in Attempts, SwapCommit(x) PROVE reseeds' = reseeds
  BY <1>5 DEF SwapCommit, bounds
<1>6. CASE SeedRead \/ SeedWrite \/ DayPasses
  BY <1>1, <1>6 DEF SeedRead, SeedWrite, DayPasses, tables, bounds
<1>. QED BY <1>1, <1>2, <1>3, <1>4, <1>5, <1>6 DEF Next

(***************************************************************************)
(* The rows.                                                               *)
(***************************************************************************)
(* What an insertion finds and adds.                                       *)
LEMMA Insertion ==
    ASSUME TypeOK, Fresh, HouseRows, NEW x \in Attempts, Works(x), Believes(x), Inserts(x)
    PROVE  /\ created + 1 \in Ids /\ created + 1 \notin House /\ strategy[created + 1] = None
           /\ agent[x] \in Agents /\ Old(x) \in Own(agent[x]) /\ Old(x) \in Ids /\ strategy[Old(x)] \in Rows
           /\ Version(x) \in Nat /\ Row(x) \in Rows
           /\ strategy'[created + 1] = Row(x) /\ \A i \in Ids : i # created + 1 => strategy'[i] = strategy[i]
           /\ strategy' \in [Ids -> Rows \cup {None}]
<1>1. created \in Nat /\ created + 1 \in 1 .. MaxCreated /\ MaxCreated \in Nat BY Bounded DEF TypeOK, Inserts
<1>2. created + 1 \in Ids /\ created + 1 \notin House BY <1>1, Bounded DEF Ids
<1>3. strategy[created + 1] = None BY <1>1, <1>2 DEF Fresh
<1>4. agent[x] \in Agents /\ Old(x) # None BY DEF Works, Evolving, Inserts
<1>5. Old(x) \in Own(agent[x]) BY <1>4 DEF Believes, Old
<1>6. Old(x) \in Ids /\ strategy[Old(x)] # None
  BY <1>4, <1>5, HouseApart, Owners DEF Own
<1>7. strategy[Old(x)] \in Rows BY <1>6, RowTyped
<1>8. Version(x) \in Nat BY <1>7 DEF Version, Rows
<1>9. Row(x) \in Rows BY <1>4, <1>8 DEF Row, Rows
<1>. QED BY <1>2, <1>3, <1>4, <1>5, <1>6, <1>7, <1>8, <1>9 DEF TypeOK, Inserts

LEMMA Retirement ==
    ASSUME TypeOK, HouseRows, NEW x \in Attempts, Works(x), Believes(x), Retires(x)
    PROVE  /\ agent[x] \in Agents /\ Old(x) \in Constructs(agent[x]) /\ Old(x) \in Ids /\ Old(x) \notin House
           /\ strategy[Old(x)] \in Rows
           /\ strategy'[Old(x)] = [strategy[Old(x)] EXCEPT !.status = "retired"]
           /\ \A i \in Ids : i # Old(x) => strategy'[i] = strategy[i]
           /\ strategy' \in [Ids -> Rows \cup {None}]
<1>1. agent[x] \in Agents /\ Old(x) # None BY DEF Works, Evolving, Retires
<1>2. Old(x) \in Own(agent[x]) BY <1>1 DEF Believes, Old
<1>3. Old(x) \in Ids /\ strategy[Old(x)] # None
  BY <1>1, <1>2, HouseApart, Owners DEF Own
<1>4. strategy[Old(x)] \in Rows BY <1>3, RowTyped
<1>5. Old(x) \in Constructs(agent[x]) BY <1>1, <1>3, Owners DEF Retires, OwnConstruct
<1>6. strategy' = [strategy EXCEPT ![Old(x)].status = "retired"] BY DEF Retires
<1>7. [strategy[Old(x)] EXCEPT !.status = "retired"] \in Rows BY <1>4 DEF Rows
<1>. QED BY <1>1, <1>3, <1>4, <1>5, <1>6, <1>7, HouseApart DEF TypeOK

(* Rows are never removed and keep their owner and version.                *)
LEMMA RowsStay ==
    ASSUME TypeOK, Fresh, HouseRows, Beliefs, AllWork, [Next]_vars, NEW i \in Ids, strategy[i] # None
    PROVE  /\ strategy'[i] # None /\ strategy'[i].owner = strategy[i].owner
           /\ strategy'[i].version = strategy[i].version
           /\ strategy[i].status = "retired" => strategy'[i].status = "retired"
<1>1. strategy[i] \in Rows BY RowTyped
<1>2. ASSUME NEW x \in Attempts, Inserts(x) PROVE strategy'[i] = strategy[i]
  <2>1. Live(x) BY <1>2 DEF Live, Inserts
  <2>. QED BY <1>2, <2>1, Insertion DEF Beliefs, AllWork
<1>3. ASSUME NEW x \in Attempts, Retires(x)
      PROVE  strategy'[i] = strategy[i] \/ strategy'[i] = [strategy[i] EXCEPT !.status = "retired"]
  <2>1. Live(x) BY <1>3 DEF Live, Retires
  <2>. QED BY <1>3, <2>1, Retirement DEF Beliefs, AllWork
<1>4. [strategy[i] EXCEPT !.status = "retired"] \in Rows BY <1>1 DEF Rows
<1>5. \/ strategy'[i] = strategy[i] \/ strategy'[i] = [strategy[i] EXCEPT !.status = "retired"]
  BY <1>2, <1>3, WhoWrites
<1>. QED BY <1>1, <1>4, <1>5, NoneOutside DEF Rows

LEMMA ConstructsStay ==
    ASSUME TypeOK, Fresh, HouseRows, Beliefs, AllWork, [Next]_vars, NEW a \in Agents
    PROVE  /\ Constructs(a) \subseteq Constructs(a)' /\ Own(a) \subseteq Own(a)'
           /\ \A i \in Constructs(a) : strategy'[i].version = strategy[i].version
<1>1. \A i \in Constructs(a) : i \in Constructs(a)' /\ strategy'[i].version = strategy[i].version
  BY RowsStay DEF Constructs
<1>. QED BY <1>1 DEF Own

(* Only an insertion adds one.                                             *)
LEMMA ConstructsGrow ==
    ASSUME TypeOK, Fresh, HouseRows, Beliefs, AllWork, [Next]_vars, NEW a \in Agents, NEW i \in Constructs(a)'
    PROVE  \/ i \in Constructs(a) /\ strategy'[i].version = strategy[i].version
           \/ \E x \in Attempts : /\ Inserts(x) /\ a = agent[x] /\ i = created + 1
                                  /\ strategy'[i].version = Version(x)
<1>1. i \in Ids /\ strategy'[i] # None /\ strategy'[i].owner = a BY DEF Constructs
<1>2. CASE strategy[i] # None
  <2>1. strategy'[i].owner = strategy[i].owner /\ strategy'[i].version = strategy[i].version
    BY <1>1, <1>2, RowsStay
  <2>. QED BY <1>1, <1>2, <2>1, Owners
<1>3. CASE strategy[i] = None
  <2>1. ~\E x \in Attempts : Retires(x)
    <3>1. ASSUME NEW x \in Attempts, Retires(x) PROVE FALSE
      <4>1. Live(x) BY <3>1 DEF Live, Retires
      <4>2. strategy'[i] = strategy[i] BY <1>1, <1>3, <3>1, <4>1, Retirement, NoneOutside DEF Beliefs, AllWork
      <4>. QED BY <1>1, <1>3, <4>2
    <3>. QED BY <3>1
  <2>2. PICK x \in Attempts : Inserts(x) BY <1>1, <1>3, <2>1, WhoWrites
  <2>3. Live(x) BY <2>2 DEF Live, Inserts
  <2>4. /\ strategy'[created + 1] = Row(x) /\ \A j \in Ids : j # created + 1 => strategy'[j] = strategy[j]
    BY <2>2, <2>3, Insertion DEF Beliefs, AllWork
  <2>5. i = created + 1 BY <1>1, <1>3, <2>4
  <2>6. agent[x] = a /\ strategy'[i].version = Version(x) BY <1>1, <2>4, <2>5 DEF Row
  <2>. QED BY <2>2, <2>5, <2>6
<1>. QED BY <1>2, <1>3

LEMMA NextRows ==
    ASSUME TypeOK, Fresh, HouseRows, Beliefs, AllWork, [Next]_vars
    PROVE  strategy' \in [Ids -> Rows \cup {None}] /\ created' \in 0 .. MaxCreated /\ Fresh' /\ HouseRows'
<1>. USE DEF Beliefs, AllWork
<1>1. created \in 0 .. MaxCreated /\ MaxCreated \in Nat /\ strategy \in [Ids -> Rows \cup {None}]
  BY Bounded DEF TypeOK
<1>2. CASE strategy' = strategy /\ created' = created BY <1>1, <1>2 DEF Fresh, HouseRows
<1>3. ASSUME NEW x \in Attempts, Inserts(x)
      PROVE  strategy' \in [Ids -> Rows \cup {None}] /\ created' \in 0 .. MaxCreated /\ Fresh' /\ HouseRows'
  <2>1. Live(x) BY <1>3 DEF Live, Inserts
  <2>2. /\ created + 1 \notin House /\ strategy' \in [Ids -> Rows \cup {None}]
        /\ \A i \in Ids : i # created + 1 => strategy'[i] = strategy[i]
    BY <1>3, <2>1, Insertion
  <2>3. created' = created + 1 /\ created' \in 0 .. MaxCreated BY <1>1, <1>3 DEF Inserts
  <2>4. Fresh'
    <3>1. \A i \in Ids \cap Nat : created + 1 < i => i # created + 1 /\ created < i BY <1>1
    <3>. QED BY <2>2, <2>3, <3>1 DEF Fresh
  <2>5. HouseRows' BY <2>2 DEF HouseRows, Ids
  <2>. QED BY <2>2, <2>3, <2>4, <2>5
<1>4. ASSUME NEW x \in Attempts, Retires(x)
      PROVE  strategy' \in [Ids -> Rows \cup {None}] /\ created' \in 0 .. MaxCreated /\ Fresh' /\ HouseRows'
  <2>1. Live(x) BY <1>4 DEF Live, Retires
  <2>2. /\ Old(x) \in Ids /\ Old(x) \notin House /\ strategy' \in [Ids -> Rows \cup {None}]
        /\ \A i \in Ids : i # Old(x) => strategy'[i] = strategy[i]
        /\ Old(x) \in Constructs(agent[x]) /\ agent[x] \in Agents
    BY <1>4, <2>1, Retirement
  <2>3. created' = created BY <1>4 DEF Retires
  <2>4. strategy[Old(x)] # None BY <2>2, Owners
  <2>5. Fresh'
    <3>1. \A i \in Ids \cap Nat : created < i => i # Old(x) BY <2>4 DEF Fresh
    <3>. QED BY <2>2, <2>3, <3>1 DEF Fresh
  <2>6. HouseRows' BY <2>2 DEF HouseRows, Ids
  <2>. QED BY <1>1, <2>2, <2>3, <2>5, <2>6
<1>. QED BY <1>2, <1>3, <1>4, WhoWrites

(* unique(name, version), and a successor comes after its predecessor.     *)
LEMMA NextVersions ==
    ASSUME TypeOK, Fresh, HouseRows, Beliefs, AllWork, [Next]_vars, Single, Dense
    PROVE  Single' /\ Dense'
<1>1. ASSUME NEW a \in Agents, NEW i \in Constructs(a)', NEW j \in Constructs(a)', strategy'[i].version = strategy'[j].version
      PROVE  i = j
  <2>1. ASSUME NEW x \in Attempts, Inserts(x), a = agent[x], NEW k \in Constructs(a) PROVE strategy[k].version # Version(x)
    BY <2>1 DEF Inserts, Taken
  <2>2. CASE i \in Constructs(a) /\ strategy'[i].version = strategy[i].version
    <3>1. CASE j \in Constructs(a) /\ strategy'[j].version = strategy[j].version BY <1>1, <2>2, <3>1 DEF Single
    <3>2. CASE \E x \in Attempts : Inserts(x) /\ a = agent[x] /\ strategy'[j].version = Version(x)
      BY <1>1, <2>1, <2>2, <3>2
    <3>. QED BY <3>1, <3>2, ConstructsGrow
  <2>3. CASE \E x \in Attempts : Inserts(x) /\ a = agent[x] /\ i = created + 1 /\ strategy'[i].version = Version(x)
    <3>1. CASE j \in Constructs(a) /\ strategy'[j].version = strategy[j].version
      BY <1>1, <2>1, <2>3, <3>1
    <3>2. CASE j = created + 1 BY <2>3, <3>2
    <3>. QED BY <3>1, <3>2, ConstructsGrow
  <2>. QED BY <2>2, <2>3, ConstructsGrow
<1>2. ASSUME NEW a \in Agents, NEW i \in Constructs(a)'
      PROVE  /\ strategy'[i].version >= 2
             /\ \A v \in 2 .. strategy'[i].version : \E j \in Constructs(a)' : strategy'[j].version = v
  <2>1. CASE i \in Constructs(a) /\ strategy'[i].version = strategy[i].version
    BY <2>1, ConstructsStay DEF Dense
  <2>2. ASSUME NEW x \in Attempts, Inserts(x), a = agent[x], strategy'[i].version = Version(x)
        PROVE  /\ strategy'[i].version >= 2
               /\ \A v \in 2 .. strategy'[i].version : \E j \in Constructs(a)' : strategy'[j].version = v
    <3>1. Live(x) BY <2>2 DEF Live, Inserts
    <3>2. Old(x) \in Own(a) /\ strategy[Old(x)] \in Rows BY <2>2, <3>1, Insertion DEF Beliefs, AllWork
    <3>3. strategy[Old(x)].version \in Nat /\ Version(x) = strategy[Old(x)].version + 1
      BY <3>2 DEF Rows, Version
    <3>4. strategy[Old(x)].version >= 1
      BY <3>2, <3>3, HouseApart DEF Own, Dense
    <3>5. ASSUME NEW v \in 2 .. strategy[Old(x)].version
          PROVE  \E j \in Constructs(a) : strategy[j].version = v
      BY <3>2, <3>5, HouseApart DEF Own, Dense
    <3>6. \A v \in 2 .. Version(x) : v = Version(x) \/ v \in 2 .. strategy[Old(x)].version BY <3>3
    <3>. QED BY <2>2, <3>3, <3>4, <3>5, <3>6, ConstructsStay
  <2>. QED BY <2>1, <2>2, ConstructsGrow
<1>. QED BY <1>1, <1>2 DEF Single, Dense

(* There is one newest version, and it has no successor after a step       *)
(* unless it had none before.                                              *)
LEMMA OneTip ==
    ASSUME TypeOK, HouseRows, Single, Dense, NEW a \in Agents, NEW i \in Constructs(a), NEW j \in Own(a), Tip(a, i), Tip(a, j)
    PROVE  i = j
<1>1. i \in Ids /\ strategy[i] # None BY Owners
<1>2. strategy[i].version \in Nat /\ strategy[i].version >= 2 BY <1>1, RowTyped DEF Rows, Dense
<1>3. CASE j \in House
  <2>1. strategy[j].version = 1 BY <1>3, HouseApart
  <2>2. \E k \in Constructs(a) : strategy[k].version = 2 BY <1>2 DEF Dense
  <2>. QED BY <2>1, <2>2 DEF Tip
<1>4. CASE j \in Constructs(a)
  <2>1. strategy[j].version \in Nat /\ strategy[j].version >= 2 BY <1>4, Owners, RowTyped DEF Rows, Dense
  <2>2. CASE strategy[i].version < strategy[j].version
    <3>1. strategy[i].version + 1 \in 2 .. strategy[j].version BY <1>2, <2>1, <2>2
    <3>. QED BY <1>4, <3>1 DEF Dense, Tip
  <2>3. CASE strategy[j].version < strategy[i].version
    <3>1. strategy[j].version + 1 \in 2 .. strategy[i].version BY <1>2, <2>1, <2>3
    <3>. QED BY <1>4, <3>1 DEF Dense, Tip
  <2>. QED BY <1>2, <1>4, <2>1, <2>2, <2>3 DEF Single
<1>. QED BY <1>3, <1>4 DEF Own

LEMMA TipsPass ==
    ASSUME TypeOK, Fresh, HouseRows, Beliefs, AllWork, [Next]_vars, NEW a \in Agents, NEW i \in Own(a), Tip(a, i)'
    PROVE  Tip(a, i)
<1>1. strategy'[i].version = strategy[i].version
  <2>1. i \in Ids /\ strategy[i] # None BY HouseApart, Owners DEF Own
  <2>. QED BY <2>1, RowsStay
<1>2. \A j \in Constructs(a) : j \in Constructs(a)' /\ strategy'[j].version = strategy[j].version
  BY ConstructsStay
<1>. QED BY <1>1, <1>2 DEF Tip

(***************************************************************************)
(* The slots.                                                              *)
(***************************************************************************)
LEMMA OwnExists ==
    ASSUME TypeOK, HouseRows, NEW a \in Agents, NEW i \in Own(a)
    PROVE  i \in Ids /\ strategy[i] # None /\ strategy[i] \in Rows /\ (i \in House \/ i \in Constructs(a))
BY HouseApart, Owners, RowTyped DEF Own

(* A slot of one strategy.                                                 *)
LEMMA TheIncumbent ==
    ASSUME NEW S, IsFiniteSet(S), Incumbent(S) # None PROVE S = {Incumbent(S)}
<1>1. Cardinality(S) = 1 BY DEF Incumbent
<1>2. \E m : S = {m} BY <1>1, FS_Singleton
<1>. QED BY <1>1, <1>2 DEF Incumbent

(* What an adoption replaces the slot by.                                  *)
LEMMA Adoption ==
    ASSUME TypeOK, HouseRows, Beliefs, AllWork, Adoptions, Slots, NEW x \in Attempts, SwapCommit(x)
    PROVE  /\ agent[x] \in Agents /\ new[x] \in Constructs(agent[x]) /\ new[x] # Old(x)
           /\ slots' = [slots EXCEPT ![agent[x]] = Swapped(x)]
           /\ Swapped(x) \subseteq House \cup {new[x]} /\ IsFiniteSet(Swapped(x))
           /\ reseeds = 0 => Swapped(x) = {new[x]}
           /\ Live(x) /\ Tip(agent[x], new[x]) /\ Unknown(x)
           /\ UNCHANGED <<strategy, reseeds, incumbent>>
<1>1. pc[x] = "swap" /\ slots' = [slots EXCEPT ![agent[x]] = Swapped(x)] /\ UNCHANGED <<strategy, reseeds, incumbent>>
  BY DEF SwapCommit, Step, bounds
<1>2. Works(x) /\ Pending(x) /\ Live(x) /\ Believes(x) BY <1>1 DEF AllWork, Adoptions, Beliefs, Live
<1>3. agent[x] \in Agents /\ Old(x) # None /\ new[x] \in Constructs(agent[x]) /\ strategy[new[x]].version = Version(x)
  BY <1>1, <1>2 DEF Works, Evolving, Created
<1>4. Old(x) \in Own(agent[x]) BY <1>2, <1>3 DEF Believes, Old
<1>5. strategy[Old(x)] \in Rows BY <1>3, <1>4, OwnExists
<1>6. new[x] # Old(x) BY <1>3, <1>5 DEF Version, Rows
<1>7. Held(ids[x], Old(x)) BY <1>1, <1>2 DEF Pending
<1>8. IsFiniteSet(ids[x]) BY DEF Slots
<1>9. IsFiniteSet(Swapped(x))
  <2>1. IsFiniteSet(ids[x] \ {Old(x)}) BY <1>8, FS_Subset
  <2>. QED BY <2>1, FS_AddElement DEF Swapped
<1>10. Tip(agent[x], new[x]) /\ Unknown(x) BY <1>1, <1>2 DEF Pending, Adopting
<1>. QED BY <1>1, <1>2, <1>3, <1>6, <1>7, <1>9, <1>10 DEF Held, Swapped

LEMMA Reseeding ==
    ASSUME Slots, SeedWrite, NEW a \in Agents
    PROVE  /\ slots'[a] = slots[a] \/ \E h \in House : slots'[a] = {h}
           /\ reseeds > 0 /\ UNCHANGED <<strategy, reseeds, incumbent>>
BY DEF Slots, SeedWrite, Reseeded, bounds, locals

LEMMA IdsRead ==
    ASSUME TypeOK, [Next]_vars
    PROVE  /\ ids' = ids \/ \E x \in Attempts : SwapRead(x) /\ ids' = [ids EXCEPT ![x] = slots[agent[x]]]
           /\ (seed' = seed /\ reseeds' = reseeds) \/ SeedRead \/ SeedWrite
<1>1. CASE UNCHANGED vars BY <1>1 DEF vars, locals, bounds
<1>2. ASSUME NEW r \in Runs, StartCycle(r) \/ Retry(r) \/ FailCycle(r)
      PROVE ids' = ids /\ seed' = seed /\ reseeds' = reseeds
  BY <1>2 DEF StartCycle, Retry, FailCycle, Begin, locals
<1>3. ASSUME NEW x \in Attempts,
             \/ Crash(x) \/ Finish(x) \/ Reason(x) \/ CreateRefused(x) \/ SwapCommit(x) \/ Record(x)
             \/ Create(x) \/ CreateTimesOut(x) \/ Retire(x)
             \/ \E a \in Agents : Skip(x, a) \/ Consider(x, a)
      PROVE  ids' = ids /\ seed' = seed /\ reseeds' = reseeds
  BY <1>3 DEF Crash, Finish, Reason, CreateRefused, SwapCommit, Record, Create, CreateTimesOut, Retire, Insert,
     Skip, Consider, Pick, bounds
<1>4. ASSUME NEW x \in Attempts, SwapRead(x)
      PROVE  SwapRead(x) /\ ids' = [ids EXCEPT ![x] = slots[agent[x]]] /\ seed' = seed /\ reseeds' = reseeds
  BY <1>4 DEF SwapRead, bounds
<1>5. CASE SeedRead \/ SeedWrite \/ DayPasses BY <1>5 DEF SeedRead, SeedWrite, DayPasses, locals, bounds
<1>. QED BY <1>1, <1>2, <1>3, <1>4, <1>5 DEF Next

LEMMA NextSlots ==
    ASSUME TypeOK, Fresh, HouseRows, Beliefs, AllWork, Adoptions, Slots, [Next]_vars
    PROVE  Slots' /\ slots' \in [Agents -> SUBSET Ids]
<1>1. slots \in [Agents -> SUBSET Ids] /\ House \subseteq Ids BY DEF TypeOK, Ids
<1>2. reseeds \in Nat /\ reseeds' \in Nat /\ (reseeds' = 0 => reseeds = 0) BY WhoSlots
<1>3. ASSUME NEW a \in Agents
      PROVE  /\ slots'[a] \subseteq Own(a)' /\ IsFiniteSet(slots'[a])
             /\ reseeds' = 0 => \E i \in Ids : slots'[a] = {i}
  <2>1. slots[a] \subseteq Own(a) /\ IsFiniteSet(slots[a]) /\ (reseeds = 0 => \E i \in Ids : slots[a] = {i})
    BY DEF Slots
  <2>2. Own(a) \subseteq Own(a)' BY ConstructsStay
  <2>3. CASE slots'[a] = slots[a] BY <1>2, <2>1, <2>2, <2>3
  <2>4. CASE SeedWrite
    <3>1. slots'[a] = slots[a] \/ \E h \in House : slots'[a] = {h} BY <2>4, Reseeding
    <3>2. reseeds' # 0 BY <1>2, <2>4, Reseeding
    <3>3. \A h : IsFiniteSet({h}) BY FS_Singleton
    <3>4. House \subseteq Own(a)' BY DEF Own
    <3>. QED BY <2>1, <2>2, <3>1, <3>2, <3>3, <3>4
  <2>5. ASSUME NEW x \in Attempts, SwapCommit(x), slots'[a] # slots[a]
        PROVE  /\ slots'[a] \subseteq Own(a)' /\ IsFiniteSet(slots'[a])
               /\ reseeds' = 0 => \E i \in Ids : slots'[a] = {i}
    <3>1. slots'[a] = Swapped(x) /\ a = agent[x] BY <1>1, <2>5, Adoption
    <3>2. new[x] \in Constructs(a) /\ new[x] \in Ids BY <2>5, <3>1, Adoption, Owners
    <3>. QED BY <1>2, <2>2, <2>5, <3>1, <3>2, Adoption DEF Own
  <2>. QED BY <2>3, <2>4, <2>5, WhoSlots
<1>4. slots' \in [Agents -> SUBSET Ids]
  <2>1. CASE slots' = slots BY <1>1, <2>1
  <2>2. CASE SeedWrite
    <3>1. PICK h \in House : slots' = [a \in Agents |-> Reseeded(slots[a], h)] BY <2>2 DEF SeedWrite
    <3>. QED BY <1>1, <3>1 DEF Reseeded
  <2>3. ASSUME NEW x \in Attempts, SwapCommit(x) PROVE slots' \in [Agents -> SUBSET Ids]
    <3>1. new[x] \in Ids /\ Swapped(x) \subseteq Ids BY <1>1, <2>3, Adoption, Owners
    <3>. QED BY <1>1, <2>3, <3>1, Adoption
  <2>. QED BY <2>1, <2>2, <2>3, WhoSlots
<1>5. \A x \in Attempts : IsFiniteSet(ids'[x])
  <2>1. CASE ids' = ids BY <2>1 DEF Slots
  <2>2. ASSUME NEW x \in Attempts, SwapRead(x), ids' = [ids EXCEPT ![x] = slots[agent[x]]]
        PROVE  \A y \in Attempts : IsFiniteSet(ids'[y])
    <3>1. agent[x] \in Agents BY <2>2 DEF AllWork, Works, Evolving, SwapRead, Step
    <3>2. ids \in [Attempts -> SUBSET Ids] BY DEF TypeOK
    <3>. QED BY <2>2, <3>1, <3>2 DEF Slots
  <2>. QED BY <2>1, <2>2, IdsRead
<1>6. seed' # None => reseeds' > 0
  <2>1. CASE seed' = seed /\ reseeds' = reseeds BY <2>1 DEF Slots
  <2>2. CASE SeedRead BY <1>2, <2>2 DEF SeedRead
  <2>3. CASE SeedWrite BY <2>3 DEF SeedWrite
  <2>. QED BY <2>1, <2>2, <2>3, IdsRead
<1>. QED BY <1>3, <1>4, <1>5, <1>6 DEF Slots

(* No step overwrites the slot of an agent whose newest version is i,      *)
(* unless it adopts i.                                                     *)
LEMMA HeldStays ==
    ASSUME TypeOK, HouseRows, Single, Dense, Beliefs, AllWork, Adoptions, Slots, [Next]_vars,
           NEW a \in Agents, NEW i, Held(slots[a], i),
           \A x \in Attempts : SwapCommit(x) => agent[x] # a
    PROVE  slots'[a] \subseteq House \cup {i} /\ (reseeds' = 0 => slots'[a] = {i})
<1>1. reseeds \in Nat /\ reseeds' \in Nat /\ (reseeds' = 0 => reseeds = 0) BY WhoSlots
<1>2. slots[a] \subseteq House \cup {i} /\ (reseeds = 0 => slots[a] = {i}) BY DEF Held
<1>3. CASE slots'[a] = slots[a] BY <1>1, <1>2, <1>3
<1>4. CASE SeedWrite BY <1>1, <1>2, <1>4, Reseeding
<1>5. ASSUME NEW x \in Attempts, SwapCommit(x) PROVE slots'[a] = slots[a]
  BY <1>5, Adoption DEF TypeOK
<1>. QED BY <1>3, <1>4, <1>5, WhoSlots

(* Who adopts knows the newest version, which nobody else does.            *)
LEMMA AdoptsAlone ==
    ASSUME TypeOK, HouseRows, Single, Dense, Beliefs, AllWork, Adoptions, Slots,
           NEW x \in Attempts, SwapCommit(x), NEW i \in Own(agent[x]), Tip(agent[x], i)
    PROVE  i = new[x]
BY Adoption, OneTip

LEMMA NextBeliefs ==
    ASSUME TypeOK, Fresh, HouseRows, Single, Dense, Beliefs, AllWork, Adoptions, Slots, [Next]_vars
    PROVE  Beliefs'
<1>. SUFFICES ASSUME NEW x \in Attempts, Live(x)' PROVE Believes(x)' BY DEF Beliefs
<1>1. CASE Live(x) /\ incumbent'[x] = incumbent[x]
  <2>1. Believes(x) BY <1>1 DEF Beliefs
  <2>2. ASSUME NEW a \in Agents, incumbent[x][a] # None
        PROVE  /\ incumbent[x][a] \in Own(a)'
               /\ Tip(a, incumbent[x][a])' => /\ slots'[a] \subseteq House \cup {incumbent[x][a]}
                                              /\ reseeds' = 0 => slots'[a] = {incumbent[x][a]}
    <3>. DEFINE i == incumbent[x][a]
    <3>1. i \in Own(a) /\ (Tip(a, i) => Held(slots[a], i)) BY <2>1, <2>2 DEF Believes
    <3>2. i \in Own(a)' BY <3>1, ConstructsStay
    <3>3. ASSUME NEW j \in Own(a), j = i, Tip(a, j)'
          PROVE  slots'[a] \subseteq House \cup {j} /\ (reseeds' = 0 => slots'[a] = {j})
      <4>1. Tip(a, j) BY <3>3, TipsPass
      <4>2. ASSUME NEW y \in Attempts, SwapCommit(y), agent[y] = a PROVE FALSE
        <5>1. j = new[y] BY <4>1, <4>2, AdoptsAlone
        <5>2. Unknown(y) BY <4>2, Adoption
        <5>. QED BY <1>1, <3>3, <4>2, <5>1, <5>2 DEF Unknown
      <4>3. Held(slots[a], j) BY <3>1, <3>3, <4>1
      <4>. QED BY <4>2, <4>3, HeldStays
    <3>4. Tip(a, i)' => \A j : j = i => Tip(a, j)'
      BY <1>1 DEF Tip
    <3>. QED BY <3>1, <3>2, <3>3, <3>4
  <2>3. incumbent[x] \in [Agents -> Ids \cup {None}] BY <2>1 DEF Believes
  <2>. HIDE DEF Beliefs, AllWork, Adoptions
  <2>. QED BY <1>1, <2>2, <2>3 DEF Believes, Held, Tip
<1>2. CASE incumbent'[x] = [a \in Agents |-> Incumbent(slots[a])] /\ UNCHANGED <<strategy, slots, reseeds>>
  <2>1. ASSUME NEW a \in Agents
        PROVE  /\ Incumbent(slots[a]) \in Ids \cup {None}
               /\ Incumbent(slots[a]) # None => Incumbent(slots[a]) \in Own(a) /\ slots[a] = {Incumbent(slots[a])}
    <3>1. slots[a] \subseteq Own(a) /\ IsFiniteSet(slots[a]) BY DEF Slots
    <3>2. Incumbent(slots[a]) # None => slots[a] = {Incumbent(slots[a])} BY <3>1, TheIncumbent
    <3>. QED BY <3>1, <3>2, OwnExists
  <2>2. \A a \in Agents : Own(a)' = Own(a) BY <1>2 DEF Own, Constructs
  <2>. QED BY <1>2, <2>1, <2>2 DEF Believes, Held
<1>. QED BY <1>1, <1>2, WhoLives

LEMMA NextWorks ==
    ASSUME TypeOK, Fresh, HouseRows, Beliefs, AllWork, [Next]_vars
    PROVE  AllWork'
<1>. SUFFICES ASSUME NEW x \in Attempts
              PROVE  /\ pc'[x] \in Evolving => agent'[x] \in Agents /\ incumbent'[x][agent'[x]] # None
                     /\ pc'[x] \in Created => /\ new'[x] \in Constructs(agent[x])'
                                              /\ strategy'[new'[x]].version = Version(x)'
  BY DEF AllWork, Works, Old
<1>1. ASSUME pc'[x] \in Evolving PROVE agent'[x] \in Agents /\ incumbent'[x][agent'[x]] # None
  BY <1>1, WhoEvolves DEF AllWork, Works, Old
<1>2. ASSUME pc'[x] \in Created
      PROVE  new'[x] \in Constructs(agent[x])' /\ strategy'[new'[x]].version = Version(x)'
  <2>1. agent'[x] = agent[x] /\ incumbent'[x] = incumbent[x] BY <1>2, WhoCreated
  <2>2. pc[x] \in Evolving /\ Live(x) /\ Works(x)
    BY <1>2, WhoCreated DEF Created, Evolving, Live, Inserts, AllWork
  <2>3. agent[x] \in Agents /\ Old(x) # None /\ Old(x) \in Own(agent[x])
    BY <2>2 DEF Works, Beliefs, Believes, Old
  <2>4. Version(x)' = Version(x)
    <3>1. strategy'[Old(x)].version = strategy[Old(x)].version BY <2>3, OwnExists, RowsStay
    <3>. QED BY <2>1, <3>1 DEF Version, Old
  <2>5. CASE pc[x] \in Created /\ new'[x] = new[x]
    <3>1. new[x] \in Constructs(agent[x]) /\ strategy[new[x]].version = Version(x) BY <2>2, <2>5 DEF Works
    <3>2. new[x] \in Ids /\ strategy[new[x]] # None BY <2>3, <3>1, Owners
    <3>3. /\ strategy'[new[x]] # None /\ strategy'[new[x]].owner = agent[x]
          /\ strategy'[new[x]].version = Version(x)
      BY <2>3, <3>1, <3>2, RowsStay, Owners
    <3>. QED BY <2>1, <2>4, <2>5, <3>2, <3>3 DEF Constructs
  <2>6. CASE Inserts(x) /\ new'[x] = created + 1
    <3>1. /\ created + 1 \in Ids /\ strategy'[created + 1] = Row(x) /\ Row(x) \in Rows
      BY <2>2, <2>6, Insertion DEF Beliefs
    <3>2. Row(x).owner = agent[x] /\ Row(x).version = Version(x) /\ Row(x) # None BY <3>1, NoneOutside DEF Row
    <3>. QED BY <2>1, <2>4, <2>6, <3>1, <3>2 DEF Constructs
  <2>. QED BY <1>2, <2>5, <2>6, WhoCreated DEF Created
<1>. QED BY <1>1, <1>2

(* The newest version stays the newest while it is not adopted.            *)
LEMMA PendingTip ==
    ASSUME TypeOK, Fresh, HouseRows, Single, Dense, Beliefs, AllWork, Adoptions, [Next]_vars,
           NEW x \in Attempts, pc[x] \in Adopting, NEW n, n = new[x], NEW a, a = agent[x]
    PROVE  Tip(a, n)'
<1>1. a \in Agents /\ n \in Constructs(a) /\ Tip(a, n) /\ Unknown(x)
  BY DEF AllWork, Works, Adoptions, Pending, Adopting, Created, Evolving
<1>2. n \in Ids /\ strategy[n] # None /\ n \in Own(a)' /\ strategy'[n].version = strategy[n].version
  BY <1>1, Owners, ConstructsStay DEF Own
<1>3. ASSUME NEW y \in Attempts, Inserts(y), agent[y] = a, Version(y) = strategy[n].version + 1 PROVE FALSE
  <2>1. Live(y) /\ Believes(y) /\ Works(y) BY <1>3 DEF Live, Inserts, Beliefs, AllWork
  <2>2. Old(y) \in Own(a) /\ strategy[Old(y)] \in Rows BY <1>3, <2>1, Insertion
  <2>3. strategy[n] \in Rows BY <1>2, RowTyped
  <2>4. strategy[Old(y)].version = strategy[n].version BY <1>3, <2>2, <2>3 DEF Version, Rows
  <2>5. Old(y) \in Constructs(a)
    <3>1. strategy[n].version >= 2 BY <1>1 DEF Dense
    <3>. QED BY <2>2, <2>4, <3>1, HouseApart, <1>1 DEF Own
  <2>6. Old(y) = n BY <1>1, <2>4, <2>5 DEF Single
  <2>. QED BY <1>1, <1>3, <2>1, <2>6 DEF Unknown, Old
<1>4. ASSUME NEW j \in Constructs(a)' PROVE strategy'[j].version # strategy'[n].version + 1
  BY <1>1, <1>2, <1>3, ConstructsGrow DEF Tip
<1>. QED BY <1>2, <1>4 DEF Tip

(* And unknown to the others.                                              *)
LEMMA PendingUnknown ==
    ASSUME TypeOK, Fresh, HouseRows, Single, Dense, Beliefs, AllWork, Adoptions, Slots, [Next]_vars,
           NEW x \in Attempts, pc[x] \in Adopting, NEW n, n = new[x], NEW a, a = agent[x]
    PROVE  /\ \A y \in Attempts : Live(y)' => incumbent'[y][a] # n
           /\ \A y \in Attempts : pc'[y] \in Adopting /\ new'[y] = n => y = x
<1>1. /\ a \in Agents /\ n \in Constructs(a) /\ Unknown(x) /\ Held(slots[a], Old(x)) /\ Old(x) # None
      /\ strategy[n].version = Version(x)
  BY DEF AllWork, Works, Adoptions, Pending, Adopting, Created, Evolving
<1>2. n \in Ids /\ strategy[n] # None /\ n \notin House BY <1>1, Owners, HouseApart
<1>3. n # Old(x)
  <2>1. Live(x) BY DEF Live, Adopting
  <2>2. strategy[Old(x)] \in Rows BY <1>1, <2>1, OwnExists DEF Beliefs, Believes, Old
  <2>. QED BY <1>1, <2>2 DEF Version, Rows
<1>4. ASSUME NEW y \in Attempts, Live(y)' PROVE incumbent'[y][a] # n
  <2>1. CASE Live(y) /\ incumbent'[y] = incumbent[y] BY <1>1, <2>1 DEF Unknown
  <2>2. CASE incumbent'[y] = [b \in Agents |-> Incumbent(slots[b])]
    <3>1. IsFiniteSet(slots[a]) BY <1>1 DEF Slots
    <3>2. Incumbent(slots[a]) # None => slots[a] = {Incumbent(slots[a])} BY <3>1, TheIncumbent
    <3>3. n \notin slots[a] BY <1>1, <1>2, <1>3 DEF Held
    <3>4. n # None BY <1>2, NoneOutside
    <3>. QED BY <1>1, <2>2, <3>2, <3>3, <3>4
  <2>. QED BY <1>4, <2>1, <2>2, WhoLives
<1>5. ASSUME NEW y \in Attempts, pc'[y] \in Adopting, new'[y] = n PROVE y = x
  <2>1. CASE pc[y] \in Adopting /\ new'[y] = new[y] BY <1>1, <1>5, <2>1 DEF Unknown
  <2>2. CASE Inserts(y) /\ new'[y] = created + 1
    <3>1. Live(y) BY <2>2 DEF Live, Inserts
    <3>2. strategy[created + 1] = None BY <2>2, <3>1, Insertion DEF Beliefs, AllWork
    <3>. QED BY <1>2, <1>5, <2>2, <3>2
  <2>. QED BY <1>5, <2>1, <2>2, WhoCreated DEF Adopting, Created
<1>. QED BY <1>4, <1>5

(* Nobody else adopts for the same agent.                                  *)
LEMMA PendingHeld ==
    ASSUME TypeOK, HouseRows, Single, Dense, Beliefs, AllWork, Adoptions, Slots, [Next]_vars,
           NEW x \in Attempts, pc[x] \in Adopting, ~SwapCommit(x), NEW o, o = Old(x), NEW a, a = agent[x]
    PROVE  slots'[a] \subseteq House \cup {o} /\ (reseeds' = 0 => slots'[a] = {o})
<1>1. /\ a \in Agents /\ new[x] \in Constructs(a) /\ Tip(a, new[x]) /\ Held(slots[a], o)
  BY DEF AllWork, Works, Adoptions, Pending, Adopting, Created, Evolving
<1>2. ASSUME NEW y \in Attempts, SwapCommit(y), agent[y] = a PROVE FALSE
  <2>1. new[x] \in Own(agent[y]) /\ Tip(agent[y], new[x]) BY <1>1, <1>2 DEF Own
  <2>2. new[x] = new[y] BY <1>2, <2>1, AdoptsAlone
  <2>3. Unknown(y) BY <1>2, Adoption
  <2>. QED BY <1>2, <2>2, <2>3 DEF Unknown
<1>. QED BY <1>1, <1>2, HeldStays

(* The first moment of a version.                                          *)
LEMMA Inserted ==
    ASSUME TypeOK, Fresh, HouseRows, Single, Dense, Beliefs, AllWork, Adoptions, Slots, [Next]_vars,
           NEW x \in Attempts, Inserts(x), NEW n, n = created + 1, NEW a, a = agent[x]
    PROVE  /\ Tip(a, n)'
           /\ \A y \in Attempts : Live(y)' => incumbent'[y][a] # n
           /\ \A y \in Attempts : pc'[y] \in Adopting /\ new'[y] = n => y = x
           /\ Held(slots[a], Old(x))
<1>1. Live(x) /\ Works(x) /\ Believes(x) BY DEF Live, Inserts, AllWork, Beliefs
<1>2. /\ a \in Agents /\ Old(x) \in Own(a) /\ strategy[Old(x)] \in Rows /\ n \in Ids /\ strategy[n] = None
      /\ strategy'[n] = Row(x) /\ Row(x) \in Rows /\ Version(x) \in Nat
  BY <1>1, Insertion
<1>3. Version(x) = strategy[Old(x)].version + 1 /\ strategy[Old(x)].version \in Nat /\ Version(x) >= 2
  <2>1. Version(x) = strategy[Old(x)].version + 1 /\ strategy[Old(x)].version \in Nat
    BY <1>2 DEF Version, Rows
  <2>2. CASE Old(x) \in House BY <2>1, <2>2, <1>2, HouseApart
  <2>3. CASE Old(x) \in Constructs(a)
    <3>1. strategy[Old(x)].version >= 2 BY <1>2, <2>3 DEF Dense
    <3>. QED BY <2>1, <3>1
  <2>. QED BY <1>2, <2>1, <2>2, <2>3 DEF Own
<1>4. \A j \in Constructs(a) : strategy[j].version # Version(x) BY DEF Inserts, Taken
<1>5. Row(x).owner = a /\ Row(x).version = Version(x) /\ Row(x) # None BY <1>2, NoneOutside DEF Row
<1>6. n \in Constructs(a)' BY <1>2, <1>5 DEF Constructs
<1>7. ASSUME NEW j \in Constructs(a)', strategy'[j].version = Version(x) + 1 PROVE FALSE
  <2>1. CASE j \in Constructs(a) /\ strategy'[j].version = strategy[j].version
    <3>1. Version(x) \in 2 .. strategy[j].version BY <1>3, <1>7, <2>1
    <3>. QED BY <1>2, <1>4, <2>1, <3>1 DEF Dense
  <2>2. CASE j = n BY <1>2, <1>3, <1>5, <1>7, <2>2
  <2>. QED BY <1>2, <2>1, <2>2, ConstructsGrow
<1>8. Tip(a, n)' BY <1>2, <1>5, <1>6, <1>7 DEF Tip, Own
<1>9. ASSUME NEW y \in Attempts, Live(y)' PROVE incumbent'[y][a] # n
  <2>1. CASE Live(y) /\ incumbent'[y] = incumbent[y]
    <3>1. Believes(y) BY <2>1 DEF Beliefs
    <3>2. n # None BY <1>2, NoneOutside
    <3>. QED BY <1>2, <2>1, <3>1, <3>2, OwnExists DEF Believes
  <2>2. CASE strategy' = strategy BY <1>2, <1>5, <2>2
  <2>. QED BY <1>9, <2>1, <2>2, WhoLives
<1>10. ASSUME NEW y \in Attempts, pc'[y] \in Adopting, new'[y] = n, y # x PROVE FALSE
  <2>1. pc'[y] = pc[y] /\ new'[y] = new[y] BY <1>10 DEF Inserts, TypeOK
  <2>2. pc[y] \in Created /\ pc[y] \in Evolving BY <1>10, <2>1 DEF Adopting, Created, Evolving
  <2>3. agent[y] \in Agents /\ n \in Constructs(agent[y]) BY <1>10, <2>1, <2>2 DEF AllWork, Works
  <2>. QED BY <1>2, <2>3, Owners
<1>11. Held(slots[a], Old(x))
  <2>1. Tip(a, Old(x)) BY <1>2, <1>3, <1>4 DEF Tip
  <2>2. Old(x) # None BY <1>1 DEF Works, Evolving, Inserts
  <2>. QED BY <1>1, <1>2, <2>1, <2>2 DEF Believes, Old
<1>. QED BY <1>8, <1>9, <1>10, <1>11

LEMMA NextAdoptions ==
    ASSUME TypeOK, Fresh, HouseRows, Single, Dense, Beliefs, AllWork, Adoptions, Slots, [Next]_vars
    PROVE  Adoptions'
<1>. SUFFICES ASSUME NEW x \in Attempts PROVE Pending(x)' BY DEF Adoptions
<1>1. reseeds \in Nat /\ reseeds' \in Nat /\ (reseeds' = 0 => reseeds = 0) BY WhoSlots
<1>2. CASE pc[x] \in Adopting /\ pc'[x] \in Adopting
  <2>0. PICK a, n, o : a = agent[x] /\ n = new[x] /\ o = Old(x) OBVIOUS
  <2>1. ~SwapCommit(x)
    <3>1. SwapCommit(x) => pc'[x] = "retire" BY DEF SwapCommit, Step, Goto, TypeOK
    <3>. QED BY <1>2, <3>1 DEF Adopting
  <2>2. /\ agent'[x] = a /\ incumbent'[x] = incumbent[x] /\ new'[x] = n
        /\ \/ pc'[x] = pc[x] /\ ids'[x] = ids[x]
           \/ pc'[x] = "swap" /\ ids'[x] = slots[a]
    BY <1>2, <2>0, <2>1, WhoCreated DEF Adopting, Created, Inserts
  <2>3. Tip(a, n)' BY <1>2, <2>0, PendingTip
  <2>4. /\ \A y \in Attempts : Live(y)' => incumbent'[y][a] # n
        /\ \A y \in Attempts : pc'[y] \in Adopting /\ new'[y] = n => y = x
    BY <1>2, <2>0, PendingUnknown
  <2>5. slots'[a] \subseteq House \cup {o} /\ (reseeds' = 0 => slots'[a] = {o})
    BY <1>2, <2>0, <2>1, PendingHeld
  <2>6. Old(x)' = o BY <2>0, <2>2 DEF Old
  <2>7. Held(slots[a], o) /\ (pc[x] = "swap" => Held(ids[x], o))
    BY <1>2, <2>0 DEF Adoptions, Pending
  <2>8. pc'[x] = "swap" => ids'[x] \subseteq House \cup {o} /\ (reseeds' = 0 => ids'[x] = {o})
    BY <1>1, <2>2, <2>7 DEF Held
  <2>9. Tip(agent[x], new[x])'
    BY <2>2, <2>3 DEF Tip, Own, Constructs
  <2>10. Unknown(x)' BY <2>2, <2>4 DEF Unknown
  <2>11. Held(slots[agent[x]], Old(x))' BY <2>2, <2>5, <2>6 DEF Held
  <2>12. pc'[x] = "swap" => Held(ids[x], Old(x))' BY <2>6, <2>8 DEF Held
  <2>. QED BY <1>2, <2>9, <2>10, <2>11, <2>12 DEF Pending, Adopting
<1>3. CASE Inserts(x) /\ pc'[x] = "read" /\ new'[x] = created + 1
  <2>0. PICK a, n, o : a = agent[x] /\ n = created + 1 /\ o = Old(x) OBVIOUS
  <2>1. /\ Tip(a, n)'
        /\ \A y \in Attempts : Live(y)' => incumbent'[y][a] # n
        /\ \A y \in Attempts : pc'[y] \in Adopting /\ new'[y] = n => y = x
        /\ Held(slots[a], o)
    BY <1>3, <2>0, Inserted
  <2>2. agent' = agent /\ incumbent' = incumbent /\ slots' = slots /\ reseeds' = reseeds BY <1>3 DEF Inserts
  <2>3. Tip(agent[x], new[x])' BY <1>3, <2>0, <2>1, <2>2 DEF Tip, Own, Constructs
  <2>4. Unknown(x)' BY <1>3, <2>0, <2>1, <2>2 DEF Unknown
  <2>5. Held(slots[agent[x]], Old(x))' BY <2>0, <2>1, <2>2 DEF Held, Old
  <2>. QED BY <1>3, <2>3, <2>4, <2>5 DEF Pending
<1>4. CASE pc'[x] = "retire"
  <2>1. agent'[x] = agent[x] /\ incumbent'[x] = incumbent[x] BY <1>4, WhoCreated DEF Created
  <2>2. Old(x)' = Old(x) BY <2>1 DEF Old
  <2>3. CASE SwapCommit(x)
    <3>1. slots'[agent[x]] = Swapped(x) BY <2>3, Adoption DEF TypeOK
    <3>2. Old(x) \in House \/ Old(x) \notin Swapped(x) BY <2>3, Adoption
    <3>. QED BY <1>4, <2>1, <2>2, <3>1, <3>2 DEF Pending, Adopting
  <2>4. CASE pc[x] = "retire"
    <3>. DEFINE a == agent[x]
    <3>1. /\ a \in Agents /\ (Old(x) \in House \/ Old(x) \notin slots[a]) /\ Live(x)
      BY <2>4 DEF AllWork, Works, Adoptions, Pending, Evolving, Live
    <3>2. CASE slots' = slots BY <1>4, <2>1, <2>2, <3>1, <3>2 DEF Pending, Adopting
    <3>3. CASE SeedWrite
      <4>1. slots'[a] = slots[a] \/ \E h \in House : slots'[a] = {h} BY <3>1, <3>3, Reseeding
      <4>. QED BY <1>4, <2>1, <2>2, <3>1, <4>1 DEF Pending, Adopting
    <3>4. ASSUME NEW y \in Attempts, SwapCommit(y) PROVE Old(x) \in House \/ Old(x) \notin slots'[a]
      <4>1. CASE agent[y] # a BY <3>1, <3>4, <4>1, Adoption DEF TypeOK
      <4>2. CASE agent[y] = a
        <5>1. slots'[a] = Swapped(y) BY <3>1, <3>4, <4>2, Adoption DEF TypeOK
        <5>2. Old(x) # new[y]
          <6>1. Unknown(y) BY <3>4, Adoption
          <6>. QED BY <3>1, <4>2, <6>1 DEF Unknown, Old
        <5>. QED BY <3>4, <5>1, <5>2, Adoption
      <4>. QED BY <4>1, <4>2
    <3>5. Old(x) \in House \/ Old(x) \notin slots'[a] BY <3>1, <3>2, <3>3, <3>4, Reseeding, WhoSlots
    <3>. QED BY <1>4, <2>1, <2>2, <3>5 DEF Pending, Adopting
  <2>. QED BY <1>4, <2>3, <2>4, WhoCreated DEF Created
<1>5. CASE pc'[x] \notin Created BY <1>5 DEF Pending, Adopting, Created
<1>. QED BY <1>2, <1>3, <1>4, <1>5, WhoCreated DEF Adopting, Created

LEMMA NextRetired ==
    ASSUME TypeOK, Fresh, HouseRows, Single, Dense, Beliefs, AllWork, Adoptions, Slots, [Next]_vars,
           RetiredIsSuperseded
    PROVE  RetiredIsSuperseded'
<1>. SUFFICES ASSUME NEW a \in Agents, NEW i \in Constructs(a)', strategy'[i].status = "retired"
              PROVE  i \notin slots'[a] /\ \E j \in Constructs(a)' : strategy'[j].version = strategy'[i].version + 1
  BY DEF RetiredIsSuperseded
<1>1. i \in Constructs(a) /\ strategy'[i].version = strategy[i].version
  <2>1. ASSUME NEW x \in Attempts, Inserts(x), i = created + 1 PROVE FALSE
    <3>1. Live(x) BY <2>1 DEF Live, Inserts
    <3>2. strategy'[i] = Row(x) BY <2>1, <3>1, Insertion DEF Beliefs, AllWork
    <3>. QED BY <3>2 DEF Row
  <2>. QED BY <2>1, ConstructsGrow
<1>2. i \in Ids /\ i \notin House /\ strategy[i] # None BY <1>1, Owners, HouseApart
<1>3. CASE strategy[i].status = "retired"
  <2>1. PICK j \in Constructs(a) : strategy[j].version = strategy[i].version + 1
    BY <1>1, <1>3 DEF RetiredIsSuperseded
  <2>2. i \notin slots[a] BY <1>1, <1>3 DEF RetiredIsSuperseded
  <2>3. SeedWrite => i \notin slots'[a]
    <3>1. SeedWrite => slots'[a] = slots[a] \/ \E h \in House : slots'[a] = {h} BY Reseeding
    <3>. QED BY <1>2, <2>2, <3>1
  <2>4. ASSUME NEW y \in Attempts, SwapCommit(y) PROVE i \notin slots'[a]
    <3>1. CASE agent[y] # a BY <2>2, <2>4, <3>1, Adoption DEF TypeOK
    <3>2. CASE agent[y] = a
      <4>1. slots'[a] = Swapped(y) BY <2>4, <3>2, Adoption DEF TypeOK
      <4>2. i # new[y] BY <2>1, <2>4, <3>2, Adoption DEF Tip
      <4>. QED BY <1>2, <2>4, <4>1, <4>2, Adoption
    <3>. QED BY <3>1, <3>2
  <2>5. i \notin slots'[a] BY <2>2, <2>3, <2>4, WhoSlots
  <2>. QED BY <1>1, <2>1, <2>5, ConstructsStay
<1>4. CASE strategy[i].status # "retired"
  <2>1. ~\E x \in Attempts : Inserts(x)
    <3>1. ASSUME NEW x \in Attempts, Inserts(x) PROVE FALSE
      <4>1. Live(x) BY <3>1 DEF Live, Inserts
      <4>2. i # created + 1 => strategy'[i] = strategy[i] BY <1>2, <3>1, <4>1, Insertion DEF Beliefs, AllWork
      <4>3. i # created + 1 BY <1>2, <3>1, <4>1, Insertion DEF Beliefs, AllWork
      <4>. QED BY <1>4, <4>2, <4>3
    <3>. QED BY <3>1
  <2>2. PICK x \in Attempts : Retires(x) BY <1>4, <2>1, WhoWrites
  <2>3. Live(x) /\ pc[x] = "retire" /\ slots' = slots BY <2>2 DEF Live, Retires
  <2>4. agent[x] \in Agents /\ Old(x) \in Constructs(agent[x]) /\ Old(x) \notin House /\ i = Old(x)
    BY <1>2, <1>4, <2>2, <2>3, Retirement DEF Beliefs, AllWork
  <2>5. agent[x] = a BY <1>1, <2>4, Owners
  <2>6. i \notin slots'[a] BY <2>3, <2>4, <2>5 DEF Adoptions, Pending
  <2>7. new[x] \in Constructs(a) /\ strategy[new[x]].version = strategy[i].version + 1
    BY <2>3, <2>4, <2>5 DEF AllWork, Works, Created, Version
  <2>. QED BY <1>1, <2>6, <2>7, ConstructsStay
<1>. QED BY <1>3, <1>4

LEMMA NextTypes ==
    ASSUME TypeOK, Fresh, HouseRows, Beliefs, AllWork, Adoptions, Slots, [Next]_vars
    PROVE  TypeOK'
<1>. DEFINE States == {"off", "next", "reason", "create", "read", "swap", "retire", "record", "done", "dead"}
            Rest == /\ experiment \subseteq [agent : Agents, by : Attempts, day : 0 .. MaxDays]
                    /\ day \in 0 .. MaxDays /\ current \in Attempts \cup {None}
                    /\ pc \in [Attempts -> States] /\ todo \in [Attempts -> SUBSET Agents]
                    /\ agent \in [Attempts -> Agents \cup {None}]
                    /\ incumbent \in [Attempts -> [Agents -> Ids \cup {None}] \cup {None}]
                    /\ new \in [Attempts -> Ids \cup {None}] /\ ids \in [Attempts -> SUBSET Ids]
                    /\ seed \in (SUBSET Ids) \cup {None} /\ crashes \in 0 .. MaxCrashes
                    /\ zombies \in 0 .. MaxZombies /\ reseeds \in 0 .. MaxReseeds
<1>1. Rest BY DEF TypeOK
<1>2. \A n \in {MaxDays, MaxCrashes, MaxZombies, MaxReseeds} : n \in Nat BY Bounded
<1>3. \A a \in Agents : Incumbent(slots[a]) \in Ids \cup {None}
  <2>1. ASSUME NEW a \in Agents, Incumbent(slots[a]) # None PROVE Incumbent(slots[a]) \in Ids
    <3>1. slots[a] \subseteq Own(a) /\ IsFiniteSet(slots[a]) BY DEF Slots
    <3>. QED BY <2>1, <3>1, TheIncumbent, OwnExists
  <2>. QED BY <2>1
<1>4. ASSUME NEW x \in Attempts, Begin(x), zombies' \in 0 .. MaxZombies PROVE Rest'
  BY <1>1, <1>3, <1>4 DEF Begin, tables
<1>5. ASSUME NEW r \in Runs, StartCycle(r) \/ Retry(r) \/ FailCycle(r) PROVE Rest'
  <2>1. <<r, 1>> \in Attempts /\ <<r, 2>> \in Attempts BY DEF Attempts
  <2>2. zombies' \in 0 .. MaxZombies
    <3>1. zombies \in 0 .. MaxZombies BY <1>1
    <3>2. MaxZombies \in Nat BY <1>2
    <3>3. ASSUME NEW x, GiveUp(x) PROVE zombies' = zombies \/ (zombies < MaxZombies /\ zombies' = zombies + 1)
      <4>1. CASE Live(x) BY <3>3, <4>1 DEF GiveUp, Live
      <4>2. CASE ~Live(x) BY <3>3, <4>2 DEF GiveUp
      <4>. QED BY <4>1, <4>2
    <3>4. zombies' = zombies \/ (zombies < MaxZombies /\ zombies' = zombies + 1)
      BY <1>5, <3>3 DEF StartCycle, Retry, FailCycle
    <3>. QED BY <3>1, <3>2, <3>4
  <2>3. CASE FailCycle(r) BY <1>1, <2>2, <2>3 DEF FailCycle, tables, locals
  <2>. QED BY <1>4, <1>5, <2>1, <2>2, <2>3 DEF StartCycle, Retry
<1>6. ASSUME NEW x \in Attempts, Crash(x) \/ Finish(x) \/ Reason(x) \/ CreateRefused(x) \/ CreateTimesOut(x) \/ Retire(x)
      PROVE  Rest'
  BY <1>1, <1>2, <1>6 DEF Crash, Finish, Reason, CreateRefused, CreateTimesOut, Retire, Insert, Step, Goto, tables, bounds
<1>7. ASSUME NEW x \in Attempts, Create(x) PROVE Rest'
  <2>1. created + 1 \in Ids BY <1>7, Bounded DEF Create, Insert, TypeOK, Ids
  <2>. QED BY <1>1, <1>7, <2>1 DEF Create, Insert, Step, Goto
<1>8. ASSUME NEW x \in Attempts, SwapRead(x) \/ SwapCommit(x) PROVE Rest'
  <2>1. agent[x] \in Agents BY <1>8 DEF SwapRead, SwapCommit, Step, AllWork, Works, Evolving
  <2>2. slots[agent[x]] \in SUBSET Ids BY <2>1 DEF TypeOK
  <2>. QED BY <1>1, <1>8, <2>2 DEF SwapRead, SwapCommit, Step, Goto, tables, bounds
<1>9. ASSUME NEW x \in Attempts, Record(x) PROVE Rest'
  <2>1. agent[x] \in Agents BY <1>9 DEF Record, Step, AllWork, Works, Evolving
  <2>2. [agent |-> agent[x], by |-> x, day |-> day] \in [agent : Agents, by : Attempts, day : 0 .. MaxDays]
    BY <1>1, <2>1
  <2>. QED BY <1>1, <1>9, <2>2 DEF Record, Step, Goto, bounds
<1>10. ASSUME NEW x \in Attempts, NEW a \in Agents, Skip(x, a) \/ Consider(x, a) PROVE Rest'
  BY <1>1, <1>10 DEF Skip, Consider, Pick, Goto, tables, bounds
<1>11. ASSUME SeedRead \/ SeedWrite \/ DayPasses PROVE Rest'
  <2>1. UserOwned \in SUBSET Ids BY DEF UserOwned
  <2>2. CASE SeedRead
    <3>1. reseeds' \in 0 .. MaxReseeds BY <1>1, <1>2, <2>2 DEF SeedRead
    <3>. QED BY <1>1, <2>1, <2>2, <3>1 DEF SeedRead, tables, locals
  <2>3. CASE SeedWrite BY <1>1, <2>3 DEF SeedWrite, locals, bounds
  <2>4. CASE DayPasses
    <3>1. day' \in 0 .. MaxDays BY <1>1, <1>2, <2>4 DEF DayPasses
    <3>. QED BY <1>1, <2>4, <3>1 DEF DayPasses, tables, locals, bounds
  <2>. QED BY <1>11, <2>2, <2>3, <2>4
<1>12. ASSUME UNCHANGED vars PROVE Rest' BY <1>1, <1>12 DEF vars, tables, locals, bounds
<1>. HIDE DEF Rest
<1>13. Rest' BY <1>5, <1>6, <1>7, <1>8, <1>9, <1>10, <1>11, <1>12 DEF Next
<1>14. /\ strategy' \in [Ids -> Rows \cup {None}] /\ created' \in 0 .. MaxCreated /\ HouseRows'
       /\ slots' \in [Agents -> SUBSET Ids] /\ Slots'
  BY NextRows, NextSlots
<1>15. \A a \in Agents : slots'[a] \subseteq {i \in Ids : strategy'[i] # None}
  <2>1. \A a \in Agents : \A i \in Constructs(a)' : i \in Ids /\ strategy'[i] # None BY DEF Constructs
  <2>2. \A h \in House : h \in Ids /\ strategy'[h] # None
    <3>1. ASSUME NEW h \in House PROVE strategy'[h] \in Rows BY <1>14 DEF HouseRows, Rows
    <3>. QED BY <3>1, NoneOutside DEF Ids
  <2>. QED BY <1>14, <2>1, <2>2 DEF Slots, Own
<1>. QED BY <1>13, <1>14, <1>15 DEF TypeOK, Rest

LEMMA InitEvo == Init => EvoInv
<1>. SUFFICES ASSUME Init PROVE EvoInv OBVIOUS
<1>1. /\ \A i \in Ids : strategy[i] = IF i \in House THEN [owner |-> "house", version |-> 1, status |-> "active"] ELSE None
      /\ \A x \in Attempts : pc[x] = "off" /\ ids[x] = {}
  BY DEF Init
<1>2. House \subseteq Ids BY DEF Ids
<1>3. \A a \in Agents : \E h \in House : slots[a] = {h} BY DEF Init
<1>4. [owner |-> "house", version |-> 1, status |-> "active"] \in Rows BY DEF Rows
<1>5. TypeOK
  <2>1. strategy \in [Ids -> Rows \cup {None}] BY <1>4 DEF Init
  <2>2. slots \in [Agents -> SUBSET Ids] BY <1>2 DEF Init
  <2>3. \A a \in Agents : slots[a] \subseteq {i \in Ids : strategy[i] # None} BY <1>1, <1>2, <1>3, <1>4, NoneOutside
  <2>4. /\ 0 \in 0 .. MaxDays /\ 0 \in 0 .. MaxCreated /\ 0 \in 0 .. MaxCrashes /\ 0 \in 0 .. MaxZombies
        /\ 0 \in 0 .. MaxReseeds
    BY Bounded
  <2>5. /\ pc \in [Attempts -> {"off", "next", "reason", "create", "read", "swap", "retire", "record", "done", "dead"}]
        /\ todo \in [Attempts -> SUBSET Agents]
    BY DEF Init
  <2>6. /\ agent \in [Attempts -> Agents \cup {None}]
        /\ incumbent \in [Attempts -> [Agents -> Ids \cup {None}] \cup {None}]
    BY DEF Init
  <2>7. new \in [Attempts -> Ids \cup {None}] /\ ids \in [Attempts -> SUBSET Ids] BY DEF Init
  <2>8. /\ experiment \subseteq [agent : Agents, by : Attempts, day : 0 .. MaxDays]
        /\ current \in Attempts \cup {None} /\ seed \in (SUBSET Ids) \cup {None}
    BY DEF Init
  <2>9. day = 0 /\ created = 0 /\ crashes = 0 /\ zombies = 0 /\ reseeds = 0 BY DEF Init
  <2>. QED BY <2>1, <2>2, <2>3, <2>4, <2>5, <2>6, <2>7, <2>8, <2>9 DEF TypeOK
<1>6. Fresh BY <1>1, Bounded DEF Fresh
<1>7. HouseRows BY <1>1, <1>2 DEF HouseRows
<1>8. \A a \in Agents : Constructs(a) = {}
  <2>1. \A a \in Agents : a # "house" BY EvolutionAssumption
  <2>. QED BY <1>1, <2>1 DEF Constructs
<1>9. Single /\ Dense /\ RetiredIsSuperseded BY <1>8 DEF Single, Dense, RetiredIsSuperseded
<1>10. Slots
  <2>1. \A h : IsFiniteSet({h}) BY FS_Singleton
  <2>2. IsFiniteSet({}) BY FS_EmptySet
  <2>3. seed = None BY DEF Init
  <2>4. /\ \A a \in Agents : slots[a] \subseteq Own(a) /\ IsFiniteSet(slots[a])
        /\ \A a \in Agents : \E i \in Ids : slots[a] = {i}
    BY <1>2, <1>3, <2>1 DEF Own
  <2>5. \A x \in Attempts : IsFiniteSet(ids[x])
    <3>1. \A x \in Attempts : ids[x] = {} BY <1>1
    <3>. QED BY <3>1, <2>2
  <2>. QED BY <2>3, <2>4, <2>5 DEF Slots
<1>11. Beliefs /\ AllWork /\ Adoptions
  BY <1>1 DEF Beliefs, Live, AllWork, Works, Adoptions, Pending, Adopting, Created, Evolving
<1>. QED BY <1>5, <1>6, <1>7, <1>9, <1>10, <1>11 DEF EvoInv

LEMMA EvolutionHolds == Spec => []EvoInv
<1>1. EvoInv /\ [Next]_vars => EvoInv'
  BY NextTypes, NextRows, NextVersions, NextSlots, NextBeliefs, NextWorks, NextAdoptions, NextRetired DEF EvoInv
<1>. QED BY <1>1, InitEvo, PTL DEF Spec

(* Through crashes, attempts that outlive their timeout and reseeds, with  *)
(* four transactions in two services and no lock around them: slots refer  *)
(* to rows, no house strategy is ever retired, and a construct is retired  *)
(* only when it is out of its agent's slot and its successor exists.       *)
THEOREM LibraryIsKept == Spec => []LibraryInv
<1>1. EvoInv => LibraryInv BY DEF EvoInv, LibraryInv, HouseStays, HouseRows
<1>. QED BY <1>1, EvolutionHolds, PTL

(* An agent that seed.py leaves alone always has exactly one strategy of   *)
(* the kind that evolves, whatever attempts overlap, die or are retried.   *)
THEOREM SlotIsOne == Spec => []OneSlot
<1>1. EvoInv => OneSlot
  <2>1. \A i : Cardinality({i}) = 1 BY FS_Singleton
  <2>. QED BY <2>1 DEF EvoInv, Slots, OneSlot
<1>. QED BY <1>1, EvolutionHolds, PTL

(***************************************************************************)
(* Once a day.  As long as no attempt outlives its timeout, only the one   *)
(* Temporal waits for is alive; so what MayEvolve has looked up still      *)
(* holds when the experiment is recorded.                                  *)
(***************************************************************************)
Alone      == zombies = 0 => \A x \in Attempts : Live(x) => x = current
Unrecorded == zombies = 0 => \A x \in Attempts : pc[x] \in Evolving => ~Cooling(agent[x])
DailyInv   == TypeOK /\ Alone /\ Unrecorded /\ OncePerDay

LEMMA Zombies ==
    ASSUME TypeOK, [Next]_vars
    PROVE  zombies \in Nat /\ (zombies' = zombies \/ zombies' = zombies + 1)
<1>1. zombies \in Nat BY Bounded DEF TypeOK
<1>2. CASE UNCHANGED vars BY <1>1, <1>2 DEF vars, bounds
<1>3. ASSUME NEW r \in Runs, StartCycle(r) PROVE zombies' = zombies BY <1>3 DEF StartCycle
<1>4. ASSUME NEW x, GiveUp(x) PROVE zombies' = zombies \/ zombies' = zombies + 1
  <2>1. CASE Live(x) BY <1>4, <2>1 DEF GiveUp
  <2>2. CASE ~Live(x) BY <1>4, <2>2 DEF GiveUp
  <2>. QED BY <2>1, <2>2
<1>5. ASSUME NEW r \in Runs, Retry(r) \/ FailCycle(r) PROVE zombies' = zombies \/ zombies' = zombies + 1
  BY <1>4, <1>5 DEF Retry, FailCycle
<1>6. ASSUME NEW x \in Attempts,
             \/ Crash(x) \/ Finish(x) \/ Reason(x) \/ Create(x) \/ CreateTimesOut(x) \/ CreateRefused(x)
             \/ SwapRead(x) \/ SwapCommit(x) \/ Retire(x) \/ Record(x)
             \/ \E a \in Agents : Skip(x, a) \/ Consider(x, a)
      PROVE  zombies' = zombies
  BY <1>6 DEF Crash, Finish, Reason, Create, CreateTimesOut, CreateRefused, Insert, SwapRead, SwapCommit,
              Retire, Record, Skip, Consider, Pick, bounds
<1>7. CASE SeedRead \/ SeedWrite \/ DayPasses BY <1>1, <1>7 DEF SeedRead, SeedWrite, DayPasses, bounds
<1>. QED BY <1>1, <1>2, <1>3, <1>5, <1>6, <1>7 DEF Next

LEMMA NextAlone ==
    ASSUME TypeOK, Alone, [Next]_vars
    PROVE  Alone'
<1>. SUFFICES ASSUME zombies' = 0 PROVE (\A x \in Attempts : Live(x) => x = current)' BY DEF Alone
<1>1. zombies = 0 /\ \A x \in Attempts : Live(x) => x = current BY Zombies DEF Alone
<1>2. pc \in [Attempts -> {"off", "next", "reason", "create", "read", "swap", "retire", "record", "done", "dead"}]
  BY DEF TypeOK
<1>3. None \notin Attempts BY NoneOutside
<1>4. ASSUME NEW x \in Attempts, Begin(x), \A y \in Attempts : ~Live(y) PROVE \A y \in Attempts : Live(y)' => y = current'
  BY <1>2, <1>4 DEF Begin, Live
<1>5. ASSUME NEW x \in Attempts, GiveUp(x) PROVE \A y \in Attempts : ~Live(y)
  <2>1. ~Live(x)
    <3>1. CASE Live(x) BY <1>1, <1>5, <3>1 DEF GiveUp
    <3>. QED BY <3>1
  <2>. QED BY <1>1, <1>5, <2>1 DEF GiveUp
<1>6. ASSUME NEW r \in Runs, StartCycle(r) \/ Retry(r) \/ FailCycle(r) PROVE \A y \in Attempts : Live(y)' => y = current'
  <2>1. <<r, 1>> \in Attempts /\ <<r, 2>> \in Attempts BY DEF Attempts
  <2>2. CASE StartCycle(r) BY <1>1, <1>3, <1>4, <2>1, <2>2 DEF StartCycle
  <2>3. CASE Retry(r) BY <1>4, <1>5, <2>1, <2>3 DEF Retry
  <2>4. CASE FailCycle(r)
    <3>1. \A y \in Attempts : ~Live(y) BY <1>5, <2>1, <2>4 DEF FailCycle
    <3>2. pc' = pc BY <2>4 DEF FailCycle, locals
    <3>. QED BY <3>1, <3>2 DEF Live
  <2>. QED BY <1>6, <2>2, <2>3, <2>4
<1>7. ASSUME NEW x \in Attempts, Crash(x) \/ Finish(x) PROVE \A y \in Attempts : Live(y)' => y = current'
  <2>1. Live(x) BY <1>7 DEF Crash, Finish, Live
  <2>2. \A y \in Attempts : Live(y)' => y # x /\ Live(y) BY <1>2, <1>7 DEF Crash, Finish, Goto, Live
  <2>. QED BY <1>1, <2>1, <2>2
<1>8. ASSUME NEW x \in Attempts,
             \/ Reason(x) \/ Create(x) \/ CreateTimesOut(x) \/ CreateRefused(x)
             \/ SwapRead(x) \/ SwapCommit(x) \/ Retire(x) \/ Record(x)
             \/ \E a \in Agents : Skip(x, a) \/ Consider(x, a)
      PROVE  \A y \in Attempts : Live(y)' => y = current'
  <2>1. current' = current /\ Live(x)
    BY <1>8 DEF Reason, Create, CreateTimesOut, CreateRefused, Insert, SwapRead, SwapCommit, Retire, Record,
                Skip, Consider, Pick, Step, Live
  <2>2. \A y \in Attempts : y # x => pc'[y] = pc[y]
    BY <1>2, <1>8 DEF Reason, Create, CreateTimesOut, CreateRefused, SwapRead, SwapCommit, Retire, Record,
                      Skip, Consider, Pick, Step, Goto
  <2>. QED BY <1>1, <2>1, <2>2 DEF Live
<1>9. ASSUME UNCHANGED vars \/ SeedRead \/ SeedWrite \/ DayPasses PROVE \A y \in Attempts : Live(y)' => y = current'
  <2>1. pc' = pc /\ current' = current BY <1>9 DEF vars, SeedRead, SeedWrite, DayPasses, locals
  <2>. QED BY <1>1, <2>1 DEF Live
<1>. QED BY <1>6, <1>7, <1>8, <1>9 DEF Next

(* The steps that add an experiment or begin another day.                  *)
Records(x) ==
    /\ pc[x] = "record" /\ pc' = [pc EXCEPT ![x] = "next"]
    /\ experiment' = experiment \cup {[agent |-> agent[x], by |-> x, day |-> day]}
    /\ day' = day /\ agent' = agent

LEMMA WhoRecords ==
    ASSUME [Next]_vars
    PROVE  \/ experiment' = experiment /\ day' = day
           \/ experiment' = experiment /\ current = None /\ pc' = pc /\ agent' = agent
           \/ \E x \in Attempts : Records(x)
<1>1. CASE UNCHANGED vars BY <1>1 DEF vars, tables
<1>2. ASSUME NEW r \in Runs, StartCycle(r) \/ Retry(r) \/ FailCycle(r) PROVE experiment' = experiment /\ day' = day
  BY <1>2 DEF StartCycle, Retry, FailCycle, Begin, tables
<1>3. ASSUME NEW x \in Attempts,
             \/ Crash(x) \/ Finish(x) \/ Reason(x) \/ Create(x) \/ CreateTimesOut(x) \/ CreateRefused(x)
             \/ SwapRead(x) \/ SwapCommit(x) \/ Retire(x)
             \/ \E a \in Agents : Skip(x, a) \/ Consider(x, a)
      PROVE  experiment' = experiment /\ day' = day
  BY <1>3 DEF Crash, Finish, Reason, Create, CreateTimesOut, CreateRefused, Insert, SwapRead, SwapCommit,
              Retire, Skip, Consider, Pick, tables
<1>4. ASSUME NEW x \in Attempts, Record(x) PROVE Records(x) BY <1>4 DEF Record, Records, Step, Goto
<1>5. CASE SeedRead \/ SeedWrite \/ DayPasses BY <1>5 DEF SeedRead, SeedWrite, DayPasses, tables, locals
<1>. QED BY <1>1, <1>2, <1>3, <1>4, <1>5 DEF Next

LEMMA NextUnrecorded ==
    ASSUME TypeOK, Alone, Unrecorded, [Next]_vars
    PROVE  Unrecorded'
<1>. SUFFICES ASSUME zombies' = 0, NEW x \in Attempts, pc'[x] \in Evolving
              PROVE  ~Cooling(agent[x])'
  BY DEF Unrecorded
<1>1. zombies = 0 BY Zombies
<1>2. pc \in [Attempts -> {"off", "next", "reason", "create", "read", "swap", "retire", "record", "done", "dead"}]
  BY DEF TypeOK
<1>3. ~\E e \in experiment : e.agent = agent'[x] /\ e.day = day
  <2>1. CASE pc[x] \in Evolving /\ agent'[x] = agent[x]
    <3>1. ~Cooling(agent[x]) BY <1>1, <2>1 DEF Unrecorded
    <3>. QED BY <2>1, <3>1 DEF Cooling
  <2>2. ASSUME NEW a \in Agents, Consider(x, a), agent'[x] = a PROVE ~\E e \in experiment : e.agent = agent'[x] /\ e.day = day
    BY <2>2 DEF Consider, Pick, MayEvolve, Cooling
  <2>. QED BY <2>1, <2>2, WhoEvolves
<1>4. pc[x] \in Evolving \/ \E a \in Agents : Consider(x, a) BY WhoEvolves
<1>5. Live(x)
  <2>1. ASSUME NEW a \in Agents, Consider(x, a) PROVE pc[x] = "next" BY <2>1 DEF Consider, Pick
  <2>. QED BY <1>4, <2>1 DEF Evolving, Live
<1>6. x = current BY <1>1, <1>5 DEF Alone
<1>7. experiment' = experiment /\ day' = day
  <2>1. current # None BY <1>6, NoneOutside
  <2>2. ASSUME NEW y \in Attempts, Records(y) PROVE FALSE
    <3>1. Live(y) BY <2>2 DEF Records, Live
    <3>2. y = x BY <1>1, <1>6, <3>1 DEF Alone
    <3>. QED BY <1>2, <2>2, <3>2 DEF Records, Evolving
  <2>. QED BY <2>1, <2>2, WhoRecords
<1>. QED BY <1>3, <1>7 DEF Cooling

LEMMA NextDaily ==
    ASSUME TypeOK, Unrecorded, OncePerDay, [Next]_vars
    PROVE  OncePerDay'
<1>. SUFFICES ASSUME zombies' = 0, NEW e \in experiment', NEW f \in experiment', e.agent = f.agent, e.day = f.day
              PROVE  e = f
  BY DEF OncePerDay
<1>1. zombies = 0 BY Zombies
<1>2. CASE experiment' = experiment BY <1>1, <1>2 DEF OncePerDay
<1>3. ASSUME NEW x \in Attempts, Records(x) PROVE e = f
  <2>1. \A g \in experiment : ~(g.agent = agent[x] /\ g.day = day)
    BY <1>1, <1>3 DEF Unrecorded, Cooling, Records, Evolving
  <2>2. PICK h : h = [agent |-> agent[x], by |-> x, day |-> day] OBVIOUS
  <2>3. h.agent = agent[x] /\ h.day = day BY <2>2
  <2>4. \A g \in experiment' : g \in experiment \/ g = h BY <1>3, <2>2 DEF Records
  <2>5. (e \in experiment \/ e = h) /\ (f \in experiment \/ f = h) BY <2>4
  <2>. QED BY <1>1, <2>1, <2>3, <2>5 DEF OncePerDay
<1>. QED BY <1>2, <1>3, WhoRecords

LEMMA DailyHolds == Spec => []DailyInv
<1>1. Init => Alone /\ Unrecorded /\ OncePerDay
  <2>. SUFFICES ASSUME Init PROVE Alone /\ Unrecorded /\ OncePerDay OBVIOUS
  <2>1. (\A x \in Attempts : pc[x] = "off") /\ experiment = {} BY DEF Init
  <2>. QED BY <2>1 DEF Alone, Unrecorded, OncePerDay, Live, Evolving
<1>2. TypeOK /\ TypeOK' /\ Alone /\ Unrecorded /\ OncePerDay /\ [Next]_vars => Alone' /\ Unrecorded' /\ OncePerDay'
  BY NextAlone, NextUnrecorded, NextDaily
<1>3. EvoInv => TypeOK BY DEF EvoInv
<1>4. DailyInv <=> TypeOK /\ Alone /\ Unrecorded /\ OncePerDay BY DEF DailyInv
<1>. QED BY <1>1, <1>2, <1>3, <1>4, EvolutionHolds, PTL DEF Spec

(* An agent evolves at most once a day, over retries, crashes and reseeds, *)
(* unless an attempt outlives its timeout: the cooldown is read from the   *)
(* table that only the last of the four transactions writes, and nothing   *)
(* but Temporal's one attempt at a time keeps two from reading it at once. *)
THEOREM EvolvesOncePerDay == Spec => []OncePerDay
<1>1. DailyInv => OncePerDay BY DEF DailyInv
<1>. QED BY <1>1, DailyHolds, PTL

-----------------------------------------------------------------------------
(***************************************************************************)
(* Folds.  The operators of the community modules that fold over a finite  *)
(* set choose a recursive function on its subsets.  That there is one, and *)
(* where its values lie, is shown by the least subset for which it fails.  *)
(***************************************************************************)
(* A set of numbers has a least one.                                       *)
LEMMA LeastOf ==
    ASSUME NEW S \in SUBSET Nat, S # {}
    PROVE  \E x \in S : \A y \in S : x <= y
<1>. DEFINE R == OpToRel(<, Nat)
<1>1. \A x, y \in Nat : y < x => <<y, x>> \in R BY DEF OpToRel
<1>2. IsWellFoundedOn(R, Nat) BY NatLessThanWellFounded, Zenon
<1>. HIDE DEF R
<1>3. PICK x \in S : \A y \in S : <<y, x>> \notin R BY <1>2, WFMin
<1>4. \A y \in S : x \in Nat /\ y \in Nat /\ ~(y < x) BY <1>1, <1>3
<1>. QED BY <1>3, <1>4

(* A function on the subsets of S whose value on a set is in Y whenever    *)
(* its value on that set without one element is.                           *)
LEMMA FoldRange ==
    ASSUME NEW S, IsFiniteSet(S), NEW pick, \A s \in SUBSET S : s # {} => pick[s] \in s,
           NEW Y, NEW g, g[{}] \in Y,
           \A s \in SUBSET S : s # {} /\ g[s \ {pick[s]}] \in Y => g[s] \in Y
    PROVE  \A s \in SUBSET S : g[s] \in Y
<1>. DEFINE Bad  == {s \in SUBSET S : g[s] \notin Y}
            NumOf == {Cardinality(s) : s \in Bad}
<1>1. \A s \in SUBSET S : IsFiniteSet(s) /\ Cardinality(s) \in Nat
  BY FS_Subset, FS_CardinalityType
<1>2. Bad = {}
  <2>. SUFFICES ASSUME Bad # {} PROVE FALSE OBVIOUS
  <2>1. NumOf \in SUBSET Nat /\ NumOf # {} BY <1>1
  <2>2. PICK n \in NumOf : \A m \in NumOf : n <= m BY <2>1, LeastOf
  <2>3. PICK s \in Bad : n = Cardinality(s) BY <2>2
  <2>4. s \in SUBSET S /\ g[s] \notin Y /\ s # {} BY <2>3
  <2>. DEFINE t == s \ {pick[s]}
  <2>5. pick[s] \in s /\ t \in SUBSET S BY <2>4
  <2>6. Cardinality(t) = Cardinality(s) - 1 BY <1>1, <2>4, <2>5, FS_RemoveElement
  <2>7. Cardinality(t) \in Nat /\ Cardinality(s) \in Nat BY <1>1, <2>4, <2>5
  <2>8. ~(n <= Cardinality(t)) BY <2>3, <2>6, <2>7
  <2>9. t \notin Bad BY <2>2, <2>8
  <2>. QED BY <2>4, <2>5, <2>9
<1>. QED BY <1>2

(* The function that folds op over the subsets of S exists.                *)
FoldOf(S, pick, base, op, Y) ==
    {g \in [SUBSET S -> Y] : \A s \in SUBSET S :
        g[s] = IF s = {} THEN base ELSE op[pick[s]][g[s \ {pick[s]}]]}

LEMMA FoldExists ==
    ASSUME NEW S, IsFiniteSet(S), NEW pick, \A s \in SUBSET S : s # {} => pick[s] \in s,
           NEW Y, NEW base \in Y, NEW op, \A x \in S : \A y \in Y : op[x][y] \in Y
    PROVE  FoldOf(S, pick, base, op, Y) # {}
<1>. DEFINE Upto(n)   == {t \in SUBSET S : Cardinality(t) <= n}
            ValOf(g, s) == IF s = {} THEN base ELSE op[pick[s]][g[s \ {pick[s]}]]
            Has(n)    == \E g \in [Upto(n) -> Y] : \A s \in Upto(n) : g[s] = ValOf(g, s)
            Bad       == {n \in Nat : ~Has(n)}
<1>1. \A s \in SUBSET S : IsFiniteSet(s) /\ Cardinality(s) \in Nat
  BY FS_Subset, FS_CardinalityType
<1>2. {} \in SUBSET S /\ Cardinality({}) = 0 /\ \A s \in SUBSET S : Cardinality(s) = 0 => s = {}
  BY <1>1, FS_EmptySet
<1>3. \A s \in SUBSET S : s # {} =>
          /\ pick[s] \in s /\ pick[s] \in S /\ s \ {pick[s]} \in SUBSET S
          /\ Cardinality(s \ {pick[s]}) = Cardinality(s) - 1
  BY <1>1, FS_RemoveElement
<1>4. Has(0)
  <2>1. \A s \in Upto(0) : s = {} BY <1>1, <1>2
  <2>2. [s \in Upto(0) |-> base] \in [Upto(0) -> Y] OBVIOUS
  <2>. QED BY <2>1, <2>2
<1>5. ASSUME NEW n \in Nat, Has(n) PROVE Has(n + 1)
  <2>1. PICK g \in [Upto(n) -> Y] : \A s \in Upto(n) : g[s] = ValOf(g, s) BY <1>5
  <2>. DEFINE h == [s \in Upto(n + 1) |-> ValOf(g, s)]
  <2>2. ASSUME NEW s \in Upto(n + 1), s # {} PROVE pick[s] \in S /\ s \ {pick[s]} \in Upto(n)
    <3>1. s \in SUBSET S /\ Cardinality(s) <= n + 1 /\ Cardinality(s) \in Nat BY <1>1
    <3>2. Cardinality(s \ {pick[s]}) <= n BY <1>3, <2>2, <3>1
    <3>. QED BY <1>3, <2>2, <3>1, <3>2
  <2>3. \A s \in Upto(n + 1) : ValOf(g, s) \in Y BY <2>1, <2>2
  <2>4. \A s \in Upto(n) : s \in Upto(n + 1) /\ h[s] = g[s]
    <3>1. \A s \in Upto(n) : s \in Upto(n + 1) BY <1>1
    <3>. HIDE DEF Upto
    <3>2. \A s \in Upto(n) : h[s] = ValOf(g, s) BY <3>1
    <3>. QED BY <2>1, <3>1, <3>2
  <2>5. \A s \in Upto(n + 1) : h[s] = ValOf(g, s) OBVIOUS
  <2>6. h \in [Upto(n + 1) -> Y] BY <2>3
  <2>. HIDE DEF h, Upto
  <2>7. \A s \in Upto(n + 1) : ValOf(h, s) = ValOf(g, s) BY <2>2, <2>4
  <2>8. \A s \in Upto(n + 1) : h[s] = ValOf(h, s) BY <2>5, <2>7
  <2>. QED BY <2>6, <2>8
<1>. HIDE DEF Has
<1>6. \A n \in Nat : Has(n)
  <2>. SUFFICES ASSUME Bad # {} PROVE FALSE OBVIOUS
  <2>1. PICK n \in Bad : \A m \in Bad : n <= m BY LeastOf
  <2>2. n \in Nat /\ ~Has(n) /\ n # 0 BY <1>4
  <2>3. n - 1 \in Nat /\ ~(n <= n - 1) /\ (n - 1) + 1 = n BY <2>2
  <2>4. Has(n - 1) BY <2>1, <2>3
  <2>5. Has((n - 1) + 1) BY <1>5, <2>3, <2>4
  <2>. QED BY <2>2, <2>3, <2>5
<1>7. Cardinality(S) \in Nat /\ Upto(Cardinality(S)) = SUBSET S
  BY FS_Subset, FS_CardinalityType
<1>8. PICK g \in [Upto(Cardinality(S)) -> Y] : \A s \in Upto(Cardinality(S)) : g[s] = ValOf(g, s)
  BY <1>6, <1>7 DEF Has
<1>. HIDE DEF Upto
<1>9. g \in FoldOf(S, pick, base, op, Y) BY <1>7, <1>8 DEF FoldOf
<1>. QED BY <1>9

(* A sum of integers is an integer: g sums f, one element after the other. *)
Summing(S, f, g) ==
    /\ g[{}] = 0
    /\ \A s \in SUBSET S : s # {} =>
          g[s] = f[CHOOSE x \in s : TRUE] + g[s \ {CHOOSE x \in s : TRUE}]

LEMMA SumOfInts ==
    ASSUME NEW S, IsFiniteSet(S), NEW f, \A x \in S : f[x] \in Int
    PROVE  /\ \E g \in [SUBSET S -> Int] : Summing(S, f, g)
           /\ \A g : Summing(S, f, g) => g[S] \in Int
<1>. DEFINE pick == [s \in SUBSET S |-> CHOOSE x \in s : TRUE]
            op   == [x \in S |-> [y \in Int |-> f[x] + y]]
<1>1. \A s \in SUBSET S : s # {} => pick[s] \in s /\ pick[s] = CHOOSE x \in s : TRUE OBVIOUS
<1>2. \A x \in S : \A y \in Int : op[x][y] = f[x] + y /\ op[x][y] \in Int OBVIOUS
<1>3. PICK g \in [SUBSET S -> Int] : \A s \in SUBSET S :
         g[s] = IF s = {} THEN 0 ELSE op[pick[s]][g[s \ {pick[s]}]]
  <2>1. \A s \in SUBSET S : s # {} => pick[s] \in s BY <1>1
  <2>2. 0 \in Int OBVIOUS
  <2>. HIDE DEF op, pick
  <2>3. \A x \in S : \A y \in Int : op[x][y] \in Int BY <1>2
  <2>4. FoldOf(S, pick, 0, op, Int) # {} BY <2>1, <2>2, <2>3, FoldExists
  <2>. QED BY <2>4 DEF FoldOf
<1>4. Summing(S, f, g)
  <2>1. ASSUME NEW s \in SUBSET S, s # {}
        PROVE  g[s] = f[CHOOSE x \in s : TRUE] + g[s \ {CHOOSE x \in s : TRUE}]
    <3>1. pick[s] \in S /\ s \ {pick[s]} \in SUBSET S /\ g[s \ {pick[s]}] \in Int BY <1>1, <2>1
    <3>. HIDE DEF op, pick
    <3>2. g[s] = f[pick[s]] + g[s \ {pick[s]}] BY <1>2, <1>3, <2>1, <3>1
    <3>. QED BY <1>1, <2>1, <3>2
  <2>2. g[{}] = 0 BY <1>3
  <2>. QED BY <2>1, <2>2 DEF Summing
<1>5. ASSUME NEW h, Summing(S, f, h) PROVE h[S] \in Int
  <2>1. ASSUME NEW s \in SUBSET S, s # {}, h[s \ {pick[s]}] \in Int PROVE h[s] \in Int
    <3>1. h[s] = f[pick[s]] + h[s \ {pick[s]}] /\ f[pick[s]] \in Int BY <1>1, <1>5, <2>1 DEF Summing
    <3>. QED BY <2>1, <3>1
  <2>2. \A s \in SUBSET S : s # {} => pick[s] \in s BY <1>1
  <2>3. h[{}] \in Int BY <1>5 DEF Summing
  <2>. HIDE DEF pick
  <2>4. \A s \in SUBSET S : h[s] \in Int BY <2>1, <2>2, <2>3, FoldRange
  <2>. QED BY <2>4
<1>. QED BY <1>4, <1>5

-----------------------------------------------------------------------------
(***************************************************************************)
(* TickDecision.  While an answer is awaited and placed, the context is    *)
(* still the one the signals and the account gave; what is placed has      *)
(* passed the guardrails, told of this context; and unless a symbol is     *)
(* answered twice, what is still to be placed finds the position that the  *)
(* guardrails saw.                                                         *)
(***************************************************************************)
Snapshot ==
    stage \in {"manage", "apply"} =>
        /\ emitted \in Evaluations
        /\ \E book \in Books, open \in BOOLEAN : context = Context(book, emitted, open)
        /\ holding \in [DOMAIN context.signals -> Int]
        /\ stage = "manage" => \A s \in DOMAIN holding : holding[s] = Qty(context, s)
Vetted ==
    stage = "apply" =>
        /\ \A i \in DOMAIN answered : i \in Nat /\ ToolCall(answered[i])
        /\ valid \subseteq validate(answered, context)
        /\ ~Twice => \A i \in valid : holding[answered[i].symbol] = Qty(context, answered[i].symbol)
DecisionInv == Snapshot /\ Vetted

LEMMA Amounts ==
    /\ MaxPct \in Nat /\ PerTickPct \in Nat /\ MaxPositions \in Nat
    /\ Absent \notin Int /\ Absent \notin {"buy", "short", "exit", "sell", "cover"}
BY GuardrailAssumption

(* Equity and buying power are sums over the positions held.               *)
LEMMA BookTypes ==
    ASSUME NEW book \in Books
    PROVE  /\ \A s \in DOMAIN book.positions : book.positions[s] \in Int
           /\ book.cash \in Int /\ Equity(book) \in Int /\ BuyingPower(book) \in Int
           /\ \A s : Qty(book, s) \in Int /\ Value(book, s) \in Int
<1>. DEFINE H == DOMAIN book.positions
<1>1. /\ IsFiniteSet(H) /\ \A s \in H : book.positions[s] \in Int
      /\ book.cash \in Int
  BY DecisionAssumption
<1>2. \A s : Qty(book, s) \in Int BY <1>1 DEF Qty
<1>3. \A s : Value(book, s) \in Int BY <1>2 DEF Value
<1>4. \A s : AtLeast0(-Qty(book, s)) \in Int
  <2>1. \A n \in Int : AtLeast0(-n) \in Int BY DEF AtLeast0
  <2>. QED BY <1>2, <2>1
<1>5. MapThenSumSet(LAMBDA s : Value(book, s), H) \in Int
  <2>. DEFINE f == [s \in H |-> Value(book, s)]
              Sums(g) == g = [s \in SUBSET H |->
                                 IF s = {} THEN 0 ELSE Value(book, CHOOSE x \in s : TRUE)
                                                       + g[s \ {CHOOSE x \in s : TRUE}]]
              iter == CHOOSE g : Sums(g)
  <2>1. MapThenSumSet(LAMBDA s : Value(book, s), H) = iter[H] BY DEF MapThenSumSet, MapThenFoldSet
  <2>2. \A x \in H : f[x] = Value(book, x) /\ f[x] \in Int BY <1>3
  <2>3. \A s \in SUBSET H : s # {} => f[CHOOSE x \in s : TRUE] = Value(book, CHOOSE x \in s : TRUE)
    BY <2>2
  <2>. HIDE DEF f, H
  <2>4. \A g \in [SUBSET H -> Int] : Summing(H, f, g) => Sums(g) BY <2>3 DEF Summing
  <2>5. /\ \E g \in [SUBSET H -> Int] : Summing(H, f, g)
        /\ \A g : Summing(H, f, g) => g[H] \in Int
    BY <1>1, <2>2, SumOfInts
  <2>6. Sums(iter)
    <3>. HIDE DEF Sums
    <3>. QED BY <2>4, <2>5
  <2>. HIDE DEF iter
  <2>7. Summing(H, f, iter) BY <2>3, <2>6 DEF Summing
  <2>. QED BY <2>1, <2>5, <2>7
<1>6. MapThenSumSet(LAMBDA s : AtLeast0(-Qty(book, s)), H) \in Int
  <2>. DEFINE f == [s \in H |-> AtLeast0(-Qty(book, s))]
              Sums(g) == g = [s \in SUBSET H |->
                                 IF s = {} THEN 0 ELSE AtLeast0(-Qty(book, CHOOSE x \in s : TRUE))
                                                       + g[s \ {CHOOSE x \in s : TRUE}]]
              iter == CHOOSE g : Sums(g)
  <2>1. MapThenSumSet(LAMBDA s : AtLeast0(-Qty(book, s)), H) = iter[H] BY DEF MapThenSumSet, MapThenFoldSet
  <2>2. \A x \in H : f[x] = AtLeast0(-Qty(book, x)) /\ f[x] \in Int BY <1>4
  <2>3. \A s \in SUBSET H : s # {} => f[CHOOSE x \in s : TRUE] = AtLeast0(-Qty(book, CHOOSE x \in s : TRUE))
    BY <2>2
  <2>. HIDE DEF f, H
  <2>4. \A g \in [SUBSET H -> Int] : Summing(H, f, g) => Sums(g) BY <2>3 DEF Summing
  <2>5. /\ \E g \in [SUBSET H -> Int] : Summing(H, f, g)
        /\ \A g : Summing(H, f, g) => g[H] \in Int
    BY <1>1, <2>2, SumOfInts
  <2>6. Sums(iter)
    <3>. HIDE DEF Sums
    <3>. QED BY <2>4, <2>5
  <2>. HIDE DEF iter
  <2>7. Summing(H, f, iter) BY <2>3, <2>6 DEF Summing
  <2>. QED BY <2>1, <2>5, <2>7
<1>7. Equity(book) \in Int BY <1>1, <1>5 DEF Equity
<1>8. BuyingPower(book) \in Int
  <2>. DEFINE owed == MapThenSumSet(LAMBDA s : AtLeast0(-Qty(book, s)), H)
  <2>1. owed \in Int /\ BuyingPower(book) = book.cash - (3 * owed) \div 2 BY <1>6 DEF BuyingPower
  <2>. HIDE DEF owed
  <2>. QED BY <1>1, <2>1
<1>. QED BY <1>1, <1>2, <1>3, <1>7, <1>8

(* merge_signals chooses one of the symbol's signals.                      *)
LEMMA OneOfThem ==
    ASSUME NEW sigs \in Evaluations, NEW s, Primary(sigs, s) # Absent
    PROVE  \E i \in DOMAIN sigs : /\ Primary(sigs, s) = sigs[i] /\ sigs[i].symbol = s
                                  /\ sigs[i].action \in {"buy", "short", "exit", "sell", "cover"}
                                  /\ sigs[i].strength \in 0 .. 100
<1>. DEFINE O == Of(sigs, s)
            T == {100 - sigs[i].strength : i \in O}
            Best(i) == \A j \in O : \/ sigs[i].strength > sigs[j].strength
                                    \/ sigs[i].strength = sigs[j].strength /\ i <= j
<1>1. \A i \in O : /\ i \in DOMAIN sigs /\ sigs[i].symbol = s /\ sigs[i].action # "hold"
                   /\ i \in Nat /\ sigs[i].strength \in 0 .. 100
                   /\ sigs[i].action \in {"buy", "short", "exit", "sell", "cover", "hold"}
  BY DecisionAssumption DEF Of
<1>2. O # {} BY DEF Primary
<1>3. \E i \in O : Best(i)
  <2>1. T \in SUBSET Nat /\ T # {} BY <1>1, <1>2
  <2>2. PICK m \in T : \A n \in T : m <= n BY <2>1, LeastOf
  <2>. DEFINE B == {i \in O : 100 - sigs[i].strength = m}
  <2>3. B \in SUBSET Nat /\ B # {} BY <1>1
  <2>4. PICK i \in B : \A j \in B : i <= j BY <2>3, LeastOf
  <2>5. ASSUME NEW j \in O PROVE sigs[i].strength > sigs[j].strength \/ (sigs[i].strength = sigs[j].strength /\ i <= j)
    <3>1. 100 - sigs[j].strength \in T /\ m <= 100 - sigs[j].strength BY <2>2
    <3>2. 100 - sigs[i].strength = m /\ sigs[i].strength \in 0 .. 100 /\ sigs[j].strength \in 0 .. 100
      BY <1>1
    <3>3. CASE sigs[j].strength = sigs[i].strength BY <2>4, <3>2, <3>3
    <3>4. ASSUME NEW a \in 0 .. 100, NEW b \in 0 .. 100, 100 - a <= 100 - b PROVE a > b \/ a = b BY <3>4
    <3>. QED BY <3>1, <3>2, <3>3, <3>4
  <2>. QED BY <2>5
<1>. HIDE DEF T
<1>4. Primary(sigs, s) = sigs[CHOOSE i \in O : Best(i)] BY <1>2 DEF Primary
<1>. QED BY <1>1, <1>3, <1>4

(* What the context says of a symbol.                                      *)
LEMMA ContextIs ==
    ASSUME NEW book, NEW sigs, NEW open
    PROVE  LET c == Context(book, sigs, open) IN
           /\ c.positions = book.positions /\ c.universe = book.universe /\ c.equity_open = open
           /\ c.equity = Equity(book) /\ c.cash = book.cash /\ c.bp = BuyingPower(book)
           /\ DOMAIN c.signals = book.universe \cup DOMAIN book.positions
           /\ \A s \in DOMAIN c.signals :
                /\ c.values[s] = Value(book, s)
                /\ c.signals[s] = IF Keeps(book, sigs, open, s) THEN Primary(sigs, s).action ELSE Absent
                /\ c.strength[s] = IF Keeps(book, sigs, open, s) THEN Primary(sigs, s).strength ELSE Absent
BY DEF Context

(* Told of another signal, the guardrails see the same account.            *)
LEMMA Told ==
    ASSUME NEW book, NEW sigs, NEW open, NEW s, NEW side
    PROVE  LET c == Context(book, sigs, open)  d == [c EXCEPT !.signals[s] = side] IN
           /\ d.positions = c.positions /\ d.universe = c.universe /\ d.equity_open = c.equity_open
           /\ d.equity = c.equity /\ d.cash = c.cash /\ d.bp = c.bp /\ d.values = c.values
BY DEF Context

(* An open that passes has room, and its rounded size stays within it.     *)
LEMMA Rounded ==
    ASSUME NEW n \in Int
    PROVE  /\ RoundEven(n, Fine) \in Int /\ 300 * RoundEven(n, Fine) <= n + 150
           /\ n >= 0 => RoundEven(n, Fine) >= 0
<1>. DEFINE q == n \div 300  r == n % 300
<1>1. q \in Int /\ r \in 0 .. 299 /\ n = 300 * q + r OBVIOUS
<1>2. RoundEven(n, Fine) = IF 2 * r > 300 \/ (2 * r = 300 /\ q % 2 = 1) THEN q + 1 ELSE q
  BY DEF RoundEven, Fine
<1>. HIDE DEF q, r
<1>3. RoundEven(n, Fine) = q \/ (2 * r >= 300 /\ RoundEven(n, Fine) = q + 1) BY <1>1, <1>2
<1>. QED BY <1>1, <1>3

LEMMA OpenHasRoom ==
    ASSUME NEW a, NEW c, ToolCall(a), AcceptsOpen(a, c),
           c.equity \in Int, c.cash \in Int, c.bp \in Int, c.values[a.symbol] \in Int
    PROVE  /\ Exposed(a, c) \in Int /\ MaxPct * c.equity \in Int
           /\ 100 * Exposed(a, c) < MaxPct * c.equity
           /\ Sized(a, c) = Ask(a.type, a.symbol, a.side, Sized(a, c).notional, a.stop)
           /\ Sized(a, c).notional \in Nat
           /\ 200 * (Exposed(a, c) + Sized(a, c).notional) <= 2 * (MaxPct * c.equity) + 100
<1>. DEFINE E == Exposed(a, c)  K == MaxPct * c.equity  n == Capped(a, c)  q == RoundEven(n, Fine)
<1>1. a.type = "order" /\ a.side \in {"buy", "short"} /\ a.notional \in Int /\ n > 0
      /\ a = Ask(a.type, a.symbol, a.side, a.notional, a.stop)
  BY Amounts DEF AcceptsOpen, ToolCall
<1>2. E \in Int BY DEF Exposed, AtLeast0
<1>3. K \in Int /\ PerTickPct * c.equity \in Int BY Amounts
<1>4. MaxPosValue(c) = 3 * K
  <2>1. Fine \div 100 = 3 BY DEF Fine
  <2>. QED BY <2>1, Amounts DEF MaxPosValue
<1>5. PerTickCap(c) \in Int
  <2>1. Fine \div 100 = 3 BY DEF Fine
  <2>. QED BY <2>1, Amounts DEF PerTickCap
<1>6. Afford(a, c) \in Int BY DEF Afford, Fine
<1>. HIDE DEF E, K
<1>7. Room(a, c) = AtLeast0(3 * K - 300 * E) BY <1>4 DEF Room, Fine, E
<1>8. Room(a, c) \in Int /\ (Room(a, c) > 0 => Room(a, c) = 3 * K - 300 * E) BY <1>2, <1>3, <1>7 DEF AtLeast0, E, K
<1>9. n \in Int /\ n <= Room(a, c)
  <2>1. \A x, y \in Int : Least(x, y) \in Int /\ Least(x, y) <= x /\ Least(x, y) <= y BY DEF Least
  <2>2. Fine * a.notional \in Int BY <1>1 DEF Fine
  <2>3. PICK x, y, u, w : x = Fine * a.notional /\ y = PerTickCap(c) /\ u = Room(a, c) /\ w = Afford(a, c)
    OBVIOUS
  <2>4. n = Least(Least(x, y), Least(u, w)) BY <2>3 DEF Capped
  <2>5. x \in Int /\ y \in Int /\ u \in Int /\ w \in Int BY <1>5, <1>6, <1>8, <2>2, <2>3
  <2>6. Least(x, y) \in Int /\ Least(u, w) \in Int /\ Least(u, w) <= u BY <2>1, <2>5
  <2>7. n \in Int /\ n <= Least(u, w) BY <2>1, <2>4, <2>6
  <2>. HIDE DEF n
  <2>. QED BY <2>3, <2>5, <2>6, <2>7
<1>. HIDE DEF n
<1>10. n <= 3 * K - 300 * E /\ 300 * E < 3 * K BY <1>1, <1>2, <1>3, <1>8, <1>9 DEF E, K
<1>11. q \in Nat /\ 300 * q <= n + 150 BY <1>1, <1>9, Rounded DEF n
<1>12. Sized(a, c) = [a EXCEPT !.notional = q] BY DEF Sized, n
<1>13. Sized(a, c).notional = q /\ Sized(a, c) = Ask(a.type, a.symbol, a.side, q, a.stop)
  <2>1. \A x : [Ask(a.type, a.symbol, a.side, a.notional, a.stop) EXCEPT !.notional = x]
                 = Ask(a.type, a.symbol, a.side, x, a.stop)
    BY DEF Ask
  <2>2. \A x : Ask(a.type, a.symbol, a.side, x, a.stop).notional = x BY DEF Ask
  <2>. QED BY <1>1, <1>12, <2>1, <2>2
<1>. HIDE DEF q
<1>14. E \in Int /\ K \in Int BY <1>2, <1>3 DEF E, K
<1>15. 100 * E < K /\ 200 * (E + q) <= 2 * K + 100 BY <1>9, <1>10, <1>11, <1>14
<1>. QED BY <1>11, <1>13, <1>14, <1>15 DEF E, K

(* The context of a book.                                                  *)
LEMMA ContextTypes ==
    ASSUME NEW book \in Books, NEW sigs, NEW open
    PROVE  LET c == Context(book, sigs, open) IN
           /\ c.equity \in Int /\ c.cash \in Int /\ c.bp \in Int
           /\ \A s \in DOMAIN c.signals : c.values[s] \in Int
           /\ \A s : Qty(c, s) = Qty(book, s)
BY BookTypes, ContextIs DEF Qty

LEMMA FilterKeeps == DecisionInv => FilterDropsNothing
<1>. SUFFICES ASSUME DecisionInv, stage = "manage", NEW s \in context.universe,
                     Primary(emitted, s) # Absent, WouldAllow(context, s, Side(Primary(emitted, s)))
              PROVE  context.signals[s] = Primary(emitted, s).action
  BY DEF FilterDropsNothing
<1>1. PICK book \in Books, open \in BOOLEAN : context = Context(book, emitted, open)
  BY DEF DecisionInv, Snapshot
<1>2. PICK p : p = Primary(emitted, s) OBVIOUS
<1>3. p # Absent /\ p.action \in {"buy", "short", "exit", "sell", "cover"}
  BY <1>2, OneOfThem DEF DecisionInv, Snapshot
<1>4. PICK side : side = p.action OBVIOUS
<1>5. WouldAllow(context, s, side) BY <1>2, <1>3, <1>4 DEF Side
<1>. DEFINE c == Context(book, emitted, open)
            d == [c EXCEPT !.signals[s] = side]
            a == IF side \in {"buy", "short"} THEN Ask("order", s, side, 1, 8)
                 ELSE Ask("order", s, IF side = "cover" THEN "cover" ELSE "sell", Absent, Absent)
<1>6. Accepts(a, d) BY <1>1, <1>5 DEF WouldAllow
<1>7. /\ d.positions = book.positions /\ d.universe = book.universe /\ d.equity_open = open
      /\ d.equity = Equity(book) /\ d.cash = book.cash /\ d.bp = BuyingPower(book) /\ d.values[s] = Value(book, s)
  BY <1>1, ContextIs, Told
<1>. HIDE DEF d
<1>8. a.symbol = s /\ (side \in {"buy", "short"} => a.side = side /\ ToolCall(a)) /\ a.type = "order"
      /\ (side \in {"exit", "sell"} => a.side = "sell") /\ (side = "cover" => a.side = "cover")
  BY DEF Ask, ToolCall
<1>. HIDE DEF a
<1>9. open \/ s \in Crypto BY <1>6, <1>7, <1>8 DEF Accepts, Tradable
<1>10. Actionable(side, Qty(book, s), Value(book, s), MaxPct * Equity(book))
  <2>1. CASE side \in {"buy", "short"}
    <3>1. AcceptsOpen(a, d) BY <1>6, <1>8, <2>1 DEF Accepts, AcceptsClose
    <3>2. 100 * Exposed(a, d) < MaxPct * Equity(book) BY <1>7, <1>8, <2>1, <3>1, BookTypes, OpenHasRoom
    <3>. QED BY <1>7, <1>8, <2>1, <3>2 DEF Exposed, Actionable
  <2>2. CASE side \in {"exit", "sell"}
    <3>1. s \in Longs(d) BY <1>6, <1>8, <2>2 DEF Accepts, AcceptsClose, AcceptsOpen
    <3>. QED BY <1>7, <2>2, <3>1 DEF Longs, Qty, Actionable
  <2>3. CASE side = "cover"
    <3>1. s \in Shorts(d) BY <1>6, <1>8, <2>3 DEF Accepts, AcceptsClose, AcceptsOpen
    <3>. QED BY <1>7, <2>3, <3>1 DEF Shorts, Qty, Actionable
  <2>. QED BY <1>3, <1>4, <2>1, <2>2, <2>3
<1>11. Keeps(book, emitted, open, s) BY <1>2, <1>3, <1>4, <1>9, <1>10 DEF Keeps
<1>. QED BY <1>1, <1>11, ContextIs

(* What is placed is flat, or an open that its symbol's signal backs.      *)
LEMMA Placed ==
    ASSUME DecisionInv, stage = "apply", NEW i \in valid
    PROVE  LET b == answered[i]  a == Sized(b, context) IN
           /\ ToolCall(b) /\ Accepts(b, context) /\ i \in DOMAIN answered
           /\ b.symbol \in DOMAIN context.signals /\ b.symbol \in DOMAIN holding
           /\ a.symbol = b.symbol
           /\ \/ Filled(a) = 0
              \/ b.side = "buy" /\ AcceptsOpen(b, context) /\ Filled(a) = holding[b.symbol] + a.notional
              \/ b.side = "short" /\ AcceptsOpen(b, context) /\ Filled(a) = holding[b.symbol] - a.notional
<1>. DEFINE b == answered[i]  a == Sized(b, context)
<1>1. PICK book \in Books, open \in BOOLEAN : context = Context(book, emitted, open)
  BY DEF DecisionInv, Snapshot
<1>2. ToolCall(b) /\ Accepts(b, context) /\ i \in DOMAIN answered BY DEF DecisionInv, Vetted, validate
<1>3. b.symbol \in DOMAIN context.signals BY <1>1, <1>2, ContextIs DEF Accepts, Tradable
<1>4. b.symbol \in DOMAIN holding BY <1>3 DEF DecisionInv, Snapshot
<1>5. CASE AcceptsOpen(b, context)
  <2>1. a = Ask(b.type, b.symbol, b.side, a.notional, b.stop) /\ b.side \in {"buy", "short"} /\ b.type = "order"
    BY <1>1, <1>2, <1>3, <1>5, ContextTypes, OpenHasRoom DEF AcceptsOpen
  <2>2. a.symbol = b.symbol /\ a.side = b.side /\ a.type = b.type BY <2>1 DEF Ask
  <2>. HIDE DEF a
  <2>3. a.type # "close" /\ (a.side = "buy" \/ a.side = "short") BY <2>1, <2>2
  <2>4. \/ a.side = "buy" /\ Filled(a) = holding[a.symbol] + a.notional
        \/ a.side = "short" /\ Filled(a) = holding[a.symbol] - a.notional
    BY <2>3 DEF Filled
  <2>5. a.symbol = b.symbol /\ (a.side = "buy" => b.side = "buy") /\ (a.side = "short" => b.side = "short") BY <2>2
  <2>. QED BY <1>2, <1>3, <1>4, <1>5, <2>4, <2>5 DEF a
<1>6. CASE ~AcceptsOpen(b, context)
  <2>1. a = b BY <1>6 DEF Sized
  <2>2. AcceptsClose(b, context) BY <1>2, <1>6 DEF Accepts
  <2>3. (b.type = "close" /\ b.side = Absent) \/ (b.type = "order" /\ b.side \in {"sell", "cover"})
    BY <1>2, <2>2 DEF AcceptsClose, ToolCall
  <2>4. Filled(b) = 0
    <3>1. b.side # "buy" /\ b.side # "short" BY <2>3, Amounts
    <3>. QED BY <2>3, <3>1 DEF Filled
  <2>. QED BY <1>2, <1>3, <1>4, <2>1, <2>4
<1>. QED BY <1>5, <1>6

LEMMA NextPlaced ==
    ASSUME DecisionInv, Place
    PROVE  \E i \in valid :
             /\ stage = "apply" /\ valid' = valid \ {i} /\ UNCHANGED <<stage, emitted, context, answered>>
             /\ \/ UNCHANGED holding
                \/ holding' = [holding EXCEPT ![answered[i].symbol] = Filled(Sized(answered[i], context))]
<1>1. PICK i \in valid :
        LET a == Sized(answered[i], context) IN
        (holding' = [holding EXCEPT ![a.symbol] = Filled(a)] \/ UNCHANGED holding) /\ valid' = valid \ {i}
  BY DEF Place
<1>2. stage = "apply" BY DEF Place
<1>3. Sized(answered[i], context).symbol = answered[i].symbol BY <1>2, Placed
<1>. QED BY <1>1, <1>2, <1>3 DEF Place

LEMMA FilledType ==
    ASSUME DecisionInv, stage = "apply", NEW i \in valid
    PROVE  /\ Filled(Sized(answered[i], context)) \in Int
           /\ holding[answered[i].symbol] \in Int
<1>. DEFINE b == answered[i]  a == Sized(b, context)
<1>1. PICK book \in Books, open \in BOOLEAN : context = Context(book, emitted, open)
  BY DEF DecisionInv, Snapshot
<1>2. ToolCall(b) /\ b.symbol \in DOMAIN context.signals /\ b.symbol \in DOMAIN holding BY Placed
<1>3. holding[b.symbol] \in Int BY <1>2 DEF DecisionInv, Snapshot
<1>4. AcceptsOpen(b, context) => a.notional \in Int BY <1>1, <1>2, ContextTypes, OpenHasRoom
<1>. HIDE DEF a
<1>5. \/ Filled(a) = 0
      \/ AcceptsOpen(b, context) /\ Filled(a) = holding[b.symbol] + a.notional
      \/ AcceptsOpen(b, context) /\ Filled(a) = holding[b.symbol] - a.notional
  BY Placed DEF a
<1>6. Filled(a) \in Int BY <1>3, <1>4, <1>5
<1>. QED BY <1>3, <1>6 DEF a

(* The manager's own fallback asks for what a tool call can.               *)
LEMMA FallbackCalls ==
    ASSUME DecisionInv, stage = "manage", NEW actions \in SetToSeqs(Fallback(context))
    PROVE  \A i \in DOMAIN actions : i \in Nat /\ ToolCall(actions[i])
<1>1. PICK book \in Books, open \in BOOLEAN : context = Context(book, emitted, open)
  BY DEF DecisionInv, Snapshot
<1>2. emitted \in Evaluations BY DEF DecisionInv, Snapshot
<1>3. ASSUME NEW s \in DOMAIN context.signals, context.signals[s] # Absent PROVE ToolCall(FallbackAction(context, s))
  <2>1. Keeps(book, emitted, open, s) /\ context.strength[s] = Primary(emitted, s).strength
    BY <1>1, <1>3, ContextIs
  <2>2. Primary(emitted, s) # Absent BY <2>1 DEF Keeps
  <2>3. context.strength[s] \in 0 .. 100 BY <1>2, <2>1, <2>2, OneOfThem
  <2>4. context.equity \in Int BY <1>1, ContextTypes
  <2>5. FallbackSize(context, s) \in Int
    <3>1. \A n \in Int : n \div 10000 \in Int OBVIOUS
    <3>2. \A n \in Int : RoundEven(n, 10000) \in Int BY <3>1 DEF RoundEven
    <3>3. context.equity * 8 * (50 + context.strength[s]) \in Int BY <2>3, <2>4
    <3>. QED BY <3>2, <3>3 DEF FallbackSize
  <2>6. \/ FallbackAction(context, s) = Ask("order", s, "buy", FallbackSize(context, s), Absent)
        \/ FallbackAction(context, s) = Ask("order", s, "short", FallbackSize(context, s), 8)
        \/ FallbackAction(context, s) = Ask("close", s, Absent, Absent, Absent)
    BY DEF FallbackAction
  <2>. QED BY <2>5, <2>6 DEF ToolCall, Ask
<1>4. \A a \in Fallback(context) : ToolCall(a) BY <1>3 DEF Fallback
<1>5. actions \in [1 .. Cardinality(Fallback(context)) -> Fallback(context)] BY DEF SetToSeqs
<1>6. \A i \in DOMAIN actions : i \in 1 .. Cardinality(Fallback(context)) /\ actions[i] \in Fallback(context) BY <1>5
<1>7. \A n, i : i \in 1 .. n => i \in Nat OBVIOUS
<1>. QED BY <1>4, <1>6, <1>7

LEMMA NextDecision == DecisionInv /\ [TickNext]_tickVars => DecisionInv'
<1>. SUFFICES ASSUME DecisionInv, [TickNext]_tickVars PROVE DecisionInv' OBVIOUS
<1>1. CASE UNCHANGED tickVars BY <1>1 DEF tickVars, DecisionInv, Snapshot, Vetted, Twice
<1>2. ASSUME NEW book \in Books, NEW sigs \in Evaluations, NEW active \in BOOLEAN, NEW open \in BOOLEAN,
             Decide(book, sigs, active, open)
      PROVE  DecisionInv'
  <2>1. CASE stage' = "skipped" BY <2>1 DEF DecisionInv, Snapshot, Vetted
  <2>2. CASE stage' # "skipped"
    <3>. DEFINE c == Context(book, sigs, open)
    <3>1. /\ stage' = "manage" /\ emitted' = sigs /\ context' = c
          /\ holding' = [s \in DOMAIN c.signals |-> Qty(book, s)]
      BY <1>2, <2>2 DEF Decide
    <3>2. \A s : Qty(c, s) = Qty(book, s) /\ Qty(book, s) \in Int BY BookTypes, ContextTypes
    <3>. HIDE DEF c
    <3>3. holding' \in [DOMAIN c.signals -> Int] /\ \A s \in DOMAIN holding' : holding'[s] = Qty(c, s)
      BY <3>1, <3>2
    <3>4. Snapshot' BY <3>1, <3>3 DEF Snapshot, c
    <3>. QED BY <3>1, <3>4 DEF DecisionInv, Vetted
  <2>. QED BY <2>1, <2>2
<1>3. ASSUME NEW actions, \A i \in DOMAIN actions : i \in Nat /\ ToolCall(actions[i]), Answer(actions)
      PROVE  DecisionInv'
  <2>1. /\ stage = "manage" /\ stage' = "apply" /\ answered' = actions /\ valid' = validate(actions, context)
        /\ UNCHANGED <<emitted, context, holding>>
    BY <1>3 DEF Answer
  <2>2. Snapshot' BY <2>1 DEF DecisionInv, Snapshot
  <2>3. ASSUME NEW i \in valid' PROVE holding[actions[i].symbol] = Qty(context, actions[i].symbol)
    <3>1. PICK book \in Books, open \in BOOLEAN : context = Context(book, emitted, open)
      BY <2>1 DEF DecisionInv, Snapshot
    <3>2. actions[i].symbol \in context.universe BY <2>1, <2>3 DEF validate, Accepts, Tradable
    <3>3. actions[i].symbol \in DOMAIN holding BY <2>1, <3>1, <3>2, ContextIs DEF DecisionInv, Snapshot
    <3>. QED BY <2>1, <3>3 DEF DecisionInv, Snapshot
  <2>4. Vetted' BY <1>3, <2>1, <2>3 DEF Vetted
  <2>. QED BY <2>2, <2>4 DEF DecisionInv
<1>4. CASE Place
  <2>1. PICK i \in valid :
          /\ stage = "apply" /\ valid' = valid \ {i} /\ UNCHANGED <<stage, emitted, context, answered>>
          /\ \/ UNCHANGED holding
             \/ holding' = [holding EXCEPT ![answered[i].symbol] = Filled(Sized(answered[i], context))]
    BY <1>4, NextPlaced
  <2>2. holding \in [DOMAIN context.signals -> Int] /\ valid \subseteq validate(answered, context)
    BY <2>1 DEF DecisionInv, Snapshot, Vetted
  <2>3. /\ holding' \in [DOMAIN context.signals -> Int]
        /\ \A s \in DOMAIN context.signals : s # answered[i].symbol => holding'[s] = holding[s]
    BY <2>1, <2>2, FilledType
  <2>4. Snapshot' BY <2>1, <2>3 DEF DecisionInv, Snapshot
  <2>5. ASSUME ~Twice, NEW j \in valid' PROVE holding'[answered[j].symbol] = Qty(context, answered[j].symbol)
    <3>1. j \in valid /\ j # i /\ i \in DOMAIN answered /\ j \in DOMAIN answered BY <2>1, <2>2, <2>5 DEF validate
    <3>2. answered[j].symbol # answered[i].symbol BY <2>5, <3>1 DEF Twice
    <3>3. answered[j].symbol \in DOMAIN context.signals BY <2>1, <3>1, Placed
    <3>4. holding[answered[j].symbol] = Qty(context, answered[j].symbol) BY <2>1, <2>5, <3>1 DEF DecisionInv, Vetted
    <3>. QED BY <2>3, <3>2, <3>3, <3>4
  <2>6. Vetted' BY <2>1, <2>2, <2>5 DEF DecisionInv, Vetted, Twice
  <2>. QED BY <2>4, <2>6 DEF DecisionInv
<1>5. ASSUME stage = "manage", ByModel \/ ByFallback PROVE DecisionInv'
  <2>1. CASE ByModel
    <3>1. PICK actions \in Answers : Answer(actions) BY <2>1 DEF ByModel
    <3>2. \A i \in DOMAIN actions : i \in Nat /\ ToolCall(actions[i]) BY DecisionAssumption
    <3>. QED BY <1>3, <3>1, <3>2
  <2>2. CASE ByFallback
    <3>1. PICK actions \in SetToSeqs(Fallback(context)) : Answer(actions) BY <2>2 DEF ByFallback
    <3>2. \A i \in DOMAIN actions : i \in Nat /\ ToolCall(actions[i]) BY <1>5, FallbackCalls
    <3>. QED BY <1>3, <3>1, <3>2
  <2>. QED BY <1>5, <2>1, <2>2
<1>. QED BY <1>1, <1>2, <1>4, <1>5 DEF TickNext

LEMMA InitDecision == TickInit => DecisionInv
BY DEF TickInit, DecisionInv, Snapshot, Vetted

(* For any account, signals and guardrail limits: the filter that spares   *)
(* the model a call drops no signal whose trade the guardrails would let   *)
(* through.                                                                *)
THEOREM FilterIsHarmless == TickSpec => []FilterDropsNothing
BY InitDecision, NextDecision, FilterKeeps, PTL DEF TickSpec

(* A position that grows has its signal.                                   *)
Emits(s, side) == \E i \in DOMAIN emitted : emitted[i].symbol = s /\ emitted[i].action = side

LEMMA StepBacked ==
    ASSUME DecisionInv, stage = "apply", Place, NEW s \in DOMAIN holding
    PROVE  /\ (holding'[s] > holding[s] /\ holding'[s] > 0) => Emits(s, "buy")
           /\ (holding'[s] < holding[s] /\ holding'[s] < 0) => Emits(s, "short")
<1>. DEFINE Goal == /\ (holding'[s] > holding[s] /\ holding'[s] > 0) => Emits(s, "buy")
                    /\ (holding'[s] < holding[s] /\ holding'[s] < 0) => Emits(s, "short")
<1>1. PICK i \in valid :
        \/ UNCHANGED holding
        \/ holding' = [holding EXCEPT ![answered[i].symbol] = Filled(Sized(answered[i], context))]
  BY NextPlaced
<1>. DEFINE b == answered[i]  a == Sized(b, context)
<1>2. PICK book \in Books, open \in BOOLEAN : context = Context(book, emitted, open)
  BY DEF DecisionInv, Snapshot
<1>3. holding \in [DOMAIN context.signals -> Int] /\ emitted \in Evaluations BY DEF DecisionInv, Snapshot
<1>4. \A side \in {"buy", "short"} : s \in DOMAIN context.signals /\ context.signals[s] = side => Emits(s, side)
  <2>. SUFFICES ASSUME NEW side \in {"buy", "short"}, s \in DOMAIN context.signals, context.signals[s] = side
                PROVE  Emits(s, side)
    OBVIOUS
  <2>1. side # Absent BY Amounts
  <2>2. Keeps(book, emitted, open, s) /\ Primary(emitted, s).action = side BY <1>2, <2>1, ContextIs
  <2>3. Primary(emitted, s) # Absent BY <2>2 DEF Keeps
  <2>. QED BY <1>3, <2>2, <2>3, OneOfThem DEF Emits
<1>5. holding[s] \in Int BY <1>3
<1>6. ASSUME holding'[s] = holding[s] PROVE Goal BY <1>5, <1>6
<1>7. ASSUME holding'[s] # holding[s] PROVE Goal
  <2>1. s = b.symbol /\ holding'[s] = Filled(a) BY <1>1, <1>3, <1>7
  <2>2. ToolCall(b) /\ s \in DOMAIN context.signals BY <2>1, Placed
  <2>3. AcceptsOpen(b, context) => a.notional \in Nat /\ context.signals[s] = b.side
    BY <1>2, <2>1, <2>2, ContextTypes, OpenHasRoom DEF AcceptsOpen, Backed
  <2>4. \/ Filled(a) = 0
        \/ b.side = "buy" /\ AcceptsOpen(b, context) /\ Filled(a) = holding[s] + a.notional
        \/ b.side = "short" /\ AcceptsOpen(b, context) /\ Filled(a) = holding[s] - a.notional
    BY <2>1, Placed
  <2>. HIDE DEF a, b
  <2>5. ASSUME Filled(a) = 0 PROVE Goal BY <2>1, <2>5
  <2>6. ASSUME b.side = "buy", AcceptsOpen(b, context), Filled(a) = holding[s] + a.notional PROVE Goal
    <3>1. Emits(s, "buy") BY <1>4, <2>2, <2>3, <2>6
    <3>2. ~(holding'[s] < holding[s]) BY <1>5, <2>1, <2>3, <2>6
    <3>. QED BY <3>1, <3>2
  <2>7. ASSUME b.side = "short", AcceptsOpen(b, context), Filled(a) = holding[s] - a.notional PROVE Goal
    <3>1. Emits(s, "short") BY <1>4, <2>2, <2>3, <2>7
    <3>2. ~(holding'[s] > holding[s]) BY <1>5, <2>1, <2>3, <2>7
    <3>. QED BY <3>1, <3>2
  <2>. HIDE DEF Goal
  <2>. QED BY <2>4, <2>5, <2>6, <2>7
<1>. QED BY <1>6, <1>7

(* No order takes a position beyond the cap.                               *)
LEMMA StepCapped ==
    ASSUME DecisionInv, stage = "apply", ~Twice, Place, NEW s \in DOMAIN holding,
           Size(holding'[s]) > Size(holding[s]), Qty(context, s) # 0 => context.values[s] # 0
    PROVE  200 * Size(holding'[s]) <= 2 * Cap100 + 100
<1>1. PICK i \in valid :
        \/ UNCHANGED holding
        \/ holding' = [holding EXCEPT ![answered[i].symbol] = Filled(Sized(answered[i], context))]
  BY NextPlaced
<1>. DEFINE b == answered[i]  a == Sized(b, context)
<1>2. PICK book \in Books, open \in BOOLEAN : context = Context(book, emitted, open)
  BY DEF DecisionInv, Snapshot
<1>3. holding \in [DOMAIN context.signals -> Int] BY DEF DecisionInv, Snapshot
<1>4. holding[s] \in Int /\ s \in DOMAIN context.signals BY <1>3
<1>5. s = b.symbol /\ holding'[s] = Filled(a)
  <2>1. holding'[s] # holding[s] BY <1>4 DEF Size
  <2>. QED BY <1>1, <1>3, <2>1
<1>6. holding[s] = Qty(context, s) BY <1>5 DEF DecisionInv, Vetted
<1>7. context.values[s] = holding[s]
  <2>1. context.values[s] = Value(book, s) /\ Qty(context, s) = Qty(book, s) BY <1>2, <1>4, ContextIs, ContextTypes
  <2>. QED BY <1>6, <2>1 DEF Value
<1>8. ToolCall(b) BY Placed
<1>9. AcceptsOpen(b, context) => /\ Exposed(b, context) \in Int /\ a.notional \in Nat /\ MaxPct * context.equity \in Int
                                /\ 200 * (Exposed(b, context) + a.notional) <= 2 * (MaxPct * context.equity) + 100
  BY <1>2, <1>4, <1>5, <1>8, ContextTypes, OpenHasRoom
<1>10. \/ Filled(a) = 0
       \/ b.side = "buy" /\ AcceptsOpen(b, context) /\ Filled(a) = holding[s] + a.notional
       \/ b.side = "short" /\ AcceptsOpen(b, context) /\ Filled(a) = holding[s] - a.notional
  BY <1>5, Placed
<1>11. AcceptsOpen(b, context) => s \notin (IF b.side = "buy" THEN Shorts(context) ELSE Longs(context))
  BY <1>5 DEF AcceptsOpen
<1>12. Exposed(b, context) = IF b.side = "buy" THEN holding[s] ELSE AtLeast0(-holding[s])
  BY <1>5, <1>7 DEF Exposed
<1>. HIDE DEF a, b
<1>13. CASE Filled(a) = 0 BY <1>4, <1>5, <1>13 DEF Size
<1>14. CASE b.side = "buy" /\ AcceptsOpen(b, context) /\ Filled(a) = holding[s] + a.notional
  <2>1. holding[s] >= 0 BY <1>4, <1>6, <1>11, <1>14 DEF Shorts, Qty
  <2>2. Size(holding'[s]) = Exposed(b, context) + a.notional BY <1>4, <1>5, <1>9, <1>12, <1>14, <2>1 DEF Size
  <2>. QED BY <1>9, <1>14, <2>2 DEF Cap100
<1>15. CASE b.side = "short" /\ AcceptsOpen(b, context) /\ Filled(a) = holding[s] - a.notional
  <2>1. holding[s] <= 0 BY <1>4, <1>6, <1>11, <1>15 DEF Longs, Qty
  <2>2. Exposed(b, context) = -holding[s] BY <1>4, <1>12, <1>15, <2>1 DEF AtLeast0
  <2>3. Size(holding'[s]) = Exposed(b, context) + a.notional BY <1>4, <1>5, <1>9, <1>15, <2>1, <2>2 DEF Size
  <2>. QED BY <1>9, <1>15, <2>3 DEF Cap100
<1>. QED BY <1>10, <1>13, <1>14, <1>15

LEMMA StepAllowed ==
    DecisionInv /\ [TickNext]_tickVars =>
      /\ [stage = "apply" => \A s \in DOMAIN holding :
            LET emit(side) == \E i \in DOMAIN emitted : emitted[i].symbol = s /\ emitted[i].action = side
            IN  /\ holding'[s] > holding[s] /\ holding'[s] > 0 => emit("buy")
                /\ holding'[s] < holding[s] /\ holding'[s] < 0 => emit("short")]_tickVars
      /\ [stage = "apply" /\ ~Twice => \A s \in DOMAIN holding :
            Size(holding'[s]) > Size(holding[s]) /\ (Qty(context, s) # 0 => context.values[s] # 0)
               => 200 * Size(holding'[s]) <= 2 * Cap100 + 100]_tickVars
<1>1. ASSUME TickNext, stage = "apply" PROVE Place
  <2>1. ~\E book \in Books, sigs \in Evaluations, active, open \in BOOLEAN : Decide(book, sigs, active, open)
    BY <1>1 DEF Decide
  <2>. QED BY <1>1, <2>1 DEF TickNext
<1>. QED BY <1>1, StepBacked, StepCapped DEF Emits

(* For any account, signals and answer of the model: no position grows     *)
(* without a strategy's signal for that side, and, with a mark and one     *)
(* action for each symbol, none beyond the cap.                            *)
THEOREM OrdersStayAllowed == TickSpec => OrdersAreAllowed
BY InitDecision, NextDecision, StepAllowed, PTL DEF TickSpec, OrdersAreAllowed, NeverOriginates, CapKept

-----------------------------------------------------------------------------
(***************************************************************************)
(* PriceStore.  A bar that is in no archive is in the cache and younger    *)
(* than the last flush by all but the calls then in flight (Recent): the   *)
(* cache trims only bars older than that.  The flush under way leaves      *)
(* behind no more than what came after it had read the cache (Flushing),   *)
(* and an expiring cache has been read since it was written (Clean).       *)
(***************************************************************************)
Seen(bars, n) == DOMAIN bars \subseteq 1 .. n /\ \A t \in DOMAIN bars : bars[t] \in {Forming, Final}
TaskOK(x) ==
    /\ task[x].pc \in {"idle", "append", "archive"} /\ task[x].since \in 0 .. now /\ Seen(task[x].bars, now)
    /\ task[x].pc = "idle" => task[x] = Idle
    /\ task[x].pc # "idle" => now - task[x].since <= CallLag
StoreTypes ==
    /\ now \in 0 .. MaxTime /\ streamed \in 0 .. now /\ flushed \in 0 .. now
    /\ dirty \in BOOLEAN /\ faults \in 0 .. MaxFaults
    /\ Seen(hot, now) /\ Seen(archive, now) /\ kept \subseteq 1 .. now
    /\ DOMAIN task = Tasks /\ \A x \in Tasks : TaskOK(x)
    /\ Cardinality(DOMAIN hot) <= HotLen
    /\ now - flushed <= FlushLag

Lag      == CallLag + PollWidth
Polling  == \A t \in DOMAIN task["poll"].bars : task["poll"].since - PollWidth < t
Recent   == \A t \in kept \ DOMAIN archive : t \in DOMAIN hot /\ flushed - Lag < t
Flushing == task["flush"].pc # "idle" =>
                /\ flushed <= task["flush"].since
                /\ \A t \in kept \ (DOMAIN archive \cup DOMAIN task["flush"].bars) : task["flush"].since - Lag < t
Clean    == ~dirty => kept \subseteq DOMAIN archive \cup DOMAIN task["flush"].bars
Covered  == Polling /\ Recent /\ Flushing /\ Clean
StoreIInv == StoreTypes /\ Covered

LEMMA StoreConstants ==
    /\ HotLen \in Nat /\ PollWidth \in Nat /\ FlushLag \in Nat /\ CallLag \in Nat /\ FillWidth \in Nat
    /\ MaxTime \in Nat /\ MaxFaults \in Nat
    /\ HotLen > 0 /\ FillWidth > 0 /\ PollWidth >= 2 /\ HotLen >= PollWidth + FlushLag + CallLag
    /\ "poll" \in Tasks /\ "flush" \in Tasks /\ "poll" # "flush"
    /\ \A x \in Fillers : x \in Tasks /\ x # "poll" /\ x # "flush"
<1>1. /\ {HotLen, DayLen, PollWidth, FillWidth} \cup Limits \subseteq Nat \ {0}
      /\ {MaxTime, MaxFaults, FlushLag, CallLag} \subseteq Nat
      /\ {"poll", "flush"} \cap Fillers = {}
      /\ PollWidth >= 2 /\ HotLen >= PollWidth + FlushLag + CallLag
  BY StoreAssumption
<1>2. HotLen \in Nat \ {0} /\ PollWidth \in Nat \ {0} /\ FillWidth \in Nat \ {0} BY <1>1
<1>3. MaxTime \in Nat /\ MaxFaults \in Nat /\ FlushLag \in Nat /\ CallLag \in Nat BY <1>1
<1>4. "poll" \in Tasks /\ "flush" \in Tasks /\ \A x \in Fillers : x \in Tasks /\ x # "poll" /\ x # "flush"
  BY <1>1 DEF Tasks
<1>. QED BY <1>1, <1>2, <1>3, <1>4

(* Of bars up to m, the n newest are at most n, and a bar that is not      *)
(* among them has n newer ones.                                            *)
LEMMA NewestAre ==
    ASSUME NEW m \in Nat, NEW S \in SUBSET (1 .. m), NEW n \in Nat
    PROVE  /\ NewestOf(S, n) \subseteq S
           /\ Cardinality(NewestOf(S, n)) <= n
           /\ \A t \in S : m - n < t => t \in NewestOf(S, n)
<1>. DEFINE Top == NewestOf(S, n)
            Above(t) == {u \in S : u > t}
<1>1. \A T \in SUBSET (1 .. m) : IsFiniteSet(T) /\ Cardinality(T) \in Nat
  <2>1. IsFiniteSet(1 .. m) BY FS_Interval
  <2>2. ASSUME NEW T \in SUBSET (1 .. m) PROVE IsFiniteSet(T) /\ Cardinality(T) \in Nat
    <3>1. IsFiniteSet(T) BY <2>1, FS_Subset
    <3>. QED BY <3>1, FS_CardinalityType
  <2>. QED BY <2>2
<1>2. Top \subseteq S /\ \A t \in S : t \in Top <=> Cardinality(Above(t)) < n BY DEF NewestOf
<1>. HIDE DEF Top
<1>3. ASSUME NEW t \in S, m - n < t PROVE t \in Top
  <2>1. t \in 1 .. m /\ S \subseteq 1 .. m OBVIOUS
  <2>2. Above(t) \subseteq (t + 1) .. m
    <3>1. ASSUME NEW u \in S, u > t PROVE u \in (t + 1) .. m BY <2>1, <3>1
    <3>. QED BY <3>1
  <2>3. IsFiniteSet((t + 1) .. m) /\ Cardinality((t + 1) .. m) = m - t
    <3>1. t + 1 \in Int /\ m \in Int /\ t + 1 <= m + 1 BY <2>1
    <3>. QED BY <2>1, <3>1, FS_Interval
  <2>4. Cardinality(Above(t)) <= m - t BY <2>3, <2>2, FS_Subset
  <2>5. Cardinality(Above(t)) \in Nat BY <1>1
  <2>6. Cardinality(Above(t)) < n BY <1>3, <2>1, <2>4, <2>5
  <2>. QED BY <1>2, <2>6
<1>4. Cardinality(Top) <= n
  <2>1. CASE Top = {} BY <2>1, FS_EmptySet
  <2>2. CASE Top # {}
    <3>1. Top \in SUBSET Nat BY <1>2
    <3>2. PICK x \in Top : \A y \in Top : x <= y BY <2>2, <3>1, LeastOf
    <3>3. x \in S /\ Cardinality(Above(x)) < n BY <1>2
    <3>4. IsFiniteSet(Above(x)) /\ Cardinality(Above(x)) \in Nat BY <1>1
    <3>5. x \notin Above(x) BY <3>1
    <3>6. IsFiniteSet(Above(x) \cup {x}) /\ Cardinality(Above(x) \cup {x}) = Cardinality(Above(x)) + 1
      BY <3>4, <3>5, FS_AddElement
    <3>7. Top \subseteq Above(x) \cup {x} BY <1>2, <3>1, <3>2
    <3>8. Cardinality(Top) <= Cardinality(Above(x) \cup {x}) BY <3>6, <3>7, FS_Subset
    <3>9. Cardinality(Top) \in Nat BY <1>1, <1>2
    <3>. QED BY <3>3, <3>4, <3>6, <3>8, <3>9
  <2>. QED BY <2>1, <2>2
<1>. QED BY <1>2, <1>3, <1>4 DEF Top

LEMMA BothOf == ASSUME NEW a, NEW b PROVE DOMAIN dedup_sort(a, b) = DOMAIN a \cup DOMAIN b
BY DEF dedup_sort

LEMMA Merged ==
    ASSUME NEW n, NEW a, NEW b, Seen(a, n), Seen(b, n)
    PROVE  Seen(dedup_sort(a, b), n)
BY DEF Seen, dedup_sort

LEMMA PartOf ==
    ASSUME NEW n, NEW a, Seen(a, n), NEW S
    PROVE  Seen(Only(a, S), n) /\ DOMAIN Only(a, S) = DOMAIN a \cap S
BY DEF Seen, Only

LEMMA Replied ==
    ASSUME StoreTypes, NEW w \in Nat
    PROVE  Seen(Reply(w), now) /\ \A t \in DOMAIN Reply(w) : now - w < t
BY StoreConstants DEF StoreTypes, Seen, Reply, Times, Forming, Final

LEMMA Appended ==
    ASSUME StoreTypes, NEW b, Seen(b, now), append_hot(b)
    PROVE  /\ Seen(hot', now) /\ Cardinality(DOMAIN hot') <= HotLen /\ dirty' = TRUE
           /\ DOMAIN hot' \subseteq DOMAIN hot \cup DOMAIN b
           /\ \A t \in DOMAIN hot \cup DOMAIN b : now - HotLen < t => t \in DOMAIN hot'
<1>. DEFINE d == dedup_sort(hot, b)
<1>1. Seen(hot, now) BY DEF StoreTypes
<1>2. Seen(d, now) /\ DOMAIN d = DOMAIN hot \cup DOMAIN b 
  <2>1. Seen(dedup_sort(hot, b), now) BY <1>1, Merged
  <2>2. DOMAIN dedup_sort(hot, b) = DOMAIN hot \cup DOMAIN b BY BothOf
  <2>. QED BY <2>1, <2>2
<1>3. now \in Nat /\ DOMAIN d \in SUBSET (1 .. now) BY <1>2 DEF StoreTypes, Seen
<1>4. hot' = Only(d, NewestOf(DOMAIN d, HotLen)) /\ dirty' = TRUE BY DEF append_hot, Newest
<1>. HIDE DEF d
<1>5. Seen(hot', now) /\ DOMAIN hot' = DOMAIN d \cap NewestOf(DOMAIN d, HotLen) BY <1>2, <1>4, PartOf
<1>6. /\ NewestOf(DOMAIN d, HotLen) \subseteq DOMAIN d
      /\ Cardinality(NewestOf(DOMAIN d, HotLen)) <= HotLen
      /\ \A t \in DOMAIN d : now - HotLen < t => t \in NewestOf(DOMAIN d, HotLen)
  BY <1>3, NewestAre, StoreConstants
<1>7. DOMAIN hot' = NewestOf(DOMAIN d, HotLen) BY <1>5, <1>6
<1>. QED BY <1>2, <1>4, <1>5, <1>6, <1>7

LEMMA Going ==
    ASSUME StoreTypes, NEW x \in Tasks, NEW w \in {"append", "archive"}, NEW b, Seen(b, now), Goes(x, w, b), now' = now
    PROVE  /\ DOMAIN task' = Tasks /\ \A y \in Tasks : TaskOK(y)'
           /\ task'[x] = [pc |-> w, bars |-> b, since |-> now]
           /\ \A y \in Tasks : y # x => task'[y] = task[y]
<1>1. /\ DOMAIN task' = Tasks
      /\ task'[x] = [pc |-> w, bars |-> b, since |-> now]
      /\ \A y \in Tasks : y # x => task'[y] = task[y]
  BY DEF Goes, StoreTypes
<1>2. now \in Nat BY DEF StoreTypes
<1>3. ASSUME NEW y \in Tasks, y # x PROVE TaskOK(y)' BY <1>1, <1>3 DEF StoreTypes, TaskOK
<1>4. TaskOK(x)'
  <2>1. task'[x].pc = w /\ task'[x].bars = b /\ task'[x].since = now BY <1>1
  <2>2. w # "idle" OBVIOUS
  <2>. QED BY <1>2, <2>1, <2>2, StoreConstants DEF TaskOK
<1>. QED BY <1>1, <1>3, <1>4

LEMMA IdleIs == Idle.pc = "idle" /\ Idle.bars = NoBars /\ Idle.since = 0 /\ DOMAIN NoBars = {}
BY DEF Idle, NoBars

LEMMA IdleOK == ASSUME NEW n \in Nat PROVE Seen(NoBars, n)
BY DEF NoBars, Seen

LEMMA Stopping ==
    ASSUME StoreTypes, NEW x \in Tasks, Stops(x), now' = now
    PROVE  /\ DOMAIN task' = Tasks /\ \A y \in Tasks : TaskOK(y)'
           /\ task'[x] = Idle
           /\ \A y \in Tasks : y # x => task'[y] = task[y]
<1>1. /\ DOMAIN task' = Tasks /\ task'[x] = Idle
      /\ \A y \in Tasks : y # x => task'[y] = task[y]
  BY DEF Stops, StoreTypes
<1>2. now \in Nat BY DEF StoreTypes
<1>3. ASSUME NEW y \in Tasks, y # x PROVE TaskOK(y)' BY <1>1, <1>3 DEF StoreTypes, TaskOK
<1>4. TaskOK(x)' BY <1>1, <1>2, IdleIs, IdleOK DEF TaskOK
<1>. QED BY <1>1, <1>3, <1>4

LEMMA Earlier == ASSUME NEW n \in Nat, NEW bars, Seen(bars, n) PROVE Seen(bars, n + 1)
BY DEF Seen

LEMMA StoreNumbers ==
    ASSUME StoreTypes
    PROVE  /\ now \in Nat /\ flushed \in Nat /\ flushed <= now /\ now - flushed <= FlushLag
           /\ \A x \in Tasks : /\ TaskOK(x) /\ task[x].since \in Nat /\ task[x].since <= now
                               /\ Seen(task[x].bars, now)
           /\ \A t \in kept : t \in Nat /\ t <= now
           /\ Lag \in Nat /\ HotLen >= FlushLag + Lag
BY StoreConstants DEF StoreTypes, TaskOK, Lag

(* The cache and what counts as kept after an append: the bars in S are    *)
(* young and are still in the cache.                                       *)
LEMMA AppendKeeps ==
    ASSUME StoreIInv, NEW b, Seen(b, now), append_hot(b),
           NEW S \in SUBSET DOMAIN hot', \A t \in S : now - Lag < t, kept' = kept \cup S,
           DOMAIN task' = Tasks, \A x \in Tasks : TaskOK(x)', Polling', task'["flush"] = task["flush"],
           streamed' \in 0 .. now, UNCHANGED <<now, archive, flushed, faults>>
    PROVE  StoreIInv'
<1>1. StoreTypes /\ Recent /\ Flushing BY DEF StoreIInv, Covered
<1>2. /\ Seen(hot', now) /\ Cardinality(DOMAIN hot') <= HotLen /\ dirty' = TRUE
      /\ \A t \in DOMAIN hot \cup DOMAIN b : now - HotLen < t => t \in DOMAIN hot'
  BY <1>1, Appended
<1>3. StoreTypes'
  <2>1. kept' \subseteq 1 .. now BY <1>1, <1>2 DEF StoreTypes, Seen
  <2>. QED BY <1>1, <1>2, <2>1 DEF StoreTypes
<1>4. S \subseteq Nat BY <1>2 DEF Seen
<1>5. Recent'
  <2>1. ASSUME NEW t \in kept \ DOMAIN archive PROVE t \in DOMAIN hot' /\ flushed - Lag < t
    <3>1. t \in DOMAIN hot /\ flushed - Lag < t BY <1>1 DEF Recent
    <3>2. now - HotLen < t BY <1>1, <3>1, StoreNumbers, StoreConstants
    <3>. QED BY <1>2, <3>1, <3>2
  <2>2. ASSUME NEW t \in S PROVE t \in DOMAIN hot' /\ flushed - Lag < t BY <1>1, <1>4, StoreNumbers
  <2>. QED BY <2>1, <2>2 DEF Recent, Lag
<1>6. Flushing'
  <2>1. ASSUME NEW t \in S PROVE task["flush"].since - Lag < t BY <1>1, <1>4, StoreNumbers, StoreConstants
  <2>. QED BY <1>1, <2>1 DEF Flushing, Lag
<1>7. Clean' BY <1>2 DEF Clean
<1>. QED BY <1>3, <1>5, <1>6, <1>7 DEF StoreIInv, Covered

(* The tasks but the flush may do as they like while no tier changes.      *)
LEMMA FetchKeeps ==
    ASSUME StoreIInv, DOMAIN task' = Tasks, \A x \in Tasks : TaskOK(x)', Polling', task'["flush"] = task["flush"],
           UNCHANGED <<live, now, streamed, hot, archive, kept, flushed, dirty, faults>>
    PROVE  StoreIInv'
<1>1. StoreTypes' BY DEF StoreIInv, StoreTypes
<1>2. Recent' /\ Flushing' /\ Clean' BY DEF StoreIInv, Covered, Recent, Flushing, Clean
<1>. QED BY <1>1, <1>2 DEF StoreIInv, Covered

(* A grown archive, as long as what is kept anew is in it.                 *)
LEMMA ArchiveKeeps ==
    ASSUME StoreIInv, Seen(archive', now), DOMAIN archive \subseteq DOMAIN archive',
           kept' \subseteq kept \cup DOMAIN archive', UNCHANGED <<now, hot, flushed>>
    PROVE  /\ kept' \subseteq 1 .. now /\ Recent'
           /\ task'["flush"] = task["flush"] => Flushing'
           /\ task'["flush"] = task["flush"] /\ dirty' = dirty => Clean'
<1>1. StoreTypes /\ Recent /\ Flushing /\ Clean BY DEF StoreIInv, Covered
<1>2. kept' \subseteq 1 .. now BY <1>1 DEF StoreTypes, Seen
<1>3. Recent' BY <1>1 DEF Recent
<1>4. task'["flush"] = task["flush"] => Flushing' BY <1>1 DEF Flushing
<1>5. task'["flush"] = task["flush"] /\ dirty' = dirty => Clean' BY <1>1 DEF Clean
<1>. QED BY <1>2, <1>3, <1>4, <1>5

LEMMA NextMarket == ASSUME StoreIInv, BarAppears PROVE StoreIInv'
<1>1. StoreTypes /\ Recent /\ Flushing /\ Clean /\ Polling BY DEF StoreIInv, Covered
<1>2. now' = now + 1 /\ now \in Nat /\ now' \in 0 .. MaxTime BY <1>1, StoreConstants DEF StoreTypes, BarAppears
<1>3. ASSUME NEW x \in Tasks PROVE TaskOK(x)'
  <2>1. TaskOK(x) /\ task' = task /\ Seen(task[x].bars, now + 1) BY <1>1, <1>2, Earlier, StoreNumbers DEF BarAppears
  <2>2. task[x].pc # "idle" => now - task[x].since < CallLag BY DEF BarAppears, Waiting
  <2>3. task[x].since \in 0 .. now + 1 /\ (task[x].pc # "idle" => now + 1 - task[x].since <= CallLag)
    BY <1>1, <1>2, <2>2, StoreNumbers, StoreConstants
  <2>. QED BY <1>2, <2>1, <2>3 DEF TaskOK
<1>4. StoreTypes'
  <2>1. Seen(hot, now + 1) /\ Seen(archive, now + 1) BY <1>1, <1>2, Earlier DEF StoreTypes
  <2>2. now + 1 - flushed <= FlushLag BY <1>1, <1>2, StoreNumbers, StoreConstants DEF BarAppears
  <2>3. kept \subseteq 1 .. now + 1 /\ streamed \in 0 .. now + 1 /\ flushed \in 0 .. now + 1 BY <1>1, <1>2 DEF StoreTypes
  <2>. QED BY <1>1, <1>2, <1>3, <2>1, <2>2, <2>3 DEF StoreTypes, BarAppears
<1>5. Recent' /\ Flushing' /\ Clean' /\ Polling' BY <1>1 DEF Recent, Flushing, Clean, Polling, BarAppears
<1>. QED BY <1>4, <1>5 DEF StoreIInv, Covered

LEMMA NextPoll == ASSUME StoreIInv, PollFetch \/ PollAppend PROVE StoreIInv'
<1>1. StoreTypes /\ Polling BY DEF StoreIInv, Covered
<1>2. CASE PollFetch
  <2>1. Seen(Reply(PollWidth), now) /\ \A t \in DOMAIN Reply(PollWidth) : now - PollWidth < t
    BY <1>1, Replied, StoreConstants
  <2>2. /\ DOMAIN task' = Tasks /\ \A y \in Tasks : TaskOK(y)'
        /\ task'["poll"] = [pc |-> "append", bars |-> Reply(PollWidth), since |-> now]
        /\ \A y \in Tasks : y # "poll" => task'[y] = task[y]
    BY <1>1, <1>2, <2>1, Going, StoreConstants DEF PollFetch
  <2>3. Polling' BY <2>1, <2>2 DEF Polling
  <2>4. task'["flush"] = task["flush"] BY <2>2, StoreConstants
  <2>. QED BY <1>2, <2>2, <2>3, <2>4, FetchKeeps DEF PollFetch
<1>3. CASE PollAppend
  <2>. DEFINE b == task["poll"].bars  S == DOMAIN b \cap DOMAIN hot'
  <2>1. /\ task["poll"].pc = "append" /\ append_hot(b) /\ kept' = kept \cup S /\ Stops("poll")
        /\ UNCHANGED <<now, streamed, archive, flushed, faults>>
    BY <1>3 DEF PollAppend
  <2>2. /\ DOMAIN task' = Tasks /\ task'["poll"] = Idle /\ \A y \in Tasks : TaskOK(y)'
        /\ \A y \in Tasks : y # "poll" => task'[y] = task[y]
    BY <1>1, <2>1, Stopping, StoreConstants
  <2>3. Seen(b, now) /\ now - task["poll"].since <= CallLag
    BY <1>1, <2>1, StoreNumbers, StoreConstants DEF TaskOK
  <2>4. ASSUME NEW t \in S PROVE now - Lag < t
    <3>1. task["poll"].since - PollWidth < t /\ t \in Nat BY <1>1, <2>3 DEF Polling, Seen
    <3>. QED BY <1>1, <2>3, <3>1, StoreNumbers, StoreConstants DEF Lag
  <2>5. Polling'
    <3>1. task'["poll"] = Idle BY <2>2
    <3>2. DOMAIN task'["poll"].bars = {} BY <3>1, IdleIs
    <3>. QED BY <3>2 DEF Polling
  <2>6. task'["flush"] = task["flush"] /\ streamed' \in 0 .. now
    BY <1>1, <2>1, <2>2, StoreConstants DEF StoreTypes
  <2>. HIDE DEF b
  <2>. QED BY <2>1, <2>2, <2>3, <2>4, <2>5, <2>6, AppendKeeps
<1>. QED BY <1>2, <1>3

LEMMA NextStream == ASSUME StoreIInv, StreamBar PROVE StoreIInv'
<1>1. StoreTypes /\ Polling BY DEF StoreIInv, Covered
<1>. DEFINE b == [t \in {now - 1} |-> Final]  S == {now - 1} \cap DOMAIN hot'
<1>2. append_hot(b) /\ kept' = kept \cup S /\ UNCHANGED <<now, archive, task, flushed, faults>> BY DEF StreamBar
<1>3. now \in Nat /\ now - 1 \in 1 .. now /\ streamed' = now - 1
  <2>1. now \in Nat /\ streamed \in Nat BY <1>1 DEF StoreTypes
  <2>. QED BY <2>1 DEF StreamBar
<1>4. Seen(b, now) BY <1>3 DEF Seen
<1>5. ASSUME NEW t \in S PROVE now - Lag < t BY <1>3, StoreConstants DEF Lag
<1>6. DOMAIN task' = Tasks /\ \A x \in Tasks : TaskOK(x)' BY <1>1, <1>2 DEF StoreTypes, TaskOK
<1>7. Polling' /\ task'["flush"] = task["flush"] BY <1>1, <1>2 DEF Polling
<1>8. streamed' \in 0 .. now BY <1>3
<1>. HIDE DEF b
<1>. QED BY <1>2, <1>4, <1>5, <1>6, <1>7, <1>8, AppendKeeps

LEMMA NextFill == ASSUME StoreIInv, NEW x \in Fillers, Fill(x) PROVE StoreIInv'
<1>1. StoreTypes /\ Polling BY DEF StoreIInv, Covered
<1>2. x \in Tasks /\ x # "poll" /\ x # "flush" BY StoreConstants
<1>. DEFINE b == task[x].bars
<1>3. Seen(b, now) BY <1>1, <1>2, StoreNumbers
<1>4. CASE FillFetch(x)
  <2>1. Seen(Reply(FillWidth), now) BY <1>1, Replied, StoreConstants
  <2>2. /\ DOMAIN task' = Tasks /\ \A y \in Tasks : TaskOK(y)'
        /\ \A y \in Tasks : y # x => task'[y] = task[y]
    BY <1>1, <1>2, <1>4, <2>1, Going DEF FillFetch
  <2>3. task'["flush"] = task["flush"] /\ task'["poll"] = task["poll"] BY <1>2, <2>2, StoreConstants
  <2>4. Polling' BY <1>1, <2>3 DEF Polling
  <2>. QED BY <1>4, <2>2, <2>3, <2>4, FetchKeeps DEF FillFetch
<1>5. CASE FillAppend(x)
  <2>1. append_hot(b) /\ Goes(x, "archive", b) /\ UNCHANGED <<now, streamed, archive, kept, flushed, faults>>
    BY <1>5 DEF FillAppend
  <2>. HIDE DEF b
  <2>2. /\ DOMAIN task' = Tasks /\ \A y \in Tasks : TaskOK(y)'
        /\ \A y \in Tasks : y # x => task'[y] = task[y]
    BY <1>1, <1>2, <1>3, <2>1, Going
  <2>3. task'["flush"] = task["flush"] /\ task'["poll"] = task["poll"] BY <1>2, <2>2, StoreConstants
  <2>4. Polling' BY <1>1, <2>3 DEF Polling
  <2>5. streamed' \in 0 .. now BY <1>1, <2>1 DEF StoreTypes
  <2>6. kept' = kept \cup {} /\ {} \in SUBSET DOMAIN hot' /\ \A t \in {} : now - Lag < t BY <2>1
  <2>. QED BY <1>3, <2>1, <2>2, <2>3, <2>4, <2>5, <2>6, AppendKeeps
<1>6. CASE FillArchive(x)
  <2>1. /\ archive' = dedup_sort(archive, b) /\ kept' = kept \cup DOMAIN b /\ Stops(x)
        /\ UNCHANGED <<now, streamed, hot, flushed, dirty, faults>>
    BY <1>6 DEF FillArchive, write_parquet
  <2>2. /\ DOMAIN task' = Tasks /\ \A y \in Tasks : TaskOK(y)'
        /\ \A y \in Tasks : y # x => task'[y] = task[y]
    BY <1>1, <1>2, <2>1, Stopping
  <2>3. task'["flush"] = task["flush"] /\ task'["poll"] = task["poll"] BY <1>2, <2>2, StoreConstants
  <2>4. Seen(archive, now) BY <1>1 DEF StoreTypes
  <2>5. Seen(archive', now) BY <1>3, <2>1, <2>4, Merged
  <2>6. DOMAIN archive' = DOMAIN archive \cup DOMAIN b BY <2>1, BothOf
  <2>7. kept' \subseteq 1 .. now /\ Recent' /\ Flushing' /\ Clean' BY <2>1, <2>3, <2>5, <2>6, ArchiveKeeps
  <2>8. Polling' BY <1>1, <2>3 DEF Polling
  <2>9. StoreTypes' BY <1>1, <2>1, <2>2, <2>5, <2>7 DEF StoreTypes
  <2>. QED BY <2>7, <2>8, <2>9 DEF StoreIInv, Covered
<1>. QED BY <1>4, <1>5, <1>6 DEF Fill

LEMMA NextFlush == ASSUME StoreIInv, FlushRead \/ FlushWrite \/ FlushFails PROVE StoreIInv'
<1>1. StoreTypes /\ Polling /\ Recent /\ Flushing /\ Clean BY DEF StoreIInv, Covered
<1>2. now \in Nat /\ Seen(hot, now) /\ Seen(archive, now) BY <1>1 DEF StoreTypes
<1>3. CASE FlushRead
  <2>1. Goes("flush", "archive", hot) /\ dirty' = FALSE
        /\ UNCHANGED <<now, streamed, hot, archive, kept, flushed, faults>>
    BY <1>3 DEF FlushRead
  <2>2. /\ DOMAIN task' = Tasks /\ \A y \in Tasks : TaskOK(y)'
        /\ task'["flush"] = [pc |-> "archive", bars |-> hot, since |-> now]
        /\ \A y \in Tasks : y # "flush" => task'[y] = task[y]
    BY <1>1, <1>2, <2>1, Going, StoreConstants
  <2>3. Polling' BY <1>1, <2>2, StoreConstants DEF Polling
  <2>4. StoreTypes' BY <1>1, <2>1, <2>2 DEF StoreTypes
  <2>5. Recent' BY <1>1, <2>1 DEF Recent, Lag
  <2>6. Flushing' /\ Clean' BY <1>1, <2>1, <2>2, StoreNumbers DEF Recent, Flushing, Clean
  <2>. QED BY <2>3, <2>4, <2>5, <2>6 DEF StoreIInv, Covered
<1>4. CASE FlushWrite
  <2>. DEFINE b == task["flush"].bars  s == task["flush"].since
  <2>1. /\ task["flush"].pc = "archive" /\ archive' = dedup_sort(archive, b) /\ flushed' = s /\ Stops("flush")
        /\ UNCHANGED <<now, streamed, hot, kept, dirty, faults>>
    BY <1>4 DEF FlushWrite, write_parquet
  <2>2. /\ DOMAIN task' = Tasks /\ task'["flush"] = Idle /\ \A y \in Tasks : TaskOK(y)'
        /\ \A y \in Tasks : y # "flush" => task'[y] = task[y]
    BY <1>1, <2>1, Stopping, StoreConstants
  <2>3. Seen(b, now) /\ s \in 0 .. now /\ s \in Nat BY <1>1, StoreNumbers, StoreConstants
  <2>4. Seen(archive', now) BY <1>2, <2>1, <2>3, Merged
  <2>5. DOMAIN archive' = DOMAIN archive \cup DOMAIN b BY <2>1, BothOf
  <2>6. flushed <= s /\ \A t \in kept \ DOMAIN archive' : s - Lag < t BY <1>1, <2>1, <2>5 DEF Flushing
  <2>7. Polling' BY <1>1, <2>2, StoreConstants DEF Polling
  <2>8. now - s <= FlushLag BY <1>1, <2>3, <2>6, StoreNumbers, StoreConstants
  <2>9. StoreTypes' BY <1>1, <2>1, <2>2, <2>3, <2>4, <2>8 DEF StoreTypes
  <2>10. Recent' BY <1>1, <2>1, <2>5, <2>6 DEF Recent, Lag
  <2>11. Flushing'
    <3>1. task'["flush"] = Idle BY <2>2
    <3>2. task'["flush"].pc = "idle" BY <3>1, IdleIs
    <3>. QED BY <3>2 DEF Flushing
  <2>12. Clean' BY <1>1, <2>1, <2>5 DEF Clean
  <2>. QED BY <2>7, <2>9, <2>10, <2>11, <2>12 DEF StoreIInv, Covered
<1>5. CASE FlushFails
  <2>1. /\ dirty' = TRUE /\ Stops("flush") /\ faults' \in 0 .. MaxFaults
        /\ UNCHANGED <<now, streamed, hot, archive, kept, flushed>>
    BY <1>1, <1>5, StoreConstants DEF FlushFails, StoreTypes
  <2>2. /\ DOMAIN task' = Tasks /\ task'["flush"] = Idle /\ \A y \in Tasks : TaskOK(y)'
        /\ \A y \in Tasks : y # "flush" => task'[y] = task[y]
    BY <1>1, <2>1, Stopping, StoreConstants
  <2>3. Polling' BY <1>1, <2>2, StoreConstants DEF Polling
  <2>4. StoreTypes' BY <1>1, <2>1, <2>2 DEF StoreTypes
  <2>5. Recent' BY <1>1, <2>1 DEF Recent, Lag
  <2>6. Flushing' /\ Clean'
    <3>1. task'["flush"] = Idle BY <2>2
    <3>2. task'["flush"].pc = "idle" BY <3>1, IdleIs
    <3>. QED BY <2>1, <3>2 DEF Flushing, Clean
  <2>. QED BY <2>3, <2>4, <2>5, <2>6 DEF StoreIInv, Covered
<1>. QED BY <1>3, <1>4, <1>5

LEMMA NextFault == ASSUME StoreIInv, StoreCrash \/ Expire PROVE StoreIInv'
<1>1. StoreTypes /\ Polling /\ Recent /\ Flushing /\ Clean BY DEF StoreIInv, Covered
<1>2. now \in Nat /\ Seen(hot, now) /\ Seen(archive, now) BY <1>1 DEF StoreTypes
<1>3. task["flush"].pc = "idle" => task["flush"].bars = NoBars BY <1>1, <1>2, IdleIs, StoreConstants DEF StoreTypes, TaskOK
<1>4. CASE StoreCrash
  <2>1. /\ faults' \in 0 .. MaxFaults /\ task' = [x \in Tasks |-> Idle]
        /\ dirty' = (dirty \/ task["flush"].pc # "idle")
        /\ UNCHANGED <<now, streamed, hot, kept, flushed>>
    BY <1>1, <1>4, StoreConstants DEF StoreCrash, StoreTypes
  <2>2. Seen(archive', now) /\ DOMAIN archive \subseteq DOMAIN archive'
    <3>1. CASE UNCHANGED archive BY <1>2, <3>1
    <3>2. ASSUME NEW x \in Tasks, NEW T, archive' = dedup_sort(archive, Only(task[x].bars, T))
          PROVE  Seen(archive', now) /\ DOMAIN archive \subseteq DOMAIN archive'
      <4>1. Seen(task[x].bars, now) BY <1>1, StoreNumbers
      <4>2. Seen(Only(task[x].bars, T), now) BY <4>1, PartOf
      <4>3. Seen(dedup_sort(archive, Only(task[x].bars, T)), now) BY <1>2, <4>2, Merged
      <4>4. DOMAIN dedup_sort(archive, Only(task[x].bars, T)) = DOMAIN archive \cup DOMAIN Only(task[x].bars, T)
        BY BothOf
      <4>. QED BY <3>2, <4>3, <4>4
    <3>. QED BY <1>4, <3>1, <3>2 DEF StoreCrash
  <2>3. \A x \in Tasks : task'[x] = Idle BY <2>1
  <2>4. \A x \in Tasks : TaskOK(x)' BY <1>2, <2>1, <2>3, IdleIs, IdleOK DEF TaskOK
  <2>5. dirty' \in BOOLEAN BY <1>1, <2>1 DEF StoreTypes
  <2>6. StoreTypes' BY <1>1, <2>1, <2>2, <2>4, <2>5 DEF StoreTypes
  <2>7. Recent' BY <2>1, <2>2, ArchiveKeeps
  <2>8. Polling' /\ Flushing' BY <1>2, <2>3, IdleIs, StoreConstants DEF Polling, Flushing
  <2>9. Clean' BY <1>1, <1>2, <1>3, <2>1, <2>2, <2>3, IdleIs DEF Clean
  <2>. QED BY <2>6, <2>7, <2>8, <2>9 DEF StoreIInv, Covered
<1>5. CASE Expire
  <2>1. /\ ~dirty /\ task["flush"].pc = "idle" /\ hot' = NoBars /\ streamed' \in 0 .. now
        /\ UNCHANGED <<now, archive, task, kept, flushed, dirty, faults>>
    BY <1>2, <1>5, StoreConstants DEF Expire, Waiting
  <2>2. kept \subseteq DOMAIN archive BY <1>1, <1>2, <1>3, <2>1, IdleIs DEF Clean
  <2>3. Seen(hot', now) /\ Cardinality(DOMAIN hot') <= HotLen BY <1>2, <2>1, IdleIs, IdleOK, FS_EmptySet, StoreConstants
  <2>4. StoreTypes' BY <1>1, <2>1, <2>3 DEF StoreTypes, TaskOK
  <2>5. Recent' BY <2>1, <2>2 DEF Recent
  <2>6. Polling' /\ Flushing' /\ Clean' BY <1>1, <2>1 DEF Polling, Flushing, Clean
  <2>. QED BY <2>4, <2>5, <2>6 DEF StoreIInv, Covered
<1>. QED BY <1>4, <1>5

LEMMA NextStored == StoreIInv /\ [StoreNext]_storeVars => StoreIInv'
<1>. SUFFICES ASSUME StoreIInv, [StoreNext]_storeVars PROVE StoreIInv' OBVIOUS
<1>1. CASE UNCHANGED storeVars
  BY <1>1 DEF storeVars, StoreIInv, StoreTypes, TaskOK, Covered, Polling, Recent, Flushing, Clean
<1>. QED BY <1>1, NextMarket, NextPoll, NextStream, NextFill, NextFlush, NextFault DEF StoreNext

LEMMA InitStored == StoreInit => StoreIInv
<1>. SUFFICES ASSUME StoreInit PROVE StoreIInv OBVIOUS
<1>1. /\ now = 0 /\ streamed = 0 /\ hot = NoBars /\ archive = NoBars /\ kept = {} /\ flushed = 0
      /\ dirty = FALSE /\ faults = 0 /\ DOMAIN task = Tasks /\ \A x \in Tasks : task[x] = Idle
  BY DEF StoreInit
<1>2. Seen(NoBars, 0) /\ Idle.pc = "idle" /\ Idle.bars = NoBars /\ Idle.since = 0 /\ DOMAIN NoBars = {} BY IdleIs, IdleOK
<1>3. \A x \in Tasks : TaskOK(x) BY <1>1, <1>2 DEF TaskOK
<1>4. StoreTypes
  <2>1. Cardinality(DOMAIN hot) <= HotLen /\ now - flushed <= FlushLag
    BY <1>1, <1>2, FS_EmptySet, StoreConstants
  <2>2. now \in 0 .. MaxTime /\ faults \in 0 .. MaxFaults BY <1>1, StoreConstants
  <2>3. streamed \in 0 .. now /\ flushed \in 0 .. now /\ kept \subseteq 1 .. now BY <1>1
  <2>4. Seen(hot, now) /\ Seen(archive, now) BY <1>1, <1>2
  <2>5. dirty \in BOOLEAN BY <1>1
  <2>. QED BY <1>1, <1>3, <2>1, <2>2, <2>3, <2>4, <2>5 DEF StoreTypes
<1>5. Covered BY <1>1, <1>2, StoreConstants DEF Covered, Polling, Recent, Flushing, Clean
<1>. QED BY <1>4, <1>5 DEF StoreIInv

LEMMA StoredIsSafe == StoreIInv => StoreInv
<1>. SUFFICES ASSUME StoreIInv PROVE StoreInv OBVIOUS
<1>1. StoreTypes /\ Recent BY DEF StoreIInv, Covered
<1>2. now \in Nat /\ 1 .. now \subseteq Times BY <1>1, StoreConstants DEF StoreTypes, Times
<1>3. NothingLost BY <1>1 DEF Recent, NothingLost
<1>4. ASSUME NEW bars, Seen(bars, now)
      PROVE  DOMAIN bars \subseteq Times /\ \A t \in DOMAIN bars : bars[t] \in {Forming, Final}
  BY <1>2, <1>4 DEF Seen
<1>5. \A x \in Tasks : /\ task[x].pc \in {"idle", "append", "archive"} /\ task[x].since \in 0 .. now
                       /\ Seen(task[x].bars, now)
  BY <1>1 DEF StoreTypes, TaskOK
<1>6. \A bars \in {hot, archive} \cup {task[x].bars : x \in Tasks} : Seen(bars, now)
  BY <1>1, <1>5 DEF StoreTypes
<1>7. StoreTypeOK BY <1>1, <1>2, <1>4, <1>5, <1>6 DEF StoreTypes, StoreTypeOK
<1>. QED BY <1>3, <1>7 DEF StoreInv

(* For any cache length, widths, lags, fills, polls, flushes that fail and *)
(* crashes: no bar of the live path or of a completed fill is lost.        *)
THEOREM NoBarIsLost == StoreSpec => []StoreInv
BY InitStored, NextStored, StoredIsSafe, PTL DEF StoreSpec

-----------------------------------------------------------------------------
(***************************************************************************)
(* What readers see.  A bar of the archive is in the cache, or HotLen newer*)
(* ones are (InHot), or it is older than the whole cache (Ordered): so     *)
(* readers may ask the archive for older bars only.  What a task has still *)
(* to write respects this (Reach): a fetched window has no gap, and what   *)
(* was archived since is in the cache.  A stream goes on where it was when *)
(* the cache expired (Streaming).                                          *)
(***************************************************************************)
InHot(t)  == t \in DOMAIN hot \/ HotLen <= Cardinality({u \in DOMAIN hot : u > t})
Ordered   == \A t \in DOMAIN archive : InHot(t) \/ \A u \in DOMAIN hot : t < u
Streaming == live = "stream" => \A t \in DOMAIN archive : streamed < t => InHot(t)
Reach(x)  == /\ task[x].pc = "archive" => \A t \in DOMAIN task[x].bars : InHot(t)
             /\ task[x].pc = "append" =>
                    \A t \in DOMAIN archive : (\E u \in DOMAIN task[x].bars : u < t) => t \in DOMAIN task[x].bars \/ InHot(t)
Reaching  == Ordered /\ Streaming /\ \A x \in Tasks : Reach(x)

LEMMA Counts ==
    ASSUME NEW m \in Nat, NEW S \in SUBSET (1 .. m)
    PROVE  IsFiniteSet(S) /\ Cardinality(S) \in Nat
<1>1. IsFiniteSet(1 .. m) BY FS_Interval
<1>2. IsFiniteSet(S) BY <1>1, FS_Subset
<1>. QED BY <1>2, FS_CardinalityType

LEMMA GreatestOf ==
    ASSUME NEW m \in Nat, NEW S \in SUBSET (1 .. m), S # {}
    PROVE  \E x \in S : \A y \in S : y <= x
<1>. DEFINE T == {m - u : u \in S}
<1>0. \A u \in S : m - u \in Nat
  <2>1. \A u \in S : u \in 1 .. m OBVIOUS
  <2>. QED BY <2>1
<1>1. T \in SUBSET Nat /\ T # {} BY <1>0
<1>2. PICK n \in T : \A k \in T : n <= k BY <1>1, LeastOf
<1>3. PICK x \in S : n = m - x OBVIOUS
<1>4. ASSUME NEW y \in S PROVE y <= x
  <2>1. m - y \in T /\ x \in 1 .. m /\ y \in 1 .. m OBVIOUS
  <2>2. m - x <= m - y BY <1>2, <1>3, <2>1
  <2>. QED BY <2>1, <2>2
<1>. QED BY <1>4

(* The newest are an end of the set, and as many as are asked for.         *)
LEMMA NewestFull ==
    ASSUME NEW m \in Nat, NEW S \in SUBSET (1 .. m), NEW n \in Nat, NEW t \in Nat,
           n <= Cardinality({u \in S : u > t})
    PROVE  n <= Cardinality({u \in NewestOf(S, n) : u > t})
<1>. DEFINE Top == NewestOf(S, n)
            A == {u \in S : u > t}
            B == {u \in Top : u > t}
<1>1. Top \subseteq S /\ \A x \in S : Cardinality({u \in S : u > x}) < n => x \in Top BY DEF NewestOf
<1>2. A \in SUBSET (1 .. m) /\ B \in SUBSET (1 .. m) /\ B \subseteq A BY <1>1
<1>3. Cardinality(A) \in Nat /\ Cardinality(B) \in Nat BY <1>2, Counts
<1>4. ASSUME Cardinality(B) < n PROVE FALSE
  <2>1. A \ B # {} BY <1>2, <1>3, <1>4
  <2>2. A \ B \in SUBSET (1 .. m) BY <1>2
  <2>3. PICK x \in A \ B : \A y \in A \ B : y <= x BY <2>1, <2>2, GreatestOf
  <2>4. {u \in S : u > x} \subseteq B
    <3>1. ASSUME NEW u \in S, u > x PROVE u \in B
      <4>1. x \in Nat /\ u \in Nat /\ t < x BY <2>3
      <4>2. u \in A BY <3>1, <4>1
      <4>3. ~(u <= x) BY <3>1, <4>1
      <4>. QED BY <2>3, <4>2, <4>3
    <3>. QED BY <3>1
  <2>5. IsFiniteSet(B) BY <1>2, Counts
  <2>6. Cardinality({u \in S : u > x}) <= Cardinality(B) BY <2>4, <2>5, FS_Subset
  <2>7. {u \in S : u > x} \in SUBSET (1 .. m) OBVIOUS
  <2>8. Cardinality({u \in S : u > x}) \in Nat BY <2>7, Counts
  <2>9. x \in S /\ x > t BY <2>3
  <2>10. x \in Top BY <1>1, <1>3, <1>4, <2>6, <2>8, <2>9
  <2>. QED BY <2>3, <2>9, <2>10
<1>. QED BY <1>3, <1>4

LEMMA NewestAll ==
    ASSUME NEW m \in Nat, NEW S \in SUBSET (1 .. m), NEW n \in Nat, Cardinality(NewestOf(S, n)) < n
    PROVE  NewestOf(S, n) = S
<1>. DEFINE Top == NewestOf(S, n)
<1>1. Top \subseteq S /\ \A x \in S : Cardinality({u \in S : u > x}) < n => x \in Top BY DEF NewestOf
<1>2. Top \in SUBSET (1 .. m) BY <1>1
<1>3. Cardinality(Top) \in Nat /\ IsFiniteSet(Top) BY <1>2, Counts
<1>4. ASSUME S \ Top # {} PROVE FALSE
  <2>1. S \ Top \in SUBSET (1 .. m) OBVIOUS
  <2>2. PICK x \in S \ Top : \A y \in S \ Top : y <= x BY <1>4, <2>1, GreatestOf
  <2>3. {u \in S : u > x} \subseteq Top
    <3>1. ASSUME NEW u \in S, u > x PROVE u \in Top
      <4>1. x \in Nat /\ u \in Nat BY <2>2
      <4>2. ~(u <= x) BY <3>1, <4>1
      <4>. QED BY <2>2, <4>2
    <3>. QED BY <3>1
  <2>4. Cardinality({u \in S : u > x}) <= Cardinality(Top) BY <1>3, <2>3, FS_Subset
  <2>5. {u \in S : u > x} \in SUBSET (1 .. m) OBVIOUS
  <2>6. Cardinality({u \in S : u > x}) \in Nat BY <2>5, Counts
  <2>. QED BY <1>1, <1>3, <2>2, <2>4, <2>6
<1>. QED BY <1>1, <1>4

(* A bar older than as many as the cache has is older than all of them.    *)
LEMMA AboveAll ==
    ASSUME NEW m \in Nat, NEW S \in SUBSET (1 .. m), NEW n \in Nat, NEW t,
           Cardinality(S) <= n, n <= Cardinality({u \in S : u > t})
    PROVE  \A u \in S : t < u
<1>. DEFINE A == {u \in S : u > t}
<1>1. A \in SUBSET S /\ A \in SUBSET (1 .. m) OBVIOUS
<1>2. IsFiniteSet(S) /\ Cardinality(S) \in Nat /\ Cardinality(A) \in Nat BY <1>1, Counts
<1>3. Cardinality(A) <= Cardinality(S) BY <1>1, <1>2, FS_Subset
<1>4. Cardinality(S) = Cardinality(A) BY <1>2, <1>3
<1>5. S = A BY <1>1, <1>2, <1>4, FS_Subset
<1>. QED BY <1>5

(* Two tiers of which the archive only adds older bars: the newest of both *)
(* are the newest of the cache and, if these are too few, of the rest.     *)
LEMMA NewestOfBoth ==
    ASSUME NEW m \in Nat, NEW h \in SUBSET (1 .. m), NEW o \in SUBSET (1 .. m), NEW n \in Nat,
           \A t \in o : \A u \in h : t < u
    PROVE  /\ n <= Cardinality(NewestOf(h, n)) => NewestOf(o \cup h, n) = NewestOf(h, n)
           /\ \A k \in Nat : n <= k + Cardinality(h) => NewestOf(NewestOf(o, k) \cup h, n) = NewestOf(o \cup h, n)
<1>. DEFINE Above(S, t) == {u \in S : u > t}
<1>1. \A S, c, t : t \in NewestOf(S, c) <=> t \in S /\ Cardinality(Above(S, t)) < c BY DEF NewestOf
<1>2. \A t \in h : \A S \in SUBSET o : Above(S \cup h, t) = Above(h, t)
  <2>1. \A t \in h : \A u \in o : ~(u > t)
    <3>1. \A t \in h : \A u \in o : t \in Nat /\ u \in Nat /\ u < t OBVIOUS
    <3>. QED BY <3>1
  <2>. QED BY <2>1
<1>3. \A t \in o : \A S \in SUBSET o : Above(S \cup h, t) = Above(S, t) \cup h
  <2>1. \A t \in o : \A u \in h : u > t
    <3>1. \A t \in o : \A u \in h : t \in Nat /\ u \in Nat /\ t < u OBVIOUS
    <3>. QED BY <3>1
  <2>. QED BY <2>1
<1>4. IsFiniteSet(h) /\ Cardinality(h) \in Nat BY Counts
<1>5. \A t \in o : \A S \in SUBSET o : /\ Cardinality(Above(S, t)) \in Nat
                                       /\ Cardinality(Above(S, t) \cup h) = Cardinality(Above(S, t)) + Cardinality(h)
  <2>1. SUFFICES ASSUME NEW t \in o, NEW S \in SUBSET o
                 PROVE  /\ Cardinality(Above(S, t)) \in Nat
                        /\ Cardinality(Above(S, t) \cup h) = Cardinality(Above(S, t)) + Cardinality(h)
    OBVIOUS
  <2>2. Above(S, t) \in SUBSET (1 .. m) /\ Above(S, t) \in SUBSET o OBVIOUS
  <2>3. IsFiniteSet(Above(S, t)) /\ Cardinality(Above(S, t)) \in Nat BY <2>2, Counts
  <2>4. Above(S, t) \cap h = {}
    <3>1. \A u \in h : u \in Nat /\ (u \in o => u < u) OBVIOUS
    <3>. QED BY <2>2, <3>1
  <2>. HIDE DEF Above
  <2>5. Cardinality(Above(S, t) \cup h) = Cardinality(Above(S, t)) + Cardinality(h) - Cardinality({})
    BY <1>4, <2>3, <2>4, FS_Union
  <2>6. Cardinality({}) = 0 BY FS_EmptySet
  <2>. QED BY <1>4, <2>3, <2>5, <2>6
<1>. HIDE DEF Above
<1>6. ASSUME n <= Cardinality(NewestOf(h, n)) PROVE NewestOf(o \cup h, n) = NewestOf(h, n)
  <2>1. NewestOf(h, n) \in SUBSET h BY <1>1
  <2>2. Cardinality(NewestOf(h, n)) <= Cardinality(h) /\ Cardinality(NewestOf(h, n)) \in Nat
    <3>1. NewestOf(h, n) \in SUBSET (1 .. m) BY <2>1
    <3>. QED BY <1>4, <2>1, <3>1, FS_Subset, Counts
  <2>3. ASSUME NEW t \in o PROVE ~(Cardinality(Above(o \cup h, t)) < n)
    BY <1>3, <1>4, <1>5, <1>6, <2>2
  <2>4. ASSUME NEW t \in h PROVE Above(o \cup h, t) = Above(h, t) BY <1>2
  <2>5. ASSUME NEW t PROVE t \in NewestOf(o \cup h, n) <=> t \in NewestOf(h, n)
    <3>1. t \in NewestOf(o \cup h, n) <=> t \in o \cup h /\ Cardinality(Above(o \cup h, t)) < n BY <1>1
    <3>2. t \in NewestOf(h, n) <=> t \in h /\ Cardinality(Above(h, t)) < n BY <1>1
    <3>. QED BY <2>3, <2>4, <3>1, <3>2
  <2>. QED BY <2>5
<1>7. ASSUME NEW k \in Nat, n <= k + Cardinality(h) PROVE NewestOf(NewestOf(o, k) \cup h, n) = NewestOf(o \cup h, n)
  <2>. DEFINE p == NewestOf(o, k)
  <2>1. p \in SUBSET o BY <1>1
  <2>2. ASSUME NEW t \in p PROVE Above(p, t) = Above(o, t)
    <3>1. t \in o /\ Cardinality(Above(o, t)) < k BY <1>1
    <3>2. ASSUME NEW u \in o, u > t PROVE u \in p
      <4>1. Above(o, u) \subseteq Above(o, t)
        <5>1. \A w \in o : w \in Nat /\ u \in Nat /\ t \in Nat BY <3>1
        <5>2. \A w \in o : w > u => w > t BY <3>2, <5>1
        <5>. QED BY <5>2 DEF Above
      <4>2. Above(o, t) \in SUBSET (1 .. m) /\ Above(o, u) \in SUBSET (1 .. m) BY DEF Above
      <4>3. IsFiniteSet(Above(o, t)) /\ Cardinality(Above(o, t)) \in Nat /\ Cardinality(Above(o, u)) \in Nat
        BY <4>2, Counts
      <4>4. Cardinality(Above(o, u)) <= Cardinality(Above(o, t)) BY <4>1, <4>3, FS_Subset
      <4>5. Cardinality(Above(o, u)) < k BY <3>1, <4>3, <4>4
      <4>. QED BY <1>1, <4>5
    <3>. QED BY <2>1, <3>2 DEF Above
  <2>. HIDE DEF p
  <2>3. ASSUME NEW t \in o, t \notin p PROVE ~(Cardinality(Above(o \cup h, t)) < n)
    <3>1. ~(Cardinality(Above(o, t)) < k) BY <1>1, <2>3 DEF p
    <3>2. Cardinality(Above(o \cup h, t)) = Cardinality(Above(o, t)) + Cardinality(h) /\ Cardinality(Above(o, t)) \in Nat
      BY <1>3, <1>5
    <3>. QED BY <1>4, <1>7, <3>1, <3>2
  <2>4. ASSUME NEW t \in p PROVE Above(p \cup h, t) = Above(o \cup h, t)
    <3>1. Above(p \cup h, t) = Above(p, t) \cup h /\ Above(o \cup h, t) = Above(o, t) \cup h BY <1>3, <2>1
    <3>. QED BY <2>2, <3>1
  <2>5. ASSUME NEW t \in h PROVE Above(p \cup h, t) = Above(o \cup h, t)
    <3>1. Above(p \cup h, t) = Above(h, t) /\ Above(o \cup h, t) = Above(h, t) BY <1>2, <2>1
    <3>. QED BY <3>1
  <2>6. ASSUME NEW t PROVE t \in NewestOf(p \cup h, n) <=> t \in NewestOf(o \cup h, n)
    <3>1. t \in NewestOf(p \cup h, n) <=> t \in p \cup h /\ Cardinality(Above(p \cup h, t)) < n BY <1>1
    <3>2. t \in NewestOf(o \cup h, n) <=> t \in o \cup h /\ Cardinality(Above(o \cup h, t)) < n BY <1>1
    <3>. QED BY <2>1, <2>3, <2>4, <2>5, <3>1, <3>2
  <2>. QED BY <2>6 DEF p
<1>. QED BY <1>6, <1>7

(* Both tiers as one.                                                      *)
Both(H, A, S) == [t \in S |-> IF t \in DOMAIN H THEN H[t] ELSE A[t]]

LEMMA OnlyIs == ASSUME NEW f, NEW S \in SUBSET DOMAIN f PROVE Only(f, S) = [t \in S |-> f[t]] /\ DOMAIN Only(f, S) = S
<1>1. DOMAIN f \cap S = S OBVIOUS
<1>. QED BY <1>1 DEF Only

LEMMA NewestPart == ASSUME NEW S, NEW n PROVE NewestOf(S, n) \in SUBSET S
BY DEF NewestOf

(* get_bars returns the newest bars of both tiers, the cache's first.      *)
LEMMA ReadIs ==
    ASSUME NEW m \in Nat, m <= MaxTime, NEW H, NEW A, Seen(H, m), Seen(A, m), NEW limit \in Nat,
           \A t \in DOMAIN A : t \in DOMAIN H \/ \A u \in DOMAIN H : t < u
    PROVE  get_bars(H, A, limit) = Newest(dedup_sort(A, H), limit)
<1>. DEFINE h == DOMAIN H  a == DOMAIN A  o == a \ h
            All == NewestOf(a \cup h, limit)
            got == Newest(H, limit)
            Before == {t \in Times : \A u \in DOMAIN got : t < u}
            short == limit - Cardinality(DOMAIN got)
            rest == Newest(Only(A, Before), short + 50)
<1>1. h \in SUBSET (1 .. m) /\ a \in SUBSET (1 .. m) /\ o \in SUBSET (1 .. m) BY DEF Seen
<1>2. \A t \in o : \A u \in h : t < u OBVIOUS
<1>3. o \cup h = a \cup h OBVIOUS
<1>4. Newest(dedup_sort(A, H), limit) = Both(H, A, All)
  <2>1. DOMAIN dedup_sort(A, H) = a \cup h BY BothOf
  <2>2. All \in SUBSET (a \cup h) BY NewestPart
  <2>. HIDE DEF All
  <2>3. Only(dedup_sort(A, H), All) = [t \in All |-> dedup_sort(A, H)[t]] BY <2>1, <2>2, OnlyIs
  <2>4. \A t \in All : dedup_sort(A, H)[t] = IF t \in h THEN H[t] ELSE A[t] BY <2>2 DEF dedup_sort
  <2>5. [t \in All |-> dedup_sort(A, H)[t]] = Both(H, A, All) BY <2>4 DEF Both
  <2>. QED BY <2>1, <2>3, <2>5 DEF Newest, All
<1>5. DOMAIN got = NewestOf(h, limit) /\ got = [t \in NewestOf(h, limit) |-> H[t]]
  <2>1. NewestOf(h, limit) \in SUBSET DOMAIN H BY NewestPart
  <2>. QED BY <2>1, OnlyIs DEF Newest
<1>6. DOMAIN got \in SUBSET h /\ Cardinality(DOMAIN got) \in Nat
  <2>1. NewestOf(h, limit) \in SUBSET h BY NewestPart
  <2>2. NewestOf(h, limit) \in SUBSET (1 .. m) BY <1>1, <2>1
  <2>. QED BY <1>5, <2>1, <2>2, Counts
<1>7. get_bars(H, A, limit) = IF short <= 0 THEN got ELSE Newest(dedup_sort(rest, got), limit)
  BY DEF get_bars
<1>. HIDE DEF got
<1>10. /\ limit <= Cardinality(NewestOf(h, limit)) => NewestOf(o \cup h, limit) = NewestOf(h, limit)
       /\ \A k \in Nat : limit <= k + Cardinality(h) =>
              NewestOf(NewestOf(o, k) \cup h, limit) = NewestOf(o \cup h, limit)
  <2>. HIDE DEF h, o
  <2>. QED BY <1>1, <1>2, NewestOfBoth
<1>8. CASE short <= 0
  <2>0. Cardinality(NewestOf(h, limit)) = Cardinality(DOMAIN got) BY <1>5
  <2>1. limit <= Cardinality(NewestOf(h, limit)) BY <1>6, <1>8, <2>0
  <2>2. All = NewestOf(h, limit) BY <1>3, <1>10, <2>1
  <2>3. \A t \in NewestOf(h, limit) : t \in h BY <1>5, <1>6
  <2>4. got = Both(H, A, All) BY <1>5, <2>2, <2>3 DEF Both
  <2>. QED BY <1>4, <1>7, <1>8, <2>4
<1>9. CASE ~(short <= 0)
  <2>1. Cardinality(NewestOf(h, limit)) < limit BY <1>5, <1>6, <1>9
  <2>2. NewestOf(h, limit) = h BY <1>1, <2>1, NewestAll
  <2>3. DOMAIN got = h /\ \A t \in h : got[t] = H[t] BY <1>5, <2>2
  <2>4. short \in Nat /\ short + 50 \in Nat /\ limit <= short + 50 + Cardinality(h) BY <1>6, <1>9, <2>3
  <2>. DEFINE p == NewestOf(o, short + 50)
  <2>5. DOMAIN Only(A, Before) = o /\ \A t \in o : Only(A, Before)[t] = A[t]
    <3>1. ASSUME NEW t \in a PROVE t \in Before <=> t \notin h
      <4>1. t \in Times BY <1>1, StoreConstants DEF Times
      <4>2. t \in h => ~(t < t) BY <1>1
      <4>. QED BY <2>3, <4>1, <4>2
    <3>2. a \cap Before = o BY <3>1
    <3>. HIDE DEF Before
    <3>. QED BY <3>2 DEF Only
  <2>. HIDE DEF Before, short
  <2>6. p \in SUBSET o BY NewestPart
  <2>7. DOMAIN rest = p /\ \A t \in p : rest[t] = A[t]
    <3>1. rest = Only(Only(A, Before), p) BY <2>5 DEF Newest
    <3>2. p \in SUBSET DOMAIN Only(A, Before) BY <2>5, <2>6
    <3>3. Only(Only(A, Before), p) = [t \in p |-> Only(A, Before)[t]] /\ DOMAIN Only(Only(A, Before), p) = p
      BY <3>2, OnlyIs
    <3>. QED BY <2>5, <2>6, <3>1, <3>3
  <2>. HIDE DEF rest
  <2>. DEFINE D == dedup_sort(rest, got)
  <2>8. DOMAIN D = p \cup h BY <2>3, <2>7, BothOf
  <2>9. \A t \in p \cup h : D[t] = IF t \in h THEN H[t] ELSE A[t]
    <3>1. D = [t \in DOMAIN rest \cup DOMAIN got |-> IF t \in DOMAIN got THEN got[t] ELSE rest[t]] BY DEF dedup_sort
    <3>2. D = [t \in p \cup h |-> IF t \in h THEN got[t] ELSE rest[t]] BY <2>3, <2>7, <3>1
    <3>. HIDE DEF D
    <3>3. \A t \in p \cup h : D[t] = IF t \in h THEN got[t] ELSE rest[t] BY <3>2
    <3>. QED BY <2>3, <2>7, <3>3
  <2>10. NewestOf(p \cup h, limit) = All BY <1>3, <1>10, <2>4
  <2>11. All \in SUBSET (p \cup h) BY <2>10, NewestPart
  <2>. HIDE DEF D, p, All
  <2>12. Newest(D, limit) = Only(D, All) BY <2>8, <2>10 DEF Newest
  <2>13. Only(D, All) = [t \in All |-> D[t]] BY <2>8, <2>11, OnlyIs
  <2>14. [t \in All |-> D[t]] = Both(H, A, All)
    <3>1. \A t \in All : D[t] = IF t \in h THEN H[t] ELSE A[t] BY <2>9, <2>11
    <3>. QED BY <3>1 DEF Both
  <2>. QED BY <1>4, <1>7, <1>9, <2>12, <2>13, <2>14 DEF D
<1>. QED BY <1>8, <1>9

LEMMA ReachesOf ==
    ASSUME StoreTypes, NEW x \in Tasks
    PROVE  Seen(task[x].bars, now)
BY DEF StoreTypes, TaskOK

(* An append leaves in reach what was in reach, and what it brings.        *)
LEMMA AppendReaches ==
    ASSUME StoreTypes, NEW b, Seen(b, now), append_hot(b), NEW t \in Nat, InHot(t) \/ t \in DOMAIN b
    PROVE  InHot(t)'
<1>. DEFINE S == DOMAIN hot \cup DOMAIN b
            Above == {u \in S : u > t}
<1>1. now \in Nat /\ S \in SUBSET (1 .. now) /\ HotLen \in Nat BY StoreConstants DEF StoreTypes, Seen
<1>2. DOMAIN hot' = NewestOf(S, HotLen)
  <2>1. hot' = Newest(dedup_sort(hot, b), HotLen) BY DEF append_hot
  <2>2. DOMAIN dedup_sort(hot, b) = S BY BothOf
  <2>3. NewestOf(S, HotLen) \in SUBSET DOMAIN dedup_sort(hot, b) BY <2>2, NewestPart
  <2>. HIDE DEF S
  <2>. QED BY <2>1, <2>2, <2>3, OnlyIs DEF Newest
<1>3. Above \in SUBSET (1 .. now) BY <1>1
<1>4. IsFiniteSet(Above) /\ Cardinality(Above) \in Nat BY <1>1, <1>3, Counts
<1>5. CASE HotLen <= Cardinality(Above)
  <2>1. HotLen <= Cardinality({u \in NewestOf(S, HotLen) : u > t})
    <3>. HIDE DEF S
    <3>. QED BY <1>1, <1>5, NewestFull
  <2>. QED BY <1>2, <2>1 DEF InHot
<1>6. CASE ~(HotLen <= Cardinality(Above)) /\ t \in S
  <2>1. Cardinality(Above) < HotLen BY <1>1, <1>4, <1>6
  <2>2. t \in NewestOf(S, HotLen) BY <1>6, <2>1 DEF NewestOf
  <2>. QED BY <1>2, <2>2 DEF InHot
<1>7. CASE t \notin S
  <2>. DEFINE Cached == {u \in DOMAIN hot : u > t}
  <2>1. HotLen <= Cardinality(Cached) BY <1>7 DEF InHot
  <2>2. Cached \subseteq Above /\ Cached \in SUBSET (1 .. now) BY <1>3
  <2>3. Cardinality(Cached) <= Cardinality(Above) /\ Cardinality(Cached) \in Nat BY <1>1, <1>4, <2>2, FS_Subset, Counts
  <2>4. HotLen <= Cardinality(Above) BY <1>1, <1>4, <2>1, <2>3
  <2>. QED BY <1>5, <2>4
<1>. QED BY <1>5, <1>6, <1>7

(* A step that leaves the cache alone and archives only what is in reach.  *)
LEMMA ArchiveReaches ==
    ASSUME Reaching, hot' = hot, live' = live, streamed' = streamed,
           \A t \in DOMAIN archive' : t \in DOMAIN archive \/ InHot(t),
           \A x \in Tasks : \/ task'[x] = task[x]
                            \/ task'[x].pc = "idle"
                            \/ task'[x].pc = "archive" /\ \A t \in DOMAIN task'[x].bars : InHot(t)
                            \/ /\ task'[x].pc = "append"
                               /\ \A t \in DOMAIN archive' :
                                     (\E u \in DOMAIN task'[x].bars : u < t) => t \in DOMAIN task'[x].bars
    PROVE  Reaching'
<1>1. \A t : InHot(t)' <=> InHot(t) BY DEF InHot
<1>2. Ordered'
  <2>1. ASSUME NEW t \in DOMAIN archive' PROVE InHot(t) \/ \A u \in DOMAIN hot : t < u BY DEF Reaching, Ordered
  <2>. QED BY <1>1, <2>1 DEF Ordered
<1>3. Streaming'
  <2>1. ASSUME live = "stream", NEW t \in DOMAIN archive', streamed < t PROVE InHot(t) BY <2>1 DEF Reaching, Streaming
  <2>. QED BY <1>1, <2>1 DEF Streaming
<1>4. ASSUME NEW x \in Tasks PROVE Reach(x)'
  <2>1. Reach(x) BY DEF Reaching
  <2>2. ASSUME task'[x].pc = "archive", NEW t \in DOMAIN task'[x].bars PROVE InHot(t) BY <2>1, <2>2 DEF Reach
  <2>3. ASSUME task'[x].pc = "append", NEW t \in DOMAIN archive', \E u \in DOMAIN task'[x].bars : u < t
        PROVE  t \in DOMAIN task'[x].bars \/ InHot(t)
    BY <2>1, <2>3 DEF Reach
  <2>. QED BY <1>1, <2>2, <2>3 DEF Reach
<1>. QED BY <1>2, <1>3, <1>4 DEF Reaching

(* A step that appends bars among which no archived one is missing, unless *)
(* it is in reach.                                                         *)
LEMMA HotReaches ==
    ASSUME StoreTypes, Reaching, NEW b, Seen(b, now), append_hot(b), archive' = archive, live' = live,
           streamed' \in Nat, streamed <= streamed',
           \A t \in DOMAIN archive : (\E u \in DOMAIN b : u < t) => t \in DOMAIN b \/ InHot(t),
           \A x \in Tasks : \/ task'[x] = task[x]
                            \/ task'[x].pc = "idle"
                            \/ task'[x].pc = "archive" /\ task'[x].bars = b
    PROVE  Reaching'
<1>1. /\ \A t \in DOMAIN archive \cup DOMAIN hot \cup DOMAIN b : t \in Nat
      /\ \A x \in Tasks : \A t \in DOMAIN task[x].bars : t \in Nat
      /\ streamed \in Nat
  <2>1. now \in Nat /\ Seen(archive, now) /\ Seen(hot, now) /\ streamed \in 0 .. now BY DEF StoreTypes
  <2>2. \A x \in Tasks : Seen(task[x].bars, now) BY ReachesOf
  <2>. QED BY <2>1, <2>2 DEF Seen
<1>2. \A t \in Nat : InHot(t) \/ t \in DOMAIN b => InHot(t)' BY AppendReaches
<1>3. DOMAIN hot' \subseteq DOMAIN hot \cup DOMAIN b BY Appended
<1>4. Ordered'
  <2>1. ASSUME NEW t \in DOMAIN archive, ~InHot(t)' PROVE \A u \in DOMAIN hot' : t < u
    <3>1. t \in Nat /\ ~InHot(t) /\ t \notin DOMAIN b BY <1>1, <1>2, <2>1
    <3>2. \A u \in DOMAIN hot : t < u BY <3>1 DEF Reaching, Ordered
    <3>3. \A u \in DOMAIN b : ~(u < t) BY <3>1
    <3>4. \A u \in DOMAIN b : u \in Nat /\ u # t BY <1>1, <3>1
    <3>5. \A u \in DOMAIN b : t < u BY <3>1, <3>3, <3>4
    <3>. QED BY <1>3, <3>2, <3>5
  <2>. QED BY <2>1 DEF Ordered
<1>5. Streaming'
  <2>1. ASSUME live = "stream", NEW t \in DOMAIN archive, streamed' < t PROVE InHot(t)'
    <3>1. t \in Nat /\ streamed < t BY <1>1, <2>1
    <3>2. InHot(t) BY <2>1, <3>1 DEF Reaching, Streaming
    <3>. QED BY <1>2, <3>1, <3>2
  <2>. QED BY <2>1 DEF Streaming
<1>6. ASSUME NEW x \in Tasks PROVE Reach(x)'
  <2>1. Reach(x) BY DEF Reaching
  <2>2. ASSUME task'[x].pc = "archive", NEW t \in DOMAIN task'[x].bars PROVE InHot(t)'
    <3>1. t \in Nat /\ (InHot(t) \/ t \in DOMAIN b) BY <1>1, <2>1, <2>2 DEF Reach
    <3>. QED BY <1>2, <3>1
  <2>3. ASSUME task'[x].pc = "append", NEW t \in DOMAIN archive, \E u \in DOMAIN task'[x].bars : u < t
        PROVE  t \in DOMAIN task'[x].bars \/ InHot(t)'
    <3>1. task'[x] = task[x] BY <2>3
    <3>2. t \in Nat /\ (t \in DOMAIN task[x].bars \/ InHot(t)) BY <1>1, <2>1, <2>3, <3>1 DEF Reach
    <3>. QED BY <1>2, <3>1, <3>2
  <2>. QED BY <2>2, <2>3 DEF Reach
<1>. QED BY <1>4, <1>5, <1>6 DEF Reaching

(* A reply's window has no gap.                                            *)
LEMMA WholeReply ==
    ASSUME StoreTypes, NEW w \in Nat, NEW t \in DOMAIN archive, NEW u \in DOMAIN Reply(w), u < t
    PROVE  t \in DOMAIN Reply(w)
<1>1. now \in Nat /\ now <= MaxTime /\ MaxTime \in Nat /\ t \in 1 .. now BY StoreConstants DEF StoreTypes, Seen
<1>2. DOMAIN Reply(w) = {v \in Times : now - w < v /\ v <= now} BY DEF Reply
<1>3. u \in Nat /\ now - w < u BY <1>2 DEF Times
<1>4. now - w < t /\ t <= now /\ t \in Times BY <1>1, <1>3 DEF Times
<1>. QED BY <1>2, <1>4

LEMMA NextReaching == StoreIInv /\ Reaching /\ [StoreNext]_storeVars => Reaching'
<1>. SUFFICES ASSUME StoreIInv, Reaching, [StoreNext]_storeVars PROVE Reaching' OBVIOUS
<1>1. StoreTypes BY DEF StoreIInv
<1>2. now \in Nat /\ DOMAIN task = Tasks /\ streamed \in Nat BY <1>1 DEF StoreTypes
<1>3. \A x \in Tasks : Reach(x) /\ Seen(task[x].bars, now) BY <1>1, ReachesOf DEF Reaching
<1>4. CASE UNCHANGED storeVars \/ BarAppears
  <2>1. UNCHANGED <<hot, live, streamed, archive, task>> BY <1>4 DEF storeVars, BarAppears
  <2>. QED BY <2>1, ArchiveReaches
<1>5. ASSUME NEW x \in Tasks, NEW w \in Nat, Goes(x, "append", Reply(w)), UNCHANGED <<hot, live, now, streamed, archive>>
      PROVE  Reaching'
  <2>1. task' = [task EXCEPT ![x] = [pc |-> "append", bars |-> Reply(w), since |-> now]] BY <1>5 DEF Goes
  <2>2. /\ task'[x].pc = "append" /\ task'[x].bars = Reply(w)
        /\ \A y \in Tasks : y # x => task'[y] = task[y]
    BY <1>2, <2>1
  <2>3. \A t \in DOMAIN archive' : (\E u \in DOMAIN task'[x].bars : u < t) => t \in DOMAIN task'[x].bars
    BY <1>1, <1>5, <2>2, WholeReply
  <2>. QED BY <1>5, <2>2, <2>3, ArchiveReaches
<1>6. CASE PollFetch BY <1>5, <1>6, StoreConstants DEF PollFetch
<1>7. ASSUME NEW x \in Fillers, FillFetch(x) PROVE Reaching' BY <1>5, <1>7, StoreConstants DEF FillFetch
<1>8. CASE PollAppend
  <2>1. /\ task["poll"].pc = "append" /\ append_hot(task["poll"].bars) /\ Stops("poll")
        /\ UNCHANGED <<archive, live, streamed>>
    BY <1>8 DEF PollAppend
  <2>2. task'["poll"] = Idle /\ \A y \in Tasks : y # "poll" => task'[y] = task[y] BY <1>2, <2>1, StoreConstants DEF Stops
  <2>3. task'["poll"].pc = "idle" BY <2>2, IdleIs
  <2>4. \A t \in DOMAIN archive :
           (\E u \in DOMAIN task["poll"].bars : u < t) => t \in DOMAIN task["poll"].bars \/ InHot(t)
    BY <1>3, <2>1, StoreConstants DEF Reach
  <2>5. streamed <= streamed' /\ streamed' \in Nat BY <1>2, <2>1
  <2>. QED BY <1>1, <1>3, <2>1, <2>2, <2>3, <2>4, <2>5, StoreConstants, HotReaches
<1>9. CASE StreamBar
  <2>. DEFINE b == [t \in {now - 1} |-> Final]
  <2>1. /\ live = "stream" /\ streamed < now - 1 /\ streamed' = now - 1 /\ append_hot(b)
        /\ UNCHANGED <<archive, live, task>>
    BY <1>9 DEF StreamBar
  <2>2. streamed' \in Nat /\ streamed <= streamed' /\ DOMAIN b = {now - 1} BY <1>2, <2>1
  <2>3. Seen(b, now) BY <1>2, <2>1 DEF Seen
  <2>4. ASSUME NEW t \in DOMAIN archive, NEW u \in DOMAIN b, u < t PROVE InHot(t)
    <3>1. t \in Nat BY <1>1 DEF StoreTypes, Seen
    <3>2. streamed < t BY <1>2, <2>1, <2>2, <2>4, <3>1
    <3>. QED BY <2>1, <3>2 DEF Reaching, Streaming
  <2>. HIDE DEF b
  <2>. QED BY <1>1, <2>1, <2>2, <2>3, <2>4, HotReaches
<1>10. ASSUME NEW x \in Fillers, FillAppend(x) PROVE Reaching'
  <2>1. /\ x \in Tasks /\ task[x].pc = "append" /\ append_hot(task[x].bars) /\ Goes(x, "archive", task[x].bars)
        /\ UNCHANGED <<archive, live, streamed>>
    BY <1>10, StoreConstants DEF FillAppend
  <2>2. /\ task'[x].pc = "archive" /\ task'[x].bars = task[x].bars
        /\ \A y \in Tasks : y # x => task'[y] = task[y]
    BY <1>2, <2>1 DEF Goes
  <2>3. \A t \in DOMAIN archive : (\E u \in DOMAIN task[x].bars : u < t) => t \in DOMAIN task[x].bars \/ InHot(t)
    BY <1>3, <2>1 DEF Reach
  <2>4. streamed <= streamed' /\ streamed' \in Nat BY <1>2, <2>1
  <2>. QED BY <1>1, <1>3, <2>1, <2>2, <2>3, <2>4, HotReaches
<1>11. ASSUME NEW x \in Tasks, task[x].pc = "archive", write_parquet(task[x].bars), Stops(x),
              UNCHANGED <<hot, live, streamed>>
       PROVE  Reaching'
  <2>1. task'[x] = Idle /\ \A y \in Tasks : y # x => task'[y] = task[y] BY <1>2, <1>11 DEF Stops
  <2>2. task'[x].pc = "idle" BY <2>1, IdleIs
  <2>3. DOMAIN archive' = DOMAIN archive \cup DOMAIN task[x].bars BY <1>11, BothOf DEF write_parquet
  <2>4. \A t \in DOMAIN task[x].bars : InHot(t) BY <1>3, <1>11 DEF Reach
  <2>. QED BY <1>11, <2>1, <2>2, <2>3, <2>4, ArchiveReaches
<1>12. ASSUME NEW x \in Fillers, FillArchive(x) PROVE Reaching' BY <1>11, <1>12, StoreConstants DEF FillArchive
<1>13. CASE FlushWrite BY <1>11, <1>13, StoreConstants DEF FlushWrite
<1>14. CASE FlushRead
  <2>1. Goes("flush", "archive", hot) /\ UNCHANGED <<hot, live, streamed, archive>> BY <1>14 DEF FlushRead
  <2>2. /\ task'["flush"].pc = "archive" /\ task'["flush"].bars = hot
        /\ \A y \in Tasks : y # "flush" => task'[y] = task[y]
    BY <1>2, <2>1, StoreConstants DEF Goes
  <2>3. \A t \in DOMAIN task'["flush"].bars : InHot(t) BY <2>2 DEF InHot
  <2>. QED BY <2>1, <2>2, <2>3, ArchiveReaches
<1>15. CASE FlushFails
  <2>1. Stops("flush") /\ UNCHANGED <<hot, live, streamed, archive>> BY <1>15 DEF FlushFails
  <2>2. task'["flush"] = Idle /\ \A y \in Tasks : y # "flush" => task'[y] = task[y]
    BY <1>2, <2>1, StoreConstants DEF Stops
  <2>3. task'["flush"].pc = "idle" BY <2>2, IdleIs
  <2>. QED BY <2>1, <2>2, <2>3, ArchiveReaches
<1>16. CASE StoreCrash
  <2>1. task' = [x \in Tasks |-> Idle] /\ UNCHANGED <<hot, live, streamed>> BY <1>16 DEF StoreCrash
  <2>2. \A x \in Tasks : task'[x].pc = "idle" BY <2>1, IdleIs
  <2>3. \A t \in DOMAIN archive' : t \in DOMAIN archive \/ InHot(t)
    <3>1. CASE UNCHANGED archive BY <3>1
    <3>2. ASSUME NEW x \in Tasks, NEW T, task[x].pc = "archive", archive' = dedup_sort(archive, Only(task[x].bars, T))
          PROVE  \A t \in DOMAIN archive' : t \in DOMAIN archive \/ InHot(t)
      <4>1. DOMAIN archive' = DOMAIN archive \cup DOMAIN Only(task[x].bars, T) BY <3>2, BothOf
      <4>2. DOMAIN Only(task[x].bars, T) \subseteq DOMAIN task[x].bars BY DEF Only
      <4>3. \A t \in DOMAIN task[x].bars : InHot(t) BY <1>3, <3>2 DEF Reach
      <4>. QED BY <4>1, <4>2, <4>3
    <3>. QED BY <1>16, <3>1, <3>2 DEF StoreCrash
  <2>. QED BY <2>1, <2>2, <2>3, ArchiveReaches
<1>17. CASE Expire
  <2>1. /\ \A x \in Tasks : task[x].pc = "idle"
        /\ hot' = NoBars /\ UNCHANGED <<live, archive, task>> /\ (live = "stream" => streamed' = now)
    BY <1>17 DEF Expire, Waiting
  <2>2. Ordered' BY <2>1, IdleIs DEF Ordered
  <2>3. Streaming'
    <3>1. \A t \in DOMAIN archive : t \in Nat /\ ~(now < t) BY <1>1, <1>2 DEF StoreTypes, Seen
    <3>. QED BY <2>1, <3>1 DEF Streaming
  <2>4. \A x \in Tasks : Reach(x)' BY <2>1 DEF Reach
  <2>. QED BY <2>2, <2>3, <2>4 DEF Reaching
<1>. QED BY <1>4, <1>6, <1>7, <1>8, <1>9, <1>10, <1>12, <1>13, <1>14, <1>15, <1>16, <1>17 DEF StoreNext, Fill

LEMMA InitReaching == StoreInit => Reaching
<1>. SUFFICES ASSUME StoreInit PROVE Reaching OBVIOUS
<1>1. DOMAIN archive = {} /\ \A x \in Tasks : task[x].pc = "idle" BY IdleIs DEF StoreInit
<1>. QED BY <1>1 DEF Reaching, Ordered, Streaming, Reach

(* Between steps a read of both tiers is the newest of both.               *)
ReadsNow == \A limit \in Limits : get_bars(hot, archive, limit) = Newest(dedup_sort(archive, hot), limit)

LEMMA ReadsAreNewest == StoreIInv /\ Reaching => ReadsNow
<1>. SUFFICES ASSUME StoreIInv, Reaching, NEW limit \in Limits
              PROVE  get_bars(hot, archive, limit) = Newest(dedup_sort(archive, hot), limit)
  BY DEF ReadsNow
<1>1. limit \in Nat BY StoreAssumption
<1>2. now \in Nat /\ now <= MaxTime /\ Seen(hot, now) /\ Seen(archive, now) /\ Cardinality(DOMAIN hot) <= HotLen
  BY StoreConstants DEF StoreIInv, StoreTypes
<1>3. ASSUME NEW t \in DOMAIN archive PROVE t \in DOMAIN hot \/ \A u \in DOMAIN hot : t < u
  <2>1. DOMAIN hot \in SUBSET (1 .. now) BY <1>2 DEF Seen
  <2>2. InHot(t) \/ \A u \in DOMAIN hot : t < u BY DEF Reaching, Ordered
  <2>3. ASSUME HotLen <= Cardinality({u \in DOMAIN hot : u > t}) PROVE \A u \in DOMAIN hot : t < u
    BY <1>2, <2>1, <2>3, StoreConstants, AboveAll
  <2>. QED BY <2>2, <2>3 DEF InHot
<1>. QED BY <1>1, <1>2, <1>3, ReadIs

(* No step writes both tiers: a reader that has the cache of before a step *)
(* and the archive of after it reads one of the two states.                *)
LEMMA OneTier == [StoreNext]_storeVars => hot' = hot \/ archive' = archive
BY DEF StoreNext, storeVars, BarAppears, PollFetch, PollAppend, StreamBar, Fill, FillFetch, FillAppend, FillArchive,
       FlushRead, FlushWrite, FlushFails, StoreCrash, Expire

(* For any cache length, widths, lags, fills, polls, stream and crashes:   *)
(* get_bars, which asks the archive only for bars older than the cache,    *)
(* and after the cache, returns the newest bars of the two.                *)
THEOREM ReadersSeeNewest == StoreSpec => ReadsNewest
<1>1. ReadsNow /\ ReadsNow' /\ [StoreNext]_storeVars =>
        [\A limit \in Limits : get_bars(hot, archive', limit) = Newest(dedup_sort(archive', hot), limit)]_storeVars
  BY OneTier DEF ReadsNow
<1>. QED BY <1>1, InitStored, NextStored, InitReaching, NextReaching, ReadsAreNewest, PTL DEF StoreSpec, ReadsNewest

-----------------------------------------------------------------------------
(***************************************************************************)
(* EvolutionTrigger.  What a day calls for is settled at its firing hour:  *)
(* once that hour is over, the day or the one before it has an experiment, *)
(* unless a cycle that was due left none (Served).                         *)
(***************************************************************************)
CallsFor(d)   == cryptoOnly \/ d \in DOMAIN Closes
FiringHour(d) == IF cryptoOnly THEN CryptoHour ELSE Closes[d]
Known         == last # Never => /\ last \in Nat /\ last < time /\ DayOf(last) \in evolvedOn
                                 /\ episodes >= MinEpisodes
ServedOn(d)   == {d, d - 1} \cap evolvedOn # {}
Served        == last # Never /\ CallsFor(DayOf(time)) /\ DayOf(time) \notin spoiled
                   /\ time > 48 * DayOf(time) + 2 * FiringHour(DayOf(time)) => ServedOn(DayOf(time))
TriggerIInv   == /\ time \in Nat /\ time % 2 = 0 /\ episodes \in Nat /\ cryptoOnly \in BOOLEAN
                 /\ Known /\ Served

LEMMA TriggerConstants ==
    /\ MinHours \in Nat /\ MinEpisodes \in Nat /\ Never \notin Int
    /\ \A d : CallsFor(d) => FiringHour(d) \in 0 .. 23
<1>1. ASSUME NEW d, CallsFor(d), ~cryptoOnly PROVE Closes[d] \in 0 .. 23
  BY <1>1, TriggerAssumption DEF CallsFor
<1>. QED BY <1>1, TriggerAssumption DEF FiringHour

LEMMA DayAndHour ==
    ASSUME NEW t \in Nat
    PROVE  /\ DayOf(t) \in Nat /\ 48 * DayOf(t) <= t /\ t <= 48 * DayOf(t) + 47
           /\ \E r \in 0 .. 47 : t = 48 * DayOf(t) + r /\ Hour(t) = r \div 2
<1>. DEFINE d == t \div 48  r == t % 48
<1>1. d \in Nat /\ r \in 0 .. 47 /\ t = 48 * d + r OBVIOUS
<1>2. DayOf(t) = d /\ Hour(t) = r \div 2 BY DEF DayOf, Hour
<1>. HIDE DEF d, r
<1>. QED BY <1>1, <1>2

LEMMA HalfHours ==
    ASSUME NEW t \in Nat, t % 2 = 0
    PROVE  /\ \E k \in Nat : t = 2 * k
           /\ DayOf(t + 1) = DayOf(t)
           /\ DayOf(t + 2) # DayOf(t) => DayOf(t + 2) = DayOf(t) + 1 /\ t + 2 = 48 * DayOf(t + 2)
<1>1. PICK k \in Nat : t = 2 * k
  <2>1. t \div 2 \in Nat /\ t = 2 * (t \div 2) OBVIOUS
  <2>. QED BY <2>1
<1>. DEFINE d == DayOf(t)  e == DayOf(t + 1)  f == DayOf(t + 2)
<1>2. /\ d \in Nat /\ 48 * d <= t /\ t <= 48 * d + 47
      /\ e \in Nat /\ 48 * e <= t + 1 /\ t + 1 <= 48 * e + 47
      /\ f \in Nat /\ 48 * f <= t + 2 /\ t + 2 <= 48 * f + 47
  <2>1. t + 1 \in Nat /\ t + 2 \in Nat OBVIOUS
  <2>. QED BY <2>1, DayAndHour
<1>. HIDE DEF d, e, f
<1>3. e = d BY <1>1, <1>2
<1>4. f # d => f = d + 1 /\ t + 2 = 48 * f BY <1>1, <1>2
<1>. QED BY <1>1, <1>3, <1>4 DEF d, e, f

(* The cycle at a day's firing hour evolves, unless the cooldown of the    *)
(* day before still lasts.                                                 *)
LEMMA FiringCycle ==
    ASSUME MinHours <= 24, TriggerIInv, last # Never, CallsFor(DayOf(time)),
           time = 48 * DayOf(time) + 2 * FiringHour(DayOf(time)), ~should_evolve_now(time)
    PROVE  ServedOn(DayOf(time))
<1>1. time \in Nat /\ last \in Nat /\ last < time /\ episodes >= MinEpisodes /\ DayOf(last) \in evolvedOn
  BY DEF TriggerIInv, Known
<1>. DEFINE d == DayOf(time)  f == FiringHour(DayOf(time))  a == DayOf(last)
<1>2. d \in Nat /\ f \in 0 .. 23 /\ time = 48 * d + 2 * f BY <1>1, DayAndHour, TriggerConstants
<1>3. a \in Nat /\ 48 * a <= last /\ last <= 48 * a + 47 BY <1>1, DayAndHour
<1>4. Hour(time) = f
  <2>. HIDE DEF d, f
  <2>1. time % 48 = 2 * f BY <1>2
  <2>2. (2 * f) \div 2 = f BY <1>2
  <2>. QED BY <2>1, <2>2 DEF Hour
<1>5. ~(time - last >= 2 * MinHours)
  <2>1. cryptoOnly => Hour(time) = CryptoHour BY <1>4 DEF FiringHour
  <2>2. ~cryptoOnly => session_closed_today(time)
    <3>1. ASSUME ~cryptoOnly PROVE d \in DOMAIN Closes /\ Closes[d] = Hour(time)
      BY <1>4, <3>1 DEF CallsFor, FiringHour
    <3>. QED BY <1>2, <1>4, <3>1 DEF session_closed_today
  <2>. QED BY <1>1, <2>1, <2>2 DEF should_evolve_now
<1>6. MinHours \in Nat BY TriggerConstants
<1>7. a = d \/ a = d - 1
  <2>. HIDE DEF d, f, a
  <2>1. last > time - 48 BY <1>1, <1>5, <1>6
  <2>. QED BY <1>1, <1>2, <1>3, <2>1
<1>. QED BY <1>1, <1>7 DEF ServedOn

(* An hour that passes on a day whose firing hour it is, or is over.       *)
LEMMA HourPasses ==
    ASSUME MinHours <= 24, TriggerIInv, Cycle \/ LostCycle, last # Never,
           CallsFor(DayOf(time)), DayOf(time) \notin spoiled',
           time >= 48 * DayOf(time) + 2 * FiringHour(DayOf(time))
    PROVE  {DayOf(time), DayOf(time) - 1} \cap evolvedOn' # {}
<1>. DEFINE d == DayOf(time)  f == FiringHour(d)
<1>1. time \in Nat /\ Served BY DEF TriggerIInv
<1>2. spoiled \subseteq spoiled' /\ evolvedOn \subseteq evolvedOn' BY DEF Cycle, LostCycle
<1>3. CASE time > 48 * d + 2 * f
  <2>1. ServedOn(d) BY <1>1, <1>2, <1>3 DEF Served
  <2>. QED BY <1>2, <2>1 DEF ServedOn
<1>4. CASE time = 48 * d + 2 * f
  <2>1. Cycle BY DEF LostCycle
  <2>2. should_evolve_now(time) => d \in evolvedOn' BY <2>1 DEF Cycle
  <2>3. ~should_evolve_now(time) => ServedOn(d) BY <1>4, FiringCycle
  <2>. QED BY <1>2, <2>2, <2>3 DEF ServedOn
<1>5. time > 48 * d + 2 * f \/ time = 48 * d + 2 * f
  <2>1. d \in Nat /\ f \in 0 .. 23 BY <1>1, DayAndHour, TriggerConstants
  <2>2. time >= 48 * d + 2 * f OBVIOUS
  <2>. HIDE DEF d, f
  <2>. QED BY <1>1, <2>1, <2>2
<1>. QED BY <1>3, <1>4, <1>5

(* After a step that takes an hour, what is known and what was served.     *)
LEMMA HourServed ==
    ASSUME MinHours <= 24, TriggerIInv, Cycle \/ LostCycle
    PROVE  Served'
<1>1. /\ time \in Nat /\ time % 2 = 0 /\ time' = time + 2 /\ UNCHANGED cryptoOnly
      /\ (last' = last \/ DayOf(time) \in evolvedOn')
  BY DEF TriggerIInv, Cycle, LostCycle
<1>2. \A d : FiringHour(d)' = FiringHour(d) /\ CallsFor(d)' = CallsFor(d) BY <1>1 DEF FiringHour, CallsFor
<1>. DEFINE d == DayOf(time)  f == FiringHour(DayOf(time))
<1>3. SUFFICES ASSUME last' # Never, CallsFor(DayOf(time')), DayOf(time') \notin spoiled',
                      time' > 48 * DayOf(time') + 2 * FiringHour(DayOf(time'))
               PROVE  {DayOf(time'), DayOf(time') - 1} \cap evolvedOn' # {}
  BY <1>2 DEF Served, ServedOn
<1>4. DayOf(time') = d
  <2>1. FiringHour(DayOf(time')) \in 0 .. 23 /\ DayOf(time') \in Nat /\ time' \in Nat
    BY <1>1, <1>3, DayAndHour, TriggerConstants
  <2>2. DayOf(time') # d => time' = 48 * DayOf(time') BY <1>1, HalfHours
  <2>. QED BY <1>3, <2>1, <2>2
<1>5. time >= 48 * d + 2 * f
  <2>1. f \in 0 .. 23 /\ d \in Nat /\ time + 2 > 48 * d + 2 * f
    BY <1>1, <1>3, <1>4, DayAndHour, TriggerConstants
  <2>2. PICK k \in Nat : time = 2 * k BY <1>1, HalfHours
  <2>. HIDE DEF d, f
  <2>. QED BY <2>1, <2>2
<1>. QED BY <1>1, <1>3, <1>4, <1>5, HourPasses

LEMMA NextTriggered == MinHours <= 24 /\ TriggerIInv /\ [TriggerNext]_clockVars => TriggerIInv'
<1>. SUFFICES ASSUME MinHours <= 24, TriggerIInv, [TriggerNext]_clockVars PROVE TriggerIInv' OBVIOUS
<1>1. /\ time \in Nat /\ time % 2 = 0 /\ episodes \in Nat /\ cryptoOnly \in BOOLEAN /\ Known /\ Served
  BY DEF TriggerIInv
<1>2. MinEpisodes \in Nat BY TriggerConstants
<1>3. time + 2 \in Nat /\ (time + 2) % 2 = 0 BY <1>1
<1>4. CASE UNCHANGED clockVars
  BY <1>1, <1>4 DEF clockVars, TriggerIInv, Known, Served, ServedOn, CallsFor, FiringHour
<1>5. CASE EpisodeCloses
  <2>1. /\ episodes < MinEpisodes /\ episodes' = MinEpisodes
        /\ UNCHANGED <<time, last, cryptoOnly, spoiled, evolvedOn>>
    BY <1>5 DEF EpisodeCloses
  <2>2. Known' BY <1>1, <1>2, <2>1 DEF Known
  <2>3. Served' BY <1>1, <2>1 DEF Served, ServedOn, CallsFor, FiringHour
  <2>. QED BY <1>1, <1>2, <2>1, <2>2, <2>3 DEF TriggerIInv
<1>6. CASE Cycle \/ LostCycle
  <2>1. time' = time + 2 /\ UNCHANGED <<episodes, cryptoOnly>> BY <1>6 DEF Cycle, LostCycle
  <2>2. Known'
    <3>1. CASE UNCHANGED <<last, evolvedOn>> BY <1>1, <2>1, <3>1 DEF Known
    <3>2. CASE /\ last' = time + 1 /\ evolvedOn' = evolvedOn \cup {DayOf(time)} /\ should_evolve_now(time)
      <4>1. DayOf(time + 1) = DayOf(time) BY <1>1, HalfHours
      <4>. QED BY <1>1, <2>1, <3>2, <4>1 DEF Known, should_evolve_now
    <3>. QED BY <1>6, <3>1, <3>2 DEF Cycle, LostCycle
  <2>3. Served' BY <1>6, HourServed
  <2>. QED BY <1>1, <1>3, <2>1, <2>2, <2>3 DEF TriggerIInv
<1>. QED BY <1>4, <1>5, <1>6 DEF TriggerNext

LEMMA InitTriggered == TriggerInit => TriggerIInv
BY TriggerConstants DEF TriggerInit, TriggerIInv, Known, Served

LEMMA DayEnds ==
    ASSUME MinHours <= 24, TriggerIInv, [TriggerNext]_clockVars, DueDayEnds
    PROVE  {DayOf(time), DayOf(time) - 1} \cap evolvedOn' # {}
<1>1. /\ time \in Nat /\ time % 2 = 0 BY DEF TriggerIInv
<1>2. DayOf(time') > DayOf(time) /\ last # Never /\ CallsFor(DayOf(time)) /\ DayOf(time) \notin spoiled'
  BY DEF DueDayEnds, CallsFor
<1>. DEFINE d == DayOf(time)  f == FiringHour(DayOf(time))
<1>3. d \in Nat /\ f \in 0 .. 23 BY <1>1, <1>2, DayAndHour, TriggerConstants
<1>4. Cycle \/ LostCycle
  <2>1. ~(DayOf(time) > DayOf(time)) BY <1>3
  <2>2. time' # time BY <1>2, <2>1
  <2>. QED BY <2>2 DEF TriggerNext, clockVars, EpisodeCloses
<1>5. time >= 48 * d + 2 * f
  <2>1. time' = time + 2 BY <1>4 DEF Cycle, LostCycle
  <2>2. DayOf(time + 2) # DayOf(time) BY <1>2, <1>3, <2>1
  <2>3. DayOf(time + 2) = d + 1 /\ time + 2 = 48 * DayOf(time + 2) BY <1>1, <2>2, HalfHours
  <2>4. time + 2 = 48 * (d + 1) BY <2>3
  <2>. HIDE DEF d, f
  <2>. QED BY <1>1, <1>3, <2>4
<1>. QED BY <1>2, <1>4, <1>5, HourPasses

(* With a cooldown of at most a day, and whatever sessions and hours there *)
(* are: an agent with an experiment behind it lets a day that calls for    *)
(* another go by only right after a day that had one, unless a cycle that  *)
(* was due on it recorded none.                                            *)
THEOREM IdleDaysFollowExperiments == MinHours <= 24 => (TriggerSpec => IdleOnlyAfterExperiment)
<1>. SUFFICES ASSUME MinHours <= 24 PROVE TriggerSpec => IdleOnlyAfterExperiment OBVIOUS
<1>1. TriggerIInv /\ [TriggerNext]_clockVars =>
        [DueDayEnds => {DayOf(time), DayOf(time) - 1} \cap evolvedOn' # {}]_clockVars
  BY DayEnds
<1>2. TriggerIInv /\ [TriggerNext]_clockVars => TriggerIInv' BY NextTriggered
<1>. QED BY <1>1, <1>2, InitTriggered, PTL DEF TriggerSpec, IdleOnlyAfterExperiment

-----------------------------------------------------------------------------
(***************************************************************************)
(* Standings.  A mark to market that no fill has torn since it read the    *)
(* account still has the account's cash (Untorn).                          *)
(***************************************************************************)
SweepRows == [at : {"idle", "list", "account", "positions", "rank", "rebuild"}, agent : Entrants,
              mark : MarkPrices \cup {Unmarked}, cash : Int, torn : BOOLEAN, rows : Seq(Int)]
SnapshotRows == [equity : Int, stale : BOOLEAN, torn : BOOLEAN, mark : MarkPrices \cup {Unmarked}]
BoardTypes ==
    /\ cash \in [Entrants -> Int] /\ qty \in [Entrants -> Int] /\ price \in MarkPrices
    /\ snapshot \in [Entrants -> SnapshotRows]
    /\ sweep \in [Sweepers -> SweepRows]
Untorn == \A s \in Sweepers : At(s, "positions") /\ ~sweep[s].torn => sweep[s].cash = cash[sweep[s].agent]
BoardIInv == BoardTypes /\ Untorn

LEMMA BoardConstants ==
    /\ N \in Nat \ {0} /\ 1 \in Entrants /\ Resting \in SweepRows /\ Starting \in Int /\ MarkPrices \subseteq Nat
    /\ Resting.at = "idle" /\ \A a \in Entrants : (a % N) + 1 \in Entrants
<1>1. N \in Nat /\ N > 0 /\ Starting \in Int /\ MarkPrices \subseteq Nat BY StandingsAssumption DEF N
<1>2. 1 \in Entrants BY <1>1 DEF Entrants
<1>3. <<>> \in Seq(Int) OBVIOUS
<1>4. Resting \in SweepRows /\ Resting.at = "idle" BY <1>2, <1>3 DEF Resting, SweepRows
<1>5. ASSUME NEW a \in Entrants PROVE (a % N) + 1 \in Entrants
  <2>1. a \in Nat BY <1>1 DEF Entrants
  <2>2. a % N \in 0 .. N - 1 BY <1>1, <2>1
  <2>. QED BY <1>1, <2>2 DEF Entrants
<1>. QED BY <1>1, <1>2, <1>4, <1>5

LEMMA RowFields ==
    ASSUME NEW r \in SweepRows
    PROVE  /\ r.at \in {"idle", "list", "account", "positions", "rank", "rebuild"}
           /\ r.agent \in Entrants /\ r.mark \in MarkPrices \cup {Unmarked} /\ r.cash \in Int
           /\ r.torn \in BOOLEAN /\ r.rows \in Seq(Int)
BY DEF SweepRows

(* An attempt goes on: its row changes, and it is not about to mark.       *)
LEMMA OneGoes ==
    ASSUME BoardIInv, NEW s \in Sweepers, NEW r \in SweepRows, sweep' = [sweep EXCEPT ![s] = r],
           r.at = "positions" /\ ~r.torn => r.cash = cash[r.agent],
           UNCHANGED <<cash, qty, price>>, snapshot' \in [Entrants -> SnapshotRows]
    PROVE  BoardIInv'
<1>1. BoardTypes BY DEF BoardIInv
<1>2. sweep'[s] = r /\ \A o \in Sweepers : o # s => sweep'[o] = sweep[o] BY <1>1 DEF BoardTypes
<1>3. BoardTypes' BY <1>1 DEF BoardTypes
<1>4. Untorn' BY <1>2 DEF BoardIInv, Untorn, At
<1>. QED BY <1>3, <1>4 DEF BoardIInv

LEMMA NextAgents ==
    ASSUME BoardIInv, NEW s \in Sweepers, NextAgent(s), UNCHANGED <<cash, qty, price>>,
           snapshot' \in [Entrants -> SnapshotRows]
    PROVE  BoardIInv'
<1>. DEFINE place == IF sweep[s].agent < N THEN "list" ELSE "rank"
            next == (sweep[s].agent % N) + 1
            r == [Resting EXCEPT !.at = place, !.agent = next]
<1>1. sweep' = [sweep EXCEPT ![s] = r] BY DEF NextAgent
<1>2. sweep[s].agent \in Entrants BY RowFields DEF BoardIInv, BoardTypes
<1>3. next \in Entrants /\ place \in {"list", "rank"} BY <1>2, BoardConstants
<1>. HIDE DEF place, next
<1>4. Resting \in SweepRows BY BoardConstants
<1>5. r \in SweepRows /\ r.at # "positions" BY <1>3, <1>4 DEF SweepRows
<1>. HIDE DEF r
<1>. QED BY <1>1, <1>5, OneGoes

LEMMA NextTrade == ASSUME BoardIInv, NEW a \in Entrants, Trade(a) PROVE BoardIInv'
<1>1. BoardTypes BY DEF BoardIInv
<1>2. PICK d \in {-1, 1} : qty' = [qty EXCEPT ![a] = @ + d] /\ cash' = [cash EXCEPT ![a] = @ - d * price]
  BY DEF Trade
<1>3. sweep' = [s \in Sweepers |-> IF At(s, "positions") /\ sweep[s].agent = a
                                   THEN [sweep[s] EXCEPT !.torn = TRUE] ELSE sweep[s]]
      /\ UNCHANGED <<price, snapshot>>
  BY DEF Trade
<1>4. price \in Int /\ qty[a] \in Int /\ cash[a] \in Int BY <1>1, BoardConstants DEF BoardTypes
<1>5. d * price \in Int BY <1>4
<1>6. cash' \in [Entrants -> Int] /\ qty' \in [Entrants -> Int] BY <1>1, <1>2, <1>4, <1>5 DEF BoardTypes
<1>7. \A b \in Entrants : b # a => cash'[b] = cash[b] BY <1>1, <1>2 DEF BoardTypes
<1>8. ASSUME NEW s \in Sweepers
      PROVE  /\ sweep'[s] \in SweepRows
             /\ sweep'[s].at = "positions" /\ ~sweep'[s].torn => sweep'[s].cash = cash'[sweep'[s].agent]
  <2>1. sweep[s] \in SweepRows BY <1>1 DEF BoardTypes
  <2>2. CASE At(s, "positions") /\ sweep[s].agent = a
    <3>1. sweep'[s] = [sweep[s] EXCEPT !.torn = TRUE] BY <1>3, <2>2
    <3>. QED BY <2>1, <3>1 DEF SweepRows
  <2>3. CASE ~(At(s, "positions") /\ sweep[s].agent = a)
    <3>1. sweep'[s] = sweep[s] BY <1>3, <2>3
    <3>2. sweep[s].agent \in Entrants BY <2>1, RowFields
    <3>. QED BY <1>7, <2>1, <2>3, <3>1, <3>2 DEF BoardIInv, Untorn, At
  <2>. QED BY <2>2, <2>3
<1>9. sweep' \in [Sweepers -> SweepRows] BY <1>3, <1>8
<1>10. BoardTypes' BY <1>1, <1>3, <1>6, <1>9 DEF BoardTypes
<1>11. Untorn' BY <1>8 DEF Untorn, At
<1>. QED BY <1>10, <1>11 DEF BoardIInv

LEMMA NextBoard == BoardIInv /\ [StandingsNext]_boardVars => BoardIInv'
<1>. SUFFICES ASSUME BoardIInv, [StandingsNext]_boardVars PROVE BoardIInv' OBVIOUS
<1>1. BoardTypes BY DEF BoardIInv
<1>2. \A s \in Sweepers : sweep[s] \in SweepRows BY <1>1 DEF BoardTypes
<1>3. CASE UNCHANGED boardVars BY <1>3 DEF boardVars, BoardIInv, BoardTypes, Untorn, At
<1>4. CASE PriceMoves BY <1>4 DEF PriceMoves, BoardIInv, BoardTypes, Untorn, At
<1>5. ASSUME NEW a \in Entrants, Trade(a) PROVE BoardIInv' BY <1>5, NextTrade
<1>6. ASSUME NEW s \in Sweepers, StartSweep(s) PROVE BoardIInv'
  <2>. DEFINE r == [sweep[s] EXCEPT !.at = "list"]
  <2>1. r \in SweepRows /\ r.at = "list" BY <1>2 DEF SweepRows
  <2>2. sweep' = [sweep EXCEPT ![s] = r] /\ UNCHANGED <<cash, qty, price, snapshot>> BY <1>6 DEF StartSweep
  <2>. HIDE DEF r
  <2>. QED BY <1>1, <2>1, <2>2, OneGoes DEF BoardTypes
<1>7. ASSUME NEW s \in Sweepers, AttemptTimesOut(s) PROVE BoardIInv'
  BY <1>7 DEF AttemptTimesOut, BoardIInv, BoardTypes, Untorn, At
<1>8. ASSUME NEW s \in Sweepers, MarkFails(s) PROVE BoardIInv' BY <1>1, <1>8, NextAgents DEF MarkFails, BoardTypes
<1>9. ASSUME NEW s \in Sweepers, get_marks(s) PROVE BoardIInv'
  <2>1. PICK mark \in {price, Unmarked} : sweep' = [sweep EXCEPT ![s].at = "account", ![s].mark = mark]
    BY <1>9 DEF get_marks
  <2>. DEFINE r == [sweep[s] EXCEPT !.at = "account", !.mark = mark]
  <2>2. mark \in MarkPrices \cup {Unmarked} BY <1>1 DEF BoardTypes
  <2>3. r \in SweepRows /\ r.at = "account" BY <1>2, <2>2 DEF SweepRows
  <2>4. sweep' = [sweep EXCEPT ![s] = r] /\ UNCHANGED <<cash, qty, price, snapshot>> BY <1>9, <2>1 DEF get_marks
  <2>. HIDE DEF r
  <2>. QED BY <1>1, <2>3, <2>4, OneGoes DEF BoardTypes
<1>10. ASSUME NEW s \in Sweepers, ReadAccount(s) PROVE BoardIInv'
  <2>. DEFINE r == [sweep[s] EXCEPT !.at = "positions", !.cash = cash[sweep[s].agent]]
  <2>1. sweep[s].agent \in Entrants BY <1>2, RowFields
  <2>2. cash[sweep[s].agent] \in Int BY <1>1, <2>1 DEF BoardTypes
  <2>3. r \in SweepRows /\ r.cash = cash[r.agent] BY <1>2, <2>2 DEF SweepRows
  <2>4. sweep' = [sweep EXCEPT ![s] = r] /\ UNCHANGED <<cash, qty, price, snapshot>> BY <1>10 DEF ReadAccount
  <2>. HIDE DEF r
  <2>. QED BY <1>1, <2>3, <2>4, OneGoes DEF BoardTypes
<1>11. ASSUME NEW s \in Sweepers, mark_to_market(s) PROVE BoardIInv'
  <2>. DEFINE a == sweep[s].agent  mark == sweep[s].mark
  <2>1. a \in Entrants /\ mark \in MarkPrices \cup {Unmarked} /\ sweep[s].cash \in Int /\ sweep[s].torn \in BOOLEAN
    BY <1>2, RowFields
  <2>2. qty[a] \in Int /\ positions_value(mark, qty[a]) \in Int
    <3>1. qty[a] \in Int BY <1>1, <2>1 DEF BoardTypes
    <3>2. CASE mark = Unmarked BY <3>1, <3>2 DEF positions_value
    <3>3. CASE mark # Unmarked
      <4>0. mark \in MarkPrices BY <2>1, <3>3
      <4>a. MarkPrices \subseteq Nat BY StandingsAssumption
      <4>b. mark \in Nat BY <4>0, <4>a
      <4>1. mark \in Int BY <4>b
      <4>2. qty[a] * mark \in Int BY <3>1, <4>1
      <4>. QED BY <3>1, <3>3, <4>2 DEF positions_value
    <3>. QED BY <3>2, <3>3
  <2>. DEFINE taken == [equity |-> sweep[s].cash + positions_value(mark, qty[a]), stale |-> IsStale(mark, qty[a]),
                      torn |-> sweep[s].torn, mark |-> mark]
  <2>3. taken \in SnapshotRows
    <3>1. IsStale(mark, qty[a]) \in BOOLEAN BY DEF IsStale
    <3>. QED BY <2>1, <2>2, <3>1 DEF SnapshotRows
  <2>4. snapshot' = [snapshot EXCEPT ![a] = taken] /\ NextAgent(s) /\ UNCHANGED <<cash, qty, price>>
    BY <1>11 DEF mark_to_market
  <2>. HIDE DEF taken
  <2>5. snapshot' \in [Entrants -> SnapshotRows] BY <1>1, <2>3, <2>4 DEF BoardTypes
  <2>. QED BY <2>4, <2>5, NextAgents
<1>12. ASSUME NEW s \in Sweepers, compute_ranking(s) PROVE BoardIInv'
  <2>. DEFINE rows == Append(sweep[s].rows, LatestEquity(sweep[s].agent))
              place == IF Len(rows) = N THEN "rebuild" ELSE "rank"
              r == [sweep[s] EXCEPT !.rows = rows, !.agent = (@ % N) + 1, !.at = place]
  <2>1. sweep[s].agent \in Entrants /\ sweep[s].rows \in Seq(Int) BY <1>2, RowFields
  <2>2. LatestEquity(sweep[s].agent) \in Int BY <1>1, <2>1 DEF LatestEquity, BoardTypes, SnapshotRows
  <2>3. rows \in Seq(Int) BY <2>1, <2>2
  <2>4. sweep' = [sweep EXCEPT ![s] = r] /\ UNCHANGED <<cash, qty, price, snapshot>> BY <1>12 DEF compute_ranking
  <2>5. (sweep[s].agent % N) + 1 \in Entrants BY <2>1, BoardConstants
  <2>. HIDE DEF rows
  <2>6. place \in {"rebuild", "rank"} OBVIOUS
  <2>. HIDE DEF place
  <2>7. r \in SweepRows /\ r.at = place BY <1>2, <2>3, <2>5, <2>6 DEF SweepRows
  <2>. HIDE DEF r
  <2>. QED BY <1>1, <2>4, <2>6, <2>7, OneGoes DEF BoardTypes
<1>13. ASSUME NEW s \in Sweepers, rebuild(s) PROVE BoardIInv'
  <2>1. sweep' = [sweep EXCEPT ![s] = Resting] /\ UNCHANGED <<cash, qty, price, snapshot>> BY <1>13 DEF rebuild
  <2>. QED BY <1>1, <2>1, BoardConstants, OneGoes DEF BoardTypes
<1>14. ASSUME NEW s \in Sweepers, AttemptRaises(s) PROVE BoardIInv'
  <2>1. sweep' = [sweep EXCEPT ![s] = Resting] /\ UNCHANGED <<cash, qty, price, snapshot>>
    BY <1>14 DEF AttemptRaises
  <2>. QED BY <1>1, <2>1, BoardConstants, OneGoes DEF BoardTypes
<1>. QED BY <1>3, <1>4, <1>5, <1>6, <1>7, <1>8, <1>9, <1>10, <1>11, <1>12, <1>13, <1>14 DEF StandingsNext, SweepStep

LEMMA InitBoard == StandingsInit => BoardIInv
<1>. SUFFICES ASSUME StandingsInit PROVE BoardIInv OBVIOUS
<1>1. [equity |-> Starting, stale |-> FALSE, torn |-> FALSE, mark |-> Unmarked] \in SnapshotRows
  BY BoardConstants DEF SnapshotRows
<1>2. BoardTypes BY <1>1, BoardConstants DEF StandingsInit, BoardTypes
<1>3. Untorn
  <2>1. \A s \in Sweepers : sweep[s] = Resting BY DEF StandingsInit
  <2>. QED BY <2>1, BoardConstants DEF Untorn, At
<1>. QED BY <1>2, <1>3 DEF BoardIInv

(* Only a mark to market writes snapshots.                                 *)
LEMMA WhoMarks ==
    ASSUME [StandingsNext]_boardVars, snapshot' # snapshot
    PROVE  \E s \in Sweepers : mark_to_market(s)
<1>1. \A s \in Sweepers : StartSweep(s) \/ AttemptTimesOut(s) \/ MarkFails(s) \/ AttemptRaises(s) => snapshot' = snapshot
  BY DEF StartSweep, AttemptTimesOut, MarkFails, AttemptRaises
<1>2. \A s \in Sweepers : get_marks(s) \/ ReadAccount(s) \/ compute_ranking(s) \/ rebuild(s) => snapshot' = snapshot
  BY DEF get_marks, ReadAccount, compute_ranking, rebuild
<1>3. PriceMoves \/ (\E a \in Entrants : Trade(a)) \/ UNCHANGED boardVars => snapshot' = snapshot
  BY DEF PriceMoves, Trade, boardVars
<1>. QED BY <1>1, <1>2, <1>3 DEF StandingsNext, SweepStep

LEMMA MarkIsExact ==
    ASSUME BoardIInv, [StandingsNext]_boardVars, NEW a \in Entrants,
           snapshot'[a] # snapshot[a], ~snapshot'[a].stale, ~snapshot'[a].torn
    PROVE  \/ qty[a] = 0 /\ snapshot'[a].equity = cash[a]
           \/ snapshot'[a].mark # Unmarked /\ snapshot'[a].equity = cash[a] + qty[a] * snapshot'[a].mark
<1>1. BoardTypes /\ Untorn BY DEF BoardIInv
<1>2. PICK s \in Sweepers : mark_to_market(s) BY WhoMarks
<1>. DEFINE b == sweep[s].agent  mark == sweep[s].mark
            taken == [equity |-> sweep[s].cash + positions_value(mark, qty[b]), stale |-> IsStale(mark, qty[b]),
                    torn |-> sweep[s].torn, mark |-> mark]
<1>3. At(s, "positions") /\ snapshot' = [snapshot EXCEPT ![b] = taken] BY <1>2 DEF mark_to_market
<1>4. b = a /\ snapshot'[a] = taken
  <2>. HIDE DEF taken
  <2>. QED BY <1>1, <1>3 DEF BoardTypes
<1>5. /\ snapshot'[a].equity = sweep[s].cash + positions_value(mark, qty[a]) /\ snapshot'[a].mark = mark
      /\ ~IsStale(mark, qty[a]) /\ ~sweep[s].torn
  BY <1>4
<1>6. sweep[s].cash = cash[a] /\ cash[a] \in Int /\ qty[a] \in Int
  BY <1>1, <1>3, <1>4, <1>5 DEF Untorn, BoardTypes
<1>7. mark \in MarkPrices \cup {Unmarked} BY <1>1, RowFields DEF BoardTypes
<1>8. CASE mark = Unmarked
  <2>1. qty[a] = 0 /\ positions_value(mark, qty[a]) = 0 BY <1>5, <1>8 DEF IsStale, positions_value
  <2>. QED BY <1>5, <1>6, <2>1
<1>9. CASE mark # Unmarked BY <1>5, <1>6, <1>9 DEF positions_value
<1>. QED BY <1>8, <1>9

(* For any agents, attempts that overlap, prices, trades and failed calls: *)
(* a snapshot that no fill has torn and that is not flagged stale is what  *)
(* the account is worth.                                                   *)
THEOREM MarksAreHonest == StandingsSpec => StaleOrExact
<1>1. BoardIInv /\ [StandingsNext]_boardVars =>
        [\A a \in Entrants : LET taken == snapshot'[a] IN
            taken # snapshot[a] /\ ~taken.stale /\ ~taken.torn
                => \/ qty[a] = 0 /\ taken.equity = cash[a]
                   \/ taken.mark # Unmarked /\ taken.equity = cash[a] + qty[a] * taken.mark]_boardVars
  BY MarkIsExact
<1>. QED BY <1>1, InitBoard, NextBoard, PTL DEF StandingsSpec, StaleOrExact

-----------------------------------------------------------------------------
(***************************************************************************)
(* EvolutionGraph.  The channels carry the metrics they claim, but for the *)
(* backtests that failed in the cycle (Evidence), so that what the gate    *)
(* compares is what the archive says; and what was spent and what attempts *)
(* may still spend was allowed for when they looked (Spends).              *)
(***************************************************************************)

(* The total of a table of integers is an integer.                        *)
LEMMA TotalIsInt ==
    ASSUME NEW f, IsFiniteSet(DOMAIN f), \A x \in DOMAIN f : f[x] \in Int
    PROVE  Total(f) \in Int
<1>. DEFINE S == DOMAIN f
            Sums(g) == g = [s \in SUBSET S |->
                               IF s = {} THEN 0 ELSE f[CHOOSE x \in s : TRUE]
                                                     + g[s \ {CHOOSE x \in s : TRUE}]]
            iter == CHOOSE g : Sums(g)
<1>1. Total(f) = iter[S] BY DEF Total, FoldFunction, FoldFunctionOnSet, MapThenFoldSet
<1>2. \A g \in [SUBSET S -> Int] : Summing(S, f, g) => Sums(g) BY DEF Summing
<1>3. /\ \E g \in [SUBSET S -> Int] : Summing(S, f, g)
      /\ \A g : Summing(S, f, g) => g[S] \in Int
  BY SumOfInts
<1>4. Sums(iter)
  <2>. HIDE DEF Sums
  <2>. QED BY <1>2, <1>3
<1>. HIDE DEF iter
<1>5. Summing(S, f, iter) BY <1>4 DEF Summing
<1>. QED BY <1>1, <1>3, <1>5

(* The largest of some positions of a sequence is one of them.             *)
LEMMA MaxIn ==
    ASSUME NEW n \in Nat, NEW s \in SUBSET (1 .. n), s # {}
    PROVE  Max(s) \in s
<1>. DEFINE T == {n - x : x \in s}
<1>1. T \in SUBSET Nat /\ T # {}
  <2>1. \A x \in s : x \in Int /\ x <= n /\ n - x \in Nat OBVIOUS
  <2>. QED BY <2>1
<1>2. PICK y \in T : \A z \in T : y <= z BY <1>1, LeastOf
<1>3. PICK x \in s : y = n - x BY <1>2
<1>4. \A z \in s : x >= z
  <2>. SUFFICES ASSUME NEW z \in s PROVE x >= z OBVIOUS
  <2>1. n - x <= n - z BY <1>2, <1>3
  <2>2. x \in Int /\ z \in Int OBVIOUS
  <2>. QED BY <2>1, <2>2
<1>. QED BY <1>4 DEF Max

(* Dropping the candidates that do not validate leaves a sequence of       *)
(* specifications.                                                         *)
LEMMA KeptSpecs ==
    ASSUME NEW specs \in Seq(Specs)
    PROVE  Kept(specs) \in Seq(Specs)
<1>. DEFINE S == DOMAIN specs
            pick == [s \in SUBSET S |-> Max(s)]
            op   == [x \in S |-> [y \in Seq(Specs) |->
                        IF ValidSpec(specs[x]) THEN Append(y, specs[x]) ELSE y]]
            Gathers(g) == g = [s \in SUBSET S |->
                                IF s = {} THEN <<>>
                                ELSE IF ValidSpec(specs[Max(s)]) THEN Append(g[s \ {Max(s)}], specs[Max(s)])
                                     ELSE g[s \ {Max(s)}]]
            iter == CHOOSE g : Gathers(g)
<1>1. Kept(specs) = iter[S] BY DEF Kept, FoldLeft, MapThenFoldSet
<1>2. IsFiniteSet(S) /\ S = 1 .. Len(specs) /\ Len(specs) \in Nat BY FS_Interval
<1>3. \A s \in SUBSET S : s # {} => pick[s] \in s /\ pick[s] = Max(s) BY <1>2, MaxIn
<1>4. \A x \in S : \A y \in Seq(Specs) :
         /\ op[x][y] = IF ValidSpec(specs[x]) THEN Append(y, specs[x]) ELSE y
         /\ op[x][y] \in Seq(Specs)
  <2>1. \A x \in S : specs[x] \in Specs OBVIOUS
  <2>. QED BY <2>1
<1>5. PICK g \in [SUBSET S -> Seq(Specs)] : \A s \in SUBSET S :
         g[s] = IF s = {} THEN <<>> ELSE op[pick[s]][g[s \ {pick[s]}]]
  <2>1. <<>> \in Seq(Specs) OBVIOUS
  <2>2. \A s \in SUBSET S : s # {} => pick[s] \in s BY <1>3
  <2>. HIDE DEF op, pick, S
  <2>3. \A x \in S : \A y \in Seq(Specs) : op[x][y] \in Seq(Specs) BY <1>4
  <2>4. FoldOf(S, pick, <<>>, op, Seq(Specs)) # {} BY <1>2, <2>1, <2>2, <2>3, FoldExists
  <2>. QED BY <2>4 DEF FoldOf
<1>6. Gathers(g)
  <2>1. ASSUME NEW s \in SUBSET S, s # {}
        PROVE  g[s] = IF ValidSpec(specs[Max(s)]) THEN Append(g[s \ {Max(s)}], specs[Max(s)])
                      ELSE g[s \ {Max(s)}]
    <3>1. pick[s] \in S /\ s \ {pick[s]} \in SUBSET S /\ g[s \ {pick[s]}] \in Seq(Specs) BY <1>3, <2>1
    <3>. HIDE DEF op, pick
    <3>2. g[s] = op[pick[s]][g[s \ {pick[s]}]] BY <1>5, <2>1
    <3>3. op[pick[s]][g[s \ {pick[s]}]] =
            IF ValidSpec(specs[pick[s]]) THEN Append(g[s \ {pick[s]}], specs[pick[s]]) ELSE g[s \ {pick[s]}]
      BY <1>4, <3>1
    <3>4. pick[s] = Max(s) BY <1>3, <2>1
    <3>. QED BY <3>2, <3>3, <3>4
  <2>2. ASSUME NEW s \in SUBSET S, s = {} PROVE g[s] = <<>> BY <1>5, <2>2
  <2>3. DOMAIN g = SUBSET S OBVIOUS
  <2>. HIDE DEF pick, op
  <2>. QED BY <2>1, <2>2, <2>3
<1>7. Gathers(iter)
  <2>. HIDE DEF Gathers
  <2>. QED BY <1>6
<1>. HIDE DEF iter
<1>8. /\ iter[{}] = <<>>
      /\ \A s \in SUBSET S : s # {} =>
            iter[s] = IF ValidSpec(specs[Max(s)]) THEN Append(iter[s \ {Max(s)}], specs[Max(s)])
                      ELSE iter[s \ {Max(s)}]
  BY <1>7
<1>9. ASSUME NEW s \in SUBSET S, s # {}, iter[s \ {pick[s]}] \in Seq(Specs) PROVE iter[s] \in Seq(Specs)
  <2>1. pick[s] \in S /\ pick[s] = Max(s) BY <1>3, <1>9
  <2>2. specs[Max(s)] \in Specs BY <2>1
  <2>. DEFINE rest == iter[s \ {pick[s]}]
  <2>3. iter[s] \in {rest, Append(rest, specs[Max(s)])} BY <1>8, <1>9, <2>1
  <2>4. rest \in Seq(Specs) BY <1>9
  <2>. HIDE DEF rest, pick
  <2>5. Append(rest, specs[Max(s)]) \in Seq(Specs) BY <2>2, <2>4
  <2>. QED BY <2>3, <2>4, <2>5
<1>10. iter[{}] \in Seq(Specs) BY <1>8
<1>11. \A s \in SUBSET S : iter[s] \in Seq(Specs)
  <2>. HIDE DEF pick, S
  <2>. QED BY <1>2, <1>3, <1>9, <1>10, FoldRange
<1>. QED BY <1>1, <1>11

(* Of finitely many scores one is the best, the first of those that tie.   *)
LEMMA BestExists ==
    ASSUME NEW n \in Nat \ {0}, NEW v, \A i \in 1 .. n : v[i] \in Int
    PROVE  \E i \in 1 .. n : \A j \in 1 .. n : v[i] > v[j] \/ (v[i] = v[j] /\ i <= j)
<1>. DEFINE Beats(i, j) == v[i] > v[j] \/ (v[i] = v[j] /\ i <= j)
            Has(k) == \E i \in 1 .. k : \A j \in 1 .. k : Beats(i, j)
            Bad    == {k \in 1 .. n : ~Has(k)}
<1>1. Bad = {}
  <2>. SUFFICES ASSUME Bad # {} PROVE FALSE OBVIOUS
  <2>1. Bad \in SUBSET Nat OBVIOUS
  <2>2. PICK k \in Bad : \A m \in Bad : k <= m BY <2>1, LeastOf
  <2>3. k \in 1 .. n /\ ~Has(k) BY <2>2
  <2>4. k # 1
    <3>1. \A j \in 1 .. 1 : Beats(1, j) OBVIOUS
    <3>2. Has(1) BY <3>1
    <3>. QED BY <2>3, <3>2
  <2>5. k - 1 \in 1 .. n /\ ~(k <= k - 1) BY <2>3, <2>4
  <2>6. k - 1 \notin Bad BY <2>2, <2>5
  <2>7. PICK i \in 1 .. (k - 1) : \A j \in 1 .. (k - 1) : Beats(i, j) BY <2>5, <2>6
  <2>8. i \in 1 .. k /\ i \in 1 .. n /\ \A j \in 1 .. k : j = k \/ j \in 1 .. (k - 1) BY <2>3
  <2>9. v[i] \in Int /\ v[k] \in Int BY <2>3, <2>8
  <2>10. CASE v[k] > v[i]
    <3>1. ASSUME NEW j \in 1 .. k PROVE Beats(k, j)
      <4>1. j \in 1 .. n /\ v[j] \in Int BY <2>3
      <4>2. CASE j = k BY <2>9, <4>2
      <4>3. CASE j \in 1 .. (k - 1)
        <5>1. Beats(i, j) BY <2>7, <4>3
        <5>. QED BY <2>9, <2>10, <4>1, <5>1
      <4>. QED BY <2>8, <4>2, <4>3
    <3>2. Has(k) BY <2>3, <3>1
    <3>. QED BY <2>3, <3>2
  <2>11. CASE ~(v[k] > v[i])
    <3>1. ASSUME NEW j \in 1 .. k PROVE Beats(i, j)
      <4>1. CASE j = k
        <5>1. i <= k /\ i \in Int /\ k \in Int BY <2>3
        <5>. DEFINE a == v[i]
                    b == v[k]
        <5>2. a \in Int /\ b \in Int /\ ~(b > a) BY <2>9, <2>11
        <5>3. Beats(i, k) <=> a > b \/ (a = b /\ i <= k) OBVIOUS
        <5>. HIDE DEF a, b, Beats
        <5>4. a > b \/ a = b BY <5>2
        <5>5. Beats(i, k) BY <5>1, <5>3, <5>4
        <5>. QED BY <4>1, <5>5
      <4>2. CASE j \in 1 .. (k - 1) BY <2>7, <4>2
      <4>. QED BY <2>8, <4>1, <4>2
    <3>2. Has(k) BY <2>8, <3>1
    <3>. QED BY <2>3, <3>2
  <2>. QED BY <2>10, <2>11
<1>2. Has(n)
  <2>1. n \in 1 .. n OBVIOUS
  <2>. QED BY <1>1, <2>1
<1>. QED BY <1>2

(* Backtests answer with numbers (backtest_spec's metrics).                *)
MeasuresAreNumbers ==
    \A spec \in Specs, s \in Sampled, days \in SUBSET Int :
        Measure(spec, s, days) \in [total_return : Int, trades : Int, max_drawdown : Int]

LEMMA DaysAreDays ==
    ASSUME NEW spec \in Specs, NEW t \in Int
    PROVE  /\ Span(spec) \in Nat /\ 2 * Span(spec) + 1 <= Depth(spec)
           /\ \A w \in Windows : Days(spec, w, t) \in SUBSET Int
<1>1. spec.timeframe \in Timeframes BY DEF Specs
<1>2. Depth(spec) \in {5, 20, 120, 365} BY <1>1 DEF Depth, Timeframes
<1>3. Span(spec) \in Nat /\ 2 * Span(spec) + 1 <= Depth(spec) BY <1>2 DEF Span
<1>4. \A w \in Windows : Days(spec, w, t) \in SUBSET Int BY <1>3 DEF Days
<1>. QED BY <1>3, <1>4

(* The two windows do not meet and lie in the archive.                     *)
LEMMA WindowsApart ==
    ASSUME NEW spec \in Specs
    PROVE  Apart(spec) /\ \A x \in Days(spec, "w2", 0) : x >= -Depth(spec)
<1>1. Span(spec) \in Nat /\ 2 * Span(spec) + 1 <= Depth(spec) /\ Depth(spec) \in Nat
  <2>1. spec.timeframe \in Timeframes BY DEF Specs
  <2>2. Depth(spec) \in Nat BY <2>1 DEF Depth, Timeframes
  <2>. QED BY <2>2, DaysAreDays
<1>2. Days(spec, "w1", 0) = 0 - Span(spec) .. 0 - 1 BY DEF Days
<1>3. Days(spec, "w2", 0) = 0 - (2 * Span(spec) + 1) .. 0 - Span(spec) - 2 BY DEF Days
<1>4. Apart(spec) BY <1>1, <1>2, <1>3 DEF Apart
<1>. QED BY <1>1, <1>3, <1>4

LEMMA ReturnsAreInts ==
    ASSUME MeasuresAreNumbers, NEW spec \in Specs, NEW t \in Int, NEW lost, NEW w \in Windows
    PROVE  Metrics(spec, t, lost)[w].total_return \in Int
<1>. DEFINE A == {s \in Sampled : <<s, w>> \notin lost}
            days == Days(spec, w, t)
            m == [s \in A |-> Measure(spec, s, days)]
            f == [s \in A |-> m[s].total_return]
<1>1. IsFiniteSet(A) /\ Cardinality(A) \in Nat
  BY GraphAssumption, FS_Subset, FS_CardinalityType
<1>2. days \in SUBSET Int BY DaysAreDays
<1>3. \A s \in A : m[s].total_return \in Int
  <2>. HIDE DEF days
  <2>. QED BY <1>2 DEF MeasuresAreNumbers
<1>4. Metrics(spec, t, lost)[w] = Aggregate(spec, w, t, A) BY DEF Metrics
<1>5. Total(f) \in Int
  <2>. HIDE DEF A, m
  <2>1. DOMAIN f = A /\ \A s \in A : f[s] = m[s].total_return OBVIOUS
  <2>. HIDE DEF f
  <2>. QED BY <1>1, <1>3, <2>1, TotalIsInt
<1>6. CASE A = {}
  <2>1. Aggregate(spec, w, t, A).total_return = 0 BY <1>6 DEF Aggregate
  <2>. QED BY <1>4, <2>1
<1>7. CASE A # {}
  <2>1. Aggregate(spec, w, t, A).total_return = Total(f) \div Cardinality(A)
    BY <1>7 DEF Aggregate
  <2>2. Cardinality(A) # 0 BY <1>1, <1>7, FS_EmptySet
  <2>. HIDE DEF f, A
  <2>. QED BY <1>1, <1>4, <1>5, <2>1, <2>2
<1>. QED BY <1>6, <1>7

(* Of the metrics of a specification on a day nothing is missing but       *)
(* backtests that failed in this cycle.                                    *)
Supports(m, spec, then) == \E lost \in SUBSET unanswered : m = Metrics(spec, then, lost)

(* The clock of this attempt, or that of the one before.                   *)
Clocks == {today, today - (tries - 1)}

(* The specification beats the incumbent on the evidence.                  *)
Proven(spec) ==
    /\ spec \in Specs
    /\ \E c : Supports(c, spec, today) /\ \E i : \E then \in Clocks : Supports(i, Incumbent0, then) /\ should_adopt(i, c)

Nodes == {"idle", "reflect", "propose", "backtest", "decide", "done"}
Recorded == \A i, s, w : <<i, s, w>> \in failing => <<s, w>> \in unanswered
GraphTypeOK ==
    /\ node \in Nodes /\ today \in Int /\ tries \in {0, 1, 2} /\ refines \in Nat /\ keyed \in BOOLEAN
    /\ evoUsed \in Nat /\ evoSpent \in Nat /\ behind \in Nat /\ evoZombies \in Nat /\ evoFaults \in Nat
    /\ candidates \in Seq(Specs)
    /\ node # "idle" => tries # 0
    /\ Recorded

(* How far an attempt has come: it went back to propose at most once.      *)
Rounds ==
    /\ node = "reflect" => refines = 0
    /\ node = "propose" => refines \in {0, 1}
    /\ node \in {"backtest", "decide"} => refines \in {1, 2}

(* A budget b, used u and spent s, with l and h calls that the attempt and *)
(* those behind it may still make, z attempts that ran on and f faults:    *)
(* what was spent and is not counted was lost; what may still be spent was *)
(* allowed for.                                                            *)
Allows(b, u, s, l, h, z, f) ==
    /\ s <= u + f
    /\ h <= 3 * z
    /\ s + l + h <= b + 2 + 3 * z + 3 * f
Figures(b, u, s, l, h, z, f) ==
    b \in Nat /\ u \in Nat /\ s \in Nat /\ l \in 0 .. 3 /\ h \in Nat /\ z \in Nat /\ f \in Nat

Spends == Allows(EvoBudget, evoUsed, evoSpent, Left, behind, evoZombies, evoFaults)

(* The channels hold what they say, but for the failed backtests; the      *)
(* incumbent's metrics may be those of the attempt before.                 *)
IncumbentKnown == \E then \in Clocks : Supports(incumbent_metrics, Incumbent0, then)
Evidence ==
    node # "idle" =>
        /\ incumbent_metrics = NoSpec \/ IncumbentKnown
        /\ node = "decide" /\ best # 0 =>
              /\ best \in DOMAIN candidates
              /\ Supports(backtests[best], candidates[best], today)
              /\ IncumbentKnown
        /\ node = "done" /\ adopted # NoSpec => Proven(adopted)

GraphIInv == GraphTypeOK /\ Rounds /\ Spends /\ Evidence

LEMMA AllowsBounds ==
    ASSUME NEW b, NEW u, NEW s, NEW l, NEW h, NEW z, NEW f,
           Figures(b, u, s, l, h, z, f), Allows(b, u, s, l, h, z, f)
    PROVE  s <= b - 1 + 3 * (1 + z + f)
<1>1. b - 1 + 3 * (1 + z + f) = b + 2 + 3 * z + 3 * f BY DEF Figures
<1>. QED BY <1>1 DEF Allows, Figures

(* An attempt looks at the budget: z attempts become y, f faults g, the h  *)
(* calls behind become k, at most by the l left, and n are left then.      *)
LEMMA AllowsLook ==
    ASSUME NEW b, NEW u, NEW s, NEW l, NEW h, NEW z, NEW f, NEW n, NEW k, NEW y, NEW g,
           Figures(b, u, s, l, h, z, f), Figures(b, u, s, n, k, y, g), Allows(b, u, s, l, h, z, f),
           (k = h /\ y = z) \/ (k = h + l /\ y = z + 1),
           (u < b /\ g = f) \/ g = f + 1 \/ (n = 0 /\ g = f)
    PROVE  Allows(b, u, s, n, k, y, g)
<1>1. k <= 3 * y /\ k <= h + l /\ y >= z BY DEF Allows, Figures
<1>2. CASE u < b /\ g = f BY <1>1, <1>2 DEF Allows, Figures
<1>3. CASE g = f + 1 BY <1>1, <1>3 DEF Allows, Figures
<1>4. CASE n = 0 /\ g = f BY <1>1, <1>4 DEF Allows, Figures
<1>. QED BY <1>2, <1>3, <1>4

(* A call of the attempt, or of one behind it: answered and charged,       *)
(* answered and lost, or failed.                                           *)
LEMMA AllowsCall ==
    ASSUME NEW b, NEW u, NEW s, NEW l, NEW h, NEW z, NEW f, NEW v, NEW r, NEW n, NEW k, NEW g,
           Figures(b, u, s, l, h, z, f), Figures(b, v, r, n, k, z, g), Allows(b, u, s, l, h, z, f),
           (n + 1 = l /\ k = h) \/ (n = l /\ k + 1 = h),
           \/ r = s + 1 /\ v = u + 1 /\ g = f
           \/ r = s + 1 /\ v = u /\ g = f + 1
           \/ r = s /\ v = u /\ g = f
    PROVE  Allows(b, v, r, n, k, z, g)
<1>1. n + k + 1 = l + h /\ k <= h BY DEF Figures
<1>. QED BY <1>1 DEF Allows, Figures

(* An attempt that ran on goes on to the next agent.                       *)
LEMMA AllowsMore ==
    ASSUME NEW b, NEW u, NEW s, NEW l, NEW h, NEW z, NEW f, NEW k, NEW g,
           Figures(b, u, s, l, h, z, f), Figures(b, u, s, l, k, z, g), Allows(b, u, s, l, h, z, f),
           k = h + 3, k <= 3 * z,
           (u < b /\ g = f) \/ g = f + 1
    PROVE  Allows(b, u, s, l, k, z, g)
<1>1. CASE u < b /\ g = f BY <1>1 DEF Allows, Figures
<1>2. CASE g = f + 1 BY <1>2 DEF Allows, Figures
<1>. QED BY <1>1, <1>2

(* Less is left.                                                           *)
LEMMA AllowsLess ==
    ASSUME NEW b, NEW u, NEW s, NEW l, NEW h, NEW z, NEW f, NEW n,
           Figures(b, u, s, l, h, z, f), n \in 0 .. 3, Allows(b, u, s, l, h, z, f), n <= l
    PROVE  Allows(b, u, s, n, h, z, f)
BY DEF Allows, Figures

LEMMA LeftBounds ==
    ASSUME GraphTypeOK, Rounds
    PROVE  /\ Left \in 0 .. 3
           /\ node \in {"idle", "done"} => Left = 0
<1>. USE DEF GraphTypeOK, Rounds, Nodes
<1>1. CASE ~keyed \/ node \in {"idle", "done"} BY <1>1 DEF Left
<1>2. CASE keyed /\ node = "reflect"
  <2>1. Left = 2 - 0 + 1 BY <1>2 DEF Left
  <2>. QED BY <1>2, <2>1
<1>3. CASE keyed /\ node \in {"propose", "backtest", "decide"}
  <2>1. Left = 2 - refines + 0 BY <1>3 DEF Left
  <2>. QED BY <1>3, <2>1
<1>. QED BY <1>1, <1>2, <1>3

LeftFits == Left \in 0 .. 3
LEMMA LeftBoundsNext == GraphTypeOK' /\ Rounds' => LeftFits'
<1>1. GraphTypeOK /\ Rounds => LeftFits BY LeftBounds DEF LeftFits
<1>. QED BY <1>1, PTL

LEMMA GraphFollows == MeasuresAreNumbers /\ GraphIInv => GraphInv
<1>. SUFFICES ASSUME MeasuresAreNumbers, GraphIInv PROVE GraphInv OBVIOUS
<1>1. ReasonerBounded
  <2>1. Left \in 0 .. 3 /\ EvoBudget \in Nat BY LeftBounds, GraphAssumption DEF GraphIInv
  <2>2. Figures(EvoBudget, evoUsed, evoSpent, Left, behind, evoZombies, evoFaults)
    BY <2>1 DEF GraphIInv, GraphTypeOK, Figures
  <2>3. Allows(EvoBudget, evoUsed, evoSpent, Left, behind, evoZombies, evoFaults) BY DEF GraphIInv, Spends
  <2>. QED BY <2>2, <2>3, AllowsBounds DEF ReasonerBounded
<1>2. ASSUME node = "done", adopted # NoSpec
      PROVE  /\ \E lost \in SUBSET unanswered, gone \in SUBSET unanswered, then \in {today, today - (tries - 1)} :
                   Outdoes(Metrics(adopted, today, lost), Metrics(Incumbent0, then, gone))
             /\ Apart(adopted)
             /\ \A x \in Days(adopted, "w2", 0) : x >= -Depth(adopted)
  <2>1. Proven(adopted) BY <1>2 DEF GraphIInv, Evidence
  <2>2. adopted \in Specs /\ today \in Int /\ tries \in Int BY <2>1 DEF Proven, GraphIInv, GraphTypeOK
  <2>3. PICK lost \in SUBSET unanswered : \E i : \E then \in Clocks :
           Supports(i, Incumbent0, then) /\ should_adopt(i, Metrics(adopted, today, lost))
    BY <2>1 DEF Proven, Supports
  <2>4. PICK then \in Clocks, gone \in SUBSET unanswered :
           should_adopt(Metrics(Incumbent0, then, gone), Metrics(adopted, today, lost))
    BY <2>3 DEF Supports
  <2>5. then \in Int BY <2>2 DEF Clocks
  <2>6. ASSUME NEW w \in Windows
        PROVE  Metrics(adopted, today, lost)[w].total_return
                 >= Metrics(Incumbent0, then, gone)[w].total_return + ReturnMargin
    <3>. DEFINE c == Metrics(adopted, today, lost)[w].total_return
                i == Metrics(Incumbent0, then, gone)[w].total_return
    <3>1. c \in Int /\ i \in Int BY <2>2, <2>5, ReturnsAreInts, GraphAssumption
    <3>2. c - i >= ReturnMargin BY <2>4 DEF should_adopt
    <3>3. ReturnMargin \in Int BY GraphAssumption
    <3>. HIDE DEF c, i
    <3>4. c >= i + ReturnMargin BY <3>1, <3>2, <3>3
    <3>. QED BY <3>4 DEF c, i
  <2>7. Outdoes(Metrics(adopted, today, lost), Metrics(Incumbent0, then, gone))
    BY <2>4, <2>6 DEF Outdoes, should_adopt
  <2>. QED BY <2>2, <2>4, <2>7, WindowsApart DEF Clocks
<1>3. AdoptionIsSound BY <1>2 DEF AdoptionIsSound
<1>. QED BY <1>1, <1>3 DEF GraphInv

LEMMA InitGraph == GraphInit => GraphIInv
<1>. SUFFICES ASSUME GraphInit PROVE GraphIInv OBVIOUS
<1>. USE DEF GraphInit
<1>1. GraphTypeOK
  <2>1. Recorded BY DEF Recorded
  <2>2. candidates \in Seq(Specs)
    <3>1. candidates = <<>> OBVIOUS
    <3>. QED BY <3>1
  <2>3. /\ node \in Nodes /\ today \in Int /\ tries \in {0, 1, 2} /\ refines \in Nat /\ keyed \in BOOLEAN
        /\ evoUsed \in Nat /\ evoSpent \in Nat /\ behind \in Nat /\ evoZombies \in Nat /\ evoFaults \in Nat
        /\ node # "idle" => tries # 0
    <3>1. /\ node = "idle" /\ today = 0 /\ tries = 0 /\ refines = 0 /\ keyed = FALSE
          /\ evoUsed = 0 /\ evoSpent = 0 /\ behind = 0 /\ evoZombies = 0 /\ evoFaults = 0
      OBVIOUS
    <3>2. keyed \in BOOLEAN BY <3>1
    <3>. HIDE DEF GraphInit
    <3>3. node \in Nodes /\ (node # "idle" => tries # 0) BY <3>1 DEF Nodes
    <3>4. today \in Int /\ tries \in {0, 1, 2} /\ refines \in Nat BY <3>1
    <3>5. evoUsed \in Nat /\ evoSpent \in Nat /\ behind \in Nat /\ evoZombies \in Nat /\ evoFaults \in Nat
      BY <3>1
    <3>. QED BY <3>2, <3>3, <3>4, <3>5
  <2>. QED BY <2>1, <2>2, <2>3 DEF GraphTypeOK
<1>2. Left = 0 BY DEF Left
<1>3. EvoBudget \in Nat BY GraphAssumption
<1>4. Spends BY <1>2, <1>3 DEF Spends, Allows
<1>5. Rounds /\ Evidence BY DEF Rounds, Evidence
<1>. QED BY <1>1, <1>4, <1>5 DEF GraphIInv

(* The proposals of the reasoner and of the fallback are specifications.   *)
LEMMA ProposalsAreSpecs ==
    /\ \A specs \in Proposals : Kept(specs) \in Seq(Specs)
    /\ Kept(Heuristic(Incumbent0)) \in Seq(Specs)
<1>1. \A specs \in Proposals : Kept(specs) \in Seq(Specs)
  BY KeptSpecs, GraphAssumption
<1>2. \A n \in Int : /\ [Incumbent0 EXCEPT !.period = n] \in Specs
                     /\ [Incumbent0 EXCEPT !.value = n] \in Specs
  BY GraphAssumption DEF Specs
<1>. DEFINE p == Incumbent0.period
            v == Incumbent0.value
            up == (v * 11) \div 10
            down == (v * 9) \div 10
<1>3. up \in Int /\ down \in Int /\ \A n \in Int : p + n \in Int
  <2>1. p \in Int /\ v \in Int BY GraphAssumption DEF Specs
  <2>. HIDE DEF p, v
  <2>. QED BY <2>1
<1>4. \A n \in Int : Nudged(Incumbent0, n) \in Seq(Specs)
  <2>1. SUFFICES ASSUME NEW n \in Int PROVE Nudged(Incumbent0, n) \in Seq(Specs) OBVIOUS
  <2>. DEFINE a == [Incumbent0 EXCEPT !.period = p + n]
  <2>2. a \in Specs BY <1>2, <1>3
  <2>3. Nudged(Incumbent0, n) \in {<<a>>, <<>>} BY DEF Nudged
  <2>. HIDE DEF a
  <2>4. <<a>> \in Seq(Specs) /\ <<>> \in Seq(Specs) BY <2>2
  <2>. QED BY <2>3, <2>4
<1>5. Heuristic(Incumbent0) \in Seq(Specs)
  <2>. DEFINE a == [Incumbent0 EXCEPT !.value = up]
              b == [Incumbent0 EXCEPT !.value = down]
              x == Nudged(Incumbent0, 2)
              y == Nudged(Incumbent0, -2)
              z == Nudged(Incumbent0, 4)
  <2>1. Heuristic(Incumbent0) = x \o y \o z \o <<a, b>> BY DEF Heuristic
  <2>2. a \in Specs /\ b \in Specs BY <1>2, <1>3
  <2>3. 2 \in Int /\ -2 \in Int /\ 4 \in Int OBVIOUS
  <2>4. x \in Seq(Specs) /\ y \in Seq(Specs) /\ z \in Seq(Specs) BY <1>4, <2>3
  <2>. HIDE DEF a, b, x, y, z
  <2>5. <<a, b>> \in Seq(Specs) BY <2>2
  <2>6. x \o y \o z \o <<a, b>> \in Seq(Specs) BY <2>4, <2>5
  <2>. QED BY <2>1, <2>6
<1>. QED BY <1>1, <1>5, KeptSpecs

(* What a step does to the attempt, but for what it calls.                 *)
LEMMA NextRounds ==
    ASSUME GraphIInv, [GraphNext]_graphVars
    PROVE  GraphTypeOK' /\ Rounds'
<1>. USE DEF GraphIInv, GraphTypeOK, Rounds, Nodes
<1>0. ASSUME failing' \in {failing, {}}, unanswered' = unanswered \/ failing' = {} PROVE Recorded'
  BY <1>0 DEF Recorded
<1>1. ASSUME Charge PROVE evoSpent' \in Nat /\ evoUsed' \in Nat /\ evoFaults' \in Nat BY <1>1 DEF Charge
<1>2. ASSUME Call PROVE evoSpent' \in Nat /\ evoUsed' \in Nat /\ evoFaults' \in Nat BY <1>1, <1>2 DEF Call, spending
<1>3. ASSUME NEW goes, LookUp(goes) PROVE evoFaults' \in Nat BY <1>3 DEF LookUp
<1>4. ASSUME Abandon PROVE evoZombies' \in Nat /\ behind' \in Nat
  <2>1. Left \in 0 .. 3 BY LeftBounds
  <2>. HIDE DEF Left
  <2>. QED BY <1>4, <2>1 DEF Abandon
<1>5. CASE StartGraph
  <2>1. Recorded' BY <1>0, <1>5 DEF StartGraph
  <2>2. candidates' \in Seq(Specs)
    <3>1. candidates' = <<>> BY <1>5 DEF StartGraph
    <3>. QED BY <3>1
  <2>3. /\ node' = "reflect" /\ tries' = 1 /\ refines' = 0 /\ keyed' \in BOOLEAN
        /\ UNCHANGED <<today, evoUsed, evoSpent, behind, evoZombies>>
    BY <1>5 DEF StartGraph
  <2>4. /\ node' \in Nodes /\ (node' # "idle" => tries' # 0)
        /\ tries' \in {0, 1, 2} /\ refines' \in Nat
    BY <2>3
  <2>5. /\ today' \in Int /\ evoUsed' \in Nat /\ evoSpent' \in Nat /\ behind' \in Nat /\ evoZombies' \in Nat
        /\ evoFaults' \in Nat
    BY <1>3, <1>5, <2>3 DEF StartGraph
  <2>6. Rounds' BY <2>3
  <2>. QED BY <2>1, <2>2, <2>3, <2>4, <2>5, <2>6
<1>6. CASE RetryGraph BY <1>0, <1>3, <1>4, <1>6 DEF RetryGraph
<1>7. CASE GiveUpGraph BY <1>0, <1>4, <1>7 DEF GiveUpGraph, channels, spending
<1>8. CASE LateCall BY <1>0, <1>2, <1>8 DEF LateCall, channels, rounds
<1>16. CASE LateStart
  <2>1. /\ UNCHANGED <<node, keyed, today, tries, candidates, refines, failing, unanswered, evoUsed, evoSpent,
                       evoZombies>>
        /\ behind' = behind + 3
    BY <1>16 DEF LateStart, channels, rounds
  <2>2. evoFaults' \in Nat BY <1>3, <1>16 DEF LateStart
  <2>. QED BY <1>0, <2>1, <2>2
<1>9. CASE Reflect BY <1>0, <1>2, <1>9 DEF Reflect, channels, rounds, spending
<1>10. CASE Propose
  <2>1. /\ node = "propose" /\ node' = "backtest" /\ refines' = refines + 1
        /\ UNCHANGED <<keyed, today, tries, rounds, behind, evoZombies>>
        /\ evoSpent' \in Nat /\ evoUsed' \in Nat /\ evoFaults' \in Nat
    BY <1>1, <1>2, <1>10 DEF Propose, Proposed, spending
  <2>2. candidates' \in Seq(Specs)
    <3>1. \/ \E specs \in Proposals : candidates' = Kept(specs)
          \/ candidates' = Kept(Heuristic(Incumbent0))
      BY <1>10 DEF Propose, Proposed
    <3>. QED BY <3>1, ProposalsAreSpecs
  <2>. QED BY <1>0, <2>1, <2>2 DEF rounds
<1>11. ASSUME NEW i, NEW s, NEW w, BacktestFails(i, s, w) PROVE GraphTypeOK' /\ Rounds'
  <2>1. Recorded'
    <3>1. failing' = failing \cup {<<i, s, w>>} /\ unanswered' = unanswered \cup {<<s, w>>}
      BY <1>11 DEF BacktestFails
    <3>2. Recorded BY DEF GraphIInv, GraphTypeOK
    <3>. QED BY <3>1, <3>2 DEF Recorded
  <2>. QED BY <1>11, <2>1 DEF BacktestFails, channels, spending
<1>12. CASE Backtest BY <1>0, <1>12 DEF Backtest, spending
<1>13. CASE DecideGate BY <1>0, <1>13 DEF DecideGate, Refine, rounds, spending
<1>14. CASE Conclude BY <1>0, <1>14 DEF Conclude, channels, rounds, spending
<1>15. CASE UNCHANGED graphVars BY <1>15, <1>0 DEF graphVars, channels, rounds, spending
<1>. QED BY <1>5, <1>6, <1>7, <1>8, <1>9, <1>10, <1>11, <1>12, <1>13, <1>14, <1>15, <1>16 DEF GraphNext, GraphStep

LEMMA NextSpends ==
    ASSUME GraphIInv, [GraphNext]_graphVars
    PROVE  Spends'
<1>. DEFINE b == EvoBudget
            L == Left
            M == Left'
            Goal == Allows(b, evoUsed', evoSpent', M, behind', evoZombies', evoFaults')
<1>1. /\ Figures(b, evoUsed, evoSpent, L, behind, evoZombies, evoFaults)
      /\ Figures(b, evoUsed', evoSpent', M, behind', evoZombies', evoFaults')
      /\ L \in 0 .. 3 /\ M \in 0 .. 3
  <2>1. GraphTypeOK' /\ Rounds' BY NextRounds
  <2>2. Left \in 0 .. 3 BY LeftBounds DEF GraphIInv
  <2>3. Left' \in 0 .. 3 BY <2>1, LeftBoundsNext DEF LeftFits
  <2>. QED BY <2>1, <2>2, <2>3, GraphAssumption DEF GraphIInv, GraphTypeOK, Figures
<1>2. Allows(b, evoUsed, evoSpent, L, behind, evoZombies, evoFaults) BY DEF GraphIInv, Spends
<1>. SUFFICES Goal BY DEF Spends
<1>3. ASSUME UNCHANGED spending, UNCHANGED <<behind, evoZombies>>, M <= L PROVE Goal
  <2>1. UNCHANGED <<evoUsed, evoSpent, evoFaults>> BY <1>3 DEF spending
  <2>. HIDE DEF L, M
  <2>. QED BY <1>1, <1>2, <1>3, <2>1, AllowsLess
<1>4. ASSUME Call
      PROVE  \/ evoSpent' = evoSpent + 1 /\ evoUsed' = evoUsed + 1 /\ evoFaults' = evoFaults
             \/ evoSpent' = evoSpent + 1 /\ evoUsed' = evoUsed /\ evoFaults' = evoFaults + 1
             \/ evoSpent' = evoSpent /\ evoUsed' = evoUsed /\ evoFaults' = evoFaults
  BY <1>4 DEF Call, Charge, spending
<1>5. ASSUME Call, evoZombies' = evoZombies,
             (M + 1 = L /\ behind' = behind) \/ (M = L /\ behind' + 1 = behind)
      PROVE  Goal
  <2>. HIDE DEF L, M
  <2>. QED BY <1>1, <1>2, <1>4, <1>5, AllowsCall
<1>6. ASSUME UNCHANGED <<evoUsed, evoSpent>>,
             (behind' = behind /\ evoZombies' = evoZombies) \/ (behind' = behind + L /\ evoZombies' = evoZombies + 1),
             \/ evoUsed < b /\ evoFaults' = evoFaults
             \/ evoFaults' = evoFaults + 1
             \/ M = 0 /\ evoFaults' = evoFaults
      PROVE  Goal
  <2>. HIDE DEF L, M
  <2>. QED BY <1>1, <1>2, <1>6, AllowsLook
<1>. HIDE DEF Goal
<1>7. CASE StartGraph BY <1>6, <1>7 DEF StartGraph, LookUp
<1>8. CASE RetryGraph
  <2>1. UNCHANGED <<evoUsed, evoSpent>> /\ Abandon BY <1>8 DEF RetryGraph
  <2>2. \/ evoUsed < b /\ evoFaults' = evoFaults
        \/ evoFaults' = evoFaults + 1
        \/ M = 0 /\ evoFaults' = evoFaults
    <3>1. PICK goes \in BOOLEAN : LookUp(goes) /\ node' = IF goes THEN "reflect" ELSE "idle"
      BY <1>8 DEF RetryGraph
    <3>2. ASSUME ~goes PROVE M = 0 BY <3>1, <3>2 DEF Left
    <3>. QED BY <3>1, <3>2 DEF LookUp
  <2>. QED BY <1>6, <2>1, <2>2 DEF Abandon
<1>9. CASE GiveUpGraph
  <2>1. UNCHANGED spending /\ Abandon BY <1>9 DEF GiveUpGraph
  <2>2. M = 0 BY <1>9 DEF GiveUpGraph, Left
  <2>. QED BY <1>6, <2>1, <2>2 DEF Abandon, spending
<1>10. CASE LateCall
  <2>1. M = L BY <1>10 DEF LateCall, Left, channels
  <2>2. behind' + 1 = behind
    <3>1. behind' = behind - 1 /\ behind \in Nat BY <1>10 DEF LateCall, GraphIInv, GraphTypeOK
    <3>. QED BY <3>1
  <2>. QED BY <1>5, <1>10, <2>1, <2>2 DEF LateCall
<1>19. CASE LateStart
  <2>1. M = L BY <1>19 DEF LateStart, Left, channels
  <2>2. /\ UNCHANGED <<evoUsed, evoSpent, evoZombies>>
        /\ behind' = behind + 3 /\ behind' <= 3 * evoZombies
        /\ (evoUsed < b /\ evoFaults' = evoFaults) \/ evoFaults' = evoFaults + 1
    BY <1>19 DEF LateStart, LookUp
  <2>3. Goal
    <3>. HIDE DEF L, M
    <3>. QED BY <1>1, <1>2, <2>1, <2>2, AllowsMore DEF Goal
  <2>. QED BY <2>3
<1>11. CASE Reflect
  <2>1. /\ node = "reflect" /\ node' = "propose" /\ refines = 0 /\ refines' = 0 /\ keyed' = keyed
        /\ UNCHANGED <<behind, evoZombies>>
    BY <1>11 DEF Reflect, channels, GraphIInv, Rounds
  <2>2. CASE keyed
    <3>1. L = 2 - 0 + 1 /\ M = 2 - 0 + 0 BY <2>1, <2>2 DEF Left
    <3>2. Call BY <1>11, <2>2 DEF Reflect
    <3>3. M + 1 = L BY <3>1
    <3>. QED BY <1>5, <2>1, <3>2, <3>3
  <2>3. CASE ~keyed
    <3>1. L = 0 /\ M = 0 BY <2>1, <2>3 DEF Left
    <3>2. UNCHANGED spending BY <1>11, <2>3 DEF Reflect
    <3>. QED BY <1>3, <2>1, <3>1, <3>2
  <2>. QED BY <2>2, <2>3
<1>12. CASE Propose
  <2>1. /\ node = "propose" /\ node' = "backtest" /\ refines' = refines + 1 /\ keyed' = keyed
        /\ UNCHANGED <<behind, evoZombies>> /\ refines \in {0, 1}
    BY <1>12 DEF Propose, Proposed, GraphIInv, Rounds
  <2>2. CASE keyed
    <3>1. L = 2 - refines + 0 /\ M = 2 - (refines + 1) + 0 BY <2>1, <2>2 DEF Left
    <3>2. Call BY <1>12, <2>2 DEF Propose, Call
    <3>3. M + 1 = L BY <2>1, <3>1
    <3>. QED BY <1>5, <2>1, <3>2, <3>3
  <2>3. CASE ~keyed
    <3>1. L = 0 /\ M = 0 BY <2>1, <2>3 DEF Left
    <3>2. UNCHANGED spending BY <1>12, <2>3 DEF Propose
    <3>. QED BY <1>3, <2>1, <3>1, <3>2
  <2>. QED BY <2>2, <2>3
<1>13. ASSUME UNCHANGED spending, UNCHANGED <<behind, evoZombies>>, M = 0 \/ M = L PROVE Goal
  <2>. HIDE DEF L, M
  <2>1. M <= L BY <1>1, <1>13
  <2>. QED BY <1>3, <1>13, <2>1
<1>14. ASSUME NEW i, NEW s, NEW w, BacktestFails(i, s, w) PROVE Goal
  <2>1. M = L BY <1>14 DEF BacktestFails, Left, channels
  <2>. QED BY <1>13, <1>14, <2>1 DEF BacktestFails
<1>15. CASE Backtest
  <2>1. M = L BY <1>15 DEF Backtest, Left
  <2>. QED BY <1>13, <1>15, <2>1 DEF Backtest
<1>16. CASE DecideGate
  <2>1. node = "decide" /\ node' \in {"propose", "done"} /\ UNCHANGED <<keyed, refines>> BY <1>16 DEF DecideGate
  <2>2. M = 0 \/ M = L BY <2>1 DEF Left
  <2>. QED BY <1>13, <1>16, <2>2 DEF DecideGate
<1>17. CASE Conclude
  <2>1. M = 0 BY <1>17 DEF Conclude, Left
  <2>. QED BY <1>13, <1>17, <2>1 DEF Conclude
<1>18. CASE UNCHANGED graphVars
  <2>1. M = L BY <1>18 DEF graphVars, Left, channels
  <2>. QED BY <1>13, <1>18, <2>1 DEF graphVars
<1>. QED BY <1>7, <1>8, <1>9, <1>10, <1>11, <1>12, <1>14, <1>15, <1>16, <1>17, <1>18, <1>19 DEF GraphNext, GraphStep

(* A round of backtests measures each specification but for those that     *)
(* failed, and the best of them is one of the candidates.                  *)
LEMMA BacktestsTell ==
    ASSUME MeasuresAreNumbers, GraphIInv, candidates # <<>>, Measured
    PROVE  /\ best' \in DOMAIN candidates
           /\ Supports(backtests'[best'], candidates[best'], today)
           /\ \/ incumbent_metrics # NoSpec /\ incumbent_metrics' = incumbent_metrics
              \/ Supports(incumbent_metrics', Incumbent0, today)
<1>. DEFINE n == Len(candidates)
            m(i) == Metrics(candidates[i], today, Lost(i))
            v == [i \in 1 .. n |-> Score(m(i))]
<1>1. /\ n \in Nat \ {0} /\ DOMAIN candidates = 1 .. n /\ \A i \in 1 .. n : candidates[i] \in Specs
  BY DEF GraphIInv, GraphTypeOK
<1>. HIDE DEF n
<1>2. \A i : Lost(i) \in SUBSET unanswered
  <2>. SUFFICES ASSUME NEW i, NEW x \in Lost(i) PROVE x \in unanswered OBVIOUS
  <2>1. x \in Sampled \X Windows /\ <<i, x[1], x[2]>> \in failing BY DEF Lost
  <2>2. <<x[1], x[2]>> \in unanswered BY <2>1 DEF GraphIInv, GraphTypeOK, Recorded
  <2>. QED BY <2>1, <2>2
<1>4. backtests' = [i \in DOMAIN candidates |-> m(i)] BY DEF Measured
<1>5. incumbent_metrics' = IF incumbent_metrics = NoSpec THEN Metrics(Incumbent0, today, Lost(0))
                           ELSE incumbent_metrics
  BY DEF Measured
<1>6. \A i \in 1 .. n : v[i] \in Int
  <2>. SUFFICES ASSUME NEW i \in 1 .. n PROVE Score(m(i)) \in Int OBVIOUS
  <2>1. candidates[i] \in Specs /\ today \in Int BY <1>1 DEF GraphIInv, GraphTypeOK
  <2>2. \A w \in Windows : m(i)[w].total_return \in Int
    BY <2>1, ReturnsAreInts
  <2>. HIDE DEF m
  <2>3. \A w \in {"w1", "w2"} : m(i)[w].total_return \in Int
    BY <2>2 DEF Windows
  <2>. QED BY <2>3 DEF Score
<1>. HIDE DEF m
<1>7. \A i \in 1 .. n : Score(backtests'[i]) = v[i] BY <1>1, <1>4
<1>. HIDE DEF v
<1>8. \E i \in 1 .. n : \A j \in 1 .. n : v[i] > v[j] \/ (v[i] = v[j] /\ i <= j)
  BY <1>1, <1>6, BestExists
<1>. DEFINE Wins(i) == \A j \in DOMAIN candidates :
                          LET si == Score(backtests'[i]) sj == Score(backtests'[j])
                          IN  si > sj \/ (si = sj /\ i <= j)
<1>9. \E i \in DOMAIN candidates : Wins(i) BY <1>1, <1>7, <1>8
<1>10. best' = CHOOSE i \in DOMAIN candidates : Wins(i) BY DEF Measured
<1>. HIDE DEF Wins
<1>11. best' \in DOMAIN candidates BY <1>9, <1>10
<1>12. \A i \in DOMAIN candidates : Supports(backtests'[i], candidates[i], today)
  BY <1>2, <1>4 DEF Supports, m
<1>13. Supports(Metrics(Incumbent0, today, Lost(0)), Incumbent0, today) BY <1>2 DEF Supports
<1>. QED BY <1>5, <1>11, <1>12, <1>13

(* Evidence stays evidence while the clock, the attempt and the failures   *)
(* of the cycle stay or grow.                                              *)
Stays == UNCHANGED <<today, tries>> /\ unanswered \subseteq unanswered'

LEMMA EvidenceStays ==
    ASSUME Stays
    PROVE  /\ \A m, spec, then : Supports(m, spec, then) => Supports(m, spec, then)'
           /\ IncumbentKnown /\ incumbent_metrics' = incumbent_metrics => IncumbentKnown'
           /\ \A spec : Proven(spec) => Proven(spec)'
<1>1. ASSUME NEW m, NEW spec, NEW then PROVE Supports(m, spec, then) => Supports(m, spec, then)'
  BY DEF Stays, Supports
<1>2. Clocks' = Clocks BY DEF Stays, Clocks
<1>3. today' = today BY DEF Stays
<1>. QED BY <1>1, <1>2, <1>3 DEF IncumbentKnown, Proven

LEMMA NextEvidence ==
    ASSUME MeasuresAreNumbers, GraphIInv, [GraphNext]_graphVars
    PROVE  Evidence'
<1>. USE DEF Evidence
<1>0. tries \in {0, 1, 2} /\ today \in Int /\ (node # "idle" => tries # 0) BY DEF GraphIInv, GraphTypeOK
<1>1. CASE StartGraph BY <1>1 DEF StartGraph
<1>2. CASE RetryGraph
  <2>1. /\ node # "idle" /\ tries = 1 /\ tries' = 2 /\ today' = today + 1 /\ node' \in {"reflect", "idle"}
        /\ UNCHANGED <<incumbent_metrics, unanswered>>
    BY <1>2 DEF RetryGraph
  <2>2. Clocks = {today} /\ today \in Clocks' BY <1>0, <2>1 DEF Clocks
  <2>3. IncumbentKnown => IncumbentKnown' BY <2>1, <2>2 DEF IncumbentKnown, Supports
  <2>. QED BY <2>1, <2>3 DEF GraphIInv
<1>3. CASE GiveUpGraph BY <1>3 DEF GiveUpGraph
<1>4. ASSUME Stays, UNCHANGED incumbent_metrics, node # "idle", node' \in {"propose", "backtest"} PROVE Evidence'
  BY <1>4, EvidenceStays DEF GraphIInv
<1>5. ASSUME Stays, UNCHANGED <<node, candidates, backtests, incumbent_metrics, best, adopted>> PROVE Evidence'
  <2>1. CASE node = "idle" BY <1>5, <2>1
  <2>2. CASE node # "idle"
    <3>1. today' = today BY <1>5 DEF Stays
    <3>. QED BY <1>5, <2>2, <3>1, EvidenceStays DEF GraphIInv
  <2>. QED BY <2>1, <2>2
<1>6. CASE LateCall BY <1>5, <1>6 DEF LateCall, channels, rounds, Stays
<1>14. CASE LateStart BY <1>5, <1>14 DEF LateStart, channels, rounds, Stays
<1>7. CASE Reflect BY <1>4, <1>7 DEF Reflect, channels, rounds, Stays
<1>8. CASE Propose BY <1>4, <1>8 DEF Propose, Proposed, rounds, Stays
<1>9. ASSUME NEW i, NEW s, NEW w, BacktestFails(i, s, w) PROVE Evidence'
  BY <1>5, <1>9 DEF BacktestFails, channels, Stays
<1>10. CASE Backtest
  <2>1. /\ node = "backtest" /\ node' = "decide" /\ UNCHANGED <<today, tries, unanswered, candidates>>
    BY <1>10 DEF Backtest
  <2>2. Stays BY <2>1 DEF Stays
  <2>3. CASE candidates = <<>> /\ best' = 0 /\ UNCHANGED incumbent_metrics
    BY <2>1, <2>2, <2>3, EvidenceStays DEF GraphIInv
  <2>4. CASE candidates # <<>> /\ Measured
    <3>1. /\ best' \in DOMAIN candidates
          /\ Supports(backtests'[best'], candidates[best'], today)
          /\ \/ incumbent_metrics # NoSpec /\ incumbent_metrics' = incumbent_metrics
             \/ Supports(incumbent_metrics', Incumbent0, today)
      BY <2>4, BacktestsTell
    <3>3. Supports(backtests[best], candidates[best], today)' BY <2>1, <3>1 DEF Supports
    <3>4. IncumbentKnown'
      <4>1. CASE incumbent_metrics # NoSpec /\ incumbent_metrics' = incumbent_metrics
        BY <2>1, <2>2, <4>1, EvidenceStays DEF GraphIInv
      <4>2. CASE Supports(incumbent_metrics', Incumbent0, today)
        BY <2>1, <4>2 DEF IncumbentKnown, Clocks, Supports
      <4>. QED BY <3>1, <4>1, <4>2
    <3>. QED BY <2>1, <3>1, <3>3, <3>4
  <2>. QED BY <1>10, <2>3, <2>4 DEF Backtest
<1>11. CASE DecideGate
  <2>1. /\ node = "decide" /\ node' \in {"propose", "done"} /\ UNCHANGED <<today, tries, unanswered, incumbent_metrics>>
        /\ adopted' = IF best # 0 /\ should_adopt(incumbent_metrics, backtests[best])
                      THEN candidates[best] ELSE NoSpec
    BY <1>11 DEF DecideGate, rounds
  <2>2. Stays BY <2>1 DEF Stays
  <2>3. ASSUME best # 0, should_adopt(incumbent_metrics, backtests[best]) PROVE Proven(candidates[best])
    <3>1. /\ best \in DOMAIN candidates /\ IncumbentKnown
          /\ Supports(backtests[best], candidates[best], today)
      BY <2>1, <2>3 DEF GraphIInv
    <3>2. candidates[best] \in Specs BY <3>1 DEF GraphIInv, GraphTypeOK
    <3>. QED BY <2>3, <3>1, <3>2 DEF Proven, IncumbentKnown
  <2>4. adopted' # NoSpec => Proven(adopted') BY <2>1, <2>3
  <2>5. adopted' # NoSpec => Proven(adopted)'
    <3>. SUFFICES ASSUME Proven(adopted') PROVE Proven(adopted)' BY <2>4
    <3>. QED BY <2>1 DEF Proven, Supports, Clocks
  <2>. QED BY <2>1, <2>2, <2>5, EvidenceStays DEF GraphIInv
<1>12. CASE Conclude BY <1>12 DEF Conclude
<1>13. CASE UNCHANGED graphVars BY <1>5, <1>13 DEF graphVars, channels, rounds, Stays
<1>. QED BY <1>1, <1>2, <1>3, <1>6, <1>7, <1>8, <1>9, <1>10, <1>11, <1>12, <1>13, <1>14 DEF GraphNext, GraphStep

(* Whatever is proposed, whatever the archive holds and whatever fails, an *)
(* attempt adopts only what beats the incumbent by the margin on both      *)
(* windows, which are apart and inside the archive, as far as the cycle's  *)
(* backtests answered; and what the reasoner spends exceeds the budget at  *)
(* most by three calls for each attempt that goes on at once and for each  *)
(* read or charge that Redis loses (graph.py, gate.py, tools.py,           *)
(* budget.py).                                                             *)
THEOREM AdoptionRestsOnEvidence ==
    ASSUME MeasuresAreNumbers
    PROVE  GraphSpec => []GraphInv
<1>1. GraphInit => GraphIInv BY InitGraph
<1>2. GraphIInv /\ [GraphNext]_graphVars => GraphIInv' BY NextRounds, NextSpends, NextEvidence DEF GraphIInv
<1>3. GraphIInv => GraphInv BY GraphFollows
<1>. QED BY <1>1, <1>2, <1>3, PTL DEF GraphSpec
=============================================================================
