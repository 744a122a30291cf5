----------------------------- MODULE Evolution -----------------------------
(***************************************************************************)
(* game-api/app/evolve/workflow.py: EvolutionWorkflow runs one activity    *)
(* per hourly cycle, at most two attempts, which walks over the agents     *)
(* and, for one whose turn it is, reasons, creates a strategy in trade-api,*)
(* swaps it into the agent's indicator_dsl slot, retires the one it        *)
(* replaces and records the experiment: four transactions of two services. *)
(*                                                                         *)
(* An attempt whose heartbeat is late (3 min) is given up by Temporal and  *)
(* followed by the next one, while its process may be dead or still run    *)
(* on.  What the reasoning graph decides is a free choice.  seed.py may be *)
(* run at any time.  A strategy stands for an indicator_dsl one; the other *)
(* kinds never change hands.                                               *)
(***************************************************************************)
EXTENDS Integers, FiniteSets, FiniteSetsExt

CONSTANTS Agents, House,   \* agents; ids of the house strategies
          None,
          MaxRuns,         \* bound: evolution cycles
          MaxDays,         \* bound: cooldowns that run out
          MaxCreated,      \* bound: rows inserted by create_strategy
          MaxCrashes,      \* bound: attempts that die
          MaxZombies,      \* bound: attempts that outlive their timeout
          MaxReseeds       \* bound: runs of seed.py

Ids      == House \cup 1 .. MaxCreated
Runs     == 1 .. MaxRuns
Attempts == Runs \X {1, 2}         \* RetryPolicy(maximum_attempts=2)
Rows     == [owner : Agents \cup {"house"}, version : Nat, status : {"active", "retired"}]

ASSUME EvolutionAssumption ==
    /\ House \cap Nat = {} /\ House # {} /\ None \notin House \cup Agents \cup Nat
    /\ "house" \notin Agents          \* owner_type tells the two apart
    /\ None \notin Attempts /\ None \notin Rows
    /\ {MaxRuns, MaxDays, MaxCreated, MaxCrashes, MaxZombies, MaxReseeds} \subseteq Nat

VARIABLES
    strategy,    \* trade.strategy: [owner, version, status], None while absent
    slots,       \* agent.strategy_ids, the indicator_dsl ones
    experiment,  \* strategy_experiment: [agent, by, day]
    day,         \* 24-hour periods
    current,     \* the attempt Temporal waits for, None between cycles
    pc, todo, agent, incumbent, new, ids,   \* locals of each attempt
    seed,        \* seed.py: None, or the user strategies it knows of
    created, crashes, zombies, reseeds      \* bounded inputs used up

tables == <<strategy, slots, experiment>>
locals == <<pc, todo, agent, incumbent, new, ids>>
bounds == <<created, crashes, zombies, reseeds>>
vars == <<tables, day, current, locals, seed, bounds>>

Constructs(a) == {i \in Ids : IF strategy[i] = None THEN FALSE ELSE strategy[i].owner = a}
Live(x) == pc[x] \notin {"off", "dead", "done"}

(* _incumbent: the one indicator_dsl strategy, if it is the only one.      *)
Incumbent(held) == IF Cardinality(held) = 1 THEN CHOOSE i \in held : TRUE ELSE None

Goto(x, where) == pc' = [pc EXCEPT ![x] = where]

(***************************************************************************)
(* Temporal: the schedule (overlap SKIP), retries, lost workers.           *)
(***************************************************************************)
(* An attempt begins by reading the agents and then the strategies; rows   *)
(* are never removed and keep their owner and version, so reading both at  *)
(* once gives the same incumbents.                                         *)
Begin(x) ==
    /\ current' = x
    /\ pc' = [pc EXCEPT ![x] = "next"]
    /\ todo' = [todo EXCEPT ![x] = Agents]
    /\ incumbent' = [incumbent EXCEPT ![x] = [a \in Agents |-> Incumbent(slots[a])]]
    /\ UNCHANGED <<tables, day, agent, new, ids, seed, created, crashes, reseeds>>

StartCycle(r) ==
    /\ current = None
    /\ pc[<<r, 1>>] = "off"
    /\ \A q \in Runs : q < r => pc[<<q, 1>>] # "off"
    /\ Begin(<<r, 1>>)
    /\ UNCHANGED zombies

GiveUp(x) ==
    /\ current = x
    /\ pc[x] = "dead" \/ (Live(x) /\ zombies < MaxZombies)
    /\ zombies' = IF Live(x) THEN zombies + 1 ELSE zombies

Retry(r) == GiveUp(<<r, 1>>) /\ Begin(<<r, 2>>)

FailCycle(r) ==
    /\ GiveUp(<<r, 2>>)
    /\ current' = None
    /\ UNCHANGED <<tables, day, locals, seed, created, crashes, reseeds>>

(* The worker dies, or a late heartbeat brings the cancellation: the       *)
(* attempt stops between two awaits.                                       *)
Crash(x) ==
    /\ Live(x)
    /\ crashes < MaxCrashes
    /\ crashes' = crashes + 1
    /\ Goto(x, "dead")
    /\ UNCHANGED <<tables, day, current, todo, agent, incumbent, new, ids, seed, created, zombies, reseeds>>

Finish(x) ==
    /\ pc[x] = "next" /\ todo[x] = {}
    /\ Goto(x, "done")
    /\ current' = IF current = x THEN None ELSE current
    /\ UNCHANGED <<tables, day, todo, agent, incumbent, new, ids, seed, bounds>>

(***************************************************************************)
(* _evolve_one.                                                            *)
(***************************************************************************)
AlreadyProcessed(a, r) == \E e \in experiment : e.agent = a /\ e.by[1] = r
Cooling(a) == \E e \in experiment : e.agent = a /\ e.day = day

(* Mutant: neither the cycle nor the cooldown is looked up.                *)
Always(a, r) == TRUE

(* experiment_exists, then should_evolve_now with its other inputs open.   *)
MayEvolve(a, r) == ~AlreadyProcessed(a, r) /\ ~Cooling(a)

Skip(x, a) ==
    /\ pc[x] = "next" /\ a \in todo[x]
    /\ todo' = [todo EXCEPT ![x] = @ \ {a}]
    /\ UNCHANGED <<tables, day, current, pc, agent, incumbent, new, ids, seed, bounds>>

Pick(x, a, where) ==
    /\ pc[x] = "next" /\ a \in todo[x]
    /\ incumbent[x][a] # None
    /\ MayEvolve(a, x[1])
    /\ agent' = [agent EXCEPT ![x] = a]
    /\ todo' = [todo EXCEPT ![x] = @ \ {a}]
    /\ new' = [new EXCEPT ![x] = None]
    /\ Goto(x, where)
    /\ UNCHANGED <<tables, day, current, incumbent, ids, seed, bounds>>

(* Over budget goes straight to the record, "aborted".                     *)
Consider(x, a) == Pick(x, a, "reason") \/ Pick(x, a, "record")

Step(x, from, to) == pc[x] = from /\ Goto(x, to)

(* The graph and its gate; an exception is caught per agent.               *)
Reason(x) ==
    /\ \/ Step(x, "reason", "create") \/ Step(x, "reason", "record") \/ Step(x, "reason", "next")
    /\ UNCHANGED <<tables, day, current, todo, agent, incumbent, new, ids, seed, bounds>>

Old(x) == incumbent[x][agent[x]]
Version(x) == strategy[Old(x)].version + 1

(* unique(name, version) with name "construct:{handle}".                   *)
Taken(x) == \E i \in Constructs(agent[x]) : strategy[i].version = Version(x)

Row(x) == [owner |-> agent[x], version |-> Version(x), status |-> "active"]

Insert(x, base) ==
    /\ created < MaxCreated
    /\ created' = created + 1
    /\ strategy' = [base EXCEPT ![created + 1] = Row(x)]
    /\ UNCHANGED <<slots, experiment, day, current, todo, agent, incumbent, ids, seed, crashes, zombies, reseeds>>

(* Mutant: the prior construct is retired first.                           *)
CreateRetires(x) ==
    /\ Step(x, "create", "read")
    /\ ~Taken(x)
    /\ new' = [new EXCEPT ![x] = created + 1]
    /\ Insert(x, [strategy EXCEPT ![Old(x)].status = IF Old(x) \in House THEN @ ELSE "retired"])

(* POST /strategies.                                                       *)
Create(x) ==
    /\ Step(x, "create", "read")
    /\ ~Taken(x)
    /\ new' = [new EXCEPT ![x] = created + 1]
    /\ Insert(x, strategy)

(* The row is committed, the answer comes after the client's timeout.      *)
CreateTimesOut(x) ==
    /\ Step(x, "create", "next")
    /\ ~Taken(x)
    /\ Insert(x, strategy)
    /\ UNCHANGED new

(* 500: nothing is written, nothing recorded.                              *)
CreateRefused(x) ==
    /\ Step(x, "create", "next")
    /\ Taken(x)
    /\ UNCHANGED <<tables, day, current, todo, agent, incumbent, new, ids, seed, bounds>>

(* session.get(Agent); the list is changed in memory and committed later.  *)
SwapRead(x) ==
    /\ Step(x, "read", "swap")
    /\ ids' = [ids EXCEPT ![x] = slots[agent[x]]]
    /\ UNCHANGED <<tables, day, current, todo, agent, incumbent, new, seed, bounds>>

(* Mutant: the new id is only added.                                       *)
Added(x) == ids[x] \cup {new[x]}

(* Replaced where the incumbent is, appended where it is not.              *)
Swapped(x) == (ids[x] \ {Old(x)}) \cup {new[x]}

SwapCommit(x) ==
    /\ Step(x, "swap", "retire")
    /\ slots' = [slots EXCEPT ![agent[x]] = Swapped(x)]
    /\ UNCHANGED <<strategy, experiment, day, current, todo, agent, incumbent, new, ids, seed, bounds>>

OwnConstruct(x) == strategy[Old(x)].owner = agent[x]

(* POST /strategies/{id}/status, whose failure is only logged.             *)
Retire(x) ==
    /\ Step(x, "retire", "record")
    /\ \/ OwnConstruct(x) /\ strategy' = [strategy EXCEPT ![Old(x)].status = "retired"]
       \/ UNCHANGED strategy
    /\ UNCHANGED <<slots, experiment, day, current, todo, agent, incumbent, new, ids, seed, bounds>>

Record(x) ==
    /\ Step(x, "record", "next")
    /\ experiment' = experiment \cup {[agent |-> agent[x], by |-> x, day |-> day]}
    /\ UNCHANGED <<strategy, slots, day, current, todo, agent, incumbent, new, ids, seed, bounds>>

(***************************************************************************)
(* seed.py: the strategies are listed first, the agents written later.     *)
(***************************************************************************)
UserOwned == {i \in Ids : IF strategy[i] = None THEN FALSE ELSE strategy[i].owner # "house"}

SeedRead ==
    /\ seed = None
    /\ reseeds < MaxReseeds
    /\ reseeds' = reseeds + 1
    /\ seed' = UserOwned
    /\ UNCHANGED <<tables, day, current, locals, created, crashes, zombies>>

(* _reseed_strategy_ids; the roster may name another house strategy.       *)
Reseeded(held, h) == IF held \cap seed # {} THEN held ELSE {h}

SeedWrite ==
    /\ seed # None
    /\ \E h \in House : slots' = [a \in Agents |-> Reseeded(slots[a], h)]
    /\ seed' = None
    /\ UNCHANGED <<strategy, experiment, day, current, locals, bounds>>

(* A cycle, retries included, is far shorter than the cooldown.            *)
DayPasses ==
    /\ day < MaxDays
    /\ current = None
    /\ day' = day + 1
    /\ UNCHANGED <<tables, current, locals, seed, bounds>>

-----------------------------------------------------------------------------
Init ==
    /\ strategy = [i \in Ids |-> IF i \in House THEN [owner |-> "house", version |-> 1, status |-> "active"] ELSE None]
    /\ slots \in [Agents -> {{h} : h \in House}]
    /\ experiment = {} /\ day = 0 /\ current = None
    /\ pc = [x \in Attempts |-> "off"]
    /\ todo = [x \in Attempts |-> {}]
    /\ agent = [x \in Attempts |-> None]
    /\ incumbent = [x \in Attempts |-> None]
    /\ new = [x \in Attempts |-> None]
    /\ ids = [x \in Attempts |-> {}]
    /\ seed = None
    /\ created = 0 /\ crashes = 0 /\ zombies = 0 /\ reseeds = 0

Next ==
    \/ \E r \in Runs : StartCycle(r) \/ Retry(r) \/ FailCycle(r)
    \/ \E x \in Attempts :
         \/ Crash(x) \/ Finish(x)
         \/ \E a \in Agents : Skip(x, a) \/ Consider(x, a)
         \/ Reason(x) \/ Create(x) \/ CreateTimesOut(x) \/ CreateRefused(x)
         \/ SwapRead(x) \/ SwapCommit(x) \/ Retire(x) \/ Record(x)
    \/ SeedRead \/ SeedWrite \/ DayPasses

Spec == Init /\ [][Next]_vars

-----------------------------------------------------------------------------
(* Every variable has its type; an agent's slots refer to existing rows.   *)
TypeOK ==
    /\ strategy \in [Ids -> Rows \cup {None}]
    /\ slots \in [Agents -> SUBSET Ids]
    /\ \A a \in Agents : slots[a] \subseteq {i \in Ids : strategy[i] # None}
    /\ experiment \subseteq [agent : Agents, by : Attempts, day : 0 .. MaxDays]
    /\ day \in 0 .. MaxDays
    /\ current \in Attempts \cup {None}
    /\ pc \in [Attempts -> {"off", "next", "reason", "create", "read", "swap", "retire", "record", "done", "dead"}]
    /\ todo \in [Attempts -> SUBSET Agents]
    /\ agent \in [Attempts -> Agents \cup {None}]
    /\ incumbent \in [Attempts -> [Agents -> Ids \cup {None}] \cup {None}]
    /\ new \in [Attempts -> Ids \cup {None}]
    /\ ids \in [Attempts -> SUBSET Ids]
    /\ seed \in (SUBSET Ids) \cup {None}
    /\ created \in 0 .. MaxCreated /\ crashes \in 0 .. MaxCrashes
    /\ zombies \in 0 .. MaxZombies /\ reseeds \in 0 .. MaxReseeds

(* A shared house strategy is never retired, whoever evolves away from it. *)
HouseStays == \A h \in House : strategy[h].status = "active"

(* The slot stays well formed: whatever attempts overlap, die or are       *)
(* retried, an agent has exactly one indicator_dsl strategy, so evolution  *)
(* keeps knowing what to replace.  (A reseed may overtake an adoption.)    *)
OneSlot == reseeds = 0 => \A a \in Agents : Cardinality(slots[a]) = 1

(* A construct is laid to rest only after its successor took its place: no *)
(* agent runs a retired one, and the next version exists.                  *)
RetiredIsSuperseded ==
    \A a \in Agents : \A i \in Constructs(a) :
        strategy[i].status = "retired" =>
            /\ i \notin slots[a]
            /\ \E j \in Constructs(a) : strategy[j].version = strategy[i].version + 1

(* docs/14-deep-agents.md: an agent evolves "at most once per 24h", over   *)
(* crashes, retries and reseeds; an attempt that outlives its timeout may  *)
(* evolve it beside its retry.                                             *)
OncePerDay ==
    zombies = 0 => \A e, f \in experiment : e.agent = f.agent /\ e.day = f.day => e = f

(* Through crashes, late attempts and reseeds: slots refer to rows, house  *)
(* strategies stay, and a retired construct has its successor.             *)
LibraryInv == TypeOK /\ HouseStays /\ RetiredIsSuperseded
=============================================================================
