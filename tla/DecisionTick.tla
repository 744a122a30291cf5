--------------------------- MODULE DecisionTick ----------------------------
(***************************************************************************)
(* game-api/app/agents/decision.py and monitor.py for one agent: each tick *)
(* of its schedule decides on a snapshot and applies the decision, placing *)
(* orders in trade-api over HTTP, recording the tick and reconciling the   *)
(* diary; the position monitor sells positions at any moment and writes    *)
(* the diary too.                                                          *)
(*                                                                         *)
(* trade-api appears as what SimBroker shows of it: orders are idempotent  *)
(* by client_order_id, a reduce_only order only reduces.  Sizes are units. *)
(* Temporal gives an attempt of apply_activity 60 s and starts it at most  *)
(* three times.  It sends no heartbeat, so an attempt that Temporal has    *)
(* given up is not told and runs on.                                       *)
(***************************************************************************)
EXTENDS Integers, Sequences, FiniteSets, Diary

CONSTANTS Symbols,
          Stops,         \* what the manager answers for stop_loss_pct
          MaxTicks,      \* bound: ticks
          MaxActions,    \* bound: actions of one decision
          MaxQty,        \* bound: size of a position
          MaxLost,       \* bound: orders whose answer is an exception
          MaxCrashes,    \* bound: attempts that die
          MaxZombies,    \* bound: attempts that outlive their timeout
          MaxReadFails,  \* bound: reads of the reconciliation that fail
          MaxExits       \* bound: exits of the monitor

Ticks    == 1 .. MaxTicks
Indices  == 1 .. MaxActions
Attempts == Ticks \X (1 .. 3)      \* RetryPolicy(maximum_attempts=3)
Keys     == Ticks \X Indices       \* client_order_id

ActionSet == [symbol : Symbols, kind : {"buy", "short"}, stop : Stops]
                \cup [symbol : Symbols, kind : {"close"}, stop : {"none"}]
Decisions == UNION {[1 .. n -> ActionSet] : n \in 0 .. MaxActions}
PlanRows  == [positions : [Symbols -> Int], actions : Decisions]
OrderRows == [act : Indices, status : {"filled", "rejected"}]
Entries   == [key : Keys, act : Indices, status : {"filled", "rejected"}]
AuditRows == [placed : SUBSET Entries, failed : SUBSET Indices]

ASSUME TickAssumption ==
    /\ {MaxTicks, MaxActions, MaxQty, MaxLost, MaxCrashes, MaxZombies, MaxReadFails, MaxExits} \subseteq Nat
    /\ Stops \subseteq {"none", "positive", "negative"}
    /\ None \notin Int
    /\ None \notin Attempts
    /\ None \notin PlanRows
    /\ None \notin OrderRows
    /\ None \notin AuditRows

VARIABLES
    pos,         \* trade-api: signed size of each position
    life,        \* history: which life of the symbol's position this is
    protected,   \* the position row has a stop
    order,       \* order rows: what was asked, status, None while absent
    late,        \* requests whose client has stopped waiting
    plan,        \* decide_activity's result: [positions, actions]
    current,     \* the attempt Temporal waits for, None between ticks
    run,         \* each attempt: [pc, at, placed, failed, view, row]
    audit,       \* agent_decision: [placed, failed]
    diary,       \* trade_diary
    mon,         \* the monitor's activity: [pc, exits, row]
    lost, crashes, zombies, readFails, exits    \* bounded inputs used up

broker == <<pos, life, protected, order>>
bounds == <<lost, crashes, zombies, readFails, exits>>
vars   == <<broker, late, plan, current, run, audit, diary, mon, bounds>>

Abs(n)   == IF n < 0 THEN -n ELSE n
Live(x)  == run[x].pc \notin {"off", "dead", "done"}

(* An attempt that has not begun or has ended has no locals.               *)
At(where) == [pc |-> where, at |-> 1, placed |-> {}, failed |-> {}, view |-> None, row |-> None]

Become(x, where) == run' = [run EXCEPT ![x] = At(where)]
Goto(x, where)   == run' = [run EXCEPT ![x].pc = where]
Actions(x) == plan[x[1]].actions

(***************************************************************************)
(* trade-api.                                                              *)
(***************************************************************************)
(* A reduce_only order is capped at the position, refused beyond it; an    *)
(* open the other way covers first and stops at flat.                      *)
Reduces(q, o) == (q > 0 /\ o.qty < 0) \/ (q < 0 /\ o.qty > 0)
FilledQty(q, o) == IF Reduces(q, o) /\ Abs(o.qty) > Abs(q) THEN 0 ELSE q + o.qty

Fills(o) ==
    /\ o.reduce_only => Reduces(pos[o.symbol], o)
    /\ Abs(FilledQty(pos[o.symbol], o)) <= MaxQty
    /\ pos' = [pos EXCEPT ![o.symbol] = FilledQty(@, o)]

(* _clamp_pct makes a level that is not positive None.  A fresh open takes *)
(* the order's level, an increase overrides it only with one.              *)
Levels(o) ==
    LET q == pos[o.symbol] stop == o.stop = "positive" IN
    protected' = [protected EXCEPT ![o.symbol] =
        IF q = 0 THEN stop ELSE IF Reduces(q, o) THEN @ ELSE @ \/ stop]

Execute(k, o) ==
    \/ /\ Fills(o)
       /\ Levels(o)
       /\ life' = [life EXCEPT ![o.symbol] = IF pos[o.symbol] = 0 THEN @ + 1 ELSE @]
       /\ order' = [order EXCEPT ![k] = [act |-> o.act, status |-> "filled"]]
    \/ /\ order' = [order EXCEPT ![k] = [act |-> o.act, status |-> "rejected"]]
       /\ UNCHANGED <<pos, life, protected>>

(* place_order: a known key returns its order.                             *)
Handle(k, o) == IF order[k] = None THEN Execute(k, o) ELSE UNCHANGED broker

(* The request arrives, or is worked on, after its client gave up.         *)
HandleLate(r) ==
    /\ r \in late
    /\ late' = late \ {r}
    /\ Handle(r.key, r.order)
    /\ UNCHANGED <<plan, current, run, audit, diary, mon, bounds>>

(***************************************************************************)
(* The schedule and decide_activity.                                       *)
(***************************************************************************)
(* What guardrails.validate lets through for a snapshot: closes of what is *)
(* held, opens that are not against it and that the symbol's one signal of *)
(* the tick backs.                                                         *)
Valid(snapshot, signal, a) ==
    CASE a.kind = "close" -> snapshot[a.symbol] # 0
      [] a.kind = "buy"   -> snapshot[a.symbol] >= 0 /\ signal[a.symbol] = "buy"
      [] a.kind = "short" -> snapshot[a.symbol] <= 0 /\ signal[a.symbol] = "short" /\ a.stop # "none"

Plans(snapshot) ==
    UNION {[1 .. n -> {a \in ActionSet : Valid(snapshot, signal, a)}] :
              n \in 0 .. MaxActions, signal \in [Symbols -> {"buy", "short"}]}

(* A tick starts when the previous workflow has ended (overlap SKIP).  An  *)
(* attempt of decide that dies changes nothing, a tick that is skipped     *)
(* does not happen; the first attempt of apply begins at once.             *)
StartTick(t) ==
    /\ current = None
    /\ plan[t] = None
    /\ \A u \in Ticks : u < t => plan[u] # None
    /\ \E actions \in Plans(pos) : plan' = [plan EXCEPT ![t] = [positions |-> pos, actions |-> actions]]
    /\ current' = <<t, 1>>
    /\ Become(<<t, 1>>, "place")
    /\ UNCHANGED <<broker, late, audit, diary, mon, bounds>>

(* Temporal: an attempt that raised, died or is out of time is followed by *)
(* the next one; the third ends the workflow.                              *)
GiveUp(x) ==
    /\ current = x
    /\ run[x].pc = "dead" \/ (Live(x) /\ zombies < MaxZombies)
    /\ zombies' = IF Live(x) THEN zombies + 1 ELSE zombies
    /\ UNCHANGED <<broker, late, plan, audit, diary, mon, lost, crashes, readFails, exits>>

Retry(t, n) ==
    /\ GiveUp(<<t, n>>)
    /\ current' = <<t, n + 1>>
    /\ Become(<<t, n + 1>>, "place")

FailTick(t) ==
    /\ GiveUp(<<t, 3>>)
    /\ current' = None
    /\ UNCHANGED run

Crash(x) ==
    /\ Live(x)
    /\ crashes < MaxCrashes
    /\ crashes' = crashes + 1
    /\ Become(x, "dead")
    /\ UNCHANGED <<broker, late, plan, current, audit, diary, mon, lost, zombies, readFails, exits>>

End(x) ==
    /\ Become(x, "done")
    /\ current' = IF current = x THEN None ELSE current

(***************************************************************************)
(* apply_activity: the orders.                                             *)
(***************************************************************************)
(* stop_loss_pct or the risk profile's or the default.                     *)
StopOf(a) == IF a.stop = "none" THEN "positive" ELSE a.stop

(* The order of action i of attempt x, by the payload's snapshot.          *)
OrderOf(x, i) ==
    LET a == Actions(x)[i]
        held == plan[x[1]].positions[a.symbol]
    IN  IF a.kind = "close"
        THEN [act |-> i, symbol |-> a.symbol, qty |-> -held, reduce_only |-> TRUE, stop |-> "none"]
        ELSE [act |-> i, symbol |-> a.symbol, qty |-> IF a.kind = "buy" THEN 1 ELSE -1,
              reduce_only |-> FALSE, stop |-> StopOf(a)]

(* Mutant: numbered by the orders placed so far.                           *)
KeyByPlaced(x) == <<x[1], Cardinality(run[x].placed) + 1>>

KeyOf(x) == <<x[1], run[x].at>>

Placing(x) == run[x].pc = "place" /\ run[x].at <= Len(Actions(x))

(* The next action, after noting what became of this one.                  *)
Note(x, outcome, what) == run' = [run EXCEPT ![x].at = @ + 1, ![x][outcome] = @ \cup {what}]

PlaceAnswered(x) ==
    /\ Placing(x)
    /\ Handle(KeyOf(x), OrderOf(x, run[x].at))
    /\ Note(x, "placed", [key |-> KeyOf(x), act |-> run[x].at, status |-> order'[KeyOf(x)].status])
    /\ UNCHANGED <<late, plan, current, audit, diary, mon, bounds>>

(* Mutant: an order that raises is not counted.                            *)
PassOver(x) ==
    /\ Placing(x)
    /\ lost < MaxLost
    /\ lost' = lost + 1
    /\ late' \in {late, late \cup {[key |-> KeyOf(x), order |-> OrderOf(x, run[x].at)]}}
    /\ run' = [run EXCEPT ![x].at = @ + 1]
    /\ UNCHANGED <<broker, plan, current, audit, diary, mon, crashes, zombies, readFails, exits>>

(* A timeout after 15 s, the request being handled sooner or later, or an  *)
(* error that leaves nothing.                                              *)
PlaceRaises(x) ==
    /\ Placing(x)
    /\ lost < MaxLost
    /\ lost' = lost + 1
    /\ late' \in {late, late \cup {[key |-> KeyOf(x), order |-> OrderOf(x, run[x].at)]}}
    /\ Note(x, "failed", run[x].at)
    /\ UNCHANGED <<broker, plan, current, audit, diary, mon, crashes, zombies, readFails, exits>>

(***************************************************************************)
(* record_tick.                                                            *)
(***************************************************************************)
RecordCheck(x) ==
    /\ run[x].pc = "place" /\ run[x].at > Len(Actions(x))
    /\ Goto(x, IF audit[x[1]] = None THEN "record" ELSE "list")
    /\ UNCHANGED <<broker, late, plan, current, audit, diary, mon, bounds>>

RecordWrite(x) ==
    /\ run[x].pc = "record"
    /\ audit[x[1]] = None
    /\ audit' = [audit EXCEPT ![x[1]] = [placed |-> run[x].placed, failed |-> run[x].failed]]
    /\ Goto(x, "list")
    /\ UNCHANGED <<broker, late, plan, current, diary, mon, bounds>>

(* unique(agent_id, tick_id): the attempt raises.                          *)
RecordRefused(x) ==
    /\ run[x].pc = "record"
    /\ audit[x[1]] # None
    /\ Become(x, "dead")
    /\ UNCHANGED <<broker, late, plan, current, audit, diary, mon, bounds>>

(***************************************************************************)
(* _diary_reconcile.                                                       *)
(***************************************************************************)
(* An exception of list_positions leaves the list empty.                   *)
Listed == [s \in Symbols |-> [qty |-> pos[s], life |-> life[s]]]
Empty  == [s \in Symbols |-> [qty |-> 0, life |-> life[s]]]

ReconcileNothing(x) ==
    /\ run[x].pc = "list" /\ run[x].placed = {}
    /\ End(x)
    /\ UNCHANGED <<broker, late, plan, audit, diary, mon, bounds>>

ListPositions(x) ==
    /\ run[x].pc = "list" /\ run[x].placed # {}
    /\ \/ /\ run' = [run EXCEPT ![x].view = Listed, ![x].pc = "find"]
          /\ UNCHANGED readFails
       \/ /\ readFails < MaxReadFails
          /\ readFails' = readFails + 1
          /\ run' = [run EXCEPT ![x].view = Empty, ![x].pc = "find"]
    /\ UNCHANGED <<broker, late, plan, current, audit, diary, mon, lost, crashes, zombies, exits>>

PlacedSymbols(x, kinds) ==
    {Actions(x)[p.act].symbol : p \in {q \in run[x].placed : Actions(x)[q.act].kind \in kinds}}

HeldAfter(x, s) == run[x].view[s].qty # 0

(* Mutant: a close counts as executed.                                     *)
ClosesAll(x) == PlacedSymbols(x, {"close"})

Opens(x)  == {s \in PlacedSymbols(x, {"buy", "short"}) : HeldAfter(x, s)}
Closes(x) == {s \in PlacedSymbols(x, {"close"}) : ~HeldAfter(x, s)}

FindRows(x) ==
    /\ run[x].pc = "find"
    /\ run' = [run EXCEPT ![x].row = [s \in Symbols |-> OpenRow(diary[s])], ![x].pc = "write"]
    /\ UNCHANGED <<broker, late, plan, current, audit, diary, mon, bounds>>

(* A transaction that the unique index refuses is only logged.             *)
WriteDiary(x) ==
    /\ run[x].pc = "write"
    /\ IF \E s \in Opens(x) : Refused(diary[s], run[x].row[s])
       THEN UNCHANGED diary
       ELSE diary' = [s \in Symbols |->
                CASE s \in Opens(x)  -> OpenOrUpdate(diary[s], run[x].row[s], run[x].view[s].life)
                  [] s \in Closes(x) -> CloseOpen(diary[s], run[x].row[s], run[x].view[s].life)
                  [] OTHER -> diary[s]]
    /\ End(x)
    /\ UNCHANGED <<broker, late, plan, audit, mon, bounds>>

(* So is any other failure of it.                                          *)
DiaryFails(x) ==
    /\ run[x].pc \in {"find", "write"}
    /\ readFails < MaxReadFails
    /\ readFails' = readFails + 1
    /\ End(x)
    /\ UNCHANGED <<broker, late, plan, audit, diary, mon, lost, crashes, zombies, exits>>

(***************************************************************************)
(* monitor_positions_activity.                                             *)
(***************************************************************************)
Idle == [pc |-> "idle", exits |-> {}, life |-> None, row |-> None]

(* settle_exits: committed in trade-api.                                   *)
MonitorSettles ==
    /\ mon.pc = "idle"
    /\ exits < MaxExits
    /\ \E hit \in SUBSET {s \in Symbols : pos[s] # 0 /\ protected[s]} :
         /\ hit # {}
         /\ pos' = [s \in Symbols |-> IF s \in hit THEN 0 ELSE pos[s]]
         /\ mon' = [pc |-> "settled", exits |-> hit, life |-> life, row |-> None]
    /\ exits' = exits + 1
    /\ UNCHANGED <<life, protected, order, late, plan, current, run, audit, diary, lost, crashes, zombies, readFails>>

(* The answer, or the activity, is lost: the next sweep finds nothing.     *)
MonitorLost ==
    /\ mon.pc # "idle"
    /\ crashes < MaxCrashes
    /\ crashes' = crashes + 1
    /\ mon' = Idle
    /\ UNCHANGED <<broker, late, plan, current, run, audit, diary, lost, zombies, readFails, exits>>

MonitorFinds ==
    /\ mon.pc = "settled"
    /\ mon' = [mon EXCEPT !.pc = "write", !.row = [s \in Symbols |-> OpenRow(diary[s])]]
    /\ UNCHANGED <<broker, late, plan, current, run, audit, diary, bounds>>

MonitorWrites ==
    /\ mon.pc = "write"
    /\ diary' = [s \in Symbols |->
         IF s \in mon.exits THEN CloseOpen(diary[s], mon.row[s], mon.life[s]) ELSE diary[s]]
    /\ mon' = Idle
    /\ UNCHANGED <<broker, late, plan, current, run, audit, bounds>>

-----------------------------------------------------------------------------
Init ==
    /\ pos = [s \in Symbols |-> 0] /\ life = [s \in Symbols |-> 0]
    /\ protected = [s \in Symbols |-> FALSE]
    /\ order = [k \in Keys |-> None] /\ late = {}
    /\ plan = [t \in Ticks |-> None] /\ current = None
    /\ run = [x \in Attempts |-> At("off")]
    /\ audit = [t \in Ticks |-> None]
    /\ diary = [s \in Symbols |-> <<>>]
    /\ mon = Idle
    /\ lost = 0 /\ crashes = 0 /\ zombies = 0 /\ readFails = 0 /\ exits = 0

Apply(x) ==
    \/ PlaceAnswered(x) \/ PlaceRaises(x)
    \/ RecordCheck(x) \/ RecordWrite(x) \/ RecordRefused(x)
    \/ ReconcileNothing(x) \/ ListPositions(x) \/ FindRows(x) \/ WriteDiary(x) \/ DiaryFails(x)

Next ==
    \/ \E t \in Ticks : StartTick(t) \/ (\E n \in 1 .. 2 : Retry(t, n)) \/ FailTick(t)
    \/ \E x \in Attempts : Apply(x) \/ Crash(x)
    \/ \E r \in late : HandleLate(r)
    \/ MonitorSettles \/ MonitorLost \/ MonitorFinds \/ MonitorWrites

Spec == Init /\ [][Next]_vars

-----------------------------------------------------------------------------
Views == [Symbols -> [qty : Int, life : Nat]]
Found == [Symbols -> Nat \cup {None}]
Locals == [pc : {"off", "place", "record", "list", "find", "write", "done", "dead"},
           at : 1 .. MaxActions + 1, placed : SUBSET Entries, failed : SUBSET Indices,
           view : Views \cup {None}, row : Found \cup {None}]
Sweeps == [pc : {"idle", "settled", "write"}, exits : SUBSET Symbols,
           life : [Symbols -> Nat] \cup {None}, row : Found \cup {None}]

(* Every variable has its type.                                            *)
TypeOK ==
    /\ pos \in [Symbols -> -MaxQty .. MaxQty]
    /\ life \in [Symbols -> Nat]
    /\ protected \in [Symbols -> BOOLEAN]
    /\ order \in [Keys -> OrderRows \cup {None}]
    /\ \A r \in late : r.key \in Keys
    /\ plan \in [Ticks -> PlanRows \cup {None}]
    /\ current \in Attempts \cup {None}
    /\ run \in [Attempts -> Locals]
    /\ audit \in [Ticks -> AuditRows \cup {None}]
    /\ diary \in [Symbols -> Seq(Rows)]
    /\ mon \in Sweeps
    /\ lost \in 0 .. MaxLost /\ crashes \in 0 .. MaxCrashes /\ zombies \in 0 .. MaxZombies
    /\ readFails \in 0 .. MaxReadFails /\ exits \in 0 .. MaxExits

(* decision.py: "apply is idempotent (deterministic client_order_id) so    *)
(* retrying is safe": through lost answers, late requests, retries and     *)
(* attempts that run in parallel, no action of a tick is ordered twice and *)
(* no key stands for two actions.                                          *)
OrderedOnce ==
    \A t \in Ticks : \A j, k \in Indices :
        order[<<t, j>>] # None /\ order[<<t, k>>] # None /\ order[<<t, j>>].act = order[<<t, k>>].act => j = k

(* The audit accounts for every action of the decision, and what it says   *)
(* was placed is in the ledger with the status it says.                    *)
AuditAccounts ==
    \A t \in Ticks : audit[t] # None =>
        /\ {p.act : p \in audit[t].placed} \cup audit[t].failed = DOMAIN plan[t].actions
        /\ \A p \in audit[t].placed : order[p.key] = [act |-> p.act, status |-> p.status]

(* decision.py: "Mandatory stop FLOOR on every open (long AND short) so    *)
(* nothing is ever left unprotected".                                      *)
AlwaysProtected == \A s \in Symbols : pos[s] # 0 => protected[s]

Quiet == current = None /\ late = {} /\ mon.pc = "idle" /\ \A x \in Attempts : ~Live(x)

(* Between ticks the diary shows an open episode exactly for what is held, *)
(* as long as the ticks alone traded and nothing failed.                   *)
DiaryFollows ==
    Quiet /\ lost + crashes + zombies + readFails + exits = 0 =>
        \A s \in Symbols : (pos[s] # 0) <=> (OpenRows(diary[s]) # {})

(* No episode is closed while the life of the position it describes goes   *)
(* on, through retries, lost answers and late requests.  (A failed list of *)
(* positions, an attempt that outlives its timeout and an exit racing a    *)
(* tick do that.)                                                          *)
ClosedAtFlat ==
    readFails + zombies + exits = 0 =>
        \A s \in Symbols : \A i \in DOMAIN diary[s] :
            diary[s][i].status = "closed" => diary[s][i].last < life[s] \/ pos[s] = 0

WholeLife(e) == e.life = e.last /\ (e.status = "closed" => e.by = e.life)

(* docs/14: "one row per open-from-flat -> close-to-flat round trip of a   *)
(* symbol".                                                                *)
EpisodeIsOneLife == \A s \in Symbols : \A i \in DOMAIN diary[s] : WholeLife(diary[s][i])

(* Whatever is retried or answered late: a tick acts once on each of its   *)
(* actions, and nothing it opens is left without a stop.                   *)
TickInv == TypeOK /\ OrderedOnce /\ AlwaysProtected

(* An open episode is of what is held, a closed one of a life that ended.  *)
DiaryFollowsPositions == DiaryFollows /\ ClosedAtFlat
=============================================================================
