-------------------------- MODULE IngestSupervisor --------------------------
(***************************************************************************)
(* game-api/app/ingest/main.py: the crypto stream under _supervise with    *)
(* its freshness watchdog, and the dead-man job that exits the process so  *)
(* that the container restarts.  Both judge the age of the freshest        *)
(* quote:{symbol} in Redis (health.py), which backfill writes as well.     *)
(*                                                                         *)
(* One tick is longer than every timer of the loop (watch interval 15 s,   *)
(* dead-man 30 s, backoff at most 60 s, closing a socket 10 s), so in each *)
(* tick the supervisor and the dead-man job have had their turn.           *)
(***************************************************************************)
EXTENDS Integers, FiniteSets, FiniteSetsExt

CONSTANTS Crypto,            \* DEFAULT_CRYPTO
          None,              \* no quote
          MaxSilence,        \* ingest_crypto_max_silence_s, in ticks
          HealthStale,       \* ingest_health_stale_s
          DeadmanStale,      \* ingest_deadman_stale_s
          MaxProbeFailures,  \* bound: reads of Redis that raise
          MaxBackfills       \* bound: quotes written by backfill

ASSUME IngestAssumption ==
    /\ MaxSilence \in Nat /\ HealthStale \in Nat /\ DeadmanStale \in Nat
    /\ MaxSilence < DeadmanStale
    /\ MaxProbeFailures \in Nat /\ MaxBackfills \in Nat
    /\ None \notin Int

\* Ages saturate here: older than every threshold.
Old == Max({HealthStale, DeadmanStale}) + 1
Ages == 0 .. Old
\* Task objects; an id is used again once its task has ended.
Feeds == 1 .. MaxProbeFailures + 1

VARIABLES
    proc,        \* the ingest process
    feed,        \* run_crypto_stream tasks
    sup,         \* where _supervise("crypto-stream") is
    run,         \* the task it supervises
    up,          \* ticks since that task was created, up to the grace period
    quoteAge,    \* Redis: age of each symbol's quote
    seen_fresh,  \* the dead-man's latch
    turn,        \* whose timer has fired in this tick
    lastQuote,   \* history: ticks since this process' stream wrote a quote
    probeFails, backfills   \* bounded inputs used up

supVars == <<feed, sup, run, up>>
vars == <<proc, supVars, quoteAge, seen_fresh, turn, lastQuote, probeFails, backfills>>

Later(age) == IF age = None \/ age = Old THEN age ELSE age + 1

(* crypto_feed_age: the youngest quote, None when there is none.           *)
crypto_feed_age ==
    LET present == {quoteAge[s] : s \in Crypto} \ {None}
    IN  IF present = {} THEN None ELSE Min(present)

is_stale(age, threshold) == IF age = None THEN TRUE ELSE age > threshold
Fresh(age, threshold)    == ~is_stale(age, threshold)

Boot ==
    /\ proc' = "up"
    /\ feed' = [f \in Feeds |-> "none"]
    /\ sup' = "start" /\ run' = 1 /\ up' = 0
    /\ seen_fresh' = FALSE
    /\ turn' = {"watch", "deadman"}
    /\ lastQuote' = None

(***************************************************************************)
(* The stream.                                                             *)
(***************************************************************************)
Stream(f, from, to) ==
    /\ feed[f] \in from
    /\ feed' = [feed EXCEPT ![f] = to]
    /\ UNCHANGED <<proc, sup, run, up, quoteAge, seen_fresh, turn, lastQuote, probeFails, backfills>>

Connect(f) == Stream(f, {"connecting"}, "streaming")

(* A half-open socket: nothing arrives and nothing raises.                 *)
Hang(f) == Stream(f, {"connecting", "streaming"}, "hung")

(* on_quote.                                                               *)
StreamQuote(f, s) ==
    /\ feed[f] = "streaming"
    /\ quoteAge' = [quoteAge EXCEPT ![s] = 0]
    /\ lastQuote' = 0
    /\ UNCHANGED <<proc, supVars, seen_fresh, turn, probeFails, backfills>>

(* run_crypto_stream raises or returns.  A task that is watched makes      *)
(* _watch do the same: a crash is backed off, a return restarted at once.  *)
FeedEnds(f) ==
    /\ feed[f] \in {"connecting", "streaming"}
    /\ feed' = [feed EXCEPT ![f] = "none"]
    /\ IF f = run /\ sup = "watch" THEN sup' \in {"backoff", "start"} ELSE UNCHANGED sup
    /\ UNCHANGED <<proc, run, up, quoteAge, seen_fresh, turn, lastQuote, probeFails, backfills>>

(***************************************************************************)
(* _supervise and _watch.                                                  *)
(***************************************************************************)
CreateTask ==
    /\ sup = "start" /\ proc = "up"
    /\ run' = Min({f \in Feeds : feed[f] = "none"})
    /\ feed' = [feed EXCEPT ![run'] = "connecting"]
    /\ sup' = "watch" /\ up' = 0
    /\ turn' = turn \cup {"watch"}
    /\ UNCHANGED <<proc, quoteAge, seen_fresh, lastQuote, probeFails, backfills>>

(* Mutant: a run is judged from its first poll on.                         *)
NoGrace == FALSE

(* The grace of a new run.                                                 *)
InGrace == up < MaxSilence

Silent == crypto_feed_age # None /\ crypto_feed_age > MaxSilence

Poll == sup = "watch" /\ "watch" \notin turn

(* Mutant: `started` is taken again in every turn of the loop.             *)
GraceRestarts ==
    /\ Poll
    /\ ~InGrace => ~Silent
    /\ up' = 0
    /\ turn' = turn \cup {"watch"}
    /\ UNCHANGED <<proc, feed, sup, run, quoteAge, seen_fresh, lastQuote, probeFails, backfills>>

PollQuiet ==
    /\ Poll
    /\ ~InGrace => ~Silent
    /\ turn' = turn \cup {"watch"}
    /\ UNCHANGED <<proc, supVars, quoteAge, seen_fresh, lastQuote, probeFails, backfills>>

(* Mutant: the stalled task is left alone.                                 *)
LeaveRunning ==
    /\ Poll /\ ~InGrace /\ Silent
    /\ sup' = "backoff"
    /\ UNCHANGED <<proc, feed, run, up, quoteAge, seen_fresh, turn, lastQuote, probeFails, backfills>>

(* _Stalled: the task is cancelled; its finally closes the socket.         *)
PollStalled ==
    /\ Poll /\ ~InGrace /\ Silent
    /\ sup' = "stalled"
    /\ feed' = [feed EXCEPT ![run] = "closing"]
    /\ UNCHANGED <<proc, run, up, quoteAge, seen_fresh, turn, lastQuote, probeFails, backfills>>

(* The probe raises: the generic handler backs off, nobody cancels.        *)
PollFails ==
    /\ Poll /\ ~InGrace
    /\ probeFails < MaxProbeFailures
    /\ probeFails' = probeFails + 1
    /\ sup' = "backoff"
    /\ UNCHANGED <<proc, feed, run, up, quoteAge, seen_fresh, turn, lastQuote, backfills>>

(* `await task` after the cancel.                                          *)
TaskCancelled ==
    /\ sup = "stalled"
    /\ feed' = [feed EXCEPT ![run] = "none"]
    /\ sup' = "backoff"
    /\ UNCHANGED <<proc, run, up, quoteAge, seen_fresh, turn, lastQuote, probeFails, backfills>>

BackedOff ==
    /\ sup = "backoff"
    /\ sup' = "start"
    /\ UNCHANGED <<proc, feed, run, up, quoteAge, seen_fresh, turn, lastQuote, probeFails, backfills>>

(***************************************************************************)
(* _deadman_job, itself supervised without a watchdog.                     *)
(***************************************************************************)
Check == proc = "up" /\ "deadman" \notin turn

DeadmanSees ==
    /\ Check
    /\ Fresh(crypto_feed_age, HealthStale)
    /\ seen_fresh' = TRUE
    /\ turn' = turn \cup {"deadman"}
    /\ UNCHANGED <<proc, supVars, quoteAge, lastQuote, probeFails, backfills>>

(* Mutant: the latch only remembers the last look.                         *)
DeadmanForgets ==
    /\ Check
    /\ is_stale(crypto_feed_age, HealthStale)
    /\ seen_fresh' = FALSE
    /\ turn' = turn \cup {"deadman"}
    /\ UNCHANGED <<proc, supVars, quoteAge, lastQuote, probeFails, backfills>>

DeadmanWaits ==
    /\ Check
    /\ is_stale(crypto_feed_age, HealthStale)
    /\ ~(seen_fresh /\ is_stale(crypto_feed_age, DeadmanStale))
    /\ turn' = turn \cup {"deadman"}
    /\ UNCHANGED <<proc, supVars, quoteAge, seen_fresh, lastQuote, probeFails, backfills>>

(* os._exit(1): every task is gone.                                        *)
DeadmanExits ==
    /\ Check
    /\ is_stale(crypto_feed_age, HealthStale)
    /\ seen_fresh /\ is_stale(crypto_feed_age, DeadmanStale)
    /\ proc' = "exited"
    /\ feed' = [f \in Feeds |-> "none"]
    /\ sup' = "gone"
    /\ UNCHANGED <<run, up, quoteAge, seen_fresh, turn, lastQuote, probeFails, backfills>>

(* The probe raises: the job is restarted with a new latch.                *)
DeadmanFails ==
    /\ Check
    /\ probeFails < MaxProbeFailures
    /\ probeFails' = probeFails + 1
    /\ seen_fresh' = FALSE
    /\ turn' = turn \cup {"deadman"}
    /\ UNCHANGED <<proc, supVars, quoteAge, lastQuote, backfills>>

(* restart: unless-stopped.  Redis keeps its quotes.                       *)
Restart ==
    /\ proc = "exited"
    /\ Boot
    /\ UNCHANGED <<quoteAge, probeFails, backfills>>

(***************************************************************************)
(* The rest of the process.                                                *)
(***************************************************************************)
(* _persist ends with write_quote(ts of the last bar): a minute ago for 1m *)
(* bars, hours for 1d bars, whatever is in the hash.                       *)
BackfillQuote(s) ==
    /\ proc = "up"
    /\ backfills < MaxBackfills
    /\ backfills' = backfills + 1
    /\ \E age \in {1, Old} : quoteAge' = [quoteAge EXCEPT ![s] = age]
    /\ UNCHANGED <<proc, supVars, seen_fresh, turn, lastQuote, probeFails>>

(* quote_ttl_s is far beyond every threshold.                              *)
QuoteExpires(s) ==
    /\ quoteAge[s] = Old
    /\ quoteAge' = [quoteAge EXCEPT ![s] = None]
    /\ UNCHANGED <<proc, supVars, seen_fresh, turn, lastQuote, probeFails, backfills>>

(* Time passes.  Crypto trades 24/7: a stream that works has delivered     *)
(* some quote in every tick.                                               *)
Tick ==
    /\ sup = "watch"
    /\ turn = {"watch", "deadman"}
    /\ (\E f \in Feeds : feed[f] = "streaming") => crypto_feed_age = 0
    /\ turn' = {}
    /\ up' = IF InGrace THEN up + 1 ELSE up
    /\ quoteAge' = [s \in Crypto |-> Later(quoteAge[s])]
    /\ lastQuote' = Later(lastQuote)
    /\ UNCHANGED <<proc, feed, sup, run, seen_fresh, probeFails, backfills>>

-----------------------------------------------------------------------------
Init ==
    /\ proc = "up"
    /\ feed = [f \in Feeds |-> "none"]
    /\ sup = "start" /\ run = 1 /\ up = 0
    /\ quoteAge \in [Crypto -> {None, 1, Old}]    \* what earlier processes left
    /\ seen_fresh = FALSE
    /\ turn = {"watch", "deadman"}
    /\ lastQuote = None
    /\ probeFails = 0 /\ backfills = 0

Supervise == CreateTask \/ PollQuiet \/ PollStalled \/ PollFails \/ TaskCancelled \/ BackedOff
Deadman   == DeadmanSees \/ DeadmanWaits \/ DeadmanExits \/ DeadmanFails
Deliver   == \E f \in Feeds, s \in Crypto : StreamQuote(f, s)

Next ==
    \/ \E f \in Feeds : Connect(f) \/ Hang(f) \/ FeedEnds(f)
    \/ Deliver
    \/ Supervise \/ Deadman \/ Restart \/ Tick
    \/ \E s \in Crypto : BackfillQuote(s) \/ QuoteExpires(s)

Spec == Init /\ [][Next]_vars

(* asyncio runs every task whose timer has fired, an open stream delivers, *)
(* the container runtime restarts, and time passes however often the       *)
(* stream fails in between (strong fairness).  It need never connect.      *)
FairSpec == /\ Spec
            /\ WF_vars(Supervise) /\ WF_vars(Deadman) /\ WF_vars(Restart)
            /\ SF_vars(Tick) /\ WF_vars(Deliver)

-----------------------------------------------------------------------------
(* Every variable has its type.                                            *)
TypeOK ==
    /\ proc \in {"up", "exited"}
    /\ feed \in [Feeds -> {"none", "connecting", "streaming", "hung", "closing"}]
    /\ sup \in {"start", "watch", "stalled", "backoff", "gone"}
    /\ run \in Feeds
    /\ up \in 0 .. MaxSilence
    /\ quoteAge \in [Crypto -> Ages \cup {None}]
    /\ seen_fresh \in BOOLEAN
    /\ turn \subseteq {"watch", "deadman"}
    /\ lastQuote \in Ages \cup {None}
    /\ probeFails \in 0 .. MaxProbeFailures
    /\ backfills \in 0 .. MaxBackfills

Alive == {f \in Feeds : feed[f] # "none"}

(* Through stalls, crashes, restarts and exits the supervisor has created  *)
(* one stream, plus at most one more per failed probe (the only path that  *)
(* abandons a running task).                                               *)
OneFeedPerFailure ==
    /\ Cardinality(Alive) <= 1 + probeFails
    /\ sup \in {"start", "backoff"} => Cardinality(Alive) <= probeFails

(* A run is cancelled as stalled only after its whole grace period, and,   *)
(* unless backfill has overwritten quotes, only when the stream has really *)
(* been silent for longer than max_silence.                                *)
StallsAreGenuine ==
    [][sup = "watch" /\ sup' = "stalled" =>
         /\ up >= MaxSilence
         /\ backfills = 0 => is_stale(lastQuote, MaxSilence)]_vars

(* A silent stream that is supervised is eventually cancelled (or the      *)
(* process exits), as long as Redis still has a crypto quote to judge by   *)
(* and no abandoned task keeps the quotes fresh.                           *)
Hung(f) == proc = "up" /\ run = f /\ feed[f] = "hung"
SilentFeedReplaced ==
    \A f \in Feeds :
        Hung(f) /\ crypto_feed_age # None
            ~> \/ ~Hung(f)
               \/ crypto_feed_age = None
               \/ \E g \in Feeds : feed[g] = "streaming"

(* Once the dead-man job has seen the feed fresh, a feed that stays stale  *)
(* past its threshold ends the process, unless a quote arrives or a probe  *)
(* fails.                                                                  *)
ArmedDeadmanEscalates ==
    seen_fresh /\ is_stale(crypto_feed_age, DeadmanStale)
        ~> proc = "exited" \/ Fresh(crypto_feed_age, DeadmanStale) \/ probeFails > 0

(* The supervisor's state is well formed and its streams are counted.      *)
FeedInv == TypeOK /\ OneFeedPerFailure
=============================================================================
