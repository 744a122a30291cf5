---------------------------- MODULE PriceStore -----------------------------
(***************************************************************************)
(* The bars of one symbol and timeframe in the two tiers of                *)
(* shared/neuromancing_shared/price_store.py: the Redis hot cache, trimmed *)
(* to its newest bars, and the Parquet archive, one file per day.          *)
(*                                                                         *)
(* market-ingest is one process of asyncio tasks.  Each works on through   *)
(* plain code and lets the others in where it awaits REST or Redis:        *)
(* between a request and its answer the market and the other tasks go on.  *)
(* write_parquet does not await.  Readers are other processes.             *)
(*                                                                         *)
(* Time counts bars.  A bar is told apart by how complete it was when it   *)
(* was fetched.  The quote a writer stores after its bars is another key;  *)
(* IngestSupervisor is about its age.                                      *)
(***************************************************************************)
EXTENDS Integers, FiniteSets

CONSTANTS HotLen,      \* PRICE_HOT_LEN
          DayLen,      \* bars of one Parquet file
          PollWidth,   \* bars one poll asks for
          FillWidth,   \* bars a backfill or gap fill asks for
          Fillers,     \* the tasks that run backfill.run
          Limits,      \* what readers ask get_bars for
          MaxTime,     \* bound: bars of the market
          MaxFaults,   \* bound: exits of the ingest process and failed flushes
          FlushLag,    \* new bars while no flush succeeds (300 s of 500 bars)
          CallLag      \* new bars while one REST or Redis call is answered

ASSUME StoreAssumption ==
    /\ {HotLen, DayLen, PollWidth, FillWidth} \cup Limits \subseteq Nat \ {0}
    /\ {MaxTime, MaxFaults, FlushLag, CallLag} \subseteq Nat
    /\ {"poll", "flush"} \cap Fillers = {}
    \* A poll asks for the bar that has just closed, too.
    /\ PollWidth >= 2
    \* The cache is deeper than what one flush period and the calls in flight take.
    /\ HotLen >= PollWidth + FlushLag + CallLag

Tasks   == {"poll", "flush"} \cup Fillers
Times   == 1 .. MaxTime
Forming == 1
Final   == 2

VARIABLES
    live,     \* what feeds the series: "poll" or "stream"
    now,      \* the newest bar of the market, still forming
    hot,      \* bars:{tf}:{sym}: time -> version
    archive,  \* the Parquet files: time -> version
    streamed, \* bars up to this one do not come by the stream any more
    task,     \* locals of each ingest task: [pc, bars, since]
    kept,     \* history: the bars the store has taken over
    flushed,  \* history: when the last flush that succeeded read the cache
    dirty,    \* history: no flush has read the cache since it was written, or that one failed
    faults    \* exits and failed flushes so far

storeVars == <<live, now, streamed, hot, archive, task, kept, flushed, dirty, faults>>

Only(bars, S)   == [t \in DOMAIN bars \cap S |-> bars[t]]
NewestOf(S, n)  == {t \in S : Cardinality({u \in S : u > t}) < n}
Newest(bars, n) == Only(bars, NewestOf(DOMAIN bars, n))
NoBars          == [t \in {} |-> Final]
Day(t)          == t \div DayLen

(* Mutant: the bar that was there first wins.                              *)
dedup_first(existing, bars) ==
    [t \in DOMAIN existing \cup DOMAIN bars |-> IF t \in DOMAIN existing THEN existing[t] ELSE bars[t]]

(* _dedup_sort: of two bars of one time the later one of the list wins.    *)
dedup_sort(existing, bars) ==
    [t \in DOMAIN existing \cup DOMAIN bars |-> IF t \in DOMAIN bars THEN bars[t] ELSE existing[t]]

(* What the exchange answers to "start = now - width".                     *)
Reply(width) ==
    [t \in {u \in Times : now - width < u /\ u <= now} |-> IF t = now THEN Forming ELSE Final]

append_hot(bars) ==
    /\ hot' = Newest(dedup_sort(hot, bars), HotLen)
    /\ dirty' = TRUE

Idle         == [pc |-> "idle", bars |-> NoBars, since |-> 0]
Goes(x, w, b) == task' = [task EXCEPT ![x] = [pc |-> w, bars |-> b, since |-> now]]
Stops(x)     == task' = [task EXCEPT ![x] = Idle]

StoreInit ==
    /\ live \in {"poll", "stream"}
    /\ now = 0 /\ streamed = 0
    /\ hot = NoBars /\ archive = NoBars
    /\ task = [x \in Tasks |-> Idle]
    /\ kept = {} /\ flushed = 0 /\ dirty = FALSE
    /\ faults = 0

Waiting(x) == task[x].pc # "idle"

(* The market: bar now+1 begins, bar now is final.  Calls and flushes are  *)
(* quick compared with how many bars the cache holds.                      *)
BarAppears ==
    /\ now < MaxTime
    /\ now - flushed < FlushLag
    /\ \A x \in Tasks : Waiting(x) => now - task[x].since < CallLag
    /\ now' = now + 1
    /\ UNCHANGED <<live, streamed, hot, archive, task, kept, flushed, dirty, faults>>

(* _poll_once and refresh_crypto_higher_tf: ask for the last few bars and  *)
(* write them to the cache, archive=False.                                 *)
PollFetch ==
    /\ live = "poll" /\ task["poll"].pc = "idle" /\ now > 0
    /\ Goes("poll", "append", Reply(PollWidth))
    /\ UNCHANGED <<live, now, streamed, hot, archive, kept, flushed, dirty, faults>>

PollAppend ==
    /\ task["poll"].pc = "append"
    /\ append_hot(task["poll"].bars)
    /\ kept' = kept \cup (DOMAIN task["poll"].bars \cap DOMAIN hot')
    /\ Stops("poll")
    /\ UNCHANGED <<live, now, streamed, archive, flushed, faults>>

(* on_bar of the crypto stream: the bar that has just closed; one that is  *)
(* missed does not come again.                                             *)
StreamBar ==
    /\ live = "stream" /\ streamed < now - 1
    /\ streamed' = now - 1
    /\ append_hot([t \in {now - 1} |-> Final])
    /\ kept' = kept \cup ({now - 1} \cap DOMAIN hot')
    /\ UNCHANGED <<live, now, archive, task, flushed, faults>>

(* backfill.run and run_recent: fetch, append_hot, and when that is        *)
(* answered write_parquet (ingest_bars with archive=True).                 *)
FillFetch(x) ==
    /\ task[x].pc = "idle" /\ now > 0
    /\ Goes(x, "append", Reply(FillWidth))
    /\ UNCHANGED <<live, now, streamed, hot, archive, kept, flushed, dirty, faults>>

(* Mutant: a fill that archives passes the cache by.                       *)
FillPastCache(x) ==
    /\ task[x].pc = "append"
    /\ Goes(x, "archive", task[x].bars)
    /\ UNCHANGED <<live, now, streamed, hot, archive, kept, flushed, dirty, faults>>

FillAppend(x) ==
    /\ task[x].pc = "append"
    /\ append_hot(task[x].bars)
    /\ Goes(x, "archive", task[x].bars)
    /\ UNCHANGED <<live, now, streamed, archive, kept, flushed, faults>>

(* Mutant: the files of the days written are replaced, not merged.         *)
write_replacing(bars) ==
    archive' = dedup_sort(Only(archive, {t \in Times : \A u \in DOMAIN bars : Day(u) # Day(t)}), bars)

write_parquet(bars) == archive' = dedup_sort(archive, bars)

FillArchive(x) ==
    /\ task[x].pc = "archive"
    /\ write_parquet(task[x].bars)
    /\ kept' = kept \cup DOMAIN task[x].bars
    /\ Stops(x)
    /\ UNCHANGED <<live, now, streamed, hot, flushed, dirty, faults>>

(* flush_to_parquet: the cache is read, and the bars of that answer are    *)
(* archived.  flush_all gives up every later series when one raises.       *)
FlushRead ==
    /\ task["flush"].pc = "idle"
    /\ Goes("flush", "archive", hot)
    /\ dirty' = FALSE
    /\ UNCHANGED <<live, now, streamed, hot, archive, kept, flushed, faults>>

FlushWrite ==
    /\ task["flush"].pc = "archive"
    /\ write_parquet(task["flush"].bars)
    /\ flushed' = task["flush"].since
    /\ Stops("flush")
    /\ UNCHANGED <<live, now, streamed, hot, kept, dirty, faults>>

FlushFails ==
    /\ task["flush"].pc = "archive"
    /\ faults < MaxFaults
    /\ faults' = faults + 1
    /\ dirty' = TRUE
    /\ Stops("flush")
    /\ UNCHANGED <<live, now, streamed, hot, archive, kept, flushed>>

(* The process dies.  write_parquet replaces one file per day, in the      *)
(* order of the bars: it may have got only to day d.                       *)
StoreCrash ==
    /\ faults < MaxFaults
    /\ faults' = faults + 1
    /\ \/ UNCHANGED archive
       \/ \E x \in Tasks, d \in {Day(t) : t \in Times} :
            /\ task[x].pc = "archive"
            /\ archive' = dedup_sort(archive, Only(task[x].bars, {t \in Times : Day(t) <= d}))
    /\ task' = [x \in Tasks |-> Idle]
    /\ dirty' = (dirty \/ task["flush"].pc # "idle")
    /\ UNCHANGED <<live, now, streamed, hot, kept, flushed>>

(* The key expires three days after the last write: no call is in flight   *)
(* any more and a flush has come by.                                       *)
Expire ==
    /\ ~dirty /\ hot # NoBars
    /\ \A x \in Tasks : ~Waiting(x)
    /\ hot' = NoBars
    /\ streamed' = IF live = "stream" THEN now ELSE 0
    /\ UNCHANGED <<live, now, archive, task, kept, flushed, dirty, faults>>

Fill(x) == FillFetch(x) \/ FillAppend(x) \/ FillArchive(x)

StoreNext ==
    \/ BarAppears
    \/ PollFetch \/ PollAppend \/ StreamBar
    \/ \E x \in Fillers : Fill(x)
    \/ FlushRead \/ FlushWrite \/ FlushFails
    \/ StoreCrash \/ Expire

StoreSpec == StoreInit /\ [][StoreNext]_storeVars

(* The fillers' loops and the flush go on; the market, the poller and the  *)
(* stream need not.                                                        *)
StoreFairSpec ==
    /\ StoreSpec
    /\ \A x \in Fillers : WF_storeVars(Fill(x))
    /\ WF_storeVars(FlushRead \/ FlushWrite)

StoreTypeOK ==
    /\ now \in 0 .. MaxTime /\ streamed \in 0 .. now
    /\ \A bars \in {hot, archive} \cup {task[x].bars : x \in Tasks} :
         DOMAIN bars \subseteq Times /\ \A t \in DOMAIN bars : bars[t] \in {Forming, Final}
    /\ Cardinality(DOMAIN hot) <= HotLen
    /\ \A x \in Tasks : task[x].pc \in {"idle", "append", "archive"} /\ task[x].since \in 0 .. now
    /\ kept \subseteq Times
    /\ flushed \in 0 .. now
    /\ dirty \in BOOLEAN
    /\ faults \in 0 .. MaxFaults

(* No bar that the live path has put into the cache, or a fill has         *)
(* completed, is lost when the cache is trimmed or expires, whatever       *)
(* fetches overlap and wherever the process dies.                          *)
NothingLost == kept \subseteq DOMAIN hot \cup DOMAIN archive

(* get_bars(limit): the newest of the cache and, if they are too few,      *)
(* archived bars older than the oldest of them (limit - len(hot) + 50).    *)
get_bars(cache, files, limit) ==
    LET got   == Newest(cache, limit)
        older == Only(files, {t \in Times : \A u \in DOMAIN got : t < u})
        short == limit - Cardinality(DOMAIN got)
    IN  IF short <= 0 THEN got ELSE Newest(dedup_sort(Newest(older, short + 50), got), limit)

(* docs/08-market-data.md: get_bars returns "the newest limit bars", "hot  *)
(* wins on overlap".  It asks the archive only for what is older than the  *)
(* cache, after the cache and perhaps after another step: so the cache     *)
(* must have every later bar the archive has.                              *)
ReadsNewest ==
    [][\A limit \in Limits :
         get_bars(hot, archive', limit) = Newest(dedup_sort(archive', hot), limit)]_storeVars

(* docs/08-market-data.md: "overlapping re-fetches and the periodic        *)
(* gap-fill are safe": when the market pauses, both tiers end up with the  *)
(* final bars of the window the gap fill asks for, whatever stale answers  *)
(* were written before.                                                    *)
StoreConverges ==
    <>[](\A t \in Times : now - FillWidth < t /\ t < now =>
            /\ t \in DOMAIN archive /\ archive[t] = Final
            /\ t \in DOMAIN hot => hot[t] = Final)

(* Both tiers are what their writers may leave: the cache within its       *)
(* length, and no bar lost between them.                                   *)
StoreInv == StoreTypeOK /\ NothingLost
=============================================================================
