---------------------------- MODULE MarketHours -----------------------------
(***************************************************************************)
(* agents/market_hours.py: the sessions of the exchange, fetched from its  *)
(* calendar, cached for half an hour and refreshed by whoever asks first,  *)
(* under a lock.  Agents ask whether to be awake (equity_active, which     *)
(* fails open), the evolution whether today's session is over              *)
(* (session_closed_today, which fails closed).                             *)
(***************************************************************************)
EXTENDS Integers

CONSTANTS Askers,        \* coroutines that may ask at once
          TradingDays,   \* days with a session
          DayLen,        \* time units of a day
          OpenAt, CloseAt,   \* of a session, after midnight UTC
          EtLag,         \* the exchange's midnight, after UTC's
          Buffer,        \* _BUFFER_MIN
          Ttl,           \* _CACHE_TTL_S
          NoTime,        \* not fetched, not asked
          LastMoment,    \* bound: time units
          MaxWait,       \* bound: how long a coroutine waits
          MaxOutages     \* bound: fetches that fail

ASSUME HoursAssumption ==
    /\ {DayLen, OpenAt, CloseAt, EtLag, Buffer, Ttl, LastMoment, MaxWait, MaxOutages} \subseteq Nat
    /\ OpenAt < CloseAt /\ CloseAt < DayLen /\ EtLag < OpenAt
    /\ TradingDays \subseteq Int /\ NoTime \notin Int
    /\ Buffer + Ttl + MaxWait <= DayLen      \* half an hour, half an hour, a request

VARIABLES utc,           \* the clock
          sessions,      \* _sessions: their days
          fetched_at,    \* _fetched_at
          fetch_from,    \* the time the request under way was made for
          asker,         \* [at, kind, when]: where each coroutine is
          said,          \* history: the last answer of this moment
          outages
hoursVars == <<utc, sessions, fetched_at, fetch_from, asker, said, outages>>

Quiet == [at |-> "idle", kind |-> "active", when |-> NoTime]
Unasked == [kind |-> "none", value |-> TRUE, when |-> NoTime, failed |-> FALSE]
HoursInit == /\ utc = 0 /\ sessions = {} /\ fetched_at = NoTime /\ fetch_from = NoTime
             /\ asker = [c \in Askers |-> Quiet] /\ outages = 0
             /\ said = Unasked

Opening(d) == d * DayLen + OpenAt
Closing(d) == d * DayLen + CloseAt
Date(t)    == t \div DayLen

Passes == /\ utc < LastMoment /\ utc' = utc + 1
          /\ \A c \in Askers : asker[c].at # "idle" => utc < asker[c].when + MaxWait
          /\ said' = Unasked
          /\ UNCHANGED <<sessions, fetched_at, fetch_from, asker, outages>>

(* Mutant: what was fetched once is kept.                                  *)
KeptForever == fetched_at # NoTime

CacheFresh == fetched_at # NoTime /\ utc - fetched_at < Ttl

(* _fetch_sessions: two days around the exchange's date.                   *)
Calendar(t) == LET today == (t - EtLag) \div DayLen IN TradingDays \cap (today - 2 .. today + 2)

closed_today(S, t) == \E d \in S : Date(Closing(d)) = Date(t) /\ Closing(d) <= t
within(S, t) == \E d \in S : Opening(d) - Buffer <= t /\ t <= Closing(d) + Buffer

(* equity_active looks at the clock again; session_closed_today is told    *)
(* the time its caller began at.                                           *)
Says(kind, S, when, failed) ==
    IF kind = "active" THEN [kind |-> kind, value |-> failed \/ within(S, utc), when |-> utc, failed |-> failed]
    ELSE [kind |-> kind, value |-> ~failed /\ closed_today(S, when), when |-> when, failed |-> failed]

Ask(c) ==
    /\ asker[c].at = "idle"
    /\ \E kind \in {"active", "closed"} :
         IF CacheFresh THEN said' = Says(kind, sessions, utc, FALSE) /\ UNCHANGED asker
         ELSE /\ asker' = [asker EXCEPT ![c] = [at |-> "wait", kind |-> kind, when |-> utc]]
              /\ UNCHANGED said
    /\ UNCHANGED <<utc, sessions, fetched_at, fetch_from, outages>>

Done(c, S, failed) ==
    /\ said' = Says(asker[c].kind, S, asker[c].when, failed)
    /\ asker' = [asker EXCEPT ![c] = Quiet]

(* The lock; the cache may have been filled meanwhile.                     *)
Enter(c) ==
    /\ asker[c].at = "wait" /\ \A d \in Askers : asker[d].at # "fetch"
    /\ IF CacheFresh THEN Done(c, sessions, FALSE) /\ UNCHANGED fetch_from
       ELSE /\ asker' = [asker EXCEPT ![c].at = "fetch"] /\ fetch_from' = utc
            /\ UNCHANGED said
    /\ UNCHANGED <<utc, sessions, fetched_at, outages>>

(* The request runs in a thread.                                           *)
Fetched(c) ==
    /\ asker[c].at = "fetch"
    /\ sessions' = Calendar(fetch_from) /\ fetched_at' = fetch_from /\ fetch_from' = NoTime
    /\ Done(c, sessions', FALSE)
    /\ UNCHANGED <<utc, outages>>

FetchFails(c) ==
    /\ asker[c].at = "fetch" /\ outages < MaxOutages
    /\ outages' = outages + 1 /\ fetch_from' = NoTime
    /\ Done(c, sessions, TRUE)
    /\ UNCHANGED <<utc, sessions, fetched_at>>

Asking(c) == Ask(c) \/ Enter(c) \/ Fetched(c) \/ FetchFails(c)
HoursNext == Passes \/ \E c \in Askers : Asking(c)
HoursSpec == HoursInit /\ [][HoursNext]_hoursVars

-----------------------------------------------------------------------------
(* market_hours.py: agents "stay active rather than silently sleeping      *)
(* forever": however old the cache and whatever the calendar does, who is  *)
(* told to sleep is outside every session and its buffer.                  *)
SleepsOnlyOutside ==
    said.kind = "active" /\ ~said.value => ~within(TradingDays, said.when)

(* "Today's session has closed" is said only after it has, and, unless the *)
(* calendar fails, whenever it has.                                        *)
ClosedIsClosed ==
    said.kind = "closed" =>
        (said.value <=> /\ ~said.failed
                        /\ Date(said.when) \in TradingDays
                        /\ Closing(Date(said.when)) <= said.when)

(* Both answers are true of the exchange's calendar, however old the cache.*)
AnswersAreTrue == SleepsOnlyOutside /\ ClosedIsClosed
=============================================================================
