-------------------------- MODULE EvolutionTrigger --------------------------
(***************************************************************************)
(* When one agent evolves: the schedule starts a cycle every hour, on the  *)
(* hour; should_evolve_now (evolve/trigger.py) decides from the clock, the *)
(* time of the agent's last experiment, its closed episodes and the hours  *)
(* of the exchange.  Time is counted in half hours.                        *)
(***************************************************************************)
EXTENDS Integers, FiniteSets

CONSTANTS Never,         \* no experiment yet
          MinHours,      \* evolution_min_hours_between
          MinEpisodes,   \* evolution_min_diary_episodes
          CryptoHour,    \* evolution_crypto_utc_hour
          Closes,        \* the days with a session, each with the UTC hour of its close
          MaxTriggerDays,       \* bound: days
          MaxSpoiled     \* bound: days on which a due cycle records nothing

ASSUME TriggerAssumption ==
    /\ MinHours \in Nat /\ MinEpisodes \in Nat /\ MaxTriggerDays \in Nat /\ MaxSpoiled \in Nat
    /\ CryptoHour \in 0 .. 23 /\ Closes \in [DOMAIN Closes -> 0 .. 23]
    /\ Never \notin Int

VARIABLES time, last, episodes, cryptoOnly,
          spoiled,       \* history: days on which a due cycle recorded nothing
          evolvedOn      \* history: days of an experiment
clockVars == <<time, last, episodes, cryptoOnly, spoiled, evolvedOn>>

TriggerInit == /\ time = 0 /\ last = Never /\ episodes \in {0, MinEpisodes}
               /\ cryptoOnly \in BOOLEAN /\ spoiled = {} /\ evolvedOn = {}

Hour(t) == (t % 48) \div 2
DayOf(t)  == t \div 48

(* A close of this UTC date that is past; none on weekends and holidays.   *)
session_closed_today(t) == DayOf(t) \in DOMAIN Closes /\ Hour(t) >= Closes[DayOf(t)]

should_evolve_now(t) ==
    /\ last # Never => t - last >= 2 * MinHours
    /\ episodes >= MinEpisodes
    /\ IF cryptoOnly THEN Hour(t) = CryptoHour ELSE session_closed_today(t)

(* Mutant: an agent that is skipped is recorded too.                       *)
CycleRecordsAll ==
    /\ DayOf(time) < MaxTriggerDays
    /\ last' = time + 1
    /\ evolvedOn' = IF should_evolve_now(time) THEN evolvedOn \cup {DayOf(time)} ELSE evolvedOn
    /\ time' = time + 2
    /\ UNCHANGED <<episodes, cryptoOnly, spoiled>>

(* run_evolution_cycle looks at the clock when it starts; the experiment   *)
(* carries the time of its insertion, some minutes later.                  *)
Cycle ==
    /\ DayOf(time) < MaxTriggerDays
    /\ IF should_evolve_now(time)
       THEN last' = time + 1 /\ evolvedOn' = evolvedOn \cup {DayOf(time)}
       ELSE UNCHANGED <<last, evolvedOn>>
    /\ time' = time + 2
    /\ UNCHANGED <<episodes, cryptoOnly, spoiled>>

(* A cycle that was due leaves no experiment: there is no worker, the one  *)
(* before still runs (overlap SKIP), the calendar cannot be read, the agent*)
(* has no single indicator_dsl slot, or something raises before the        *)
(* experiment is recorded, and the cycle goes on without this agent.       *)
LostCycle ==
    /\ DayOf(time) < MaxTriggerDays
    /\ should_evolve_now(time)
    /\ spoiled' = spoiled \cup {DayOf(time)} /\ Cardinality(spoiled') <= MaxSpoiled
    /\ time' = time + 2
    /\ UNCHANGED <<last, episodes, cryptoOnly, evolvedOn>>

(* The tenth episode closes.                                               *)
EpisodeCloses ==
    /\ episodes < MinEpisodes
    /\ episodes' = MinEpisodes
    /\ UNCHANGED <<time, last, cryptoOnly, spoiled, evolvedOn>>

TriggerNext == Cycle \/ LostCycle \/ EpisodeCloses
TriggerSpec == TriggerInit /\ [][TriggerNext]_clockVars

-----------------------------------------------------------------------------
(* trigger.py: "crypto-only agents fire once/day at a configured UTC       *)
(* boundary".  With every cycle held, each day that is over has its        *)
(* experiment from the first one on.                                       *)
FiresDaily ==
    spoiled = {} /\ cryptoOnly => \A d \in evolvedOn : d + 1 < DayOf(time) => d + 1 \in evolvedOn

(* A day that calls for an experiment and is over with time's last step:   *)
(* any day for a crypto-only agent, one with a session for the others,     *)
(* unless a cycle that was due left none.                                  *)
DueDayEnds ==
    /\ DayOf(time') > DayOf(time) /\ last # Never
    /\ cryptoOnly \/ DayOf(time) \in DOMAIN Closes
    /\ DayOf(time) \notin spoiled'

(* docs/14: the agent evolves after its session, at most once per 24 h.    *)
(* Whatever the cooldown, the drift of the cycles, early closes and        *)
(* earlier failures do, an agent that has evolved before lets a day that   *)
(* calls for an experiment go by only right after a day that had one.      *)
IdleOnlyAfterExperiment ==
    [][DueDayEnds => {DayOf(time), DayOf(time) - 1} \cap evolvedOn' # {}]_clockVars
=============================================================================
