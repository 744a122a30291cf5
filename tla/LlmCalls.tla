------------------------------ MODULE LlmCalls ------------------------------
(***************************************************************************)
(* The manager's calls: agents/llm.py manage, agents/budget.py and         *)
(* llm/provider.py in one worker.  Every agent has one attempt of its      *)
(* decide_activity at a time, plus those that Temporal has given up after  *)
(* 75 s and that run on.  A budget is looked up in Redis before a call     *)
(* waits for the semaphore and is charged after the call was answered.     *)
(***************************************************************************)
EXTENDS Integers, Sequences, FiniteSets

CONSTANTS Handles,       \* agents
          Settings,      \* configurations, as provider.py reads them
          Unset,         \* no configuration read yet, no attempt
          Costs,         \* tokens of an answered call
          AgentBudget, GlobalBudget,   \* llm_daily_token_budget_*
          Concurrency,   \* ollama_max_concurrency
          MaxCalls,      \* bound: attempts of each agent
          MaxUpsets      \* bound: attempts that outlive their timeout, Redis
                         \* commands that fail, answers that cannot be
                         \* parsed and midnights, together

Calls == Handles \X (1 .. MaxCalls)

ASSUME LlmAssumption ==
    /\ Costs \subseteq Nat /\ AgentBudget \in Nat \ {0} /\ GlobalBudget \in Nat \ {0}
    /\ {Concurrency, MaxCalls, MaxUpsets} \subseteq Nat
    /\ \E c \in Costs : \A d \in Costs : d <= c      \* max_tokens
    /\ IsFiniteSet(Handles) /\ "global" \notin Handles  \* another key
    /\ Unset \notin Settings \cup Calls

VARIABLES cfg,           \* get_settings(), cached
          at,            \* where each attempt is
          attempt,       \* the attempt Temporal waits for
          waiting,       \* attempts queued at the semaphore, in order
          cost,          \* usage of the answer an attempt holds
          used,          \* Redis: today's counters, one per agent and "global"
          before,        \* Redis: the counters of the day before
          overnight,     \* attempts that have taken the date of the day before
          spent,         \* history: tokens answered today, likewise
          midnights, llmZombies,              \* bounded inputs used up
          callFaults     \* failed commands and answers not parsed, likewise
llmVars == <<cfg, at, attempt, waiting, cost, used, before, overnight, spent, midnights, llmZombies, callFaults>>

dates == <<before, overnight>>
Upsets == midnights + llmZombies + callFaults

Counters == Handles \cup {"global"}
Zero == [k \in Counters |-> 0]

(* incrby on both keys.                                                    *)
Add(counters, x, n) == [k \in Counters |-> IF k \in {"global", x[1]} THEN counters[k] + n ELSE counters[k]]

LlmInit ==
    /\ cfg = Unset
    /\ at = [x \in Calls |-> "off"] /\ attempt = [h \in Handles |-> Unset]
    /\ waiting = <<>> /\ cost = [x \in Calls |-> 0]
    /\ used = Zero /\ before = Zero /\ spent = Zero /\ overnight = {}
    /\ midnights = 0 /\ llmZombies = 0 /\ callFaults = 0

(***************************************************************************)
(* provider.py.                                                            *)
(***************************************************************************)
api_key(s) == IF ~s.llm_enabled THEN ""
              ELSE IF s.llm_api_key # "" THEN s.llm_api_key
              ELSE IF s.llm_provider = "ollama" THEN s.ollama_api_key ELSE ""

(***************************************************************************)
(* One attempt.                                                            *)
(***************************************************************************)
Goto(x, where) == at' = [at EXCEPT ![x] = where]

ReadSettings ==
    /\ cfg = Unset
    /\ cfg' \in Settings
    /\ UNCHANGED <<at, attempt, waiting, cost, used, dates, spent, midnights, llmZombies, callFaults>>

StartCall(h, i) ==
    /\ cfg # Unset /\ attempt[h] = Unset /\ at[<<h, i>>] = "off"
    /\ \A j \in 1 .. i - 1 : at[<<h, j>>] # "off"
    /\ attempt' = [attempt EXCEPT ![h] = <<h, i>>]
    /\ Goto(<<h, i>>, IF api_key(cfg) = "" THEN "fallback" ELSE "agent")
    /\ UNCHANGED <<cfg, waiting, cost, used, dates, spent, midnights, llmZombies, callFaults>>

(* Redis answers or not.  _get_int: a failed read counts as nothing used.  *)
RedisCommand(failed) ==
    /\ failed => Upsets < MaxUpsets
    /\ callFaults' = IF failed THEN callFaults + 1 ELSE callFaults

(* over_budget takes the date once, then reads the agent's counter and     *)
(* the global one of that day.                                             *)
Counted(x) == IF x \in overnight THEN before ELSE used

CheckAgent(x) ==
    /\ at[x] = "agent"
    /\ \E failed \in BOOLEAN :
         /\ RedisCommand(failed)
         /\ Goto(x, IF ~failed /\ Counted(x)[x[1]] >= AgentBudget THEN "fallback" ELSE "global")
    /\ UNCHANGED <<cfg, attempt, waiting, cost, used, dates, spent, midnights, llmZombies>>

(* Mutant: the global counter is not looked at.                            *)
CheckNothing(x) ==
    /\ at[x] = "global"
    /\ Goto(x, "queue")
    /\ waiting' = Append(waiting, x)
    /\ UNCHANGED <<cfg, attempt, cost, used, dates, spent, midnights, llmZombies, callFaults>>

CheckGlobal(x) ==
    /\ at[x] = "global"
    /\ \E failed \in BOOLEAN :
         /\ RedisCommand(failed)
         /\ IF ~failed /\ Counted(x)["global"] >= GlobalBudget
            THEN Goto(x, "fallback") /\ UNCHANGED waiting
            ELSE Goto(x, "queue") /\ waiting' = Append(waiting, x)
    /\ overnight' = overnight \ {x}
    /\ UNCHANGED <<cfg, attempt, cost, used, before, spent, midnights, llmZombies>>

Calling == {x \in Calls : at[x] = "call"}

(* asyncio.Semaphore wakes its waiters in order.                           *)
Acquire(x) ==
    /\ at[x] = "queue" /\ waiting # <<>> /\ Head(waiting) = x
    /\ Cardinality(Calling) < Concurrency
    /\ waiting' = Tail(waiting)
    /\ Goto(x, "call")
    /\ UNCHANGED <<cfg, attempt, cost, used, dates, spent, midnights, llmZombies, callFaults>>

Answered(x) ==
    /\ at[x] = "call"
    /\ \E c \in Costs :
         /\ cost' = [cost EXCEPT ![x] = c]
         /\ spent' = Add(spent, x, c)
    /\ Goto(x, "record")
    /\ UNCHANGED <<cfg, attempt, waiting, used, dates, midnights, llmZombies, callFaults>>

(* Mutant: the client has no timeout.                                      *)
NeverTimesOut(x) == FALSE /\ UNCHANGED llmVars

(* The client's timeout of 45 s, or any other error.                       *)
CallFails(x) ==
    /\ at[x] = "call"
    /\ Goto(x, "fallback")
    /\ UNCHANGED <<cfg, attempt, waiting, cost, used, dates, spent, midnights, llmZombies, callFaults>>

End(x) ==
    /\ Goto(x, "done")
    /\ attempt' = [attempt EXCEPT ![x[1]] = IF @ = x THEN Unset ELSE @]

(* record_usage: both counters of the date in one pipeline; a failure is   *)
(* only logged.                                                            *)
RecordUsage(x) ==
    /\ at[x] = "record"
    /\ \/ RedisCommand(TRUE) /\ UNCHANGED <<used, before>>
       \/ /\ RedisCommand(FALSE)
          /\ IF x \in overnight THEN before' = Add(before, x, cost[x]) /\ UNCHANGED used
             ELSE used' = Add(used, x, cost[x]) /\ UNCHANGED before
    /\ End(x)
    /\ UNCHANGED <<cfg, waiting, cost, overnight, spent, midnights, llmZombies>>

(* manage parses the answer outside its try and before record_usage: a     *)
(* tool call without a symbol or with a notional that is no number raises. *)
(* The tokens are spent and charged to nobody; Temporal may try again.     *)
ParseFails(x) ==
    /\ at[x] = "record" /\ Upsets < MaxUpsets
    /\ callFaults' = callFaults + 1
    /\ End(x)
    /\ UNCHANGED <<cfg, waiting, cost, used, dates, spent, midnights, llmZombies>>

FallBack(x) ==
    /\ at[x] = "fallback"
    /\ End(x)
    /\ UNCHANGED <<cfg, waiting, cost, used, dates, spent, midnights, llmZombies, callFaults>>

(* Temporal gives an attempt up; its coroutine is not told.                *)
Outlived(h) ==
    /\ attempt[h] # Unset /\ Upsets < MaxUpsets
    /\ llmZombies' = llmZombies + 1
    /\ attempt' = [attempt EXCEPT ![h] = Unset]
    /\ UNCHANGED <<cfg, at, waiting, cost, used, dates, spent, midnights, callFaults>>

(* The keys carry the UTC day: who has taken the date goes on with it.  A  *)
(* Redis command is shorter than a day.                                    *)
Dated == {"agent", "global", "record"}

Midnight ==
    /\ Upsets < MaxUpsets
    /\ \A x \in overnight : at[x] \notin Dated
    /\ midnights' = midnights + 1
    /\ overnight' = {x \in Calls : at[x] \in Dated}
    /\ before' = used /\ used' = Zero /\ spent' = Zero
    /\ UNCHANGED <<cfg, at, attempt, waiting, cost, llmZombies, callFaults>>

Proceed(x) == CheckAgent(x) \/ CheckGlobal(x) \/ Acquire(x) \/ RecordUsage(x) \/ FallBack(x)
Returns(x) == Answered(x) \/ CallFails(x) \/ ParseFails(x)

LlmNext ==
    \/ ReadSettings \/ Midnight
    \/ \E h \in Handles : Outlived(h) \/ \E i \in 1 .. MaxCalls : StartCall(h, i)
    \/ \E x \in Calls : Proceed(x) \/ Returns(x)
LlmSpec == LlmInit /\ [][LlmNext]_llmVars

-----------------------------------------------------------------------------
(* Every variable has its type.                                            *)
LlmTypeOK ==
    /\ cfg \in Settings \cup {Unset}
    /\ at \in [Calls -> {"off", "agent", "global", "queue", "call", "record", "fallback", "done"}]
    /\ attempt \in [Handles -> Calls \cup {Unset}]
    /\ waiting \in Seq(Calls)
    /\ cost \in [Calls -> Costs \cup {0}]
    /\ used \in [Counters -> Nat] /\ before \in [Counters -> Nat] /\ spent \in [Counters -> Nat]
    /\ overnight \subseteq Calls
    /\ midnights \in Nat /\ llmZombies \in Nat /\ callFaults \in Nat /\ Upsets <= MaxUpsets

MaxCost == CHOOSE c \in Costs : \A d \in Costs : d <= c

(* config.py: "runaway/retry-storm spend is bounded".  A day's tokens      *)
(* exceed a budget at most by one call for every attempt that can be past  *)
(* the look-up at once (one per agent, the ones that outlived a timeout),  *)
(* one for every Redis command that failed and one for every answer that   *)
(* could not be parsed.  Nothing in the code bounds these two: spending is *)
(* bounded by the budget and the faults, and by the budget alone only in   *)
(* their absence.                                                          *)
Slack(agents) == MaxCost * (agents + llmZombies + callFaults)
OvershootBounded ==
    /\ spent["global"] <= GlobalBudget - 1 + Slack(Cardinality(Handles))
    /\ \A h \in Handles : spent[h] <= AgentBudget - 1 + Slack(1)

(* provider.py: LLM_ENABLED=false is "the single "no LLM in dev" seam":    *)
(* whatever keys are configured, no token is spent.                        *)
KillSwitch == cfg # Unset /\ ~cfg.llm_enabled => spent["global"] = 0 /\ Calling = {} /\ waiting = <<>>

(* llm.py: "a HARD TIMEOUT is mandatory": no attempt waits forever for the *)
(* model, or for the semaphore that other agents' calls hold.  The calls   *)
(* being bounded, that is: they all come to an end.                        *)
InFlight == {x \in Calls : at[x] \notin {"off", "done"}}
AttemptsEnd == InFlight # {} ~> InFlight = {}

(* config.py, provider.py: the budget and the faults bound what is spent,  *)
(* and the switch ends all of it.                                          *)
SpendingInv == LlmTypeOK /\ OvershootBounded /\ KillSwitch
=============================================================================
