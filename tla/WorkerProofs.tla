---------------------------- MODULE WorkerProofs ----------------------------
(***************************************************************************)
(* The background workers, for any agents, settings, costs, calendars and  *)
(* feeds. However many calls of the manager overlap, outlive their timeout *)
(* or meet a midnight, a day's tokens exceed a budget by at most one call  *)
(* for each that can be past the look-up and for each charge that a fault  *)
(* has lost; an agent sleeps only outside the sessions; and feeds run      *)
(* twice only after a probe has failed.                                    *)
(***************************************************************************)
EXTENDS LlmCalls, MarketHours, IngestSupervisor, FiniteSetTheorems, WellFoundedInduction, TLAPS

-----------------------------------------------------------------------------
(***************************************************************************)
(* LlmCalls.  A counter k is an agent's or the global one.  Of the         *)
(* attempts it counts, some have passed the look-up and may still spend    *)
(* (Past), some have spent and not been charged (Pending).  What has been  *)
(* spent is what is counted, what is pending, and what failed commands and *)
(* answers not parsed have lost (Covered); an attempt that passes the      *)
(* look-up of a counter below its budget therefore keeps spent and Past    *)
(* within it (Reserved), and so does everything an attempt does            *)
(* afterwards.                                                             *)
(***************************************************************************)
Budget(k) == IF k = "global" THEN GlobalBudget ELSE AgentBudget
AtOnce(k) == IF k = "global" THEN Cardinality(Handles) ELSE 1
Mine(k)   == {x \in Calls : k = "global" \/ x[1] = k}

Looks(k)   == IF k = "global" THEN {"agent", "global"} ELSE {"agent"}
Beyond(k)  == IF k = "global" THEN {"queue", "call"} ELSE {"global", "queue", "call"}
Past(k)    == {x \in Mine(k) : at[x] \in Beyond(k) \/ (at[x] \in Looks(k) /\ x \in overnight)}
Pending(k) == {x \in Mine(k) : at[x] = "record" /\ x \notin overnight}

(* One pair for each token that is pending.                                *)
Owed(k) == {p \in Calls \X (1 .. MaxCost) : p[1] \in Pending(k) /\ p[2] <= cost[p[1]]}

Covered(k)  == spent[k] <= used[k] + Cardinality(Owed(k)) + MaxCost * callFaults
Reserved(k) == spent[k] + MaxCost * Cardinality(Past(k))
                 <= Budget(k) - 1 + MaxCost * (AtOnce(k) + llmZombies + callFaults)

(* An attempt is the one Temporal waits for, or has been given up.         *)
GivenUp  == {x \in InFlight : attempt[x[1]] # x}
Attempts == /\ \A h \in Handles : attempt[h] # Unset => attempt[h] \in InFlight /\ attempt[h][1] = h
            /\ Cardinality(GivenUp) <= llmZombies

(* Nothing runs before a setting has been read, and with the switch off    *)
(* nothing but the fallback.                                               *)
Untouched == spent["global"] = 0 /\ waiting = <<>>
Started   == /\ cfg = Unset => Untouched /\ \A x \in Calls : at[x] = "off"
             /\ cfg # Unset /\ ~cfg.llm_enabled => Untouched /\ \A x \in Calls : at[x] \in {"off", "fallback", "done"}

(* Who has taken the date of the day before does not hold a call.          *)
Dates == \A x \in overnight : at[x] \in {"agent", "global", "record", "fallback", "done"}

LlmInv == LlmTypeOK /\ Attempts /\ Started /\ Dates /\ \A k \in Counters : Covered(k) /\ Reserved(k)

LEMMA LlmBounds ==
    /\ Costs \subseteq Nat /\ AgentBudget \in Nat \ {0} /\ GlobalBudget \in Nat \ {0}
    /\ MaxUpsets \in Nat /\ MaxCalls \in Nat /\ Concurrency \in Nat
    /\ "global" \notin Handles /\ Unset \notin Settings /\ Unset \notin Calls
BY LlmAssumption

LEMMA Dearest == MaxCost \in Nat /\ \A c \in Costs : c <= MaxCost
<1>1. \E c \in Costs : \A d \in Costs : d <= c BY LlmAssumption
<1>2. MaxCost \in Costs /\ \A d \in Costs : d <= MaxCost BY <1>1 DEF MaxCost
<1>. QED BY <1>2, LlmBounds

LEMMA FiniteCalls == IsFiniteSet(Calls) /\ IsFiniteSet(Handles) /\ Cardinality(Handles) \in Nat
<1>1. IsFiniteSet(Handles) BY LlmAssumption
<1>2. IsFiniteSet(1 .. MaxCalls) BY LlmBounds, FS_Interval
<1>3. IsFiniteSet(Calls) BY <1>1, <1>2, FS_Product DEF Calls
<1>. QED BY <1>1, <1>3, FS_CardinalityType

LEMMA CallOf == \A x \in Calls : x[1] \in Handles /\ x[1] \in Counters /\ x[1] # "global"
BY LlmBounds DEF Calls, Counters

(***************************************************************************)
(* What one step of one attempt changes.                                   *)
(***************************************************************************)
LEMMA CommandCounts ==
    ASSUME LlmTypeOK, NEW failed \in BOOLEAN, RedisCommand(failed)
    PROVE  /\ callFaults' = IF failed THEN callFaults + 1 ELSE callFaults
           /\ callFaults' \in Nat /\ callFaults' >= callFaults
           /\ midnights + llmZombies + callFaults' <= MaxUpsets
<1>1. midnights \in Nat /\ llmZombies \in Nat /\ callFaults \in Nat /\ midnights + llmZombies + callFaults <= MaxUpsets
  BY DEF LlmTypeOK, Upsets
<1>2. CASE failed BY <1>1, <1>2, LlmBounds DEF RedisCommand, Upsets
<1>3. CASE ~failed BY <1>1, <1>3 DEF RedisCommand
<1>. QED BY <1>2, <1>3

LEMMA NextUpsets ==
    ASSUME LlmTypeOK, [LlmNext]_llmVars
    PROVE  /\ midnights' \in Nat /\ llmZombies' \in Nat /\ callFaults' \in Nat /\ Upsets' <= MaxUpsets
           /\ llmZombies' >= llmZombies /\ callFaults' >= callFaults
<1>. DEFINE Grow == /\ midnights' \in Nat /\ llmZombies' \in Nat /\ callFaults' \in Nat /\ Upsets' <= MaxUpsets
                    /\ llmZombies' >= llmZombies /\ callFaults' >= callFaults
<1>1. midnights \in Nat /\ llmZombies \in Nat /\ callFaults \in Nat /\ midnights + llmZombies + callFaults <= MaxUpsets
  BY DEF LlmTypeOK, Upsets
<1>2. ASSUME UNCHANGED <<midnights, llmZombies, callFaults>> PROVE Grow BY <1>1, <1>2 DEF Upsets
<1>3. ASSUME NEW failed \in BOOLEAN, RedisCommand(failed), UNCHANGED <<midnights, llmZombies>> PROVE Grow
  BY <1>1, <1>3, CommandCounts DEF Upsets
<1>4. ASSUME UNCHANGED llmVars \/ ReadSettings PROVE Grow BY <1>2, <1>4 DEF llmVars, ReadSettings
<1>5. ASSUME Midnight PROVE Grow BY <1>1, <1>5, LlmBounds DEF Midnight, Upsets
<1>6. ASSUME NEW h \in Handles, Outlived(h) PROVE Grow BY <1>1, <1>6, LlmBounds DEF Outlived, Upsets
<1>7. ASSUME NEW h \in Handles, NEW i \in 1 .. MaxCalls, StartCall(h, i) PROVE Grow BY <1>2, <1>7 DEF StartCall
<1>8. ASSUME NEW x \in Calls, Acquire(x) \/ FallBack(x) \/ Answered(x) \/ CallFails(x) PROVE Grow
  BY <1>2, <1>8 DEF Acquire, FallBack, Answered, CallFails
<1>9. ASSUME NEW x \in Calls, CheckAgent(x) \/ CheckGlobal(x) PROVE Grow
  BY <1>3, <1>9 DEF CheckAgent, CheckGlobal
<1>10. ASSUME NEW x \in Calls, RecordUsage(x) PROVE Grow
  BY <1>3, <1>10 DEF RecordUsage
<1>13. ASSUME NEW x \in Calls, ParseFails(x) PROVE Grow BY <1>1, <1>13, LlmBounds DEF ParseFails, Upsets
<1>. HIDE DEF Grow
<1>11. ASSUME NEW x \in Calls, Proceed(x) \/ Returns(x) PROVE Grow
  BY <1>8, <1>9, <1>10, <1>11, <1>13 DEF Proceed, Returns
<1>12. Grow BY <1>4, <1>5, <1>6, <1>7, <1>11 DEF LlmNext
<1>. QED BY <1>12 DEF Grow

Places == {"off", "agent", "global", "queue", "call", "record", "fallback", "done"}

(* Where an attempt goes.                                                  *)
LEMMA WhoMoves ==
    ASSUME LlmTypeOK, [LlmNext]_llmVars
    PROVE  \/ at' = at
           \/ \E x \in Calls, to \in Places : at' = [at EXCEPT ![x] = to]
<1>1. CASE UNCHANGED llmVars \/ ReadSettings \/ Midnight BY <1>1 DEF llmVars, ReadSettings, Midnight
<1>2. ASSUME NEW h \in Handles, Outlived(h) PROVE at' = at BY <1>2 DEF Outlived
<1>3. ASSUME NEW h \in Handles, NEW i \in 1 .. MaxCalls, StartCall(h, i)
      PROVE  \E x \in Calls, to \in Places : at' = [at EXCEPT ![x] = to]
  <2>1. <<h, i>> \in Calls BY DEF Calls
  <2>. QED BY <1>3, <2>1 DEF StartCall, Goto, Places
<1>4. ASSUME NEW x \in Calls, Proceed(x) \/ Returns(x) PROVE \E to \in Places : at' = [at EXCEPT ![x] = to]
  <2>1. CASE CheckAgent(x) BY <2>1 DEF CheckAgent, Goto, Places
  <2>2. CASE CheckGlobal(x) BY <2>2 DEF CheckGlobal, Goto, Places
  <2>3. CASE Acquire(x) BY <2>3 DEF Acquire, Goto, Places
  <2>4. CASE RecordUsage(x) \/ FallBack(x) BY <2>4 DEF RecordUsage, FallBack, End, Goto, Places
  <2>5. CASE Returns(x) BY <2>5 DEF Returns, Answered, CallFails, ParseFails, End, Goto, Places
  <2>. QED BY <1>4, <2>1, <2>2, <2>3, <2>4, <2>5 DEF Proceed
<1>. QED BY <1>1, <1>2, <1>3, <1>4 DEF LlmNext

(* What a step makes of the attempts: types.                               *)
LEMMA NextLlmTypes ==
    ASSUME LlmTypeOK, Dates, [LlmNext]_llmVars
    PROVE  LlmTypeOK' /\ Dates'
<1>1. /\ cfg \in Settings \cup {Unset} /\ at \in [Calls -> Places]
      /\ attempt \in [Handles -> Calls \cup {Unset}] /\ waiting \in Seq(Calls)
      /\ cost \in [Calls -> Costs \cup {0}] /\ overnight \subseteq Calls
      /\ used \in [Counters -> Nat] /\ before \in [Counters -> Nat] /\ spent \in [Counters -> Nat]
  BY DEF LlmTypeOK, Places
<1>. DEFINE T1 == cfg \in Settings \cup {Unset} /\ attempt \in [Handles -> Calls \cup {Unset}] /\ waiting \in Seq(Calls)
            T2 == cost \in [Calls -> Costs \cup {0}] /\ overnight \subseteq Calls /\ Dates
            T3 == used \in [Counters -> Nat] /\ before \in [Counters -> Nat] /\ spent \in [Counters -> Nat]
<1>2. T1 /\ T2 /\ T3 BY <1>1
<1>3. ASSUME UNCHANGED llmVars \/ ReadSettings PROVE T1' /\ T2' /\ T3'
  BY <1>2, <1>3 DEF llmVars, ReadSettings, dates, Dates
<1>4. ASSUME Midnight PROVE T1' /\ T2' /\ T3'
  <2>1. Dates' BY <1>4 DEF Midnight, Dates, Dated
  <2>2. Zero \in [Counters -> Nat] BY DEF Zero
  <2>. QED BY <1>2, <1>4, <2>1, <2>2 DEF Midnight
<1>5. ASSUME NEW h \in Handles, Outlived(h) PROVE T1' /\ T2' /\ T3' BY <1>2, <1>5 DEF Outlived, dates, Dates
<1>6. ASSUME NEW x \in Calls, NEW to \in Places, at' = [at EXCEPT ![x] = to], overnight' \subseteq overnight,
             x \in overnight' => to \in {"agent", "global", "record", "fallback", "done"}
      PROVE  Dates'
  BY <1>1, <1>2, <1>6 DEF Dates
<1>7. ASSUME NEW h \in Handles, NEW i \in 1 .. MaxCalls, StartCall(h, i) PROVE T1' /\ T2' /\ T3'
  <2>1. <<h, i>> \in Calls BY DEF Calls
  <2>2. <<h, i>> \notin overnight BY <1>2, <1>7 DEF StartCall, Dates
  <2>3. Dates' BY <1>6, <1>7, <2>1, <2>2 DEF StartCall, Goto, dates, Places
  <2>. QED BY <1>2, <1>7, <2>1, <2>3 DEF StartCall, dates
<1>8. ASSUME NEW x \in Calls, CheckAgent(x) PROVE T1' /\ T2' /\ T3'
  <2>1. Dates' BY <1>6, <1>8 DEF CheckAgent, Goto, dates, Places
  <2>. QED BY <1>2, <1>8, <2>1 DEF CheckAgent, dates
<1>9. ASSUME NEW x \in Calls, CheckGlobal(x) PROVE T1' /\ T2' /\ T3'
  <2>1. Dates' BY <1>6, <1>9 DEF CheckGlobal, Goto, Places
  <2>2. waiting' = waiting \/ waiting' = Append(waiting, x) BY <1>9 DEF CheckGlobal
  <2>3. waiting' \in Seq(Calls)
    <3>1. Append(waiting, x) \in Seq(Calls) BY <1>1
    <3>. QED BY <1>1, <2>2, <3>1
  <2>4. UNCHANGED <<cfg, attempt, cost, used, before, spent>> /\ overnight' \subseteq Calls
    BY <1>1, <1>9 DEF CheckGlobal
  <2>. QED BY <1>2, <2>1, <2>3, <2>4
<1>10. ASSUME NEW x \in Calls, Acquire(x) PROVE T1' /\ T2' /\ T3'
  <2>1. x \notin overnight BY <1>2, <1>10 DEF Acquire, Dates
  <2>2. Dates' BY <1>6, <1>10, <2>1 DEF Acquire, Goto, dates, Places
  <2>. QED BY <1>2, <1>10, <2>2 DEF Acquire, dates
<1>11. ASSUME NEW x \in Calls, CallFails(x) PROVE T1' /\ T2' /\ T3'
  <2>1. Dates' BY <1>6, <1>11 DEF CallFails, Goto, dates, Places
  <2>. QED BY <1>2, <1>11, <2>1 DEF CallFails, dates
<1>12. ASSUME NEW x \in Calls, Answered(x) PROVE T1' /\ T2' /\ T3'
  <2>1. Dates' BY <1>6, <1>12 DEF Answered, Goto, dates, Places
  <2>2. PICK c \in Costs : cost' = [cost EXCEPT ![x] = c] /\ spent' = Add(spent, x, c) BY <1>12 DEF Answered
  <2>3. spent' \in [Counters -> Nat] BY <1>1, <2>2, LlmBounds DEF Add
  <2>. QED BY <1>2, <1>12, <2>1, <2>2, <2>3 DEF Answered, dates
<1>13. ASSUME NEW x \in Calls, NEW counters \in [Counters -> Nat]
       PROVE  Add(counters, x, cost[x]) \in [Counters -> Nat]
  <2>1. cost[x] \in Costs \cup {0} BY <1>1
  <2>2. \A c \in Costs \cup {0} : c \in Nat BY LlmBounds
  <2>3. cost[x] \in Nat BY <2>1, <2>2
  <2>. QED BY <2>3 DEF Add
<1>14. ASSUME NEW x \in Calls, End(x) PROVE attempt' \in [Handles -> Calls \cup {Unset}]
  BY <1>2, <1>14 DEF End
<1>15. ASSUME NEW x \in Calls, RecordUsage(x) PROVE T1' /\ T2' /\ T3'
  <2>1. Dates' BY <1>6, <1>15 DEF RecordUsage, End, Goto, Places
  <2>2. used' \in [Counters -> Nat] /\ before' \in [Counters -> Nat] BY <1>2, <1>13, <1>15 DEF RecordUsage
  <2>. QED BY <1>2, <1>14, <1>15, <2>1, <2>2 DEF RecordUsage
<1>16. ASSUME NEW x \in Calls, FallBack(x) PROVE T1' /\ T2' /\ T3'
  <2>1. Dates' BY <1>6, <1>16 DEF FallBack, End, Goto, dates, Places
  <2>. QED BY <1>2, <1>14, <1>16, <2>1 DEF FallBack, dates
<1>19. ASSUME NEW x \in Calls, ParseFails(x) PROVE T1' /\ T2' /\ T3'
  <2>1. Dates' BY <1>6, <1>19 DEF ParseFails, End, Goto, dates, Places
  <2>. QED BY <1>2, <1>14, <1>19, <2>1 DEF ParseFails, dates
<1>. HIDE DEF T1, T2, T3
<1>17. T1' /\ T2' /\ T3'
  <2>1. ASSUME NEW x \in Calls, Proceed(x) \/ Returns(x) PROVE T1' /\ T2' /\ T3'
    BY <1>8, <1>9, <1>10, <1>11, <1>12, <1>15, <1>16, <1>19, <2>1 DEF Proceed, Returns
  <2>. QED BY <1>3, <1>4, <1>5, <1>7, <2>1 DEF LlmNext
<1>18. at' \in [Calls -> Places] BY <1>1, WhoMoves
<1>. QED BY <1>17, <1>18, NextUpsets DEF LlmTypeOK, Places, T1, T2, T3

(***************************************************************************)
(* Counting.                                                               *)
(***************************************************************************)
LEMMA Times ==
    /\ \A a, b \in Nat : a * b \in Nat
    /\ \A a, b, c \in Nat : b <= c => a * b <= a * c
    /\ \A a, b, c \in Nat : a * (b + c) = a * b + a * c
<1>1. ASSUME NEW a \in Nat, NEW b \in Nat PROVE a * b \in Nat OBVIOUS
<1>2. ASSUME NEW a \in Nat, NEW b \in Nat, NEW c \in Nat, b <= c PROVE a * b <= a * c
  <2>1. PICK d \in Nat : c = b + d BY <1>2
  <2>2. a * c = a * b + a * d BY <2>1
  <2>3. a * b \in Nat /\ a * d \in Nat BY <1>1
  <2>. QED BY <2>2, <2>3
<1>3. ASSUME NEW a \in Nat, NEW b \in Nat, NEW c \in Nat PROVE a * (b + c) = a * b + a * c OBVIOUS
<1>. QED BY <1>1, <1>2, <1>3

Tokens(x, n) == {x} \X (1 .. n)

LEMMA TokensCount ==
    ASSUME NEW x, NEW n \in Nat
    PROVE  IsFiniteSet(Tokens(x, n)) /\ Cardinality(Tokens(x, n)) = n
<1>1. IsFiniteSet({x}) /\ Cardinality({x}) = 1 BY FS_Singleton
<1>2. IsFiniteSet(1 .. n) /\ Cardinality(1 .. n) = n BY FS_Interval
<1>3. \A S, T : IsFiniteSet(S) /\ IsFiniteSet(T) =>
        IsFiniteSet(S \X T) /\ Cardinality(S \X T) = Cardinality(S) * Cardinality(T)
  BY FS_Product
<1>4. IsFiniteSet(Tokens(x, n)) /\ Cardinality(Tokens(x, n)) = Cardinality({x}) * Cardinality(1 .. n)
  BY <1>1, <1>2, <1>3 DEF Tokens
<1>. QED BY <1>1, <1>2, <1>4

LEMMA UnionCount ==
    ASSUME NEW S, NEW T, IsFiniteSet(S), IsFiniteSet(T), S \cap T = {}
    PROVE  IsFiniteSet(S \cup T) /\ Cardinality(S \cup T) = Cardinality(S) + Cardinality(T)
<1>1. Cardinality({}) = 0 BY FS_EmptySet
<1>2. Cardinality(S) \in Nat /\ Cardinality(T) \in Nat BY FS_CardinalityType
<1>3. /\ IsFiniteSet(S \cup T)
      /\ Cardinality(S \cup T) = Cardinality(S) + Cardinality(T) - Cardinality(S \cap T)
  BY FS_Union
<1>4. Cardinality(S \cap T) = 0 BY <1>1
<1>. QED BY <1>2, <1>3, <1>4

LEMMA FiniteParts ==
    ASSUME NEW S, S \subseteq Calls \/ S \subseteq Calls \X (1 .. MaxCost)
    PROVE  IsFiniteSet(S) /\ Cardinality(S) \in Nat
<1>1. IsFiniteSet(1 .. MaxCost) BY Dearest, FS_Interval
<1>2. IsFiniteSet(Calls \X (1 .. MaxCost)) BY <1>1, FiniteCalls, FS_Product
<1>3. IsFiniteSet(S) BY <1>2, FiniteCalls, FS_Subset
<1>. QED BY <1>3, FS_CardinalityType

LEMMA SetsFinite ==
    ASSUME NEW k \in Counters
    PROVE  /\ IsFiniteSet(Past(k)) /\ IsFiniteSet(Pending(k)) /\ IsFiniteSet(Owed(k)) /\ IsFiniteSet(InFlight)
           /\ Cardinality(Past(k)) \in Nat /\ Cardinality(Pending(k)) \in Nat /\ Cardinality(Owed(k)) \in Nat
           /\ IsFiniteSet(Past(k)') /\ IsFiniteSet(Owed(k)') /\ IsFiniteSet(Pending(k)')
           /\ Cardinality(Past(k)') \in Nat /\ Cardinality(Owed(k)') \in Nat /\ Cardinality(Pending(k)') \in Nat
<1>1. Past(k) \subseteq Calls /\ Pending(k) \subseteq Calls /\ InFlight \subseteq Calls
  BY DEF Past, Pending, Mine, InFlight
<1>2. Past(k)' \subseteq Calls /\ Pending(k)' \subseteq Calls BY DEF Past, Pending, Mine
<1>3. Owed(k) \subseteq Calls \X (1 .. MaxCost) /\ Owed(k)' \subseteq Calls \X (1 .. MaxCost) BY DEF Owed
<1>. QED BY <1>1, <1>2, <1>3, FiniteParts

LEMMA OwedBounded ==
    ASSUME LlmTypeOK, NEW k \in Counters
    PROVE  Cardinality(Owed(k)) <= MaxCost * Cardinality(Pending(k))
<1>1. Owed(k) \subseteq Pending(k) \X (1 .. MaxCost) BY DEF Owed
<1>2. IsFiniteSet(1 .. MaxCost) /\ Cardinality(1 .. MaxCost) = MaxCost BY Dearest, FS_Interval
<1>3. /\ IsFiniteSet(Pending(k) \X (1 .. MaxCost))
      /\ Cardinality(Pending(k) \X (1 .. MaxCost)) = Cardinality(Pending(k)) * MaxCost
  BY <1>2, SetsFinite, FS_Product
<1>4. Cardinality(Owed(k)) <= Cardinality(Pending(k)) * MaxCost BY <1>1, <1>3, FS_Subset
<1>5. Cardinality(Pending(k)) \in Nat BY SetsFinite
<1>. QED BY <1>4, <1>5, Dearest

(* The attempts that count for k and are under way: one for each agent,    *)
(* and the ones that have been given up.                                   *)
LEMMA FlightBounded ==
    ASSUME LlmTypeOK, Attempts, NEW k \in Counters
    PROVE  IsFiniteSet(InFlight \cap Mine(k)) /\ Cardinality(InFlight \cap Mine(k)) <= AtOnce(k) + llmZombies
<1>. DEFINE H == IF k = "global" THEN Handles ELSE {k}
            I == {attempt[h] : h \in H}
<1>1. IsFiniteSet(H) /\ Cardinality(H) = AtOnce(k)
  <2>1. CASE k = "global" BY <2>1, FiniteCalls DEF AtOnce
  <2>2. CASE k # "global" BY <2>2, FS_Singleton DEF AtOnce
  <2>. QED BY <2>1, <2>2
<1>. HIDE DEF H
<1>2. IsFiniteSet(I) /\ Cardinality(I) <= Cardinality(H)
  <2>1. [h \in H |-> attempt[h]] \in Surjection(H, I) BY DEF Surjection
  <2>. QED BY <1>1, <2>1, FS_Surjection
<1>3. IsFiniteSet(GivenUp)
  <2>1. GivenUp \subseteq InFlight BY DEF GivenUp
  <2>. QED BY <2>1, SetsFinite, FS_Subset
<1>4. InFlight \cap Mine(k) \subseteq I \cup GivenUp
  <2>. SUFFICES ASSUME NEW x \in InFlight \cap Mine(k), x \notin GivenUp PROVE x \in I OBVIOUS
  <2>1. x \in Calls /\ attempt[x[1]] = x BY DEF GivenUp, InFlight
  <2>2. x[1] \in H BY <2>1, CallOf DEF H, Mine
  <2>. QED BY <2>1, <2>2
<1>. HIDE DEF I
<1>5. IsFiniteSet(I \cup GivenUp) /\ Cardinality(I \cup GivenUp) <= Cardinality(I) + Cardinality(GivenUp)
  <2>1. IsFiniteSet(I \cup GivenUp) BY <1>2, <1>3, FS_Union
  <2>2. Cardinality(I \cup GivenUp) = Cardinality(I) + Cardinality(GivenUp) - Cardinality(I \cap GivenUp)
    BY <1>2, <1>3, FS_Union
  <2>3. IsFiniteSet(I \cap GivenUp) BY <1>2, FS_Subset
  <2>4. Cardinality(I) \in Nat /\ Cardinality(GivenUp) \in Nat /\ Cardinality(I \cap GivenUp) \in Nat
    BY <1>2, <1>3, <2>3, FS_CardinalityType
  <2>. QED BY <2>1, <2>2, <2>4
<1>6. /\ IsFiniteSet(InFlight \cap Mine(k))
      /\ Cardinality(InFlight \cap Mine(k)) <= Cardinality(I \cup GivenUp)
  BY <1>4, <1>5, FS_Subset
<1>7. Cardinality(GivenUp) <= llmZombies /\ llmZombies \in Nat BY DEF Attempts, LlmTypeOK
<1>8. /\ Cardinality(InFlight \cap Mine(k)) \in Nat /\ Cardinality(I \cup GivenUp) \in Nat
      /\ Cardinality(I) \in Nat /\ Cardinality(GivenUp) \in Nat /\ Cardinality(H) \in Nat
  BY <1>1, <1>2, <1>3, <1>5, <1>6, FS_CardinalityType
<1>. QED BY <1>1, <1>2, <1>5, <1>6, <1>7, <1>8

LEMMA PastAndPending ==
    ASSUME LlmTypeOK, Attempts, NEW k \in Counters
    PROVE  Cardinality(Past(k)) + Cardinality(Pending(k)) <= AtOnce(k) + llmZombies
<1>1. Past(k) \cap Pending(k) = {} BY DEF Past, Pending, Beyond, Looks
<1>2. Past(k) \cup Pending(k) \subseteq InFlight \cap Mine(k)
  BY DEF Past, Pending, Beyond, Looks, InFlight, Mine
<1>3. /\ IsFiniteSet(Past(k) \cup Pending(k))
      /\ Cardinality(Past(k) \cup Pending(k)) = Cardinality(Past(k)) + Cardinality(Pending(k))
  BY <1>1, SetsFinite, UnionCount
<1>4. Cardinality(Past(k) \cup Pending(k)) <= Cardinality(InFlight \cap Mine(k))
  BY <1>2, FlightBounded, FS_Subset
<1>5. /\ Cardinality(InFlight \cap Mine(k)) <= AtOnce(k) + llmZombies
      /\ IsFiniteSet(InFlight \cap Mine(k))
  BY FlightBounded
<1>6. Cardinality(InFlight \cap Mine(k)) \in Nat /\ Cardinality(Past(k) \cup Pending(k)) \in Nat
  BY <1>3, <1>5, FS_CardinalityType
<1>7. AtOnce(k) \in Nat /\ llmZombies \in Nat BY FiniteCalls DEF AtOnce, LlmTypeOK
<1>. QED BY <1>3, <1>4, <1>5, <1>6, <1>7

(***************************************************************************)
(* What a step does to the account of one counter.                         *)
(***************************************************************************)
Spares(k)  == /\ spent'[k] = spent[k] /\ used'[k] = used[k]
              /\ Past(k)' \subseteq Past(k) /\ Owed(k)' = Owed(k)
Enters(k)  == /\ spent'[k] = spent[k] /\ used'[k] = used[k]
              /\ \E x \in Calls : Past(k)' \subseteq Past(k) \cup {x}
              /\ Owed(k)' = Owed(k)
              /\ callFaults' = callFaults + 1 \/ used[k] < Budget(k)
Spends(k)  == \E x \in Past(k), c \in Costs :
              /\ spent'[k] = spent[k] + c /\ used'[k] = used[k]
              /\ Past(k)' \subseteq Past(k) \ {x}
              /\ Owed(k) \cup Tokens(x, c) \subseteq Owed(k)' /\ Owed(k) \cap Tokens(x, c) = {}
Settles(k) == \E x \in Calls, n \in 0 .. MaxCost :
              /\ spent'[k] = spent[k]
              /\ Past(k)' \subseteq Past(k) /\ Owed(k) \subseteq Owed(k)' \cup Tokens(x, n)
              /\ used'[k] = used[k] + n \/ (used'[k] = used[k] /\ callFaults' = callFaults + 1)
Resets(k)  == spent'[k] = 0 /\ used'[k] = 0
Effect(k)  == Spares(k) \/ Enters(k) \/ Spends(k) \/ Settles(k) \/ Resets(k)

(* A step of one attempt concerns this attempt alone.                      *)
Alike(x) == \A y \in Calls \ {x} : at'[y] = at[y] /\ cost'[y] = cost[y] /\ (y \in overnight' <=> y \in overnight)

LEMMA OthersStay ==
    ASSUME NEW k \in Counters, NEW x \in Calls, Alike(x)
    PROVE  /\ Past(k)' \subseteq Past(k) \cup {x}
           /\ x \notin Past(k)' => Past(k)' \subseteq Past(k) \ {x}
           /\ x \in Past(k) => Past(k)' \subseteq Past(k)
           /\ x \notin Mine(k) => Past(k)' \subseteq Past(k)
<1>1. ASSUME NEW y, y \in Past(k)', y # x PROVE y \in Past(k)
  <2>1. /\ y \in Mine(k) /\ y \in Calls
        /\ at'[y] \in Beyond(k) \/ (at'[y] \in Looks(k) /\ y \in overnight')
    BY <1>1 DEF Past, Mine
  <2>. QED BY <1>1, <2>1 DEF Alike, Past
<1>2. x \notin Mine(k) => x \notin Past(k)' BY DEF Past
<1>. QED BY <1>1, <1>2

LEMMA PairsStay ==
    ASSUME LlmTypeOK, NEW k \in Counters, NEW x \in Calls, Alike(x)
    PROVE  /\ \A p : p[1] # x => (p \in Owed(k)' <=> p \in Owed(k))
           /\ \A p \in Owed(k) : p[1] = x => x \in Pending(k) /\ p \in Tokens(x, cost[x])
           /\ \A p \in Owed(k)' : p[1] = x => x \in Pending(k)'
<1>1. ASSUME NEW p, p[1] # x PROVE p \in Owed(k)' <=> p \in Owed(k)
  <2>1. p \in Owed(k)' <=> /\ p \in Calls \X (1 .. MaxCost) /\ p[1] \in Mine(k)
                           /\ at'[p[1]] = "record" /\ p[1] \notin overnight' /\ p[2] <= cost'[p[1]]
    BY DEF Owed, Pending, Mine
  <2>2. p \in Owed(k) <=> /\ p \in Calls \X (1 .. MaxCost) /\ p[1] \in Mine(k)
                          /\ at[p[1]] = "record" /\ p[1] \notin overnight /\ p[2] <= cost[p[1]]
    BY DEF Owed, Pending
  <2>3. p \in Calls \X (1 .. MaxCost) => p[1] \in Calls \ {x} BY <1>1
  <2>. QED BY <2>1, <2>2, <2>3 DEF Alike
<1>2. ASSUME NEW p \in Owed(k), p[1] = x PROVE x \in Pending(k) /\ p \in Tokens(x, cost[x])
  <2>1. p \in Calls \X (1 .. MaxCost) /\ p[1] \in Pending(k) /\ p[2] <= cost[p[1]] BY <1>2 DEF Owed
  <2>2. p = <<x, p[2]>> /\ p[2] \in 1 .. MaxCost /\ p[2] <= cost[x] BY <1>2, <2>1
  <2>3. cost[x] \in Costs \cup {0} BY DEF LlmTypeOK
  <2>4. \A c \in Costs \cup {0} : c \in Nat BY LlmBounds
  <2>5. cost[x] \in Nat BY <2>3, <2>4
  <2>6. p[2] \in 1 .. cost[x] BY <2>2, <2>5, Dearest
  <2>. QED BY <1>2, <2>1, <2>2, <2>6 DEF Tokens
<1>3. ASSUME NEW p \in Owed(k)', p[1] = x PROVE x \in Pending(k)' BY <1>3 DEF Owed
<1>. QED BY <1>1, <1>2, <1>3

LEMMA OwedStays ==
    ASSUME LlmTypeOK, NEW k \in Counters, NEW x \in Calls, Alike(x), x \notin Pending(k), x \notin Pending(k)'
    PROVE  Owed(k)' = Owed(k)
<1>1. \A p \in Owed(k) : p[1] # x BY PairsStay
<1>2. \A p \in Owed(k)' : p[1] # x BY PairsStay
<1>. QED BY <1>1, <1>2, PairsStay

(* A step that neither spends nor charges and does not concern k's past.   *)
LEMMA Uncounted ==
    ASSUME LlmTypeOK, NEW k \in Counters, NEW x \in Calls, Alike(x), spent'[k] = spent[k], used'[k] = used[k],
           x \notin Pending(k), x \notin Pending(k)', x \notin Past(k)' \/ x \in Past(k)
    PROVE  Spares(k)
<1>1. Owed(k)' = Owed(k) BY OwedStays
<1>2. Past(k)' \subseteq Past(k) BY OthersStay
<1>. QED BY <1>1, <1>2 DEF Spares

LEMMA NotMine ==
    ASSUME NEW k, NEW x, x \notin Mine(k)
    PROVE  x \notin Past(k) /\ x \notin Past(k)' /\ x \notin Pending(k) /\ x \notin Pending(k)'
BY DEF Past, Pending, Mine

LEMMA StartEffect ==
    ASSUME LlmTypeOK, Dates, NEW k \in Counters, NEW h \in Handles, NEW i \in 1 .. MaxCalls, StartCall(h, i)
    PROVE  Spares(k)
<1>. DEFINE x == <<h, i>>
<1>1. x \in Calls BY DEF Calls
<1>2. at \in [Calls -> Places] BY DEF LlmTypeOK, Places
<1>3. at[x] = "off" /\ at'[x] \in {"fallback", "agent"} BY <1>1, <1>2 DEF StartCall, Goto
<1>4. x \notin overnight BY <1>3 DEF Dates
<1>5. UNCHANGED <<cost, overnight, used, spent>> BY DEF StartCall, dates
<1>6. Alike(x) BY <1>1, <1>2, <1>5 DEF StartCall, Goto, Alike
<1>7. x \notin Past(k)' /\ x \notin Pending(k)' /\ x \notin Pending(k)
  BY <1>3, <1>4, <1>5 DEF Past, Pending, Beyond, Looks
<1>. HIDE DEF x
<1>. QED BY <1>1, <1>5, <1>6, <1>7, Uncounted

LEMMA CheckAgentEffect ==
    ASSUME LlmTypeOK, NEW k \in Counters, NEW x \in Calls, CheckAgent(x)
    PROVE  Effect(k)
<1>1. at \in [Calls -> Places] BY DEF LlmTypeOK, Places
<1>2. PICK failed \in BOOLEAN :
        /\ RedisCommand(failed)
        /\ Goto(x, IF ~failed /\ Counted(x)[x[1]] >= AgentBudget THEN "fallback" ELSE "global")
  BY DEF CheckAgent
<1>3. at[x] = "agent" /\ at'[x] \in {"fallback", "global"} BY <1>1, <1>2 DEF CheckAgent, Goto
<1>4. UNCHANGED <<cost, overnight, used, spent>> BY DEF CheckAgent, dates
<1>5. Alike(x) BY <1>1, <1>2, <1>4 DEF Goto, Alike
<1>6. x \notin Pending(k)' /\ x \notin Pending(k) BY <1>3 DEF Pending
<1>7. CASE x \notin Past(k)' \/ x \in Past(k)
  <2>1. Spares(k) BY <1>4, <1>5, <1>6, <1>7, Uncounted
  <2>. QED BY <2>1 DEF Effect
<1>8. CASE x \in Past(k)' /\ x \notin Past(k)
  <2>1. x \in Mine(k) /\ x \notin overnight BY <1>3, <1>8 DEF Past, Looks, Mine
  <2>2. k # "global" /\ at'[x] = "global" BY <1>3, <1>4, <1>8, <2>1 DEF Past, Looks, Beyond
  <2>3. x[1] = k BY <2>1, <2>2 DEF Mine
  <2>4. Counted(x)[x[1]] = used[k] BY <2>1, <2>3 DEF Counted
  <2>5. used[k] \in Nat /\ AgentBudget \in Nat BY LlmBounds DEF LlmTypeOK
  <2>6. callFaults' = callFaults + 1 \/ used[k] < Budget(k)
    <3>1. CASE failed BY <1>2, <3>1, CommandCounts
    <3>2. CASE ~failed
      <4>1. ~(used[k] >= AgentBudget) BY <1>1, <1>2, <2>2, <2>4, <3>2 DEF Goto
      <4>. QED BY <2>2, <2>5, <4>1 DEF Budget
    <3>. QED BY <3>1, <3>2
  <2>7. Owed(k)' = Owed(k) BY <1>5, <1>6, OwedStays
  <2>8. Past(k)' \subseteq Past(k) \cup {x} BY <1>5, OthersStay
  <2>9. Enters(k) BY <1>4, <2>6, <2>7, <2>8 DEF Enters
  <2>. QED BY <2>9 DEF Effect
<1>. QED BY <1>7, <1>8

LEMMA CheckGlobalEffect ==
    ASSUME LlmTypeOK, NEW k \in Counters, NEW x \in Calls, CheckGlobal(x)
    PROVE  Effect(k)
<1>1. at \in [Calls -> Places] BY DEF LlmTypeOK, Places
<1>2. PICK failed \in BOOLEAN :
        /\ RedisCommand(failed)
        /\ IF ~failed /\ Counted(x)["global"] >= GlobalBudget
           THEN Goto(x, "fallback") /\ UNCHANGED waiting
           ELSE Goto(x, "queue") /\ waiting' = Append(waiting, x)
  BY DEF CheckGlobal
<1>3. at[x] = "global" /\ at'[x] \in {"fallback", "queue"} /\ \A y \in Calls \ {x} : at'[y] = at[y]
  BY <1>1, <1>2 DEF CheckGlobal, Goto
<1>4. UNCHANGED <<cost, used, spent>> /\ overnight' = overnight \ {x} BY DEF CheckGlobal
<1>5. Alike(x) BY <1>3, <1>4 DEF Alike
<1>6. x \notin Pending(k)' /\ x \notin Pending(k) BY <1>3 DEF Pending
<1>7. CASE x \notin Past(k)' \/ x \in Past(k)
  <2>1. Spares(k) BY <1>4, <1>5, <1>6, <1>7, Uncounted
  <2>. QED BY <2>1 DEF Effect
<1>8. CASE x \in Past(k)' /\ x \notin Past(k)
  <2>1. x \in Mine(k) /\ at'[x] = "queue" BY <1>3, <1>8 DEF Past, Looks, Beyond, Mine
  <2>2. k = "global" /\ x \notin overnight BY <1>3, <1>8, <2>1 DEF Past, Looks, Beyond
  <2>3. Counted(x)["global"] = used[k] BY <2>2 DEF Counted
  <2>4. used[k] \in Nat /\ GlobalBudget \in Nat BY LlmBounds DEF LlmTypeOK
  <2>5. callFaults' = callFaults + 1 \/ used[k] < Budget(k)
    <3>1. CASE failed BY <1>2, <3>1, CommandCounts
    <3>2. CASE ~failed
      <4>1. ~(used[k] >= GlobalBudget) BY <1>1, <1>2, <2>1, <2>3, <3>2 DEF Goto
      <4>. QED BY <2>2, <2>4, <4>1 DEF Budget
    <3>. QED BY <3>1, <3>2
  <2>6. Owed(k)' = Owed(k) BY <1>5, <1>6, OwedStays
  <2>7. Past(k)' \subseteq Past(k) \cup {x} BY <1>5, OthersStay
  <2>8. Enters(k) BY <1>4, <2>5, <2>6, <2>7 DEF Enters
  <2>. QED BY <2>8 DEF Effect
<1>. QED BY <1>7, <1>8

(* The semaphore, a call that fails, a tick that falls back.               *)
LEMMA WaitingEffect ==
    ASSUME LlmTypeOK, NEW k \in Counters, NEW x \in Calls, Acquire(x) \/ CallFails(x) \/ FallBack(x)
    PROVE  Spares(k)
<1>1. at \in [Calls -> Places] BY DEF LlmTypeOK, Places
<1>2. \/ at[x] = "queue" /\ at' = [at EXCEPT ![x] = "call"]
      \/ at[x] = "call" /\ at' = [at EXCEPT ![x] = "fallback"]
      \/ at[x] = "fallback" /\ at' = [at EXCEPT ![x] = "done"]
  BY DEF Acquire, CallFails, FallBack, End, Goto
<1>3. UNCHANGED <<cost, overnight, used, spent>> BY DEF Acquire, CallFails, FallBack, dates
<1>4. Alike(x) BY <1>1, <1>2, <1>3 DEF Alike
<1>5. x \notin Pending(k)' /\ x \notin Pending(k) BY <1>1, <1>2 DEF Pending
<1>6. x \notin Past(k)' \/ x \in Past(k) BY <1>1, <1>2, <1>3 DEF Past, Looks, Beyond
<1>. QED BY <1>3, <1>4, <1>5, <1>6, Uncounted

LEMMA AnsweredEffect ==
    ASSUME LlmTypeOK, Dates, NEW k \in Counters, NEW x \in Calls, Answered(x)
    PROVE  Effect(k)
<1>1. at \in [Calls -> Places] /\ cost \in [Calls -> Costs \cup {0}] BY DEF LlmTypeOK, Places
<1>2. PICK c \in Costs : cost' = [cost EXCEPT ![x] = c] /\ spent' = Add(spent, x, c) BY DEF Answered
<1>3. at[x] = "call" /\ at' = [at EXCEPT ![x] = "record"] /\ UNCHANGED <<overnight, used>>
  BY DEF Answered, Goto, dates
<1>4. Alike(x) BY <1>1, <1>2, <1>3 DEF Alike
<1>5. x \notin overnight BY <1>3 DEF Dates
<1>6. CASE x \notin Mine(k)
  <2>1. spent'[k] = spent[k] BY <1>2, <1>6 DEF Add, Mine
  <2>2. Spares(k) BY <1>3, <1>4, <1>6, <2>1, NotMine, Uncounted
  <2>. QED BY <2>2 DEF Effect
<1>7. CASE x \in Mine(k)
  <2>1. k \in {"global", x[1]} BY <1>7 DEF Mine
  <2>2. spent'[k] = spent[k] + c BY <1>2, <2>1 DEF Add
  <2>3. x \in Past(k) BY <1>3, <1>7 DEF Past, Beyond
  <2>4. x \notin Past(k)' BY <1>1, <1>3 DEF Past, Beyond, Looks
  <2>5. Past(k)' \subseteq Past(k) \ {x} BY <1>4, <2>4, OthersStay
  <2>6. x \in Pending(k)' BY <1>1, <1>3, <1>5, <1>7 DEF Pending, Mine
  <2>7. c \in Nat /\ c <= MaxCost /\ cost'[x] = c BY <1>1, <1>2, Dearest, LlmBounds
  <2>8. ASSUME NEW p \in Tokens(x, c) PROVE p \in Owed(k)'
    <3>1. p[1] = x /\ p[2] \in 1 .. c /\ p = <<p[1], p[2]>> BY DEF Tokens
    <3>2. p[2] \in 1 .. MaxCost /\ p[2] <= c BY <2>7, <3>1, Dearest
    <3>3. p \in Calls \X (1 .. MaxCost) BY <3>1, <3>2
    <3>. QED BY <2>6, <2>7, <3>1, <3>2, <3>3 DEF Owed
  <2>9. ASSUME NEW p \in Owed(k) PROVE p[1] # x /\ p \in Owed(k)'
    <3>1. x \notin Pending(k) BY <1>3 DEF Pending
    <3>. QED BY <1>4, <3>1, PairsStay
  <2>10. \A p \in Tokens(x, c) : p[1] = x BY DEF Tokens
  <2>11. Owed(k) \cup Tokens(x, c) \subseteq Owed(k)' /\ Owed(k) \cap Tokens(x, c) = {} BY <2>8, <2>9, <2>10
  <2>12. Spends(k) BY <1>3, <2>2, <2>3, <2>5, <2>11 DEF Spends
  <2>. QED BY <2>12 DEF Effect
<1>. QED BY <1>6, <1>7

(* An answer that is charged, or cannot be parsed.                         *)
LEMMA RecordEffect ==
    ASSUME LlmTypeOK, NEW k \in Counters, NEW x \in Calls, RecordUsage(x) \/ ParseFails(x)
    PROVE  Effect(k)
<1>1. at \in [Calls -> Places] /\ cost \in [Calls -> Costs \cup {0}] BY DEF LlmTypeOK, Places
<1>2. at[x] = "record" /\ at' = [at EXCEPT ![x] = "done"] /\ UNCHANGED <<overnight, cost, spent>>
  BY DEF RecordUsage, ParseFails, End, Goto, dates
<1>3. \/ callFaults' = callFaults + 1 /\ used' = used
      \/ x \in overnight /\ used' = used
      \/ x \notin overnight /\ used' = Add(used, x, cost[x])
  BY CommandCounts DEF RecordUsage, ParseFails
<1>4. Alike(x) BY <1>1, <1>2 DEF Alike
<1>5. x \notin Past(k)' /\ x \notin Past(k) /\ x \notin Pending(k)'
  BY <1>1, <1>2 DEF Past, Pending, Beyond, Looks
<1>6. CASE x \notin Pending(k)
  <2>1. used'[k] = used[k] BY <1>2, <1>3, <1>6 DEF Add, Mine, Pending
  <2>2. Spares(k) BY <1>2, <1>4, <1>5, <1>6, <2>1, Uncounted
  <2>. QED BY <2>2 DEF Effect
<1>7. CASE x \in Pending(k)
  <2>1. x \notin overnight /\ k \in {"global", x[1]} BY <1>7 DEF Pending, Mine
  <2>2. used'[k] = used[k] + cost[x] \/ (used'[k] = used[k] /\ callFaults' = callFaults + 1)
    BY <1>3, <2>1 DEF Add
  <2>3. cost[x] \in Costs \cup {0} BY <1>1
  <2>4. \A c \in Costs \cup {0} : c \in 0 .. MaxCost BY Dearest, LlmBounds
  <2>5. cost[x] \in 0 .. MaxCost BY <2>3, <2>4
  <2>6. Owed(k) \subseteq Owed(k)' \cup Tokens(x, cost[x]) BY <1>4, PairsStay
  <2>7. Past(k)' \subseteq Past(k) BY <1>4, <1>5, OthersStay
  <2>8. Settles(k) BY <1>2, <2>2, <2>5, <2>6, <2>7 DEF Settles
  <2>. QED BY <2>8 DEF Effect
<1>. QED BY <1>6, <1>7

LEMMA NextEffect ==
    ASSUME LlmTypeOK, Dates, [LlmNext]_llmVars, NEW k \in Counters
    PROVE  Effect(k)
<1>1. ASSUME UNCHANGED <<at, cost, overnight, used, spent>> PROVE Effect(k)
  <2>1. Past(k)' = Past(k) /\ Owed(k)' = Owed(k) BY <1>1 DEF Past, Owed, Pending
  <2>. QED BY <1>1, <2>1 DEF Spares, Effect
<1>2. ASSUME UNCHANGED llmVars \/ ReadSettings PROVE Effect(k)
  BY <1>1, <1>2 DEF llmVars, ReadSettings, dates
<1>3. ASSUME Midnight PROVE Effect(k) BY <1>3 DEF Midnight, Zero, Resets, Effect
<1>4. ASSUME NEW h \in Handles, Outlived(h) PROVE Effect(k) BY <1>1, <1>4 DEF Outlived, dates
<1>5. ASSUME NEW h \in Handles, NEW i \in 1 .. MaxCalls, StartCall(h, i) PROVE Effect(k)
  BY <1>5, StartEffect DEF Effect
<1>6. ASSUME NEW x \in Calls, Proceed(x) \/ Returns(x) PROVE Effect(k)
  <2>1. CASE Acquire(x) \/ CallFails(x) \/ FallBack(x) BY <2>1, WaitingEffect DEF Effect
  <2>2. CASE CheckAgent(x) \/ CheckGlobal(x) BY <2>2, CheckAgentEffect, CheckGlobalEffect
  <2>3. CASE Answered(x) \/ RecordUsage(x) \/ ParseFails(x) BY <2>3, AnsweredEffect, RecordEffect
  <2>. QED BY <1>6, <2>1, <2>2, <2>3 DEF Proceed, Returns
<1>. QED BY <1>2, <1>3, <1>4, <1>5, <1>6 DEF LlmNext

(***************************************************************************)
(* The account is kept.                                                    *)
(***************************************************************************)
LEMMA NextCovered ==
    ASSUME LlmTypeOK, LlmTypeOK', callFaults' >= callFaults, NEW k \in Counters, Covered(k), Effect(k)
    PROVE  Covered(k)'
<1>1. /\ spent[k] \in Nat /\ used[k] \in Nat /\ spent'[k] \in Nat /\ used'[k] \in Nat
      /\ callFaults \in Nat /\ callFaults' \in Nat /\ MaxCost \in Nat
  BY Dearest DEF LlmTypeOK
<1>2. IsFiniteSet(Owed(k)) /\ Cardinality(Owed(k)) \in Nat BY SetsFinite
<1>3. IsFiniteSet(Owed(k)') /\ Cardinality(Owed(k)') \in Nat BY SetsFinite
<1>4. MaxCost * callFaults \in Nat /\ MaxCost * callFaults' \in Nat /\ MaxCost * callFaults' >= MaxCost * callFaults
  BY <1>1, Times
<1>5. callFaults' = callFaults + 1 => MaxCost * callFaults' = MaxCost * callFaults + MaxCost
  <2>1. MaxCost * (callFaults + 1) = MaxCost * callFaults + MaxCost * 1 BY <1>1, Times
  <2>. QED BY <1>1, <2>1
<1>6. spent[k] <= used[k] + Cardinality(Owed(k)) + MaxCost * callFaults BY DEF Covered
<1>. SUFFICES spent'[k] <= used'[k] + Cardinality(Owed(k)') + MaxCost * callFaults' BY DEF Covered
<1>7. CASE Spares(k) \/ Enters(k)
  <2>1. spent'[k] = spent[k] /\ used'[k] = used[k] /\ Owed(k)' = Owed(k) BY <1>7 DEF Spares, Enters
  <2>. QED BY <1>1, <1>2, <1>4, <1>6, <2>1
<1>8. CASE Spends(k)
  <2>1. PICK x \in Past(k), c \in Costs :
          /\ spent'[k] = spent[k] + c /\ used'[k] = used[k]
          /\ Owed(k) \cup Tokens(x, c) \subseteq Owed(k)' /\ Owed(k) \cap Tokens(x, c) = {}
    BY <1>8 DEF Spends
  <2>2. c \in Nat BY LlmBounds
  <2>3. IsFiniteSet(Tokens(x, c)) /\ Cardinality(Tokens(x, c)) = c BY <2>2, TokensCount
  <2>4. Cardinality(Owed(k) \cup Tokens(x, c)) = Cardinality(Owed(k)) + c BY <1>2, <2>1, <2>3, UnionCount
  <2>5. Cardinality(Owed(k) \cup Tokens(x, c)) <= Cardinality(Owed(k)') BY <1>3, <2>1, FS_Subset
  <2>. QED BY <1>1, <1>2, <1>3, <1>4, <1>6, <2>1, <2>2, <2>4, <2>5
<1>9. CASE Settles(k)
  <2>1. PICK x \in Calls, n \in 0 .. MaxCost :
          /\ spent'[k] = spent[k] /\ Owed(k) \subseteq Owed(k)' \cup Tokens(x, n)
          /\ used'[k] = used[k] + n \/ (used'[k] = used[k] /\ callFaults' = callFaults + 1)
    BY <1>9 DEF Settles
  <2>2. n \in Nat /\ n <= MaxCost BY <1>1
  <2>3. IsFiniteSet(Tokens(x, n)) /\ Cardinality(Tokens(x, n)) = n BY <2>2, TokensCount
  <2>4. /\ IsFiniteSet(Owed(k)' \cup Tokens(x, n))
        /\ Cardinality(Owed(k)' \cup Tokens(x, n))
             = Cardinality(Owed(k)') + n - Cardinality(Owed(k)' \cap Tokens(x, n))
    BY <1>3, <2>3, FS_Union
  <2>5. Cardinality(Owed(k)' \cap Tokens(x, n)) \in Nat
    <3>1. IsFiniteSet(Owed(k)' \cap Tokens(x, n)) BY <1>3, FS_Subset
    <3>. QED BY <3>1, FS_CardinalityType
  <2>6. Cardinality(Owed(k)) <= Cardinality(Owed(k)' \cup Tokens(x, n)) BY <2>1, <2>4, FS_Subset
  <2>7. Cardinality(Owed(k)) <= Cardinality(Owed(k)') + n BY <1>2, <1>3, <2>2, <2>4, <2>5, <2>6
  <2>8. CASE used'[k] = used[k] + n BY <1>1, <1>2, <1>3, <1>4, <1>6, <2>1, <2>2, <2>7, <2>8
  <2>9. CASE used'[k] = used[k] /\ callFaults' = callFaults + 1
    BY <1>1, <1>2, <1>3, <1>4, <1>5, <1>6, <2>1, <2>2, <2>7, <2>9
  <2>. QED BY <2>1, <2>8, <2>9
<1>10. CASE Resets(k) BY <1>1, <1>3, <1>4, <1>10 DEF Resets
<1>. QED BY <1>7, <1>8, <1>9, <1>10 DEF Effect

(* What Attempts gives for one counter, before and after a step.           *)
Fits(k) == /\ Cardinality(Owed(k)) <= MaxCost * Cardinality(Pending(k))
           /\ Cardinality(Past(k)) + Cardinality(Pending(k)) <= AtOnce(k) + llmZombies

LEMMA NextReserved ==
    ASSUME LlmTypeOK, LlmTypeOK', callFaults' >= callFaults, llmZombies' >= llmZombies,
           NEW k \in Counters, Covered(k), Reserved(k), Fits(k)', Effect(k)
    PROVE  Reserved(k)'
<1>1. /\ spent[k] \in Nat /\ used[k] \in Nat /\ spent'[k] \in Nat
      /\ callFaults \in Nat /\ callFaults' \in Nat /\ llmZombies \in Nat /\ llmZombies' \in Nat /\ MaxCost \in Nat
  BY Dearest DEF LlmTypeOK
<1>2. Budget(k) \in Nat /\ Budget(k) >= 1 /\ AtOnce(k) \in Nat BY LlmBounds, FiniteCalls DEF Budget, AtOnce
<1>. DEFINE M == MaxCost  B == Budget(k)  A == AtOnce(k)
            p == Cardinality(Past(k))  q == Cardinality(Past(k)')  d == Cardinality(Pending(k)')
            o == Cardinality(Owed(k)')
            K == A + llmZombies + callFaults  L == A + llmZombies' + callFaults'
<1>3. p \in Nat /\ q \in Nat /\ d \in Nat /\ o \in Nat /\ IsFiniteSet(Past(k)) /\ IsFiniteSet(Past(k)')
      /\ Cardinality(Owed(k)) \in Nat
  BY SetsFinite
<1>4. K \in Nat /\ L \in Nat /\ K <= L /\ A + llmZombies' \in Nat BY <1>1, <1>2
<1>5. spent[k] + M * p <= B - 1 + M * K BY DEF Reserved
<1>6. spent[k] <= used[k] + Cardinality(Owed(k)) + M * callFaults BY DEF Covered
<1>7. o <= M * d /\ q + d <= A + llmZombies' BY DEF Fits, AtOnce
<1>. SUFFICES spent'[k] + M * q <= B - 1 + M * L BY DEF Reserved, AtOnce, Budget
<1>8. Past(k)' \subseteq Past(k) => q <= p BY <1>3, FS_Subset
<1>. HIDE DEF p, q, d, o, K, L, A, B
<1>9. M * p \in Nat /\ M * q \in Nat /\ M * K \in Nat /\ M * L \in Nat /\ M * K <= M * L
  BY <1>1, <1>3, <1>4, Times DEF M
<1>10. ASSUME q <= p, spent'[k] = spent[k] PROVE spent'[k] + M * q <= B - 1 + M * L
  <2>1. M * q <= M * p BY <1>1, <1>3, <1>10, Times DEF M
  <2>. QED BY <1>1, <1>2, <1>5, <1>9, <1>10, <2>1 DEF B
<1>11. CASE Spares(k) \/ Settles(k) BY <1>8, <1>10, <1>11 DEF Spares, Settles
<1>12. CASE Enters(k)
  <2>1. PICK x \in Calls : Past(k)' \subseteq Past(k) \cup {x} BY <1>12 DEF Enters
  <2>2. spent'[k] = spent[k] BY <1>12 DEF Enters
  <2>3. CASE callFaults' = callFaults + 1
    <3>1. q <= p + 1
      <4>0. IsFiniteSet(Past(k)) /\ p = Cardinality(Past(k)) /\ p \in Nat BY <1>3 DEF p
      <4>a. /\ IsFiniteSet(Past(k) \cup {x})
            /\ \/ Cardinality(Past(k) \cup {x}) = Cardinality(Past(k))
               \/ Cardinality(Past(k) \cup {x}) = Cardinality(Past(k)) + 1
        BY <4>0, FS_AddElement
      <4>1. IsFiniteSet(Past(k) \cup {x}) /\ Cardinality(Past(k) \cup {x}) <= p + 1
        BY <4>0, <4>a
      <4>2. q <= Cardinality(Past(k) \cup {x}) BY <2>1, <4>1, FS_Subset DEF q
      <4>3. Cardinality(Past(k) \cup {x}) \in Nat BY <4>1, FS_CardinalityType
      <4>. QED BY <1>3, <4>1, <4>2, <4>3
    <3>2. K + 1 <= L BY <1>1, <1>2, <2>3 DEF K, L, A
    <3>3. M * q <= M * p + M
      <4>1. M * q <= M * (p + 1) BY <1>1, <1>3, <3>1, Times DEF M
      <4>2. M * (p + 1) = M * p + M * 1 BY <1>1, <1>3, Times DEF M
      <4>. QED BY <1>1, <1>9, <4>1, <4>2 DEF M
    <3>4. M * K + M <= M * L
      <4>1. M * (K + 1) <= M * L BY <1>1, <1>4, <3>2, Times DEF M
      <4>2. M * (K + 1) = M * K + M * 1 BY <1>1, <1>4, Times DEF M
      <4>. QED BY <1>1, <1>9, <4>1, <4>2 DEF M
    <3>. QED BY <1>1, <1>2, <1>5, <1>9, <2>2, <3>3, <3>4 DEF B, M
  <2>4. CASE used[k] < B
    <3>1. Cardinality(Owed(k)) = o BY <1>12 DEF Enters, o
    <3>2. M * q + M * d <= M * (A + llmZombies')
      <4>1. M * (q + d) <= M * (A + llmZombies') BY <1>1, <1>3, <1>4, <1>7, Times DEF M, A
      <4>. QED BY <1>1, <1>3, <4>1, Times DEF M
    <3>3. M * (A + llmZombies') + M * callFaults' = M * L
      <4>1. L = (A + llmZombies') + callFaults' BY DEF L
      <4>. QED BY <1>1, <1>4, <4>1, Times DEF M
    <3>4. M * callFaults <= M * callFaults' BY <1>1, Times DEF M
    <3>5. /\ M * d \in Nat /\ M * callFaults \in Nat /\ M * callFaults' \in Nat /\ M * (A + llmZombies') \in Nat
      BY <1>1, <1>3, <1>4, Times DEF M
    <3>. QED BY <1>1, <1>2, <1>3, <1>6, <1>7, <1>9, <2>2, <2>4, <3>1, <3>2, <3>3, <3>4, <3>5 DEF B
  <2>. QED BY <1>12, <2>3, <2>4 DEF Enters, B
<1>13. CASE Spends(k)
  <2>1. PICK x \in Past(k), c \in Costs : spent'[k] = spent[k] + c /\ Past(k)' \subseteq Past(k) \ {x}
    BY <1>13 DEF Spends
  <2>2. c \in Nat /\ c <= M BY LlmBounds, Dearest DEF M
  <2>3. q + 1 <= p
    <3>1. IsFiniteSet(Past(k) \ {x}) /\ Cardinality(Past(k) \ {x}) = p - 1 BY <1>3, FS_RemoveElement DEF p
    <3>2. q <= Cardinality(Past(k) \ {x}) BY <2>1, <3>1, FS_Subset DEF q
    <3>. QED BY <1>3, <3>1, <3>2
  <2>4. M * q + M <= M * p
    <3>1. M * (q + 1) <= M * p BY <1>1, <1>3, <2>3, Times DEF M
    <3>2. M * (q + 1) = M * q + M * 1 BY <1>1, <1>3, Times DEF M
    <3>. QED BY <1>1, <1>9, <3>1, <3>2 DEF M
  <2>. QED BY <1>1, <1>2, <1>5, <1>9, <2>1, <2>2, <2>4 DEF B, M
<1>14. CASE Resets(k)
  <2>1. q <= L BY <1>1, <1>3, <1>4, <1>7 DEF L
  <2>2. M * q <= M * L BY <1>1, <1>3, <1>4, <2>1, Times DEF M
  <2>. QED BY <1>1, <1>2, <1>9, <1>14, <2>2 DEF Resets, B
<1>. QED BY <1>11, <1>12, <1>13, <1>14 DEF Effect

(***************************************************************************)
(* Attempts, and what becomes of them before anybody has read a setting or *)
(* when the switch is off.                                                 *)
(***************************************************************************)
Onward(x) == /\ at[x] \notin {"off", "done"} /\ attempt' = attempt
             /\ \E to \in Places \ {"off", "done"} : at' = [at EXCEPT ![x] = to]

LEMMA WhoAttempts ==
    ASSUME LlmTypeOK, [LlmNext]_llmVars
    PROVE  \/ UNCHANGED <<at, attempt>>
           \/ \E h \in Handles : Outlived(h)
           \/ \E h \in Handles, i \in 1 .. MaxCalls : StartCall(h, i)
           \/ \E x \in Calls : Onward(x) \/ (at[x] \notin {"off", "done"} /\ End(x))
<1>1. CASE UNCHANGED llmVars \/ ReadSettings \/ Midnight BY <1>1 DEF llmVars, ReadSettings, Midnight
<1>2. ASSUME NEW x \in Calls, Proceed(x) \/ Returns(x) PROVE Onward(x) \/ (at[x] \notin {"off", "done"} /\ End(x))
  <2>1. CASE CheckAgent(x) BY <2>1 DEF CheckAgent, Goto, Onward, Places
  <2>2. CASE CheckGlobal(x) BY <2>2 DEF CheckGlobal, Goto, Onward, Places
  <2>3. CASE Acquire(x) BY <2>3 DEF Acquire, Goto, Onward, Places
  <2>4. CASE RecordUsage(x) \/ FallBack(x) BY <2>4 DEF RecordUsage, FallBack
  <2>5. CASE Returns(x) BY <2>5 DEF Returns, Answered, CallFails, ParseFails, Goto, Onward, Places
  <2>. QED BY <1>2, <2>1, <2>2, <2>3, <2>4, <2>5 DEF Proceed
<1>. QED BY <1>1, <1>2 DEF LlmNext

LEMMA NextAttempts ==
    ASSUME LlmTypeOK, Attempts, [LlmNext]_llmVars
    PROVE  Attempts'
<1>1. /\ at \in [Calls -> Places] /\ attempt \in [Handles -> Calls \cup {Unset}] /\ Unset \notin Calls
      /\ llmZombies \in Nat
  BY LlmBounds DEF LlmTypeOK, Places
<1>2. \A h \in Handles : attempt[h] # Unset => attempt[h] \in InFlight /\ attempt[h][1] = h BY DEF Attempts
<1>3. GivenUp \subseteq Calls /\ GivenUp' \subseteq Calls BY DEF GivenUp, InFlight
<1>4. /\ IsFiniteSet(GivenUp) /\ Cardinality(GivenUp) \in Nat /\ Cardinality(GivenUp) <= llmZombies
      /\ IsFiniteSet(GivenUp') /\ Cardinality(GivenUp') \in Nat
  BY <1>3, FiniteParts DEF Attempts
<1>5. llmZombies' \in Nat /\ llmZombies' >= llmZombies BY NextUpsets
<1>6. ASSUME GivenUp' \subseteq GivenUp PROVE Cardinality(GivenUp') <= llmZombies'
  <2>1. Cardinality(GivenUp') <= Cardinality(GivenUp) BY <1>4, <1>6, FS_Subset
  <2>. QED BY <1>1, <1>4, <1>5, <2>1
<1>. DEFINE Held == \A h \in Handles : attempt'[h] # Unset => attempt'[h] \in InFlight' /\ attempt'[h][1] = h
<1>7. CASE UNCHANGED <<at, attempt>>
  <2>1. InFlight' = InFlight /\ GivenUp' = GivenUp BY <1>7 DEF InFlight, GivenUp
  <2>. QED BY <1>2, <1>6, <1>7, <2>1 DEF Attempts
<1>8. ASSUME NEW h \in Handles, Outlived(h) PROVE Attempts'
  <2>1. at' = at /\ attempt' = [attempt EXCEPT ![h] = Unset] /\ llmZombies' = llmZombies + 1
    BY <1>8 DEF Outlived
  <2>2. InFlight' = InFlight BY <2>1 DEF InFlight
  <2>3. Held BY <1>1, <1>2, <2>1, <2>2
  <2>4. PICK z : z = attempt[h] OBVIOUS
  <2>5. GivenUp' \subseteq GivenUp \cup {z}
    <3>. SUFFICES ASSUME NEW y \in GivenUp', y # z PROVE y \in GivenUp OBVIOUS
    <3>1. y \in InFlight /\ y \in Calls /\ attempt'[y[1]] # y BY <2>2 DEF GivenUp, InFlight
    <3>2. y[1] \in Handles BY <3>1, CallOf
    <3>3. attempt[y[1]] # y BY <1>1, <2>1, <2>4, <3>1, <3>2
    <3>. QED BY <3>1, <3>3 DEF GivenUp
  <2>6. IsFiniteSet(GivenUp \cup {z}) /\ Cardinality(GivenUp \cup {z}) <= Cardinality(GivenUp) + 1
    <3>. DEFINE G == GivenUp
    <3>1. IsFiniteSet(G) /\ Cardinality(G) \in Nat BY <1>4
    <3>. HIDE DEF G
    <3>2. IsFiniteSet(G \cup {z}) /\ (Cardinality(G \cup {z}) = Cardinality(G) \/ Cardinality(G \cup {z}) = Cardinality(G) + 1)
      BY <3>1, FS_AddElement
    <3>3. Cardinality(G \cup {z}) <= Cardinality(G) + 1 BY <3>1, <3>2
    <3>. QED BY <3>2, <3>3 DEF G
  <2>7. Cardinality(GivenUp') <= Cardinality(GivenUp \cup {z}) BY <2>5, <2>6, FS_Subset
  <2>8. Cardinality(GivenUp \cup {z}) \in Nat BY <2>6, FS_CardinalityType
  <2>9. Cardinality(GivenUp') <= llmZombies' BY <1>1, <1>4, <2>1, <2>6, <2>7, <2>8
  <2>. QED BY <2>3, <2>9 DEF Attempts
<1>9. ASSUME NEW h \in Handles, NEW i \in 1 .. MaxCalls, StartCall(h, i) PROVE Attempts'
  <2>1. PICK x : x = <<h, i>> OBVIOUS
  <2>2. x \in Calls /\ x[1] = h BY <2>1 DEF Calls
  <2>3. /\ attempt[h] = Unset /\ attempt' = [attempt EXCEPT ![h] = x]
        /\ at'[x] \notin {"off", "done"} /\ \A y \in Calls \ {x} : at'[y] = at[y]
    BY <1>1, <1>9, <2>1, <2>2 DEF StartCall, Goto
  <2>4. x \in InFlight' /\ \A y \in InFlight : y \in InFlight' BY <2>2, <2>3 DEF InFlight
  <2>5. Held BY <1>1, <1>2, <2>2, <2>3, <2>4
  <2>6. GivenUp' \subseteq GivenUp
    <3>. SUFFICES ASSUME NEW y \in GivenUp' PROVE y \in GivenUp OBVIOUS
    <3>1. y \in Calls /\ at'[y] \notin {"off", "done"} /\ attempt'[y[1]] # y BY DEF GivenUp, InFlight
    <3>2. y[1] \in Handles /\ y # x BY <1>1, <2>2, <2>3, <3>1, CallOf
    <3>3. attempt[y[1]] # y BY <1>1, <2>3, <3>1, <3>2
    <3>. QED BY <2>3, <3>1, <3>2, <3>3 DEF GivenUp, InFlight
  <2>. QED BY <1>6, <2>5, <2>6 DEF Attempts
<1>10. ASSUME NEW x \in Calls, Onward(x) PROVE Attempts'
  <2>1. InFlight' = InFlight
    <3>1. \A y \in Calls : at'[y] \in {"off", "done"} <=> at[y] \in {"off", "done"} BY <1>1, <1>10 DEF Onward, Places
    <3>. QED BY <3>1 DEF InFlight
  <2>2. attempt' = attempt BY <1>10 DEF Onward
  <2>3. GivenUp' = GivenUp BY <2>1, <2>2 DEF GivenUp
  <2>. QED BY <1>2, <1>6, <2>1, <2>2, <2>3 DEF Attempts
<1>11. ASSUME NEW x \in Calls, at[x] \notin {"off", "done"}, End(x) PROVE Attempts'
  <2>1. /\ at' = [at EXCEPT ![x] = "done"] /\ x[1] \in Handles
        /\ attempt' = [attempt EXCEPT ![x[1]] = IF @ = x THEN Unset ELSE @]
    BY <1>11, CallOf DEF End, Goto
  <2>2. PICK g : g = x[1] OBVIOUS
  <2>3. /\ \A h \in Handles : h # g => attempt'[h] = attempt[h]
        /\ attempt[g] = x => attempt'[g] = Unset
        /\ attempt[g] # x => attempt'[g] = attempt[g]
    BY <1>1, <2>1, <2>2
  <2>4. InFlight' = InFlight \ {x} BY <1>1, <2>1 DEF InFlight
  <2>5. Held
    <3>. SUFFICES ASSUME NEW h \in Handles, attempt'[h] # Unset
                  PROVE  attempt'[h] \in InFlight' /\ attempt'[h][1] = h
      OBVIOUS
    <3>1. attempt'[h] = attempt[h] BY <2>1, <2>2, <2>3
    <3>2. attempt[h] # x BY <1>2, <2>1, <2>2, <2>3, <3>1
    <3>. QED BY <1>2, <2>4, <3>1, <3>2
  <2>6. GivenUp' \subseteq GivenUp
    <3>. SUFFICES ASSUME NEW y \in GivenUp' PROVE y \in GivenUp OBVIOUS
    <3>1. y \in InFlight /\ y # x /\ y \in Calls /\ attempt'[y[1]] # y BY <2>4 DEF GivenUp, InFlight
    <3>2. y[1] \in Handles BY <3>1, CallOf
    <3>3. attempt[y[1]] # y BY <2>1, <2>2, <2>3, <3>1, <3>2
    <3>. QED BY <3>1, <3>3 DEF GivenUp
  <2>. QED BY <1>6, <2>5, <2>6 DEF Attempts
<1>. QED BY <1>7, <1>8, <1>9, <1>10, <1>11, WhoAttempts

LEMMA NextStarted ==
    ASSUME LlmTypeOK, Started, [LlmNext]_llmVars
    PROVE  Started'
<1>1. at \in [Calls -> Places] BY DEF LlmTypeOK, Places
<1>2. ASSUME ReadSettings PROVE Started'
  BY <1>2, LlmBounds DEF ReadSettings, Started, Untouched
<1>3. ASSUME UNCHANGED <<cfg, at, waiting, spent>> PROVE Started' BY <1>3 DEF Started, Untouched
<1>4. ASSUME Midnight PROVE Started'
  <2>1. UNCHANGED <<cfg, at, waiting>> /\ spent'["global"] = 0 BY <1>4 DEF Midnight, Zero, Counters
  <2>. QED BY <2>1 DEF Started, Untouched
<1>5. ASSUME NEW h \in Handles, NEW i \in 1 .. MaxCalls, StartCall(h, i) PROVE Started'
  <2>1. cfg # Unset /\ UNCHANGED <<cfg, waiting, spent>> BY <1>5 DEF StartCall
  <2>2. ASSUME ~cfg.llm_enabled PROVE \A x \in Calls : at'[x] = at[x] \/ at'[x] = "fallback"
    <3>1. api_key(cfg) = "" BY <2>2 DEF api_key
    <3>. QED BY <1>1, <1>5, <3>1 DEF StartCall, Goto
  <2>. QED BY <2>1, <2>2 DEF Started, Untouched
<1>6. ASSUME NEW x \in Calls, Proceed(x) \/ Returns(x) PROVE Started'
  <2>1. at[x] \in {"agent", "global", "queue", "call", "record", "fallback"} /\ cfg' = cfg
    BY <1>6 DEF Proceed, Returns, CheckAgent, CheckGlobal, Acquire, RecordUsage, FallBack, Answered, CallFails, ParseFails
  <2>2. cfg # Unset BY <2>1 DEF Started
  <2>3. ASSUME ~cfg.llm_enabled
        PROVE  /\ UNCHANGED <<waiting, spent>>
               /\ \A y \in Calls : at'[y] = at[y] \/ at'[y] = "done"
    <3>1. at[x] = "fallback" BY <2>1, <2>2, <2>3 DEF Started
    <3>2. FallBack(x)
      BY <1>6, <3>1 DEF Proceed, Returns, CheckAgent, CheckGlobal, Acquire, RecordUsage, Answered, CallFails, ParseFails
    <3>. QED BY <1>1, <3>2 DEF FallBack, End, Goto
  <2>. QED BY <2>1, <2>2, <2>3 DEF Started, Untouched
<1>7. ASSUME UNCHANGED llmVars \/ \E h \in Handles : Outlived(h) PROVE Started'
  BY <1>3, <1>7 DEF llmVars, Outlived
<1>. QED BY <1>2, <1>4, <1>5, <1>6, <1>7 DEF LlmNext

-----------------------------------------------------------------------------
LEMMA InitLlm == LlmInit => LlmInv
<1>. SUFFICES ASSUME LlmInit PROVE LlmInv OBVIOUS
<1>1. Zero \in [Counters -> Nat] /\ \A k \in Counters : Zero[k] = 0 BY DEF Zero
<1>2. LlmTypeOK BY <1>1, LlmBounds DEF LlmInit, LlmTypeOK, Upsets
<1>3. \A x \in Calls : at[x] = "off" BY DEF LlmInit
<1>4. Attempts
  <2>1. GivenUp = {} BY <1>3 DEF GivenUp, InFlight
  <2>2. Cardinality(GivenUp) = 0 BY <2>1, FS_EmptySet
  <2>. QED BY <2>2 DEF Attempts, LlmInit
<1>5. Started BY <1>1, <1>3 DEF Started, Untouched, LlmInit, Counters
<1>6. Dates BY DEF Dates, LlmInit
<1>7. ASSUME NEW k \in Counters PROVE Covered(k) /\ Reserved(k)
  <2>1. spent[k] = 0 /\ used[k] = 0 /\ callFaults = 0 /\ llmZombies = 0 BY <1>1 DEF LlmInit
  <2>2. Past(k) = {} BY <1>3 DEF Past, Mine, Beyond, Looks
  <2>3. Cardinality(Past(k)) = 0 BY <2>2, FS_EmptySet
  <2>4. Cardinality(Owed(k)) \in Nat BY <1>2, SetsFinite
  <2>5. Budget(k) \in Nat /\ Budget(k) >= 1 /\ AtOnce(k) \in Nat BY LlmBounds, FiniteCalls DEF Budget, AtOnce
  <2>6. MaxCost * callFaults = 0 /\ MaxCost * 0 = 0 BY <2>1, Dearest
  <2>7. MaxCost * (AtOnce(k) + llmZombies + callFaults) \in Nat BY <2>1, <2>5, Dearest, Times
  <2>8. Covered(k) BY <2>1, <2>4, <2>6 DEF Covered
  <2>9. Reserved(k) BY <2>1, <2>3, <2>5, <2>6, <2>7 DEF Reserved
  <2>. QED BY <2>8, <2>9
<1>. QED BY <1>2, <1>4, <1>5, <1>6, <1>7 DEF LlmInv

AllFit == \A k \in Counters : Fits(k)

LEMMA AttemptsFit == LlmTypeOK /\ Attempts => AllFit
<1>. SUFFICES ASSUME LlmTypeOK, Attempts, NEW k \in Counters PROVE Fits(k) BY DEF AllFit
<1>. QED BY OwedBounded, PastAndPending DEF Fits

(* What does not need to know how many attempts there can be.              *)
LEMMA NextFoundations ==
    LlmInv /\ [LlmNext]_llmVars => LlmTypeOK' /\ Attempts' /\ Started' /\ Dates' /\ \A k \in Counters : Covered(k)'
<1>. SUFFICES ASSUME LlmInv, [LlmNext]_llmVars
              PROVE  LlmTypeOK' /\ Attempts' /\ Started' /\ Dates' /\ \A k \in Counters : Covered(k)'
  OBVIOUS
<1>1. LlmTypeOK' /\ Dates' BY NextLlmTypes DEF LlmInv
<1>. QED BY <1>1, NextAttempts, NextStarted, NextEffect, NextCovered, NextUpsets DEF LlmInv

LEMMA NextReserves ==
    LlmInv /\ [LlmNext]_llmVars /\ LlmTypeOK' /\ AllFit' => \A k \in Counters : Reserved(k)'
<1>. SUFFICES ASSUME LlmInv, [LlmNext]_llmVars, LlmTypeOK', AllFit', NEW k \in Counters PROVE Reserved(k)'
  OBVIOUS
<1>1. Fits(k)' BY DEF AllFit, Fits
<1>. QED BY <1>1, NextEffect, NextReserved, NextUpsets DEF LlmInv

LEMMA SpendingFollows == LlmInv => SpendingInv
<1>. SUFFICES ASSUME LlmInv PROVE SpendingInv OBVIOUS
<1>1. ASSUME NEW k \in Counters PROVE spent[k] <= Budget(k) - 1 + Slack(AtOnce(k))
  <2>1. Reserved(k) /\ Cardinality(Past(k)) \in Nat BY SetsFinite DEF LlmInv
  <2>2. MaxCost * Cardinality(Past(k)) \in Nat BY <2>1, Dearest, Times
  <2>3. spent[k] \in Nat /\ callFaults \in Nat /\ llmZombies \in Nat BY DEF LlmInv, LlmTypeOK
  <2>4. AtOnce(k) \in Nat /\ Budget(k) \in Nat BY LlmBounds, FiniteCalls DEF AtOnce, Budget
  <2>5. MaxCost * (AtOnce(k) + llmZombies + callFaults) \in Nat BY <2>3, <2>4, Dearest, Times
  <2>. QED BY <2>1, <2>2, <2>3, <2>4, <2>5 DEF Reserved, Slack
<1>2. OvershootBounded
  <2>1. spent["global"] <= GlobalBudget - 1 + Slack(Cardinality(Handles))
    BY <1>1 DEF Budget, AtOnce, Counters
  <2>2. ASSUME NEW h \in Handles PROVE spent[h] <= AgentBudget - 1 + Slack(1)
    BY <1>1, LlmBounds DEF Budget, AtOnce, Counters
  <2>. QED BY <2>1, <2>2 DEF OvershootBounded
<1>3. KillSwitch BY DEF KillSwitch, LlmInv, Started, Untouched, Calling
<1>. QED BY <1>2, <1>3 DEF LlmInv, SpendingInv

(* However many calls overlap, outlive their timeout or meet a midnight, a *)
(* day's tokens exceed a budget by at most one call for each that can be   *)
(* past the look-up, for each Redis command that failed and for each       *)
(* answer that could not be parsed; LLM_ENABLED=false spends none.         *)
THEOREM SpendingIsBounded == LlmSpec => []SpendingInv
<1>1. LlmInv => AllFit BY AttemptsFit DEF LlmInv
<1>2. LlmTypeOK' /\ Attempts' => AllFit'
  <2>1. LlmTypeOK /\ Attempts => AllFit BY AttemptsFit
  <2>. QED BY <2>1, PTL
<1>3. LlmInv /\ [LlmNext]_llmVars => LlmInv'
  BY <1>2, NextFoundations, NextReserves DEF LlmInv
<1>. QED BY <1>3, InitLlm, SpendingFollows, PTL DEF LlmSpec

-----------------------------------------------------------------------------
(***************************************************************************)
(* MarketHours.  The cache is the calendar of a time not far back, a       *)
(* coroutine has not asked long ago, and five days around any such time    *)
(* hold every session an answer can turn on.                               *)
(***************************************************************************)
Cached  == \/ fetched_at = NoTime /\ sessions = {}
           \/ fetched_at \in Nat /\ fetched_at <= utc /\ sessions = Calendar(fetched_at)
Asked   == \A c \in Askers : asker[c].at # "idle" =>
              asker[c].when \in Nat /\ asker[c].when <= utc /\ utc <= asker[c].when + MaxWait
Fetches == \A c \in Askers : asker[c].at = "fetch" =>
              /\ fetch_from \in Nat /\ asker[c].when <= fetch_from /\ fetch_from <= utc
              /\ \A d \in Askers : asker[d].at = "fetch" => d = c

Asker   == [at : {"idle", "wait", "fetch"}, kind : {"active", "closed"}, when : Nat \cup {NoTime}]
HoursInv == /\ utc \in Nat /\ asker \in [Askers -> Asker] /\ Cached /\ Asked /\ Fetches
            /\ AnswersAreTrue

LEMMA HoursBounds ==
    /\ DayLen \in Nat /\ OpenAt \in Nat /\ CloseAt \in Nat /\ EtLag \in Nat /\ Buffer \in Nat
    /\ Ttl \in Nat /\ MaxWait \in Nat /\ LastMoment \in Nat /\ DayLen > 0
    /\ OpenAt < CloseAt /\ CloseAt < DayLen /\ EtLag < OpenAt
    /\ TradingDays \subseteq Int /\ NoTime \notin Int /\ Buffer + Ttl + MaxWait <= DayLen
BY HoursAssumption

LEMMA DayBounds ==
    ASSUME NEW t \in Int
    PROVE  t \div DayLen \in Int /\ (t \div DayLen) * DayLen <= t /\ t < (t \div DayLen) * DayLen + DayLen
<1>1. ASSUME NEW D \in Nat, D > 0 PROVE t \div D \in Int /\ D * (t \div D) <= t /\ t < D * (t \div D) + D
  BY <1>1
<1>2. \A a \in Int : a * DayLen = DayLen * a BY HoursBounds
<1>. QED BY <1>1, <1>2, HoursBounds

LEMMA Days ==
    ASSUME NEW a \in Int, NEW b \in Int
    PROVE  /\ a * DayLen \in Int
           /\ a * DayLen < b * DayLen => a < b
           /\ (a + 1) * DayLen = a * DayLen + DayLen
           /\ (a - 2) * DayLen = a * DayLen - DayLen - DayLen
           /\ (a + 3) * DayLen = a * DayLen + DayLen + DayLen + DayLen
<1>1. ASSUME NEW D \in Nat
      PROVE  /\ a * D \in Int /\ (a * D < b * D => a < b) /\ (a + 1) * D = a * D + D
             /\ (a - 2) * D = a * D - D - D /\ (a + 3) * D = a * D + D + D + D
  <2>1. a * D \in Int /\ (a + 1) * D = a * D + D BY <1>1
  <2>2. (a - 2) * D = a * D - D - D BY <1>1
  <2>3. (a + 3) * D = a * D + D + D + D BY <1>1
  <2>4. a * D < b * D => a < b BY <1>1
  <2>. QED BY <2>1, <2>2, <2>3, <2>4
<1>. QED BY <1>1, HoursBounds

LEMMA InCalendar ==
    ASSUME NEW t \in Int, NEW d \in TradingDays,
           (d - 2) * DayLen <= t - EtLag, t - EtLag < (d + 3) * DayLen
    PROVE  d \in Calendar(t)
<1>. DEFINE today == (t - EtLag) \div DayLen
<1>1. d \in Int /\ EtLag \in Nat /\ DayLen \in Nat BY HoursBounds
<1>2. today \in Int /\ today * DayLen <= t - EtLag /\ t - EtLag < today * DayLen + DayLen
  BY <1>1, DayBounds
<1>. HIDE DEF today
<1>3. today < d + 3
  <2>1. today * DayLen < (d + 3) * DayLen BY <1>1, <1>2, Days
  <2>. QED BY <1>1, <1>2, <2>1, Days
<1>4. d - 2 < today + 1
  <2>1. (d - 2) * DayLen < (today + 1) * DayLen BY <1>1, <1>2, Days
  <2>. QED BY <1>1, <1>2, <2>1, Days
<1>5. d \in TradingDays \cap (today - 2 .. today + 2) BY <1>1, <1>2, <1>3, <1>4
<1>. QED BY <1>5 DEF Calendar, today

(* Who looks at a calendar not older than a request and the cache's age    *)
(* sees every session it could be in.                                      *)
LEMMA Awake ==
    ASSUME NEW t \in Nat, NEW u \in Nat, t <= u, u <= t + Ttl + MaxWait, within(TradingDays, u)
    PROVE  within(Calendar(t), u)
<1>1. PICK d \in TradingDays : Opening(d) - Buffer <= u /\ u <= Closing(d) + Buffer BY DEF within
<1>2. d \in Int BY HoursBounds
<1>3. d * DayLen \in Int BY <1>2, Days
<1>4. d * DayLen + OpenAt - Buffer <= u /\ u <= d * DayLen + CloseAt + Buffer
  <2>1. Opening(d) = d * DayLen + OpenAt /\ Closing(d) = d * DayLen + CloseAt BY DEF Opening, Closing
  <2>. QED BY <1>1, <1>3, <2>1, HoursBounds
<1>5. d * DayLen - DayLen - DayLen <= t - EtLag BY <1>3, <1>4, HoursBounds
<1>6. t - EtLag < d * DayLen + DayLen + DayLen + DayLen BY <1>3, <1>4, HoursBounds
<1>7. d \in Calendar(t) BY <1>2, <1>5, <1>6, Days, InCalendar
<1>. QED BY <1>1, <1>7 DEF within

LEMMA Closed ==
    ASSUME NEW t \in Nat, NEW w \in Nat, w <= t + Ttl + MaxWait, t <= w + Ttl + MaxWait
    PROVE  closed_today(Calendar(t), w) <=> Date(w) \in TradingDays /\ Closing(Date(w)) <= w
<1>1. \A d \in TradingDays : d \in Int /\ Date(Closing(d)) = d
  <2>. SUFFICES ASSUME NEW d \in TradingDays PROVE d \in Int /\ Date(Closing(d)) = d OBVIOUS
  <2>1. ASSUME NEW D \in Nat, NEW r \in 0 .. D - 1, NEW e \in Int PROVE (e * D + r) \div D = e BY <2>1
  <2>2. CloseAt \in 0 .. DayLen - 1 /\ DayLen \in Nat /\ d \in Int BY HoursBounds
  <2>. QED BY <2>1, <2>2 DEF Date, Closing
<1>2. Calendar(t) \subseteq TradingDays BY DEF Calendar
<1>3. ASSUME Date(w) \in TradingDays PROVE Date(w) \in Calendar(t)
  <2>. DEFINE d == Date(w)
  <2>1. d \in Int /\ d * DayLen <= w /\ w < d * DayLen + DayLen BY DayBounds DEF Date
  <2>. HIDE DEF d
  <2>2. d * DayLen \in Int BY <2>1, Days
  <2>3. d * DayLen - DayLen - DayLen <= t - EtLag BY <2>1, <2>2, HoursBounds
  <2>4. t - EtLag < d * DayLen + DayLen + DayLen + DayLen BY <2>1, <2>2, HoursBounds
  <2>5. d \in TradingDays BY <1>3 DEF d
  <2>6. d \in Calendar(t) BY <2>1, <2>3, <2>4, <2>5, Days, InCalendar
  <2>. QED BY <2>6 DEF d
<1>. QED BY <1>1, <1>2, <1>3 DEF closed_today

LEMMA Truthful ==
    ASSUME NEW kind \in {"active", "closed"}, NEW S, NEW when, NEW failed \in BOOLEAN,
           said' = Says(kind, S, when, failed),
           ~failed => /\ within(TradingDays, utc) => within(S, utc)
                      /\ closed_today(S, when) <=> Date(when) \in TradingDays /\ Closing(Date(when)) <= when
    PROVE  AnswersAreTrue'
<1>1. CASE kind = "active"
  <2>1. said'.kind = "active" /\ said'.when = utc /\ (said'.value <=> failed \/ within(S, utc))
    BY <1>1 DEF Says
  <2>2. ~said'.value => ~within(TradingDays, said'.when) BY <2>1
  <2>. QED BY <2>1, <2>2 DEF AnswersAreTrue, SleepsOnlyOutside, ClosedIsClosed
<1>2. CASE kind = "closed"
  <2>1. /\ said'.kind = "closed" /\ said'.when = when /\ (said'.failed <=> failed)
        /\ said'.value <=> ~failed /\ closed_today(S, when)
    BY <1>2 DEF Says
  <2>2. said'.value <=> ~said'.failed /\ Date(said'.when) \in TradingDays /\ Closing(Date(said'.when)) <= said'.when
    BY <2>1
  <2>. QED BY <2>1, <2>2 DEF AnswersAreTrue, SleepsOnlyOutside, ClosedIsClosed
<1>. QED BY <1>1, <1>2

(* An answer out of the cache, or of the calendar just fetched.            *)
LEMMA CalendarAnswers ==
    ASSUME utc \in Nat, NEW kind \in {"active", "closed"}, NEW t \in Nat, NEW when \in Nat,
           t <= utc, when <= utc, utc <= when + MaxWait, utc < t + Ttl \/ when <= t,
           said' = Says(kind, Calendar(t), when, FALSE)
    PROVE  AnswersAreTrue'
<1>1. utc <= t + Ttl + MaxWait BY HoursBounds
<1>2. when <= t + Ttl + MaxWait /\ t <= when + Ttl + MaxWait BY <1>1, HoursBounds
<1>. QED BY <1>1, <1>2, Awake, Closed, Truthful

LEMMA NextHours == HoursInv /\ [HoursNext]_hoursVars => HoursInv'
<1>. SUFFICES ASSUME HoursInv, [HoursNext]_hoursVars PROVE HoursInv' OBVIOUS
<1>1. utc \in Nat /\ asker \in [Askers -> Asker] /\ Cached /\ Asked /\ Fetches /\ AnswersAreTrue
  BY DEF HoursInv
<1>2. \A c \in Askers : asker[c].kind \in {"active", "closed"} /\ Quiet \in Asker BY <1>1 DEF Asker, Quiet
<1>3. ASSUME CacheFresh
      PROVE  fetched_at \in Nat /\ fetched_at <= utc /\ utc < fetched_at + Ttl /\ sessions = Calendar(fetched_at)
  BY <1>1, <1>3, HoursBounds DEF CacheFresh, Cached
<1>4. ASSUME UNCHANGED said PROVE AnswersAreTrue'
  BY <1>1, <1>4 DEF AnswersAreTrue, SleepsOnlyOutside, ClosedIsClosed
<1>5. ASSUME UNCHANGED hoursVars PROVE HoursInv'
  BY <1>1, <1>4, <1>5 DEF hoursVars, HoursInv, Cached, Asked, Fetches
<1>6. ASSUME Passes PROVE HoursInv'
  <2>1. /\ utc' = utc + 1 /\ said' = Unasked /\ UNCHANGED <<sessions, fetched_at, fetch_from, asker>>
        /\ \A c \in Askers : asker[c].at # "idle" => utc < asker[c].when + MaxWait
    BY <1>6 DEF Passes
  <2>2. AnswersAreTrue' BY <2>1 DEF AnswersAreTrue, SleepsOnlyOutside, ClosedIsClosed, Unasked
  <2>3. Cached' BY <1>1, <2>1 DEF Cached
  <2>4. Asked' BY <1>1, <2>1, HoursBounds DEF Asked
  <2>5. Fetches' BY <1>1, <2>1 DEF Fetches
  <2>. QED BY <1>1, <2>1, <2>2, <2>3, <2>4, <2>5 DEF HoursInv
<1>7. ASSUME NEW c \in Askers, Ask(c) PROVE HoursInv'
  <2>1. asker[c].at = "idle" /\ UNCHANGED <<utc, sessions, fetched_at, fetch_from>> BY <1>7 DEF Ask
  <2>2. PICK kind \in {"active", "closed"} :
          IF CacheFresh THEN said' = Says(kind, sessions, utc, FALSE) /\ UNCHANGED asker
          ELSE asker' = [asker EXCEPT ![c] = [at |-> "wait", kind |-> kind, when |-> utc]] /\ UNCHANGED said
    BY <1>7 DEF Ask
  <2>3. Cached' BY <1>1, <2>1 DEF Cached
  <2>4. CASE CacheFresh
    <3>1. AnswersAreTrue'
      <4>1. PICK t, now : t = fetched_at /\ now = utc OBVIOUS
      <4>2. t \in Nat /\ now \in Nat /\ t <= now /\ now < t + Ttl /\ now <= now + MaxWait
        BY <1>1, <1>3, <2>4, <4>1, HoursBounds
      <4>3. said' = Says(kind, Calendar(t), now, FALSE) BY <1>3, <2>2, <2>4, <4>1
      <4>4. utc \in Nat /\ t <= utc /\ now <= utc /\ utc <= now + MaxWait /\ (utc < t + Ttl \/ now <= t)
        BY <4>1, <4>2
      <4>. QED BY <4>2, <4>3, <4>4, CalendarAnswers
    <3>2. Asked' /\ Fetches' BY <1>1, <2>1, <2>2, <2>4 DEF Asked, Fetches
    <3>. QED BY <1>1, <2>1, <2>2, <2>3, <2>4, <3>1, <3>2 DEF HoursInv
  <2>5. CASE ~CacheFresh
    <3>1. /\ asker' \in [Askers -> Asker] /\ asker'[c].at = "wait" /\ asker'[c].when = utc
          /\ \A d \in Askers \ {c} : asker'[d] = asker[d]
      BY <1>1, <2>2, <2>5 DEF Asker
    <3>2. Asked' BY <1>1, <2>1, <3>1, HoursBounds DEF Asked
    <3>3. Fetches' BY <1>1, <2>1, <3>1 DEF Fetches
    <3>. QED BY <1>1, <1>4, <2>1, <2>2, <2>3, <2>5, <3>1, <3>2, <3>3 DEF HoursInv
  <2>. QED BY <2>4, <2>5
<1>8. ASSUME NEW c \in Askers, asker' = [asker EXCEPT ![c] = Quiet], utc' = utc,
             fetch_from' = fetch_from \/ asker[c].at = "fetch"
      PROVE  asker' \in [Askers -> Asker] /\ Asked' /\ Fetches'
  <2>1. asker' \in [Askers -> Asker] /\ asker'[c].at = "idle" /\ \A d \in Askers \ {c} : asker'[d] = asker[d]
    BY <1>1, <1>2, <1>8 DEF Quiet
  <2>2. Asked' BY <1>1, <1>8, <2>1 DEF Asked
  <2>3. Fetches' BY <1>1, <1>8, <2>1 DEF Fetches
  <2>. QED BY <2>1, <2>2, <2>3
<1>9. ASSUME NEW c \in Askers, Enter(c) PROVE HoursInv'
  <2>1. /\ asker[c].at = "wait" /\ \A d \in Askers : asker[d].at # "fetch"
        /\ UNCHANGED <<utc, sessions, fetched_at>>
    BY <1>9 DEF Enter
  <2>2. asker[c].when \in Nat /\ asker[c].when <= utc /\ utc <= asker[c].when + MaxWait BY <1>1, <2>1 DEF Asked
  <2>3. Cached' BY <1>1, <2>1 DEF Cached
  <2>4. CASE CacheFresh
    <3>1. /\ said' = Says(asker[c].kind, sessions, asker[c].when, FALSE)
          /\ asker' = [asker EXCEPT ![c] = Quiet] /\ UNCHANGED fetch_from
      BY <1>9, <2>4 DEF Enter, Done
    <3>2. AnswersAreTrue' BY <1>1, <1>2, <1>3, <2>2, <2>4, <3>1, CalendarAnswers
    <3>3. asker' \in [Askers -> Asker] /\ Asked' /\ Fetches' BY <1>8, <2>1, <3>1
    <3>. QED BY <1>1, <2>1, <2>3, <3>2, <3>3 DEF HoursInv
  <2>5. CASE ~CacheFresh
    <3>1. asker' = [asker EXCEPT ![c].at = "fetch"] /\ fetch_from' = utc /\ UNCHANGED said
      BY <1>9, <2>5 DEF Enter
    <3>2. /\ asker' \in [Askers -> Asker] /\ asker'[c].at = "fetch" /\ asker'[c].when = asker[c].when
          /\ \A d \in Askers \ {c} : asker'[d] = asker[d]
      BY <1>1, <3>1 DEF Asker
    <3>3. Asked' BY <1>1, <2>1, <2>2, <3>2 DEF Asked
    <3>4. Fetches' BY <1>1, <2>1, <2>2, <3>1, <3>2 DEF Fetches
    <3>. QED BY <1>1, <1>4, <2>1, <2>3, <3>1, <3>2, <3>3, <3>4 DEF HoursInv
  <2>. QED BY <2>4, <2>5
<1>10. ASSUME NEW c \in Askers, Fetched(c) PROVE HoursInv'
  <2>1. /\ asker[c].at = "fetch" /\ sessions' = Calendar(fetch_from) /\ fetched_at' = fetch_from
        /\ said' = Says(asker[c].kind, Calendar(fetch_from), asker[c].when, FALSE)
        /\ asker' = [asker EXCEPT ![c] = Quiet] /\ utc' = utc
    BY <1>10 DEF Fetched, Done
  <2>2. PICK t : t = fetch_from OBVIOUS
  <2>3. /\ t \in Nat /\ asker[c].when <= t /\ t <= utc
        /\ asker[c].when \in Nat /\ asker[c].when <= utc /\ utc <= asker[c].when + MaxWait
    BY <1>1, <2>1, <2>2 DEF Fetches, Asked
  <2>4. AnswersAreTrue' BY <1>1, <1>2, <2>1, <2>2, <2>3, CalendarAnswers
  <2>5. Cached' BY <1>1, <2>1, <2>2, <2>3 DEF Cached
  <2>6. asker' \in [Askers -> Asker] /\ Asked' /\ Fetches' BY <1>8, <2>1
  <2>. QED BY <1>1, <2>1, <2>4, <2>5, <2>6 DEF HoursInv
<1>11. ASSUME NEW c \in Askers, FetchFails(c) PROVE HoursInv'
  <2>1. /\ asker[c].at = "fetch" /\ said' = Says(asker[c].kind, sessions, asker[c].when, TRUE)
        /\ asker' = [asker EXCEPT ![c] = Quiet] /\ UNCHANGED <<utc, sessions, fetched_at>>
    BY <1>11 DEF FetchFails, Done
  <2>2. AnswersAreTrue' BY <1>2, <2>1, Truthful
  <2>3. Cached' BY <1>1, <2>1 DEF Cached
  <2>4. asker' \in [Askers -> Asker] /\ Asked' /\ Fetches' BY <1>8, <2>1
  <2>. QED BY <1>1, <2>1, <2>2, <2>3, <2>4 DEF HoursInv
<1>. QED BY <1>5, <1>6, <1>7, <1>9, <1>10, <1>11 DEF HoursNext, Asking

(* For any calendar, buffer and age of the cache that fit a day: an agent  *)
(* is told to sleep only outside every session and its buffer, and today's *)
(* session is called closed exactly when it is.                            *)
THEOREM HoursAreTrue == HoursSpec => []AnswersAreTrue
<1>1. HoursInit => HoursInv
  BY HoursBounds DEF HoursInit, HoursInv, Cached, Asked, Fetches, Asker, Quiet, Unasked,
     AnswersAreTrue, SleepsOnlyOutside, ClosedIsClosed
<1>2. HoursInv => AnswersAreTrue BY DEF HoursInv
<1>. QED BY <1>1, <1>2, NextHours, PTL DEF HoursSpec

-----------------------------------------------------------------------------
(***************************************************************************)
(* IngestSupervisor.  The run that is watched is a task, the one that is   *)
(* stalled is closing: cancelling it takes it off the count.               *)
(***************************************************************************)
Watched  == /\ sup = "watch" => feed[run] # "none"
            /\ sup = "stalled" => feed[run] = "closing"

(* Unless backfill has written, Redis holds what the stream wrote last, or *)
(* something younger, until it is old.                                     *)
Kept     == backfills = 0 /\ lastQuote # None =>
              lastQuote = Old \/ \E s \in Crypto : quoteAge[s] # None /\ quoteAge[s] <= lastQuote
FeedIInv == FeedInv /\ Watched /\ Kept

LEMMA IngestBounds ==
    /\ MaxSilence \in Nat /\ HealthStale \in Nat /\ DeadmanStale \in Nat /\ MaxSilence < DeadmanStale
    /\ MaxProbeFailures \in Nat /\ MaxBackfills \in Nat /\ None \notin Int
    /\ Old \in Nat /\ Old > HealthStale /\ Old > DeadmanStale /\ Old > MaxSilence
<1>1. /\ MaxSilence \in Nat /\ HealthStale \in Nat /\ DeadmanStale \in Nat /\ MaxSilence < DeadmanStale
      /\ MaxProbeFailures \in Nat /\ MaxBackfills \in Nat /\ None \notin Int
  BY IngestAssumption
<1>. DEFINE S == {HealthStale, DeadmanStale}
<1>2. \E m \in S : \A y \in S : m >= y BY <1>1
<1>3. Max(S) \in S /\ \A y \in S : Max(S) >= y BY <1>2 DEF Max
<1>4. Max(S) \in Nat /\ Max(S) >= HealthStale /\ Max(S) >= DeadmanStale BY <1>1, <1>3
<1>. HIDE DEF S
<1>5. Old = Max(S) + 1 BY DEF Old, S
<1>. QED BY <1>1, <1>4, <1>5

LEMMA LeastOf ==
    ASSUME NEW S \in SUBSET Nat, S # {}
    PROVE  Min(S) \in S /\ \A y \in S : Min(S) <= y
<1>. DEFINE R == OpToRel(<, Nat)
<1>1. \A x, y \in Nat : y < x => <<y, x>> \in R BY DEF OpToRel
<1>2. IsWellFoundedOn(R, Nat) BY NatLessThanWellFounded, Zenon
<1>. HIDE DEF R
<1>3. PICK x \in S : \A y \in S : <<y, x>> \notin R BY <1>2, WFMin
<1>4. \A y \in S : x \in Nat /\ y \in Nat /\ ~(y < x) BY <1>1, <1>3
<1>5. \A y \in S : x <= y BY <1>4
<1>. QED BY <1>3, <1>5 DEF Min

LEMMA LaterAge ==
    ASSUME NEW age \in Ages \cup {None}
    PROVE  /\ Later(age) \in Ages \cup {None} /\ (Later(age) = None <=> age = None)
           /\ age # None => Later(age) = IF age = Old THEN Old ELSE age + 1
BY IngestBounds DEF Later, Ages

(* A feed comes or goes.                                                   *)
LEMMA OneMore ==
    ASSUME NEW A \in SUBSET Feeds, NEW f \in Feeds
    PROVE  /\ IsFiniteSet(A) /\ Cardinality(A) \in Nat
           /\ Cardinality(A \cup {f}) <= Cardinality(A) + 1 /\ Cardinality(A \cup {f}) \in Nat
           /\ f \in A => Cardinality(A \ {f}) = Cardinality(A) - 1
<1>1. IsFiniteSet(Feeds) BY IngestBounds, FS_Interval DEF Feeds
<1>2. IsFiniteSet(A) /\ Cardinality(A) \in Nat BY <1>1, FS_Subset, FS_CardinalityType
<1>3. /\ IsFiniteSet(A \cup {f})
      /\ (Cardinality(A \cup {f}) = Cardinality(A) \/ Cardinality(A \cup {f}) = Cardinality(A) + 1)
  BY <1>2, FS_AddElement
<1>4. f \in A => Cardinality(A \ {f}) = Cardinality(A) - 1 BY <1>2, FS_RemoveElement
<1>. QED BY <1>2, <1>3, <1>4

(* As long as the abandoned tasks are fewer than the probes that can fail, *)
(* there is an id for the next one.                                        *)
LEMMA FreeFeed ==
    ASSUME TypeOK, OneFeedPerFailure, sup = "start"
    PROVE  LET f == Min({g \in Feeds : feed[g] = "none"}) IN f \in Feeds /\ feed[f] = "none"
<1>. DEFINE S == {g \in Feeds : feed[g] = "none"}
<1>1. Cardinality(Alive) <= probeFails /\ probeFails <= MaxProbeFailures /\ probeFails \in Nat
  BY IngestBounds DEF OneFeedPerFailure, TypeOK
<1>2. IsFiniteSet(Feeds) /\ Cardinality(Feeds) = MaxProbeFailures + 1 BY IngestBounds, FS_Interval DEF Feeds
<1>3. S # {}
  <2>. SUFFICES ASSUME S = {} PROVE FALSE OBVIOUS
  <2>1. Alive = Feeds BY DEF Alive
  <2>. QED BY <1>1, <1>2, <2>1, IngestBounds
<1>4. S \in SUBSET Nat BY DEF Feeds
<1>5. Min(S) \in S BY <1>3, <1>4, LeastOf
<1>. QED BY <1>5

LEMMA NextFeedTypes ==
    ASSUME FeedInv, [Next]_vars
    PROVE  TypeOK'
<1>1. TypeOK BY DEF FeedInv
<1>2. CASE UNCHANGED vars BY <1>1, <1>2 DEF TypeOK, vars, supVars
<1>3. ASSUME NEW f \in Feeds, Connect(f) \/ Hang(f) PROVE TypeOK'
  BY <1>1, <1>3 DEF TypeOK, Connect, Hang, Stream
<1>4. ASSUME NEW f \in Feeds, FeedEnds(f) PROVE TypeOK'
  <2>1. sup' \in {"start", "watch", "stalled", "backoff", "gone"} BY <1>1, <1>4 DEF TypeOK, FeedEnds
  <2>. QED BY <1>1, <1>4, <2>1 DEF TypeOK, FeedEnds
<1>5. ASSUME NEW f \in Feeds, NEW s \in Crypto, StreamQuote(f, s) PROVE TypeOK'
  BY <1>1, <1>5, IngestBounds DEF TypeOK, StreamQuote, supVars, Ages
<1>6. CASE CreateTask
  <2>1. run' \in Feeds BY <1>1, <1>6, FreeFeed DEF CreateTask, FeedInv
  <2>. QED BY <1>1, <1>6, <2>1, IngestBounds DEF TypeOK, CreateTask
<1>7. CASE PollQuiet \/ PollStalled \/ TaskCancelled \/ BackedOff
  BY <1>1, <1>7 DEF TypeOK, PollQuiet, PollStalled, TaskCancelled, BackedOff, supVars
<1>8. CASE PollFails \/ DeadmanFails
  <2>1. probeFails' = probeFails + 1 /\ probeFails < MaxProbeFailures BY <1>8 DEF PollFails, DeadmanFails
  <2>2. probeFails' \in 0 .. MaxProbeFailures
    <3>1. probeFails \in 0 .. MaxProbeFailures BY <1>1 DEF TypeOK
    <3>. QED BY <2>1, <3>1, IngestBounds
  <2>. QED BY <1>1, <1>8, <2>2 DEF TypeOK, PollFails, DeadmanFails, supVars
<1>9. CASE DeadmanSees \/ DeadmanWaits \/ DeadmanExits
  BY <1>1, <1>9 DEF TypeOK, DeadmanSees, DeadmanWaits, DeadmanExits, supVars
<1>10. CASE Restart
  <2>1. 1 \in Feeds /\ 0 \in 0 .. MaxSilence BY IngestBounds DEF Feeds
  <2>. QED BY <1>1, <1>10, <2>1 DEF TypeOK, Restart, Boot
<1>11. CASE Tick
  <2>1. up' \in 0 .. MaxSilence BY <1>1, <1>11, IngestBounds DEF TypeOK, Tick, InGrace
  <2>2. quoteAge' \in [Crypto -> Ages \cup {None}] /\ lastQuote' \in Ages \cup {None}
    BY <1>1, <1>11, LaterAge DEF TypeOK, Tick
  <2>. QED BY <1>1, <1>11, <2>1, <2>2 DEF TypeOK, Tick
<1>12. ASSUME NEW s \in Crypto, BackfillQuote(s) \/ QuoteExpires(s) PROVE TypeOK'
  <2>1. backfills' \in 0 .. MaxBackfills
    <3>1. backfills \in 0 .. MaxBackfills BY <1>1 DEF TypeOK
    <3>2. backfills' = backfills \/ (backfills < MaxBackfills /\ backfills' = backfills + 1)
      BY <1>12 DEF BackfillQuote, QuoteExpires
    <3>. QED BY <3>1, <3>2, IngestBounds
  <2>2. quoteAge' \in [Crypto -> Ages \cup {None}]
    <3>1. {1, Old} \subseteq Ages BY IngestBounds DEF Ages
    <3>. QED BY <1>1, <1>12, <3>1 DEF TypeOK, BackfillQuote, QuoteExpires
  <2>. QED BY <1>1, <1>12, <2>1, <2>2 DEF TypeOK, BackfillQuote, QuoteExpires, supVars
<1>. QED BY <1>2, <1>3, <1>4, <1>5, <1>6, <1>7, <1>8, <1>9, <1>10, <1>11, <1>12 DEF Next, Supervise, Deadman, Deliver

LEMMA NextFeedCount ==
    ASSUME FeedInv, Watched, [Next]_vars
    PROVE  OneFeedPerFailure' /\ Watched'
<1>1. TypeOK /\ OneFeedPerFailure BY DEF FeedInv
<1>2. Alive \in SUBSET Feeds /\ Alive' \in SUBSET Feeds BY DEF Alive
<1>. DEFINE n == Cardinality(Alive)  m == Cardinality(Alive')
            Goal == OneFeedPerFailure' /\ Watched'
<1>3. n \in Nat /\ run \in Feeds /\ feed \in [Feeds -> {"none", "connecting", "streaming", "hung", "closing"}]
      /\ probeFails \in Nat
  <2>1. run \in Feeds BY <1>1 DEF TypeOK
  <2>2. n \in Nat BY <1>2, <2>1, OneMore
  <2>. QED BY <1>1, <2>1, <2>2, IngestBounds DEF TypeOK
<1>4. n <= 1 + probeFails /\ (sup \in {"start", "backoff"} => n <= probeFails) BY <1>1 DEF OneFeedPerFailure
<1>5. /\ sup = "watch" => feed[run] # "none"
      /\ sup = "stalled" => feed[run] = "closing"
  BY DEF Watched
<1>. HIDE DEF n
<1>6. ASSUME UNCHANGED <<feed, sup, run>>, probeFails' = probeFails \/ probeFails' = probeFails + 1 PROVE Goal
  <2>1. m = n BY <1>6 DEF n, Alive
  <2>2. OneFeedPerFailure' BY <1>3, <1>4, <1>6, <2>1 DEF OneFeedPerFailure
  <2>. QED BY <1>5, <1>6, <2>2 DEF Watched
<1>7. CASE UNCHANGED vars \/ PollQuiet \/ DeadmanSees \/ DeadmanWaits \/ DeadmanFails \/ Tick
  BY <1>6, <1>7 DEF vars, supVars, PollQuiet, DeadmanSees, DeadmanWaits, DeadmanFails, Tick
<1>8. CASE Deliver \/ \E s \in Crypto : BackfillQuote(s) \/ QuoteExpires(s)
  BY <1>6, <1>8 DEF Deliver, supVars, StreamQuote, BackfillQuote, QuoteExpires
<1>9. ASSUME NEW f \in Feeds, Connect(f) \/ Hang(f) PROVE Goal
  <2>1. /\ feed[f] \in {"connecting", "streaming"} /\ feed'[f] \in {"streaming", "hung"}
        /\ \A g \in Feeds : g # f => feed'[g] = feed[g]
        /\ UNCHANGED <<sup, run, probeFails>>
    BY <1>3, <1>9 DEF Connect, Hang, Stream
  <2>2. Alive' = Alive BY <2>1 DEF Alive
  <2>3. OneFeedPerFailure' BY <1>4, <2>1, <2>2 DEF OneFeedPerFailure, n
  <2>4. Watched' BY <1>3, <1>5, <2>1 DEF Watched
  <2>. QED BY <2>3, <2>4
<1>10. ASSUME NEW f \in Feeds, FeedEnds(f) PROVE Goal
  <2>1. /\ feed[f] \in {"connecting", "streaming"} /\ feed'[f] = "none"
        /\ \A g \in Feeds : g # f => feed'[g] = feed[g]
        /\ UNCHANGED <<run, probeFails>>
        /\ (f = run /\ sup = "watch" /\ sup' \in {"backoff", "start"}) \/ (sup' = sup /\ ~(f = run /\ sup = "watch"))
    BY <1>3, <1>10 DEF FeedEnds
  <2>2. f \in Alive /\ Alive' = Alive \ {f} BY <2>1 DEF Alive
  <2>3. m = n - 1 BY <1>2, <2>2, OneMore DEF n
  <2>4. OneFeedPerFailure' BY <1>3, <1>4, <2>1, <2>3 DEF OneFeedPerFailure
  <2>5. Watched' BY <1>3, <1>5, <2>1 DEF Watched
  <2>. QED BY <2>4, <2>5
<1>11. CASE CreateTask
  <2>1. PICK f : f = run' OBVIOUS
  <2>2. f \in Feeds /\ sup = "start" BY <1>1, <1>11, <2>1, FreeFeed DEF CreateTask
  <2>3. feed' = [feed EXCEPT ![f] = "connecting"] /\ sup' = "watch" /\ probeFails' = probeFails
    BY <1>11, <2>1 DEF CreateTask
  <2>4. Alive' = Alive \cup {f} BY <1>3, <2>2, <2>3 DEF Alive
  <2>5. m <= n + 1 /\ m \in Nat BY <1>2, <2>2, <2>4, OneMore DEF n
  <2>6. OneFeedPerFailure' BY <1>3, <1>4, <2>2, <2>3, <2>5 DEF OneFeedPerFailure
  <2>7. Watched' BY <1>3, <2>1, <2>2, <2>3 DEF Watched
  <2>. QED BY <2>6, <2>7
<1>12. CASE PollStalled
  <2>1. sup = "watch" /\ sup' = "stalled" /\ feed' = [feed EXCEPT ![run] = "closing"] /\ UNCHANGED <<run, probeFails>>
    BY <1>12 DEF PollStalled, Poll
  <2>2. Alive' = Alive BY <1>3, <1>5, <2>1 DEF Alive
  <2>3. OneFeedPerFailure' BY <1>4, <2>1, <2>2 DEF OneFeedPerFailure, n
  <2>4. Watched' BY <1>3, <2>1 DEF Watched
  <2>. QED BY <2>3, <2>4
<1>13. CASE TaskCancelled
  <2>1. sup = "stalled" /\ sup' = "backoff" /\ feed' = [feed EXCEPT ![run] = "none"] /\ UNCHANGED <<run, probeFails>>
    BY <1>13 DEF TaskCancelled
  <2>2. run \in Alive /\ Alive' = Alive \ {run} BY <1>3, <1>5, <2>1 DEF Alive
  <2>3. m = n - 1 BY <1>2, <1>3, <2>2, OneMore DEF n
  <2>4. OneFeedPerFailure' BY <1>3, <1>4, <2>1, <2>3 DEF OneFeedPerFailure
  <2>5. Watched' BY <2>1 DEF Watched
  <2>. QED BY <2>4, <2>5
<1>14. CASE PollFails \/ BackedOff
  <2>1. UNCHANGED <<feed, run>> /\ ((sup = "backoff" /\ sup' = "start" /\ probeFails' = probeFails)
                                    \/ (sup' = "backoff" /\ probeFails' = probeFails + 1))
    BY <1>14 DEF PollFails, BackedOff
  <2>2. m = n BY <2>1 DEF n, Alive
  <2>3. OneFeedPerFailure' BY <1>3, <1>4, <2>1, <2>2 DEF OneFeedPerFailure
  <2>4. Watched' BY <2>1 DEF Watched
  <2>. QED BY <2>3, <2>4
<1>15. CASE DeadmanExits \/ Restart
  <2>1. feed' = [f \in Feeds |-> "none"] /\ sup' \in {"gone", "start"} /\ probeFails' = probeFails
    BY <1>15 DEF DeadmanExits, Restart, Boot
  <2>2. Alive' = {} BY <2>1 DEF Alive
  <2>3. m = 0 BY <2>2, FS_EmptySet
  <2>4. OneFeedPerFailure' BY <1>3, <2>1, <2>3 DEF OneFeedPerFailure
  <2>5. Watched' BY <2>1 DEF Watched
  <2>. QED BY <2>4, <2>5
<1>. QED BY <1>7, <1>8, <1>9, <1>10, <1>11, <1>12, <1>13, <1>14, <1>15 DEF Next, Supervise, Deadman

LEMMA NextKept ==
    ASSUME TypeOK, Kept, [Next]_vars
    PROVE  Kept'
<1>1. /\ quoteAge \in [Crypto -> Ages \cup {None}] /\ lastQuote \in Ages \cup {None} /\ backfills \in Nat
      /\ Old \in Nat /\ None \notin Int /\ Ages \subseteq Nat /\ \A a \in Ages : a <= Old
  BY IngestBounds DEF TypeOK, Ages
<1>2. CASE UNCHANGED <<quoteAge, lastQuote, backfills>> BY <1>2 DEF Kept
<1>3. CASE lastQuote' = None BY <1>3 DEF Kept
<1>4. ASSUME UNCHANGED vars \/ Supervise \/ Deadman \/ \E f \in Feeds : Connect(f) \/ Hang(f) \/ FeedEnds(f)
      PROVE  UNCHANGED <<quoteAge, lastQuote, backfills>>
  BY <1>4 DEF vars, Supervise, CreateTask, PollQuiet, PollStalled, PollFails, TaskCancelled, BackedOff,
     Deadman, DeadmanSees, DeadmanWaits, DeadmanExits, DeadmanFails, Connect, Hang, Stream, FeedEnds
<1>5. CASE Restart BY <1>3, <1>5 DEF Restart, Boot
<1>6. ASSUME NEW f \in Feeds, NEW s \in Crypto, StreamQuote(f, s) PROVE Kept'
  <2>1. lastQuote' = 0 /\ quoteAge'[s] = 0 BY <1>1, <1>6 DEF StreamQuote
  <2>. QED BY <1>1, <2>1 DEF Kept
<1>7. ASSUME NEW s \in Crypto, BackfillQuote(s) PROVE Kept'
  BY <1>1, <1>7 DEF BackfillQuote, Kept
<1>8. ASSUME NEW s \in Crypto, QuoteExpires(s) PROVE Kept'
  <2>1. /\ quoteAge[s] = Old /\ UNCHANGED <<lastQuote, backfills>>
        /\ \A r \in Crypto : r # s => quoteAge'[r] = quoteAge[r]
    BY <1>1, <1>8 DEF QuoteExpires
  <2>2. SUFFICES ASSUME backfills = 0, lastQuote # None, lastQuote # Old
                 PROVE  \E r \in Crypto : quoteAge'[r] # None /\ quoteAge'[r] <= lastQuote
    BY <2>1 DEF Kept
  <2>3. PICK r \in Crypto : quoteAge[r] # None /\ quoteAge[r] <= lastQuote BY <2>2 DEF Kept
  <2>4. r # s BY <1>1, <2>1, <2>2, <2>3
  <2>. QED BY <2>1, <2>3, <2>4
<1>9. CASE Tick
  <2>1. /\ lastQuote' = Later(lastQuote) /\ backfills' = backfills
        /\ \A r \in Crypto : quoteAge'[r] = Later(quoteAge[r])
    BY <1>9 DEF Tick
  <2>2. SUFFICES ASSUME backfills = 0, lastQuote' # None, lastQuote' # Old
                 PROVE  \E r \in Crypto : quoteAge'[r] # None /\ quoteAge'[r] <= lastQuote'
    BY <2>1 DEF Kept
  <2>3. lastQuote # None /\ lastQuote # Old /\ lastQuote' = lastQuote + 1 BY <1>1, <2>1, <2>2, LaterAge
  <2>4. PICK r \in Crypto : quoteAge[r] # None /\ quoteAge[r] <= lastQuote BY <2>2, <2>3 DEF Kept
  <2>5. quoteAge[r] \in Ages /\ quoteAge[r] # Old BY <1>1, <2>3, <2>4
  <2>6. quoteAge'[r] = quoteAge[r] + 1 BY <2>1, <2>4, <2>5, LaterAge
  <2>7. quoteAge'[r] \in Int /\ quoteAge'[r] <= lastQuote'
    <3>1. quoteAge[r] \in Nat /\ lastQuote \in Nat BY <1>1, <2>3, <2>5
    <3>. QED BY <2>3, <2>4, <2>6, <3>1
  <2>. QED BY <1>1, <2>7
<1>. QED BY <1>2, <1>4, <1>5, <1>6, <1>7, <1>8, <1>9 DEF Next, Deliver

LEMMA NextFeeds == FeedIInv /\ [Next]_vars => FeedIInv'
BY NextFeedTypes, NextFeedCount, NextKept DEF FeedIInv, FeedInv

LEMMA InitFeeds == Init => FeedIInv
<1>. SUFFICES ASSUME Init PROVE FeedIInv OBVIOUS
<1>1. TypeOK
  <2>1. 1 \in Feeds /\ 0 \in 0 .. MaxSilence /\ 0 \in 0 .. MaxProbeFailures /\ 0 \in 0 .. MaxBackfills
        /\ {1, Old} \subseteq Ages
    BY IngestBounds DEF Feeds, Ages
  <2>. QED BY <2>1 DEF Init, TypeOK
<1>2. Alive = {} BY DEF Init, Alive
<1>3. Cardinality(Alive) = 0 BY <1>2, FS_EmptySet
<1>4. OneFeedPerFailure BY <1>3 DEF OneFeedPerFailure, Init
<1>5. Watched /\ Kept BY DEF Watched, Kept, Init
<1>. QED BY <1>1, <1>4, <1>5 DEF FeedIInv, FeedInv

(* For any thresholds, symbols and numbers of failing probes: one stream   *)
(* runs, plus at most one for every probe that has failed.                 *)
THEOREM FeedsAreCounted == Spec => []FeedInv
<1>1. FeedIInv => FeedInv BY DEF FeedIInv
<1>. QED BY <1>1, InitFeeds, NextFeeds, PTL DEF Spec

LEMMA StallsOnlySilent ==
    FeedIInv /\ [Next]_vars =>
        [sup = "watch" /\ sup' = "stalled" =>
           /\ up >= MaxSilence
           /\ backfills = 0 => is_stale(lastQuote, MaxSilence)]_vars
<1>. SUFFICES ASSUME FeedIInv, Next, sup = "watch", sup' = "stalled"
              PROVE  up >= MaxSilence /\ (backfills = 0 => is_stale(lastQuote, MaxSilence))
  OBVIOUS
<1>1. TypeOK /\ Kept BY DEF FeedIInv, FeedInv
<1>2. PollStalled
  <2>1. ~\E f \in Feeds : Connect(f) \/ Hang(f) \/ FeedEnds(f) BY DEF Connect, Hang, Stream, FeedEnds
  <2>2. ~Deliver BY DEF Deliver, StreamQuote, supVars
  <2>3. ~(CreateTask \/ PollQuiet \/ PollFails \/ TaskCancelled \/ BackedOff)
    BY DEF CreateTask, PollQuiet, PollFails, TaskCancelled, BackedOff, supVars
  <2>4. ~(Deadman \/ Restart \/ Tick)
    BY DEF Deadman, DeadmanSees, DeadmanWaits, DeadmanExits, DeadmanFails, Restart, Boot, Tick, supVars
  <2>5. ~\E s \in Crypto : BackfillQuote(s) \/ QuoteExpires(s) BY DEF BackfillQuote, QuoteExpires, supVars
  <2>. QED BY <2>1, <2>2, <2>3, <2>4, <2>5 DEF Next, Supervise
<1>3. ~(up < MaxSilence) /\ Silent BY <1>2 DEF PollStalled, InGrace
<1>4. up >= MaxSilence BY <1>1, <1>3, IngestBounds DEF TypeOK
<1>5. ASSUME backfills = 0, lastQuote # None PROVE lastQuote > MaxSilence
  <2>. DEFINE Present == {quoteAge[s] : s \in Crypto} \ {None}
  <2>1. CASE lastQuote = Old BY <2>1, IngestBounds
  <2>2. CASE lastQuote # Old
    <3>1. PICK s \in Crypto : quoteAge[s] # None /\ quoteAge[s] <= lastQuote BY <1>1, <1>5, <2>2 DEF Kept
    <3>2. quoteAge[s] \in Present BY <3>1
    <3>3. Present \in SUBSET Nat BY <1>1, IngestBounds DEF TypeOK, Ages
    <3>4. crypto_feed_age = Min(Present) BY <3>2 DEF crypto_feed_age
    <3>5. Min(Present) \in Present /\ Min(Present) <= quoteAge[s] BY <3>2, <3>3, LeastOf
    <3>6. Min(Present) > MaxSilence BY <1>3, <3>4 DEF Silent
    <3>7. /\ Min(Present) \in Nat /\ quoteAge[s] \in Nat /\ lastQuote \in Nat /\ MaxSilence \in Nat
      BY <1>1, <1>5, <3>2, <3>3, <3>5, IngestBounds DEF TypeOK, Ages
    <3>. HIDE DEF Present
    <3>. QED BY <3>1, <3>5, <3>6, <3>7
  <2>. QED BY <2>1, <2>2
<1>. QED BY <1>4, <1>5 DEF is_stale

(* A run is cancelled as stalled only after its whole grace, and, backfill *)
(* aside, only when the stream has been silent for longer than allowed.    *)
THEOREM StallsAreReal == Spec => StallsAreGenuine
BY InitFeeds, NextFeeds, StallsOnlySilent, PTL DEF Spec, StallsAreGenuine
=============================================================================
