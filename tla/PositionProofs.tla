--------------------------- MODULE PositionProofs ---------------------------
(***************************************************************************)
(* The table of strategies, the life of a position row, the running book   *)
(* of a position and the replay of a strategy, for all their constants.    *)
(***************************************************************************)
EXTENDS StrategyRegistry, ExitWatch, PositionBook, Backtest, FillMarketProofs, FiniteSetTheorems, SequenceTheorems, WellFoundedInduction, TLAPS

-----------------------------------------------------------------------------
(***************************************************************************)
(* StrategyRegistry.  A row that is inserted and not committed yet holds   *)
(* its key: it is in no committed row and in no other transaction (Apart). *)
(* A seed has, for every name it has passed, a row or a pending one.       *)
(***************************************************************************)
IsCall(r) == DOMAIN r = {"op", "at", "id", "row", "pending", "out"}

PresentNames == {table[i].name : i \in DOMAIN table}
Passed(r)    == \A i \in DOMAIN Catalog : i < r.at => Catalog[i] \in PresentNames \/ <<Catalog[i], 1>> \in r.pending

CallOK(r) ==
    /\ IsCall(r)
    /\ r.at \in Nat
    /\ IsFiniteSet(r.pending) /\ r.pending \subseteq STRING \X {1}
    /\ r.pending # {} => r.op = "seed"
    /\ r.op = "create" => r.row \in StrategyRows
    /\ r.op = "seed" /\ r.row # NoRow => r.at \in DOMAIN Catalog /\ r.row = HouseRow(Catalog[r.at])
    /\ r.op = "seed" => Passed(r)

RegistryTypes == table \in Seq(StrategyRows) /\ DOMAIN call = Callers
CallsOK       == \A c \in Callers : CallOK(call[c])
Apart         == /\ \A c \in Callers : call[c].pending \cap Keys = {}
                 /\ \A c, d \in Callers : c # d => call[c].pending \cap call[d].pending = {}
OneKey        == \A i, j \in DOMAIN table : i # j => Key(table[i]) # Key(table[j])
SeedsAnswered == \A a \in answers : a.op = "seed" /\ a.status = 200 => Range(Catalog) \subseteq a.present
RegistryIInv  == RegistryTypes /\ CallsOK /\ Apart /\ OneKey /\ SeedsAnswered

(* A finite set is listed once by SetToSeq.                                *)
LEMMA Listed ==
    ASSUME NEW S, IsFiniteSet(S)
    PROVE  /\ SetToSeq(S) \in Seq(S) /\ Len(SetToSeq(S)) = Cardinality(S)
           /\ \A i, j \in 1 .. Cardinality(S) : i # j => SetToSeq(S)[i] # SetToSeq(S)[j]
           /\ \A x \in S : \E i \in 1 .. Cardinality(S) : SetToSeq(S)[i] = x
<1>1. Cardinality(S) \in Nat /\ ExistsBijection(1 .. Cardinality(S), S) BY FS_CardinalityType
<1>2. PICK f \in Bijection(1 .. Cardinality(S), S) : TRUE BY <1>1 DEF ExistsBijection
<1>3. f \in [1 .. Cardinality(S) -> S] /\ IsInjective(f) BY <1>2 DEF Bijection, Injection
<1>. DEFINE g == SetToSeq(S)
<1>4. g \in [1 .. Cardinality(S) -> S] /\ IsInjective(g) BY <1>3 DEF SetToSeq
<1>5. g \in Seq(S) /\ Len(g) = Cardinality(S) BY <1>1, <1>4, IsASeq
<1>6. g \in Surjection(1 .. Cardinality(S), S)
  <2>1. g \in Injection(1 .. Cardinality(S), S) BY <1>4 DEF Injection
  <2>2. IsFiniteSet(1 .. Cardinality(S)) /\ Cardinality(1 .. Cardinality(S)) = Cardinality(S)
    BY <1>1, FS_Interval
  <2>. QED BY <2>1, <2>2, FS_Injection
<1>. QED BY <1>4, <1>5, <1>6 DEF IsInjective, Surjection

LEMMA Unlocked ==
    ASSUME NEW c \in Callers, NEW d \in Callers, c # d, NEW S, S \cap Locked(c) = {}
    PROVE  S \cap call[d].pending = {}
BY DEF Locked, HeldBy

LEMMA LockedApart ==
    ASSUME Apart, NEW c \in Callers
    PROVE  call[c].pending \cap Keys = {} /\ call[c].pending \cap Locked(c) = {}
BY DEF Apart, Locked, HeldBy

(* One call goes on, and the table is as it was.                           *)
LEMMA OneCall ==
    ASSUME RegistryIInv, NEW c \in Callers, NEW r, CallOK(r), r.pending \cap Keys = {}, r.pending \cap Locked(c) = {},
           call' = [call EXCEPT ![c] = r], table' = table, SeedsAnswered'
    PROVE  RegistryIInv'
<1>1. RegistryTypes' BY DEF RegistryIInv, RegistryTypes
<1>2. \A d \in Callers : call'[d] = IF d = c THEN r ELSE call[d] BY DEF RegistryIInv, RegistryTypes
<1>3. Keys' = Keys BY DEF Keys
<1>4. CallsOK'
  <2>1. \A x : CallOK(x)' <=> CallOK(x) BY DEF CallOK, Passed, PresentNames
  <2>2. \A d \in Callers : CallOK(call'[d]) BY <1>2 DEF RegistryIInv, CallsOK
  <2>. QED BY <2>1, <2>2 DEF CallsOK
<1>5. \A d \in Callers : d # c => r.pending \cap call[d].pending = {} BY Unlocked
<1>6. Apart' BY <1>2, <1>3, <1>5 DEF RegistryIInv, Apart
<1>7. OneKey' BY DEF RegistryIInv, OneKey
<1>. QED BY <1>1, <1>4, <1>6, <1>7 DEF RegistryIInv

LEMMA IdleCall == CallOK(NoCall) /\ NoCall.pending = {} /\ NoCall.op = "none"
<1>1. IsFiniteSet({}) BY FS_EmptySet
<1>. QED BY <1>1 DEF CallOK, IsCall, NoCall

(* An answer to a request that the table does not change for.              *)
LEMMA Answered ==
    ASSUME RegistryIInv, NEW c \in Callers, NEW status, NEW fired, Replies(c, status, table, fired), table' = table,
           call[c].op = "seed" => status # 200
    PROVE  RegistryIInv'
<1>1. call' = [call EXCEPT ![c] = NoCall] BY DEF Replies
<1>2. SeedsAnswered'
  <2>. DEFINE new == [status |-> status, op |-> call[c].op, id |-> call[c].id, fired |-> fired,
                    present |-> {table[i].name : i \in DOMAIN table}]
  <2>1. answers' = answers \cup {new} BY DEF Replies
  <2>2. ~(new.op = "seed" /\ new.status = 200) OBVIOUS
  <2>. HIDE DEF new
  <2>. QED BY <2>1, <2>2 DEF RegistryIInv, SeedsAnswered
<1>. QED BY <1>1, <1>2, OneCall, IdleCall

(* A transaction commits new rows and is answered.                         *)
LEMMA RowsAdded ==
    ASSUME RegistryIInv, NEW c \in Callers, NEW extra \in Seq(StrategyRows), table' = table \o extra,
           call' = [call EXCEPT ![c] = NoCall],
           \A i, j \in DOMAIN extra : i # j => Key(extra[i]) # Key(extra[j]),
           \A i \in DOMAIN extra : Key(extra[i]) \notin Keys \cup Locked(c),
           SeedsAnswered'
    PROVE  RegistryIInv'
<1>1. table \in Seq(StrategyRows) /\ DOMAIN call = Callers BY DEF RegistryIInv, RegistryTypes
<1>2. table' \in Seq(StrategyRows) /\ Len(table') = Len(table) + Len(extra) BY <1>1, ConcatProperties
<1>3. \A i \in 1 .. Len(table) + Len(extra) :
         table'[i] = IF i <= Len(table) THEN table[i] ELSE extra[i - Len(table)]
  BY <1>1, ConcatProperties
<1>4. Len(table) \in Nat /\ Len(extra) \in Nat /\ DOMAIN table = 1 .. Len(table) /\ DOMAIN extra = 1 .. Len(extra)
      /\ DOMAIN table' = 1 .. Len(table) + Len(extra)
  BY <1>1, <1>2, LenProperties
<1>5. \A i \in DOMAIN table : i \in DOMAIN table' /\ table'[i] = table[i] BY <1>3, <1>4
<1>6. \A i \in DOMAIN table' : \/ i \in DOMAIN table /\ table'[i] = table[i]
                               \/ \E j \in DOMAIN extra : j = i - Len(table) /\ table'[i] = extra[j]
  BY <1>3, <1>4
<1>7. OneKey'
  <2>. SUFFICES ASSUME NEW i \in DOMAIN table', NEW j \in DOMAIN table', i # j, Key(table'[i]) = Key(table'[j])
                PROVE  FALSE
    BY DEF OneKey, Key
  <2>1. \A k \in DOMAIN table : Key(table[k]) \in Keys BY DEF Keys
  <2>2. ~(i \in DOMAIN table /\ j \in DOMAIN table) BY <1>5 DEF RegistryIInv, OneKey
  <2>3. i \in Int /\ j \in Int /\ Len(table) \in Nat BY <1>4
  <2>4. CASE i \in DOMAIN table
    <3>1. PICK k \in DOMAIN extra : table'[j] = extra[k] BY <1>6, <2>2, <2>4
    <3>. QED BY <2>1, <2>4, <1>5, <3>1
  <2>5. CASE j \in DOMAIN table
    <3>1. PICK k \in DOMAIN extra : table'[i] = extra[k] BY <1>6, <2>2, <2>5
    <3>. QED BY <2>1, <2>5, <1>5, <3>1
  <2>6. CASE i \notin DOMAIN table /\ j \notin DOMAIN table
    <3>1. PICK k \in DOMAIN extra : k = i - Len(table) /\ table'[i] = extra[k] BY <1>6, <2>6
    <3>2. PICK l \in DOMAIN extra : l = j - Len(table) /\ table'[j] = extra[l] BY <1>6, <2>6
    <3>3. k # l BY <2>3, <3>1, <3>2
    <3>. QED BY <3>1, <3>2, <3>3
  <2>. QED BY <2>4, <2>5, <2>6
<1>8. \A d \in Callers : call'[d] = IF d = c THEN NoCall ELSE call[d] BY <1>1
<1>9. CallsOK'
  <2>1. PresentNames \subseteq PresentNames' BY <1>5 DEF PresentNames
  <2>2. \A x : CallOK(x) => CallOK(x)' BY <2>1 DEF CallOK, Passed
  <2>3. \A d \in Callers : CallOK(call'[d]) BY <1>8, IdleCall DEF RegistryIInv, CallsOK
  <2>. QED BY <2>2, <2>3 DEF CallsOK
<1>10. Apart'
  <2>1. \A k \in Keys' : k \in Keys \/ \E j \in DOMAIN extra : k = Key(extra[j])
    BY <1>6 DEF Keys, Key
  <2>2. \A d \in Callers \ {c} : call[d].pending \subseteq Locked(c) BY DEF Locked, HeldBy
  <2>3. \A d \in Callers \ {c} : call[d].pending \cap Keys' = {} BY <2>1, <2>2 DEF RegistryIInv, Apart
  <2>. QED BY <1>8, <2>3, IdleCall DEF RegistryIInv, Apart
<1>. QED BY <1>1, <1>2, <1>7, <1>9, <1>10 DEF RegistryIInv, RegistryTypes

LEMMA InitRegistry == RegistryInit => RegistryIInv
<1>. SUFFICES ASSUME RegistryInit PROVE RegistryIInv OBVIOUS
<1>1. RegistryTypes BY EmptySeq DEF RegistryInit, RegistryTypes
<1>2. \A c \in Callers : call[c] = NoCall BY DEF RegistryInit
<1>3. CallsOK /\ Apart BY <1>2, IdleCall DEF CallsOK, Apart
<1>4. DOMAIN table = {} BY DEF RegistryInit
<1>5. OneKey /\ SeedsAnswered BY <1>4 DEF RegistryInit, OneKey, SeedsAnswered
<1>. QED BY <1>1, <1>3, <1>5 DEF RegistryIInv

LEMMA CatalogNames == DOMAIN Catalog = 1 .. Len(Catalog) /\ Len(Catalog) \in Nat /\ \A i \in DOMAIN Catalog : Catalog[i] \in STRING
BY RegistryAssumption, LenProperties, ElementOfSeq

LEMMA HouseKey == \A n \in STRING : HouseRow(n) \in StrategyRows /\ Key(HouseRow(n)) = <<n, 1>> /\ HouseRow(n).name = n
<1>. TAKE n \in STRING
<1>. DEFINE h == [name |-> n, version |-> 1, kind |-> "indicator_dsl", spec |-> "good", status |-> "active"]
<1>1. HouseRow(n) = h BY DEF HouseRow
<1>2. h \in StrategyRows /\ h.name = n /\ h.version = 1 BY DEF StrategyRows, StrategyKind
<1>. HIDE DEF h
<1>. QED BY <1>1, <1>2 DEF Key

LEMMA CallOf ==
    ASSUME RegistryIInv, NEW c \in Callers
    PROVE  CallOK(call[c]) /\ call[c].pending \cap Keys = {} /\ call[c].pending \cap Locked(c) = {}
BY LockedApart DEF RegistryIInv, CallsOK

(* A request begins.                                                       *)
LEMMA BeginsKeeps ==
    ASSUME RegistryIInv, NEW c \in Callers, NEW op, NEW id, NEW b, op # "none",
           op = "create" => b \in StrategyRows, op = "seed" => b = NoRow, Begins(c, op, id, b)
    PROVE  RegistryIInv'
<1>. DEFINE r == [NoCall EXCEPT !.op = op, !.id = id, !.row = b, !.at = 1]
<1>1. r.op = op /\ r.at = 1 /\ r.row = b /\ r.pending = {} /\ IsCall(r) BY DEF NoCall, IsCall
<1>2. Passed(r)
  <2>1. \A i \in DOMAIN Catalog : ~(i < 1) BY CatalogNames
  <2>. QED BY <1>1, <2>1 DEF Passed
<1>3. IsFiniteSet({}) BY FS_EmptySet
<1>4. CallOK(r) BY <1>1, <1>2, <1>3 DEF CallOK, IsCall
<1>5. call' = [call EXCEPT ![c] = r] /\ table' = table /\ answers' = answers BY DEF Begins
<1>6. r.pending = {} BY <1>1
<1>. HIDE DEF r
<1>. QED BY <1>4, <1>5, <1>6, OneCall DEF RegistryIInv, SeedsAnswered

LEMMA CreateEndsKeeps == ASSUME RegistryIInv, NEW c \in Callers, CreateEnds(c) PROVE RegistryIInv'
<1>. DEFINE b == call[c].row
<1>1. call[c].op = "create" /\ b \in StrategyRows BY CallOf DEF CreateEnds, CallOK
<1>2. CASE \E status : table' = table /\ Replies(c, status, table, {}) BY <1>1, <1>2, Answered
<1>3. CASE table' = Append(table, b) /\ Replies(c, 200, table', {}) /\ Key(b) \notin Keys \cup Locked(c)
  <2>1. table \in Seq(StrategyRows) BY DEF RegistryIInv, RegistryTypes
  <2>2. table' = table \o <<b>> /\ <<b>> \in Seq(StrategyRows) BY <1>1, <1>3, <2>1, AppendIsConcat
  <2>3. DOMAIN <<b>> = {1} /\ <<b>>[1] = b OBVIOUS
  <2>4. call' = [call EXCEPT ![c] = NoCall] BY <1>3 DEF Replies
  <2>5. SeedsAnswered'
    <3>1. \A a \in answers' : a \in answers \/ a.op = "create" BY <1>1, <1>3 DEF Replies
    <3>. QED BY <3>1 DEF RegistryIInv, SeedsAnswered
  <2>. HIDE DEF b
  <2>. QED BY <1>3, <2>2, <2>3, <2>4, <2>5, RowsAdded
<1>. QED BY <1>2, <1>3 DEF CreateEnds

LEMMA SetStatusKeeps == ASSUME RegistryIInv, SetStatus PROVE RegistryIInv'
<1>1. PICK i \in DOMAIN table, s \in {"active", "retired"} : table' = [table EXCEPT ![i].status = s] BY DEF SetStatus
<1>2. call' = call /\ answers' = answers BY DEF SetStatus
<1>3. table \in Seq(StrategyRows) /\ DOMAIN table = 1 .. Len(table) BY LenProperties DEF RegistryIInv, RegistryTypes
<1>4. table[i] \in StrategyRows BY <1>3, ElementOfSeq
<1>. DEFINE r == [table[i] EXCEPT !.status = s]
<1>5. r \in StrategyRows /\ r.name = table[i].name /\ Key(r) = Key(table[i]) BY <1>1, <1>4 DEF StrategyRows, Key
<1>6. table' = [table EXCEPT ![i] = r] BY <1>1
<1>. HIDE DEF r
<1>7. table' \in Seq(StrategyRows) BY <1>3, <1>5, <1>6, ExceptSeq
<1>8. DOMAIN table' = DOMAIN table /\ \A j \in DOMAIN table : Key(table'[j]) = Key(table[j]) /\ table'[j].name = table[j].name
  BY <1>5, <1>6
<1>9. Keys' = Keys /\ PresentNames' = PresentNames
  <2>1. Keys' = {Key(table'[j]) : j \in DOMAIN table'} BY DEF Keys, Key
  <2>. QED BY <1>8, <2>1 DEF Keys, PresentNames
<1>10. CallsOK'
  <2>1. \A x : CallOK(x) => CallOK(x)' BY <1>9 DEF CallOK, Passed
  <2>. QED BY <1>2, <2>1 DEF CallsOK, RegistryIInv
<1>11. OneKey' BY <1>8 DEF OneKey, Key, RegistryIInv
<1>. QED BY <1>2, <1>7, <1>9, <1>10, <1>11 DEF RegistryIInv, RegistryTypes, Apart, SeedsAnswered

LEMMA SeedLookKeeps == ASSUME RegistryIInv, NEW c \in Callers, SeedLook(c) PROVE RegistryIInv'
<1>. DEFINE n == Catalog[call[c].at]
<1>1. call[c].op = "seed" /\ call[c].at \in DOMAIN Catalog /\ table' = table BY DEF SeedLook
<1>2. CallOK(call[c]) /\ IsCall(call[c]) /\ call[c].at \in Nat /\ Passed(call[c]) BY <1>1, CallOf DEF CallOK
<1>3. CASE Replies(c, 500, table, {}) BY <1>1, <1>3, Answered
<1>4. CASE Cardinality(Named(n)) = 1 /\ call' = [call EXCEPT ![c].at = @ + 1] /\ UNCHANGED <<table, answers>>
  <2>. DEFINE r == [call[c] EXCEPT !.at = @ + 1]
  <2>1. r.op = call[c].op /\ r.at = call[c].at + 1 /\ r.row = call[c].row /\ r.pending = call[c].pending /\ IsCall(r) BY <1>2 DEF IsCall
  <2>2. n \in PresentNames
    <3>1. Named(n) # {} BY <1>4, FS_EmptySet
    <3>. QED BY <3>1 DEF Named, PresentNames
  <2>3. Passed(r)
    <3>1. ASSUME NEW i \in DOMAIN Catalog, i < r.at PROVE Catalog[i] \in PresentNames \/ <<Catalog[i], 1>> \in r.pending
      <4>1. i \in Nat /\ (i < call[c].at \/ i = call[c].at) BY <1>2, <2>1, <3>1, CatalogNames
      <4>. QED BY <1>2, <2>1, <2>2, <4>1 DEF Passed
    <3>. QED BY <3>1 DEF Passed
  <2>4. call[c].row = NoRow BY DEF SeedLook
  <2>5. CallOK(r) BY <1>1, <1>2, <2>1, <2>3, <2>4 DEF CallOK, IsCall
  <2>6. call' = [call EXCEPT ![c] = r] BY <1>4
  <2>7. SeedsAnswered' BY <1>4 DEF SeedsAnswered, RegistryIInv
  <2>8. r.pending = call[c].pending BY <2>1
  <2>. HIDE DEF r
  <2>. QED BY <1>4, <2>5, <2>6, <2>7, <2>8, CallOf, OneCall
<1>5. CASE call' = [call EXCEPT ![c].row = HouseRow(n)] /\ UNCHANGED <<table, answers>>
  <2>. DEFINE r == [call[c] EXCEPT !.row = HouseRow(n)]
  <2>1. r.op = call[c].op /\ r.at = call[c].at /\ r.row = HouseRow(n) /\ r.pending = call[c].pending /\ IsCall(r) BY <1>2 DEF IsCall
  <2>2. Passed(r) BY <1>2, <2>1 DEF Passed
  <2>3. CallOK(r) BY <1>1, <1>2, <2>1, <2>2 DEF CallOK, IsCall
  <2>4. call' = [call EXCEPT ![c] = r] BY <1>5
  <2>5. SeedsAnswered' BY <1>5 DEF SeedsAnswered, RegistryIInv
  <2>6. r.pending = call[c].pending BY <2>1
  <2>. HIDE DEF r
  <2>. QED BY <1>5, <2>3, <2>4, <2>5, <2>6, CallOf, OneCall
<1>. QED BY <1>3, <1>4, <1>5 DEF SeedLook

LEMMA SeedInsertKeeps == ASSUME RegistryIInv, NEW c \in Callers, SeedInsert(c) PROVE RegistryIInv'
<1>. DEFINE k == Key(call[c].row)
<1>1. call[c].op = "seed" /\ call[c].row # NoRow /\ k \notin Locked(c) /\ table' = table BY DEF SeedInsert
<1>2. CallOK(call[c]) /\ IsCall(call[c]) /\ call[c].at \in DOMAIN Catalog /\ call[c].at \in Nat
      /\ call[c].row = HouseRow(Catalog[call[c].at]) /\ Passed(call[c])
  BY <1>1, CallOf DEF CallOK
<1>3. CASE Replies(c, 500, table, {}) BY <1>1, <1>3, Answered
<1>4. CASE /\ k \notin Keys
           /\ call' = [call EXCEPT ![c].at = @ + 1, ![c].row = NoRow, ![c].pending = @ \cup {k}]
           /\ UNCHANGED <<table, answers>>
  <2>. DEFINE r == [call[c] EXCEPT !.at = @ + 1, !.row = NoRow, !.pending = @ \cup {k}]
  <2>1. r.op = "seed" /\ r.at = call[c].at + 1 /\ r.row = NoRow /\ r.pending = call[c].pending \cup {k} /\ IsCall(r)
    BY <1>1, <1>2 DEF IsCall
  <2>2. Catalog[call[c].at] \in STRING BY <1>2, CatalogNames
  <2>3. k = <<Catalog[call[c].at], 1>> BY <1>2, <2>2, HouseKey
  <2>4. Passed(r)
    <3>1. ASSUME NEW i \in DOMAIN Catalog, i < r.at PROVE Catalog[i] \in PresentNames \/ <<Catalog[i], 1>> \in r.pending
      <4>1. i \in Nat /\ (i < call[c].at \/ i = call[c].at) BY <1>2, <2>1, <3>1, CatalogNames
      <4>. QED BY <1>2, <2>1, <2>3, <4>1 DEF Passed
    <3>. QED BY <3>1 DEF Passed
  <2>5. IsFiniteSet(r.pending) /\ r.pending \subseteq STRING \X {1}
    <3>1. IsFiniteSet(call[c].pending) /\ call[c].pending \subseteq STRING \X {1} BY <1>2 DEF CallOK
    <3>2. IsFiniteSet(call[c].pending \cup {k}) BY <3>1, FS_AddElement
    <3>. QED BY <2>1, <2>2, <2>3, <3>1, <3>2
  <2>6. CallOK(r) BY <1>2, <2>1, <2>4, <2>5 DEF CallOK
  <2>7. call' = [call EXCEPT ![c] = r] BY <1>4
  <2>8. SeedsAnswered' BY <1>4 DEF SeedsAnswered, RegistryIInv
  <2>9. r.pending \cap Keys = {} /\ r.pending \cap Locked(c) = {} BY <1>1, <1>4, <2>1, CallOf
  <2>. HIDE DEF r
  <2>. QED BY <1>4, <2>6, <2>7, <2>8, <2>9, OneCall
<1>. QED BY <1>3, <1>4 DEF SeedInsert

LEMMA SeedCommitKeeps == ASSUME RegistryIInv, NEW c \in Callers, SeedCommit(c) PROVE RegistryIInv'
<1>. DEFINE P == call[c].pending
            H == {HouseRow(k[1]) : k \in P}
            extra == SetToSeq(H)
<1>1. call[c].op = "seed" /\ call[c].at > Len(Catalog) /\ table' = table \o extra /\ Replies(c, 200, table', {})
  BY DEF SeedCommit, Append2
<1>2. CallOK(call[c]) /\ Passed(call[c]) /\ IsFiniteSet(P) /\ P \subseteq STRING \X {1} /\ call[c].at \in Nat
      /\ P \cap Keys = {} /\ P \cap Locked(c) = {}
  BY <1>1, CallOf DEF CallOK
<1>3. \A k \in P : k[1] \in STRING /\ k = <<k[1], 1>> BY <1>2
<1>4. \A h \in H : h \in StrategyRows /\ Key(h) \in P BY <1>3, HouseKey
<1>5. \A h \in H, g \in H : Key(h) = Key(g) => h = g
  <2>1. \A h \in H : \E n \in STRING : h = HouseRow(n) /\ Key(h) = <<n, 1>> BY <1>3, HouseKey
  <2>2. \A n \in STRING, m \in STRING : <<n, 1>> = <<m, 1>> => n = m OBVIOUS
  <2>. HIDE DEF H
  <2>. QED BY <2>1, <2>2
<1>6. IsFiniteSet(H)
  <2>. DEFINE f == [k \in P |-> HouseRow(k[1])]
  <2>1. f \in Surjection(P, H) BY DEF Surjection
  <2>. HIDE DEF f, H
  <2>. QED BY <1>2, <2>1, FS_Surjection
<1>7. Cardinality(H) \in Nat BY <1>6, FS_CardinalityType
<1>. HIDE DEF H
<1>8. /\ extra \in Seq(H) /\ Len(extra) = Cardinality(H)
      /\ \A i, j \in 1 .. Cardinality(H) : i # j => extra[i] # extra[j]
      /\ \A x \in H : \E i \in 1 .. Cardinality(H) : extra[i] = x
  BY <1>6, Listed
<1>. HIDE DEF extra
<1>9. DOMAIN extra = 1 .. Cardinality(H) /\ \A i \in DOMAIN extra : extra[i] \in H BY <1>8, LenProperties, ElementOfSeq
<1>10. extra \in Seq(StrategyRows) BY <1>4, <1>7, <1>8, <1>9, IsASeq
<1>11. \A i, j \in DOMAIN extra : i # j => Key(extra[i]) # Key(extra[j]) BY <1>5, <1>8, <1>9
<1>12. \A i \in DOMAIN extra : Key(extra[i]) \notin Keys \cup Locked(c) BY <1>2, <1>4, <1>9
<1>13. call' = [call EXCEPT ![c] = NoCall] BY <1>1 DEF Replies
<1>14. SeedsAnswered'
  <2>. DEFINE present == {table'[i].name : i \in DOMAIN table'}
  <2>1. \A a \in answers' : a \in answers \/ a.present = present BY <1>1 DEF Replies
  <2>2. Range(Catalog) \subseteq present
    <3>0. table \in Seq(StrategyRows) BY DEF RegistryIInv, RegistryTypes
    <3>1. /\ DOMAIN table = 1 .. Len(table) /\ Len(table) \in Nat /\ Len(extra) \in Nat /\ DOMAIN extra = 1 .. Len(extra)
          /\ DOMAIN table' = 1 .. Len(table) + Len(extra)
          /\ \A i \in 1 .. Len(table) + Len(extra) :
               table'[i] = IF i <= Len(table) THEN table[i] ELSE extra[i - Len(table)]
      BY <1>1, <1>10, <3>0, ConcatProperties, LenProperties
    <3>2. \A n \in PresentNames : n \in present
      <4>1. \A i \in DOMAIN table : i \in DOMAIN table' /\ table'[i] = table[i] BY <3>1
      <4>. QED BY <4>1 DEF PresentNames
    <3>3. \A h \in H : h.name \in present
      <4>1. TAKE h \in H
      <4>2. PICK j \in 1 .. Cardinality(H) : extra[j] = h BY <1>8
      <4>3. j + Len(table) \in DOMAIN table' /\ table'[j + Len(table)] = h
        <5>1. j \in 1 .. Len(extra) BY <4>2, <1>8
        <5>. DEFINE i == j + Len(table)
        <5>2. i \in 1 .. Len(table) + Len(extra) /\ ~(i <= Len(table)) /\ i - Len(table) = j BY <3>1, <5>1
        <5>. HIDE DEF i
        <5>3. table'[i] = h BY <3>1, <4>2, <5>2
        <5>. QED BY <3>1, <5>2, <5>3 DEF i
      <4>. QED BY <4>3
    <3>4. \A i \in DOMAIN Catalog : Catalog[i] \in present
      <4>1. TAKE i \in DOMAIN Catalog
      <4>2. i < call[c].at BY <1>1, <1>2, CatalogNames
      <4>3. CASE Catalog[i] \in PresentNames BY <3>2, <4>3
      <4>4. CASE <<Catalog[i], 1>> \in P
        <5>1. Catalog[i] \in STRING BY CatalogNames
        <5>2. HouseRow(Catalog[i]) \in H BY <4>4 DEF H
        <5>. QED BY <3>3, <5>1, <5>2, HouseKey
      <4>. QED BY <1>2, <4>2, <4>3, <4>4 DEF Passed
    <3>. QED BY <3>4 DEF Range
  <2>. HIDE DEF present
  <2>. QED BY <2>1, <2>2 DEF RegistryIInv, SeedsAnswered
<1>. QED BY <1>1, <1>10, <1>11, <1>12, <1>13, <1>14, RowsAdded

LEMMA EvaluateSymbolKeeps == ASSUME RegistryIInv, NEW c \in Callers, EvaluateSymbol(c) PROVE RegistryIInv'
<1>1. call[c].op = "evaluate" /\ table' = table BY DEF EvaluateSymbol
<1>2. CASE Replies(c, 500, table, {}) BY <1>1, <1>2, Answered
<1>3. CASE answers' = answers /\ \E o : call' = [call EXCEPT ![c].at = @ + 1, ![c].out = o]
  <2>1. PICK o : call' = [call EXCEPT ![c].at = @ + 1, ![c].out = o] BY <1>3
  <2>. DEFINE r == [call[c] EXCEPT !.at = @ + 1, !.out = o]
  <2>2. CallOK(call[c]) /\ IsCall(call[c]) /\ call[c].at \in Nat BY CallOf DEF CallOK
  <2>3. r.op = "evaluate" /\ r.at = call[c].at + 1 /\ r.pending = call[c].pending /\ IsCall(r) BY <1>1, <2>2 DEF IsCall
  <2>4. CallOK(r) BY <1>1, <2>2, <2>3 DEF CallOK
  <2>5. call' = [call EXCEPT ![c] = r] BY <2>1
  <2>6. SeedsAnswered' BY <1>3 DEF SeedsAnswered, RegistryIInv
  <2>. HIDE DEF r
  <2>. QED BY <1>1, <2>3, <2>4, <2>5, <2>6, CallOf, OneCall
<1>. QED BY <1>2, <1>3 DEF EvaluateSymbol

LEMMA NextRegistry == RegistryIInv /\ [RegistryNext]_registryVars => RegistryIInv'
<1>. SUFFICES ASSUME RegistryIInv, [RegistryNext]_registryVars PROVE RegistryIInv' OBVIOUS
<1>1. CASE SetStatus BY <1>1, SetStatusKeeps
<1>2. ASSUME NEW c \in Callers, RegistryStep(c) PROVE RegistryIInv'
  <2>1. CASE Create(c)
    <3>1. PICK b \in Bodies : Begins(c, "create", NoRow, b) BY <2>1 DEF Create
    <3>2. b \in StrategyRows BY RegistryAssumption
    <3>. QED BY <3>1, <3>2, BeginsKeeps
  <2>2. CASE CreateEnds(c) BY <2>2, CreateEndsKeeps
  <2>3. CASE Seed(c) BY <2>3, BeginsKeeps DEF Seed
  <2>4. CASE SeedLook(c) BY <2>4, SeedLookKeeps
  <2>5. CASE SeedInsert(c) BY <2>5, SeedInsertKeeps
  <2>6. CASE SeedCommit(c) BY <2>6, SeedCommitKeeps
  <2>7. CASE Evaluate(c) BY <2>7, BeginsKeeps DEF Evaluate
  <2>8. CASE EvaluateSymbol(c) BY <2>8, EvaluateSymbolKeeps
  <2>9. CASE EvaluateCommit(c)
    <3>1. table' = table /\ call[c].op = "evaluate" /\ \E fired : Replies(c, 200, table, fired)
      BY <2>9 DEF EvaluateCommit
    <3>. QED BY <3>1, Answered
  <2>10. CASE Aborted(c)
    <3>1. call' = [call EXCEPT ![c] = NoCall] /\ table' = table /\ SeedsAnswered'
      BY <2>10 DEF Aborted, RegistryIInv, SeedsAnswered
    <3>. QED BY <3>1, IdleCall, OneCall
  <2>. QED BY <1>2, <2>1, <2>2, <2>3, <2>4, <2>5, <2>6, <2>7, <2>8, <2>9, <2>10 DEF RegistryStep
<1>3. CASE UNCHANGED registryVars
  <2>1. table' = table /\ call' = call /\ answers' = answers BY <1>3 DEF registryVars
  <2>2. CallsOK' BY <2>1 DEF CallsOK, CallOK, Passed, PresentNames, RegistryIInv
  <2>. QED BY <2>1, <2>2 DEF RegistryIInv, RegistryTypes, Apart, Keys, OneKey, SeedsAnswered
<1>. QED BY <1>1, <1>2, <1>3 DEF RegistryNext

(* For any catalog, creations and number of concurrent requests: no        *)
(* (name, version) is there twice, and a seed that answered 200 has left   *)
(* every name of the catalog.                                              *)
THEOREM SeedingIsIdempotent == RegistrySpec => []SeedIsIdempotent
<1>1. RegistryIInv => SeedIsIdempotent BY DEF RegistryIInv, OneKey, SeedsAnswered, SeedIsIdempotent
<1>. QED BY <1>1, InitRegistry, NextRegistry, PTL DEF RegistrySpec

(* Signals are written by the answer that reports them, and by it alone.   *)
LEMMA NextSignals == SignalsAreAnswered /\ [RegistryNext]_registryVars => SignalsAreAnswered'
<1>. SUFFICES ASSUME SignalsAreAnswered, [RegistryNext]_registryVars PROVE SignalsAreAnswered' OBVIOUS
<1>1. CASE /\ signalRows' = signalRows
           /\ answers' = answers \/ \E a : a.fired = {} /\ answers' = answers \cup {a}
  BY <1>1 DEF SignalsAreAnswered
<1>2. ASSUME NEW c \in Callers, NEW status, NEW rows, Replies(c, status, rows, {})
      PROVE  \E a : a.fired = {} /\ answers' = answers \cup {a}
  BY <1>2 DEF Replies
<1>3. ASSUME NEW c \in Callers, EvaluateCommit(c) PROVE SignalsAreAnswered'
  <2>. DEFINE S == Range(call[c].out)
              a == [status |-> 200, op |-> "evaluate", id |-> call[c].id, fired |-> S,
                    present |-> {table[i].name : i \in DOMAIN table}]
  <2>1. /\ answers' = answers \cup {a}
        /\ signalRows' = signalRows \cup {[id |-> call[c].id, symbol |-> s] : s \in S}
    BY <1>3 DEF EvaluateCommit, Replies
  <2>2. a.op = "evaluate" /\ a.status = 200 /\ a.id = call[c].id /\ a.fired = S OBVIOUS
  <2>. DEFINE rows == {[id |-> call[c].id, symbol |-> s] : s \in S}
  <2>3. \A r \in rows : r.id = call[c].id /\ r.symbol \in S OBVIOUS
  <2>4. ASSUME NEW s \in S PROVE \E r \in rows : r.id = call[c].id /\ r.symbol = s
    <3>1. [id |-> call[c].id, symbol |-> s] \in rows OBVIOUS
    <3>. HIDE DEF rows
    <3>. QED BY <3>1
  <2>. HIDE DEF a, S, rows
  <2>5. \A r \in signalRows' : \E b \in answers' : b.op = "evaluate" /\ b.status = 200 /\ b.id = r.id /\ r.symbol \in b.fired
    BY <2>1, <2>2, <2>3 DEF SignalsAreAnswered, rows
  <2>6. \A b \in answers' : \A s \in b.fired : \E r \in signalRows' : r.id = b.id /\ r.symbol = s
    BY <2>1, <2>2, <2>4 DEF SignalsAreAnswered, rows
  <2>. QED BY <2>5, <2>6 DEF SignalsAreAnswered
<1>4. CASE UNCHANGED registryVars BY <1>1, <1>4 DEF registryVars
<1>5. CASE SetStatus BY <1>1, <1>5 DEF SetStatus
<1>6. ASSUME NEW c \in Callers, RegistryStep(c), ~EvaluateCommit(c) PROVE SignalsAreAnswered'
  <2>1. CASE Create(c) \/ Seed(c) \/ Evaluate(c) BY <1>1, <2>1 DEF Create, Seed, Evaluate, Begins
  <2>2. CASE CreateEnds(c) BY <1>1, <1>2, <2>2 DEF CreateEnds
  <2>3. CASE SeedLook(c) BY <1>1, <1>2, <2>3 DEF SeedLook
  <2>4. CASE SeedInsert(c) BY <1>1, <1>2, <2>4 DEF SeedInsert
  <2>5. CASE SeedCommit(c) BY <1>1, <1>2, <2>5 DEF SeedCommit
  <2>6. CASE EvaluateSymbol(c) BY <1>1, <1>2, <2>6 DEF EvaluateSymbol
  <2>7. CASE Aborted(c) BY <1>1, <2>7 DEF Aborted
  <2>. QED BY <1>6, <2>1, <2>2, <2>3, <2>4, <2>5, <2>6, <2>7 DEF RegistryStep
<1>. QED BY <1>3, <1>4, <1>5, <1>6 DEF RegistryNext

(* Whatever evaluations raise, are aborted or overlap: the signal rows are *)
(* those of the evaluations that were answered, whole.                     *)
THEOREM SignalsAreTheAnswered == RegistrySpec => []SignalsAreAnswered
<1>1. RegistryInit => SignalsAreAnswered BY DEF RegistryInit, SignalsAreAnswered
<1>. QED BY <1>1, NextSignals, PTL DEF RegistrySpec

-----------------------------------------------------------------------------
(***************************************************************************)
(* The life of a position row (ExitWatch).                                 *)
(***************************************************************************)
(* An opening fill moves away from flat, by its whole quantity.            *)
LEMMA OpeningGrows ==
    ASSUME NEW c \in Int, NEW held \in Int, NEW entry \in Int, NEW side \in Sides,
           NEW size \in Nat, NEW price \in Int, NEW fee \in Int, IsOpening(side, held)
    PROVE  apply_fill(c, held, entry, side, size, price, fee).qty
             = IF side = "buy" THEN held + size ELSE held - size
<1>1. CASE side = "buy"
  <2>1. held >= 0 BY <1>1 DEF IsOpening
  <2>2. apply_fill(c, held, entry, side, size, price, fee) = OpenLong(c, held, entry, size, price, fee)
    BY <1>1, <2>1, ApplyFillArms
  <2>. QED BY <1>1, <2>2 DEF OpenLong, FillOutcome
<1>2. CASE side = "sell"
  <2>1. held <= 0 BY <1>2 DEF IsOpening
  <2>2. apply_fill(c, held, entry, side, size, price, fee) = OpenShort(c, held, entry, size, price, fee)
    BY <1>2, <2>1, ApplyFillArms
  <2>. QED BY <1>2, <2>2 DEF OpenShort, FillOutcome
<1>. QED BY <1>1, <1>2 DEF Sides

(* A reducing fill stops at flat.                                          *)
LEMMA ClosingShrinks ==
    ASSUME NEW c \in Int, NEW held \in Int, NEW entry \in Int, NEW side \in Sides,
           NEW size \in Nat, NEW price \in Int, NEW fee \in Int, ~IsOpening(side, held)
    PROVE  apply_fill(c, held, entry, side, size, price, fee).qty
             = IF side = "buy" THEN held + CappedQty(size, -held) ELSE held - CappedQty(size, held)
<1>1. CASE side = "buy"
  <2>1. held < 0 BY <1>1 DEF IsOpening
  <2>2. apply_fill(c, held, entry, side, size, price, fee) = CoverShort(c, held, entry, size, price, fee)
    BY <1>1, <2>1, ApplyFillArms
  <2>. QED BY <1>1, <2>2 DEF CoverShort, FillOutcome
<1>2. CASE side = "sell"
  <2>1. held > 0 BY <1>2 DEF IsOpening
  <2>2. apply_fill(c, held, entry, side, size, price, fee) = CloseLong(c, held, entry, size, price, fee)
    BY <1>2, <2>1, ApplyFillArms
  <2>. QED BY <1>2, <2>2 DEF CloseLong, FillOutcome
<1>. QED BY <1>1, <1>2 DEF Sides

(* The levels of a row, the trailing one measured from `best`, are reached *)
(* exactly when evaluate_exit says so.                                     *)
LEMMA ExitMeansCrossed ==
    ASSUME NEW r, r.avg \in Int, r.qty \in Int, r.hw \in Int,
           r.sl \in Int \cup {None}, r.tp \in Int \cup {None}, r.ts \in Int \cup {None},
           NEW last \in Int
    PROVE  LET d == evaluate_exit(r.avg, last, r.qty, r.hw, r.sl, r.tp, r.ts)
           IN  /\ d.high_water = IF r.qty < 0 THEN Smaller(r.hw, last) ELSE Larger(r.hw, last)
               /\ d.should_exit <=> IF r.qty < 0 THEN CrossedShort(r, d.high_water, last)
                                                 ELSE CrossedLong(r, d.high_water, last)
<1>. DEFINE d     == evaluate_exit(r.avg, last, r.qty, r.hw, r.sl, r.tp, r.ts)
            wm    == Ratchet(r.qty, r.hw, r.avg, last)
            now   == last * PctUnit
            fixed == StopLevel(r.qty, r.avg, r.sl)
            trail == StopLevel(r.qty, wm, r.ts)
            goal  == TargetLevel(r.qty, r.avg, r.tp)
            useFixed == Active(r.sl) /\ (Active(r.ts) => AtOrBeyond(r.qty, fixed, trail))
            stopped  == \/ useFixed /\ AtOrBeyond(r.qty, fixed, now)
                        \/ ~useFixed /\ Active(r.ts) /\ AtOrBeyond(r.qty, trail, now)
            profit   == Active(r.tp) /\ AtOrBeyond(r.qty, now, goal)
<1>1. d.high_water = wm /\ (d.should_exit <=> stopped \/ profit) BY DEF evaluate_exit
<1>2. wm = IF r.qty < 0 THEN Smaller(r.hw, last) ELSE Larger(r.hw, last)
  BY NoneAssumption DEF Ratchet
<1>3. wm \in Int BY <1>2 DEF Smaller, Larger
<1>4. now \in Int BY DEF PctUnit
<1>5. CASE r.qty < 0
  <2>1. Direction(r.qty) = -1 BY <1>5 DEF Direction
  <2>2. Active(r.sl) => fixed \in Int /\ fixed = r.avg * (PctUnit + r.sl)
    BY <2>1 DEF Active, StopLevel, PctUnit
  <2>3. Active(r.ts) => trail \in Int /\ trail = wm * (PctUnit + r.ts)
    BY <1>3, <2>1 DEF Active, StopLevel, PctUnit
  <2>4. Active(r.tp) => goal \in Int /\ goal = r.avg * (PctUnit - r.tp)
    BY <2>1 DEF Active, TargetLevel, PctUnit
  <2>5. \A x, y \in Int : AtOrBeyond(r.qty, x, y) <=> x <= y BY <2>1 DEF AtOrBeyond
  <2>. HIDE DEF wm, now, fixed, trail, goal
  <2>6. stopped <=> \/ Active(r.sl) /\ now >= fixed
                    \/ Active(r.ts) /\ now >= trail
    BY <1>4, <2>2, <2>3, <2>5
  <2>7. profit <=> Active(r.tp) /\ now <= goal BY <1>4, <2>4, <2>5
  <2>8. CrossedShort(r, wm, last) <=> stopped \/ profit
    BY <2>2, <2>3, <2>4, <2>6, <2>7 DEF CrossedShort, now
  <2>. QED BY <1>1, <1>2, <1>5, <2>8
<1>6. CASE ~(r.qty < 0)
  <2>1. Direction(r.qty) = 1 BY <1>6 DEF Direction
  <2>2. Active(r.sl) => fixed \in Int /\ fixed = r.avg * (PctUnit - r.sl)
    BY <2>1 DEF Active, StopLevel, PctUnit
  <2>3. Active(r.ts) => trail \in Int /\ trail = wm * (PctUnit - r.ts)
    BY <1>3, <2>1 DEF Active, StopLevel, PctUnit
  <2>4. Active(r.tp) => goal \in Int /\ goal = r.avg * (PctUnit + r.tp)
    BY <2>1 DEF Active, TargetLevel, PctUnit
  <2>5. \A x, y \in Int : AtOrBeyond(r.qty, x, y) <=> x >= y BY <2>1 DEF AtOrBeyond
  <2>. HIDE DEF wm, now, fixed, trail, goal
  <2>6. stopped <=> \/ Active(r.sl) /\ now <= fixed
                    \/ Active(r.ts) /\ now <= trail
    BY <1>4, <2>2, <2>3, <2>5
  <2>7. profit <=> Active(r.tp) /\ now >= goal BY <1>4, <2>4, <2>5
  <2>8. CrossedLong(r, wm, last) <=> stopped \/ profit
    BY <2>2, <2>3, <2>4, <2>6, <2>7 DEF CrossedLong, now
  <2>. QED BY <1>1, <1>2, <1>6, <2>8
<1>. QED BY <1>5, <1>6

WatchIInv ==
    /\ row \in PosRows({1}) \cup {None}
    /\ seen \subseteq Int
    /\ row = None => seen = {}
    /\ HighWaterIsExtreme

LEMMA RowsAreSome == None \notin PosRows({1})
<1>1. PosRows({1}) \subseteq PosRows(Nat) BY DEF PosRows
<1>. QED BY <1>1, RowAssumption

LEMMA WatchRow ==
    ASSUME WatchIInv, row # None
    PROVE  /\ row.qty \in Int /\ row.qty # 0 /\ row.avg \in Int /\ row.hw \in Int
           /\ row.sl \in Int \cup {None} /\ row.tp \in Int \cup {None} /\ row.ts \in Int \cup {None}
           /\ IsBest(row.hw, seen, row.qty)
  BY DEF WatchIInv, PosRows, HighWaterIsExtreme

(* The best of a set and one more price.                                   *)
LEMMA BestExtends ==
    ASSUME NEW S \in SUBSET Int, NEW x \in Int, NEW p \in Int, NEW q \in Int, NEW q2 \in Int, IsBest(x, S, q),
           q2 < 0 <=> q < 0
    PROVE  IsBest(IF q2 < 0 THEN Smaller(x, p) ELSE Larger(x, p), S \cup {p}, q2)
  BY DEF IsBest, Smaller, Larger

LEMMA BestUnique ==
    ASSUME NEW S \in SUBSET Int, NEW x, NEW y, NEW q \in Int, IsBest(x, S, q), IsBest(y, S, q)
    PROVE  x = y
<1>1. x \in Int /\ y \in Int BY DEF IsBest
<1>. QED BY <1>1 DEF IsBest

LEMMA FillKeeps ==
    ASSUME WatchIInv, NEW side \in Sides, NEW price \in LookPrices, NEW lv \in OrderLevels,
           FillOne(side, price, lv)
    PROVE  WatchIInv'
<1>. DEFINE held    == HeldQty(row)
            entry   == HeldAvg(row)
            out     == apply_fill(0, held, entry, side, 1, price, 0)
            opening == IsOpening(side, held)
            after   == RowAfter(row, 1, opening, out, price, lv)
<1>1. price \in Int /\ price # None BY WatchAssumption, NoneAssumption DEF Amounts
<1>2. lv \in [sl : Int \cup {None}, tp : Int \cup {None}, ts : Int \cup {None}]
  BY WatchAssumption DEF OrderLevels
<1>3. held \in Int /\ entry \in Int /\ (row = None => held = 0) /\ (row # None => held = row.qty /\ held # 0)
  BY WatchRow DEF HeldQty, HeldAvg
<1>. HIDE DEF held, entry
<1>4. out.qty \in Int /\ out.avg \in Int
  <2>1. out \in [cash : Int, qty : Int, avg : Int, realized : Int, filled : Nat, fee : Int]
    BY <1>1, <1>3, ApplyFillTypes
  <2>. QED BY <2>1
<1>5. opening => out.qty = IF side = "buy" THEN held + 1 ELSE held - 1
  BY <1>1, <1>3, OpeningGrows
<1>6. ~opening => out.qty = IF side = "buy" THEN held + CappedQty(1, -held) ELSE held - CappedQty(1, held)
  BY <1>1, <1>3, ClosingShrinks
<1>7. row' = after /\ seen' = CASE row' = None -> {}
                     [] row' # None /\ opening -> seen \cup {price}
                     [] row' # None /\ ~opening -> seen
  BY DEF FillOne, held, entry
<1>. HIDE DEF out, after
<1>8. after \in PosRows({1}) \cup {None}
  <2>1. row \in PosRows({1}) \cup {None} BY DEF WatchIInv
  <2>. QED BY <1>1, <1>2, <1>4, <2>1, RowAfterTypes DEF after, held
<1>9. CASE after = None BY <1>7, <1>9 DEF WatchIInv, HighWaterIsExtreme
<1>10. CASE after # None /\ opening
  <2>1. out.qty # 0 BY <1>10 DEF after, RowAfter
  <2>2. after = OpenedRow(row, 1, out, price, lv) BY <1>10, <2>1 DEF after, RowAfter
  <2>3. after.qty = out.qty BY <2>2 DEF OpenedRow
  <2>4. IsBest(after.hw, seen \cup {price}, after.qty)
    <3>1. CASE row = None
      <4>1. seen = {} /\ after.hw = price BY <2>2, <3>1 DEF OpenedRow, WatchIInv
      <4>. QED BY <1>1, <4>1 DEF IsBest
    <3>2. CASE row # None
      <4>1. after.hw = IF out.qty < 0 THEN Smaller(row.hw, price) ELSE Larger(row.hw, price)
        BY <2>2, <3>2 DEF OpenedRow
      <4>2. out.qty < 0 <=> row.qty < 0
        BY <1>3, <1>5, <1>10, <3>2 DEF Sides, IsOpening
      <4>3. row.qty \in Int /\ row.hw \in Int /\ IsBest(row.hw, seen, row.qty) BY <3>2, WatchRow
      <4>4. seen \in SUBSET Int BY DEF WatchIInv
      <4>. QED BY <1>1, <1>4, <2>3, <4>1, <4>2, <4>3, <4>4, BestExtends
    <3>. QED BY <3>1, <3>2
  <2>5. seen' = seen \cup {price} BY <1>7, <1>10
  <2>. QED BY <1>1, <1>7, <1>8, <1>10, <2>4, <2>5 DEF WatchIInv, HighWaterIsExtreme
<1>11. CASE after # None /\ ~opening
  <2>1. out.qty # 0 BY <1>11 DEF after, RowAfter
  <2>2. row # None BY <1>3, <1>11 DEF IsOpening, Sides
  <2>3. after = [row EXCEPT !.qty = out.qty, !.avg = out.avg] BY <1>11, <2>1 DEF after, RowAfter
  <2>4. row \in PosRows({1}) BY <2>2 DEF WatchIInv
  <2>5. after.hw = row.hw /\ after.qty = out.qty BY <2>3, <2>4 DEF PosRows
  <2>6. out.qty < 0 <=> row.qty < 0
    BY <1>3, <1>6, <1>11, <2>1, <2>2 DEF Sides, IsOpening, CappedQty
  <2>7. row.qty \in Int /\ IsBest(row.hw, seen, row.qty) BY <2>2, WatchRow
  <2>8. IsBest(after.hw, seen, after.qty) BY <1>4, <2>5, <2>6, <2>7 DEF IsBest
  <2>9. seen' = seen BY <1>7, <1>11
  <2>. QED BY <1>7, <1>8, <1>11, <2>8, <2>9 DEF WatchIInv, HighWaterIsExtreme
<1>. QED BY <1>9, <1>10, <1>11

(* What a sweep does to the row, and that it exits exactly when a level is *)
(* crossed.                                                                *)
LEMMA LookExits ==
    ASSUME WatchIInv, NEW last \in LookPrices, Look(last)
    PROVE  WatchIInv' /\ (row' = None <=> Crossed(row, seen \cup {last}, last))
<1>. DEFINE d == evaluate_exit(row.avg, last, row.qty, row.hw, row.sl, row.tp, row.ts)
<1>1. row # None BY DEF Look
<1>2. row \in PosRows({1}) BY <1>1 DEF WatchIInv
<1>3. last \in Int BY WatchAssumption DEF Amounts
<1>4. /\ d.high_water = IF row.qty < 0 THEN Smaller(row.hw, last) ELSE Larger(row.hw, last)
      /\ d.should_exit <=> IF row.qty < 0 THEN CrossedShort(row, d.high_water, last)
                                          ELSE CrossedLong(row, d.high_water, last)
  BY <1>1, <1>3, WatchRow, ExitMeansCrossed
<1>5. /\ row' = IF d.should_exit THEN None ELSE [row EXCEPT !.hw = d.high_water]
      /\ seen' = IF d.should_exit THEN {} ELSE seen \cup {last}
  BY DEF Look
<1>. HIDE DEF d
<1>6. seen \in SUBSET Int BY DEF WatchIInv
<1>7. IsBest(d.high_water, seen \cup {last}, row.qty)
  BY <1>1, <1>3, <1>4, <1>6, WatchRow, BestExtends
<1>8. d.should_exit <=> Crossed(row, seen \cup {last}, last)
  <2>1. \A b : IsBest(b, seen \cup {last}, row.qty) => b = d.high_water
    BY <1>1, <1>3, <1>6, <1>7, WatchRow, BestUnique
  <2>2. d.high_water \in seen \cup {last} BY <1>7 DEF IsBest
  <2>. QED BY <1>4, <1>7, <2>1, <2>2 DEF Crossed
<1>9. d.high_water \in Int BY <1>3, <1>6, <1>7 DEF IsBest
<1>10. CASE d.should_exit
  <2>1. row' = None /\ seen' = {} BY <1>5, <1>10
  <2>. QED BY <1>8, <1>10, <2>1 DEF WatchIInv, HighWaterIsExtreme
<1>11. CASE ~d.should_exit
  <2>1. row' = [row EXCEPT !.hw = d.high_water] /\ seen' = seen \cup {last} BY <1>5, <1>11
  <2>2. row' \in PosRows({1}) /\ row'.hw = d.high_water /\ row'.qty = row.qty
    BY <1>2, <1>9, <2>1 DEF PosRows
  <2>3. row' # None BY <2>2, RowsAreSome
  <2>4. HighWaterIsExtreme' BY <1>7, <2>1, <2>2 DEF HighWaterIsExtreme
  <2>. QED BY <1>3, <1>6, <1>8, <1>11, <2>1, <2>2, <2>3, <2>4 DEF WatchIInv
<1>. QED BY <1>10, <1>11

LEMMA WatchInvariant == WatchSpec => []WatchIInv
<1>1. WatchInit => WatchIInv BY DEF WatchInit, WatchIInv, HighWaterIsExtreme
<1>2. WatchIInv /\ [WatchNext]_watchVars => WatchIInv'
  <2>. SUFFICES ASSUME WatchIInv, [WatchNext]_watchVars PROVE WatchIInv' OBVIOUS
  <2>1. CASE UNCHANGED watchVars BY <2>1 DEF watchVars, WatchIInv, HighWaterIsExtreme, IsBest
  <2>2. CASE WatchNext BY <2>2, FillKeeps, LookExits DEF WatchNext
  <2>. QED BY <2>1, <2>2
<1>. QED BY <1>1, <1>2, PTL DEF WatchSpec

(* For every price, level and sequence of fills and sweeps: the stored     *)
(* mark is the best price this life of the position has seen.              *)
THEOREM HighWaterAlwaysExtreme == WatchSpec => []HighWaterIsExtreme
<1>1. WatchIInv => HighWaterIsExtreme BY DEF WatchIInv
<1>. QED BY <1>1, WatchInvariant, PTL

(* No missed stop and no early exit, for any levels and prices.            *)
THEOREM SweepExitsExactly == WatchSpec => ExitsExactlyWhenCrossed
<1>1. WatchIInv /\ [WatchNext]_watchVars
        => [looked' # None => (row' = None <=> Crossed(row, seen \cup {looked'}, looked'))]_watchVars
  <2>1. ASSUME NEW side \in Sides, NEW price \in LookPrices, NEW lv \in OrderLevels, FillOne(side, price, lv)
        PROVE  looked' = None
    BY <2>1 DEF FillOne
  <2>2. ASSUME WatchIInv, NEW last \in LookPrices, Look(last)
        PROVE  row' = None <=> Crossed(row, seen \cup {looked'}, looked')
    <3>1. looked' = last BY <2>2 DEF Look
    <3>. QED BY <2>2, <3>1, LookExits
  <2>. QED BY <2>1, <2>2 DEF WatchNext
<1>. QED BY <1>1, WatchInvariant, PTL DEF WatchSpec, ExitsExactlyWhenCrossed

-----------------------------------------------------------------------------
(***************************************************************************)
(* Rounding, and what one fill adds to the books.                          *)
(***************************************************************************)
LEMMA Division ==
    ASSUME NEW a \in Int, NEW b \in Nat \ {0}
    PROVE  a \div b \in Int /\ b * (a \div b) <= a /\ a < b * (a \div b) + b
  OBVIOUS

LEMMA DivisionNat ==
    ASSUME NEW a \in Nat, NEW b \in Nat \ {0}
    PROVE  a \div b \in Nat /\ a % b \in Nat /\ a = b * (a \div b) + (a % b) /\ a % b < b
  OBVIOUS

LEMMA RoundError ==
    ASSUME NEW a \in Nat, NEW b \in Nat \ {0}
    PROVE  /\ RoundNat(a, b) \in Nat
           /\ 2 * (b * RoundNat(a, b)) <= 2 * a + b
           /\ 2 * a < 2 * (b * RoundNat(a, b)) + b
<1>. DEFINE q == a \div b
            r == a % b
<1>1. q \in Nat /\ r \in Nat /\ a = b * q + r /\ r < b BY DivisionNat
<1>2. RoundNat(a, b) = q + (IF 2 * r >= b THEN 1 ELSE 0) BY DEF RoundNat
<1>. HIDE DEF q, r
<1>3. CASE 2 * r >= b
  <2>1. RoundNat(a, b) = q + 1 BY <1>2, <1>3
  <2>2. b * (q + 1) = b * q + b BY <1>1
  <2>. QED BY <1>1, <1>3, <2>1, <2>2
<1>4. CASE ~(2 * r >= b)
  <2>1. RoundNat(a, b) = q BY <1>1, <1>2, <1>4
  <2>. QED BY <1>1, <1>4, <2>1
<1>. QED BY <1>3, <1>4

Within(x, bound) == -bound <= x /\ x <= bound

(* quantize is off by at most half a quantum, and positive from half a     *)
(* quantum on.                                                             *)
LEMMA QuantizeError ==
    ASSUME NEW num \in Int, NEW den \in Nat \ {0}
    PROVE  /\ quantize(num, den) \in Int /\ den * quantize(num, den) \in Int
           /\ Within(2 * (den * quantize(num, den)) - 2 * num, den)
           /\ quantize(num, den) > 0 <=> 2 * num >= den
<1>1. CASE num >= 0
  <2>. DEFINE q == RoundNat(num, den)
  <2>1. num \in Nat /\ quantize(num, den) = q BY <1>1 DEF quantize
  <2>2. q \in Nat /\ 2 * (den * q) <= 2 * num + den /\ 2 * num < 2 * (den * q) + den BY <2>1, RoundError
  <2>. HIDE DEF q
  <2>3. q >= 1 => den * q >= den BY <2>2
  <2>4. q = 0 => den * q = 0 BY <2>2
  <2>5. q > 0 <=> 2 * num >= den BY <2>1, <2>2, <2>3, <2>4
  <2>6. den * q \in Int BY <2>2
  <2>7. Within(2 * (den * q) - 2 * num, den) BY <2>1, <2>2, <2>6 DEF Within
  <2>. QED BY <2>1, <2>2, <2>5, <2>6, <2>7
<1>2. CASE num < 0
  <2>. DEFINE q == RoundNat(-num, den)
  <2>1. -num \in Nat /\ quantize(num, den) = -q BY <1>2 DEF quantize
  <2>2. q \in Nat /\ 2 * (den * q) <= 2 * (-num) + den /\ 2 * (-num) < 2 * (den * q) + den
    BY <2>1, RoundError
  <2>. HIDE DEF q
  <2>3. den * q \in Int /\ den * (-q) = -(den * q) BY <2>2
  <2>4. Within(2 * (den * (-q)) - 2 * num, den) BY <2>1, <2>2, <2>3 DEF Within
  <2>5. den * (-q) \in Int /\ -q \in Int /\ ~(-q > 0) /\ ~(2 * num >= den) BY <1>2, <2>2, <2>3
  <2>. QED BY <2>1, <2>4, <2>5
<1>. QED BY <1>1, <1>2

LEMMA MoneyError ==
    ASSUME NEW x \in Int, NEW extra \in Int
    PROVE  /\ quantize_money(x, extra) \in Int
           /\ Within(2 * (QtyUnit * quantize_money(x, extra)) - 2 * (x + QtyUnit * extra), QtyUnit)
           /\ quantize_money(x, extra) > 0 <=> 2 * (x + QtyUnit * extra) >= QtyUnit
<1>1. QtyUnit \in Nat \ {0} BY UnitsAssumption
<1>2. x + extra * QtyUnit \in Int /\ x + extra * QtyUnit = x + QtyUnit * extra BY <1>1
<1>. QED BY <1>1, <1>2, QuantizeError DEF quantize_money

Signed(side, size) == IF side = "buy" THEN size ELSE -size
Proceeds(side, x) == IF side = "buy" THEN -x ELSE x

(* An opening fill: the fee apart, the cash moves by the signed value of   *)
(* what was traded, to half a quantum; the entry is blended.               *)
LEMMA OpenFill ==
    ASSUME NEW c \in Int, NEW held \in Int, NEW entry \in Int, NEW side \in Sides,
           NEW size \in Nat \ {0}, NEW price \in Int, NEW fee \in Int, IsOpening(side, held)
    PROVE  LET out == apply_fill(c, held, entry, side, size, price, fee)
           IN  /\ out.realized = 0 /\ out.fee = fee
               /\ out.qty = held + Signed(side, size) /\ out.cash \in Int
               /\ Within(2 * (QtyUnit * (out.cash - c + fee)) + 2 * (Signed(side, size) * price), QtyUnit)
               /\ out.avg = BlendedEntry(Abs(held), entry, size, price)
<1>0. QtyUnit \in Nat \ {0} /\ size * price \in Int /\ -fee \in Int BY UnitsAssumption
<1>1. CASE side = "buy"
  <2>1. held >= 0 BY <1>1 DEF IsOpening
  <2>2. apply_fill(c, held, entry, side, size, price, fee) = OpenLong(c, held, entry, size, price, fee)
    BY <1>1, <2>1, ApplyFillArms
  <2>. DEFINE Q == quantize_money(size * price, fee)
  <2>3. Q \in Int /\ Within(2 * (QtyUnit * Q) - 2 * (size * price + QtyUnit * fee), QtyUnit)
    BY <1>0, MoneyError
  <2>4. apply_fill(c, held, entry, side, size, price, fee)
          = FillOutcome(c - Q, held + size, BlendedEntry(held, entry, size, price), 0, size, fee)
    BY <2>2 DEF OpenLong
  <2>. HIDE DEF Q
  <2>5. QtyUnit * ((c - Q) - c + fee) = QtyUnit * fee - QtyUnit * Q BY <1>0, <2>3
  <2>6. Within(2 * (QtyUnit * ((c - Q) - c + fee)) + 2 * (size * price), QtyUnit)
    BY <1>0, <2>3, <2>5 DEF Within
  <2>7. Abs(held) = held BY <2>1 DEF Abs
  <2>. QED BY <1>1, <2>3, <2>4, <2>6, <2>7 DEF FillOutcome, Signed
<1>2. CASE side = "sell"
  <2>1. held <= 0 BY <1>2 DEF IsOpening
  <2>2. apply_fill(c, held, entry, side, size, price, fee) = OpenShort(c, held, entry, size, price, fee)
    BY <1>2, <2>1, ApplyFillArms
  <2>. DEFINE Q == quantize_money(size * price, -fee)
  <2>3. Q \in Int /\ Within(2 * (QtyUnit * Q) - 2 * (size * price + QtyUnit * (-fee)), QtyUnit)
    BY <1>0, MoneyError
  <2>4. apply_fill(c, held, entry, side, size, price, fee)
          = FillOutcome(c + Q, held - size, BlendedEntry(-held, entry, size, price), 0, size, fee)
    BY <2>2 DEF OpenShort
  <2>. HIDE DEF Q
  <2>5. QtyUnit * ((c + Q) - c + fee) = QtyUnit * fee + QtyUnit * Q /\ QtyUnit * (-fee) = -(QtyUnit * fee)
        /\ (-size) * price = -(size * price) /\ QtyUnit * fee \in Int /\ QtyUnit * Q \in Int
    BY <1>0, <2>3
  <2>6. Within(2 * (QtyUnit * ((c + Q) - c + fee)) + 2 * ((-size) * price), QtyUnit)
    BY <1>0, <2>3, <2>5 DEF Within
  <2>7. Abs(held) = -held /\ held + (-size) = held - size BY <2>1 DEF Abs
  <2>. QED BY <1>2, <2>3, <2>4, <2>6, <2>7 DEF FillOutcome, Signed
<1>. QED BY <1>1, <1>2 DEF Sides

(* A reducing fill: what it realizes is what the cash and the cost basis   *)
(* gain, to half a quantum for each of the two roundings; and its result   *)
(* counts as a gain from half a quantum on.                                *)
ClosedFill(out, c, held, entry) ==
    /\ out.cash \in Int /\ out.realized \in Int /\ out.qty \in Int
    /\ out.avg = IF out.qty = 0 THEN 0 ELSE entry
    /\ IF held < 0 THEN held <= out.qty /\ out.qty <= 0 ELSE 0 <= out.qty /\ out.qty <= held
    /\ Within(2 * (QtyUnit * (out.cash - c - out.realized)) + 2 * (out.qty * out.avg - held * entry), 2 * QtyUnit)
    /\ \E net \in Int : /\ out.realized > 0 <=> 2 * net >= QtyUnit
                        /\ out.qty = 0 => Within(2 * (QtyUnit * (out.cash - c)) - 2 * (net + held * entry), QtyUnit)

LEMMA CloseFill ==
    ASSUME NEW c \in Int, NEW held \in Int, NEW entry \in Int, NEW side \in Sides,
           NEW size \in Nat, NEW price \in Int, NEW fee \in Int, ~IsOpening(side, held)
    PROVE  LET out == apply_fill(c, held, entry, side, size, price, fee)
           IN  ClosedFill(out, c, held, entry) /\ (size >= Abs(held) => out.qty = 0)
<1>0. QtyUnit \in Nat \ {0} BY UnitsAssumption
<1>1. CASE side = "buy"
  <2>1. held < 0 BY <1>1 DEF IsOpening
  <2>2. apply_fill(c, held, entry, side, size, price, fee) = CoverShort(c, held, entry, size, price, fee)
    BY <1>1, <2>1, ApplyFillArms
  <2>. DEFINE f == CappedQty(size, -held)
              g == ProratedFee(fee, f, size)
              Q == quantize_money(f * price, g)
              R == quantize_money(f * (entry - price), -g)
              net == f * (entry - price) + QtyUnit * (-g)
              after == held + f
              entryLeft == IF after < 0 THEN entry ELSE 0
              out == FillOutcome(c - Q, after, entryLeft, R, f, g)
  <2>3. f \in Nat /\ f <= -held /\ (size >= Abs(held) => f = -held) BY <2>1 DEF CappedQty, Abs
  <2>4. g \in Int BY <2>3, FeeInt
  <2>. HIDE DEF f, g
  <2>5. f * price \in Int /\ f * (entry - price) \in Int /\ -g \in Int /\ f * entry \in Int /\ held * entry \in Int
    BY <2>3, <2>4
  <2>6. Q \in Int /\ Within(2 * (QtyUnit * Q) - 2 * (f * price + QtyUnit * g), QtyUnit)
    BY <2>4, <2>5, MoneyError
  <2>7. /\ R \in Int /\ Within(2 * (QtyUnit * R) - 2 * net, QtyUnit)
        /\ R > 0 <=> 2 * net >= QtyUnit
    BY <2>4, <2>5, MoneyError
  <2>8. apply_fill(c, held, entry, side, size, price, fee) = out BY <2>2 DEF CoverShort, f, g
  <2>9. /\ f * (entry - price) = f * entry - f * price
        /\ QtyUnit * g \in Int /\ QtyUnit * (-g) = -(QtyUnit * g) /\ QtyUnit * Q \in Int /\ QtyUnit * R \in Int
    BY <1>0, <2>3, <2>4, <2>6, <2>7
  <2>10. net \in Int /\ net = f * entry - f * price - QtyUnit * g BY <2>5, <2>9
  <2>. HIDE DEF Q, R, net
  <2>11. QtyUnit * ((c - Q) - c - R) = -(QtyUnit * Q) - QtyUnit * R /\ QtyUnit * ((c - Q) - c) = -(QtyUnit * Q)
    BY <1>0, <2>6, <2>7
  <2>12. after \in Int /\ after <= 0 /\ held <= after /\ entryLeft = IF after = 0 THEN 0 ELSE entry
    BY <2>1, <2>3
  <2>13. after * entryLeft - held * entry = f * entry
    <3>1. CASE after = 0
      <4>1. f = -held BY <2>3, <3>1
      <4>2. f * entry = -(held * entry) BY <4>1
      <4>. QED BY <2>5, <2>12, <3>1, <4>2
    <3>2. CASE after # 0
      <4>1. entryLeft = entry BY <2>12, <3>2
      <4>2. (held + f) * entry = held * entry + f * entry BY <2>3
      <4>. QED BY <2>5, <4>1, <4>2
    <3>. QED BY <3>1, <3>2
  <2>. HIDE DEF entryLeft
  <2>14. Within(2 * (QtyUnit * ((c - Q) - c - R)) + 2 * (after * entryLeft - held * entry), 2 * QtyUnit)
    BY <1>0, <2>5, <2>6, <2>7, <2>9, <2>10, <2>11, <2>13 DEF Within
  <2>15. after = 0 => Within(2 * (QtyUnit * ((c - Q) - c)) - 2 * (net + held * entry), QtyUnit)
    <3>. SUFFICES ASSUME after = 0 PROVE Within(2 * (QtyUnit * ((c - Q) - c)) - 2 * (net + held * entry), QtyUnit)
      OBVIOUS
    <3>1. held * entry = -(f * entry) BY <2>3
    <3>. QED BY <1>0, <2>5, <2>6, <2>9, <2>10, <2>11, <3>1 DEF Within
  <2>16. ClosedFill(out, c, held, entry)
    BY <2>1, <2>6, <2>7, <2>10, <2>12, <2>14, <2>15 DEF ClosedFill, FillOutcome
  <2>17. size >= Abs(held) => out.qty = 0 BY <2>3 DEF FillOutcome
  <2>. QED BY <2>8, <2>16, <2>17
<1>2. CASE side = "sell"
  <2>1. held > 0 BY <1>2 DEF IsOpening
  <2>2. apply_fill(c, held, entry, side, size, price, fee) = CloseLong(c, held, entry, size, price, fee)
    BY <1>2, <2>1, ApplyFillArms
  <2>. DEFINE f == CappedQty(size, held)
              g == ProratedFee(fee, f, size)
              Q == quantize_money(f * price, -g)
              R == quantize_money(f * (price - entry), -g)
              net == f * (price - entry) + QtyUnit * (-g)
              after == held - f
              entryLeft == IF after > 0 THEN entry ELSE 0
              out == FillOutcome(c + Q, after, entryLeft, R, f, g)
  <2>3. f \in Nat /\ f <= held /\ (size >= Abs(held) => f = held) BY <2>1 DEF CappedQty, Abs
  <2>4. g \in Int BY <2>3, FeeInt
  <2>. HIDE DEF f, g
  <2>5. f * price \in Int /\ f * (price - entry) \in Int /\ -g \in Int /\ f * entry \in Int /\ held * entry \in Int
    BY <2>3, <2>4
  <2>6. Q \in Int /\ Within(2 * (QtyUnit * Q) - 2 * (f * price + QtyUnit * (-g)), QtyUnit)
    BY <2>4, <2>5, MoneyError
  <2>7. /\ R \in Int /\ Within(2 * (QtyUnit * R) - 2 * net, QtyUnit)
        /\ R > 0 <=> 2 * net >= QtyUnit
    BY <2>4, <2>5, MoneyError
  <2>8. apply_fill(c, held, entry, side, size, price, fee) = out BY <2>2 DEF CloseLong, f, g
  <2>9. /\ f * (price - entry) = f * price - f * entry
        /\ QtyUnit * g \in Int /\ QtyUnit * (-g) = -(QtyUnit * g) /\ QtyUnit * Q \in Int /\ QtyUnit * R \in Int
    BY <1>0, <2>3, <2>4, <2>6, <2>7
  <2>10. net \in Int /\ net = f * price - f * entry - QtyUnit * g BY <2>5, <2>9
  <2>. HIDE DEF Q, R, net
  <2>11. QtyUnit * ((c + Q) - c - R) = QtyUnit * Q - QtyUnit * R /\ QtyUnit * ((c + Q) - c) = QtyUnit * Q
    BY <1>0, <2>6, <2>7
  <2>12. after \in Int /\ after >= 0 /\ held >= after /\ entryLeft = IF after = 0 THEN 0 ELSE entry
    BY <2>1, <2>3
  <2>13. after * entryLeft - held * entry = -(f * entry)
    <3>1. CASE after = 0
      <4>1. f = held BY <2>3, <3>1
      <4>2. f * entry = held * entry BY <4>1
      <4>. QED BY <2>5, <2>12, <3>1, <4>2
    <3>2. CASE after # 0
      <4>1. entryLeft = entry BY <2>12, <3>2
      <4>2. (held - f) * entry = held * entry - f * entry BY <2>3
      <4>. QED BY <2>5, <4>1, <4>2
    <3>. QED BY <3>1, <3>2
  <2>. HIDE DEF entryLeft
  <2>14. Within(2 * (QtyUnit * ((c + Q) - c - R)) + 2 * (after * entryLeft - held * entry), 2 * QtyUnit)
    BY <1>0, <2>5, <2>6, <2>7, <2>9, <2>10, <2>11, <2>13 DEF Within
  <2>15. after = 0 => Within(2 * (QtyUnit * ((c + Q) - c)) - 2 * (net + held * entry), QtyUnit)
    <3>. SUFFICES ASSUME after = 0 PROVE Within(2 * (QtyUnit * ((c + Q) - c)) - 2 * (net + held * entry), QtyUnit)
      OBVIOUS
    <3>1. held * entry = f * entry BY <2>3
    <3>. QED BY <1>0, <2>5, <2>6, <2>9, <2>10, <2>11, <3>1 DEF Within
  <2>16. ClosedFill(out, c, held, entry)
    BY <2>1, <2>6, <2>7, <2>10, <2>12, <2>14, <2>15 DEF ClosedFill, FillOutcome
  <2>17. size >= Abs(held) => out.qty = 0 BY <2>3 DEF FillOutcome
  <2>. QED BY <2>8, <2>16, <2>17
<1>. QED BY <1>1, <1>2 DEF Sides

-----------------------------------------------------------------------------
(***************************************************************************)
(* The running book of a position (PositionBook).                          *)
(***************************************************************************)
(* The blended entry is an amount, and off by at most half a quantum for   *)
(* each quantum held.                                                      *)
LEMMA BlendError ==
    ASSUME NEW held \in Nat, NEW entry \in Nat, NEW size \in Nat \ {0}, NEW price \in Nat
    PROVE  LET blend == BlendedEntry(held, entry, size, price)
           IN  /\ blend \in Nat
               /\ Within(2 * ((held + size) * blend) - 2 * (held * entry + size * price), held + size)
<1>1. held + size \in Nat \ {0} /\ held + size > 0 OBVIOUS
<1>2. held * entry \in Nat /\ size * price \in Nat OBVIOUS
<1>3. held * entry + size * price \in Int /\ held * entry + size * price >= 0 BY <1>2
<1>4. BlendedEntry(held, entry, size, price) = quantize(held * entry + size * price, held + size)
  BY <1>1 DEF BlendedEntry
<1>5. quantize(held * entry + size * price, held + size) \in Nat BY <1>1, <1>3, QuantizeInt
<1>6. Within(2 * ((held + size) * quantize(held * entry + size * price, held + size))
               - 2 * (held * entry + size * price), held + size)
  BY <1>1, <1>3, QuantizeError
<1>. QED BY <1>4, <1>5, <1>6

(* The same with the sign of the position.                                 *)
LEMMA SignedBlendError ==
    ASSUME NEW held \in Int, NEW entry \in Nat, NEW side \in Sides, NEW size \in Nat \ {0}, NEW price \in Nat,
           IsOpening(side, held)
    PROVE  LET blend == BlendedEntry(Abs(held), entry, size, price)
               after == held + Signed(side, size)
           IN  /\ blend \in Nat
               /\ Within(2 * (after * blend) - 2 * (held * entry + Signed(side, size) * price), Abs(held) + size)
<1>. DEFINE blend == BlendedEntry(Abs(held), entry, size, price)
<1>1. Abs(held) \in Nat BY DEF Abs
<1>2. blend \in Nat /\ Within(2 * ((Abs(held) + size) * blend) - 2 * (Abs(held) * entry + size * price), Abs(held) + size)
  BY <1>1, BlendError
<1>. HIDE DEF blend
<1>3. CASE side = "buy"
  <2>1. Abs(held) = held BY <1>3 DEF IsOpening, Abs
  <2>. QED BY <1>2, <1>3, <2>1 DEF Signed, blend
<1>4. CASE side = "sell"
  <2>1. Abs(held) = -held /\ held <= 0 BY <1>4 DEF IsOpening, Abs
  <2>2. /\ (-held + size) * blend = -((held + (-size)) * blend)
        /\ (-held) * entry = -(held * entry) /\ (-size) * price = -(size * price)
        /\ (held + (-size)) * blend \in Int /\ held * entry \in Int /\ size * price \in Int
    BY <1>2
  <2>3. Within(2 * ((held + (-size)) * blend) - 2 * (held * entry + (-size) * price), Abs(held) + size)
    BY <1>2, <2>1, <2>2 DEF Within
  <2>. QED BY <1>2, <1>4, <2>3 DEF Signed, blend
<1>. QED BY <1>3, <1>4 DEF Sides

FillAllowance == 2 * QtyUnit + MaxFills * MaxSize
Gap(c, q, a, r, f) == QtyUnit * (c - StartingCash - r + f) + q * a

BookIInv == /\ BookTypeOK
            /\ Within(qty, fills * MaxSize)
            /\ Within(2 * Gap(cash, qty, avg, realized, openFees), fills * FillAllowance)

LEMMA SizesBounded == \A q \in Qtys : q <= MaxSize /\ MaxSize \in Nat /\ q \in Nat \ {0}
  BY BookAssumption DEF MaxSize

LEMMA ApplyFillKeeps ==
    ASSUME BookIInv, fills < MaxFills, NEW side \in Sides, NEW size \in Qtys, NEW price \in Prices,
           NEW fee \in Fees, ApplyFill(side, size, price, fee)
    PROVE  BookIInv'
<1>. DEFINE out == apply_fill(cash, qty, avg, side, size, price, fee)
<1>1. /\ size \in Nat \ {0} /\ size <= MaxSize /\ MaxSize \in Nat /\ price \in Nat /\ fee \in Nat
      /\ QtyUnit \in Nat \ {0} /\ StartingCash \in Nat /\ MaxFills \in Nat
  BY SizesBounded, BookAssumption, UnitsAssumption
<1>2. /\ cash \in Int /\ qty \in Int /\ avg \in Nat /\ realized \in Int /\ openFees \in Nat
      /\ fills \in Nat /\ fills <= MaxFills /\ (qty = 0 => avg = 0)
  BY <1>1 DEF BookIInv, BookTypeOK
<1>3. /\ cash' = out.cash /\ qty' = out.qty /\ avg' = out.avg /\ realized' = realized + out.realized
      /\ openFees' = openFees + (IF IsOpening(side, qty) THEN out.fee ELSE 0) /\ fills' = fills + 1
  BY DEF ApplyFill
<1>. HIDE DEF out
<1>4. /\ FillAllowance \in Nat /\ fills * FillAllowance \in Nat
      /\ (fills + 1) * FillAllowance = fills * FillAllowance + FillAllowance
      /\ fills * MaxSize \in Nat /\ (fills + 1) * MaxSize = fills * MaxSize + MaxSize
      /\ (fills + 1) * MaxSize <= MaxFills * MaxSize /\ MaxFills * MaxSize \in Nat
      /\ FillAllowance = 2 * QtyUnit + MaxFills * MaxSize
  BY <1>1, <1>2 DEF FillAllowance
<1>. DEFINE gap  == Gap(cash, qty, avg, realized, openFees)
            gap2 == Gap(cash', qty', avg', realized', openFees')
<1>5. Within(qty, fills * MaxSize) /\ Within(2 * gap, fills * FillAllowance) BY DEF BookIInv
<1>6. gap \in Int /\ qty * avg \in Int BY <1>1, <1>2 DEF Gap
<1>7. CASE IsOpening(side, qty)
  <2>1. /\ out.realized = 0 /\ out.fee = fee /\ out.qty = qty + Signed(side, size) /\ out.cash \in Int
        /\ Within(2 * (QtyUnit * (out.cash - cash + fee)) + 2 * (Signed(side, size) * price), QtyUnit)
        /\ out.avg = BlendedEntry(Abs(qty), avg, size, price)
    BY <1>1, <1>2, <1>7, OpenFill DEF out
  <2>2. /\ out.avg \in Nat
        /\ Within(2 * (out.qty * out.avg) - 2 * (qty * avg + Signed(side, size) * price), Abs(qty) + size)
    <3>. DEFINE blend == BlendedEntry(Abs(qty), avg, size, price)
                after == qty + Signed(side, size)
    <3>1. /\ blend \in Nat
          /\ Within(2 * (after * blend) - 2 * (qty * avg + Signed(side, size) * price), Abs(qty) + size)
      BY <1>1, <1>2, <1>7, SignedBlendError
    <3>2. out.avg = blend /\ out.qty = after BY <2>1
    <3>. HIDE DEF blend, after
    <3>. QED BY <3>1, <3>2
  <2>3. Signed(side, size) \in Int /\ Signed(side, size) <= size /\ -size <= Signed(side, size) BY <1>1 DEF Signed
  <2>4. Abs(qty) \in Nat /\ Abs(qty) <= fills * MaxSize BY <1>2, <1>4, <1>5 DEF Abs, Within
  <2>5. Abs(qty) + size <= MaxFills * MaxSize BY <1>1, <1>4, <2>4
  <2>6. out.qty \in Int /\ out.qty * out.avg \in Int /\ Signed(side, size) * price \in Int
    BY <1>1, <1>2, <2>1, <2>2, <2>3
  <2>7. QtyUnit * (out.cash - cash + fee) \in Int BY <1>1, <1>2, <2>1
  <2>8. gap2 = gap + QtyUnit * (out.cash - cash + fee) + (out.qty * out.avg - qty * avg)
    <3>1. QtyUnit * (out.cash - StartingCash - (realized + 0) + (openFees + fee))
            = QtyUnit * (cash - StartingCash - realized + openFees) + QtyUnit * (out.cash - cash + fee)
      BY <1>1, <1>2, <2>1
    <3>2. QtyUnit * (cash - StartingCash - realized + openFees) \in Int BY <1>1, <1>2
    <3>3. gap2 = QtyUnit * (out.cash - StartingCash - (realized + 0) + (openFees + fee)) + out.qty * out.avg
      BY <1>3, <1>7, <2>1 DEF Gap
    <3>. QED BY <1>6, <2>6, <2>7, <3>1, <3>2, <3>3 DEF Gap
  <2>. HIDE DEF gap, gap2
  <2>9. gap2 \in Int BY <1>6, <2>6, <2>7, <2>8
  <2>10. Within(2 * gap2, fills' * FillAllowance)
    <3>1. Within(2 * gap2, fills * FillAllowance + QtyUnit + (Abs(qty) + size))
      BY <1>1, <1>4, <1>5, <1>6, <2>1, <2>2, <2>4, <2>6, <2>7, <2>8 DEF Within
    <3>. QED BY <1>1, <1>3, <1>4, <2>4, <2>5, <2>9, <3>1 DEF Within
  <2>11. Within(qty', fills' * MaxSize) BY <1>1, <1>2, <1>3, <1>4, <1>5, <2>1, <2>3 DEF Within
  <2>12. out.qty # 0 BY <1>1, <1>2, <1>7, <2>1 DEF Signed, IsOpening, Sides
  <2>13. BookTypeOK' BY <1>1, <1>2, <1>3, <1>7, <2>1, <2>2, <2>6, <2>12 DEF BookTypeOK
  <2>. QED BY <2>10, <2>11, <2>13 DEF BookIInv, gap2
<1>8. CASE ~IsOpening(side, qty)
  <2>1. ClosedFill(out, cash, qty, avg) BY <1>1, <1>2, <1>8, CloseFill DEF out
  <2>2. /\ out.cash \in Int /\ out.realized \in Int /\ out.qty \in Int
        /\ out.avg = IF out.qty = 0 THEN 0 ELSE avg
        /\ IF qty < 0 THEN qty <= out.qty /\ out.qty <= 0 ELSE 0 <= out.qty /\ out.qty <= qty
        /\ Within(2 * (QtyUnit * (out.cash - cash - out.realized)) + 2 * (out.qty * out.avg - qty * avg), 2 * QtyUnit)
    BY <2>1 DEF ClosedFill
  <2>3. out.avg \in Nat /\ out.qty * out.avg \in Int BY <1>2, <2>2
  <2>4. QtyUnit * (out.cash - cash - out.realized) \in Int BY <1>1, <1>2, <2>2
  <2>5. gap2 = gap + QtyUnit * (out.cash - cash - out.realized) + (out.qty * out.avg - qty * avg)
    <3>1. QtyUnit * (out.cash - StartingCash - (realized + out.realized) + openFees)
            = QtyUnit * (cash - StartingCash - realized + openFees) + QtyUnit * (out.cash - cash - out.realized)
      BY <1>1, <1>2, <2>2
    <3>2. QtyUnit * (cash - StartingCash - realized + openFees) \in Int BY <1>1, <1>2
    <3>3. openFees' = openFees BY <1>2, <1>3, <1>8
    <3>4. gap2 = QtyUnit * (out.cash - StartingCash - (realized + out.realized) + openFees) + out.qty * out.avg
      BY <1>3, <3>3 DEF Gap
    <3>. QED BY <1>6, <2>3, <2>4, <3>1, <3>2, <3>4 DEF Gap
  <2>. HIDE DEF gap, gap2
  <2>6. Within(2 * gap2, fills' * FillAllowance)
    BY <1>1, <1>3, <1>4, <1>5, <1>6, <2>2, <2>3, <2>4, <2>5 DEF Within
  <2>7. Within(qty', fills' * MaxSize) BY <1>1, <1>2, <1>3, <1>4, <1>5, <2>2 DEF Within
  <2>8. BookTypeOK' BY <1>1, <1>2, <1>3, <1>8, <2>2, <2>3 DEF BookTypeOK
  <2>. QED BY <2>6, <2>7, <2>8 DEF BookIInv, gap2
<1>. QED BY <1>7, <1>8

(* For every price, size, fee and length of a life: the book is typed, and *)
(* the realized P&L mark_to_market derives from cash and cost basis is     *)
(* what the fills realized, to the roundings made on the way.              *)
THEOREM BookReconciles == BookSpec => []BookInv
<1>1. BookInit => BookIInv
  <2>. SUFFICES ASSUME BookInit PROVE BookIInv OBVIOUS
  <2>1. /\ QtyUnit \in Nat /\ StartingCash \in Nat /\ MaxFills \in Nat BY BookAssumption, UnitsAssumption
  <2>2. BookTypeOK BY <2>1 DEF BookInit, BookTypeOK
  <2>3. MaxSize \in Nat BY BookAssumption DEF MaxSize
  <2>4. FillAllowance \in Nat BY <2>1, <2>3 DEF FillAllowance
  <2>5. fills * FillAllowance = 0 /\ fills * MaxSize = 0 /\ qty = 0 BY <2>3, <2>4 DEF BookInit
  <2>6. Gap(cash, qty, avg, realized, openFees) = 0 BY <2>1 DEF Gap, BookInit
  <2>. QED BY <2>2, <2>5, <2>6 DEF BookIInv, Within
<1>2. BookIInv /\ [BookNext]_bookVars => BookIInv'
  <2>1. CASE UNCHANGED bookVars BY <2>1 DEF bookVars, BookIInv, BookTypeOK, Gap, Within
  <2>2. CASE BookNext BY <2>2, ApplyFillKeeps DEF BookNext
  <2>. QED BY <2>1, <2>2
<1>3. BookIInv => BookInv
  <2>. SUFFICES ASSUME BookIInv PROVE RealizedReconciles BY DEF BookIInv, BookInv
  <2>1. /\ QtyUnit \in Nat /\ StartingCash \in Nat /\ MaxFills \in Nat /\ MaxSize \in Nat
    BY BookAssumption, UnitsAssumption DEF MaxSize
  <2>2. cash \in Int /\ qty \in Int /\ avg \in Nat /\ realized \in Int /\ openFees \in Nat /\ fills \in Nat
    BY <2>1 DEF BookIInv, BookTypeOK
  <2>. DEFINE gap == DerivedRealized - (realized - openFees) * QtyUnit
  <2>3. gap = Gap(cash, qty, avg, realized, openFees)
    <3>1. (cash - StartingCash) * QtyUnit - (realized - openFees) * QtyUnit
            = QtyUnit * (cash - StartingCash - realized + openFees)
      BY <2>1, <2>2
    <3>2. /\ (cash - StartingCash) * QtyUnit \in Int /\ (realized - openFees) * QtyUnit \in Int /\ qty * avg \in Int
      BY <2>1, <2>2
    <3>. QED BY <3>1, <3>2 DEF DerivedRealized, Gap
  <2>4. gap \in Int BY <2>1, <2>2, <2>3 DEF Gap
  <2>. HIDE DEF gap
  <2>5. Within(2 * gap, fills * FillAllowance) BY <2>3 DEF BookIInv
  <2>6. 2 * Abs(gap) <= fills * FillAllowance
    <3>1. fills * FillAllowance \in Int BY <2>1, <2>2 DEF FillAllowance
    <3>. QED BY <2>4, <2>5, <3>1 DEF Abs, Within
  <2>. QED BY <2>6 DEF RealizedReconciles, FillAllowance, gap
<1>. QED BY <1>1, <1>2, <1>3, PTL DEF BookSpec

-----------------------------------------------------------------------------
(***************************************************************************)
(* The replay of a strategy (Backtest).                                    *)
(***************************************************************************)
Books == [cash : Int, qty : Int, avg : Int, high : Int \cup {None}, trades : Nat, wins : Nat]

LEMMA BacktestConstants ==
    /\ QtyUnit \in Nat \ {0} /\ BtCash \in Nat \ {0} /\ AllocPct \in Nat /\ CostBps \in Nat
    /\ \A price \in BarPrices : price \in Nat \ {0}
    /\ \A d \in Disciplines : d \in DisciplineLevels
  BY BacktestAssumption, UnitsAssumption

LEMMA CostInt == ASSUME NEW size \in Int, NEW price \in Int PROVE Cost(size, price) \in Int
<1>1. size * price * CostBps \in Int BY BacktestConstants
<1>2. QtyUnit * BPS \in Nat \ {0} BY BacktestConstants DEF BPS
<1>. QED BY <1>1, <1>2, QuantizeInt DEF Cost

(* An entry from flat pays exactly the price it traded at.                 *)
LEMMA FlatEntry ==
    ASSUME NEW entry \in Int, NEW size \in Nat \ {0}, NEW price \in Nat
    PROVE  BlendedEntry(0, entry, size, price) = price
<1>1. 0 * entry + size * price = size * price /\ size * price \in Nat /\ 0 + size = size OBVIOUS
<1>. DEFINE n == size * price
<1>2. BlendedEntry(0, entry, size, price) = quantize(n, size) BY <1>1 DEF BlendedEntry
<1>3. quantize(n, size) \in Int /\ Within(2 * (size * quantize(n, size)) - 2 * n, size) BY <1>1, QuantizeError
<1>. DEFINE q == quantize(n, size)
<1>. HIDE DEF q
<1>4. 2 * (size * q) - 2 * (size * price) <= size /\ -size <= 2 * (size * q) - 2 * (size * price) /\ q \in Int
  BY <1>3 DEF Within, q
<1>5. 2 * (size * q) - 2 * (size * price) = size * (2 * (q - price)) BY <1>4
<1>6. q - price \in Int BY <1>4
<1>7. ASSUME q - price >= 1 PROVE FALSE
  <2>1. size * (2 * (q - price)) >= size * 2 BY <1>6, <1>7
  <2>. QED BY <1>4, <1>5, <2>1
<1>8. ASSUME q - price <= -1 PROVE FALSE
  <2>1. size * (2 * (q - price)) <= size * (-2) BY <1>6, <1>8
  <2>. QED BY <1>4, <1>5, <2>1
<1>9. q = price BY <1>4, <1>6, <1>7, <1>8
<1>. QED BY <1>2, <1>9 DEF q

(* What closing and opening do to the book of a replay.                    *)
ClosesTo(b, c, price) ==
    /\ c \in Books /\ c.qty = 0 /\ c.trades = b.trades /\ c.cash = Closing(b, price).cash
    /\ c.wins = IF Closing(b, price).realized > 0 THEN b.wins + 1 ELSE b.wins

OpensTo(c, trades, wins, o, price) ==
    /\ o \in Books /\ o.qty # 0 /\ o.avg = price /\ o.high = price
    /\ o.trades = trades + 1 /\ o.wins = wins
    /\ Within(2 * (QtyUnit * (o.cash - c + Cost(Abs(o.qty), price))) + 2 * (o.qty * price), QtyUnit)

LEMMA ClosingFill ==
    ASSUME NEW b \in Books, b.qty # 0, NEW price \in BarPrices
    PROVE  /\ ClosedFill(Closing(b, price), b.cash, b.qty, b.avg)
           /\ Closing(b, price).qty = 0 /\ Closing(b, price).cash \in Int
           /\ Closing(b, price).realized \in Int /\ Closing(b, price).avg = 0
<1>. DEFINE side == IF b.qty > 0 THEN "sell" ELSE "buy"
            size == Abs(b.qty)
            fee  == Cost(size, price)
<1>1. b.cash \in Int /\ b.qty \in Int /\ b.avg \in Int BY DEF Books
<1>2. size \in Nat /\ size >= Abs(b.qty) BY <1>1 DEF Abs
<1>3. side \in Sides /\ ~IsOpening(side, b.qty) BY <1>1 DEF Sides, IsOpening
<1>4. price \in Int BY BacktestConstants
<1>5. fee \in Int BY <1>2, <1>4, CostInt
<1>. HIDE DEF side, fee, size
<1>. DEFINE out == apply_fill(b.cash, b.qty, b.avg, side, size, price, fee)
<1>6. ClosedFill(out, b.cash, b.qty, b.avg) /\ out.qty = 0
  BY <1>1, <1>2, <1>3, <1>4, <1>5, CloseFill
<1>7. Closing(b, price) = out BY DEF Closing, side, size, fee
<1>8. out.cash \in Int /\ out.realized \in Int /\ out.avg = 0 BY <1>6 DEF ClosedFill
<1>. QED BY <1>6, <1>7, <1>8

(* A book with other cash and another position.                            *)
LEMMA BookFields ==
    ASSUME NEW b \in Books
    PROVE  /\ b.cash \in Int /\ b.qty \in Int /\ b.avg \in Int /\ b.high \in Int \cup {None}
           /\ b.trades \in Nat /\ b.wins \in Nat
  BY DEF Books

Opened(b, c, q, a, h, n) == [b EXCEPT !.cash = c, !.qty = q, !.avg = a, !.high = h, !.trades = n]
Closed(b, c, q, a, n) == [b EXCEPT !.cash = c, !.qty = q, !.avg = a, !.high = None, !.wins = n]

LEMMA BookOpened ==
    ASSUME NEW b \in Books, NEW c \in Int, NEW q \in Int, NEW a \in Int, NEW h \in Int, NEW n \in Nat
    PROVE  LET o == Opened(b, c, q, a, h, n)
           IN  /\ o \in Books /\ o.cash = c /\ o.qty = q /\ o.avg = a /\ o.high = h /\ o.trades = n
               /\ o.wins = b.wins
  BY DEF Books, Opened

LEMMA BookClosed ==
    ASSUME NEW b \in Books, NEW c \in Int, NEW q \in Int, NEW a \in Int, NEW n \in Nat
    PROVE  LET o == Closed(b, c, q, a, n)
           IN  /\ o \in Books /\ o.cash = c /\ o.qty = q /\ o.avg = a /\ o.wins = n
               /\ o.trades = b.trades
  BY DEF Books, Closed

LEMMA CloseBookCloses ==
    ASSUME NEW b \in Books, b.qty # 0, NEW price \in BarPrices
    PROVE  ClosesTo(b, CloseBook(b, price), price)
<1>1. /\ Closing(b, price).qty = 0 /\ Closing(b, price).cash \in Int
      /\ Closing(b, price).realized \in Int /\ Closing(b, price).avg = 0
  BY ClosingFill
<1>. DEFINE out == Closing(b, price)
            won == IF out.realized > 0 THEN b.wins + 1 ELSE b.wins
            c   == Closed(b, out.cash, out.qty, out.avg, won)
<1>2. CloseBook(b, price) = c BY DEF CloseBook, Closed
<1>3. won \in Nat BY BookFields
<1>4. out.cash \in Int /\ out.qty \in Int /\ out.avg \in Int BY <1>1
<1>. HIDE DEF out, won
<1>5. /\ c \in Books /\ c.cash = out.cash /\ c.qty = out.qty /\ c.wins = won /\ c.trades = b.trades
  BY <1>3, <1>4, BookClosed
<1>. HIDE DEF c
<1>. QED BY <1>1, <1>2, <1>5 DEF ClosesTo, out, won

LEMMA OpenBookOpens ==
    ASSUME NEW b \in Books, b.qty = 0, NEW side \in Sides, NEW price \in BarPrices
    PROVE  LET o == OpenBook(b, side, price)
           IN  o = b \/ OpensTo(b.cash, b.trades, b.wins, o, price)
<1>. DEFINE notional == EntryNotional(b, side)
            size == quantize(notional * QtyUnit, price)
            fee  == Cost(size, price)
            out  == apply_fill(b.cash, b.qty, b.avg, side, size, price, fee)
            o    == OpenBook(b, side, price)
<1>1. b.cash \in Int /\ b.qty \in Int /\ b.avg \in Int BY DEF Books
<1>2. price \in Nat \ {0} /\ price \in Nat /\ price \in Int BY BacktestConstants
<1>3. CASE notional <= 0 \/ size <= 0
  <2>1. o = b BY <1>3 DEF OpenBook
  <2>. QED BY <2>1
<1>4. CASE ~(notional <= 0 \/ size <= 0)
  <2>1. o = [b EXCEPT !.cash = out.cash, !.qty = out.qty, !.avg = out.avg, !.high = price, !.trades = @ + 1]
    BY <1>4 DEF OpenBook
  <2>2. notional * QtyUnit \in Int
    <3>1. AllocNotional \in Int
      <4>1. BtCash * AllocPct \in Int /\ 100 \in Nat \ {0} BY BacktestConstants
      <4>. QED BY <4>1, QuantizeInt DEF AllocNotional
    <3>2. notional \in Int BY <1>1, <3>1 DEF EntryNotional, Smaller
    <3>. HIDE DEF notional
    <3>. QED BY <3>2, BacktestConstants
  <2>3. size \in Int BY <1>2, <2>2, QuantizeInt
  <2>4. size \in Nat \ {0} BY <1>4, <2>3
  <2>. HIDE DEF notional, size
  <2>5. fee \in Int BY <1>2, <2>4, CostInt
  <2>. HIDE DEF fee
  <2>6. IsOpening(side, b.qty) BY DEF Sides, IsOpening
  <2>7. /\ out.qty = b.qty + Signed(side, size) /\ out.cash \in Int
        /\ Within(2 * (QtyUnit * (out.cash - b.cash + fee)) + 2 * (Signed(side, size) * price), QtyUnit)
        /\ out.avg = BlendedEntry(Abs(b.qty), b.avg, size, price)
    BY <1>1, <1>2, <2>4, <2>5, <2>6, OpenFill
  <2>8. out.avg = price
    <3>1. Abs(b.qty) = 0 BY DEF Abs
    <3>. QED BY <1>1, <1>2, <2>4, <2>7, <3>1, FlatEntry
  <2>9. out.qty = Signed(side, size) /\ out.qty \in Int /\ out.qty # 0 /\ Abs(out.qty) = size
    BY <2>4, <2>7 DEF Signed, Abs
  <2>. HIDE DEF out
  <2>10. o \in Books /\ o.qty = out.qty /\ o.avg = price /\ o.high = price /\ o.cash = out.cash
         /\ o.trades = b.trades + 1 /\ o.wins = b.wins
    <3>. DEFINE n == b.trades + 1
                w == Opened(b, out.cash, out.qty, out.avg, price, n)
    <3>1. o = w BY <2>1 DEF Opened
    <3>2. n \in Nat /\ out.avg \in Int BY <1>2, <2>8, BookFields
    <3>. HIDE DEF n, o
    <3>3. w \in Books /\ w.qty = out.qty /\ w.avg = out.avg /\ w.high = price /\ w.cash = out.cash
          /\ w.trades = n /\ w.wins = b.wins
      BY <1>2, <2>7, <2>9, <3>2, BookOpened
    <3>. HIDE DEF w
    <3>. QED BY <2>8, <3>1, <3>3 DEF n
  <2>11. Cost(Abs(o.qty), price) = fee BY <2>9, <2>10 DEF fee
  <2>. QED BY <2>7, <2>9, <2>10, <2>11 DEF OpensTo
<1>. QED BY <1>3, <1>4

HoldsTo(b, s, price) ==
    /\ s \in Books /\ s.cash = b.cash /\ s.qty = b.qty /\ s.avg = b.avg
    /\ s.trades = b.trades /\ s.wins = b.wins
    /\ s.high = IF b.qty < 0 THEN Smaller(b.high, price) ELSE Larger(b.high, price)

Disciplined == exits.sl \in Int \cup {None} /\ exits.tp \in Int \cup {None} /\ exits.ts \in Int \cup {None} /\ Active(exits.sl)
Levelled(b) == [avg |-> b.avg, qty |-> b.qty, hw |-> b.high, sl |-> exits.sl, tp |-> exits.tp, ts |-> exits.ts]
Stopped(b, price) == ExitDecision(b, price).should_exit

LEMMA ExitLooks ==
    ASSUME Disciplined, NEW b \in Books, b.high \in Int, NEW price \in BarPrices
    PROVE  LET d == ExitDecision(b, price)
           IN  /\ d.high_water = IF b.qty < 0 THEN Smaller(b.high, price) ELSE Larger(b.high, price)
               /\ d.should_exit <=> IF b.qty < 0 THEN CrossedShort(Levelled(b), d.high_water, price)
                                                 ELSE CrossedLong(Levelled(b), d.high_water, price)
<1>. DEFINE r == Levelled(b)
<1>1. /\ r.avg = b.avg /\ r.qty = b.qty /\ r.hw = b.high
      /\ r.sl = exits.sl /\ r.tp = exits.tp /\ r.ts = exits.ts
  BY DEF Levelled
<1>2. b.avg \in Int /\ b.qty \in Int /\ price \in Int BY BookFields, BacktestConstants
<1>. HIDE DEF r
<1>. DEFINE d == evaluate_exit(r.avg, price, r.qty, r.hw, r.sl, r.tp, r.ts)
<1>3. /\ d.high_water = IF r.qty < 0 THEN Smaller(r.hw, price) ELSE Larger(r.hw, price)
      /\ d.should_exit <=> IF r.qty < 0 THEN CrossedShort(r, d.high_water, price)
                                        ELSE CrossedLong(r, d.high_water, price)
  BY <1>1, <1>2, ExitMeansCrossed DEF Disciplined
<1>4. d = ExitDecision(b, price) BY <1>1 DEF ExitDecision
<1>. HIDE DEF d
<1>5. r = Levelled(b) BY DEF r
<1>. QED BY <1>1, <1>3, <1>4, <1>5

Ratcheted(b, h) == [b EXCEPT !.high = h]

LEMMA SettleOutcomes ==
    ASSUME Disciplined, NEW b \in Books, b.qty # 0, b.high \in Int, NEW price \in BarPrices
    PROVE  LET s == settle_exit(b, price)
           IN  IF Stopped(b, price) THEN ClosesTo(b, s, price) ELSE HoldsTo(b, s, price)
<1>1. CASE Stopped(b, price)
  <2>1. settle_exit(b, price) = CloseBook(b, price) BY <1>1 DEF settle_exit, Stopped
  <2>. QED BY <1>1, <2>1, CloseBookCloses
<1>2. CASE ~Stopped(b, price)
  <2>. DEFINE h == ExitDecision(b, price).high_water
              s == Ratcheted(b, h)
  <2>1. settle_exit(b, price) = s BY <1>2 DEF settle_exit, Stopped, Ratcheted
  <2>2. h = IF b.qty < 0 THEN Smaller(b.high, price) ELSE Larger(b.high, price) BY ExitLooks
  <2>3. h \in Int BY <2>2, BacktestConstants DEF Smaller, Larger
  <2>. HIDE DEF h
  <2>4. /\ s \in Books /\ s.cash = b.cash /\ s.qty = b.qty /\ s.avg = b.avg
        /\ s.trades = b.trades /\ s.wins = b.wins /\ s.high = h
    BY <2>3 DEF Ratcheted, Books
  <2>. HIDE DEF s
  <2>5. HoldsTo(b, s, price) BY <2>2, <2>4 DEF HoldsTo
  <2>. QED BY <1>2, <2>1, <2>5
<1>. QED BY <1>1, <1>2

LEMMA StepOutcomes ==
    ASSUME NEW b \in Books, NEW action \in Actions, NEW price \in BarPrices
    PROVE  LET new == step(b, action, price)
           IN  \/ new = b
               \/ b.qty = 0 /\ OpensTo(b.cash, b.trades, b.wins, new, price)
               \/ b.qty # 0 /\ ClosesTo(b, new, price)
<1>0. b.qty \in Int BY BookFields
<1>1. CASE action = "buy" /\ b.qty = 0
  <2>1. step(b, action, price) = OpenBook(b, "buy", price) BY <1>1 DEF step
  <2>2. "buy" \in Sides BY DEF Sides
  <2>. QED BY <1>1, <2>1, <2>2, OpenBookOpens
<1>2. CASE action = "short" /\ b.qty = 0
  <2>1. step(b, action, price) = OpenBook(b, "sell", price) BY <1>2 DEF step
  <2>2. "sell" \in Sides BY DEF Sides
  <2>. QED BY <1>2, <2>1, <2>2, OpenBookOpens
<1>3. CASE action \in {"sell", "exit"} /\ b.qty > 0
  <2>1. step(b, action, price) = CloseBook(b, price) BY <1>3 DEF step
  <2>. QED BY <1>0, <1>3, <2>1, CloseBookCloses
<1>4. CASE action = "cover" /\ b.qty < 0
  <2>1. step(b, action, price) = CloseBook(b, price) BY <1>4 DEF step
  <2>. QED BY <1>0, <1>4, <2>1, CloseBookCloses
<1>5. CASE /\ ~(action = "buy" /\ b.qty = 0) /\ ~(action = "short" /\ b.qty = 0)
           /\ ~(action \in {"sell", "exit"} /\ b.qty > 0) /\ ~(action = "cover" /\ b.qty < 0)
  <2>1. step(b, action, price) = b BY <1>5 DEF step
  <2>. QED BY <2>1
<1>. QED BY <1>1, <1>2, <1>3, <1>4, <1>5

(* What a bar can do to the book.                                          *)
Ends2(b, new, price) == \/ ClosesTo(b, new, price)
                        \/ \E c : ClosesTo(b, c, price) /\ OpensTo(c.cash, c.trades, c.wins, new, price)

LEMMA BarOutcomes ==
    ASSUME Disciplined, NEW b \in Books, b.qty # 0 => b.high \in Int, NEW action \in Actions, NEW price \in BarPrices
    PROVE  LET new == BarBook(b, action, price)
           IN  IF b.qty = 0 THEN new = b \/ OpensTo(b.cash, b.trades, b.wins, new, price)
               ELSE IF Stopped(b, price) THEN Ends2(b, new, price)
               ELSE HoldsTo(b, new, price) \/ ClosesTo(b, new, price)
<1>. DEFINE s == settle_exit(b, price)
            new == BarBook(b, action, price)
<1>1. new = step(s, action, price) BY DEF BarBook
<1>2. CASE b.qty = 0
  <2>1. s = b BY <1>2 DEF settle_exit
  <2>. QED BY <1>1, <1>2, <2>1, StepOutcomes
<1>3. CASE b.qty # 0 /\ Stopped(b, price)
  <2>1. ClosesTo(b, s, price) BY <1>3, SettleOutcomes
  <2>. HIDE DEF s
  <2>2. s \in Books /\ s.qty = 0 BY <2>1 DEF ClosesTo
  <2>3. step(s, action, price) = s \/ OpensTo(s.cash, s.trades, s.wins, step(s, action, price), price)
    BY <2>2, StepOutcomes
  <2>. HIDE DEF new
  <2>4. Ends2(b, new, price) BY <1>1, <2>1, <2>3 DEF Ends2
  <2>. QED BY <1>3, <2>4 DEF new
<1>4. CASE b.qty # 0 /\ ~Stopped(b, price)
  <2>1. HoldsTo(b, s, price) BY <1>4, SettleOutcomes
  <2>. HIDE DEF s
  <2>2. s \in Books /\ s.qty # 0 BY <1>4, <2>1 DEF HoldsTo
  <2>3. step(s, action, price) = s \/ ClosesTo(s, step(s, action, price), price) BY <2>2, StepOutcomes
  <2>. HIDE DEF new
  <2>4. Closing(s, price) = Closing(b, price) BY <2>1 DEF HoldsTo, Closing
  <2>5. ClosesTo(s, new, price) => ClosesTo(b, new, price)
    BY <2>1, <2>4 DEF HoldsTo, ClosesTo
  <2>6. HoldsTo(b, new, price) \/ ClosesTo(b, new, price) BY <1>1, <2>1, <2>3, <2>5
  <2>. QED BY <1>4, <2>6 DEF new
<1>. QED BY <1>2, <1>3, <1>4

(* The books against what was realized and paid, and an open position      *)
(* against the cash before it.                                             *)
BtGap(b, e) == QtyUnit * (b.cash - BtCash - e) + b.qty * b.avg
Allowed(b) == IF b.qty = 0 THEN 3 * (b.trades * QtyUnit) ELSE 3 * (b.trades * QtyUnit) - 2 * QtyUnit
Accounted(b, e) == Within(2 * BtGap(b, e), Allowed(b))
EnteredFrom(b, c) == Within(2 * (QtyUnit * (b.cash - c)) + 2 * (b.qty * b.avg), QtyUnit)

LEMMA ClosesAccount ==
    ASSUME NEW b \in Books, b.qty # 0, NEW price \in BarPrices, NEW c, ClosesTo(b, c, price),
           NEW e \in Int, Accounted(b, e)
    PROVE  Accounted(c, e + Closing(b, price).realized)
<1>. DEFINE out == Closing(b, price)
<1>1. /\ ClosedFill(out, b.cash, b.qty, b.avg) /\ out.qty = 0 /\ out.cash \in Int /\ out.realized \in Int /\ out.avg = 0
  BY ClosingFill
<1>. HIDE DEF out
<1>2. /\ QtyUnit \in Nat \ {0} /\ BtCash \in Nat /\ b.cash \in Int /\ b.qty \in Int /\ b.avg \in Int /\ b.trades \in Nat
      /\ b.qty * b.avg \in Int /\ b.trades * QtyUnit \in Nat
  BY BacktestConstants, BookFields
<1>3. Within(2 * (QtyUnit * (out.cash - b.cash - out.realized)) + 2 * (0 - b.qty * b.avg), 2 * QtyUnit)
  BY <1>1 DEF ClosedFill
<1>4. c.qty = 0 /\ c.trades = b.trades /\ c.cash = out.cash /\ c.avg \in Int BY DEF ClosesTo, out, Books
<1>5. QtyUnit * (out.cash - BtCash - (e + out.realized))
        = QtyUnit * (b.cash - BtCash - e) + QtyUnit * (out.cash - b.cash - out.realized)
  BY <1>1, <1>2
<1>6. QtyUnit * (b.cash - BtCash - e) \in Int /\ QtyUnit * (out.cash - b.cash - out.realized) \in Int
  BY <1>1, <1>2
<1>7. BtGap(c, e + out.realized) = BtGap(b, e) - b.qty * b.avg + QtyUnit * (out.cash - b.cash - out.realized)
  <2>1. c.qty * c.avg = 0 BY <1>4
  <2>. QED BY <1>2, <1>4, <1>5, <1>6, <2>1 DEF BtGap
<1>8. BtGap(b, e) \in Int BY <1>2, <1>6 DEF BtGap
<1>9. Within(2 * BtGap(b, e), 3 * (b.trades * QtyUnit) - 2 * QtyUnit) BY DEF Accounted, Allowed
<1>10. Allowed(c) = 3 * (b.trades * QtyUnit) BY <1>4 DEF Allowed
<1>11. Within(2 * BtGap(c, e + out.realized), 3 * (b.trades * QtyUnit))
  BY <1>2, <1>3, <1>6, <1>7, <1>8, <1>9 DEF Within
<1>. QED BY <1>10, <1>11 DEF Accounted, out

LEMMA OpensAccount ==
    ASSUME NEW c \in Int, NEW n \in Nat, NEW w, NEW o, NEW price \in BarPrices, OpensTo(c, n, w, o, price),
           NEW e \in Int, Within(2 * (QtyUnit * (c - BtCash - e)), 3 * (n * QtyUnit))
    PROVE  LET fee == Cost(Abs(o.qty), price)
           IN  fee \in Int /\ Accounted(o, e - fee) /\ EnteredFrom(o, c - fee)
<1>. DEFINE fee == Cost(Abs(o.qty), price)
<1>1. /\ o \in Books /\ o.qty # 0 /\ o.avg = price /\ o.trades = n + 1
      /\ Within(2 * (QtyUnit * (o.cash - c + fee)) + 2 * (o.qty * price), QtyUnit)
  BY DEF OpensTo
<1>2. /\ QtyUnit \in Nat \ {0} /\ BtCash \in Nat /\ o.cash \in Int /\ o.qty \in Int /\ price \in Int
  BY <1>1, BacktestConstants, BookFields
<1>3. fee \in Int
  <2>1. Abs(o.qty) \in Int BY <1>2 DEF Abs
  <2>. QED BY <1>2, <2>1, CostInt
<1>. HIDE DEF fee
<1>4. /\ o.qty * price \in Int /\ n * QtyUnit \in Nat /\ (n + 1) * QtyUnit = n * QtyUnit + QtyUnit
      /\ QtyUnit * (o.cash - c + fee) \in Int /\ QtyUnit * (c - BtCash - e) \in Int
  BY <1>2, <1>3
<1>5. QtyUnit * (o.cash - BtCash - (e - fee)) = QtyUnit * (c - BtCash - e) + QtyUnit * (o.cash - c + fee)
  BY <1>2, <1>3
<1>6. BtGap(o, e - fee) = QtyUnit * (c - BtCash - e) + QtyUnit * (o.cash - c + fee) + o.qty * price
  BY <1>1, <1>5 DEF BtGap
<1>7. Allowed(o) = 3 * (n * QtyUnit) + QtyUnit BY <1>1, <1>2, <1>4 DEF Allowed
<1>8. Within(2 * BtGap(o, e - fee), 3 * (n * QtyUnit) + QtyUnit)
  BY <1>1, <1>2, <1>4, <1>6 DEF Within
<1>9. EnteredFrom(o, c - fee)
  <2>1. o.cash - (c - fee) = o.cash - c + fee BY <1>2, <1>3
  <2>. QED BY <1>1, <2>1 DEF EnteredFrom
<1>. QED BY <1>3, <1>7, <1>8, <1>9 DEF Accounted, fee

LEMMA FlatAccount ==
    ASSUME NEW b \in Books, b.qty = 0, NEW e \in Int
    PROVE  Accounted(b, e) <=> Within(2 * (QtyUnit * (b.cash - BtCash - e)), 3 * (b.trades * QtyUnit))
<1>1. b.qty * b.avg = 0 /\ QtyUnit * (b.cash - BtCash - e) \in Int BY BookFields, BacktestConstants
<1>2. BtGap(b, e) = QtyUnit * (b.cash - BtCash - e) BY <1>1 DEF BtGap
<1>. QED BY <1>2 DEF Accounted, Allowed

(* A win brought back what was put in; over a quantum more is a win.       *)
LEMMA ClosesWins ==
    ASSUME NEW b \in Books, b.qty # 0, NEW price \in BarPrices, NEW start \in Int, EnteredFrom(b, start)
    PROVE  LET out == Closing(b, price)
           IN  /\ out.cash > start + 1 => out.realized > 0
               /\ out.realized > 0 => out.cash >= start
<1>. DEFINE out == Closing(b, price)
<1>1. ClosedFill(out, b.cash, b.qty, b.avg) /\ out.qty = 0 /\ out.cash \in Int /\ out.realized \in Int BY ClosingFill
<1>. HIDE DEF out
<1>2. PICK net \in Int : /\ out.realized > 0 <=> 2 * net >= QtyUnit
                         /\ Within(2 * (QtyUnit * (out.cash - b.cash)) - 2 * (net + b.qty * b.avg), QtyUnit)
  BY <1>1 DEF ClosedFill
<1>3. QtyUnit \in Nat \ {0} /\ b.cash \in Int /\ b.qty * b.avg \in Int
  BY BacktestConstants, BookFields
<1>. DEFINE back == out.cash - start
<1>4. back \in Int BY <1>1
<1>5. QtyUnit * back = QtyUnit * (out.cash - b.cash) + QtyUnit * (b.cash - start)
  BY <1>1, <1>3
<1>6. QtyUnit * (out.cash - b.cash) \in Int /\ QtyUnit * (b.cash - start) \in Int BY <1>1, <1>3
<1>. HIDE DEF back
<1>7. Within(2 * (QtyUnit * back) - 2 * net, 2 * QtyUnit)
  <2>1. Within(2 * (QtyUnit * (b.cash - start)) + 2 * (b.qty * b.avg), QtyUnit) BY DEF EnteredFrom
  <2>. QED BY <1>2, <1>3, <1>5, <1>6, <2>1 DEF Within
<1>8. QtyUnit * back \in Int BY <1>3, <1>4
<1>9. ASSUME back >= 2 PROVE out.realized > 0
  <2>1. QtyUnit * back >= QtyUnit * 2 BY <1>3, <1>4, <1>9
  <2>2. 2 * net >= QtyUnit BY <1>3, <1>7, <1>8, <2>1 DEF Within
  <2>. QED BY <1>2, <2>2
<1>10. ASSUME out.realized > 0 PROVE back >= 0
  <2>1. 2 * net >= QtyUnit BY <1>2, <1>10
  <2>2. 2 * (QtyUnit * back) >= -QtyUnit BY <1>3, <1>7, <1>8, <2>1 DEF Within
  <2>3. ASSUME back <= -1 PROVE FALSE
    <3>1. QtyUnit * back <= QtyUnit * (-1) BY <1>3, <1>4, <2>3
    <3>. QED BY <1>3, <1>8, <2>2, <3>1
  <2>. QED BY <1>4, <2>3
<1>. QED BY <1>1, <1>4, <1>9, <1>10 DEF out, back

CurveOK == /\ curve \in Seq(Int) /\ (close = None <=> curve = <<>>)
           /\ close # None => close \in Int /\ curve[Len(curve)] = EquityAt(book, close)
Held == book.qty # 0 => book.high \in Int /\ IsBest(book.high, seenBars, book.qty) /\ EnteredFrom(book, before)

BtIInv == /\ exits # None => Disciplined
          /\ book \in Books /\ seenBars \subseteq Int
          /\ before \in Int /\ gained \in Int /\ kept \in Int /\ earned \in Int
          /\ Held /\ Accounted(book, earned) /\ WinsMadeMoney
          /\ CurveOK

(* A bar, outcome by outcome.                                              *)
BarInto(new, start, won, good, e, S) ==
    /\ new \in Books /\ S \subseteq Int /\ start \in Int /\ won \in Int /\ good \in Int /\ e \in Int
    /\ new.qty # 0 => new.high \in Int /\ IsBest(new.high, S, new.qty) /\ EnteredFrom(new, start)
    /\ Accounted(new, e) /\ won <= new.wins /\ new.wins <= good

LEMMA BarBooks ==
    ASSUME BtIInv, NEW action \in Actions, NEW price \in BarPrices, Bar(action, price)
    PROVE  BarInto(book', before', gained', kept', earned', seenBars')
<1>. DEFINE new    == BarBook(book, action, price)
            opened == new.trades > book.trades
            ended  == book.qty # 0 /\ (new.qty = 0 \/ opened)
            out    == Closing(book, price)
            fee    == Cost(Abs(new.qty), price)
<1>1. /\ book' = new
      /\ seenBars' = IF new.qty = 0 THEN {} ELSE IF opened THEN {price} ELSE seenBars \cup {price}
      /\ before' = IF opened THEN (IF ended THEN out.cash ELSE book.cash) - fee ELSE before
      /\ gained' = IF ended /\ out.cash > before + 1 THEN gained + 1 ELSE gained
      /\ kept' = IF ended /\ out.cash >= before THEN kept + 1 ELSE kept
      /\ earned' = earned + (IF ended THEN out.realized ELSE 0) - (IF opened THEN fee ELSE 0)
  BY DEF Bar
<1>2. /\ book \in Books /\ seenBars \subseteq Int /\ before \in Int /\ gained \in Int /\ kept \in Int /\ earned \in Int
      /\ Disciplined /\ Held /\ Accounted(book, earned) /\ gained <= book.wins /\ book.wins <= kept
  BY DEF BtIInv, WinsMadeMoney, Bar
<1>3. price \in Int /\ book.trades \in Nat /\ book.wins \in Nat /\ book.cash \in Int /\ book.qty \in Int /\ book.avg \in Int
  BY <1>2, BacktestConstants, BookFields
<1>4. IF book.qty = 0 THEN new = book \/ OpensTo(book.cash, book.trades, book.wins, new, price)
      ELSE IF Stopped(book, price) THEN Ends2(book, new, price)
      ELSE HoldsTo(book, new, price) \/ ClosesTo(book, new, price)
  BY <1>2, BarOutcomes DEF Held
<1>5. book.qty # 0 => /\ out.cash \in Int /\ out.realized \in Int
                      /\ (out.cash > before + 1 => out.realized > 0) /\ (out.realized > 0 => out.cash >= before)
  <2>. SUFFICES ASSUME book.qty # 0 PROVE /\ out.cash \in Int /\ out.realized \in Int
          /\ (out.cash > before + 1 => out.realized > 0) /\ (out.realized > 0 => out.cash >= before)
    OBVIOUS
  <2>1. EnteredFrom(book, before) BY <1>2 DEF Held
  <2>2. out.cash \in Int /\ out.realized \in Int BY <1>2, ClosingFill
  <2>3. (out.cash > before + 1 => out.realized > 0) /\ (out.realized > 0 => out.cash >= before)
    BY <1>2, <2>1, ClosesWins
  <2>. QED BY <2>2, <2>3
<1>. HIDE DEF new, out, fee
<1>6. CASE book.qty = 0 /\ new = book
  <2>1. ~opened /\ ~ended BY <1>3, <1>6
  <2>2. seenBars' = {} /\ before' = before /\ gained' = gained /\ kept' = kept /\ earned' = earned + 0 - 0
    BY <1>1, <1>6, <2>1
  <2>3. earned' = earned BY <1>2, <2>2
  <2>. QED BY <1>1, <1>2, <1>6, <2>2, <2>3 DEF BarInto
<1>7. CASE book.qty = 0 /\ OpensTo(book.cash, book.trades, book.wins, new, price)
  <2>1. /\ new \in Books /\ new.qty # 0 /\ new.trades = book.trades + 1 /\ new.high = price /\ new.wins = book.wins
    BY <1>7 DEF OpensTo
  <2>2. opened /\ ~ended BY <1>3, <1>7, <2>1
  <2>3. Within(2 * (QtyUnit * (book.cash - BtCash - earned)), 3 * (book.trades * QtyUnit))
    BY <1>2, <1>7, FlatAccount
  <2>4. fee \in Int /\ Accounted(new, earned - fee) /\ EnteredFrom(new, book.cash - fee)
    BY <1>2, <1>3, <1>7, <2>3, OpensAccount DEF fee
  <2>5. /\ seenBars' = {price} /\ before' = book.cash - fee /\ gained' = gained /\ kept' = kept
        /\ earned' = earned + 0 - fee
    BY <1>1, <2>1, <2>2
  <2>6. earned' = earned - fee BY <1>2, <2>4, <2>5
  <2>7. IsBest(price, {price}, new.qty) BY <1>3, <2>1, BookFields DEF IsBest
  <2>. QED BY <1>1, <1>2, <1>3, <2>1, <2>4, <2>5, <2>6, <2>7 DEF BarInto
<1>8. CASE book.qty # 0 /\ HoldsTo(book, new, price)
  <2>1. /\ new \in Books /\ new.qty = book.qty /\ new.trades = book.trades /\ new.wins = book.wins
        /\ new.cash = book.cash /\ new.avg = book.avg
        /\ new.high = IF book.qty < 0 THEN Smaller(book.high, price) ELSE Larger(book.high, price)
    BY <1>8 DEF HoldsTo
  <2>2. ~opened /\ ~ended BY <1>3, <1>8, <2>1
  <2>3. /\ seenBars' = seenBars \cup {price} /\ before' = before /\ gained' = gained /\ kept' = kept
        /\ earned' = earned + 0 - 0
    BY <1>1, <1>8, <2>1, <2>2
  <2>4. earned' = earned BY <1>2, <2>3
  <2>5. book.high \in Int /\ IsBest(book.high, seenBars, book.qty) /\ EnteredFrom(book, before)
    BY <1>2, <1>8 DEF Held
  <2>6. IsBest(new.high, seenBars \cup {price}, new.qty)
    <3>1. seenBars \in SUBSET Int BY <1>2
    <3>2. IsBest(IF book.qty < 0 THEN Smaller(book.high, price) ELSE Larger(book.high, price),
                 seenBars \cup {price}, book.qty)
      BY <1>3, <2>5, <3>1, BestExtends
    <3>. QED BY <2>1, <3>2
  <2>7. new.high \in Int BY <1>3, <2>1, <2>5 DEF Smaller, Larger
  <2>8. EnteredFrom(new, before) /\ Accounted(new, earned)
    BY <1>2, <2>1, <2>5 DEF EnteredFrom, Accounted, BtGap, Allowed
  <2>. QED BY <1>1, <1>2, <1>3, <2>1, <2>3, <2>4, <2>6, <2>7, <2>8 DEF BarInto
<1>9. CASE book.qty # 0 /\ ClosesTo(book, new, price)
  <2>1. /\ new \in Books /\ new.qty = 0 /\ new.trades = book.trades
        /\ new.wins = IF out.realized > 0 THEN book.wins + 1 ELSE book.wins
    BY <1>9 DEF ClosesTo, out
  <2>2. ~opened /\ ended BY <1>3, <1>9, <2>1
  <2>3. /\ seenBars' = {} /\ before' = before /\ earned' = earned + out.realized - 0
        /\ gained' = IF out.cash > before + 1 THEN gained + 1 ELSE gained
        /\ kept' = IF out.cash >= before THEN kept + 1 ELSE kept
    BY <1>1, <2>1, <2>2
  <2>4. earned' = earned + out.realized /\ earned' \in Int BY <1>2, <1>5, <1>9, <2>3
  <2>5. Accounted(new, earned + out.realized) BY <1>2, <1>9, ClosesAccount DEF out
  <2>6. gained' \in Int /\ kept' \in Int /\ gained' <= new.wins /\ new.wins <= kept'
    BY <1>2, <1>3, <1>5, <1>9, <2>1, <2>3
  <2>. QED BY <1>1, <1>2, <2>1, <2>3, <2>4, <2>5, <2>6 DEF BarInto
<1>10. CASE book.qty # 0 /\ \E c : ClosesTo(book, c, price) /\ OpensTo(c.cash, c.trades, c.wins, new, price)
  <2>1. PICK c : ClosesTo(book, c, price) /\ OpensTo(c.cash, c.trades, c.wins, new, price) BY <1>10
  <2>2. /\ c \in Books /\ c.qty = 0 /\ c.trades = book.trades /\ c.cash = out.cash
        /\ c.wins = IF out.realized > 0 THEN book.wins + 1 ELSE book.wins
    BY <2>1 DEF ClosesTo, out
  <2>3. c.cash \in Int /\ c.trades \in Nat /\ c.wins \in Nat BY <2>2, BookFields
  <2>4. /\ new \in Books /\ new.qty # 0 /\ new.trades = c.trades + 1 /\ new.high = price /\ new.wins = c.wins
    BY <2>1 DEF OpensTo
  <2>5. opened /\ ended BY <1>3, <1>10, <2>2, <2>4
  <2>6. Accounted(c, earned + out.realized) BY <1>2, <1>10, <2>1, ClosesAccount DEF out
  <2>. DEFINE e == earned + out.realized
  <2>7. e \in Int BY <1>2, <1>5, <1>10
  <2>8. Within(2 * (QtyUnit * (c.cash - BtCash - e)), 3 * (c.trades * QtyUnit))
    BY <2>2, <2>6, <2>7, FlatAccount
  <2>9. fee \in Int /\ Accounted(new, e - fee) /\ EnteredFrom(new, c.cash - fee)
    BY <2>1, <2>3, <2>7, <2>8, OpensAccount DEF fee
  <2>10. /\ seenBars' = {price} /\ before' = out.cash - fee /\ earned' = e - fee
         /\ gained' = IF out.cash > before + 1 THEN gained + 1 ELSE gained
         /\ kept' = IF out.cash >= before THEN kept + 1 ELSE kept
    <3>0. earned' = earned + out.realized - fee BY <1>1, <2>5
    <3>1. earned' = e - fee BY <1>2, <1>5, <1>10, <2>9, <3>0
    <3>2. seenBars' = {price} BY <1>1, <2>4, <2>5
    <3>3. before' = out.cash - fee BY <1>1, <2>5
    <3>4. gained' = IF out.cash > before + 1 THEN gained + 1 ELSE gained BY <1>1, <2>5
    <3>5. kept' = IF out.cash >= before THEN kept + 1 ELSE kept BY <1>1, <2>5
    <3>. HIDE DEF e, opened, ended
    <3>. QED BY <3>1, <3>2, <3>3, <3>4, <3>5
  <2>11. gained' \in Int /\ kept' \in Int /\ gained' <= new.wins /\ new.wins <= kept'
    BY <1>2, <1>3, <1>5, <1>10, <2>2, <2>4, <2>10
  <2>12. IsBest(price, {price}, new.qty) BY <1>3, <2>4, BookFields DEF IsBest
  <2>13. before' = c.cash - fee /\ before' \in Int /\ earned' \in Int BY <2>2, <2>3, <2>7, <2>9, <2>10
  <2>. QED BY <1>1, <1>3, <2>4, <2>9, <2>10, <2>11, <2>12, <2>13 DEF BarInto
<1>. QED BY <1>4, <1>6, <1>7, <1>8, <1>9, <1>10 DEF Ends2

LEMMA BarKeeps ==
    ASSUME BtIInv, NEW action \in Actions, NEW price \in BarPrices, Bar(action, price)
    PROVE  BtIInv'
<1>1. BarInto(book', before', gained', kept', earned', seenBars') BY BarBooks
<1>2. exits' = exits /\ curve' = Append(curve, EquityAt(book', price)) /\ close' = price BY DEF Bar
<1>3. price \in Int /\ price # None BY BacktestConstants, NoneAssumption
<1>4. EquityAt(book', price) \in Int
  <2>1. book' \in Books BY <1>1 DEF BarInto
  <2>2. book'.cash \in Int /\ book'.qty \in Int BY <2>1, BookFields
  <2>. QED BY <1>3, <2>2, BacktestConstants DEF EquityAt
<1>5. CurveOK'
  <2>. DEFINE e == EquityAt(book', price)
  <2>1. curve \in Seq(Int) BY DEF BtIInv, CurveOK
  <2>2. e \in Int BY <1>4
  <2>. HIDE DEF e
  <2>3. /\ Append(curve, e) \in Seq(Int) /\ Append(curve, e) # <<>>
        /\ Append(curve, e)[Len(Append(curve, e))] = e
    BY <2>1, <2>2
  <2>4. curve' = Append(curve, e) /\ EquityAt(book', close') = e BY <1>2 DEF e
  <2>. QED BY <1>2, <1>3, <2>3, <2>4 DEF CurveOK, EquityAt
<1>. QED BY <1>1, <1>2, <1>5 DEF BtIInv, BarInto, Held, WinsMadeMoney, Disciplined

LEMMA ReplayInvariant == BtSpec => []BtIInv
<1>1. BtInit => BtIInv
  <2>. SUFFICES ASSUME BtInit PROVE BtIInv OBVIOUS
  <2>1. /\ book = EmptyBook /\ exits = None /\ curve = <<>> /\ close = None /\ seenBars = {}
        /\ before = 0 /\ gained = 0 /\ kept = 0 /\ earned = 0
    BY DEF BtInit
  <2>2. book \in Books BY <2>1, BacktestConstants DEF EmptyBook, Books
  <2>3. book.qty = 0 /\ book.trades = 0 /\ book.wins = 0 /\ book.cash = BtCash BY <2>1 DEF EmptyBook
  <2>4. Accounted(book, earned)
    <3>1. QtyUnit * (BtCash - BtCash - 0) = 0 /\ 0 * QtyUnit = 0 BY BacktestConstants
    <3>2. Within(2 * (QtyUnit * (book.cash - BtCash - earned)), 3 * (book.trades * QtyUnit))
      BY <2>1, <2>3, <3>1 DEF Within
    <3>. QED BY <2>1, <2>2, <2>3, <3>2, FlatAccount
  <2>5. CurveOK BY <2>1 DEF CurveOK
  <2>. QED BY <2>1, <2>2, <2>3, <2>4, <2>5 DEF BtIInv, Held, WinsMadeMoney
<1>2. BtIInv /\ [BtNext]_btVars => BtIInv'
  <2>. SUFFICES ASSUME BtIInv, [BtNext]_btVars PROVE BtIInv' OBVIOUS
  <2>1. CASE Request
    <3>1. PICK d \in Disciplines : exits' = Discipline(d) BY <2>1 DEF Request
    <3>2. d \in DisciplineLevels BY BacktestConstants
    <3>3. d.sl \in Int \cup {None} /\ d.tp \in Int \cup {None} /\ d.ts \in Int \cup {None} BY <3>2 DEF DisciplineLevels
    <3>4. exits'.tp = d.tp /\ exits'.ts = d.ts /\ exits'.sl = IF Active(d.sl) THEN d.sl ELSE DefaultStop
      BY <3>1, <3>2 DEF Discipline, DisciplineLevels
    <3>5. DefaultStop \in Int /\ Active(DefaultStop) BY NoneAssumption DEF DefaultStop, Active
    <3>6. Disciplined' BY <3>3, <3>4, <3>5 DEF Disciplined
    <3>7. UNCHANGED <<book, curve, close, seenBars, before, gained, kept, earned>> BY <2>1 DEF Request, history
    <3>. QED BY <3>6, <3>7 DEF BtIInv, Held, WinsMadeMoney, CurveOK, EquityAt, Accounted, BtGap, Allowed,
                               EnteredFrom, IsBest
  <2>2. ASSUME NEW action \in Actions, NEW price \in BarPrices, Bar(action, price) PROVE BtIInv'
    BY <2>2, BarKeeps
  <2>3. CASE UNCHANGED btVars
    <3>1. UNCHANGED <<exits, book, curve, close, seenBars, before, gained, kept, earned>> BY <2>3 DEF btVars, history
    <3>. QED BY <3>1 DEF BtIInv, Held, WinsMadeMoney, CurveOK, EquityAt, Accounted, BtGap, Allowed, EnteredFrom,
                         IsBest, Disciplined
  <2>. QED BY <2>1, <2>2, <2>3 DEF BtNext
<1>. QED BY <1>1, <1>2, PTL DEF BtSpec

LEMMA BarEnds ==
    ASSUME Disciplined, NEW b \in Books, b.qty # 0, b.high \in Int, NEW action \in Actions, NEW price \in BarPrices,
           Stopped(b, price)
    PROVE  BarBook(b, action, price).qty = 0 \/ BarBook(b, action, price).trades > b.trades
<1>. DEFINE new == BarBook(b, action, price)
<1>1. Ends2(b, new, price) BY BarOutcomes
<1>. HIDE DEF new
<1>2. CASE ClosesTo(b, new, price) BY <1>2 DEF ClosesTo, new
<1>3. CASE \E c : ClosesTo(b, c, price) /\ OpensTo(c.cash, c.trades, c.wins, new, price)
  <2>1. PICK c : ClosesTo(b, c, price) /\ OpensTo(c.cash, c.trades, c.wins, new, price) BY <1>3
  <2>2. new.trades = b.trades + 1 BY <2>1 DEF ClosesTo, OpensTo
  <2>3. b.trades \in Nat BY BookFields
  <2>. QED BY <2>2, <2>3 DEF new
<1>. QED BY <1>1, <1>2, <1>3 DEF Ends2

LEMMA StopsOutStep ==
    ASSUME BtIInv, NEW action \in Actions, NEW price \in BarPrices, Bar(action, price), book.qty # 0,
           NEW best \in seenBars \cup {close'},
           \A x \in seenBars \cup {close'} : IF book.qty > 0 THEN best >= x ELSE best <= x,
           Reaches(best)
    PROVE  book'.qty = 0 \/ book'.trades > book.trades
<1>1. close' = price /\ book' = BarBook(book, action, price) BY DEF Bar
<1>2. /\ book \in Books /\ seenBars \in SUBSET Int /\ Disciplined /\ book.high \in Int
      /\ IsBest(book.high, seenBars, book.qty)
  BY DEF BtIInv, Held, Bar
<1>3. price \in Int /\ book.qty \in Int /\ book.avg \in Int /\ book.trades \in Nat
  BY <1>2, BacktestConstants, BookFields
<1>. DEFINE h == ExitDecision(book, price).high_water
            r == Levelled(book)
<1>4. /\ h = IF book.qty < 0 THEN Smaller(book.high, price) ELSE Larger(book.high, price)
      /\ Stopped(book, price) <=> IF book.qty < 0 THEN CrossedShort(r, h, price) ELSE CrossedLong(r, h, price)
  BY <1>2, ExitLooks DEF Stopped
<1>. HIDE DEF h, r
<1>5. IsBest(h, seenBars \cup {price}, book.qty) BY <1>2, <1>3, <1>4, BestExtends
<1>6. IsBest(best, seenBars \cup {price}, book.qty)
  <2>1. best \in seenBars \cup {price} /\ \A x \in seenBars \cup {price} : IF book.qty > 0 THEN best >= x ELSE best <= x
    BY <1>1
  <2>2. \A x \in seenBars \cup {price} : x \in Int BY <1>2, <1>3
  <2>. QED BY <1>3, <2>1, <2>2 DEF IsBest
<1>7. best = h
  <2>1. seenBars \cup {price} \in SUBSET Int BY <1>2, <1>3
  <2>. QED BY <1>3, <1>5, <1>6, <2>1, BestUnique
<1>8. h \in Int BY <1>2, <1>3, <1>5 DEF IsBest
<1>9. r.avg = book.avg /\ r.sl = exits.sl /\ r.tp = exits.tp /\ r.ts = exits.ts BY DEF r, Levelled
<1>. DEFINE gain(from) == (IF book.qty > 0 THEN price - from ELSE from - price) * PctUnit
<1>10. \/ gain(book.avg) <= -(book.avg * exits.sl)
       \/ Active(exits.ts) /\ gain(h) <= -(h * exits.ts)
       \/ Active(exits.tp) /\ gain(book.avg) >= book.avg * exits.tp
  BY <1>1, <1>7 DEF Reaches
<1>11. /\ Active(exits.sl) /\ exits.sl \in Int /\ exits.tp \in Int \cup {None} /\ exits.ts \in Int \cup {None}
  BY <1>2 DEF Disciplined, Active
<1>12. CASE book.qty < 0
  <2>1. \A from \in Int : gain(from) = from * PctUnit - price * PctUnit BY <1>3, <1>12 DEF PctUnit
  <2>2. gain(book.avg) <= -(book.avg * exits.sl) => price * PctUnit >= book.avg * (PctUnit + exits.sl)
    BY <1>3, <1>11, <2>1 DEF PctUnit
  <2>3. Active(exits.ts) /\ gain(h) <= -(h * exits.ts) => price * PctUnit >= h * (PctUnit + exits.ts)
    BY <1>3, <1>8, <1>11, <2>1 DEF PctUnit, Active
  <2>4. Active(exits.tp) /\ gain(book.avg) >= book.avg * exits.tp => price * PctUnit <= book.avg * (PctUnit - exits.tp)
    BY <1>3, <1>11, <2>1 DEF PctUnit, Active
  <2>5. CrossedShort(r, h, price) BY <1>9, <1>10, <1>11, <2>2, <2>3, <2>4 DEF CrossedShort
  <2>. QED BY <1>1, <1>2, <1>4, <1>12, <2>5, BarEnds
<1>13. CASE book.qty > 0
  <2>1. \A from \in Int : gain(from) = price * PctUnit - from * PctUnit BY <1>3, <1>13 DEF PctUnit
  <2>2. gain(book.avg) <= -(book.avg * exits.sl) => price * PctUnit <= book.avg * (PctUnit - exits.sl)
    BY <1>3, <1>11, <2>1 DEF PctUnit
  <2>3. Active(exits.ts) /\ gain(h) <= -(h * exits.ts) => price * PctUnit <= h * (PctUnit - exits.ts)
    BY <1>3, <1>8, <1>11, <2>1 DEF PctUnit, Active
  <2>4. Active(exits.tp) /\ gain(book.avg) >= book.avg * exits.tp => price * PctUnit >= book.avg * (PctUnit + exits.tp)
    BY <1>3, <1>11, <2>1 DEF PctUnit, Active
  <2>5. CrossedLong(r, h, price) BY <1>9, <1>10, <1>11, <2>2, <2>3, <2>4 DEF CrossedLong
  <2>. QED BY <1>1, <1>2, <1>3, <1>4, <1>13, <2>5, BarEnds
<1>. QED BY <1>3, <1>12, <1>13

(* No stop a live position would have hit is survived by a replayed one,   *)
(* for any levels, prices, signals and costs.                              *)
THEOREM ReplayNeverSurvivesAStop == BtSpec => ReplayStopsOut
<1>. DEFINE Hit == \E best \in seenBars \cup {close'} :
                      /\ \A x \in seenBars \cup {close'} : IF book.qty > 0 THEN best >= x ELSE best <= x
                      /\ Reaches(best)
            Out == book'.qty = 0 \/ book'.trades > book.trades
<1>1. BtIInv /\ [BtNext]_btVars => [book.qty # 0 /\ curve' # curve /\ Hit => Out]_btVars
  <2>. SUFFICES ASSUME BtIInv, BtNext, book.qty # 0, curve' # curve, Hit PROVE Out
    OBVIOUS
  <2>1. ~Request BY DEF Request
  <2>2. PICK action \in Actions, price \in BarPrices : Bar(action, price) BY <2>1 DEF BtNext
  <2>3. PICK best \in seenBars \cup {close'} :
               /\ \A x \in seenBars \cup {close'} : IF book.qty > 0 THEN best >= x ELSE best <= x
               /\ Reaches(best)
    OBVIOUS
  <2>. QED BY <2>2, <2>3, StopsOutStep
<1>. QED BY <1>1, ReplayInvariant, PTL DEF BtSpec, ReplayStopsOut

(* Bounded sets of integers have a greatest element, and the values of a   *)
(* sequence are bounded.                                                   *)
LEMMA LeastOf ==
    ASSUME NEW S \in SUBSET Nat, S # {}
    PROVE  \E x \in S : \A y \in S : x <= y
<1>. DEFINE R == OpToRel(<, Nat)
<1>1. \A x, y \in Nat : y < x => <<y, x>> \in R BY DEF OpToRel
<1>2. IsWellFoundedOn(R, Nat) BY NatLessThanWellFounded, Zenon
<1>. HIDE DEF R
<1>3. PICK x \in S : \A y \in S : <<y, x>> \notin R BY <1>2, WFMin
<1>4. \A y \in S : x \in Nat /\ y \in Nat /\ ~(y < x) BY <1>1, <1>3
<1>. QED BY <1>3, <1>4

LEMMA GreatestOf ==
    ASSUME NEW S \in SUBSET Int, S # {}, NEW u \in Int, \A x \in S : x <= u
    PROVE  Greatest(S) \in S /\ \A y \in S : y <= Greatest(S)
<1>. DEFINE T == {n \in Nat : u - n \in S}
<1>1. PICK z \in S : TRUE OBVIOUS
<1>2. u - z \in Nat /\ u - (u - z) = z /\ z \in Int OBVIOUS
<1>3. T \in SUBSET Nat /\ T # {}
  <2>1. u - z \in T BY <1>2
  <2>. QED BY <2>1
<1>4. \A n \in T : n \in Nat /\ u - n \in S OBVIOUS
<1>5. \A y \in S : y \in Int /\ u - y \in T
  <2>. TAKE y \in S
  <2>1. y \in Int /\ u - y \in Nat /\ u - (u - y) = y OBVIOUS
  <2>. QED BY <2>1
<1>. HIDE DEF T
<1>6. PICK n \in T : \A m \in T : n <= m BY <1>3, LeastOf
<1>7. u - n \in S /\ \A y \in S : y <= u - n
  <2>1. n \in Nat /\ u - n \in S BY <1>4, <1>6
  <2>2. ASSUME NEW y \in S PROVE y <= u - n
    <3>1. y \in Int /\ u - y \in Int /\ n <= u - y BY <1>5, <1>6, <1>3
    <3>. QED BY <2>1, <3>1
  <2>. QED BY <2>1, <2>2
<1>8. \E x \in S : \A y \in S : y <= x BY <1>7
<1>. QED BY <1>8 DEF Greatest

LEMMA WithinMore ==
    ASSUME NEW x \in Int, NEW u \in Nat, NEW w \in Nat, u <= w, Within(x, u)
    PROVE  Within(x, w)
  BY DEF Within

LEMMA WithinBoth ==
    ASSUME NEW v \in Int, NEW u \in Nat
    PROVE  u + Abs(v) \in Nat /\ u <= u + Abs(v) /\ Within(v, u + Abs(v))
<1>1. Abs(v) \in Nat /\ -Abs(v) <= v /\ v <= Abs(v) BY DEF Abs
<1>. DEFINE a == Abs(v)
<1>. HIDE DEF a
<1>2. a \in Nat /\ -a <= v /\ v <= a BY <1>1 DEF a
<1>3. u + a \in Nat /\ u <= u + a /\ Within(v, u + a) BY <1>2 DEF Within
<1>. QED BY <1>3 DEF a

LEMMA ValuesBounded ==
    ASSUME NEW s \in Seq(Int)
    PROVE  \E u \in Nat : \A i \in DOMAIN s : Within(s[i], u)
<1>. DEFINE Bounds(k) == \E u \in Nat : \A i \in 1 .. k : Within(s[i], u)
            Bad == {k \in Nat : k <= Len(s) /\ ~Bounds(k)}
<1>0. Len(s) \in Nat /\ DOMAIN s = 1 .. Len(s) /\ \A i \in 1 .. Len(s) : s[i] \in Int OBVIOUS
<1>1. Bad = {}
  <2>. SUFFICES ASSUME Bad # {} PROVE FALSE OBVIOUS
  <2>1. Bad \in SUBSET Nat OBVIOUS
  <2>2. PICK k \in Bad : \A m \in Bad : k <= m
    <3>. HIDE DEF Bad
    <3>. QED BY <2>1, LeastOf
  <2>3. k \in Nat /\ k <= Len(s) /\ ~Bounds(k) OBVIOUS
  <2>4. k # 0
    <3>1. Bounds(0)
      <4>1. 0 \in Nat /\ \A i \in 1 .. 0 : FALSE OBVIOUS
      <4>. QED BY <4>1
    <3>. QED BY <2>3, <3>1
  <2>5. k - 1 \in Nat /\ k - 1 <= Len(s) /\ ~(k <= k - 1) BY <1>0, <2>3, <2>4
  <2>6. k - 1 \notin Bad BY <2>2, <2>5
  <2>7. Bounds(k - 1) BY <2>5, <2>6
  <2>8. PICK u \in Nat : \A i \in 1 .. (k - 1) : Within(s[i], u) BY <2>7
  <2>9. s[k] \in Int BY <1>0, <2>3, <2>4
  <2>. DEFINE v == s[k]
              w == u + Abs(v)
  <2>10. w \in Nat /\ u <= w /\ Within(v, w)
    <3>1. v \in Int BY <2>9
    <3>. HIDE DEF v
    <3>. QED BY <3>1, WithinBoth
  <2>. HIDE DEF w
  <2>11. ASSUME NEW i \in 1 .. k PROVE Within(s[i], w)
    <3>1. CASE i = k BY <2>10, <3>1
    <3>2. CASE i # k
      <4>1. i \in 1 .. (k - 1) /\ i \in 1 .. Len(s) BY <1>0, <2>3, <3>2
      <4>2. Within(s[i], u) BY <2>8, <4>1
      <4>3. s[i] \in Int BY <1>0, <4>1
      <4>. QED BY <2>10, <4>2, <4>3, WithinMore
    <3>. QED BY <3>1, <3>2
  <2>12. Bounds(k) BY <2>10, <2>11
  <2>. QED BY <2>3, <2>12
<1>2. Bounds(Len(s))
  <2>1. Len(s) \in Nat /\ Len(s) <= Len(s) BY <1>0
  <2>2. Len(s) \notin Bad BY <1>1
  <2>. HIDE DEF Bounds
  <2>. QED BY <2>1, <2>2
<1>. QED BY <1>0, <1>2

(* The share lost of a start is not more than the share lost of a peak     *)
(* above it, as long as something is left.                                 *)
LEMMA SharesLost ==
    ASSUME NEW start \in Nat \ {0}, NEW peak \in Nat \ {0}, start <= peak, NEW left \in Nat
    PROVE  ((start - left) * 100) \div start <= ((peak - left) * 100) \div peak
<1>. DEFINE qs == ((start - left) * 100) \div start
            qp == ((peak - left) * 100) \div peak
<1>1. (start - left) * 100 \in Int /\ (peak - left) * 100 \in Int OBVIOUS
<1>2. /\ qs \in Int /\ start * qs <= (start - left) * 100
      /\ qp \in Int /\ (peak - left) * 100 < peak * qp + peak
  BY <1>1, Division
<1>. HIDE DEF qs, qp
<1>3. ASSUME qs >= qp + 1 PROVE FALSE
  <2>. DEFINE k == 100 - qs
  <2>1. k \in Int /\ start * k = start * 100 - start * qs /\ peak * k = peak * 100 - peak * qs BY <1>2
  <2>2. peak * qs >= peak * (qp + 1) /\ peak * (qp + 1) = peak * qp + peak BY <1>2, <1>3
  <2>3. start * qs \in Int /\ peak * qs \in Int /\ peak * qp \in Int BY <1>2
  <2>. HIDE DEF k
  <2>4. start * k \in Int /\ peak * k \in Int BY <2>1
  <2>5. start * k >= 100 * left BY <1>2, <2>1, <2>3, <2>4
  <2>6. peak * k < 100 * left BY <1>2, <2>1, <2>2, <2>3, <2>4
  <2>7. k >= 0
    <3>1. ASSUME k <= -1 PROVE FALSE
      <4>1. start * k <= start * (-1) BY <2>1, <3>1
      <4>. QED BY <2>4, <2>5, <4>1
    <3>. QED BY <2>1, <3>1
  <2>8. peak * k >= start * k
    <3>1. peak - start \in Nat /\ k \in Nat BY <2>1, <2>7
    <3>2. (peak - start) * k \in Nat /\ peak * k = start * k + (peak - start) * k BY <3>1
    <3>. QED BY <2>4, <3>2
  <2>9. 100 * left \in Int OBVIOUS
  <2>. QED BY <2>4, <2>5, <2>6, <2>8, <2>9
<1>. QED BY <1>2, <1>3 DEF qs, qp

LEMMA LossWithinDrawdown ==
    ASSUME curve \in Seq(Int), curve # <<>>, curve[Len(curve)] >= 0
    PROVE  (-total_return * 100) \div (BtCash * QtyUnit) <= max_drawdown
<1>. DEFINE start == BtCash * QtyUnit
            last  == curve[Len(curve)]
<1>1. start \in Nat \ {0} BY BacktestConstants
<1>2. /\ DOMAIN curve = 1 .. Len(curve) /\ Len(curve) \in Nat \ {0} /\ Len(curve) \in DOMAIN curve
      /\ \A i \in DOMAIN curve : curve[i] \in Int
  OBVIOUS
<1>. HIDE DEF start
<1>3. PICK u \in Nat : \A i \in DOMAIN curve : Within(curve[i], u) BY ValuesBounded
<1>. DEFINE w == start + u
<1>4. w \in Nat /\ start <= w /\ u <= w BY <1>1
<1>. HIDE DEF w
<1>5. \A i \in DOMAIN curve : curve[i] <= w /\ -w <= curve[i] BY <1>2, <1>3, <1>4 DEF Within
<1>6. ASSUME NEW n \in DOMAIN curve PROVE Peak(n) \in Int /\ start <= Peak(n) /\ Peak(n) <= w
  <2>. DEFINE S == {start} \cup {curve[i] : i \in 1 .. n}
  <2>1. \A i \in 1 .. n : i \in DOMAIN curve BY <1>2
  <2>2. S \in SUBSET Int /\ start \in S /\ \A x \in S : x <= w BY <1>1, <1>2, <1>4, <1>5, <2>1
  <2>. HIDE DEF S
  <2>3. w \in Int /\ S # {} BY <1>4, <2>2
  <2>5. Greatest(S) \in S /\ \A y \in S : y <= Greatest(S) BY <2>2, <2>3, GreatestOf
  <2>4. Peak(n) = Greatest(S) BY DEF Peak, S, start
  <2>. QED BY <2>2, <2>4, <2>5
<1>. DEFINE Lost(n) == ((Peak(n) - curve[n]) * 100) \div Peak(n)
            D == {0} \cup {Lost(n) : n \in DOMAIN curve}
<1>7. ASSUME NEW n \in DOMAIN curve PROVE Lost(n) \in Int /\ Lost(n) <= 200 * w
  <2>1. Peak(n) \in Nat \ {0} /\ Peak(n) <= w /\ curve[n] \in Int /\ -w <= curve[n]
    BY <1>1, <1>2, <1>5, <1>6
  <2>. DEFINE p == Peak(n)
              x == (p - curve[n]) * 100
              q == x \div p
  <2>. HIDE DEF p
  <2>2. p \in Nat \ {0} /\ x \in Int /\ x <= 200 * w BY <1>4, <2>1 DEF p
  <2>. HIDE DEF x
  <2>3. q \in Int /\ p * q <= x BY <2>2, Division
  <2>4. Lost(n) = q BY DEF p, x
  <2>. HIDE DEF q
  <2>5. q >= 0 => p * q >= q BY <2>2, <2>3
  <2>6. p * q \in Int BY <2>2, <2>3
  <2>7. q <= 200 * w BY <1>4, <2>2, <2>3, <2>5, <2>6
  <2>. QED BY <2>3, <2>4, <2>7
<1>8. Lost(Len(curve)) <= max_drawdown
  <2>1. D \in SUBSET Int /\ 0 \in D /\ Lost(Len(curve)) \in D BY <1>2, <1>7
  <2>2. \A x \in D : x <= 200 * w BY <1>4, <1>7
  <2>3. max_drawdown = Greatest(D) BY DEF max_drawdown
  <2>. HIDE DEF D
  <2>4. 200 * w \in Int BY <1>4
  <2>5. \A y \in D : y <= Greatest(D) BY <2>1, <2>2, <2>4, GreatestOf
  <2>. QED BY <2>1, <2>3, <2>5
<1>9. ((start - last) * 100) \div start <= Lost(Len(curve))
  <2>1. Peak(Len(curve)) \in Nat \ {0} /\ start <= Peak(Len(curve)) /\ last \in Nat BY <1>1, <1>2, <1>6
  <2>. QED BY <1>1, <2>1, SharesLost
<1>10. -total_return * 100 = (start - last) * 100
  <2>1. total_return = last - start BY DEF total_return, start
  <2>2. last \in Int BY <1>2
  <2>. HIDE DEF last
  <2>. QED BY <1>1, <2>1, <2>2
<1>11. ((start - last) * 100) \div start \in Int /\ Lost(Len(curve)) \in Int /\ max_drawdown \in Int
  <2>1. (start - last) * 100 \in Int BY <1>1, <1>2
  <2>2. ((start - last) * 100) \div start \in Int BY <1>1, <2>1, Division
  <2>3. max_drawdown \in Int
    <3>1. D \in SUBSET Int /\ 0 \in D BY <1>2, <1>7
    <3>2. \A x \in D : x <= 200 * w BY <1>4, <1>7
    <3>3. max_drawdown = Greatest(D) BY DEF max_drawdown
    <3>. HIDE DEF D
    <3>4. 200 * w \in Int BY <1>4
    <3>5. Greatest(D) \in D BY <3>1, <3>2, <3>4, GreatestOf
    <3>. QED BY <3>1, <3>3, <3>5
  <2>. QED BY <1>2, <1>7, <2>2, <2>3
<1>. HIDE DEF Lost, D, last
<1>12. ((start - last) * 100) \div start <= max_drawdown BY <1>8, <1>9, <1>11
<1>. QED BY <1>10, <1>12 DEF start

LEMMA GapOfMetrics ==
    ASSUME NEW c \in Int, NEW q \in Int, NEW a \in Int, NEW e \in Int, NEW start \in Int, NEW unit \in Int,
           NEW price \in Int
    PROVE  /\ ((c * unit + q * price) - start * unit) - e * unit - q * (price - a)
                = unit * (c - start - e) + q * a
           /\ unit * (c - start - e) + q * a \in Int
  OBVIOUS

(* For any strategy, prices, sizing, cost and discipline: the metrics of a *)
(* replay are what its fills made, and wins are trips that made money.     *)
THEOREM ReplayIsHonest == BtSpec => []ReplayInv
<1>1. BtIInv => ReplayInv
  <2>. SUFFICES ASSUME BtIInv PROVE ReplayReconciles BY DEF BtIInv, ReplayInv
  <2>. SUFFICES ASSUME close # None
                PROVE  /\ Abs(total_return - earned * QtyUnit - book.qty * (close - book.avg))
                             <= 2 * book.trades * QtyUnit
                       /\ curve[Len(curve)] >= 0 => (-total_return * 100) \div (BtCash * QtyUnit) <= max_drawdown
    BY DEF ReplayReconciles
  <2>1. /\ curve \in Seq(Int) /\ curve # <<>> /\ close \in Int /\ curve[Len(curve)] = EquityAt(book, close)
        /\ book \in Books /\ earned \in Int /\ Accounted(book, earned)
    BY DEF BtIInv, CurveOK
  <2>2. /\ book.cash \in Int /\ book.qty \in Int /\ book.avg \in Int /\ book.trades \in Nat
        /\ QtyUnit \in Nat \ {0} /\ BtCash \in Nat
    BY <2>1, BookFields, BacktestConstants
  <2>3. /\ total_return - earned * QtyUnit - book.qty * (close - book.avg) = BtGap(book, earned)
        /\ BtGap(book, earned) \in Int
    <3>1. total_return = (book.cash * QtyUnit + book.qty * close) - BtCash * QtyUnit
      BY <2>1 DEF total_return, EquityAt
    <3>. DEFINE c == book.cash
                q == book.qty
                a == book.avg
    <3>2. c \in Int /\ q \in Int /\ a \in Int /\ earned \in Int /\ BtCash \in Int /\ QtyUnit \in Int /\ close \in Int
      BY <2>1, <2>2
    <3>3. BtGap(book, earned) = QtyUnit * (c - BtCash - earned) + q * a BY DEF BtGap
    <3>4. total_return = (c * QtyUnit + q * close) - BtCash * QtyUnit BY <3>1
    <3>. HIDE DEF c, q, a
    <3>5. /\ ((c * QtyUnit + q * close) - BtCash * QtyUnit) - earned * QtyUnit - q * (close - a)
               = QtyUnit * (c - BtCash - earned) + q * a
          /\ QtyUnit * (c - BtCash - earned) + q * a \in Int
      BY <3>2, GapOfMetrics
    <3>. QED BY <3>3, <3>4, <3>5 DEF q, a
  <2>5. Abs(BtGap(book, earned)) <= 2 * book.trades * QtyUnit
    <3>. DEFINE gap == BtGap(book, earned)
                n == book.trades
                most == Allowed(book)
    <3>1. n * QtyUnit \in Nat /\ 2 * n * QtyUnit = 2 * (n * QtyUnit) BY <2>2
    <3>2. most = IF book.qty = 0 THEN 3 * (n * QtyUnit) ELSE 3 * (n * QtyUnit) - 2 * QtyUnit BY DEF Allowed
    <3>3. gap \in Int /\ Within(2 * gap, most) BY <2>1, <2>3 DEF Accounted
    <3>. HIDE DEF gap, n, most
    <3>4. most \in Int /\ most <= 4 * (n * QtyUnit) BY <2>2, <3>1, <3>2
    <3>5. Abs(gap) <= 2 * (n * QtyUnit) BY <3>1, <3>3, <3>4 DEF Abs, Within
    <3>. QED BY <3>1, <3>5 DEF gap, n
  <2>. QED BY <2>1, <2>3, <2>5, LossWithinDrawdown
<1>. QED BY <1>1, ReplayInvariant, PTL

=====
