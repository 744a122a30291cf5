-------------------------- MODULE StrategyRegistry --------------------------
(***************************************************************************)
(* trade-api/app/routers/strategies.py: the table of strategies and the    *)
(* signals of their evaluations, under concurrent requests.  A request is  *)
(* one transaction on one session (READ COMMITTED); an inserted row is     *)
(* sent at the session's next statement and holds its (name, version) key  *)
(* until the transaction ends.                                             *)
(*                                                                         *)
(* A specification is "good", "refused" by _validate_for_kind, or "raises":*)
(* it is let through and its evaluation may raise (an unknown operation of *)
(* a rule_dsl, a parameter or threshold that is not a number of another    *)
(* kind).  Deleting does not exist.                                        *)
(***************************************************************************)
EXTENDS Integers, Sequences, SequencesExt, FiniteSets

CONSTANTS Callers,       \* concurrent requests
          Catalog,       \* names of the house strategies, in file order
          Bodies,        \* the rows creations ask for
          Tradables,     \* symbols an evaluation asks about
          NoRow,         \* no strategy
          MaxRows,       \* bound: rows
          MaxRequests    \* bound: requests

(* The columns a strategy is known by; what a creation asks for is typed,  *)
(* not checked, by schemas.StrategyCreate.                                 *)
StrategyKind == {"signal_fn", "rule_dsl", "indicator_dsl"}
StrategyRows == [name : STRING, version : Int, kind : StrategyKind \cup {"option_structure"},
                 spec : {"good", "refused", "raises"}, status : {"draft", "active", "retired"}]

ASSUME RegistryAssumption ==
    /\ MaxRows \in Nat /\ MaxRequests \in Nat
    /\ Catalog \in Seq(STRING) /\ Catalog # <<>>
    /\ Bodies \subseteq StrategyRows

VARIABLES table,         \* trade.strategy: id -> row
          signalRows,    \* trade.strategy_signal: [id, symbol]
          call,          \* the request of each caller
          answers,       \* history: how the requests were answered
          requests       \* requests so far
registryVars == <<table, signalRows, call, answers, requests>>

NoCall == [op |-> "none", at |-> 0, id |-> NoRow, row |-> NoRow, pending |-> {}, out |-> <<>>]
RegistryInit == /\ table = <<>> /\ signalRows = {} /\ answers = {} /\ requests = 0
                /\ call = [c \in Callers |-> NoCall]

Named(n) == {i \in DOMAIN table : table[i].name = n}
Key(row) == <<row.name, row.version>>
Keys == {Key(table[i]) : i \in DOMAIN table}
HeldBy(others) == UNION {call[d].pending : d \in others}
Locked(c) == HeldBy(Callers \ {c})

HouseRow(n) == [name |-> n, version |-> 1, kind |-> "indicator_dsl", spec |-> "good", status |-> "active"]
Append2(rows, new) == rows \o SetToSeq(new)

Replies(c, status, rows, fired) ==
    /\ call' = [call EXCEPT ![c] = NoCall]
    /\ answers' = answers \cup {[status |-> status, op |-> call[c].op, id |-> call[c].id, fired |-> fired,
                                 present |-> {rows[i].name : i \in DOMAIN rows}]}

Begins(c, op, id, row) ==
    /\ call[c].op = "none" /\ requests < MaxRequests
    /\ requests' = requests + 1
    /\ call' = [call EXCEPT ![c] = [NoCall EXCEPT !.op = op, !.id = id, !.row = row, !.at = 1]]
    /\ UNCHANGED <<table, signalRows, answers>>

(***************************************************************************)
(* POST /strategies and POST /strategies/{id}/status.                      *)
(***************************************************************************)
(* Of a kind it does not know it refuses nothing.                          *)
_validate_for_kind(kind, spec) == kind \in StrategyKind => spec # "refused"

Create(c) ==
    \E body \in Bodies : Begins(c, "create", NoRow, body)

CreateEnds(c) ==
    LET row == call[c].row IN
    /\ call[c].op = "create"
    /\ \/ /\ ~_validate_for_kind(row.kind, row.spec)
          /\ UNCHANGED table /\ Replies(c, 422, table, {})
       \/ /\ _validate_for_kind(row.kind, row.spec) /\ (Key(row) \in Keys \/ row.kind \notin StrategyKind)
          /\ UNCHANGED table /\ Replies(c, 500, table, {})
       \/ /\ _validate_for_kind(row.kind, row.spec) /\ row.kind \in StrategyKind
          /\ Key(row) \notin Keys \cup Locked(c) /\ Len(table) < MaxRows
          /\ table' = Append(table, row) /\ Replies(c, 200, table', {})
    /\ UNCHANGED <<signalRows, requests>>

SetStatus ==
    /\ requests < MaxRequests /\ requests' = requests + 1
    /\ \E i \in DOMAIN table, s \in {"active", "retired"} : table' = [table EXCEPT ![i].status = s]
    /\ UNCHANGED <<signalRows, call, answers>>

(***************************************************************************)
(* POST /strategies/seed: for each name a look and an insert, then one     *)
(* commit.                                                                 *)
(***************************************************************************)
Seed(c) == Begins(c, "seed", NoRow, NoRow)

(* scalar_one_or_none raises when a name has two versions.                 *)
SeedLook(c) ==
    LET n == Catalog[call[c].at] IN
    /\ call[c].op = "seed" /\ call[c].at \in DOMAIN Catalog /\ call[c].row = NoRow
    /\ \/ Cardinality(Named(n)) > 1 /\ UNCHANGED table /\ Replies(c, 500, table, {})
       \/ /\ Cardinality(Named(n)) = 1
          /\ call' = [call EXCEPT ![c].at = @ + 1] /\ UNCHANGED <<table, answers>>
       \/ /\ Named(n) = {}
          /\ call' = [call EXCEPT ![c].row = HouseRow(n)] /\ UNCHANGED <<table, answers>>
    /\ UNCHANGED <<signalRows, requests>>

(* Mutant: the table has no unique key.                                    *)
InsertAnyway(c) ==
    /\ call[c].op = "seed" /\ call[c].row # NoRow
    /\ call' = [call EXCEPT ![c].at = @ + 1, ![c].row = NoRow, ![c].pending = @ \cup {Key(call[c].row)}]
    /\ UNCHANGED <<table, answers, signalRows, requests>>

(* The insert waits for a transaction that holds the key, and fails when   *)
(* the key was committed since the look.                                   *)
SeedInsert(c) ==
    /\ call[c].op = "seed" /\ call[c].row # NoRow /\ Key(call[c].row) \notin Locked(c)
    /\ IF Key(call[c].row) \in Keys THEN UNCHANGED table /\ Replies(c, 500, table, {})
       ELSE /\ call' = [call EXCEPT ![c].at = @ + 1, ![c].row = NoRow, ![c].pending = @ \cup {Key(call[c].row)}]
            /\ UNCHANGED <<table, answers>>
    /\ UNCHANGED <<signalRows, requests>>

SeedCommit(c) ==
    /\ call[c].op = "seed" /\ call[c].at > Len(Catalog)
    /\ Len(table) + Cardinality(call[c].pending) <= MaxRows
    /\ table' = Append2(table, {HouseRow(k[1]) : k \in call[c].pending})
    /\ Replies(c, 200, table', {})
    /\ UNCHANGED <<signalRows, requests>>

(***************************************************************************)
(* POST /strategies/{id}/evaluate: the row is read once; each symbol's     *)
(* bars are awaited; the signals are committed together.  A status is not  *)
(* looked at.                                                              *)
(***************************************************************************)
Evaluate(c) == \E i \in DOMAIN table : Begins(c, "evaluate", i, table[i])

Symbol(c) == SetToSeq(Tradables)[call[c].at]

(* Mutant: each signal is committed at once.                               *)
EvaluateCommits(c) ==
    /\ call[c].op = "evaluate" /\ call[c].at <= Cardinality(Tradables)
    /\ call' = [call EXCEPT ![c].at = @ + 1, ![c].out = Append(@, Symbol(c))]
    /\ signalRows' = signalRows \cup {[id |-> call[c].id, symbol |-> Symbol(c)]}
    /\ UNCHANGED <<table, answers, requests>>

(* A symbol without bars is passed over; an evaluation raises only where   *)
(* it reaches what is wrong.                                               *)
EvaluateSymbol(c) ==
    /\ call[c].op = "evaluate" /\ call[c].at <= Cardinality(Tradables)
    /\ \/ call[c].row.spec = "raises" /\ Replies(c, 500, table, {})
       \/ /\ \E fires \in BOOLEAN :
               /\ call' = [call EXCEPT ![c].at = @ + 1, ![c].out = IF fires THEN Append(@, Symbol(c)) ELSE @]
          /\ UNCHANGED answers
    /\ UNCHANGED <<table, signalRows, requests>>

(* An answer lost on its way counts as an answer.                          *)
EvaluateCommit(c) ==
    /\ call[c].op = "evaluate" /\ call[c].at > Cardinality(Tradables)
    /\ signalRows' = signalRows \cup {[id |-> call[c].id, symbol |-> s] : s \in Range(call[c].out)}
    /\ UNCHANGED table /\ Replies(c, 200, table, Range(call[c].out))
    /\ UNCHANGED requests

(* The client's timeout or a lost worker: the transaction is rolled back.  *)
Aborted(c) ==
    /\ call[c].op # "none"
    /\ call' = [call EXCEPT ![c] = NoCall]
    /\ UNCHANGED <<table, signalRows, answers, requests>>

RegistryStep(c) ==
    \/ Create(c) \/ CreateEnds(c) \/ Seed(c) \/ SeedLook(c) \/ SeedInsert(c) \/ SeedCommit(c)
    \/ Evaluate(c) \/ EvaluateSymbol(c) \/ EvaluateCommit(c) \/ Aborted(c)
RegistryNext == SetStatus \/ \E c \in Callers : RegistryStep(c)
RegistrySpec == RegistryInit /\ [][RegistryNext]_registryVars

-----------------------------------------------------------------------------
(* "Idempotently create the house strategy catalog": however many seeds    *)
(* overlap with each other and with creations, no (name, version) is there *)
(* twice, and a seed that answered 200 leaves every name of the catalog.   *)
SeedIsIdempotent ==
    /\ \A i, j \in DOMAIN table : i # j => Key(table[i]) # Key(table[j])
    /\ \A a \in answers : a.op = "seed" /\ a.status = 200 => Range(Catalog) \subseteq a.present

(* The signal rows are "the reproducible audit trail": they are those of   *)
(* the evaluations that were answered, whole, and of no other.             *)
SignalsAreAnswered ==
    /\ \A r \in signalRows : \E a \in answers : a.op = "evaluate" /\ a.status = 200 /\ a.id = r.id /\ r.symbol \in a.fired
    /\ \A a \in answers : \A s \in a.fired : \E r \in signalRows : r.id = a.id /\ r.symbol = s
=============================================================================
