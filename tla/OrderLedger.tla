---------------------------- MODULE OrderLedger ----------------------------
(***************************************************************************)
(* What trade-api promises its callers, whatever sessions, locks, retries, *)
(* sweeps and crashes do inside: accounts with a balance and holdings, and *)
(* orders under their idempotency keys, moved by atomic commits.           *)
(***************************************************************************)
EXTENDS Integers, FiniteSets

CONSTANTS Accounts, Symbols, Keys, StartingCash, None

VARIABLES balance,   \* cash of each account, None while it does not exist
          holding,   \* signed size of each position
          status     \* what became of each order, None while it was not placed
ledgerVars == <<balance, holding, status>>

Ended == {"filled", "rejected", "canceled"}

LedgerInit == /\ balance = [a \in Accounts |-> None]
              /\ holding = [a \in Accounts |-> [s \in Symbols |-> 0]]
              /\ status  = [a \in Accounts |-> [k \in Keys |-> None]]

Open == /\ \E a \in Accounts : /\ balance[a] = None
                               /\ balance' = [balance EXCEPT ![a] = StartingCash]
        /\ UNCHANGED <<holding, status>>

Cancel == /\ \E a \in Accounts, k \in Keys :
                /\ status[a][k] = "accepted"
                /\ status' = [status EXCEPT ![a][k] = "canceled"]
          /\ UNCHANGED <<balance, holding>>

(* Orders under new keys are decided: every one ends where it is put, and  *)
(* money and holdings move only in an account one of its orders fills, one *)
(* symbol for each of them.                                                *)
Filled(a) == {k \in Keys : status'[a][k] = "filled" /\ status[a][k] # "filled"}
Moved(a)  == {s \in Symbols : holding'[a][s] # holding[a][s]}
Decide ==
    /\ DOMAIN status' = Accounts /\ DOMAIN balance' = Accounts
    /\ \A a \in Accounts :
         /\ \A k \in Keys : status'[a][k] # status[a][k] =>
              /\ balance[a] # None
              /\ status[a][k] = None /\ status'[a][k] \in {"filled", "rejected", "accepted"}
         /\ Filled(a) = {} => balance'[a] = balance[a]
         /\ balance[a] = None <=> balance'[a] = None
         /\ Cardinality(Moved(a)) <= Cardinality(Filled(a))

LedgerNext == Open \/ Cancel \/ Decide
LedgerSpec == LedgerInit /\ [][LedgerNext]_ledgerVars
=============================================================================
