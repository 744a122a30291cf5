------------------------------- MODULE Diary -------------------------------
(***************************************************************************)
(* game-api/app/evolve/diary.py: the rows that trade_diary holds for one   *)
(* symbol of one agent, in the order they were inserted, and the           *)
(* operations of its two writers, the decision tick and the monitor.       *)
(*                                                                         *)
(* A life of a position runs from its opening from flat to its return to   *)
(* flat; the lives of a symbol are numbered.  Prices, P&L and rationale    *)
(* are left out: `life` is the life a row was opened for, `last` the one   *)
(* whose size and price it shows, `by` the one whose end closed it.        *)
(***************************************************************************)
EXTENDS Naturals, Sequences

CONSTANT None

Rows == [status : {"open", "closed"}, life : Nat, last : Nat, by : Nat \cup {None}]

OpenRows(rows) == {i \in DOMAIN rows : rows[i].status = "open"}

OpenRow(rows) == IF OpenRows(rows) = {} THEN None ELSE CHOOSE i \in OpenRows(rows) : TRUE

(* What a transaction does once it has found `row`, which another one may  *)
(* have closed since: the UPDATE goes by id.                               *)
OpenOrUpdate(rows, row, life) ==
    IF row = None
    THEN Append(rows, [status |-> "open", life |-> life, last |-> life, by |-> None])
    ELSE [rows EXCEPT ![row].last = life]

CloseOpen(rows, row, life) ==
    IF row = None THEN rows ELSE [rows EXCEPT ![row].status = "closed", ![row].by = life]

(* ux_diary_open_slot, a unique index over the open rows.                  *)
Refused(rows, row) == row = None /\ OpenRows(rows) # {}
=============================================================================
