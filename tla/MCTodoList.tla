------------------------------ MODULE MCTodoList -------------------------------
(***************************************************************************)
(* Small instances of TodoList.  Two items are enough for a deletion to    *)
(* renumber one that stays, a queue of one for a start to find it full.    *)
(***************************************************************************)
EXTENDS TodoList, TLC

\* Titles only tell items apart; nothing depends on which is which.
TitleSymmetry == Permutations(Titles)
===============================================================================
