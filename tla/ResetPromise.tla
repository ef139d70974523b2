----------------------------- MODULE ResetPromise ------------------------------
(***************************************************************************)
(* What the device promises about a factory reset, with no word on lists   *)
(* of operations, errors or the stages of a boot.  A reset that is owed is *)
(* not forgotten: it ends with no data left, and until it has ended no     *)
(* boot lets the device work.  A device that works may go on storing while *)
(* a reset is owed, after one that failed; that data goes as well.         *)
(* FactoryReset implements it.                                             *)
(***************************************************************************)
CONSTANT Places  \* where user data is stored

VARIABLES
    data,  \* the places that hold user data
    owed,  \* a reset has been asked for and has not ended
    live   \* the device works with its data

promiseVars == <<data, owed, live>>

PromiseInit ==
    /\ data = {}
    /\ owed = FALSE
    /\ live = FALSE

Start ==
    /\ ~live /\ ~owed
    /\ live' = TRUE
    /\ UNCHANGED <<data, owed>>

Stop ==
    /\ live' = FALSE
    /\ UNCHANGED <<data, owed>>

Keep(p) ==
    /\ live
    /\ data' = data \union {p}
    /\ UNCHANGED <<owed, live>>

Owe ==
    /\ live
    /\ owed' = TRUE
    /\ UNCHANGED <<data, live>>

Erase(p) ==
    /\ owed
    /\ data' = data \ {p}
    /\ UNCHANGED <<owed, live>>

\* The device then starts again, or does not notice and goes on.
End ==
    /\ owed /\ data = {}
    /\ owed' = FALSE
    /\ live' \in {live, FALSE}
    /\ UNCHANGED data

PromiseNext ==
    \/ Start \/ Stop \/ Owe \/ End
    \/ \E p \in Places : Keep(p) \/ Erase(p)

PromiseSpec == PromiseInit /\ [][PromiseNext]_promiseVars

===============================================================================
