----------------------------- MODULE RadioPromise ------------------------------
(***************************************************************************)
(* What the device promises about its radio, with no word on tasks,        *)
(* critical sections, events or queues.  It is a station or a setup        *)
(* hotspot and goes from the one to the other through neither.  From a     *)
(* stop on nothing opens any more, and the caller is told that the network *)
(* has stopped when all is closed, so that the power may be cut.           *)
(* WifiLink implements it.                                                 *)
(***************************************************************************)
VARIABLES
    on,        \* the modes that are open
    stopping,  \* the stop is under way or over
    stopped    \* the caller has been told that the network has stopped

radioVars == <<on, stopping, stopped>>

RadioInit ==
    /\ on = {}
    /\ stopping = FALSE
    /\ stopped = FALSE

Open(mode) ==
    /\ on = {} /\ ~stopping
    /\ on' = {mode}
    /\ UNCHANGED <<stopping, stopped>>

Close ==
    /\ on' = {}
    /\ UNCHANGED <<stopping, stopped>>

Stop ==
    /\ stopping' = TRUE
    /\ UNCHANGED <<on, stopped>>

Report ==
    /\ stopping /\ on = {}
    /\ stopped' = TRUE
    /\ UNCHANGED <<on, stopping>>

\* A caller that asks again waits for another report.
AskAgain ==
    /\ stopped' = FALSE
    /\ UNCHANGED <<on, stopping>>

RadioNext ==
    \/ \E mode \in {"station", "hotspot"} : Open(mode)
    \/ Close \/ Stop \/ Report \/ AskAgain

RadioSpec == RadioInit /\ [][RadioNext]_radioVars

===============================================================================
