---------------------------- MODULE AccountSession ----------------------------
(***************************************************************************)
(* What the device promises about accounts, with no word on how: which     *)
(* account the flash remembers, which account the running firmware acts    *)
(* for, and whose usage numbers it holds.  UsageClient refines it.         *)
(***************************************************************************)
CONSTANTS
    Keys,    \* credentials the server can hand out
    NoKey    \* no account; not one of Keys

VARIABLES
    account,   \* the account the flash remembers, or NoKey
    session,   \* the account the running firmware acts for, or NoKey
    shown,     \* the accounts whose usage days are held for display
    issued     \* credentials the server has handed out, each at most once

sessionVars == <<account, session, shown, issued>>

SessionInit ==
    /\ account = NoKey
    /\ session = NoKey
    /\ shown = {}
    /\ issued = {}

\* A delivered credential becomes the account, in flash and in RAM, and
\* nothing of an earlier account stays visible.
LinkAccount(k) ==
    /\ k \in Keys \ issued
    /\ issued' = issued \union {k}
    /\ account' = k
    /\ session' = k
    /\ shown' = {}

\* A delivered credential that could not be stored: the flash may or may not
\* hold it, the running firmware goes on as before.
LinkNotStored(k) ==
    /\ k \in Keys \ issued
    /\ issued' = issued \union {k}
    /\ account' \in {account, k}
    /\ UNCHANGED <<session, shown>>

\* Unlinking ends the session and clears the display whatever the flash does.
UnlinkAccount ==
    /\ session' = NoKey
    /\ shown' = {}
    /\ account' \in {account, NoKey}
    /\ UNCHANGED issued

PowerOff ==
    /\ session' = NoKey
    /\ shown' = {}
    /\ UNCHANGED <<account, issued>>

\* The client state is rebuilt from flash.
Resume ==
    /\ session' = account
    /\ shown' \in {{}, {account}} \ {{NoKey}}
    /\ UNCHANGED <<account, issued>>

\* A day of the session's own account arrives.
ShowUsage ==
    /\ session # NoKey
    /\ shown' = {session}
    /\ UNCHANGED <<account, session, issued>>

SessionNext ==
    \/ \E k \in Keys : LinkAccount(k) \/ LinkNotStored(k)
    \/ UnlinkAccount
    \/ PowerOff
    \/ Resume
    \/ ShowUsage

SessionSpec == SessionInit /\ [][SessionNext]_sessionVars

===============================================================================
