------------------------------- MODULE TodoStore -------------------------------
(***************************************************************************)
(* What the device promises about TODO items and their reminders, with no  *)
(* word on numbers, records, callbacks or tasks.  There is the list the    *)
(* device acts on and the one its flash holds.  Both change by one change  *)
(* at a time, each made to the list of that moment: what a request of the  *)
(* user asked for, once per request, or the next time of a reminder that   *)
(* was heard.  A change that could not be stored is not made; the flash    *)
(* may hold it all the same, until the next change or the next start.      *)
(* TodoList implements it.                                                 *)
(***************************************************************************)
EXTENDS Naturals

CONSTANT Titles  \* titles of items

VARIABLES
    promised,  \* the items the device acts on
    stored,    \* the items a restart finds
    asking,    \* a request of the user is under way
    heard,     \* the reminders that sounded, as title and time
    now        \* the time

storeVars == <<promised, stored, asking, heard, now>>

StoreInit ==
    /\ promised = {} /\ stored = {}
    /\ asking = FALSE
    /\ heard = {}
    /\ now = 1

-------------------------------------------------------------------------------
(* Changes, as relations between an old and a new set of items *)

Finished(item) == [title |-> item.title, due |-> 0, repeat |-> 0, done |-> TRUE]

Moved(item, due) ==
    [title |-> item.title, due |-> due, repeat |-> item.repeat, done |-> item.done]

\* A new item has a title that tells it from the others.
Entered(old, new) ==
    \E item \in new :
        /\ new = old \union {item}
        /\ item.title \in Titles \ {x.title : x \in old}
        /\ ~item.done

\* Nothing but the items that are done changes ...
Completed(old, new) ==
    \E some \in SUBSET old :
        new = (old \ some) \union {Finished(item) : item \in some}

\* ... and those that stay do not change at all.
Deleted(old, new) == new \subseteq old

Requested(old, new) == Entered(old, new) \/ Completed(old, new) \/ Deleted(old, new)

\* A reminder ends, or goes on to a later time of its own schedule.
Times(item) ==
    IF item.repeat = 0 THEN {0} ELSE {item.due + n * item.repeat : n \in 1..now}

Settled(old, new) ==
    \E item \in old :
        /\ <<item.title, item.due>> \in heard
        /\ \E due \in Times(item) : new = (old \ {item}) \union {Moved(item, due)}

-------------------------------------------------------------------------------
Ask ==
    /\ ~asking /\ asking' = TRUE
    /\ UNCHANGED <<promised, stored, heard, now>>

\* Without a word, or with an error.
Forget ==
    /\ asking /\ asking' = FALSE
    /\ UNCHANGED <<promised, stored, heard, now>>

\* The change is made and stored.
Grant ==
    /\ asking /\ asking' = FALSE
    /\ Requested(promised, promised')
    /\ stored' = promised'
    /\ UNCHANGED <<heard, now>>

\* The request failed; a restart may find its change or not.
GrantNotStored ==
    /\ asking /\ asking' = FALSE
    /\ Requested(promised, stored')
    /\ UNCHANGED <<promised, heard, now>>

Sound ==
    /\ \E item \in promised :
          /\ item.due \in 1..now
          /\ heard' = heard \union {<<item.title, item.due>>}
    /\ UNCHANGED <<promised, stored, asking, now>>

Settle ==
    /\ Settled(promised, promised')
    /\ stored' = promised'
    /\ UNCHANGED <<asking, heard, now>>

SettleNotStored ==
    /\ Settled(promised, stored')
    /\ UNCHANGED <<promised, asking, heard, now>>

Restart ==
    /\ promised' = stored
    /\ asking' = FALSE
    /\ UNCHANGED <<stored, heard, now>>

Pass == now' = now + 1 /\ UNCHANGED <<promised, stored, asking, heard>>

StoreNext ==
    \/ Ask \/ Forget \/ Grant \/ GrantNotStored
    \/ Sound \/ Settle \/ SettleNotStored
    \/ Restart \/ Pass

StoreSpec == StoreInit /\ [][StoreNext]_storeVars

===============================================================================
