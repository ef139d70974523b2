------------------------------- MODULE DayWindow -------------------------------
(***************************************************************************)
(* The rolling seven-day window of usage days: the day slots of            *)
(* vibe_cache.c, the today fetch and the reconciliation round of           *)
(* vibe_client.c, and the part of app_controller.c that starts them.       *)
(*                                                                         *)
(* A fetch spans a network wait in which the wall clock can pass midnight. *)
(* The day it asks for is fixed when it starts; everything it decides when *)
(* it ends reads the clock again.                                          *)
(*                                                                         *)
(* Data is abstracted: a day slot is its date and the date it was fetched  *)
(* on, and a date is a number.  Time is counted in half days, the first    *)
(* half before and the second after the daily reconciliation minute (03:xx *)
(* local time).  Failed saves are the business of UsageClient; here a save *)
(* succeeds, but the code does not save every change it makes.             *)
(***************************************************************************)
EXTENDS Integers, FiniteSets

CONSTANTS
    WindowDays,    \* 7 in the code
    CacheDays,     \* VIBE_CACHE_DAYS, 8 in the code
    FirstClock,    \* half day at which the device starts
    MaxClock,      \* bound: half day at which the clock stops
    MaxClockBack,  \* bound: half days the clock is corrected back by, in all
    MaxUpsets      \* bound: failures, reboots and user actions, in all

ASSUME WindowAssumption ==
    /\ WindowDays \in Nat \ {0, 1}
    /\ CacheDays = WindowDays + 1
    /\ {FirstClock, MaxClock, MaxClockBack, MaxUpsets} \subseteq Nat
    /\ FirstClock > 2 * (WindowDays + MaxClockBack)

VARIABLES
    pc,               \* "idle", "today" or "day": the fetch under way
    clock,            \* wall clock, in half days
    setBack,          \* half days the clock was set back by so far
    days,             \* g_vibe.cache.days
    anchor,           \* g_vibe.cache.reconcile_anchor_key
    pending,          \* g_vibe.cache.reconcile_pending_mask, as a set of ages
    lastReconcile,    \* g_vibe.cache.last_reconcile_at, 0 if never; it only
                      \* changes with a save
    saved,            \* the other three as last written to flash
    reconcileActive,  \* s_controller.reconcile_active
    retryPending,     \* s_controller.next_retry_us is set
    upsets,           \* number of failures, reboots and user actions so far
    fetchDate,        \* date the fetch under way asks for
    fetchToday        \* today as read when the fetch started

cacheVars == <<days, anchor, pending, lastReconcile, saved>>
clockVars == <<clock, setBack>>
taskVars == <<reconcileActive, retryPending>>
fetchVars == <<fetchDate, fetchToday>>
vars == <<pc, clockVars, cacheVars, taskVars, upsets, fetchVars>>

-------------------------------------------------------------------------------
(* Clock and slots *)

DateOf(t) == t \div 2
Today == DateOf(clock)
Ages == 0..(WindowDays - 1)

Day == [date : Nat, on : Nat]
NoDay == [date |-> 0, on |-> 0]    \* an invalid slot, all zero
SlotIndex == 1..CacheDays

\* vibe_cache_find_day
Cached(slots, date) == \E i \in SlotIndex : slots[i].date = date

\* Regression variant: a day always takes the slot of the oldest date, even
\* when it already has one.
ChooseOldestSlot(slots, date) ==
    CHOOSE i \in SlotIndex : \A j \in SlotIndex : slots[i].date <= slots[j].date

\* choose_slot: scanning upwards, the first slot that is free or already has
\* the date, else the first one with the oldest date.
ChooseSlot(slots, date) ==
    LET usable == {i \in SlotIndex : slots[i].date \in {0, date}}
        oldest == {i \in SlotIndex :
                     \A j \in SlotIndex : slots[i].date <= slots[j].date}
        found  == IF usable # {} THEN usable ELSE oldest
    IN CHOOSE i \in found : \A j \in found : i <= j

\* vibe_cache_replace_day, which stamps the slot with the time it ends.
ReplaceDay(slots, date) ==
    [slots EXCEPT ![ChooseSlot(slots, date)] = [date |-> date, on |-> Today]]

\* vibe_cache_build_snapshot: seven_day_complete.
Complete(slots, today) == \A age \in Ages : Cached(slots, today - age)

\* daily_reconciliation_due
WindowReached(t) == t % 2 = 1
ReconcileDue ==
    IF lastReconcile = 0 THEN WindowReached(clock)
    ELSE \/ clock - lastReconcile >= 2
         \/ WindowReached(clock) /\ DateOf(lastReconcile) # Today

\* What a boot finds in flash, lastReconcile apart.
Cache == [days |-> days, anchor |-> anchor, pending |-> pending]
SaveCache == saved' = Cache'

-------------------------------------------------------------------------------
Init ==
    /\ pc = "idle"
    /\ clock = FirstClock
    /\ setBack = 0
    /\ days = [i \in SlotIndex |-> NoDay]
    /\ anchor = 0
    /\ pending = {}
    /\ lastReconcile = 0
    /\ saved = Cache
    /\ reconcileActive = FALSE
    /\ retryPending = FALSE
    /\ upsets = 0
    /\ fetchDate = 0
    /\ fetchToday = 0

\* A request in flight ends, and its locals with it.
NoFetch == pc' = "idle" /\ fetchDate' = 0 /\ fetchToday' = 0

Upset == upsets < MaxUpsets /\ upsets' = upsets + 1

Tick ==
    /\ clock < MaxClock
    /\ clock' = clock + 1
    /\ UNCHANGED <<pc, setBack, cacheVars, taskVars, upsets, fetchVars>>

\* sync_system_time runs in the controller task, so SNTP moves the clock back
\* only between fetches.
SetClockBack ==
    /\ pc = "idle"
    /\ setBack < MaxClockBack
    /\ setBack' = setBack + 1
    /\ clock' = clock - 1
    /\ UNCHANGED <<pc, cacheVars, taskVars, upsets, fetchVars>>

\* vibe_cache_init with clear_public_link: a relink, an unlink, a timezone
\* change, or the 401 that a fetch under way gets.
FreshCache ==
    /\ Upset
    /\ NoFetch
    /\ days' = [i \in SlotIndex |-> NoDay]
    /\ anchor' = 0
    /\ pending' = {}
    /\ lastReconcile' = 0
    /\ SaveCache
    /\ reconcileActive' = FALSE
    /\ retryPending' = FALSE
    /\ UNCHANGED clockVars

\* A reboot forgets the controller's flags and the fetch; the cache comes back
\* as it was last saved.
Reboot ==
    /\ Upset
    /\ NoFetch
    /\ days' = saved.days
    /\ anchor' = saved.anchor
    /\ pending' = saved.pending
    /\ reconcileActive' = FALSE
    /\ retryPending' = FALSE
    /\ UNCHANGED <<clockVars, lastReconcile, saved>>

-------------------------------------------------------------------------------
(* vibe_begin_reconcile on the given slots *)

\* The mask of a new round: 0x7f, or 0x7e when today is there already.
FullMask(slots, includeToday) ==
    IF includeToday \/ ~Cached(slots, Today) THEN Ages ELSE Ages \ {0}

BeginRound(slots, includeToday) ==
    /\ anchor' = Today
    /\ pending' = FullMask(slots, includeToday)

\* A round that is like the one in RAM is not saved (vibe_client.c:663).
SaveNewRound ==
    /\ UNCHANGED days
    /\ IF <<anchor', pending'>> = <<anchor, pending>> THEN UNCHANGED saved
       ELSE SaveCache

\* APP_INTENT_RECONCILE
UserReconcile ==
    /\ pc = "idle"
    /\ Upset
    /\ BeginRound(days, TRUE)
    /\ SaveNewRound
    /\ reconcileActive' = TRUE
    /\ UNCHANGED <<pc, clockVars, lastReconcile, retryPending, fetchVars>>

\* Regression variant: a round left over is not resumed.
RoundForgotten == FALSE

\* vibe_reconcile_pending
RoundLeftOver == pending # {}

\* run_due_actions: resume a round left over, or start the daily one.
DailyReconcile ==
    /\ pc = "idle"
    /\ ~reconcileActive
    /\ ~retryPending
    /\ \/ RoundLeftOver /\ UNCHANGED <<days, anchor, pending, saved>>
       \/ pending = {} /\ ReconcileDue /\ BeginRound(days, FALSE) /\ SaveNewRound
    /\ reconcileActive' = TRUE
    /\ UNCHANGED <<pc, clockVars, lastReconcile, retryPending, upsets, fetchVars>>

-------------------------------------------------------------------------------
(* vibe_fetch_today and fetch_today of the controller *)

\* Periodic, manual or a retry.  A round under way goes first, so a refresh
\* comes between two of its requests only now and then.
FetchTodayStart ==
    /\ pc = "idle"
    /\ pc' = "today"
    /\ fetchDate' = Today
    /\ fetchToday' = Today
    /\ IF reconcileActive THEN Upset ELSE UNCHANGED upsets
    /\ UNCHANGED <<clockVars, cacheVars, taskVars>>

\* The round keeps its progress on the day it is anchored to and is dropped on
\* any other day; the controller then starts a round if the window has holes.
\* A day that was cached may come back with the same counts: then, and if the
\* round stands too, only the hourly checkpoint saves the new time of the slot.
FetchTodayDone ==
    LET slots == ReplaceDay(days, fetchDate)
        kept  == IF anchor # fetchToday THEN {} ELSE pending \ {0}
    IN
    /\ pc = "today"
    /\ NoFetch
    /\ days' = slots
    /\ retryPending' = FALSE
    /\ IF Complete(slots, Today)
       THEN /\ anchor' = fetchToday
            /\ pending' = kept
            /\ UNCHANGED reconcileActive
       ELSE BeginRound(slots, FALSE) /\ reconcileActive' = TRUE
    /\ \/ SaveCache
       \/ /\ Cached(days, fetchDate)
          /\ <<fetchToday, kept>> = <<anchor, pending>>
          /\ <<anchor', pending'>> = <<anchor, pending>>
          /\ UNCHANGED saved
    /\ UNCHANGED <<clockVars, lastReconcile, upsets>>

\* Any error, or a cancellation: nothing of the fetch is kept.
FetchTodayFailed ==
    /\ pc = "today"
    /\ Upset
    /\ NoFetch
    /\ retryPending' = TRUE
    /\ UNCHANGED <<clockVars, cacheVars, reconcileActive>>

-------------------------------------------------------------------------------
(* vibe_reconcile and reconcile_one: one pending day at a time *)

\* Regression variant: a round goes on across midnight.
RoundAcrossMidnight == pending

\* A round anchored to another day starts over for today, in RAM alone: it is
\* saved with its first day (vibe_client.c:682).
RoundToRun == IF anchor = Today THEN pending ELSE FullMask(days, FALSE)

ReconcileStart ==
    /\ pc = "idle"
    /\ reconcileActive
    /\ anchor' = Today
    /\ pending' = RoundToRun
    /\ \E age \in RoundToRun :
          /\ \A other \in RoundToRun : age <= other
          /\ fetchDate' = Today - age
    /\ fetchToday' = Today
    /\ pc' = "day"
    /\ UNCHANGED <<clockVars, days, lastReconcile, saved, taskVars, upsets>>

\* Nothing left to do: a refresh of today took the round's last day.
ReconcileIdle ==
    /\ pc = "idle"
    /\ reconcileActive
    /\ RoundToRun = {}
    /\ reconcileActive' = FALSE
    /\ UNCHANGED <<pc, clockVars, cacheVars, retryPending, upsets, fetchVars>>

\* Whether the round that has these ages left is complete.
RoundDone(left) == left = {}

ReconcileDone ==
    LET left == pending \ {fetchToday - fetchDate} IN
    /\ pc = "day"
    /\ NoFetch
    /\ days' = ReplaceDay(days, fetchDate)
    /\ pending' = left
    /\ lastReconcile' = IF RoundDone(left) THEN clock ELSE lastReconcile
    /\ UNCHANGED anchor
    /\ SaveCache
    /\ reconcileActive' = (left # {})
    /\ UNCHANGED <<clockVars, retryPending, upsets>>

\* The round stops; its pending days are kept and a retry is scheduled.
ReconcileFailed ==
    /\ pc = "day"
    /\ Upset
    /\ NoFetch
    /\ reconcileActive' = FALSE
    /\ retryPending' = TRUE
    /\ UNCHANGED <<clockVars, cacheVars>>

-------------------------------------------------------------------------------
Next ==
    \/ Tick
    \/ SetClockBack
    \/ FreshCache
    \/ Reboot
    \/ UserReconcile
    \/ DailyReconcile
    \/ FetchTodayStart
    \/ FetchTodayDone
    \/ FetchTodayFailed
    \/ ReconcileStart
    \/ ReconcileIdle
    \/ ReconcileDone
    \/ ReconcileFailed

Spec == Init /\ [][Next]_vars

\* The controller's loop never stops, the requests end, and only finitely many
\* of them fail (MaxUpsets).  run_due_actions prefers the round to a periodic
\* refresh: refreshes, however many, do not keep it from starting.
Fairness ==
    /\ WF_vars(FetchTodayStart)
    /\ WF_vars(FetchTodayDone)
    /\ SF_vars(DailyReconcile)
    /\ SF_vars(ReconcileStart)
    /\ SF_vars(ReconcileIdle)
    /\ WF_vars(ReconcileDone)

FairSpec == Spec /\ Fairness

-------------------------------------------------------------------------------
(* Properties *)

FlagsOK == reconcileActive \in BOOLEAN /\ retryPending \in BOOLEAN

TypeOK ==
    /\ pc \in {"idle", "today", "day"}
    /\ {clock, setBack, anchor, lastReconcile, upsets, fetchDate, fetchToday}
         \subseteq Nat
    /\ days \in [SlotIndex -> Day]
    /\ pending \subseteq Ages
    /\ saved \in [days : [SlotIndex -> Day], anchor : Nat, pending : SUBSET Ages]
    /\ FlagsOK

OneSlotPerDate(slots) ==
    \A i, j \in SlotIndex :
        slots[i].date = slots[j].date /\ slots[i].date # 0 => i = j

\* A date never occupies two slots, whatever the order of fetches around
\* midnight.  validate_cache (vibe_cache.c:135) refuses to save or to load a
\* cache that breaks this, for good.
DatesUnique == OneSlotPerDate(days)

(* The strengthening of TypeOK and DatesUnique that is inductive. *)

ClockInv == setBack <= MaxClockBack /\ clock >= FirstClock - setBack

\* Free slots come last, so that the scan meets a date's slot before one.
FilledInOrder(slots) ==
    \A i, j \in SlotIndex : i < j /\ slots[i].date = 0 => slots[j].date = 0

\* A request under way asks for a day of the window of the day it started on.
FetchInWindow ==
    pc # "idle" => fetchDate > 0 /\ fetchToday - fetchDate \in Ages

\* The slots in flash hold the dates of those in RAM: what is not saved is the
\* time at which an unchanged day was fetched again.
SavedDates == \A i \in SlotIndex : saved.days[i].date = days[i].date

\* What keeps DatesUnique: the clock cannot fall to the dates below the first
\* window, slots fill up from the front, and a request has a date
\* (vibe_cache.c:194).
WindowInv ==
    /\ TypeOK
    /\ ClockInv
    /\ FilledInOrder(days)
    /\ FetchInWindow
    /\ SavedDates
    /\ DatesUnique

\* Taking in a day never throws out a day of the current window, as long as
\* the clock was not set back by more than a day: CacheDays is one more than
\* the window exactly for the day that a step over midnight adds
\* (vibe_cache.c:192).
NoWindowDayEvicted ==
    [][ days' # days /\ (\E i \in SlotIndex : days'[i] # NoDay)
          => \A age \in Ages :
                Cached(days, Today - age) => Cached(days', Today - age) ]_vars

\* Every day of the window is there, and the past ones were fetched that day.
ConfirmedOn(slots, date) ==
    /\ Complete(slots, date)
    /\ \A i \in SlotIndex :
          slots[i].date \in {date - age : age \in Ages \ {0}}
            => slots[i].on >= date

\* A round that ends on the day its last request started has every day of that
\* day's window, with every past day fetched since it was over, although the
\* round may have been interrupted by midnights, reboots, failures and user
\* actions (vibe_client.c:704).
RoundConfirmsWindow ==
    [][ lastReconcile' \notin {0, lastReconcile}
          /\ fetchToday = DateOf(lastReconcile')
          => ConfirmedOn(days', fetchToday) ]_vars

\* Once failures and user actions cease, the seven days fill up, the round
\* ends, and nothing is due any more: holes, leftover rounds and stale flags
\* are all picked up (app_controller.c:787, app_controller.c:1269).
WindowSettles ==
    <>[](Complete(days, Today) /\ pending = {} /\ ~ReconcileDue)

\* docs/VIBE_USAGE_HARDWARE_FIRMWARE_PLAN.zh_CN.md:443: when midnight changes
\* the window, the old window's round must not be taken as completion.
CompletionMatchesWindow ==
    [][ lastReconcile' \notin {0, lastReconcile}
          => ConfirmedOn(days', DateOf(lastReconcile')) ]_vars

\* docs/VIBE_USAGE_HARDWARE_FIRMWARE_PLAN.zh_CN.md:443: after a failure, the
\* round goes on with the remaining days only.
FailureKeepsProgress ==
    [][ retryPending /\ ~retryPending' /\ anchor = Today /\ anchor' = anchor
          /\ pending # {}
          => pending' \subseteq pending ]_vars

===============================================================================
