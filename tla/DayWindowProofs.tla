---------------------------- MODULE DayWindowProofs ----------------------------
(***************************************************************************)
(* TLAPS proofs about DayWindow, for a window of any length and any        *)
(* bounds.                                                                 *)
(***************************************************************************)
EXTENDS DayWindow, FiniteSetTheorems, WellFoundedInduction, TLAPS

-------------------------------------------------------------------------------
(* Arithmetic and choices *)

\* Dates of half days (vibe_date_from_epoch, at the granularity of the model).
LEMMA DateOfHalfDay ==
    ASSUME NEW t \in Nat
    PROVE  /\ DateOf(t) \in Nat
           /\ \A n \in Nat : t >= 2 * n => DateOf(t) >= n
  BY DEF DateOf

\* Every non-empty set of natural numbers has a least element.
LEMMA LeastElement ==
    ASSUME NEW S \in SUBSET Nat, S # {}
    PROVE  \E i \in S : \A j \in S : i <= j
  <1>1. PICK i \in S : \A j \in S : <<j, i>> \notin OpToRel(<, Nat)
    BY WFMin, NatLessThanWellFounded, Zenon
  <1>2. \A j \in S : ~(j < i)
    BY <1>1 DEF OpToRel
  <1> QED  BY <1>2

\* choose_slot returns a slot of the cache: the first that is free or holds the
\* date when there is one, else one with the oldest date.
LEMMA ChosenSlot ==
    ASSUME NEW slots \in [SlotIndex -> Day],
           NEW date \in Nat
    PROVE  LET usable == {i \in SlotIndex : slots[i].date \in {0, date}}
               chosen == ChooseSlot(slots, date)
           IN  /\ chosen \in SlotIndex
               /\ usable # {} =>
                    chosen \in usable /\ \A j \in usable : chosen <= j
               /\ usable = {} =>
                    \A j \in SlotIndex : slots[chosen].date <= slots[j].date
  <1> DEFINE usable == {i \in SlotIndex : slots[i].date \in {0, date}}
             oldest == {i \in SlotIndex :
                          \A j \in SlotIndex : slots[i].date <= slots[j].date}
             found  == IF usable # {} THEN usable ELSE oldest
  <1>1. CacheDays \in Nat /\ 1 \in SlotIndex
    BY WindowAssumption DEF SlotIndex
  <1>2. oldest # {}
    <2> DEFINE dates == {slots[i].date : i \in SlotIndex}
    <2>1. dates \in SUBSET Nat /\ dates # {}
      <3>1. \A i \in SlotIndex : slots[i].date \in Nat
        BY DEF Day
      <3> QED  BY <1>1, <3>1
    <2>2. PICK d \in dates : \A e \in dates : d <= e
      BY <2>1, LeastElement
    <2>3. PICK i \in SlotIndex : slots[i].date = d
      BY <2>2
    <2>4. i \in oldest
      BY <2>2, <2>3
    <2> QED  BY <2>4
  <1>3. found # {} /\ found \subseteq SlotIndex /\ SlotIndex \subseteq Nat
    <2>1. SlotIndex \subseteq Nat
      BY <1>1 DEF SlotIndex
    <2>2. usable \subseteq SlotIndex /\ oldest \subseteq SlotIndex
      OBVIOUS
    <2> QED  BY <1>2, <2>1, <2>2, Zenon
  <1>4. \E i \in found : \A j \in found : i <= j
    BY <1>3, LeastElement
  <1>5. ChooseSlot(slots, date)
          = CHOOSE i \in found : \A j \in found : i <= j
    BY DEF ChooseSlot
  <1>6. /\ ChooseSlot(slots, date) \in found
        /\ \A j \in found : ChooseSlot(slots, date) <= j
    <2> HIDE DEF found
    <2> QED  BY <1>4, <1>5
  <1> QED  BY <1>3, <1>6

\* vibe_cache_replace_day keeps the slots well formed.
LEMMA ReplacedDay ==
    ASSUME NEW slots \in [SlotIndex -> Day], NEW date \in Nat \ {0},
           Today \in Nat,
           FilledInOrder(slots), OneSlotPerDate(slots)
    PROVE  /\ ReplaceDay(slots, date) \in [SlotIndex -> Day]
           /\ FilledInOrder(ReplaceDay(slots, date))
           /\ OneSlotPerDate(ReplaceDay(slots, date))
  <1> DEFINE c == ChooseSlot(slots, date)
             d == [date |-> date, on |-> Today]
             new == [slots EXCEPT ![c] = d]
  <1>1. /\ c \in SlotIndex
        /\ \A j \in SlotIndex : slots[j].date \in {0, date} =>
              slots[c].date \in {0, date} /\ c <= j
    BY ChosenSlot
  <1>2. ReplaceDay(slots, date) = new
    BY DEF ReplaceDay
  <1> HIDE DEF c
  <1>3. new \in [SlotIndex -> Day]
    BY <1>1 DEF Day
  <1>4. /\ new[c].date = date
        /\ \A i \in SlotIndex : i # c => new[i] = slots[i]
    BY <1>1
  <1>5. SlotIndex \subseteq Nat
    BY WindowAssumption DEF SlotIndex
  <1> HIDE DEF new
  <1>6. FilledInOrder(new)
    <2> SUFFICES ASSUME NEW i \in SlotIndex, NEW j \in SlotIndex,
                        i < j, new[i].date = 0
                 PROVE  new[j].date = 0
      BY DEF FilledInOrder
    <2>1. i # c /\ slots[i].date = 0
      BY <1>4
    <2>2. j # c
      BY <1>1, <1>5, <2>1
    <2> QED  BY <1>4, <2>1, <2>2 DEF FilledInOrder
  <1>7. \A j \in SlotIndex : j # c => new[j].date # date
    <2> SUFFICES ASSUME NEW j \in SlotIndex, j # c, slots[j].date = date
                 PROVE  FALSE
      BY <1>4
    <2>1. slots[c].date \in {0, date} /\ c < j
      BY <1>1, <1>5
    <2>2. slots[c].date # date
      BY <1>1 DEF OneSlotPerDate
    <2> QED  BY <1>1, <2>1, <2>2 DEF FilledInOrder
  <1>8. OneSlotPerDate(new)
    BY <1>4, <1>7 DEF OneSlotPerDate
  <1> QED  BY <1>2, <1>3, <1>6, <1>8

\* A day that comes back keeps its slot, and so every slot its date.
LEMMA ReplacedAgain ==
    ASSUME NEW slots \in [SlotIndex -> Day], NEW date \in Nat \ {0},
           FilledInOrder(slots), Cached(slots, date)
    PROVE  \A i \in SlotIndex : ReplaceDay(slots, date)[i].date = slots[i].date
  <1> DEFINE c == ChooseSlot(slots, date)
  <1>1. /\ c \in SlotIndex
        /\ \A j \in SlotIndex : slots[j].date \in {0, date} =>
              slots[c].date \in {0, date} /\ c <= j
    BY ChosenSlot
  <1>2. ReplaceDay(slots, date)
          = [slots EXCEPT ![c] = [date |-> date, on |-> Today]]
    BY DEF ReplaceDay
  <1> HIDE DEF c
  <1>3. PICK j \in SlotIndex : slots[j].date = date
    BY DEF Cached
  <1>4. SlotIndex \subseteq Nat
    BY WindowAssumption DEF SlotIndex
  <1>5. slots[c].date = date
    <2> SUFFICES ASSUME slots[c].date = 0 PROVE FALSE
      BY <1>1, <1>3
    <2>1. c < j
      BY <1>1, <1>3, <1>4
    <2> QED  BY <1>1, <1>3, <2>1 DEF FilledInOrder
  <1> QED  BY <1>1, <1>2, <1>5

-------------------------------------------------------------------------------
(* The invariant *)

\* The clock stays above the window, so every day of it has a date.
LEMMA WindowHasDates ==
    ASSUME clock \in Nat, setBack \in Nat, ClockInv
    PROVE  /\ Today \in Nat
           /\ \A age \in Ages : Today - age \in Nat \ {0}
  <1>1. Today \in Nat /\ Today >= WindowDays
    BY DateOfHalfDay, WindowAssumption DEF ClockInv, Today
  <1> QED  BY <1>1, WindowAssumption DEF Ages

LEMMA WindowInit ==
    ASSUME Init
    PROVE  WindowInv
  <1>1. TypeOK
    <2>1. FlagsOK
      BY DEF Init, FlagsOK
    <2>2. days \in [SlotIndex -> Day] /\ anchor \in Nat /\ pending \subseteq Ages
      BY DEF Init, NoDay, Day
    <2>3. saved \in [days : [SlotIndex -> Day], anchor : Nat,
                     pending : SUBSET Ages]
      BY <2>2 DEF Init, Cache
    <2> QED  BY <2>1, <2>2, <2>3, WindowAssumption DEF Init, TypeOK
  <1>2. ClockInv /\ FetchInWindow /\ SavedDates
    BY WindowAssumption DEF Init, ClockInv, FetchInWindow, SavedDates, Cache
  <1>3. FilledInOrder(days) /\ DatesUnique
    BY DEF Init, FilledInOrder, DatesUnique, OneSlotPerDate, NoDay
  <1> QED  BY <1>1, <1>2, <1>3 DEF WindowInv

\* A new round has days of the window only (vibe_begin_reconcile).
LEMMA RoundInWindow ==
    ASSUME NEW slots, NEW includeToday
    PROVE  FullMask(slots, includeToday) \subseteq Ages
  BY DEF FullMask

\* What a save writes is well formed, and has the dates of the slots in RAM.
LEMMA SavedCache ==
    ASSUME SaveCache, days' \in [SlotIndex -> Day], anchor' \in Nat,
           pending' \subseteq Ages
    PROVE  /\ saved' \in [days : [SlotIndex -> Day], anchor : Nat,
                          pending : SUBSET Ages]
           /\ SavedDates'
  <1>1. saved' = [days |-> days', anchor |-> anchor', pending |-> pending']
    BY DEF SaveCache, Cache
  <1> QED  BY <1>1 DEF SavedDates

\* A cache in flash is well formed (TypeOK spelled out).
LEMMA SavedType ==
    ASSUME TypeOK
    PROVE  /\ saved.days \in [SlotIndex -> Day]
           /\ saved.anchor \in Nat
           /\ saved.pending \subseteq Ages
  BY DEF TypeOK

\* Steps that leave the slots and the request alone, or end the request.
LEMMA WindowStepKeepsDays ==
    ASSUME WindowInv, TypeOK', ClockInv', UNCHANGED days, SavedDates',
           pc' = "idle" \/ UNCHANGED <<pc, fetchVars>>
    PROVE  WindowInv'
  <1>1. FilledInOrder(days)' /\ DatesUnique'
    BY DEF WindowInv, FilledInOrder, DatesUnique, OneSlotPerDate
  <1>2. FetchInWindow'
    BY DEF WindowInv, FetchInWindow, fetchVars
  <1> QED  BY <1>1, <1>2 DEF WindowInv

LEMMA FlagsStep ==
    ASSUME TypeOK, [Next]_vars
    PROVE  FlagsOK'
  <1>1. reconcileActive \in BOOLEAN /\ retryPending \in BOOLEAN
    BY DEF TypeOK, FlagsOK
  <1> QED
    BY <1>1, Zenon
       DEF FlagsOK, Next, vars, taskVars, Tick, SetClockBack, FreshCache,
           Reboot, UserReconcile, DailyReconcile, FetchTodayStart,
           FetchTodayDone, FetchTodayFailed, ReconcileStart, ReconcileIdle,
           ReconcileDone, ReconcileFailed

LEMMA WindowStep ==
    ASSUME WindowInv, [Next]_vars
    PROVE  WindowInv'
  <1> USE DEF WindowInv
  <1>1. /\ Today \in Nat
        /\ \A age \in Ages : Today - age \in Nat \ {0}
    BY WindowHasDates DEF TypeOK
  <1>flags. FlagsOK'
    BY FlagsStep
  <1>saved. ASSUME UNCHANGED <<days, saved>> PROVE SavedDates'
    BY <1>saved DEF SavedDates
  <1>2. CASE Tick
    <2>1. TypeOK' /\ ClockInv'
      BY <1>flags, <1>2, WindowAssumption
         DEF Tick, TypeOK, ClockInv, cacheVars, taskVars, fetchVars
    <2> QED  BY <1>2, <1>saved, <2>1, WindowStepKeepsDays
             DEF Tick, cacheVars, fetchVars
  <1>3. CASE SetClockBack
    <2>1. TypeOK' /\ ClockInv'
      BY <1>flags, <1>3, WindowAssumption
         DEF SetClockBack, TypeOK, ClockInv, cacheVars, taskVars, fetchVars
    <2> QED  BY <1>3, <1>saved, <2>1, WindowStepKeepsDays
             DEF SetClockBack, cacheVars, fetchVars
  <1>4. CASE FreshCache
    <2>1. TypeOK' /\ ClockInv'
      <3>1. days' \in [SlotIndex -> Day] /\ anchor' = 0 /\ pending' = {}
        BY <1>4 DEF FreshCache, NoDay, Day
      <3>2. saved' \in [days : [SlotIndex -> Day], anchor : Nat,
                        pending : SUBSET Ages]
        BY <1>4, <3>1, SavedCache DEF FreshCache
      <3> QED  BY <1>flags, <1>4, <3>1, <3>2
               DEF FreshCache, Upset, NoFetch, TypeOK, ClockInv, clockVars
    <2>3. SavedDates'
      BY <1>4 DEF FreshCache, SaveCache, Cache, SavedDates
    <2>2. FilledInOrder(days)' /\ DatesUnique' /\ FetchInWindow'
      BY <1>4 DEF FreshCache, NoFetch, FilledInOrder, DatesUnique,
                  OneSlotPerDate, FetchInWindow, NoDay
    <2> QED  BY <2>1, <2>2, <2>3
  <1>5. CASE Reboot
    <2>1. TypeOK' /\ ClockInv'
      BY <1>flags, <1>5, SavedType
         DEF Reboot, Upset, NoFetch, TypeOK, ClockInv, clockVars
    <2>2. \A i \in SlotIndex : days'[i].date = days[i].date
      BY <1>5 DEF Reboot, SavedDates
    <2>3. SavedDates'
      BY <1>5 DEF Reboot, SavedDates
    <2>4. FilledInOrder(days)' /\ DatesUnique' /\ FetchInWindow'
      BY <1>5, <2>2 DEF Reboot, NoFetch, FilledInOrder, DatesUnique,
                        OneSlotPerDate, FetchInWindow
    <2> QED  BY <2>1, <2>3, <2>4
  <1>newRound. ASSUME SaveNewRound, anchor' \in Nat, pending' \subseteq Ages
               PROVE  /\ saved' \in [days : [SlotIndex -> Day], anchor : Nat,
                                     pending : SUBSET Ages]
                      /\ SavedDates'
    <2>1. CASE SaveCache
      BY <1>newRound, <2>1, SavedCache DEF SaveNewRound, TypeOK
    <2>2. CASE UNCHANGED saved
      BY <1>newRound, <1>saved, <2>2 DEF SaveNewRound, TypeOK
    <2> QED  BY <1>newRound, <2>1, <2>2 DEF SaveNewRound
  <1>6. CASE UserReconcile
    <2>1. TypeOK' /\ ClockInv'
      <3>1. anchor' = Today /\ pending' \subseteq Ages
        BY <1>6, RoundInWindow DEF UserReconcile, BeginRound
      <3>2. UNCHANGED <<pc, clock, setBack, days, lastReconcile, fetchDate,
                        fetchToday>> /\ upsets' = upsets + 1
        BY <1>6 DEF UserReconcile, SaveNewRound, Upset, clockVars, fetchVars
      <3>3. SaveNewRound
        BY <1>6 DEF UserReconcile
      <3>4. saved' \in [days : [SlotIndex -> Day], anchor : Nat,
                        pending : SUBSET Ages]
        BY <1>1, <1>newRound, <3>1, <3>3
      <3> QED  BY <1>flags, <1>1, <3>1, <3>2, <3>4 DEF TypeOK, ClockInv
    <2>2. /\ UNCHANGED <<days, pc, fetchVars>> /\ SaveNewRound
          /\ anchor' = Today /\ pending' \subseteq Ages
      BY <1>6, RoundInWindow DEF UserReconcile, BeginRound, SaveNewRound
    <2>3. SavedDates'
      BY <1>1, <1>newRound, <2>2
    <2> QED  BY <2>1, <2>2, <2>3, WindowStepKeepsDays
  <1>7. CASE DailyReconcile
    <2>1. TypeOK' /\ ClockInv'
      <3>1. /\ anchor' \in Nat /\ pending' \subseteq Ages
            /\ UNCHANGED <<days, saved>> \/ SaveNewRound
        BY <1>1, <1>7, RoundInWindow DEF DailyReconcile, BeginRound, TypeOK
      <3>2. saved' \in [days : [SlotIndex -> Day], anchor : Nat,
                        pending : SUBSET Ages]
        BY <1>newRound, <3>1 DEF TypeOK
      <3>3. UNCHANGED <<pc, clock, setBack, days, lastReconcile, upsets,
                        fetchDate, fetchToday>>
        BY <1>7 DEF DailyReconcile, SaveNewRound, clockVars, fetchVars
      <3> QED  BY <1>flags, <3>1, <3>2, <3>3 DEF TypeOK, ClockInv
    <2>2. /\ UNCHANGED <<days, pc, fetchVars>>
          /\ UNCHANGED saved \/ SaveNewRound
          /\ anchor' \in Nat /\ pending' \subseteq Ages
      BY <1>1, <1>7, RoundInWindow
         DEF DailyReconcile, BeginRound, SaveNewRound, TypeOK
    <2>3. SavedDates'
      BY <1>saved, <1>newRound, <2>2
    <2> QED  BY <2>1, <2>2, <2>3, WindowStepKeepsDays
  <1>8. CASE FetchTodayStart
    <2>1. TypeOK' /\ ClockInv'
      BY <1>flags, <1>1, <1>8 DEF FetchTodayStart, Upset, TypeOK, ClockInv, clockVars,
                        cacheVars, taskVars
    <2>2. FetchInWindow'
      <3>1. 0 \in Ages  BY WindowAssumption DEF Ages
      <3> QED  BY <1>1, <1>8, <3>1 DEF FetchTodayStart, FetchInWindow
    <2>3. FilledInOrder(days)' /\ DatesUnique'
      BY <1>8 DEF FetchTodayStart, cacheVars, FilledInOrder, DatesUnique,
                  OneSlotPerDate
    <2>4. SavedDates'
      BY <1>8, <1>saved DEF FetchTodayStart, cacheVars
    <2> QED  BY <2>1, <2>2, <2>3, <2>4
  <1>9. ASSUME pc # "idle"
        PROVE  /\ ReplaceDay(days, fetchDate) \in [SlotIndex -> Day]
               /\ FilledInOrder(ReplaceDay(days, fetchDate))
               /\ OneSlotPerDate(ReplaceDay(days, fetchDate))
    <2>1. fetchDate \in Nat \ {0}
      BY <1>9 DEF TypeOK, FetchInWindow
    <2> QED  BY <1>1, <2>1, ReplacedDay DEF TypeOK, DatesUnique
  <1>10. CASE FetchTodayDone
    <2>1. TypeOK' /\ ClockInv'
      <3>1. anchor' \in Nat /\ pending' \subseteq Ages
        <4>1. CASE Complete(ReplaceDay(days, fetchDate), Today)
          BY <1>10, <4>1 DEF FetchTodayDone, TypeOK
        <4>2. CASE ~Complete(ReplaceDay(days, fetchDate), Today)
          BY <1>1, <1>10, <4>2, RoundInWindow DEF FetchTodayDone, BeginRound
        <4> QED  BY <4>1, <4>2
      <3>2. /\ UNCHANGED <<clock, setBack, lastReconcile, upsets>>
            /\ pc' = "idle" /\ fetchDate' = 0 /\ fetchToday' = 0
            /\ days' = ReplaceDay(days, fetchDate) /\ pc # "idle"
        BY <1>10 DEF FetchTodayDone, NoFetch, clockVars
      <3>3. SaveCache \/ UNCHANGED saved
        BY <1>10 DEF FetchTodayDone
      <3>4. saved' \in [days : [SlotIndex -> Day], anchor : Nat,
                        pending : SUBSET Ages]
        <4>1. CASE SaveCache  BY <1>9, <3>1, <3>2, <4>1, SavedCache
        <4>2. CASE UNCHANGED saved  BY <4>2 DEF TypeOK
        <4> QED  BY <3>3, <4>1, <4>2
      <3> QED  BY <1>flags, <1>9, <3>1, <3>2, <3>4 DEF TypeOK, ClockInv
    <2>2. FilledInOrder(days)' /\ DatesUnique' /\ FetchInWindow'
      BY <1>9, <1>10 DEF FetchTodayDone, NoFetch, FilledInOrder, DatesUnique,
                         OneSlotPerDate, FetchInWindow
    <2>3. SavedDates'
      <3>1. CASE SaveCache
        BY <3>1 DEF SaveCache, Cache, SavedDates
      <3>2. CASE UNCHANGED saved /\ Cached(days, fetchDate)
        <4>1. /\ days \in [SlotIndex -> Day] /\ fetchDate \in Nat \ {0}
              /\ days' = ReplaceDay(days, fetchDate)
          BY <1>10 DEF FetchTodayDone, TypeOK, FetchInWindow
        <4> QED  BY <3>2, <4>1, ReplacedAgain DEF SavedDates
      <3> QED  BY <1>10, <3>1, <3>2 DEF FetchTodayDone
    <2> QED  BY <2>1, <2>2, <2>3
  <1>11. CASE FetchTodayFailed
    <2>1. TypeOK' /\ ClockInv'
      BY <1>flags, <1>11 DEF FetchTodayFailed, Upset, NoFetch, TypeOK, ClockInv,
                   clockVars, cacheVars
    <2> QED  BY <1>11, <1>saved, <2>1, WindowStepKeepsDays
             DEF FetchTodayFailed, NoFetch, cacheVars
  <1>12. CASE ReconcileStart
    <2>1. PICK age \in RoundToRun : fetchDate' = Today - age
      BY <1>12 DEF ReconcileStart
    <2>2. RoundToRun \subseteq Ages
      BY RoundInWindow DEF RoundToRun, TypeOK
    <2>3. TypeOK' /\ ClockInv'
      BY <1>flags, <1>1, <1>12, <2>1, <2>2
         DEF ReconcileStart, TypeOK, ClockInv, clockVars, taskVars
    <2>4. FetchInWindow'
      <3>1. age \in Nat  BY <2>1, <2>2, WindowAssumption DEF Ages
      <3>2. Today - (Today - age) = age  BY <1>1, <3>1
      <3> QED  BY <1>1, <1>12, <2>1, <2>2, <3>2
               DEF ReconcileStart, FetchInWindow
    <2>5. FilledInOrder(days)' /\ DatesUnique'
      BY <1>12 DEF ReconcileStart, FilledInOrder, DatesUnique, OneSlotPerDate
    <2>6. SavedDates'
      BY <1>12, <1>saved DEF ReconcileStart
    <2> QED  BY <2>3, <2>4, <2>5, <2>6
  <1>13. CASE ReconcileIdle
    <2>1. TypeOK' /\ ClockInv'
      BY <1>flags, <1>13 DEF ReconcileIdle, TypeOK, ClockInv, clockVars, cacheVars,
                   fetchVars
    <2> QED  BY <1>13, <1>saved, <2>1, WindowStepKeepsDays DEF ReconcileIdle, cacheVars
  <1>14. CASE ReconcileDone
    <2>1. TypeOK' /\ ClockInv'
      <3>1. /\ days' \in [SlotIndex -> Day] /\ anchor' \in Nat
            /\ pending' \subseteq Ages
        BY <1>9, <1>14 DEF ReconcileDone, TypeOK
      <3>2. saved' \in [days : [SlotIndex -> Day], anchor : Nat,
                        pending : SUBSET Ages]
        BY <1>14, <3>1, SavedCache DEF ReconcileDone
      <3> QED  BY <1>flags, <1>14, <3>1, <3>2
               DEF ReconcileDone, NoFetch, TypeOK, ClockInv, clockVars
    <2>2. FilledInOrder(days)' /\ DatesUnique' /\ FetchInWindow'
      BY <1>9, <1>14 DEF ReconcileDone, NoFetch, FilledInOrder, DatesUnique,
                         OneSlotPerDate, FetchInWindow
    <2>3. SavedDates'
      BY <1>14 DEF ReconcileDone, SaveCache, Cache, SavedDates
    <2> QED  BY <2>1, <2>2, <2>3
  <1>15. CASE ReconcileFailed
    <2>1. TypeOK' /\ ClockInv'
      BY <1>flags, <1>15 DEF ReconcileFailed, Upset, NoFetch, TypeOK, ClockInv,
                   clockVars, cacheVars
    <2> QED  BY <1>15, <1>saved, <2>1, WindowStepKeepsDays
             DEF ReconcileFailed, NoFetch, cacheVars
  <1>16. CASE UNCHANGED vars
    <2>1. TypeOK' /\ ClockInv'
      BY <1>flags, <1>16 DEF vars, TypeOK, ClockInv, clockVars, cacheVars, taskVars,
                   fetchVars
    <2> QED  BY <1>16, <1>saved, <2>1, WindowStepKeepsDays
             DEF vars, cacheVars, fetchVars
  <1> QED
    BY <1>2, <1>3, <1>4, <1>5, <1>6, <1>7, <1>8, <1>10, <1>11, <1>12, <1>13,
       <1>14, <1>15, <1>16 DEF Next

\* The slots, the clock and the request under way keep their shape through any
\* midnights, failures, reboots and user actions (vibe_cache.c:192).
THEOREM WindowInvariant == Spec => []WindowInv
  <1>1. Init => WindowInv
    BY WindowInit
  <1>2. WindowInv /\ [Next]_vars => WindowInv'
    BY WindowStep
  <1> QED  BY <1>1, <1>2, PTL DEF Spec

\* Every cache that is saved passes the uniqueness test of validate_cache
\* (vibe_cache.c:135).
THEOREM OneSlotPerDay == Spec => []DatesUnique
  <1>1. WindowInv => DatesUnique
    BY DEF WindowInv
  <1> QED  BY <1>1, WindowInvariant, PTL

-------------------------------------------------------------------------------
(* The window's days stay.  The slots are one more than the days of a window, *)
(* so a day can only be thrown out of the window when all slots hold days of  *)
(* it or of the day after; and then the day that comes in is one of them.     *)

\* The slots cannot all hold different days of a set that is smaller.
LEMMA Crowded ==
    ASSUME NEW slots \in [SlotIndex -> Day], OneSlotPerDate(slots),
           NEW dates, IsFiniteSet(dates), Cardinality(dates) < CacheDays,
           \A i \in SlotIndex : slots[i].date \in dates \ {0}
    PROVE  FALSE
  <1> DEFINE f == [i \in SlotIndex |-> slots[i].date]
  <1>1. CacheDays \in Nat  BY WindowAssumption
  <1>2. IsFiniteSet(SlotIndex) /\ Cardinality(SlotIndex) = CacheDays
    BY <1>1, FS_Interval, WindowAssumption DEF SlotIndex
  <1>3. f \in [SlotIndex -> dates]  OBVIOUS
  <1>4. PICK i \in SlotIndex, j \in SlotIndex : i # j /\ f[i] = f[j]
    <2> HIDE DEF f
    <2> QED  BY <1>2, <1>3, FS_PigeonHole
  <1> QED  BY <1>4 DEF OneSlotPerDate

\* A day that comes in takes the place of no other day of the window of "base":
\* if it is of that window itself and no slot is more than a day ahead,
LEMMA WindowStays ==
    ASSUME NEW slots \in [SlotIndex -> Day], OneSlotPerDate(slots),
           NEW base \in Nat, base >= WindowDays,
           \A i \in SlotIndex : slots[i].date <= base + 1,
           NEW date \in Nat \ {0}, base - date \in Ages,
           NEW i \in SlotIndex, base - slots[i].date \in Ages,
           ChooseSlot(slots, date) = i
    PROVE  slots[i].date = date
  <1> SUFFICES ASSUME slots[i].date # date PROVE FALSE
    OBVIOUS
  <1> DEFINE usable == {j \in SlotIndex : slots[j].date \in {0, date}}
             first == base - (WindowDays - 1)
             span == first..(base + 1)
             dates == span \ {date}
  <1>0. WindowDays \in Nat /\ WindowDays > 1 /\ CacheDays = WindowDays + 1
    BY WindowAssumption
  <1>1. \A j \in SlotIndex : slots[j].date \in Nat  BY DEF Day
  <1>2. slots[i].date > 0 /\ slots[i].date >= base - (WindowDays - 1)
    BY <1>0, <1>1 DEF Ages
  <1>3. usable = {} /\ \A j \in SlotIndex : slots[i].date <= slots[j].date
    <2>1. i \notin usable  BY <1>2
    <2> QED  BY <2>1, ChosenSlot
  <1>4. \A j \in SlotIndex : slots[j].date \in dates \ {0}
    BY <1>0, <1>1, <1>2, <1>3
  <1>5. IsFiniteSet(span) /\ Cardinality(span) = WindowDays + 1
    <2>1. first \in Int /\ base + 1 \in Int /\ first <= base + 1
          /\ (base + 1) - first + 1 = WindowDays + 1
      BY <1>0
    <2> HIDE DEF first
    <2>2. /\ IsFiniteSet(span)
          /\ Cardinality(span) = IF first > base + 1 THEN 0
                                 ELSE (base + 1) - first + 1
      BY <2>1, FS_Interval
    <2> QED  BY <2>1, <2>2
  <1>6. date \in span  BY <1>0 DEF Ages
  <1>7. IsFiniteSet(dates) /\ Cardinality(dates) < CacheDays
    <2> HIDE DEF span
    <2>1. /\ IsFiniteSet(span \ {date})
          /\ Cardinality(span \ {date}) = Cardinality(span) - 1
      BY <1>5, <1>6, FS_RemoveElement
    <2>2. Cardinality(span \ {date}) = WindowDays  BY <1>0, <1>5, <2>1
    <2> QED  BY <1>0, <2>1, <2>2
  <1> HIDE DEF dates
  <1> QED  BY <1>4, <1>7, Crowded

\* or if no slot is ahead.
LEMMA LaterWindowStays ==
    ASSUME NEW slots \in [SlotIndex -> Day], OneSlotPerDate(slots),
           NEW base \in Nat, base >= WindowDays,
           \A i \in SlotIndex : slots[i].date <= base,
           NEW date \in Nat \ {0},
           NEW i \in SlotIndex, base - slots[i].date \in Ages,
           ChooseSlot(slots, date) = i
    PROVE  slots[i].date = date
  <1> SUFFICES ASSUME slots[i].date # date PROVE FALSE
    OBVIOUS
  <1> DEFINE usable == {j \in SlotIndex : slots[j].date \in {0, date}}
             dates == (base - (WindowDays - 1))..base
  <1>0. WindowDays \in Nat /\ WindowDays > 1 /\ CacheDays = WindowDays + 1
    BY WindowAssumption
  <1>1. \A j \in SlotIndex : slots[j].date \in Nat  BY DEF Day
  <1>2. slots[i].date > 0 /\ slots[i].date >= base - (WindowDays - 1)
    BY <1>0, <1>1 DEF Ages
  <1>3. usable = {} /\ \A j \in SlotIndex : slots[i].date <= slots[j].date
    <2>1. i \notin usable  BY <1>2
    <2> QED  BY <2>1, ChosenSlot
  <1>4. \A j \in SlotIndex : slots[j].date \in dates \ {0}
    BY <1>0, <1>1, <1>2, <1>3
  <1>5. IsFiniteSet(dates) /\ Cardinality(dates) < CacheDays
    BY <1>0, FS_Interval
  <1> HIDE DEF dates
  <1> QED  BY <1>4, <1>5, Crowded

\* The slots after a day came in: the day, stamped now, and every other that
\* was not the chosen one.
LEMMA ReplacedSlots ==
    ASSUME NEW slots \in [SlotIndex -> Day], NEW date \in Nat
    PROVE  LET c   == ChooseSlot(slots, date)
               new == ReplaceDay(slots, date)
           IN  /\ c \in SlotIndex
               /\ new[c].date = date /\ new[c].on = Today
               /\ \A i \in SlotIndex : i # c => new[i] = slots[i]
  <1>1. ChooseSlot(slots, date) \in SlotIndex  BY ChosenSlot
  <1> QED  BY <1>1 DEF ReplaceDay

\* No slot is ahead of the latest clock, and while a request runs none is more
\* than a day ahead of the day the request started on.
NotAhead ==
    /\ \A i \in SlotIndex : 2 * days[i].date <= clock + setBack
    /\ pc # "idle" =>
         /\ WindowDays <= fetchToday /\ fetchToday <= Today
         /\ \A i \in SlotIndex : days[i].date <= fetchToday + 1

\* The clock stays above the first window.
LEMMA WindowDaysPast ==
    ASSUME clock \in Nat, setBack \in Nat, ClockInv
    PROVE  WindowDays <= Today
  BY DateOfHalfDay, WindowAssumption DEF ClockInv, Today

\* What a request that starts now finds.
LEMMA StartFindsWindow ==
    ASSUME WindowInv, NotAhead, MaxClockBack <= 2
    PROVE  \A i \in SlotIndex : days[i].date <= Today + 1
  <1> SUFFICES ASSUME NEW i \in SlotIndex
               PROVE  days[i].date <= Today + 1
    OBVIOUS
  <1>1. /\ days[i].date \in Nat /\ clock \in Nat /\ setBack \in Nat
        /\ MaxClockBack \in Nat /\ setBack <= MaxClockBack
    BY WindowAssumption DEF WindowInv, TypeOK, ClockInv, Day
  <1>2. 2 * days[i].date <= clock + 2
    BY <1>1 DEF NotAhead
  <1> QED  BY <1>1, <1>2 DEF Today, DateOf

LEMMA NotAheadStep ==
    ASSUME WindowInv, NotAhead, MaxClockBack <= 2, [Next]_vars
    PROVE  NotAhead'
  <1>0. /\ clock \in Nat /\ setBack \in Nat /\ fetchDate \in Nat
        /\ fetchToday \in Nat /\ days \in [SlotIndex -> Day]
        /\ \A i \in SlotIndex : days[i].date \in Nat
        /\ Today \in Nat /\ 2 * Today <= clock /\ WindowDays <= Today
    <2>0. clock \in Nat  BY DEF WindowInv, TypeOK
    <2>1. clock \in Nat /\ WindowDays <= Today
      BY <2>0, WindowDaysPast DEF WindowInv, TypeOK
    <2>2. Today \in Nat /\ 2 * Today <= clock  BY <2>1 DEF Today, DateOf
    <2> QED  BY <2>1, <2>2 DEF WindowInv, TypeOK, Day
  <1>1. CASE Tick
    <2>1. clock' = clock + 1 /\ UNCHANGED <<days, setBack, pc, fetchToday>>
      BY <1>1 DEF Tick, cacheVars, fetchVars
    <2>2. Today <= Today'  BY <1>0, <2>1 DEF Today, DateOf
    <2>3. Today' \in Nat  BY <1>0, <2>1 DEF Today, DateOf
    <2> QED  BY <1>0, <2>1, <2>2, <2>3 DEF NotAhead
  <1>2. CASE SetClockBack
    <2>1. /\ clock' = clock - 1 /\ setBack' = setBack + 1
          /\ pc' = "idle" /\ UNCHANGED days
      BY <1>2 DEF SetClockBack, cacheVars
    <2> QED  BY <1>0, <2>1 DEF NotAhead
  <1>3. CASE FreshCache
    <2>1. /\ pc' = "idle" /\ UNCHANGED <<clock, setBack>>
          /\ \A i \in SlotIndex : days'[i].date = 0
      BY <1>3 DEF FreshCache, NoFetch, clockVars, NoDay
    <2> QED  BY <1>0, <2>1 DEF NotAhead
  <1>8. CASE Reboot
    <2>1. /\ pc' = "idle" /\ UNCHANGED <<clock, setBack>>
          /\ \A i \in SlotIndex : days'[i].date = days[i].date
      BY <1>8 DEF Reboot, NoFetch, clockVars, WindowInv, SavedDates
    <2> QED  BY <1>0, <2>1 DEF NotAhead
  <1>4. CASE UserReconcile \/ DailyReconcile \/ FetchTodayFailed
             \/ ReconcileIdle \/ ReconcileFailed
    <2>1. pc' = "idle" /\ UNCHANGED <<clock, setBack, days>>
      BY <1>4 DEF UserReconcile, DailyReconcile, FetchTodayFailed, SaveNewRound,
         ReconcileIdle, ReconcileFailed, NoFetch, clockVars, cacheVars
    <2> QED  BY <2>1 DEF NotAhead
  <1>5. CASE FetchTodayStart \/ ReconcileStart
    <2>1. fetchToday' = Today /\ UNCHANGED <<clock, setBack, days>>
      BY <1>5 DEF FetchTodayStart, ReconcileStart, clockVars, cacheVars
    <2>2. Today' = Today  BY <2>1 DEF Today
    <2> QED  BY <1>0, <2>1, <2>2, StartFindsWindow DEF NotAhead
  <1>6. CASE FetchTodayDone \/ ReconcileDone
    <2>1. /\ pc # "idle" /\ pc' = "idle" /\ UNCHANGED <<clock, setBack>>
          /\ days' = ReplaceDay(days, fetchDate)
      BY <1>6 DEF FetchTodayDone, ReconcileDone, NoFetch, clockVars
    <2>2. fetchDate <= Today
      BY <1>0, <2>1, WindowAssumption
      DEF WindowInv, FetchInWindow, NotAhead, Ages
    <2>3. \A i \in SlotIndex : days'[i].date \in {days[i].date, fetchDate}
      BY <1>0, <2>1, ReplacedSlots
    <2> QED  BY <1>0, <2>1, <2>2, <2>3 DEF NotAhead
  <1>7. CASE UNCHANGED vars
    BY <1>7 DEF vars, clockVars, cacheVars, fetchVars, NotAhead, Today
  <1> QED  BY <1>1, <1>2, <1>3, <1>4, <1>5, <1>6, <1>7, <1>8 DEF Next

\* A request's day throws no day out of the window of the day the request
\* started on, nor out of today's.
LEMMA DayComesIn ==
    ASSUME WindowInv, NotAhead, pc # "idle",
           NEW base \in {fetchToday, Today}, NEW i \in SlotIndex,
           base - days[i].date \in Ages,
           ChooseSlot(days, fetchDate) = i
    PROVE  days[i].date = fetchDate
  <1>1. /\ days \in [SlotIndex -> Day] /\ OneSlotPerDate(days)
        /\ fetchToday \in Nat /\ Today \in Nat /\ fetchDate \in Nat \ {0}
        /\ fetchToday - fetchDate \in Ages
    BY WindowHasDates DEF WindowInv, TypeOK, DatesUnique, FetchInWindow
  <1>2. WindowDays \in Nat /\ WindowDays > 1  BY WindowAssumption
  <1>3. \A j \in SlotIndex : days[j].date \in Nat  BY <1>1 DEF Day
  <1>4. /\ fetchToday <= Today
        /\ \A j \in SlotIndex : days[j].date <= fetchToday + 1
    BY DEF NotAhead
  <1>5. Today >= WindowDays
    BY WindowDaysPast DEF WindowInv, TypeOK
  <1>6. fetchToday >= WindowDays
    BY DEF NotAhead
  <1>7. CASE base = fetchToday
    BY <1>1, <1>4, <1>6, <1>7, WindowStays
  <1>8. CASE base = Today /\ fetchToday # Today
    <2>1. \A j \in SlotIndex : days[j].date <= Today
      BY <1>1, <1>3, <1>4, <1>8
    <2> QED  BY <1>1, <1>5, <1>8, <2>1, LaterWindowStays
  <1> QED  BY <1>7, <1>8
\* After a request's day came in, a day of either window is still in a slot: the
\* same slot, or the chosen one, stamped now.
LEMMA DayStays ==
    ASSUME WindowInv, NotAhead, pc # "idle",
           NEW base \in {fetchToday, Today}, NEW i \in SlotIndex,
           base - days[i].date \in Ages
    PROVE  LET new == ReplaceDay(days, fetchDate) IN
           \E j \in SlotIndex : /\ new[j].date = days[i].date
                                /\ new[j] = days[i] \/ new[j].on = Today
  <1>1. days \in [SlotIndex -> Day] /\ fetchDate \in Nat
    BY DEF WindowInv, TypeOK
  <1>2. CASE ChooseSlot(days, fetchDate) = i
    BY <1>1, <1>2, DayComesIn, ReplacedSlots
  <1>3. CASE ChooseSlot(days, fetchDate) # i
    BY <1>1, <1>3, ReplacedSlots
  <1> QED  BY <1>2, <1>3

\* The steps that change the slots: a day comes in, all slots are emptied, or
\* they come back with the dates they had.
LEMMA SlotsChange ==
    ASSUME [Next]_vars
    PROVE  \/ days' = days
           \/ \A i \in SlotIndex : days'[i] = NoDay
           \/ Reboot
           \/ /\ pc # "idle"
              /\ days' = ReplaceDay(days, fetchDate)
  BY DEF SaveNewRound, Next, vars, cacheVars, Tick, SetClockBack, FreshCache,
     UserReconcile, DailyReconcile, FetchTodayStart, FetchTodayDone,
     FetchTodayFailed, ReconcileStart, ReconcileIdle, ReconcileDone,
     ReconcileFailed

LEMMA NotAheadInvariant ==
    MaxClockBack <= 2 => (Spec => [](WindowInv /\ NotAhead))
  <1> SUFFICES ASSUME MaxClockBack <= 2
               PROVE  Spec => [](WindowInv /\ NotAhead)
    OBVIOUS
  <1>1. Init => WindowInv /\ NotAhead
    <2> SUFFICES ASSUME Init PROVE WindowInv /\ NotAhead  OBVIOUS
    <2>1. \A i \in SlotIndex : days[i].date = 0  BY DEF Init, NoDay
    <2>2. clock \in Nat /\ setBack \in Nat  BY WindowAssumption DEF Init
    <2>3. \A i \in SlotIndex : 2 * days[i].date <= clock + setBack
      BY <2>1, <2>2
    <2>4. pc = "idle"  BY DEF Init
    <2> QED  BY <2>3, <2>4, WindowInit DEF NotAhead
  <1>2. WindowInv /\ NotAhead /\ [Next]_vars => (WindowInv /\ NotAhead)'
    BY WindowStep, NotAheadStep
  <1> QED  BY <1>1, <1>2, PTL DEF Spec

\* A clock that is set back by no more than two half days in all never makes a
\* new day throw out a day of the current window (vibe_cache.c:192).  With a
\* third half day it can.
THEOREM WindowDaysStay == MaxClockBack <= 2 => (Spec => NoWindowDayEvicted)
  <1> SUFFICES ASSUME MaxClockBack <= 2
               PROVE  Spec => NoWindowDayEvicted
    OBVIOUS
  <1> DEFINE Step ==
        days' # days /\ (\E i \in SlotIndex : days'[i] # NoDay)
          => \A age \in Ages :
                Cached(days, Today - age) => Cached(days', Today - age)
  <1>1. WindowInv /\ NotAhead /\ [Next]_vars => [Step]_vars
    <2> SUFFICES ASSUME WindowInv, NotAhead, [Next]_vars, days' # days,
                        \E i \in SlotIndex : days'[i] # NoDay,
                        NEW age \in Ages, NEW i \in SlotIndex,
                        days[i].date = Today - age
                 PROVE  Cached(days', Today - age)
      BY DEF Cached
    <2>0. CASE Reboot
      BY <2>0 DEF Reboot, WindowInv, SavedDates, Cached
    <2>1. CASE pc # "idle" /\ days' = ReplaceDay(days, fetchDate)
      <3>1. Today - days[i].date = age
        <4>1. Today \in Nat /\ age \in Int
          BY WindowHasDates, WindowAssumption DEF WindowInv, TypeOK, Ages
        <4> QED  BY <4>1
      <3>2. \E j \in SlotIndex : days'[j].date = days[i].date
        BY <2>1, <3>1, DayStays
      <3> QED  BY <3>2 DEF Cached
    <2> QED  BY <2>0, <2>1, SlotsChange
  <1>2. Spec => [](WindowInv /\ NotAhead)  BY NotAheadInvariant
  <1> QED  BY <1>1, <1>2, PTL DEF Spec, NoWindowDayEvicted

-------------------------------------------------------------------------------
(* The round.  A day that is not pending any more has been fetched since the  *)
(* day the round is anchored to began.                                        *)

\* The day of this age before the anchor is in a slot, fetched since.
Fetched(age) ==
    \E i \in SlotIndex : /\ days[i].date = anchor - age
                         /\ age # 0 => days[i].on >= anchor

\* The same of the round in flash, which may be an older one.
SavedFetched(age) ==
    \E i \in SlotIndex : /\ saved.days[i].date = saved.anchor - age
                         /\ age # 0 => saved.days[i].on >= saved.anchor

LiveRound ==
    /\ pending # {} => \A age \in Ages \ pending : Fetched(age)
    /\ pc = "today" => fetchDate = fetchToday
    /\ pc = "day" => /\ anchor = fetchToday
                     /\ fetchToday - fetchDate \in pending

SavedRound ==
    saved.pending # {} => \A age \in Ages \ saved.pending : SavedFetched(age)

RoundInv == LiveRound /\ SavedRound

\* A round that begins has fetched nothing but, it may be, today.
LEMMA NewRound ==
    ASSUME NEW slots, NEW includeToday,
           NEW age \in Ages \ FullMask(slots, includeToday)
    PROVE  age = 0 /\ Cached(slots, Today)
  BY DEF FullMask

\* Steps that leave the slots and the round alone.
LEMMA RoundStands ==
    ASSUME LiveRound, UNCHANGED <<days, anchor, pending>>,
           pc' = "idle" \/ UNCHANGED <<pc, fetchToday, fetchDate>>
    PROVE  LiveRound'
  BY DEF LiveRound, Fetched

\* A day that was fetched since the anchor still is after a request's day came
\* in, if the request started on the day of the anchor.
LEMMA FetchedStays ==
    ASSUME WindowInv, NotAhead, pc # "idle", anchor = fetchToday,
           days' = ReplaceDay(days, fetchDate), anchor' = anchor,
           NEW age \in Ages, Fetched(age)
    PROVE  Fetched(age)'
  <1>1. PICK i \in SlotIndex : /\ days[i].date = anchor - age
                               /\ age # 0 => days[i].on >= anchor
    BY DEF Fetched
  <1>2. /\ fetchToday \in Nat /\ age \in Int /\ Today \in Nat
        /\ fetchToday <= Today
    BY WindowHasDates, WindowAssumption DEF WindowInv, TypeOK, Ages, NotAhead
  <1>3. fetchToday - days[i].date = age  BY <1>1, <1>2
  <1>4. PICK j \in SlotIndex : /\ days'[j].date = days[i].date
                               /\ days'[j] = days[i] \/ days'[j].on = Today
    BY <1>3, DayStays
  <1>5. age # 0 => days'[j].on >= anchor'  BY <1>1, <1>2, <1>4
  <1> QED  BY <1>1, <1>4, <1>5 DEF Fetched

\* The day of a request that started on the day of the anchor is fetched.
LEMMA RequestFetched ==
    ASSUME WindowInv, NotAhead, pc # "idle",
           days' = ReplaceDay(days, fetchDate), anchor' = fetchToday,
           NEW age, age = fetchToday - fetchDate
    PROVE  Fetched(age)'
  <1>1. /\ days \in [SlotIndex -> Day] /\ fetchDate \in Nat
        /\ fetchToday \in Nat /\ Today \in Nat /\ fetchToday <= Today
    BY WindowHasDates DEF WindowInv, TypeOK, NotAhead
  <1>2. PICK j \in SlotIndex : days'[j].date = fetchDate /\ days'[j].on = Today
    BY <1>1, ReplacedSlots
  <1>3. fetchToday - age = fetchDate  BY <1>1
  <1> QED  BY <1>1, <1>2, <1>3 DEF Fetched

\* After a request of the round every day that is not pending is fetched.
LEMMA RoundDayDone ==
    ASSUME WindowInv, NotAhead, LiveRound, pc = "day", anchor' = anchor,
           days' = ReplaceDay(days, fetchDate),
           NEW age \in Ages \ (pending \ {fetchToday - fetchDate})
    PROVE  Fetched(age)'
  <1>1. anchor = fetchToday /\ fetchToday - fetchDate \in pending
    BY DEF LiveRound
  <1>2. CASE age = fetchToday - fetchDate  BY <1>1, <1>2, RequestFetched
  <1>3. CASE age # fetchToday - fetchDate
    <2>1. Fetched(age)  BY <1>1, <1>3 DEF LiveRound
    <2> QED  BY <1>1, <2>1, FetchedStays
  <1> QED  BY <1>2, <1>3

LEMMA LiveRoundStep ==
    ASSUME WindowInv, NotAhead, RoundInv, [Next]_vars
    PROVE  LiveRound'
  <1> USE DEF RoundInv
  <1>0. /\ Today \in Nat /\ fetchToday \in Nat /\ fetchDate \in Nat
        /\ pending \subseteq Ages
    BY WindowHasDates DEF WindowInv, TypeOK
  <1>10. CASE Reboot
    BY <1>10 DEF Reboot, NoFetch, LiveRound, SavedRound, Fetched, SavedFetched
  <1>1. CASE Tick \/ SetClockBack
             \/ FetchTodayFailed \/ ReconcileIdle \/ ReconcileFailed
             \/ UNCHANGED vars
    <2>1. UNCHANGED <<days, anchor, pending>>
      BY <1>1 DEF Tick, SetClockBack, FetchTodayFailed, ReconcileIdle, ReconcileFailed, vars, cacheVars
    <2>2. pc' = "idle" \/ UNCHANGED <<pc, fetchToday, fetchDate>>
      BY <1>1 DEF Tick, SetClockBack, FetchTodayFailed, ReconcileIdle, ReconcileFailed, vars, NoFetch,
         fetchVars
    <2> QED  BY <2>1, <2>2, RoundStands
  <1>2. CASE FreshCache
    BY <1>2 DEF FreshCache, NoFetch, LiveRound
  <1>9. CASE FetchTodayStart
    <2>1. /\ pc' = "today" /\ fetchDate' = fetchToday'
          /\ UNCHANGED <<days, anchor, pending>>
      BY <1>9 DEF FetchTodayStart, cacheVars
    <2> QED  BY <2>1 DEF LiveRound, Fetched
  <1>3. ASSUME BeginRound(days', FALSE) \/ BeginRound(days', TRUE),
               Today' = Today, pc' = "idle"
        PROVE  LiveRound'
    <2>1. PICK includeToday \in BOOLEAN : BeginRound(days', includeToday)
      BY <1>3
    <2>2. anchor' = Today /\ pending' = FullMask(days', includeToday)
      BY <2>1 DEF BeginRound
    <2>3. ASSUME NEW age \in Ages \ pending' PROVE Fetched(age)'
      <3>1. age = 0 /\ Cached(days', Today)  BY <2>2, NewRound
      <3>2. anchor' - age = Today  BY <1>0, <2>2, <3>1
      <3> QED  BY <3>1, <3>2 DEF Cached, Fetched
    <2> QED  BY <1>3, <2>3 DEF LiveRound
  <1>4. CASE UserReconcile
    <2>1. UNCHANGED <<days, clock, pc>> /\ pc = "idle" /\ BeginRound(days, TRUE)
      BY <1>4 DEF UserReconcile, SaveNewRound, clockVars
    <2> QED  BY <1>3, <2>1 DEF Today, BeginRound
  <1>5. CASE DailyReconcile
    <2>1. UNCHANGED <<days, clock, pc>> /\ pc = "idle"
      BY <1>5 DEF DailyReconcile, SaveNewRound, clockVars, fetchVars
    <2>2. UNCHANGED <<anchor, pending>> \/ BeginRound(days, FALSE)
      BY <1>5 DEF DailyReconcile
    <2> QED  BY <1>3, <2>1, <2>2, RoundStands DEF Today, BeginRound
  <1>6. CASE FetchTodayDone
    <2>1. /\ days' = ReplaceDay(days, fetchDate) /\ pc = "today" /\ pc' = "idle"
          /\ Today' = Today
      BY <1>6 DEF FetchTodayDone, NoFetch, clockVars, Today
    <2>2. CASE Complete(days', Today)
      <3>1. /\ anchor' = fetchToday
            /\ pending' = IF anchor # fetchToday THEN {} ELSE pending \ {0}
        BY <1>6, <2>1, <2>2 DEF FetchTodayDone
      <3>2. CASE anchor # fetchToday \/ pending' = {}
        BY <2>1, <3>1, <3>2 DEF LiveRound
      <3>3. CASE anchor = fetchToday /\ pending' # {}
        <4>1. pending # {} /\ anchor' = anchor  BY <3>1, <3>3
        <4>2. ASSUME NEW age \in Ages \ pending' PROVE Fetched(age)'
          <5>1. CASE age \notin pending
            <6>1. Fetched(age)  BY <4>1, <5>1 DEF LiveRound
            <6> QED  BY <2>1, <3>3, <4>1, <6>1, FetchedStays
          <5>2. CASE age = 0
            <6>1. age = fetchToday - fetchDate
              BY <1>0, <2>1, <5>2 DEF LiveRound
            <6> QED  BY <2>1, <3>1, <6>1, RequestFetched
          <5> QED  BY <3>1, <3>3, <5>1, <5>2
        <4> QED  BY <2>1, <4>2 DEF LiveRound
      <3> QED  BY <3>2, <3>3
    <2>3. CASE ~Complete(days', Today)
      <3>1. BeginRound(days', FALSE)
        BY <1>6, <2>1, <2>3 DEF FetchTodayDone
      <3> QED  BY <1>3, <2>1, <3>1
    <2> QED  BY <2>2, <2>3
  <1>7. CASE ReconcileStart
    <2>1. /\ anchor' = Today /\ pending' = RoundToRun /\ UNCHANGED days
          /\ fetchToday' = Today /\ pc' = "day"
      BY <1>7 DEF ReconcileStart
    <2>2. PICK age \in RoundToRun : fetchDate' = Today - age
      BY <1>7 DEF ReconcileStart
    <2>3. Today - (Today - age) = age
      <3>1. age \in Ages  BY <1>0, <2>2, RoundInWindow DEF RoundToRun
      <3>2. age \in Int  BY <3>1, WindowAssumption DEF Ages
      <3> QED  BY <1>0, <3>2
    <2>4. fetchToday' - fetchDate' \in pending'  BY <2>1, <2>2, <2>3
    <2>5. ASSUME NEW old \in Ages \ pending' PROVE Fetched(old)'
      <3>1. CASE anchor = Today
        <4>1. pending' = pending /\ anchor' = anchor
          BY <2>1, <3>1 DEF RoundToRun
        <4>2. pending # {}  BY <2>1, <2>2, <4>1
        <4>3. Fetched(old)  BY <4>1, <4>2 DEF LiveRound
        <4> QED  BY <2>1, <4>1, <4>3 DEF Fetched
      <3>2. CASE anchor # Today
        <4>1. pending' = FullMask(days, FALSE)
          BY <2>1, <3>2 DEF RoundToRun
        <4>2. old = 0 /\ Cached(days, Today)  BY <4>1, NewRound
        <4>3. anchor' - old = Today  BY <1>0, <2>1, <4>2
        <4> QED  BY <2>1, <4>2, <4>3 DEF Cached, Fetched
      <3> QED  BY <3>1, <3>2
    <2> QED  BY <2>1, <2>4, <2>5 DEF LiveRound
  <1>8. CASE ReconcileDone
    <2>1. /\ pc = "day" /\ pc' = "idle" /\ anchor' = anchor
          /\ days' = ReplaceDay(days, fetchDate)
          /\ pending' = pending \ {fetchToday - fetchDate}
      BY <1>8 DEF ReconcileDone, NoFetch
    <2>2. anchor = fetchToday /\ fetchToday - fetchDate \in pending
      BY <2>1 DEF LiveRound
    <2>3. ASSUME NEW age \in Ages \ pending' PROVE Fetched(age)'
      BY <2>1, <2>2, RoundDayDone
    <2> QED  BY <2>1, <2>3 DEF LiveRound
  <1> QED
    BY <1>1, <1>2, <1>4, <1>5, <1>6, <1>7, <1>8, <1>9, <1>10 DEF Next

\* A step saves the cache as it leaves it, or not at all.
LEMMA SavedOrNot ==
    ASSUME [Next]_vars
    PROVE  SaveCache \/ UNCHANGED saved
  BY DEF Next, vars, cacheVars, SaveNewRound, Tick, SetClockBack, FreshCache,
     Reboot, UserReconcile, DailyReconcile, FetchTodayStart, FetchTodayDone,
     FetchTodayFailed, ReconcileStart, ReconcileIdle, ReconcileDone,
     ReconcileFailed

LEMMA RoundStep ==
    ASSUME WindowInv, NotAhead, RoundInv, [Next]_vars
    PROVE  RoundInv'
  <1>1. LiveRound'  BY LiveRoundStep
  <1>2. CASE SaveCache
    <2>1. saved' = [days |-> days', anchor |-> anchor', pending |-> pending']
      BY <1>2 DEF SaveCache, Cache
    <2>2. SavedRound'
      BY <1>1, <2>1 DEF LiveRound, SavedRound, Fetched, SavedFetched
    <2> QED  BY <1>1, <2>2 DEF RoundInv
  <1>3. CASE UNCHANGED saved
    BY <1>1, <1>3 DEF RoundInv, SavedRound, SavedFetched
  <1> QED  BY <1>2, <1>3, SavedOrNot

\* The slots of a finished round hold the window, fetched since the day began.
LEMMA RoundConfirms ==
    ASSUME NEW slots \in [SlotIndex -> Day], OneSlotPerDate(slots),
           NEW date \in Nat, date >= WindowDays,
           \A age \in Ages : \E i \in SlotIndex :
             /\ slots[i].date = date - age
             /\ age # 0 => slots[i].on >= date
    PROVE  ConfirmedOn(slots, date)
  <1>1. Complete(slots, date)  BY DEF Complete, Cached
  <1>2. ASSUME NEW i \in SlotIndex, NEW age \in Ages \ {0},
               slots[i].date = date - age
        PROVE  slots[i].on >= date
    <2>1. PICK j \in SlotIndex : slots[j].date = date - age /\ slots[j].on >= date
      OBVIOUS
    <2>2. date - age # 0  BY WindowAssumption DEF Ages
    <2>3. i = j  BY <1>2, <2>1, <2>2 DEF OneSlotPerDate
    <2> QED  BY <2>1, <2>3
  <1> QED  BY <1>1, <1>2 DEF ConfirmedOn

\* A round that ends on the day its last request started has every day of that
\* day's window, and the past ones were fetched since that day began, under the
\* same bound on the clock (vibe_client.c:704).
THEOREM RoundIsComplete == MaxClockBack <= 2 => (Spec => RoundConfirmsWindow)
  <1> SUFFICES ASSUME MaxClockBack <= 2
               PROVE  Spec => RoundConfirmsWindow
    OBVIOUS
  <1> DEFINE Step ==
        lastReconcile' \notin {0, lastReconcile}
          /\ fetchToday = DateOf(lastReconcile')
          => ConfirmedOn(days', fetchToday)
  <1>1. Init => RoundInv
    BY DEF Init, Cache, RoundInv, LiveRound, SavedRound
  <1>2. WindowInv /\ NotAhead /\ RoundInv /\ [Next]_vars => RoundInv'
    BY RoundStep
  <1>3. WindowInv /\ NotAhead /\ RoundInv /\ [Next]_vars => [Step]_vars
    <2> SUFFICES ASSUME WindowInv, NotAhead, RoundInv, [Next]_vars,
                        lastReconcile' \notin {0, lastReconcile}
                 PROVE  ConfirmedOn(days', fetchToday)
      OBVIOUS
    <2>1. ReconcileDone
      BY DEF Next, vars, cacheVars, Tick, SetClockBack, FreshCache, Reboot,
         UserReconcile, DailyReconcile, FetchTodayStart, FetchTodayDone,
         FetchTodayFailed, ReconcileStart, ReconcileIdle, ReconcileFailed
    <2>2. /\ pc = "day" /\ anchor' = anchor
          /\ days' = ReplaceDay(days, fetchDate)
          /\ pending \ {fetchToday - fetchDate} = {}
      BY <2>1 DEF ReconcileDone, RoundDone
    <2>3. anchor' = fetchToday  BY <2>2 DEF RoundInv, LiveRound
    <2>4. ASSUME NEW age \in Ages
          PROVE  \E i \in SlotIndex : /\ days'[i].date = fetchToday - age
                                      /\ age # 0 => days'[i].on >= fetchToday
      <3>1. Fetched(age)'  BY <2>2, RoundDayDone DEF RoundInv
      <3> QED  BY <2>3, <3>1 DEF Fetched
    <2>5. days' \in [SlotIndex -> Day] /\ OneSlotPerDate(days')
      BY WindowStep DEF WindowInv, TypeOK, DatesUnique
    <2>6. fetchToday \in Nat /\ fetchToday >= WindowDays
      BY <2>2 DEF WindowInv, TypeOK, NotAhead
    <2> QED  BY <2>4, <2>5, <2>6, RoundConfirms
  <1>4. Spec => [](WindowInv /\ NotAhead)  BY NotAheadInvariant
  <1> QED  BY <1>1, <1>2, <1>3, <1>4, PTL DEF Spec, RoundConfirmsWindow

===============================================================================
