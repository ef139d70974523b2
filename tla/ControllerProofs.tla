--------------------------- MODULE ControllerProofs ---------------------------
(***************************************************************************)
(* Proofs about Controller, for any length of a round, any queue and any   *)
(* set of intents: its type invariant, that the automatic refresh is never *)
(* lost but by the steps ScheduleKept names, and that a lost account takes *)
(* its figures off the screen but in the steps DataHiddenOnLoss names.     *)
(*                                                                         *)
(* The invariant is the types and two facts of the client: since a day of  *)
(* a round is taken off what is left of it, one is only asked for while    *)
(* some is left; and a client that could not be initialised again holds no *)
(* account, or an unlink, which it ignores, would clear the deadlines of   *)
(* an account that stays.                                                  *)
(***************************************************************************)
EXTENDS Controller, SequenceTheorems, TLAPS

USE DEF wifiVars, linkVars, worldVars

Clocks == [Timers -> {"off", "wait", "due"}]
Views == [shown : BOOLEAN, askLink : BOOLEAN]
DayLeft == pc = "day" => client.left > 0
LinkedReady == client.auth => client.ready
IInv == TypeOK /\ DayLeft /\ LinkedReady

-------------------------------------------------------------------------------
(* What the handlers make of the queue, the client and the view.           *)

\* Handled takes the oldest command off the queue.
LEMMA QueueTaken ==
    ASSUME queue \in Seq(Commands), queue # <<>>
    PROVE  Tail(queue) \in Seq(Commands)
  BY HeadTailProperties

\* Press and the Wi-Fi callbacks add a command to it.
LEMMA QueueFilled ==
    ASSUME NEW q \in Seq(Commands), NEW c \in Commands
    PROVE  Append(q, c) \in Seq(Commands)
  BY AppendProperties

\* A restart begins with the queue of app_controller_init.
LEMMA QueueAtBoot == <<"Boot">> \in Seq(Commands)
  BY DEF Commands

\* The client of a device that is not linked.
LEMMA NoAccountTyped == NoAccount \in Client
  <1>1. 0 \in 0..RoundDays
    BY ControllerConstants
  <1> QED
    BY <1>1, Zenon DEF Client, NoAccount

\* The changes of one or two fields that the handlers make.
LEMMA ClientTyped ==
    ASSUME NEW c \in Client, NEW a \in BOOLEAN, NEW b \in BOOLEAN
    PROVE  /\ [c EXCEPT !.auth = a, !.stored = b] \in Client
           /\ [c EXCEPT !.stored = b] \in Client
           /\ [c EXCEPT !.stored = b, !.ready = FALSE] \in Client
           /\ [c EXCEPT !.ready = FALSE] \in Client
           /\ [c EXCEPT !.anchored = FALSE] \in Client
           /\ [c EXCEPT !.left = RoundDays] \in Client
  <1>1. RoundDays \in 0..RoundDays
    BY ControllerConstants
  <1> QED
    BY <1>1, Zenon DEF Client

\* A timezone change keeps of the client what the flash holds of its account.
LEMMA RebuiltTyped ==
    ASSUME client \in Client
    PROVE  /\ [NoAccount EXCEPT !.auth = client.stored, !.stored = client.stored] \in Client
           /\ [NoAccount EXCEPT !.stored = client.stored, !.ready = FALSE] \in Client
  <1>1. client.stored \in BOOLEAN
    BY DEF Client
  <1> QED
    BY <1>1, NoAccountTyped, ClientTyped, Zenon

\* vibe_begin_reconcile leaves a whole round ahead.
LEMMA RoundBegunTyped ==
    ASSUME client \in Client
    PROVE  RoundBegun \in Client /\ RoundBegun.left > 0
  <1>1. RoundDays \in 0..RoundDays /\ RoundDays > 0
    BY ControllerConstants
  <1>2. RoundBegun \in Client
    BY <1>1, Zenon DEF Client, RoundBegun
  <1>3. RoundBegun.left = RoundDays
    BY DEF Client, RoundBegun
  <1> QED
    BY <1>1, <1>2, <1>3

\* vibe_unlink, whether or not the flash follows, leaves no account in RAM.
LEMMA UnlinkedTyped ==
    ASSUME client \in Client
    PROVE  Unlinked(client) \subseteq Client
  <1>1. 0 \in 0..RoundDays
    BY ControllerConstants
  <1>2. ASSUME NEW s \in BOOLEAN
        PROVE  [client EXCEPT !.auth = FALSE, !.stored = s, !.cached = FALSE,
                              !.left = 0, !.anchored = FALSE] \in Client
    BY <1>1, Zenon DEF Client
  <1>3. {FALSE, client.stored} \subseteq BOOLEAN
    BY DEF Client
  <1> QED
    BY <1>2, <1>3, Zenon DEF Unlinked

\* Today's usage takes at most one day off a round.
LEMMA WithTodayTyped ==
    ASSUME client \in Client
    PROVE  WithToday(client) \subseteq Client
  <1>1. (IF client.anchored
         THEN {client.left, IF client.left > 0 THEN client.left - 1 ELSE 0}
         ELSE {0}) \subseteq 0..RoundDays
    BY ControllerConstants DEF Client
  <1>2. ASSUME NEW n \in 0..RoundDays
        PROVE  [client EXCEPT !.cached = TRUE, !.anchored = TRUE, !.left = n] \in Client
    BY Zenon DEF Client
  <1> QED
    BY <1>1, <1>2, Zenon DEF WithToday

\* A day of a round takes one off it, and there is one to take.
LEMMA WithDayTyped ==
    ASSUME client \in Client, client.left > 0
    PROVE  WithDay(client) \in Client
  <1>1. client.left - 1 \in 0..RoundDays
    BY ControllerConstants DEF Client
  <1> QED
    BY <1>1, Zenon DEF Client, WithDay

\* The changes that the handlers make of what the screens are told.
LEMMA ViewTyped ==
    ASSUME view \in Views, NEW a \in BOOLEAN, NEW b \in BOOLEAN, NEW c \in Client
    PROVE  /\ [view EXCEPT !.askLink = a] \in Views
           /\ [view EXCEPT !.shown = a] \in Views
           /\ [shown |-> a, askLink |-> b] \in Views
           /\ Snapshot(c) \in Views
  BY Zenon DEF Views, Client, Snapshot

LEMMA StaleTyped ==
    ASSUME view \in Views, client \in Client, Stale
    PROVE  view' \in Views
  <1>1. (view.askLink /\ ~view.shown) \in BOOLEAN
    OBVIOUS
  <1> QED
    BY <1>1, ViewTyped, Zenon DEF Stale

\* Only vibe_unlink and the steps that build a new client change its account,
\* and only those that cannot build one leave it uninitialised.
LEMMA SameAccount ==
    ASSUME client \in Client
    PROVE  /\ RoundBegun.auth = client.auth /\ RoundBegun.ready = client.ready
           /\ \A c \in WithToday(client) :
                 /\ c.auth = client.auth /\ [c EXCEPT !.left = RoundDays].auth = client.auth
                 /\ c.ready = client.ready /\ [c EXCEPT !.left = RoundDays].ready = client.ready
           /\ WithDay(client).auth = client.auth /\ WithDay(client).ready = client.ready
           /\ [client EXCEPT !.anchored = FALSE].auth = client.auth
           /\ [client EXCEPT !.anchored = FALSE].ready = client.ready
           /\ \A s \in BOOLEAN : /\ [client EXCEPT !.stored = s].auth = client.auth
                                 /\ [client EXCEPT !.stored = s].ready = client.ready
  <1>1. RoundBegun.auth = client.auth /\ RoundBegun.ready = client.ready
    BY DEF Client, RoundBegun
  <1>2. ASSUME NEW c \in WithToday(client)
        PROVE  /\ c.auth = client.auth /\ [c EXCEPT !.left = RoundDays].auth = client.auth
               /\ c.ready = client.ready /\ [c EXCEPT !.left = RoundDays].ready = client.ready
    BY DEF Client, WithToday
  <1>3. WithDay(client).auth = client.auth /\ WithDay(client).ready = client.ready
    BY DEF Client, WithDay
  <1>4. /\ [client EXCEPT !.anchored = FALSE].auth = client.auth
        /\ [client EXCEPT !.anchored = FALSE].ready = client.ready
        /\ \A s \in BOOLEAN : /\ [client EXCEPT !.stored = s].auth = client.auth
                              /\ [client EXCEPT !.stored = s].ready = client.ready
    BY DEF Client
  <1> QED
    BY <1>1, <1>2, <1>3, <1>4

LEMMA OtherAccount ==
    ASSUME client \in Client
    PROVE  /\ \A c \in Unlinked(client) : c.auth = FALSE
           /\ NoAccount.auth = FALSE /\ NoAccount.ready = TRUE
           /\ [NoAccount EXCEPT !.ready = FALSE].auth = FALSE
           /\ [NoAccount EXCEPT !.stored = client.stored, !.ready = FALSE].auth = FALSE
           /\ [NoAccount EXCEPT !.auth = client.stored, !.stored = client.stored].auth
                 = client.stored
           /\ [NoAccount EXCEPT !.auth = client.stored, !.stored = client.stored].ready = TRUE
           /\ [NoAccount EXCEPT !.auth = TRUE, !.stored = TRUE].auth = TRUE
           /\ [NoAccount EXCEPT !.auth = TRUE, !.stored = TRUE].ready = TRUE
  <1>1. ASSUME NEW c \in Unlinked(client)
        PROVE  c.auth = FALSE
    BY DEF Client, Unlinked
  <1> QED
    BY <1>1 DEF NoAccount

\* What the handlers make of the two deadlines that lead to a fetch.
Ahead(t) == t.refresh # "off" \/ t.retry # "off"

LEMMA DeadlinesAhead ==
    ASSUME timer \in Clocks
    PROVE  /\ \A s \in {"due", "wait"} :
                /\ Ahead([timer EXCEPT !.poll = s]) <=> Ahead(timer)
                /\ Ahead([timer EXCEPT !.round = s]) <=> Ahead(timer)
                /\ Ahead([timer EXCEPT !.retry = s])
           /\ Ahead([timer EXCEPT !.retry = "wait", !.refresh = "off"])
           /\ \A r : Ahead([timer EXCEPT !.refresh = "due", !.retry = r])
           /\ Ahead([timer EXCEPT !.refresh = "wait", !.retry = "off"])
           /\ Ahead([timer EXCEPT !.refresh = "wait", !.retry = "off", !.round = "wait"])
           /\ \A again : /\ ClearLink({"refresh"}, again) => Ahead(timer')
                         /\ ClearLink({"retry"}, again) => Ahead(timer')
           /\ \A t \in Timers : Ahead(timer) => Ahead([timer EXCEPT ![t] = "due"])
  BY DEF Clocks, Timers, ClearLink, Ahead

-------------------------------------------------------------------------------
(* One lemma for each part of the state: every step keeps its type.        *)

\* The flags: each is set to a constant, to a condition or to another flag.
LEMMA FlagsTyped ==
    ASSUME TypeOK, Next
    PROVE  /\ cancelled' \in BOOLEAN
           /\ radio' \in BOOLEAN /\ online' \in BOOLEAN /\ timePending' \in BOOLEAN
           /\ clock' \in BOOLEAN /\ daily' \in BOOLEAN /\ window' \in BOOLEAN
           /\ codeRetry' \in BOOLEAN /\ manual' \in BOOLEAN /\ active' \in BOOLEAN
           /\ llmOpen' \in BOOLEAN
  <1> USE DEF Handle, Deadlines, Answer, Environment, Next, Boot, GotIp,
      Disconnected, Refresh, Reconcile, Relink, Unlink, TimezoneSaved,
      TimezoneNotSaved, LlmConfig, LlmConfigClose, StartWifi, SetupOpened,
      ResetDone, ResetFailed, NoCommand, SetupExpires, NothingDue, SyncTime,
      CodeExpired, PollStart, ManualRefresh, BeginRound, DayStart,
      RefreshStart, RetryTime, CodeStart, RetryToday, CodeIssued, CodeFailed,
      PollPending, PollFailed, PollLinked, PollRefused, TodayFetched,
      TodayFailed, TodayRejected, DayFetched, DayFailed, DayRejected, Press,
      VoicePress, GetsAddress, LosesAddress, TimerDue, CodeLapses, Decide,
      WindowEnds, Midnight, RoundHour, Finish, Begin, Handled, Command,
      HandledAndStationStopped, Gate, TimeReady, TimeFailed, StartToday,
      Retry, CancelRequest, ClearLink, Requests
  <1>1. cancelled' \in BOOLEAN
    BY Zenon DEF TypeOK
  <1>2. radio' \in BOOLEAN
    BY Zenon DEF TypeOK
  <1>3. online' \in BOOLEAN
    BY Zenon DEF TypeOK
  <1>4. timePending' \in BOOLEAN
    BY Zenon DEF TypeOK
  <1>5. clock' \in BOOLEAN
    BY Zenon DEF TypeOK
  <1>6. daily' \in BOOLEAN
    BY Zenon DEF TypeOK
  <1>7. window' \in BOOLEAN
    BY Zenon DEF TypeOK
  <1>8. codeRetry' \in BOOLEAN
    BY Zenon DEF TypeOK
  <1>9. manual' \in BOOLEAN
    BY Zenon DEF TypeOK
  <1>10. active' \in BOOLEAN
    BY Zenon DEF TypeOK
  <1>11. llmOpen' \in BOOLEAN
    BY Zenon DEF TypeOK
  <1> QED
    BY <1>1, <1>2, <1>3, <1>4, <1>5, <1>6, <1>7, <1>8, <1>9, <1>10, <1>11

\* The places of the task, the code it holds and the fate of that code.
LEMMA NamesTyped ==
    ASSUME TypeOK, Next
    PROVE  /\ pc' \in {"wait", "due"} \union Requests
           /\ code' \in {"none", "live", "expired"}
           /\ grant' \in {"pending", "approved", "refused", "delivered"}
  <1>1. CASE Handle
    BY <1>1 DEF Handle, Boot, GotIp, Disconnected, Refresh, Reconcile,
        Relink, Unlink, TimezoneSaved, TimezoneNotSaved, LlmConfig,
        LlmConfigClose, StartWifi, SetupOpened, ResetDone, ResetFailed,
        Finish, Begin, Handled, Command, HandledAndStationStopped, Gate,
        TimeReady, TimeFailed, StartToday, Retry, CancelRequest, TypeOK,
        ClearLink, Requests
  <1>2. CASE Deadlines
    BY <1>2 DEF Deadlines, NoCommand, SetupExpires, NothingDue, SyncTime,
        CodeExpired, PollStart, ManualRefresh, BeginRound, DayStart,
        RefreshStart, RetryTime, CodeStart, RetryToday, Finish, Begin,
        Handled, Command, HandledAndStationStopped, Gate, TimeReady,
        TimeFailed, StartToday, Retry, CancelRequest, TypeOK, ClearLink,
        Requests
  <1>3. CASE Answer
    BY <1>3 DEF Answer, CodeIssued, CodeFailed, PollPending, PollFailed,
        PollLinked, PollRefused, TodayFetched, TodayFailed, TodayRejected,
        DayFetched, DayFailed, DayRejected, Finish, Begin, Handled, Command,
        HandledAndStationStopped, Gate, TimeReady, TimeFailed, StartToday,
        Retry, CancelRequest, TypeOK, ClearLink, Requests
  <1>4. CASE Environment
    BY <1>4 DEF Environment, Press, VoicePress, GetsAddress, LosesAddress,
        TimerDue, CodeLapses, Decide, WindowEnds, Midnight, RoundHour,
        Finish, Begin, Handled, Command, HandledAndStationStopped, Gate,
        TimeReady, TimeFailed, StartToday, Retry, CancelRequest, TypeOK,
        ClearLink, Requests
  <1> QED
    BY <1>1, <1>2, <1>3, <1>4 DEF Next

\* The queue holds commands.
LEMMA QueueTyped ==
    ASSUME queue \in Seq(Commands), Next
    PROVE  queue' \in Seq(Commands)
  <1>1. CASE Handle
    BY <1>1, QueueTaken, QueueFilled, QueueAtBoot, ControllerConstants DEF
        Handle, Boot, GotIp, Disconnected, Refresh, Reconcile, Relink,
        Unlink, TimezoneSaved, TimezoneNotSaved, LlmConfig, LlmConfigClose,
        StartWifi, SetupOpened, ResetDone, ResetFailed, Finish, Begin,
        Handled, Command, HandledAndStationStopped, Gate, TimeReady,
        TimeFailed, StartToday, Retry, CancelRequest, Commands
  <1>2. CASE Deadlines
    BY <1>2, QueueTaken, QueueFilled, QueueAtBoot, ControllerConstants DEF
        Deadlines, NoCommand, SetupExpires, NothingDue, SyncTime,
        CodeExpired, PollStart, ManualRefresh, BeginRound, DayStart,
        RefreshStart, RetryTime, CodeStart, RetryToday, Finish, Begin,
        Handled, Command, HandledAndStationStopped, Gate, TimeReady,
        TimeFailed, StartToday, Retry, CancelRequest, Commands
  <1>3. CASE Answer
    BY <1>3, QueueTaken, QueueFilled, QueueAtBoot, ControllerConstants DEF
        Answer, CodeIssued, CodeFailed, PollPending, PollFailed, PollLinked,
        PollRefused, TodayFetched, TodayFailed, TodayRejected, DayFetched,
        DayFailed, DayRejected, Finish, Begin, Handled, Command,
        HandledAndStationStopped, Gate, TimeReady, TimeFailed, StartToday,
        Retry, CancelRequest, Commands
  <1>4. CASE Environment
    BY <1>4, QueueTaken, QueueFilled, QueueAtBoot, ControllerConstants DEF
        Environment, Press, VoicePress, GetsAddress, LosesAddress, TimerDue,
        CodeLapses, Decide, WindowEnds, Midnight, RoundHour, Finish, Begin,
        Handled, Command, HandledAndStationStopped, Gate, TimeReady,
        TimeFailed, StartToday, Retry, CancelRequest, Commands
  <1> QED
    BY <1>1, <1>2, <1>3, <1>4 DEF Next

\* The deadlines.
LEMMA TimerTyped ==
    ASSUME timer \in Clocks, Next
    PROVE  timer' \in Clocks
  <1>1. CASE Handle
    BY <1>1 DEF Handle, Boot, GotIp, Disconnected, Refresh, Reconcile,
        Relink, Unlink, TimezoneSaved, TimezoneNotSaved, LlmConfig,
        LlmConfigClose, StartWifi, SetupOpened, ResetDone, ResetFailed,
        Finish, Begin, Handled, Command, HandledAndStationStopped, Gate,
        TimeReady, TimeFailed, StartToday, Retry, CancelRequest, Clocks,
        Timers, ClearLink, BackOff
  <1>2. CASE Deadlines
    BY <1>2 DEF Deadlines, NoCommand, SetupExpires, NothingDue, SyncTime,
        CodeExpired, PollStart, ManualRefresh, BeginRound, DayStart,
        RefreshStart, RetryTime, CodeStart, RetryToday, Finish, Begin,
        Handled, Command, HandledAndStationStopped, Gate, TimeReady,
        TimeFailed, StartToday, Retry, CancelRequest, Clocks, Timers,
        ClearLink, BackOff
  <1>3. CASE Answer
    BY <1>3 DEF Answer, CodeIssued, CodeFailed, PollPending, PollFailed,
        PollLinked, PollRefused, TodayFetched, TodayFailed, TodayRejected,
        DayFetched, DayFailed, DayRejected, Finish, Begin, Handled, Command,
        HandledAndStationStopped, Gate, TimeReady, TimeFailed, StartToday,
        Retry, CancelRequest, Clocks, Timers, ClearLink, BackOff
  <1>4. CASE Environment
    BY <1>4 DEF Environment, Press, VoicePress, GetsAddress, LosesAddress,
        TimerDue, CodeLapses, Decide, WindowEnds, Midnight, RoundHour,
        Finish, Begin, Handled, Command, HandledAndStationStopped, Gate,
        TimeReady, TimeFailed, StartToday, Retry, CancelRequest, Clocks,
        Timers, ClearLink, BackOff
  <1> QED
    BY <1>1, <1>2, <1>3, <1>4 DEF Next

\* The client; DayLeft is what WithDay needs.
LEMMA ClientKept ==
    ASSUME client \in Client, DayLeft, Next
    PROVE  client' \in Client
  <1>1. CASE Handle
    BY <1>1, NoAccountTyped, ClientTyped, RebuiltTyped, RoundBegunTyped,
        UnlinkedTyped, WithTodayTyped, WithDayTyped, Zenon DEF Handle, Boot,
        GotIp, Disconnected, Refresh, Reconcile, Relink, Unlink,
        TimezoneSaved, TimezoneNotSaved, LlmConfig, LlmConfigClose,
        StartWifi, SetupOpened, ResetDone, ResetFailed, Finish, Begin,
        Handled, Command, HandledAndStationStopped, Gate, TimeReady,
        TimeFailed, StartToday, Retry, CancelRequest, DayLeft
  <1>2. CASE Deadlines
    BY <1>2, NoAccountTyped, ClientTyped, RebuiltTyped, RoundBegunTyped,
        UnlinkedTyped, WithTodayTyped, WithDayTyped, Zenon DEF Deadlines,
        NoCommand, SetupExpires, NothingDue, SyncTime, CodeExpired,
        PollStart, ManualRefresh, BeginRound, DayStart, RefreshStart,
        RetryTime, CodeStart, RetryToday, Finish, Begin, Handled, Command,
        HandledAndStationStopped, Gate, TimeReady, TimeFailed, StartToday,
        Retry, CancelRequest, DayLeft
  <1>3. CASE Answer
    BY <1>3, NoAccountTyped, ClientTyped, RebuiltTyped, RoundBegunTyped,
        UnlinkedTyped, WithTodayTyped, WithDayTyped, Zenon DEF Answer,
        CodeIssued, CodeFailed, PollPending, PollFailed, PollLinked,
        PollRefused, TodayFetched, TodayFailed, TodayRejected, DayFetched,
        DayFailed, DayRejected, Finish, Begin, Handled, Command,
        HandledAndStationStopped, Gate, TimeReady, TimeFailed, StartToday,
        Retry, CancelRequest, DayLeft
  <1>4. CASE Environment
    BY <1>4, NoAccountTyped, ClientTyped, RebuiltTyped, RoundBegunTyped,
        UnlinkedTyped, WithTodayTyped, WithDayTyped, Zenon DEF Environment,
        Press, VoicePress, GetsAddress, LosesAddress, TimerDue, CodeLapses,
        Decide, WindowEnds, Midnight, RoundHour, Finish, Begin, Handled,
        Command, HandledAndStationStopped, Gate, TimeReady, TimeFailed,
        StartToday, Retry, CancelRequest, DayLeft
  <1> QED
    BY <1>1, <1>2, <1>3, <1>4 DEF Next

\* The view.
LEMMA ViewKept ==
    ASSUME client \in Client, client' \in Client, view \in Views, Next
    PROVE  view' \in Views
  <1>1. CASE Handle
    BY <1>1, ViewTyped, StaleTyped, Zenon DEF Handle, Boot, GotIp,
        Disconnected, Refresh, Reconcile, Relink, Unlink, TimezoneSaved,
        TimezoneNotSaved, LlmConfig, LlmConfigClose, StartWifi, SetupOpened,
        ResetDone, ResetFailed, Finish, Begin, Handled, Command,
        HandledAndStationStopped, Gate, TimeReady, TimeFailed, StartToday,
        Retry, CancelRequest, AskLink, OnlyAskLink
  <1>2. CASE Deadlines
    BY <1>2, ViewTyped, StaleTyped, Zenon DEF Deadlines, NoCommand,
        SetupExpires, NothingDue, SyncTime, CodeExpired, PollStart,
        ManualRefresh, BeginRound, DayStart, RefreshStart, RetryTime,
        CodeStart, RetryToday, Finish, Begin, Handled, Command,
        HandledAndStationStopped, Gate, TimeReady, TimeFailed, StartToday,
        Retry, CancelRequest, AskLink, OnlyAskLink
  <1>3. CASE Answer
    BY <1>3, ViewTyped, StaleTyped, Zenon DEF Answer, CodeIssued,
        CodeFailed, PollPending, PollFailed, PollLinked, PollRefused,
        TodayFetched, TodayFailed, TodayRejected, DayFetched, DayFailed,
        DayRejected, Finish, Begin, Handled, Command,
        HandledAndStationStopped, Gate, TimeReady, TimeFailed, StartToday,
        Retry, CancelRequest, AskLink, OnlyAskLink
  <1>4. CASE Environment
    BY <1>4, ViewTyped, StaleTyped, Zenon DEF Environment, Press,
        VoicePress, GetsAddress, LosesAddress, TimerDue, CodeLapses, Decide,
        WindowEnds, Midnight, RoundHour, Finish, Begin, Handled, Command,
        HandledAndStationStopped, Gate, TimeReady, TimeFailed, StartToday,
        Retry, CancelRequest, AskLink, OnlyAskLink
  <1> QED
    BY <1>1, <1>2, <1>3, <1>4 DEF Next

\* A request for a day begins with one left, and nothing takes it meanwhile.
LEMMA DayLeftKept ==
    ASSUME client \in Client, DayLeft, Next
    PROVE  DayLeft'
  <1>1. CASE Handle
    BY <1>1, RoundBegunTyped DEF Handle, Boot, GotIp, Disconnected, Refresh,
        Reconcile, Relink, Unlink, TimezoneSaved, TimezoneNotSaved,
        LlmConfig, LlmConfigClose, StartWifi, SetupOpened, ResetDone,
        ResetFailed, Finish, Begin, Handled, Command,
        HandledAndStationStopped, Gate, TimeReady, TimeFailed, StartToday,
        Retry, CancelRequest, DayLeft, Client, RoundBegun
  <1>2. CASE Deadlines
    BY <1>2, RoundBegunTyped DEF Deadlines, NoCommand, SetupExpires,
        NothingDue, SyncTime, CodeExpired, PollStart, ManualRefresh,
        BeginRound, DayStart, RefreshStart, RetryTime, CodeStart,
        RetryToday, Finish, Begin, Handled, Command,
        HandledAndStationStopped, Gate, TimeReady, TimeFailed, StartToday,
        Retry, CancelRequest, DayLeft, Client, RoundBegun
  <1>3. CASE Answer
    BY <1>3, RoundBegunTyped DEF Answer, CodeIssued, CodeFailed,
        PollPending, PollFailed, PollLinked, PollRefused, TodayFetched,
        TodayFailed, TodayRejected, DayFetched, DayFailed, DayRejected,
        Finish, Begin, Handled, Command, HandledAndStationStopped, Gate,
        TimeReady, TimeFailed, StartToday, Retry, CancelRequest, DayLeft,
        Client, RoundBegun
  <1>4. CASE Environment
    BY <1>4, RoundBegunTyped DEF Environment, Press, VoicePress,
        GetsAddress, LosesAddress, TimerDue, CodeLapses, Decide, WindowEnds,
        Midnight, RoundHour, Finish, Begin, Handled, Command,
        HandledAndStationStopped, Gate, TimeReady, TimeFailed, StartToday,
        Retry, CancelRequest, DayLeft, Client, RoundBegun
  <1> QED
    BY <1>1, <1>2, <1>3, <1>4 DEF Next

\* A client that is not initialised is linked only after it is.
LEMMA LinkedReadyKept ==
    ASSUME client \in Client, client' \in Client, LinkedReady, Next
    PROVE  LinkedReady'
  <1>1. CASE Handle
    BY <1>1, SameAccount, OtherAccount, Zenon DEF Handle, Boot, GotIp,
        Disconnected, Refresh, Reconcile, Relink, Unlink, TimezoneSaved,
        TimezoneNotSaved, LlmConfig, LlmConfigClose, StartWifi, SetupOpened,
        ResetDone, ResetFailed, Finish, Begin, Handled, Command,
        HandledAndStationStopped, Gate, TimeReady, TimeFailed, StartToday,
        Retry, CancelRequest, LinkedReady, RefreshDue, RetryDue
  <1>2. CASE Deadlines
    BY <1>2, SameAccount, OtherAccount, Zenon DEF Deadlines, NoCommand,
        SetupExpires, NothingDue, SyncTime, CodeExpired, PollStart,
        ManualRefresh, BeginRound, DayStart, RefreshStart, RetryTime,
        CodeStart, RetryToday, Finish, Begin, Handled, Command,
        HandledAndStationStopped, Gate, TimeReady, TimeFailed, StartToday,
        Retry, CancelRequest, LinkedReady, RefreshDue, RetryDue
  <1>3. CASE Answer
    BY <1>3, SameAccount, OtherAccount, ZenonT(60) DEF Answer, CodeIssued,
        CodeFailed, PollPending, PollFailed, PollLinked, PollRefused,
        TodayFetched, TodayFailed, TodayRejected, DayFetched, DayFailed,
        DayRejected, Finish, Begin, Handled, Command,
        HandledAndStationStopped, Gate, TimeReady, TimeFailed, StartToday,
        Retry, CancelRequest, LinkedReady, RefreshDue, RetryDue
  <1>4. CASE Environment
    BY <1>4, SameAccount, OtherAccount, Zenon DEF Environment, Press,
        VoicePress, GetsAddress, LosesAddress, TimerDue, CodeLapses, Decide,
        WindowEnds, Midnight, RoundHour, Finish, Begin, Handled, Command,
        HandledAndStationStopped, Gate, TimeReady, TimeFailed, StartToday,
        Retry, CancelRequest, LinkedReady, RefreshDue, RetryDue
  <1> QED
    BY <1>1, <1>2, <1>3, <1>4 DEF Next

\* A scheduled device stays so, but for the steps that ScheduleKept names.
LEMMA ScheduledKept ==
    ASSUME client \in Client, client' \in Client, LinkedReady, timer \in Clocks, Scheduled,
           ~TimezoneNotSaved, ~(TimezoneSaved /\ ~clock), ~CodeExpired, ~PollRefused, Next
    PROVE  Scheduled'
  <1> USE DEF Finish, Begin, Handled, Command, HandledAndStationStopped,
      Gate, TimeReady, TimeFailed, StartToday, Retry, CancelRequest,
      Scheduled, Ahead, LinkedReady, BackOff, Requests, RefreshDue, RetryDue
  <1>1. CASE Handle
    <2>1. CASE Boot
      BY <2>1, SameAccount, OtherAccount, DeadlinesAhead, Zenon DEF Boot
    <2>2. CASE GotIp
      BY <2>2, SameAccount, OtherAccount, DeadlinesAhead, Zenon DEF GotIp
    <2>3. CASE Disconnected
      BY <2>3, SameAccount, OtherAccount, DeadlinesAhead, Zenon DEF
          Disconnected
    <2>4. CASE Refresh
      BY <2>4, SameAccount, OtherAccount, DeadlinesAhead, Zenon DEF Refresh
    <2>5. CASE Reconcile
      BY <2>5, SameAccount, OtherAccount, DeadlinesAhead, Zenon DEF
          Reconcile
    <2>6. CASE Relink
      BY <2>6, SameAccount, OtherAccount, DeadlinesAhead, Zenon DEF Relink
    <2>7. CASE Unlink
      BY <2>7, SameAccount, OtherAccount, DeadlinesAhead, Zenon DEF Unlink
    <2>8. CASE TimezoneSaved
      <3>1. client'.auth = client.stored /\ online' = online /\ timePending' = timePending
        BY <2>8, OtherAccount DEF TimezoneSaved
      <3>2. client.stored /\ online => ClearLink({"refresh"}, FALSE)
        BY <2>8 DEF TimezoneSaved
      <3> QED
        BY <3>1, <3>2, DeadlinesAhead, Zenon DEF Scheduled, Ahead
    <2>9. CASE TimezoneNotSaved
      BY <2>9, SameAccount, OtherAccount, DeadlinesAhead, Zenon DEF
          TimezoneNotSaved
    <2>10. CASE LlmConfig
      BY <2>10, SameAccount, OtherAccount, DeadlinesAhead, Zenon DEF
          LlmConfig, SetupOpened
    <2>11. CASE LlmConfigClose
      BY <2>11, SameAccount, OtherAccount, DeadlinesAhead, Zenon DEF
          LlmConfigClose
    <2>12. CASE StartWifi
      BY <2>12, SameAccount, OtherAccount, DeadlinesAhead, Zenon DEF
          StartWifi, SetupOpened
    <2>13. CASE ResetDone
      BY <2>13, SameAccount, OtherAccount, DeadlinesAhead, Zenon DEF
          ResetDone
    <2>14. CASE ResetFailed
      BY <2>14, SameAccount, OtherAccount, DeadlinesAhead, Zenon DEF
          ResetFailed
    <2> QED
      BY <1>1, <2>1, <2>2, <2>3, <2>4, <2>5, <2>6, <2>7, <2>8, <2>9, <2>10,
          <2>11, <2>12, <2>13, <2>14, Zenon DEF Handle
  <1>2. CASE Deadlines
    <2>1. CASE NoCommand
      BY <2>1, SameAccount, OtherAccount, DeadlinesAhead, Zenon DEF
          NoCommand
    <2>2. CASE SetupExpires
      BY <2>2, SameAccount, OtherAccount, DeadlinesAhead, Zenon DEF
          SetupExpires
    <2>3. CASE NothingDue
      BY <2>3, SameAccount, OtherAccount, DeadlinesAhead, Zenon DEF
          NothingDue
    <2>4. CASE SyncTime
      BY <2>4, DeadlinesAhead, Zenon DEF SyncTime
    <2>5. CASE CodeExpired
      BY <2>5, SameAccount, OtherAccount, DeadlinesAhead, Zenon DEF
          CodeExpired
    <2>6. CASE PollStart
      BY <2>6, SameAccount, OtherAccount, DeadlinesAhead, Zenon DEF
          PollStart
    <2>7. CASE ManualRefresh
      BY <2>7, SameAccount, OtherAccount, DeadlinesAhead, Zenon DEF
          ManualRefresh
    <2>8. CASE BeginRound
      BY <2>8, SameAccount, OtherAccount, DeadlinesAhead, Zenon DEF
          BeginRound
    <2>9. CASE DayStart
      BY <2>9, SameAccount, OtherAccount, DeadlinesAhead, Zenon DEF DayStart
    <2>10. CASE RefreshStart
      BY <2>10, SameAccount, OtherAccount, DeadlinesAhead, Zenon DEF
          RefreshStart
    <2>11. CASE RetryTime
      BY <2>11, SameAccount, OtherAccount, DeadlinesAhead, ZenonT(60) DEF
          RetryTime
    <2>12. CASE CodeStart
      BY <2>12, SameAccount, OtherAccount, DeadlinesAhead, Zenon DEF
          CodeStart
    <2>13. CASE RetryToday
      BY <2>13, SameAccount, OtherAccount, DeadlinesAhead, Zenon DEF
          RetryToday
    <2> QED
      BY <1>2, <2>1, <2>2, <2>3, <2>4, <2>5, <2>6, <2>7, <2>8, <2>9, <2>10,
          <2>11, <2>12, <2>13, Zenon DEF Deadlines
  <1>3. CASE Answer
    <2>1. CASE CodeIssued
      BY <2>1, SameAccount, OtherAccount, DeadlinesAhead, Zenon DEF
          CodeIssued
    <2>2. CASE CodeFailed
      BY <2>2, SameAccount, OtherAccount, DeadlinesAhead, Zenon DEF
          CodeFailed
    <2>3. CASE PollPending
      BY <2>3, SameAccount, OtherAccount, DeadlinesAhead, Zenon DEF
          PollPending
    <2>4. CASE PollFailed
      BY <2>4, SameAccount, OtherAccount, DeadlinesAhead, Zenon DEF
          PollFailed
    <2>5. CASE PollLinked
      <3>1. ClearLink({"refresh"}, FALSE)
        BY <2>5 DEF PollLinked
      <3> QED
        BY <3>1, DeadlinesAhead, Zenon DEF Scheduled, Ahead
    <2>6. CASE PollRefused
      BY <2>6, SameAccount, OtherAccount, DeadlinesAhead, Zenon DEF
          PollRefused
    <2>7. CASE TodayFetched
      BY <2>7, SameAccount, OtherAccount, DeadlinesAhead, Zenon DEF
          TodayFetched
    <2>8. CASE TodayFailed
      BY <2>8, SameAccount, OtherAccount, DeadlinesAhead, Zenon DEF
          TodayFailed
    <2>9. CASE TodayRejected
      BY <2>9, SameAccount, OtherAccount, DeadlinesAhead, Zenon DEF
          TodayRejected
    <2>10. CASE DayFetched
      BY <2>10, SameAccount, OtherAccount, DeadlinesAhead, Zenon DEF
          DayFetched
    <2>11. CASE DayFailed
      BY <2>11, SameAccount, OtherAccount, DeadlinesAhead, Zenon DEF
          DayFailed
    <2>12. CASE DayRejected
      BY <2>12, SameAccount, OtherAccount, DeadlinesAhead, Zenon DEF
          DayRejected
    <2> QED
      BY <1>3, <2>1, <2>2, <2>3, <2>4, <2>5, <2>6, <2>7, <2>8, <2>9, <2>10,
          <2>11, <2>12, Zenon DEF Answer
  <1>4. CASE Environment
    <2>1. ASSUME NEW x \in Intents, Press(x) PROVE Scheduled'
      BY <2>1, SameAccount, OtherAccount, DeadlinesAhead, Zenon DEF Press
    <2>2. CASE VoicePress
      BY <2>2, SameAccount, OtherAccount, DeadlinesAhead, Zenon DEF
          VoicePress
    <2>3. CASE GetsAddress
      BY <2>3, SameAccount, OtherAccount, DeadlinesAhead, Zenon DEF
          GetsAddress
    <2>4. CASE LosesAddress
      BY <2>4, SameAccount, OtherAccount, DeadlinesAhead, Zenon DEF
          LosesAddress
    <2>5. ASSUME NEW x \in Timers, TimerDue(x) PROVE Scheduled'
      BY <2>5, SameAccount, OtherAccount, DeadlinesAhead, Zenon DEF TimerDue
    <2>6. CASE CodeLapses
      BY <2>6, SameAccount, OtherAccount, DeadlinesAhead, Zenon DEF
          CodeLapses
    <2>7. CASE Decide
      BY <2>7, SameAccount, OtherAccount, DeadlinesAhead, Zenon DEF Decide
    <2>8. CASE WindowEnds
      BY <2>8, SameAccount, OtherAccount, DeadlinesAhead, Zenon DEF
          WindowEnds
    <2>9. CASE Midnight
      BY <2>9, SameAccount, OtherAccount, DeadlinesAhead, Zenon DEF Midnight
    <2>10. CASE RoundHour
      BY <2>10, SameAccount, OtherAccount, DeadlinesAhead, Zenon DEF
          RoundHour
    <2> QED
      BY <1>4, <2>1, <2>2, <2>3, <2>4, <2>5, <2>6, <2>7, <2>8, <2>9, <2>10,
          Zenon DEF Environment
  <1> QED
    BY <1>1, <1>2, <1>3, <1>4 DEF Next

\* A lost account takes its figures along, but in the steps DataHiddenOnLoss
\* names.
LEMMA HiddenOnLoss ==
    ASSUME client \in Client, client' \in Client, client.auth, ~client'.auth,
           ~DayRejected, ~ResetFailed, Next
    PROVE  ~view'.shown
  <1> USE DEF Finish, Begin, Handled, Command, HandledAndStationStopped,
      Gate, TimeReady, TimeFailed, StartToday, Retry, CancelRequest, AskLink
  <1>1. CASE Handle
    <2>1. CASE Boot
      BY <2>1, SameAccount, OtherAccount, Zenon DEF Boot
    <2>2. CASE GotIp
      BY <2>2, SameAccount, OtherAccount, Zenon DEF GotIp
    <2>3. CASE Disconnected
      BY <2>3, SameAccount, OtherAccount, Zenon DEF Disconnected
    <2>4. CASE Refresh
      BY <2>4, SameAccount, OtherAccount, Zenon DEF Refresh
    <2>5. CASE Reconcile
      BY <2>5, SameAccount, OtherAccount, Zenon DEF Reconcile
    <2>6. CASE Relink
      BY <2>6, SameAccount, OtherAccount, Zenon DEF Relink
    <2>7. CASE Unlink
      BY <2>7, SameAccount, OtherAccount, Zenon DEF Unlink
    <2>8. CASE TimezoneSaved
      BY <2>8, OtherAccount DEF TimezoneSaved
    <2>9. CASE TimezoneNotSaved
      BY <2>9, OtherAccount DEF TimezoneNotSaved
    <2>10. CASE LlmConfig
      BY <2>10, SameAccount, OtherAccount, Zenon DEF LlmConfig, SetupOpened
    <2>11. CASE LlmConfigClose
      BY <2>11, SameAccount, OtherAccount, Zenon DEF LlmConfigClose
    <2>12. CASE StartWifi
      BY <2>12, SameAccount, OtherAccount, Zenon DEF StartWifi, SetupOpened
    <2>13. CASE ResetDone
      BY <2>13, SameAccount, OtherAccount, Zenon DEF ResetDone
    <2>14. CASE ResetFailed
      BY <2>14, SameAccount, OtherAccount, Zenon DEF ResetFailed
    <2> QED
      BY <1>1, <2>1, <2>2, <2>3, <2>4, <2>5, <2>6, <2>7, <2>8, <2>9, <2>10,
          <2>11, <2>12, <2>13, <2>14, Zenon DEF Handle
  <1>2. CASE Deadlines
    BY <1>2, SameAccount, OtherAccount, Zenon DEF Deadlines, NoCommand,
        SetupExpires, NothingDue, SyncTime, CodeExpired, PollStart,
        ManualRefresh, BeginRound, DayStart, RefreshStart, RetryTime,
        CodeStart, RetryToday
  <1>3. CASE Answer
    <2>1. CASE CodeIssued
      BY <2>1, SameAccount, OtherAccount, Zenon DEF CodeIssued
    <2>2. CASE CodeFailed
      BY <2>2, SameAccount, OtherAccount, Zenon DEF CodeFailed
    <2>3. CASE PollPending
      BY <2>3, SameAccount, OtherAccount, Zenon DEF PollPending
    <2>4. CASE PollFailed
      BY <2>4, SameAccount, OtherAccount, Zenon DEF PollFailed
    <2>5. CASE PollLinked
      BY <2>5, SameAccount, OtherAccount, Zenon DEF PollLinked
    <2>6. CASE PollRefused
      BY <2>6, SameAccount, OtherAccount, Zenon DEF PollRefused
    <2>7. CASE TodayFetched
      BY <2>7, SameAccount, OtherAccount, ZenonT(60) DEF TodayFetched
    <2>8. CASE TodayFailed
      BY <2>8, SameAccount, OtherAccount, Zenon DEF TodayFailed
    <2>9. CASE TodayRejected
      BY <2>9, SameAccount, OtherAccount, Zenon DEF TodayRejected
    <2>10. CASE DayFetched
      BY <2>10, SameAccount, OtherAccount, Zenon DEF DayFetched
    <2>11. CASE DayFailed
      BY <2>11, SameAccount, OtherAccount, Zenon DEF DayFailed
    <2>12. CASE DayRejected
      BY <2>12, SameAccount, OtherAccount, Zenon DEF DayRejected
    <2> QED
      BY <1>3, <2>1, <2>2, <2>3, <2>4, <2>5, <2>6, <2>7, <2>8, <2>9, <2>10,
          <2>11, <2>12, Zenon DEF Answer
  <1>4. CASE Environment
    BY <1>4, SameAccount, OtherAccount, Zenon DEF Environment, Press,
        VoicePress, GetsAddress, LosesAddress, TimerDue, CodeLapses, Decide,
        WindowEnds, Midnight, RoundHour
  <1> QED
    BY <1>1, <1>2, <1>3, <1>4 DEF Next

-------------------------------------------------------------------------------
(* The theorems.                                                           *)

\* The invariant holds of every behaviour.
LEMMA Inductive == Spec => []IInv
  <1>1. Init => IInv
    <2> SUFFICES ASSUME Init PROVE IInv
      OBVIOUS
    <2>1. client \in Client
      BY NoAccountTyped, Zenon DEF Init, Client
    <2>2. view \in Views
      BY <2>1, Zenon DEF Init, Views, Client
    <2>3. timer \in Clocks
      BY DEF Init, TimersOff, Timers, Clocks
    <2>4. clock \in BOOLEAN /\ window \in BOOLEAN
      BY Zenon DEF Init
    <2>5. queue \in Seq(Commands) /\ pc \in {"wait", "due"} /\ DayLeft
      BY QueueAtBoot DEF Init, DayLeft
    <2>7. LinkedReady
      BY OtherAccount, <2>1, Zenon DEF Init, LinkedReady
    <2>6. /\ cancelled \in BOOLEAN
          /\ radio \in BOOLEAN /\ online \in BOOLEAN /\ timePending \in BOOLEAN
          /\ daily \in BOOLEAN
          /\ codeRetry \in BOOLEAN /\ manual \in BOOLEAN /\ active \in BOOLEAN
          /\ llmOpen \in BOOLEAN
          /\ code \in {"none", "live", "expired"}
          /\ grant \in {"pending", "approved", "refused", "delivered"}
      BY DEF Init
    <2> QED
      BY <2>1, <2>2, <2>3, <2>4, <2>5, <2>6, <2>7, Zenon DEF IInv, TypeOK, Views, Clocks
  <1>2. IInv /\ [Next]_vars => IInv'
    <2> SUFFICES ASSUME IInv, [Next]_vars PROVE IInv'
      OBVIOUS
    <2>1. CASE Next
      <3>1. queue' \in Seq(Commands)
        BY <2>1, QueueTyped DEF IInv, TypeOK
      <3>2. timer' \in Clocks
        BY <2>1, TimerTyped DEF IInv, TypeOK, Clocks
      <3>3. client' \in Client
        BY <2>1, ClientKept DEF IInv, TypeOK
      <3>4. view' \in Views
        BY <2>1, <3>3, ViewKept DEF IInv, TypeOK, Views
      <3>5. DayLeft'
        BY <2>1, DayLeftKept DEF IInv, TypeOK
      <3>6. LinkedReady'
        BY <2>1, <3>3, LinkedReadyKept DEF IInv, TypeOK
      <3> QED
        BY <2>1, <3>1, <3>2, <3>3, <3>4, <3>5, <3>6, FlagsTyped, NamesTyped
        DEF IInv, TypeOK, Views, Clocks, Requests, Commands, Client
    <2>2. CASE UNCHANGED vars
      BY <2>2 DEF IInv, TypeOK, DayLeft, LinkedReady, vars, Requests, Commands, Client, Timers
    <2> QED
      BY <2>1, <2>2
  <1> QED
    BY <1>1, <1>2, PTL DEF Spec

\* Every reachable state of the controller is well typed.
THEOREM ControllerTypeCorrect == Spec => []TypeOK
  <1>1. IInv => TypeOK
    BY DEF IInv
  <1> QED
    BY <1>1, Inductive, PTL

\* The automatic refresh is never lost but by the steps that ScheduleKept names.
THEOREM ControllerKeepsSchedule == Spec => ScheduleKept
  <1>1. ASSUME IInv, IInv', Next, Scheduled, ~Scheduled'
        PROVE  \/ TimezoneNotSaved \/ (TimezoneSaved /\ ~clock)
               \/ CodeExpired \/ PollRefused
    BY <1>1, ScheduledKept DEF IInv, TypeOK, Clocks
  <1>2. IInv /\ IInv' /\ [Next]_vars =>
            [ Scheduled /\ ~Scheduled' =>
                \/ TimezoneNotSaved \/ (TimezoneSaved /\ ~clock)
                \/ CodeExpired \/ PollRefused ]_vars
    BY <1>1
  <1> QED
    BY <1>2, Inductive, PTL DEF Spec, ScheduleKept

\* A lost account takes its figures off the screen in the same step, except
\* when a day of a round is rejected or a factory reset stops half-way.
THEOREM ControllerHidesLostAccount == Spec => DataHiddenOnLoss
  <1>1. ASSUME IInv, IInv', Next, client.auth, ~client'.auth, view'.shown
        PROVE  DayRejected \/ ResetFailed
    BY <1>1, HiddenOnLoss DEF IInv, TypeOK
  <1>2. IInv /\ IInv' /\ [Next]_vars =>
            [ client.auth /\ ~client'.auth /\ view'.shown =>
                DayRejected \/ ResetFailed ]_vars
    BY <1>1
  <1> QED
    BY <1>2, Inductive, PTL DEF Spec, DataHiddenOnLoss

===============================================================================
