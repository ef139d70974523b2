------------------------------ MODULE Controller ------------------------------
(***************************************************************************)
(* The controller task of app_controller.c: one loop that takes a command  *)
(* from its queue, then looks at its deadlines and does at most one piece  *)
(* of usage work (time, link code, link poll, today's usage, one day of a  *)
(* seven-day round).  Meanwhile the buttons and the Wi-Fi driver add       *)
(* commands and cancel the request in flight, deadlines pass, and the      *)
(* server approves, expires or rejects.                                    *)
(*                                                                         *)
(* The usage client is kept to what the controller sees of it: whether it  *)
(* holds an account (UsageClient has the rest), whether its cache holds a  *)
(* day, and how much of a round is left (DayWindow has the rest).  Time is *)
(* a deadline being off, running or due.  Commands lost to a full queue,   *)
(* the setup portal and the shutdown are in WifiLink, voice in TodoList.   *)
(***************************************************************************)
EXTENDS Naturals, Sequences

CONSTANTS
    RoundDays,    \* requests in one seven-day round (6 or 7 in the code)
    QueueDepth,   \* commands the queue holds (20 in the code)
    Intents       \* the intents the user presses, a subset of AllIntents

AllIntents == {"Refresh", "Reconcile", "Relink", "Unlink", "ToggleTimezone",
               "LlmConfig", "LlmConfigClose", "StartWifi", "FactoryReset"}

ASSUME ControllerConstants ==
    /\ RoundDays \in Nat \ {0}
    /\ QueueDepth \in Nat \ {0}
    /\ Intents \subseteq AllIntents

VARIABLES
    pc,          \* where the task is: waiting for a command, looking at its
                 \* deadlines, or inside one request to the server
    queue,       \* commands not taken yet
    cancelled,   \* vibe_cancel was called since the request began
    radio,       \* the station has an address
    online,      \* s_controller.online
    timePending, \* s_controller.time_sync_pending
    clock,       \* the system time is valid
    timer,       \* next_link_poll, next_refresh, next_reconcile, next_retry
    code,        \* the device code held: none, live, expired
    grant,       \* what the server made of that code
    codeRetry,   \* request_code_retry
    manual,      \* manual_refresh_pending
    active,      \* reconcile_active
    client,      \* the usage client as the controller sees it
    daily,       \* the daily round is due by the clock
    view,        \* what the screens are told: usage shown, link asked for
    llmOpen,     \* llm_config_open
    window       \* the server's retry window is open

wifiVars == <<radio, online, timePending>>
linkVars == <<timer, code, grant, codeRetry, manual, active>>
worldVars == <<clock, daily, window>>
vars == <<pc, queue, cancelled, wifiVars, linkVars, client, view, llmOpen, worldVars>>

Requests == {"code", "poll", "today", "day"}
Commands == Intents \union {"Boot", "GotIp", "Disconnected"}

(***************************************************************************)
(* Helpers.                                                                *)
(***************************************************************************)
Timers == {"poll", "refresh", "round", "retry"}
TimersOff == [t \in Timers |-> "off"]

\* clear_public_link: the code and every deadline are forgotten; "next" is the
\* set of deadlines its caller arms again at once.
ClearLink(next, again) ==
    /\ timer' = [t \in Timers |-> IF t \in next THEN "due" ELSE "off"]
    /\ code' = "none" /\ grant' = "pending"
    /\ codeRetry' = again
    /\ manual' = FALSE
    /\ active' = FALSE

\* schedule_retry: back off, and no periodic refresh until then.
BackOffUnarmed == timer' = [timer EXCEPT !.refresh = "off"]
BackOff == timer' = [timer EXCEPT !.retry = "wait", !.refresh = "off"]

\* No account: no usage shown, the screen asks for a link.
OnlyAskLink == view' = [view EXCEPT !.askLink = TRUE]
AskLink == view' = [shown |-> FALSE, askLink |-> TRUE]

\* record_failure: usage that is shown stays on screen, marked stale.
Stale == view' = [view EXCEPT !.askLink = @ /\ ~view.shown]

NoAccount == [auth |-> FALSE, stored |-> FALSE, ready |-> TRUE, cached |-> FALSE,
              left |-> 0, anchored |-> FALSE]

\* vibe_unlink: the account is dropped from RAM whatever the flash does.
Unlinked(c) == {[c EXCEPT !.auth = FALSE, !.stored = s, !.cached = FALSE,
                          !.left = 0, !.anchored = FALSE] :
                   s \in {FALSE, c.stored}}

\* update_snapshots: has_today and data_state follow the cache.
Snapshot(c) == [shown |-> c.cached, askLink |-> FALSE]

Finish == pc' = "wait" /\ cancelled' = FALSE
Begin(request) == pc' = request /\ cancelled' = FALSE

Init ==
    /\ pc = "wait"
    /\ queue = <<"Boot">>
    /\ cancelled = FALSE
    /\ radio = FALSE /\ online = FALSE /\ timePending = FALSE
    /\ clock \in BOOLEAN
    /\ timer = TimersOff
    /\ code = "none" /\ grant = "pending"
    /\ codeRetry = FALSE /\ manual = FALSE /\ active = FALSE
    /\ client \in {NoAccount} \union
                   [auth : {TRUE}, stored : {TRUE}, ready : {TRUE}, cached : BOOLEAN,
                    left : 0..RoundDays, anchored : BOOLEAN]
    /\ daily = FALSE
    /\ window \in BOOLEAN
    /\ view = [shown |-> FALSE, askLink |-> ~client.auth]
    /\ llmOpen = FALSE

(***************************************************************************)
(* Commands.  Receive takes the oldest one; every handler ends before the  *)
(* task looks at its deadlines.                                            *)
(***************************************************************************)
Handled == pc' = "due" /\ queue' = Tail(queue)
Command(name) == pc = "wait" /\ queue # <<>> /\ Head(queue) = name

\* Stopping the station reports its end, if it was up, to the task itself.
HandledAndStationStopped ==
    /\ pc' = "due"
    /\ radio' = FALSE
    /\ queue' = IF radio THEN Append(Tail(queue), "Disconnected") ELSE Tail(queue)

Boot ==
    /\ Command("Boot") /\ Handled
    /\ view' = IF clock THEN Snapshot(client) ELSE view
    /\ UNCHANGED <<cancelled, wifiVars, linkVars, client, llmOpen, worldVars>>

GotIp ==
    /\ Command("GotIp") /\ Handled
    /\ online' = TRUE
    /\ timePending' = TRUE
    /\ UNCHANGED <<cancelled, radio, linkVars, client, view, llmOpen, worldVars>>

Disconnected ==
    /\ Command("Disconnected") /\ Handled
    /\ online' = FALSE
    /\ timePending' = FALSE
    /\ Stale
    /\ UNCHANGED <<cancelled, radio, linkVars, client, llmOpen, worldVars>>

\* The account is asked for again when the screen says so, whoever is linked.
Refresh ==
    /\ Command("Refresh") /\ Handled
    /\ IF view.askLink \/ ~client.auth
       THEN /\ codeRetry' = TRUE
            /\ timer' = [timer EXCEPT !.retry = "due"]
            /\ UNCHANGED manual
       ELSE /\ manual' = TRUE
            /\ UNCHANGED <<codeRetry, timer>>
    /\ UNCHANGED <<cancelled, wifiVars, code, grant, active, client, view,
                   llmOpen, worldVars>>

\* vibe_begin_reconcile: the mask is set for today's window, then saved.
RoundBegun == [client EXCEPT !.left = RoundDays, !.anchored = TRUE]

Reconcile ==
    /\ Command("Reconcile") /\ Handled
    /\ IF online /\ clock /\ client.auth
       THEN /\ client' = RoundBegun
            /\ \/ /\ active' = TRUE
                  /\ timer' = [timer EXCEPT !.round = "due"]
                  /\ UNCHANGED view
               \/ Stale /\ UNCHANGED <<active, timer>>      \* not saved
       ELSE UNCHANGED <<client, active, timer, view>>
    /\ UNCHANGED <<cancelled, wifiVars, code, grant, codeRetry, manual,
                   llmOpen, worldVars>>

\* A relink that could not be saved waits for the user; one that could asks
\* for a code at once.
Relink ==
    /\ Command("Relink") /\ Handled
    /\ \/ /\ client.ready
          /\ client' \in Unlinked(client)
          /\ ~client'.stored
          /\ ClearLink({"retry"}, TRUE)
       \/ /\ client' \in IF client.ready THEN Unlinked(client) ELSE {client}
          /\ ClearLink({}, FALSE)
    /\ AskLink
    /\ window' = (window /\ ~client.ready)
    /\ UNCHANGED <<cancelled, wifiVars, llmOpen, clock, daily>>

Unlink ==
    /\ Command("Unlink") /\ Handled
    /\ client' \in IF client.ready THEN Unlinked(client) ELSE {client}
    /\ ClearLink({}, FALSE)
    /\ AskLink
    /\ window' = (window /\ ~client.ready)
    /\ UNCHANGED <<cancelled, wifiVars, llmOpen, clock, daily>>

\* The client is rebuilt from flash with an empty cache for the new timezone.
TimezoneSaved ==
    /\ Command("ToggleTimezone") /\ Handled
    /\ client' = [NoAccount EXCEPT !.auth = client.stored, !.stored = client.stored]
    /\ ClearLink(IF ~(online /\ clock) THEN {}
                 ELSE IF client.stored THEN {"refresh"} ELSE {"retry"},
                 online /\ clock /\ ~client.stored)
    /\ view' = [view EXCEPT !.shown = FALSE]
    /\ UNCHANGED <<cancelled, wifiVars, llmOpen, worldVars>>

\* The settings are not saved (the client goes on as it was) or the client
\* cannot be rebuilt from flash; the deadlines were cleared before either.
TimezoneNotSaved ==
    /\ Command("ToggleTimezone") /\ Handled
    /\ client' \in {client, [NoAccount EXCEPT !.stored = client.stored, !.ready = FALSE]}
    /\ ClearLink({}, FALSE)
    /\ view' = [view EXCEPT !.shown = FALSE]
    /\ UNCHANGED <<cancelled, wifiVars, llmOpen, worldVars>>

\* reconfigure_wifi: the setup portal takes the station's place, if it starts.
SetupOpened ==
    /\ HandledAndStationStopped
    /\ online' = FALSE
    /\ timePending' = FALSE
    /\ UNCHANGED view \/ Stale

\* Opening the LLM setup without a network opens Wi-Fi setup instead, or leaves
\* one that is open alone.
LlmConfig ==
    /\ Command("LlmConfig")
    /\ llmOpen' = TRUE
    /\ IF online
       THEN Handled /\ UNCHANGED <<wifiVars, view>>
       ELSE SetupOpened
    /\ UNCHANGED <<cancelled, linkVars, client, worldVars>>

LlmConfigClose ==
    /\ Command("LlmConfigClose") /\ Handled
    /\ llmOpen' = FALSE
    /\ UNCHANGED <<cancelled, wifiVars, linkVars, client, view, worldVars>>

StartWifi ==
    /\ Command("StartWifi")
    /\ SetupOpened
    /\ UNCHANGED <<cancelled, linkVars, client, llmOpen, worldVars>>

\* Everything erased: the device starts again with nothing linked.
ResetDone ==
    /\ Command("FactoryReset")
    /\ pc' = "wait"
    /\ queue' = <<"Boot">>
    /\ radio' = FALSE /\ online' = FALSE /\ timePending' = FALSE
    /\ ClearLink({}, FALSE)
    /\ client' = NoAccount
    /\ daily' = FALSE /\ window' = FALSE
    /\ AskLink
    /\ llmOpen' = FALSE
    /\ UNCHANGED <<cancelled, clock>>

\* A step failed: before the usage data was erased the client is untouched,
\* after it the client is no longer initialised.  The station stays stopped.
ResetFailed ==
    /\ Command("FactoryReset") /\ HandledAndStationStopped
    /\ client' \in {client, [client EXCEPT !.stored = FALSE],
                    [NoAccount EXCEPT !.ready = FALSE]}
    /\ Stale
    /\ UNCHANGED <<cancelled, online, timePending, linkVars, llmOpen, worldVars>>

Handle ==
    \/ Boot \/ GotIp \/ Disconnected \/ Refresh \/ Reconcile \/ Relink \/ Unlink
    \/ TimezoneSaved \/ TimezoneNotSaved \/ LlmConfig \/ LlmConfigClose
    \/ StartWifi \/ ResetDone \/ ResetFailed

(***************************************************************************)
(* Deadlines: run_due_actions, one branch an action, in its order.  The    *)
(* first gates are being offline, a clock to set, the setup portal and a   *)
(* reminder about to ring.                                                 *)
(***************************************************************************)
NoCommand ==
    /\ pc = "wait" /\ queue = <<>>
    /\ pc' = "due"
    /\ UNCHANGED <<queue, cancelled, wifiVars, linkVars, client, view, llmOpen,
                   worldVars>>

Gate == pc = "due" /\ online /\ ~timePending /\ ~llmOpen
PollDueWhileLive == code = "live" /\ timer.poll = "due"
PollDue == code # "none" /\ timer.poll = "due"
ManualDue == manual /\ client.auth
RoundWantedDuringBackOff == ~active /\ client.auth /\ clock
                              /\ (client.left > 0 \/ daily)
RoundWanted == ~active /\ timer.retry = "off" /\ client.auth /\ clock
                  /\ (client.left > 0 \/ daily)
RoundDue == active /\ timer.round = "due"
RefreshDue == client.auth /\ timer.refresh = "due"
RetryDue == timer.retry = "due"

SetupExpires ==
    /\ pc = "due" /\ llmOpen
    /\ llmOpen' = FALSE
    /\ UNCHANGED <<pc, queue, cancelled, wifiVars, linkVars, client, view,
                   worldVars>>

\* Also when some work is due: a reminder within 40 seconds goes first.
NothingDue ==
    /\ pc = "due"
    /\ ~(online /\ timePending)
    /\ Finish
    /\ UNCHANGED <<queue, wifiVars, linkVars, client, view, llmOpen,
                   worldVars>>

\* after_time_ready ("retry" is the retry deadline it starts from), and the
\* back-off of a clock that could not be set.
TimeReady(retry) ==
    /\ clock' = TRUE
    /\ view' = Snapshot(client)
    /\ IF client.auth
       THEN /\ timer' = [timer EXCEPT !.refresh = "due", !.retry = retry]
            /\ UNCHANGED codeRetry
       ELSE /\ timer' = [timer EXCEPT !.retry = "due"]
            /\ codeRetry' = TRUE

TimeFailed ==
    /\ ~clock /\ UNCHANGED <<clock, codeRetry>>
    /\ Stale
    /\ BackOff

SyncTime ==
    /\ pc = "due" /\ online /\ timePending
    /\ timePending' = FALSE
    /\ TimeReady(timer.retry) \/ TimeFailed
    /\ Finish
    /\ UNCHANGED <<queue, radio, online, code, grant, manual, active, client,
                   llmOpen, daily, window>>

CodeExpired ==
    /\ Gate /\ PollDue /\ code = "expired"
    /\ ClearLink({}, FALSE)
    /\ OnlyAskLink
    /\ Finish
    /\ UNCHANGED <<queue, wifiVars, client, llmOpen, worldVars>>

PollStart ==
    /\ Gate /\ PollDue /\ code = "live"
    /\ Begin("poll")
    /\ UNCHANGED <<queue, wifiVars, linkVars, client, view, llmOpen,
                   worldVars>>

\* fetch_today: not without a clock, not before the server's window ends, and
\* a manual one not within a minute of the last (it may or may not be).
StartToday(byUser) ==
    \/ /\ clock /\ window
       /\ BackOff /\ Stale /\ Finish
    \/ /\ ~clock \/ (~window /\ byUser)
       /\ Finish
       /\ UNCHANGED <<timer, view>>
    \/ /\ clock /\ ~window
       /\ Begin("today")
       /\ UNCHANGED <<timer, view>>

ManualRefresh ==
    /\ Gate /\ ~PollDue /\ ManualDue
    /\ manual' = FALSE
    /\ StartToday(TRUE)
    /\ UNCHANGED <<queue, wifiVars, code, grant, codeRetry, active, client,
                   llmOpen, worldVars>>

BeginRound ==
    /\ Gate /\ ~PollDue /\ ~ManualDue /\ RoundWanted
    /\ client' = IF client.left > 0 THEN client ELSE RoundBegun
    /\ \/ /\ active' = TRUE
          /\ timer' = [timer EXCEPT !.round = "due"]
          /\ UNCHANGED view
       \/ /\ client.left = 0                                   \* not saved
          /\ Stale /\ BackOff /\ UNCHANGED active
    /\ Finish
    /\ UNCHANGED <<queue, wifiVars, code, grant, codeRetry, manual, llmOpen,
                   worldVars>>

\* A round whose date has passed starts over; one with nothing left just ends;
\* one whose account is gone stays due, and nothing is done.
DayStart ==
    /\ Gate /\ ~PollDue /\ ~ManualDue /\ ~RoundWanted /\ RoundDue
    /\ \/ ~client.auth /\ Finish /\ UNCHANGED <<client, active, timer, view>>
       \/ /\ client.auth /\ window
          /\ timer' = [timer EXCEPT !.round = "wait"]
          /\ Stale /\ Finish
          /\ UNCHANGED <<client, active>>
       \/ /\ client.auth /\ ~window
          /\ client' = IF client.anchored THEN client ELSE RoundBegun
          /\ IF client'.left > 0
             THEN Begin("day") /\ UNCHANGED <<active, view>>
             ELSE Finish /\ active' = FALSE /\ view' = Snapshot(client)
          /\ UNCHANGED timer
    /\ UNCHANGED <<queue, wifiVars, code, grant, codeRetry, manual, llmOpen,
                   worldVars>>

RefreshStart ==
    /\ Gate /\ ~PollDue /\ ~ManualDue /\ ~RoundWanted /\ ~RoundDue /\ RefreshDue
    /\ StartToday(FALSE)
    /\ UNCHANGED <<queue, wifiVars, code, grant, codeRetry, manual, active,
                   client, llmOpen, worldVars>>

Retry == Gate /\ ~PollDue /\ ~ManualDue /\ ~RoundWanted /\ ~RoundDue
            /\ ~RefreshDue /\ RetryDue

RetryTime ==
    /\ Retry /\ ~clock
    /\ TimeReady("off") \/ TimeFailed
    /\ Finish
    /\ UNCHANGED <<queue, wifiVars, code, grant, manual, active, client,
                   llmOpen, daily, window>>

\* start_device_link forgets every deadline, also those of a linked account.
CodeStart ==
    /\ Retry /\ clock /\ (~client.auth \/ codeRetry)
    /\ ClearLink({}, FALSE)
    /\ OnlyAskLink
    /\ Begin("code")
    /\ UNCHANGED <<queue, wifiVars, client, llmOpen, worldVars>>

RetryToday ==
    /\ Retry /\ clock /\ client.auth /\ ~codeRetry
    /\ IF window
       THEN BackOff /\ Stale /\ Finish
       ELSE /\ timer' = [timer EXCEPT !.retry = "off"]
            /\ Begin("today") /\ UNCHANGED view
    /\ UNCHANGED <<queue, wifiVars, code, grant, codeRetry, manual, active, client,
                   llmOpen, worldVars>>

(***************************************************************************)
(* Answers.  A request that was cancelled never has its answer used.       *)
(***************************************************************************)
CodeIssued ==
    /\ pc = "code" /\ ~cancelled /\ client.ready
    /\ code' = "live" /\ grant' = "pending"
    /\ timer' = [timer EXCEPT !.poll = "wait", !.retry = "off"]
    /\ codeRetry' = FALSE
    /\ Finish
    /\ UNCHANGED <<queue, wifiVars, manual, active, client, view, llmOpen,
                   worldVars>>

CodeFailed ==
    /\ pc = "code"
    /\ codeRetry' = TRUE
    /\ BackOff
    /\ OnlyAskLink
    /\ Finish
    /\ UNCHANGED <<queue, wifiVars, code, grant, manual, active, client,
                   llmOpen, worldVars>>

PollPending ==
    /\ pc = "poll" /\ ~cancelled /\ grant = "pending"
    /\ timer' = [timer EXCEPT !.poll = "wait"]
    /\ Finish
    /\ UNCHANGED <<queue, wifiVars, code, grant, codeRetry, manual, active,
                   client, view, llmOpen, worldVars>>

\* No answer, a cancelled one, or a credential that could not be stored: the
\* server may have handed the credential out all the same.
PollFailed ==
    /\ pc = "poll"
    /\ grant' \in {grant} \union (IF grant = "approved" THEN {"delivered"} ELSE {})
    /\ client' \in {client} \union (IF grant = "approved" /\ ~cancelled
                                    THEN {[client EXCEPT !.stored = TRUE]} ELSE {})
    /\ client' # client => grant' = "delivered"
    /\ timer' = [timer EXCEPT !.poll = "wait"]
    /\ Stale
    /\ Finish
    /\ UNCHANGED <<queue, wifiVars, code, codeRetry, manual, active, llmOpen,
                   worldVars>>

PollLinked ==
    /\ pc = "poll" /\ ~cancelled /\ grant = "approved"
    /\ client' = [NoAccount EXCEPT !.auth = TRUE, !.stored = TRUE]
    /\ ClearLink({"refresh"}, FALSE)
    /\ Finish
    /\ UNCHANGED <<queue, wifiVars, view, llmOpen, worldVars>>

PollRefused ==
    /\ pc = "poll" /\ ~cancelled /\ grant \in {"refused", "delivered"}
    /\ ClearLink({}, FALSE)
    /\ OnlyAskLink
    /\ Finish
    /\ UNCHANGED <<queue, wifiVars, client, llmOpen, worldVars>>

\* The client after a day of usage was stored: today's takes today out of a
\* round or drops a round of an earlier date, a round's own day is one less.
WithToday(c) == {[c EXCEPT !.cached = TRUE, !.anchored = TRUE, !.left = n] :
                    n \in IF c.anchored THEN {c.left, IF c.left > 0 THEN c.left - 1 ELSE 0}
                          ELSE {0}}
WithDay(c) == [c EXCEPT !.cached = TRUE, !.left = @ - 1]

\* With days missing a round is queued; if that cannot be saved there is none.
TodayFetched ==
    /\ pc = "today" /\ ~cancelled
    /\ view' = [shown |-> TRUE, askLink |-> FALSE]
    /\ \E c \in WithToday(client) :
          \/ /\ client' = c
             /\ timer' = [timer EXCEPT !.refresh = "wait", !.retry = "off"]
             /\ UNCHANGED active
          \/ /\ client' = [c EXCEPT !.left = RoundDays]
             /\ timer' = [timer EXCEPT !.refresh = "wait", !.retry = "off", !.round = "wait"]
             /\ active' = TRUE
          \/ /\ client' = [c EXCEPT !.left = RoundDays]
             /\ timer' = [timer EXCEPT !.refresh = "wait", !.retry = "off"]
             /\ UNCHANGED active
    /\ Finish
    /\ UNCHANGED <<queue, wifiVars, code, grant, codeRetry, manual, llmOpen,
                   worldVars>>

\* No usable answer, or a day that could not be saved and stays in RAM.
TodayFailed ==
    /\ pc = "today"
    /\ client' \in {client} \union (IF cancelled THEN {} ELSE WithToday(client))
    /\ BackOff
    /\ Stale
    /\ Finish
    /\ window' \in {FALSE, client' = client}      \* a 429 opens it
    /\ UNCHANGED <<queue, wifiVars, code, grant, codeRetry, manual, active,
                   llmOpen, clock, daily>>

TodayRejected ==
    /\ pc = "today" /\ ~cancelled
    /\ client' \in Unlinked(client)
    /\ ClearLink({}, FALSE)
    /\ AskLink
    /\ Finish
    /\ window' = FALSE
    /\ UNCHANGED <<queue, wifiVars, llmOpen, clock, daily>>

DayFetched ==
    /\ pc = "day" /\ ~cancelled
    /\ client' = WithDay(client)
    /\ view' = Snapshot(client')
    /\ IF client'.left = 0
       THEN active' = FALSE /\ daily' = FALSE /\ UNCHANGED timer
       ELSE timer' = [timer EXCEPT !.round = "wait"] /\ UNCHANGED <<active, daily>>
    /\ Finish
    /\ UNCHANGED <<queue, wifiVars, code, grant, codeRetry, manual, llmOpen,
                   clock, window>>

DayFailed ==
    /\ pc = "day"
    /\ client' \in {client} \union (IF cancelled THEN {} ELSE {WithDay(client)})
    /\ active' = FALSE
    /\ BackOff
    /\ Stale
    /\ Finish
    /\ window' \in {FALSE, client' = client}      \* a 429 opens it
    /\ UNCHANGED <<queue, wifiVars, code, grant, codeRetry, manual, llmOpen,
                   clock, daily>>

\* The client drops the account; the controller takes it for any other failure.
DayRejected ==
    /\ pc = "day" /\ ~cancelled
    /\ client' \in Unlinked(client)
    /\ active' = FALSE
    /\ BackOff
    /\ Stale
    /\ Finish
    /\ window' = FALSE
    /\ UNCHANGED <<queue, wifiVars, code, grant, codeRetry, manual, llmOpen,
                   clock, daily>>

(***************************************************************************)
(* The rest of the device and the server.                                  *)
(***************************************************************************)
Cancelling == Intents \ {"Refresh", "Reconcile"}

\* vibe_cancel from another task reaches the request in flight only.
CancelRequest == cancelled' = (cancelled \/ pc \in Requests)

\* app_controller_dispatch.
Press(i) ==
    /\ Len(queue) < QueueDepth
    /\ queue' = Append(queue, i)
    /\ IF i \in Cancelling THEN CancelRequest ELSE UNCHANGED cancelled
    /\ UNCHANGED <<pc, wifiVars, linkVars, client, view, llmOpen, worldVars>>

\* The OK button held for a voice request takes the network for itself.
VoicePress ==
    /\ CancelRequest
    /\ UNCHANGED <<pc, queue, wifiVars, linkVars, client, view, llmOpen,
                   worldVars>>

\* wifi_event_callback for the station getting and losing its address.
GetsAddress ==
    /\ ~radio /\ Len(queue) < QueueDepth
    /\ radio' = TRUE
    /\ queue' = Append(queue, "GotIp")
    /\ UNCHANGED <<pc, cancelled, online, timePending, linkVars, client, view,
                   llmOpen, worldVars>>

LosesAddress ==
    /\ radio /\ Len(queue) < QueueDepth
    /\ radio' = FALSE
    /\ queue' = Append(queue, "Disconnected")
    /\ CancelRequest
    /\ UNCHANGED <<pc, online, timePending, linkVars, client, view, llmOpen,
                   worldVars>>

TimerDue(t) ==
    /\ timer[t] = "wait"
    /\ timer' = [timer EXCEPT ![t] = "due"]
    /\ UNCHANGED <<pc, queue, cancelled, wifiVars, code, grant, codeRetry,
                   manual, active, client, view, llmOpen, worldVars>>

CodeLapses ==
    /\ code = "live"
    /\ code' = "expired"
    /\ UNCHANGED <<pc, queue, cancelled, wifiVars, timer, grant, codeRetry,
                   manual, active, client, view, llmOpen, worldVars>>

\* The user approves or denies the code in a browser, or the server drops it.
Decide ==
    /\ code # "none" /\ grant = "pending"
    /\ grant' \in {"approved", "refused"}
    /\ UNCHANGED <<pc, queue, cancelled, wifiVars, timer, code, codeRetry,
                   manual, active, client, view, llmOpen, worldVars>>

WindowEnds ==
    /\ window
    /\ window' = FALSE
    /\ UNCHANGED <<pc, queue, cancelled, wifiVars, linkVars, client, view, llmOpen,
                   clock, daily>>

\* The date changes, and later the hour of the daily round comes.
Midnight ==
    /\ client.anchored
    /\ client' = [client EXCEPT !.anchored = FALSE]
    /\ UNCHANGED <<pc, queue, cancelled, wifiVars, linkVars, view, llmOpen,
                   worldVars>>

RoundHour ==
    /\ clock /\ ~daily
    /\ daily' = TRUE
    /\ UNCHANGED <<pc, queue, cancelled, wifiVars, linkVars, client, view,
                   llmOpen, clock, window>>

Deadlines ==
    \/ NoCommand \/ SetupExpires \/ NothingDue \/ SyncTime \/ CodeExpired
    \/ PollStart \/ ManualRefresh \/ BeginRound \/ DayStart \/ RefreshStart
    \/ RetryTime \/ CodeStart \/ RetryToday

Answer ==
    \/ CodeIssued \/ CodeFailed
    \/ PollPending \/ PollFailed \/ PollLinked \/ PollRefused
    \/ TodayFetched \/ TodayFailed \/ TodayRejected
    \/ DayFetched \/ DayFailed \/ DayRejected

Environment ==
    \/ \E i \in Intents : Press(i)
    \/ VoicePress \/ GetsAddress \/ LosesAddress
    \/ \E t \in Timers : TimerDue(t)
    \/ CodeLapses \/ Decide \/ WindowEnds
    \/ Midnight \/ RoundHour

Next == Handle \/ Deadlines \/ Answer \/ Environment

Spec == Init /\ [][Next]_vars

\* The task is never starved, every request ends (connect, read and total
\* timeouts) and deadlines pass.  Reminders due within 40 seconds do not stop
\* the usage work every time.
Work == Deadlines /\ ~NoCommand /\ ~NothingDue /\ ~SetupExpires

FairSpec ==
    /\ Spec
    /\ WF_vars(Handle \/ NoCommand \/ NothingDue \/ Answer)
    /\ SF_vars(Work)
    /\ \A t \in Timers : WF_vars(TimerDue(t))
    /\ WF_vars(CodeLapses) /\ WF_vars(WindowEnds)

-------------------------------------------------------------------------------
(* Properties.                                                             *)

Client == [auth : BOOLEAN, stored : BOOLEAN, ready : BOOLEAN, cached : BOOLEAN,
           left : 0..RoundDays, anchored : BOOLEAN]

\* Every variable holds a value the controller can hold.
TypeOK ==
    /\ pc \in {"wait", "due"} \union Requests
    /\ queue \in Seq(Commands)
    /\ cancelled \in BOOLEAN
    /\ radio \in BOOLEAN /\ online \in BOOLEAN /\ timePending \in BOOLEAN
    /\ clock \in BOOLEAN /\ daily \in BOOLEAN /\ window \in BOOLEAN
    /\ codeRetry \in BOOLEAN /\ manual \in BOOLEAN /\ active \in BOOLEAN
    /\ llmOpen \in BOOLEAN
    /\ timer \in [Timers -> {"off", "wait", "due"}]
    /\ code \in {"none", "live", "expired"}
    /\ grant \in {"pending", "approved", "refused", "delivered"}
    /\ client \in Client
    /\ view \in [shown : BOOLEAN, askLink : BOOLEAN]

\* A linked device that is online and has looked at its clock has its next
\* fetch ahead: a refresh or a retry deadline, a request for today in flight,
\* or a link code the user asked for meanwhile.
Scheduled ==
    client.auth /\ online /\ ~timePending =>
        \/ timer.refresh # "off" \/ timer.retry # "off"
        \/ code # "none"
        \/ pc \in {"today", "code"}

\* The automatic refresh is never lost (clear_public_link and schedule_retry
\* both switch it off), except by a timezone change that was not saved or that
\* comes while the clock is not set, and by the end of a link code that was
\* asked for over a linked account: those leave a linked device with nothing
\* to wait for.
ScheduleKept ==
    [][ Scheduled /\ ~Scheduled' =>
            \/ TimezoneNotSaved \/ (TimezoneSaved /\ ~clock)
            \/ CodeExpired \/ PollRefused ]_vars

\* An account that is lost takes its usage off the screen in the same step,
\* except when a day of a round is answered 401 or a factory reset stops
\* half-way: reconcile_one and the reset handler leave the old numbers there.
DataHiddenOnLoss ==
    [][ client.auth /\ ~client'.auth /\ view'.shown => DayRejected \/ ResetFailed ]_vars

\* docs/architecture.md: a 401 hides the data held in RAM.
HiddenAfter401 ==
    [][ client.auth /\ ~client'.auth /\ pc \in {"today", "day"} => ~view'.shown ]_vars

\* Once nothing interferes any more and no link code is wanted, usage is asked
\* for again and again: the seven-day round, its retries and its daily start do
\* not crowd it out.
Calm == client.auth /\ online /\ ~timePending /\ clock /\ ~llmOpen
          /\ queue = <<>> /\ code = "none" /\ ~codeRetry /\ Scheduled
CalmRefreshes ==
    <>[]Calm /\ <>[][~Midnight /\ ~RoundHour]_vars => []<>(pc = "today")

\* A link code on screen does not stay there: it is approved, refused or
\* expires, and the controller notices.
Open == online /\ ~timePending /\ ~llmOpen /\ queue = <<>>
LinkConcludes == <>[]Open => [](code # "none" => <>(code = "none"))

===============================================================================
