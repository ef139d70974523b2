------------------------------- MODULE WifiLink -------------------------------
(***************************************************************************)
(* Who owns the radio.  Four threads meet here: the controller task, which *)
(* opens and closes the station and the setup portal; the task of the      *)
(* portal's "exit" page, which closes the portal on its own; the driver's  *)
(* event task, which runs WifiStation; and the esp_timer of the ten-minute *)
(* setup window.  They share WifiManager, whose mutex is given up before   *)
(* every notification, and a queue that drops what does not fit.           *)
(*                                                                         *)
(* A call of the adapter is a program: a sequence of critical sections and *)
(* notifications, each one step, run by the task that made the call.  What *)
(* the controller does with its usage work is in module Controller.        *)
(***************************************************************************)
EXTENDS Naturals, Sequences

CONSTANTS
    MaxReconnect,  \* MAX_RECONNECT_COUNT (5 in the code)
    MaxSaved,      \* networks one scan tries at most (10 in the code)
    QueueDepth     \* commands the queue holds (20 in the code)

ASSUME WifiConstants ==
    /\ MaxReconnect \in Nat
    /\ MaxSaved \in Nat \ {0}
    /\ QueueDepth \in Nat \ {0}

VARIABLES
    creds,       \* the saved list is not empty
    inRange,     \* a saved network can be reached
    station,     \* WifiStation, "off" when station_active_ is false
    tries,       \* reconnect_count_
    others,      \* networks left in connect_queue_
    portal,      \* config_mode_active_
    portalTimer, \* the setup window's timer is armed
    queue,       \* the controller's commands
    prog,        \* what is left of the call each task is in
    online,      \* s_controller.online
    life,        \* view.lifecycle, as far as Wi-Fi decides it
    shutting,    \* s_controller.shutting_down
    ready,       \* APP_SHUTDOWN_READY_BIT
    lost,        \* an event did not fit into the queue (history)
    late         \* the exit page reported after the controller had moved on (history)

stationVars == <<inRange, station, tries, others>>
portalVars == <<portal, portalTimer, late>>
viewVars == <<online, life>>
stopVars == <<shutting, ready>>
vars == <<creds, stationVars, portalVars, queue, lost, prog, viewVars, stopVars>>

Tasks == {"controller", "exit"}
Events == {"Trying", "GotIp", "Disconnected", "PortalEnter", "PortalExit", "Timeout"}
Commands == Events \union {"Boot", "StartWifi", "CloseSetup", "Shutdown"}
Steps == {"StationStop", "StationStart", "StationOpen", "ApStop", "ApStart", "ApOpen",
          "TimerStop", "TimerStart", "Ready"} \union Events

Idle == \A t \in Tasks : prog[t] = <<>>

(***************************************************************************)
(* The calls of wifi_adapter.cc, as programs.                              *)
(***************************************************************************)
StartStation == IF creds THEN <<"StationStart">> ELSE <<>>
StopStation == <<"StationStop">>
UntimedProvisioning == <<"ApStart">>
StartProvisioning == <<"TimerStop", "TimerStart", "ApStart">>
StopProvisioning == <<"TimerStop", "ApStop">>

\* wifi_event_callback: an event that finds the queue full is gone.
Post(event) ==
    IF Len(queue) < QueueDepth
    THEN queue' = Append(queue, event) /\ UNCHANGED lost
    ELSE lost' = TRUE /\ UNCHANGED queue

Init ==
    /\ creds \in BOOLEAN
    /\ inRange \in BOOLEAN
    /\ station = "off" /\ tries = 0 /\ others = 0
    /\ portal = FALSE /\ portalTimer = FALSE /\ late = FALSE
    /\ queue = <<"Boot">> /\ lost = FALSE
    /\ prog = [t \in Tasks |-> <<>>]
    /\ online = FALSE /\ life = "boot"
    /\ shutting = FALSE /\ ready = FALSE

(***************************************************************************)
(* The controller task takes a command; its handler sets the view and      *)
(* leaves the adapter's calls to be run before the next command is taken.  *)
(***************************************************************************)
Take(command) ==
    /\ prog["controller"] = <<>>
    /\ queue # <<>> /\ Head(queue) = command
    /\ queue' = Tail(queue)

Run(calls) == prog' = [prog EXCEPT !["controller"] = calls]

HandleBoot ==
    /\ Take("Boot")
    /\ Run(IF creds THEN StartStation ELSE StartProvisioning)
    /\ life' = IF creds THEN "connecting" ELSE "provisioning"
    /\ UNCHANGED <<creds, stationVars, portalVars, lost, online, stopVars>>

\* START_WIFI and RECONFIGURE_WIFI; LLM_CONFIG joins them when it is offline.
HandleStartWifi ==
    /\ Take("StartWifi") /\ ~shutting
    /\ online' = FALSE
    /\ life' = "provisioning"
    /\ Run(StopStation \o StartProvisioning)
    /\ UNCHANGED <<creds, stationVars, portalVars, lost, stopVars>>

\* LLM_CONFIG_CLOSE.
HandleCloseSetup ==
    /\ Take("CloseSetup") /\ ~shutting
    /\ Run(IF portal THEN StopProvisioning ELSE <<>>)
    /\ UNCHANGED <<creds, stationVars, portalVars, lost, viewVars, stopVars>>

EventTakenAnyway(event) == Take(event)
\* handle_wifi_event begins with the test of shutting_down.
EventTaken(event) == Take(event) /\ ~shutting

HandleTrying ==
    /\ EventTaken("Trying")
    /\ life' = "connecting"
    /\ UNCHANGED <<creds, stationVars, portalVars, lost, prog, online, stopVars>>

HandleGotIp ==
    /\ EventTaken("GotIp")
    /\ online' = TRUE
    /\ life' = "up"
    /\ UNCHANGED <<creds, stationVars, portalVars, lost, prog, stopVars>>

HandleDisconnectedOnScreen ==
    /\ EventTaken("Disconnected")
    /\ life' = "connecting"
    /\ UNCHANGED <<creds, stationVars, portalVars, lost, prog, online, stopVars>>
HandleDisconnected ==
    /\ EventTaken("Disconnected")
    /\ online' = FALSE
    /\ life' = "connecting"
    /\ UNCHANGED <<creds, stationVars, portalVars, lost, prog, stopVars>>

HandlePortalEnter ==
    /\ EventTaken("PortalEnter")
    /\ online' = FALSE
    /\ life' = "provisioning"
    /\ UNCHANGED <<creds, stationVars, portalVars, lost, prog, stopVars>>

HandlePortalExitOnScreen ==
    /\ EventTaken("PortalExit")
    /\ life' = IF creds THEN "connecting" ELSE "required"
    /\ UNCHANGED <<creds, stationVars, portalVars, lost, prog, online, stopVars>>
HandlePortalExit ==
    /\ EventTaken("PortalExit")
    /\ life' = IF creds THEN "connecting" ELSE "required"
    /\ Run(StartStation)
    /\ UNCHANGED <<creds, stationVars, portalVars, lost, online, stopVars>>

HandleTimeout ==
    /\ EventTaken("Timeout")
    /\ Run(StopProvisioning)
    /\ UNCHANGED <<creds, stationVars, portalVars, lost, viewVars, stopVars>>

HandleShutdown ==
    /\ Take("Shutdown")
    /\ shutting' = TRUE
    /\ Run(StopProvisioning \o StopStation \o <<"Ready">>)
    /\ life' = "sleep"
    /\ UNCHANGED <<creds, stationVars, portalVars, lost, online, ready>>

\* What is taken after shutting_down is set falls on the floor.
Ignore ==
    /\ shutting /\ queue # <<>> /\ Head(queue) \notin {"Boot", "Shutdown"}
    /\ Take(Head(queue))
    /\ UNCHANGED <<creds, stationVars, portalVars, lost, prog, viewVars, stopVars>>

(***************************************************************************)
(* WifiManager: one critical section or notification of task t's call.     *)
(***************************************************************************)
Step(t, step) == prog[t] # <<>> /\ Head(prog[t]) = step
Continue(t, then) == prog' = [prog EXCEPT ![t] = then \o Tail(@)]

StationOff == station' = "off" /\ tries' = 0 /\ others' = 0 /\ UNCHANGED inRange
StationOn == station' = "starting" /\ tries' = 0 /\ others' = 0 /\ UNCHANGED inRange

MStationStop(t) ==
    /\ Step(t, "StationStop")
    /\ IF station = "off"
       THEN Continue(t, <<>>) /\ UNCHANGED stationVars
       ELSE Continue(t, <<"Disconnected">>) /\ StationOff
    /\ UNCHANGED <<creds, portalVars, queue, lost, viewVars, stopVars>>

MStationStartBeside(t) ==
    /\ Step(t, "StationStart")
    /\ Continue(t, IF station # "off" THEN <<>> ELSE <<"StationOpen">>)
    /\ UNCHANGED <<creds, stationVars, portalVars, queue, lost, viewVars, stopVars>>
\* StartStation closes an open portal first, and starts without looking again
\* once it has reported that.
MStationStart(t) ==
    /\ Step(t, "StationStart")
    /\ IF station # "off"
       THEN Continue(t, <<>>) /\ UNCHANGED portal
       ELSE IF portal
       THEN Continue(t, <<"PortalExit", "StationOpen">>) /\ portal' = FALSE
       ELSE Continue(t, <<"StationOpen">>) /\ UNCHANGED portal
    /\ UNCHANGED <<creds, stationVars, portalTimer, late, queue, lost, viewVars, stopVars>>

MStationOpen(t) ==
    /\ Step(t, "StationOpen") /\ Continue(t, <<>>)
    /\ StationOn
    /\ UNCHANGED <<creds, portalVars, queue, lost, viewVars, stopVars>>

MApStop(t) ==
    /\ Step(t, "ApStop")
    /\ IF portal
       THEN Continue(t, <<"PortalExit">>) /\ portal' = FALSE
       ELSE Continue(t, <<>>) /\ UNCHANGED portal
    /\ UNCHANGED <<creds, stationVars, portalTimer, late, queue, lost, viewVars, stopVars>>

MApStart(t) ==
    /\ Step(t, "ApStart")
    /\ IF portal
       THEN Continue(t, <<>>) /\ UNCHANGED stationVars
       ELSE IF station # "off"
       THEN Continue(t, <<"Disconnected", "ApOpen">>) /\ StationOff
       ELSE Continue(t, <<"ApOpen">>) /\ UNCHANGED stationVars
    /\ UNCHANGED <<creds, portalVars, queue, lost, viewVars, stopVars>>

MApOpen(t) ==
    /\ Step(t, "ApOpen") /\ Continue(t, <<"PortalEnter">>)
    /\ portal' = TRUE
    /\ UNCHANGED <<creds, stationVars, portalTimer, late, queue, lost, viewVars, stopVars>>

\* The adapter's callback: a closed portal needs no timer.  The report of the
\* exit page's task is late when the controller is already opening anew.
MNotify(t, event) ==
    /\ Step(t, event) /\ Continue(t, <<>>)
    /\ portalTimer' = (portalTimer /\ event # "PortalExit")
    /\ late' = (late \/ (t = "exit" /\ (portal \/ prog["controller"] # <<>>)))
    /\ Post(event)
    /\ UNCHANGED <<creds, stationVars, portal, viewVars, stopVars>>

MTimer(t) ==
    /\ Step(t, "TimerStop") \/ Step(t, "TimerStart")
    /\ portalTimer' = (Head(prog[t]) = "TimerStart")
    /\ Continue(t, <<>>)
    /\ UNCHANGED <<creds, stationVars, portal, late, queue, lost, viewVars, stopVars>>

MReady(t) ==
    /\ Step(t, "Ready") /\ Continue(t, <<>>)
    /\ online' = FALSE
    /\ ready' = TRUE
    /\ UNCHANGED <<creds, stationVars, portalVars, queue, lost, life, shutting>>

(***************************************************************************)
(* WifiStation, on the driver's event task.                                *)
(***************************************************************************)
StationStep == UNCHANGED <<creds, inRange, portalVars, prog, viewVars, stopVars>>
Silent == UNCHANGED <<queue, lost>>

StaStarted ==
    /\ station = "starting"
    /\ station' = "scanning" /\ UNCHANGED <<tries, others>>
    /\ Post("Trying") /\ StationStep

\* StartConnect takes the first of n saved networks, its count from zero.
Connect(n) == station' = "trying" /\ tries' = 0 /\ others' = n - 1
RestUnarmed == station' = "stuck" /\ UNCHANGED <<tries, others>>
Rest == station' = "resting" /\ UNCHANGED <<tries, others>>

ScanDone ==
    /\ station = "scanning" /\ creds
    /\ \E n \in 1..MaxSaved : Connect(n)
    /\ Post("Trying") /\ StationStep

\* No result to read, or nothing saved.
ScanUseless ==
    /\ station = "scanning"
    /\ Rest /\ Silent /\ StationStep

\* WIFI_EVENT_STA_DISCONNECTED: the same network again, the next one, or rest.
AttemptFailed ==
    /\ station = "trying" /\ tries < MaxReconnect
    /\ tries' = tries + 1 /\ UNCHANGED <<station, others>>
    /\ Silent /\ StationStep

NetworkGivenUp ==
    /\ station = "trying" /\ tries >= MaxReconnect /\ others > 0
    /\ Connect(others)
    /\ Post("Trying") /\ StationStep

AllGivenUp ==
    /\ station = "trying" /\ tries >= MaxReconnect /\ others = 0
    /\ Rest /\ Silent /\ StationStep

GetsAddress ==
    /\ station = "trying" /\ inRange
    /\ station' = "up" /\ tries' = 0 /\ others' = 0
    /\ Post("GotIp") /\ StationStep

LinkLost ==
    /\ station = "up"
    /\ IF tries < MaxReconnect THEN station' = "trying" /\ tries' = tries + 1
                               ELSE station' = "resting" /\ UNCHANGED tries
    /\ UNCHANGED others
    /\ Post("Disconnected") /\ StationStep

RestOver ==
    /\ station = "resting"
    /\ station' = "scanning" /\ UNCHANGED <<tries, others>>
    /\ Silent /\ StationStep

(***************************************************************************)
(* The world: buttons, the portal's pages, the window's end, the networks. *)
(***************************************************************************)
\* app_controller_dispatch refuses an intent once the stop is under way.
Press(intent) ==
    /\ ~shutting
    /\ Len(queue) < QueueDepth
    /\ queue' = Append(queue, intent)
    /\ UNCHANGED <<creds, stationVars, portalVars, lost, prog, viewVars, stopVars>>

\* app_controller_prepare_shutdown, again after a time-out if need be.
PrepareShutdown ==
    /\ Len(queue) < QueueDepth
    /\ ready' = FALSE
    /\ queue' = Append(queue, "Shutdown")
    /\ UNCHANGED <<creds, stationVars, portalVars, lost, prog, viewVars, shutting>>

PortalSaves ==
    /\ portal /\ creds' \in BOOLEAN
    /\ UNCHANGED <<stationVars, portalVars, queue, lost, prog, viewVars, stopVars>>

\* The exit page starts a task of its own (one at a time here).
WebExit ==
    /\ portal /\ prog["exit"] = <<>>
    /\ prog' = [prog EXCEPT !["exit"] = <<"ApStop">>]
    /\ UNCHANGED <<creds, stationVars, portalVars, queue, lost, viewVars, stopVars>>

WindowEnds ==
    /\ portalTimer
    /\ portalTimer' = FALSE
    /\ Post("Timeout")
    /\ UNCHANGED <<creds, stationVars, portal, late, prog, viewVars, stopVars>>

NetworkMoves ==
    /\ inRange' = ~inRange
    /\ UNCHANGED <<creds, station, tries, others, portalVars, queue, lost, prog, viewVars, stopVars>>

-----------------------------------------------------------------------------
Controller ==
    \/ HandleBoot \/ HandleStartWifi \/ HandleCloseSetup \/ HandleShutdown \/ Ignore
    \/ HandleTrying \/ HandleGotIp \/ HandleDisconnected
    \/ HandlePortalEnter \/ HandlePortalExit \/ HandleTimeout

Manager(t) ==
    \/ MStationStop(t) \/ MStationStart(t) \/ MStationOpen(t)
    \/ MApStop(t) \/ MApStart(t) \/ MApOpen(t) \/ MTimer(t) \/ MReady(t)
    \/ \E event \in Events : MNotify(t, event)

Station ==
    \/ StaStarted \/ ScanDone \/ ScanUseless \/ AttemptFailed \/ NetworkGivenUp
    \/ AllGivenUp \/ GetsAddress \/ LinkLost \/ RestOver

World ==
    \/ \E intent \in {"StartWifi", "CloseSetup"} : Press(intent)
    \/ PrepareShutdown \/ PortalSaves \/ WebExit \/ WindowEnds \/ NetworkMoves

Next == Controller \/ (\E t \in Tasks : Manager(t)) \/ Station \/ World

Spec == Init /\ [][Next]_vars

\* Every task runs on, the driver answers, and a network in range takes one of
\* infinitely many attempts.
FairSpec ==
    /\ Spec
    /\ WF_vars(Controller)
    /\ \A t \in Tasks : WF_vars(Manager(t))
    /\ WF_vars(StaStarted) /\ SF_vars(ScanDone)
    /\ WF_vars(AttemptFailed) /\ WF_vars(NetworkGivenUp) /\ WF_vars(AllGivenUp)
    /\ WF_vars(RestOver) /\ SF_vars(GetsAddress)

-----------------------------------------------------------------------------
(***************************************************************************)
(* Correctness.                                                            *)
(***************************************************************************)
\* The types; a station that is on is always waiting for its driver or its
\* timer, never for nothing.
TypeOK ==
    /\ creds \in BOOLEAN /\ inRange \in BOOLEAN
    /\ station \in {"off", "starting", "scanning", "trying", "up", "resting"}
    /\ tries \in 0..MaxReconnect /\ others \in 0..MaxSaved - 1
    /\ portal \in BOOLEAN /\ portalTimer \in BOOLEAN /\ late \in BOOLEAN
    /\ queue \in Seq(Commands) /\ Len(queue) <= QueueDepth
    /\ prog \in [Tasks -> Seq(Steps)]
    /\ online \in BOOLEAN /\ lost \in BOOLEAN
    /\ life \in {"boot", "connecting", "provisioning", "required", "up", "sleep"}
    /\ shutting \in BOOLEAN /\ ready \in BOOLEAN

\* The radio is never station and setup hotspot at once, although StartStation
\* and StartConfigAp both give the mutex up between closing the one and opening
\* the other.
OneMode == ~(portal /\ station # "off")

\* The setup hotspot does not stay open for ever: while it is open, its timer
\* runs, or the end of its window is on its way to the controller, or the
\* controller is about to close it.  Two losses are known: the end dropped by a
\* full queue, and the exit page's late report, which stops the timer of the
\* portal opened after the one it closed.
PortalBounded ==
    portal => \/ portalTimer \/ prog["controller"] # <<>> \/ lost \/ late
              \/ \E i \in DOMAIN queue : queue[i] \in {"Timeout", "Shutdown"}

\* Once the events are all handled the controller's "online" is the station's:
\* usage requests are made exactly while there is an address.
OnlineAgrees ==
    (Idle /\ queue = <<>> /\ ~lost) => (online <=> station = "up")

\* Once the events are all handled, the screen that says "connecting" has a
\* station at work behind it, and the one that shows the setup hotspot has a
\* hotspot: nobody waits in front of a screen for something that is not running.
ScreenTruthful ==
    (Idle /\ queue = <<>> /\ ~lost /\ ~late) =>
        /\ life = "connecting" => station # "off"
        /\ life = "provisioning" => portal

\* After the controller reports that the network is stopped, neither a queued
\* event, nor the portal's own task, nor a timer brings the radio back before
\* the power is cut.
QuietAfterReady == ready => station = "off" /\ ~portal

Promise == INSTANCE RadioPromise WITH
    on <- {mode \in {"station", "hotspot"} :
              IF mode = "station" THEN station # "off" ELSE portal},
    stopping <- shutting,
    stopped <- ready

\* The tasks that call WifiManager between its critical sections implement the
\* promise of RadioPromise: each mode is opened with the other closed, and from
\* the moment the controller handles the shutdown, before it reports anything,
\* no call, event or timer opens one again.
RadioImplemented == Promise!RadioSpec

\* A station that stays on with a saved network in range gets the controller
\* online, again and again, unless an event was dropped.
Connects == <>[](station # "off" /\ creds /\ inRange /\ ~lost) => []<>online

=============================================================================
