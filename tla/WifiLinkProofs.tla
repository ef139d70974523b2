---------------------------- MODULE WifiLinkProofs ----------------------------
(***************************************************************************)
(* TLAPS proofs about WifiLink, for any number of attempts, any list of    *)
(* networks and any length of the queue: station and hotspot are never     *)
(* both on, the hotspot's window ends, the controller and its screen agree *)
(* with the radio once the events are handled, and nothing turns the radio *)
(* on again after the stop.                                                *)
(*                                                                         *)
(* The argument goes by what the controller's call has still to do: each   *)
(* call and each rest of one has a name, and the invariant says for each   *)
(* what is true of the radio while it is under way.                        *)
(*                                                                         *)
(* The last part is about the saved networks (WifiCredentials).            *)
(***************************************************************************)
EXTENDS WifiLink, WifiCredentials, TLAPS, SequenceTheorems, FiniteSetTheorems, FunctionTheorems

Call == prog["controller"]
ExitCall == prog["exit"]

Nothing == <<>>

\* start_station.
Start == <<"StationStart">>
StartAfterPortal == <<"PortalExit", "StationOpen">>
StartOpen == <<"StationOpen">>

\* Provisioning, after the station has been stopped or at boot.
Switch == <<"StationStop", "TimerStop", "TimerStart", "ApStart">>
SwitchTell == <<"Disconnected", "TimerStop", "TimerStart", "ApStart">>
Provision == <<"TimerStop", "TimerStart", "ApStart">>
ProvisionArm == <<"TimerStart", "ApStart">>
Hotspot == <<"ApStart">>
HotspotTell == <<"Disconnected", "ApOpen">>
HotspotOpen == <<"ApOpen">>
HotspotTold == <<"PortalEnter">>

\* The end of the setup.
Close == <<"TimerStop", "ApStop">>
CloseAp == <<"ApStop">>
CloseTell == <<"PortalExit">>

\* The stop before the power is cut.
Stop == <<"TimerStop", "ApStop", "StationStop", "Ready">>
StopAp == <<"ApStop", "StationStop", "Ready">>
StopApTell == <<"PortalExit", "StationStop", "Ready">>
StopSta == <<"StationStop", "Ready">>
StopStaTell == <<"Disconnected", "Ready">>
StopReady == <<"Ready">>

Switching == {Switch, SwitchTell, Provision, ProvisionArm}
Opening == {HotspotTell, HotspotOpen, HotspotTold}
Provisioning == Switching \union {Hotspot} \union Opening
Starting == {Start, StartAfterPortal, StartOpen}
Closing == {Close, CloseAp, CloseTell}
Stopping == {Stop, StopAp, StopApTell, StopSta, StopStaTell, StopReady}
Programs == {Nothing} \union Starting \union Provisioning \union Closing \union Stopping

\* The page's own task only ever closes the portal.
Calls ==
    /\ prog \in [Tasks -> Programs]
    /\ ExitCall \in {Nothing, CloseAp, CloseTell}

\* Only the start of the firmware posts BOOT, and before everything else.
BootFirst == \A i \in 1..Len(queue) : queue[i] = "Boot" => i = 1 /\ ~shutting

\* What a call found out before it gave the mutex up is still so when it goes
\* on: nobody else opens the portal or the station.
Radio ==
    /\ portal => station = "off"
    /\ Call \in {SwitchTell, StartAfterPortal, StartOpen} \union Opening => station = "off"
    /\ Call \in {SwitchTell, HotspotTell, HotspotOpen} => ~portal
    /\ Call \in {StartAfterPortal, StartOpen, CloseTell} => ~portal
    /\ Call \in {StopApTell, StopSta, StopStaTell, StopReady} => ~portal
    /\ Call \in {StopStaTell, StopReady} => station = "off"

Stopped ==
    /\ Call \in Stopping => shutting
    /\ shutting => Call \in Stopping \union {Nothing} /\ life = "sleep"
    /\ shutting /\ Call = Nothing => station = "off" /\ ~portal /\ ~online
    /\ ready => shutting /\ station = "off" /\ ~portal

-------------------------------------------------------------------------------
(* The queue: no event of some kinds, or the last one of them. *)

NoneOf(q, kinds) == \A i \in 1..Len(q) : q[i] \notin kinds
LastOf(q, kinds, e) ==
    /\ e \in kinds
    /\ \E i \in 1..Len(q) : q[i] = e /\ \A j \in (i + 1)..Len(q) : q[j] \notin kinds

\* The window ends, or its end is lost.
Ends ==
    portalTimer \/ lost \/ late \/ ~NoneOf(queue, {"Timeout", "Shutdown"})

Window ==
    /\ portal /\ Call = Nothing => Ends
    /\ Call \in {Hotspot} \union Opening => Ends

\* What "online" will be when the queue is handled.
OnlineKinds == {"GotIp", "Disconnected", "PortalEnter"}
OnlineSoon ==
    \/ LastOf(queue, OnlineKinds, "GotIp")
    \/ NoneOf(queue, OnlineKinds) /\ online

Online ==
    ~lost /\ ~shutting =>
        /\ station # "up" /\ Call \notin {SwitchTell, HotspotTell} => ~OnlineSoon
        /\ station = "up" /\ Call # Switch => OnlineSoon

\* What the screen will show when the queue is handled, as far as it depends on
\* nothing else.
LifeKinds == {"Trying", "GotIp", "Disconnected", "PortalEnter", "PortalExit"}
ConnectingSoon ==
    \/ LastOf(queue, LifeKinds, "Trying") \/ LastOf(queue, LifeKinds, "Disconnected")
    \/ NoneOf(queue, LifeKinds) /\ life = "connecting"
ProvisioningSoon ==
    \/ LastOf(queue, LifeKinds, "PortalEnter")
    \/ NoneOf(queue, LifeKinds) /\ life = "provisioning"

ConnectingBacked ==
    \/ station # "off"
    \/ Call \in Starting \union Opening \union {CloseTell}
    \/ Call \in Provisioning /\ ~portal
ProvisioningBacked ==
    \/ portal \/ ExitCall = CloseTell
    \/ Call \in Switching \union {Hotspot, HotspotTell, HotspotOpen}
    \/ Call \in {CloseTell, StartAfterPortal}

Screen ==
    ~lost /\ ~late /\ ~shutting =>
        /\ ConnectingSoon => ConnectingBacked
        /\ ProvisioningSoon => ProvisioningBacked
        /\ Call = HotspotTold => portal \/ ExitCall = CloseTell

IInv ==
    TypeOK /\ Calls /\ BootFirst /\ Radio /\ Stopped /\ Window /\ Online /\ Screen

USE DEF stationVars, portalVars, viewVars, stopVars


LEMMA PostedIsLast ==
    ASSUME NEW q \in Seq(Commands), NEW e \in Commands, NEW kinds, NEW x
    PROVE  /\ Append(q, e) \in Seq(Commands)
           /\ NoneOf(Append(q, e), kinds) <=> NoneOf(q, kinds) /\ e \notin kinds
           /\ e \in kinds => (LastOf(Append(q, e), kinds, x) <=> x = e)
           /\ e \notin kinds => (LastOf(Append(q, e), kinds, x) <=> LastOf(q, kinds, x))
  <1> DEFINE r == Append(q, e)
  <1>1. /\ r \in Seq(Commands) /\ Len(r) = Len(q) + 1 /\ Len(q) \in Nat
        /\ \A i \in 1..Len(q) : r[i] = q[i]
        /\ r[Len(q) + 1] = e
    BY AppendProperties
  <1> HIDE DEF r
  <1>2. NoneOf(r, kinds) <=> NoneOf(q, kinds) /\ e \notin kinds
    BY <1>1 DEF NoneOf
  <1>3. e \in kinds => (LastOf(r, kinds, x) <=> x = e)
    BY <1>1 DEF LastOf
  <1>4. e \notin kinds => (LastOf(r, kinds, x) <=> LastOf(q, kinds, x))
    BY <1>1 DEF LastOf
  <1> QED  BY <1>1, <1>2, <1>3, <1>4 DEF r

LEMMA TakenIsFirst ==
    ASSUME NEW q \in Seq(Commands), q # <<>>, NEW kinds, NEW x
    PROVE  /\ Tail(q) \in Seq(Commands)
           /\ NoneOf(q, kinds) <=> NoneOf(Tail(q), kinds) /\ Head(q) \notin kinds
           /\ LastOf(q, kinds, x) <=>
                \/ LastOf(Tail(q), kinds, x)
                \/ NoneOf(Tail(q), kinds) /\ Head(q) = x /\ x \in kinds
  <1> DEFINE r == Tail(q)
  <1>1. /\ r \in Seq(Commands) /\ Len(q) = Len(r) + 1 /\ Len(r) \in Nat
        /\ \A i \in 1..Len(r) : r[i] = q[i + 1]
        /\ q[1] = Head(q)
    BY HeadTailProperties
  <1> HIDE DEF r
  <1>0. \A j \in 2..Len(q) : q[j] = r[j - 1] /\ j - 1 \in 1..Len(r)  BY <1>1
  <1>2. NoneOf(q, kinds) <=> NoneOf(r, kinds) /\ Head(q) \notin kinds
    <2>1. ASSUME NoneOf(q, kinds)
          PROVE  NoneOf(r, kinds) /\ Head(q) \notin kinds
      <3>1. 1 \in 1..Len(q) /\ \A i \in 1..Len(r) : i + 1 \in 1..Len(q)
        BY <1>1
      <3> QED  BY <1>1, <2>1, <3>1 DEF NoneOf
    <2>2. ASSUME NoneOf(r, kinds), Head(q) \notin kinds
          PROVE  NoneOf(q, kinds)
      <3> SUFFICES ASSUME NEW i \in 1..Len(q)
                   PROVE  q[i] \notin kinds
        BY DEF NoneOf
      <3>1. CASE i = 1  BY <1>1, <2>2, <3>1
      <3>2. CASE i # 1
        <4>1. i \in 2..Len(q)  BY <1>1, <3>2
        <4> QED  BY <1>0, <2>2, <4>1 DEF NoneOf
      <3> QED  BY <3>1, <3>2
    <2> QED  BY <2>1, <2>2
  <1>3. ASSUME LastOf(r, kinds, x) PROVE LastOf(q, kinds, x)
    <2>1. PICK i \in 1..Len(r) :
               r[i] = x /\ \A j \in (i + 1)..Len(r) : r[j] \notin kinds
      BY <1>3 DEF LastOf
    <2>2. i + 1 \in 1..Len(q) /\ q[i + 1] = x  BY <1>1, <2>1
    <2>3. \A j \in (i + 2)..Len(q) : q[j] \notin kinds
      <3> TAKE j \in (i + 2)..Len(q)
      <3>1. j \in 2..Len(q) /\ j - 1 \in (i + 1)..Len(r)  BY <1>1
      <3> QED  BY <1>0, <2>1, <3>1
    <2> QED  BY <1>1, <1>3, <2>2, <2>3 DEF LastOf
  <1>4. ASSUME NoneOf(r, kinds), Head(q) = x, x \in kinds PROVE LastOf(q, kinds, x)
    BY <1>1, <1>0, <1>4 DEF LastOf, NoneOf
  <1>5. ASSUME LastOf(q, kinds, x), ~LastOf(r, kinds, x)
        PROVE  NoneOf(r, kinds) /\ Head(q) = x /\ x \in kinds
    <2>1. PICK i \in 1..Len(q) :
               q[i] = x /\ \A j \in (i + 1)..Len(q) : q[j] \notin kinds
      BY <1>5 DEF LastOf
    <2>2. CASE i = 1  BY <1>1, <1>5, <2>1, <2>2 DEF LastOf, NoneOf
    <2>3. CASE i # 1
      <3>1. i - 1 \in 1..Len(r) /\ r[i - 1] = x  BY <1>1, <1>0, <2>1, <2>3
      <3>2. \A j \in i..Len(r) : r[j] \notin kinds  BY <1>1, <2>1
      <3> QED  BY <1>5, <3>1, <3>2 DEF LastOf
    <2> QED  BY <2>2, <2>3
  <1> QED  BY <1>1, <1>2, <1>3, <1>4, <1>5 DEF r

-------------------------------------------------------------------------------
(* What a posted and a taken event do to the parts of the invariant *)

LEMMA CommandsAre ==
    Commands = {"Trying", "GotIp", "Disconnected", "PortalEnter", "PortalExit",
                "Timeout", "Boot", "StartWifi", "CloseSetup", "Shutdown"}
  BY DEF Commands, Events

\* What joins the queue, an event or a command, goes to its end.
Joins(e) == Len(queue) < QueueDepth /\ queue' = Append(queue, e)

LEMMA PostsOrLoses ==
    ASSUME TypeOK, NEW e, Post(e)
    PROVE  \/ Joins(e) /\ lost' = lost
           \/ queue' = queue /\ lost'
  BY DEF Post, Joins

LEMMA JoinsQueue ==
    ASSUME TypeOK, NEW e \in Commands, Joins(e)
    PROVE  queue' \in Seq(Commands) /\ Len(queue') <= QueueDepth
  <1>1. queue \in Seq(Commands) /\ QueueDepth \in Nat
    BY WifiConstants DEF TypeOK
  <1>2. Len(queue') = Len(queue) + 1 /\ Len(queue) \in Nat
    BY <1>1, AppendProperties DEF Joins
  <1>3. queue' \in Seq(Commands)  BY <1>1, PostedIsLast DEF Joins
  <1> QED  BY <1>1, <1>2, <1>3 DEF Joins

LEMMA JoinsBootFirst ==
    ASSUME TypeOK, BootFirst, NEW e \in Commands \ {"Boot"}, Joins(e),
           UNCHANGED shutting
    PROVE  BootFirst'
  <1>1. queue \in Seq(Commands)  BY DEF TypeOK
  <1>2. /\ Len(queue') = Len(queue) + 1 /\ Len(queue) \in Nat
        /\ \A i \in 1..Len(queue) : queue'[i] = queue[i]
        /\ queue'[Len(queue) + 1] = e
    BY <1>1, AppendProperties DEF Joins
  <1> QED  BY <1>2 DEF BootFirst

LEMMA JoinsEnds ==
    ASSUME TypeOK, NEW e \in Commands, Joins(e), UNCHANGED lost, late => late'
    PROVE  /\ Ends /\ (portalTimer => portalTimer') => Ends'
           /\ e \in {"Timeout", "Shutdown"} => Ends'
  <1>1. queue \in Seq(Commands) /\ queue' = Append(queue, e)  BY DEF TypeOK, Joins
  <1>2. \A kinds : NoneOf(queue', kinds) <=> NoneOf(queue, kinds) /\ e \notin kinds
    BY <1>1, PostedIsLast
  <1> QED  BY <1>2 DEF Ends

LEMMA JoinsOnline ==
    ASSUME TypeOK, NEW e \in Commands, Joins(e), UNCHANGED online
    PROVE  /\ e \notin OnlineKinds => (OnlineSoon' <=> OnlineSoon)
           /\ e = "GotIp" => OnlineSoon'
           /\ e \in {"Disconnected", "PortalEnter"} => ~OnlineSoon'
  <1>1. queue \in Seq(Commands) /\ queue' = Append(queue, e)  BY DEF TypeOK, Joins
  <1>2. NoneOf(queue', OnlineKinds) <=> NoneOf(queue, OnlineKinds) /\ e \notin OnlineKinds
    BY <1>1, PostedIsLast
  <1>3. LastOf(queue', OnlineKinds, "GotIp")
            <=> IF e \in OnlineKinds THEN e = "GotIp"
                                     ELSE LastOf(queue, OnlineKinds, "GotIp")
    BY <1>1, PostedIsLast
  <1> QED  BY <1>2, <1>3 DEF OnlineSoon, OnlineKinds

LEMMA JoinsLife ==
    ASSUME TypeOK, NEW e \in Commands, Joins(e), UNCHANGED life
    PROVE  /\ e \notin LifeKinds => /\ ConnectingSoon' <=> ConnectingSoon
                                    /\ ProvisioningSoon' <=> ProvisioningSoon
           /\ e \in LifeKinds \ {"Trying", "Disconnected"} => ~ConnectingSoon'
           /\ e \in LifeKinds \ {"PortalEnter"} => ~ProvisioningSoon'
  <1>1. queue \in Seq(Commands) /\ queue' = Append(queue, e)  BY DEF TypeOK, Joins
  <1>2. NoneOf(queue', LifeKinds) <=> NoneOf(queue, LifeKinds) /\ e \notin LifeKinds
    BY <1>1, PostedIsLast
  <1>3. \A x : LastOf(queue', LifeKinds, x)
                 <=> IF e \in LifeKinds THEN e = x ELSE LastOf(queue, LifeKinds, x)
    BY <1>1, PostedIsLast
  <1>4. CASE e \notin LifeKinds
    BY <1>2, <1>3, <1>4 DEF ConnectingSoon, ProvisioningSoon
  <1>5. CASE e \in LifeKinds
    BY <1>2, <1>3, <1>5 DEF ConnectingSoon, ProvisioningSoon
  <1> QED  BY <1>4, <1>5

LEMMA TakesQueue ==
    ASSUME TypeOK, NEW command, Take(command)
    PROVE  /\ queue' \in Seq(Commands) /\ Len(queue') <= QueueDepth
           /\ command \in Commands
  <1>1. queue \in Seq(Commands) /\ queue # <<>> /\ QueueDepth \in Nat
        /\ Len(queue) <= QueueDepth
    BY WifiConstants DEF TypeOK, Take
  <1>2. /\ Tail(queue) \in Seq(Commands) /\ Len(Tail(queue)) = Len(queue) - 1
        /\ Len(queue) \in Nat /\ Head(queue) \in Commands
    BY <1>1, HeadTailProperties
  <1> QED  BY <1>1, <1>2 DEF Take

LEMMA TakesBootFirst ==
    ASSUME TypeOK, BootFirst, NEW command, Take(command),
           shutting' => shutting \/ command # "Boot"
    PROVE  BootFirst'
  <1>1. queue \in Seq(Commands) /\ queue # <<>>  BY DEF TypeOK, Take
  <1>2. /\ Len(queue) = Len(queue') + 1 /\ Len(queue') \in Nat
        /\ \A i \in 1..Len(queue') : queue'[i] = queue[i + 1]
    BY <1>1, HeadTailProperties DEF Take
  <1>3. \A i \in 1..Len(queue') : queue[i + 1] # "Boot"
    BY <1>2 DEF BootFirst
  <1> QED  BY <1>2, <1>3 DEF BootFirst

LEMMA TakesEnds ==
    ASSUME TypeOK, NEW command, Take(command), UNCHANGED <<portalTimer, lost, late>>,
           command \notin {"Timeout", "Shutdown"}
    PROVE  Ends' <=> Ends
  <1>1. queue \in Seq(Commands) /\ queue # <<>>  BY DEF TypeOK, Take
  <1> QED  BY <1>1, TakenIsFirst DEF Take, Ends

LEMMA TakesOnline ==
    ASSUME TypeOK, NEW command, Take(command)
    PROVE  /\ command \notin OnlineKinds /\ online' = online => (OnlineSoon' <=> OnlineSoon)
           /\ command = "GotIp" /\ online' => (OnlineSoon' <=> OnlineSoon)
           /\ command \in {"Disconnected", "PortalEnter"} /\ ~online'
                => (OnlineSoon' <=> OnlineSoon)
           /\ ~online' => (OnlineSoon' => OnlineSoon)
  <1>1. queue \in Seq(Commands) /\ queue # <<>>  BY DEF TypeOK, Take
  <1> QED  BY <1>1, TakenIsFirst DEF Take, OnlineSoon, OnlineKinds

LEMMA TakesLife ==
    ASSUME TypeOK, NEW command, Take(command)
    PROVE  /\ \/ life' # "connecting"
              \/ command \in {"Trying", "Disconnected"}
              \/ command \notin LifeKinds /\ life' = life
              => (ConnectingSoon' => ConnectingSoon)
           /\ \/ life' # "provisioning"
              \/ command = "PortalEnter"
              \/ command \notin LifeKinds /\ life' = life
              => (ProvisioningSoon' => ProvisioningSoon)
  <1>1. queue \in Seq(Commands) /\ queue # <<>>  BY DEF TypeOK, Take
  <1> QED
    BY <1>1, TakenIsFirst
    DEF Take, ConnectingSoon, ProvisioningSoon, LifeKinds

-------------------------------------------------------------------------------
(* The calls, step by step *)

\* What each rest of a call does next, and how many steps it still has: enough
\* to tell them apart.
LEMMA Heads ==
    /\ Head(Start) = "StationStart" /\ Head(StartAfterPortal) = "PortalExit"
    /\ Head(StartOpen) = "StationOpen"
    /\ Head(Switch) = "StationStop" /\ Head(SwitchTell) = "Disconnected"
    /\ Head(Provision) = "TimerStop" /\ Head(ProvisionArm) = "TimerStart"
    /\ Head(Hotspot) = "ApStart" /\ Head(HotspotTell) = "Disconnected"
    /\ Head(HotspotOpen) = "ApOpen" /\ Head(HotspotTold) = "PortalEnter"
    /\ Head(Close) = "TimerStop" /\ Head(CloseAp) = "ApStop"
    /\ Head(CloseTell) = "PortalExit"
    /\ Head(Stop) = "TimerStop" /\ Head(StopAp) = "ApStop"
    /\ Head(StopApTell) = "PortalExit" /\ Head(StopSta) = "StationStop"
    /\ Head(StopStaTell) = "Disconnected" /\ Head(StopReady) = "Ready"
  BY DEF Start, StartAfterPortal, StartOpen, Switch, SwitchTell, Provision,
         ProvisionArm, Hotspot, HotspotTell, HotspotOpen, HotspotTold, Close,
         CloseAp, CloseTell, Stop, StopAp, StopApTell, StopSta, StopStaTell,
         StopReady

LEMMA Lengths ==
    /\ Len(Nothing) = 0
    /\ Len(Start) = 1 /\ Len(StartAfterPortal) = 2 /\ Len(StartOpen) = 1
    /\ Len(Switch) = 4 /\ Len(SwitchTell) = 4 /\ Len(Provision) = 3
    /\ Len(ProvisionArm) = 2 /\ Len(Hotspot) = 1 /\ Len(HotspotTell) = 2
    /\ Len(HotspotOpen) = 1 /\ Len(HotspotTold) = 1
    /\ Len(Close) = 2 /\ Len(CloseAp) = 1 /\ Len(CloseTell) = 1
    /\ Len(Stop) = 4 /\ Len(StopAp) = 3 /\ Len(StopApTell) = 3
    /\ Len(StopSta) = 2 /\ Len(StopStaTell) = 2 /\ Len(StopReady) = 1
    /\ StopStaTell # HotspotTell
  BY DEF Nothing, Start, StartAfterPortal, StartOpen, Switch, SwitchTell,
         Provision, ProvisionArm, Hotspot, HotspotTell, HotspotOpen,
         HotspotTold, Close, CloseAp, CloseTell, Stop, StopAp, StopApTell,
         StopSta, StopStaTell, StopReady

\* The calls that begin alike.
LEMMA Distinct ==
    /\ Start # Nothing /\ StartAfterPortal # Nothing /\ StartOpen # Nothing
    /\ Switch # Nothing /\ SwitchTell # Nothing /\ Provision # Nothing
    /\ ProvisionArm # Nothing /\ Hotspot # Nothing /\ HotspotTell # Nothing
    /\ HotspotOpen # Nothing /\ HotspotTold # Nothing
    /\ Close # Nothing /\ CloseAp # Nothing /\ CloseTell # Nothing
    /\ Stop # Nothing /\ StopAp # Nothing /\ StopApTell # Nothing
    /\ StopSta # Nothing /\ StopStaTell # Nothing /\ StopReady # Nothing
    /\ Switch # StopSta /\ CloseAp # StopAp
    /\ SwitchTell # HotspotTell /\ SwitchTell # StopStaTell
    /\ HotspotTell # StopStaTell
    /\ Provision # Close /\ Provision # Stop /\ Close # Stop
    /\ StartAfterPortal # CloseTell /\ StartAfterPortal # StopApTell
    /\ CloseTell # StopApTell
  <1>1. /\ Len(Start) # Len(Nothing) /\ Len(StartAfterPortal) # Len(Nothing)
        /\ Len(StartOpen) # Len(Nothing) /\ Len(Switch) # Len(Nothing)
        /\ Len(SwitchTell) # Len(Nothing) /\ Len(Provision) # Len(Nothing)
        /\ Len(ProvisionArm) # Len(Nothing) /\ Len(Hotspot) # Len(Nothing)
        /\ Len(HotspotTell) # Len(Nothing) /\ Len(HotspotOpen) # Len(Nothing)
    BY Lengths
  <1>2. /\ Len(HotspotTold) # Len(Nothing) /\ Len(Close) # Len(Nothing)
        /\ Len(CloseAp) # Len(Nothing) /\ Len(CloseTell) # Len(Nothing)
        /\ Len(Stop) # Len(Nothing) /\ Len(StopAp) # Len(Nothing)
        /\ Len(StopApTell) # Len(Nothing) /\ Len(StopSta) # Len(Nothing)
        /\ Len(StopStaTell) # Len(Nothing) /\ Len(StopReady) # Len(Nothing)
    BY Lengths
  <1>3. /\ Len(Switch) # Len(StopSta) /\ Len(CloseAp) # Len(StopAp)
        /\ Len(SwitchTell) # Len(HotspotTell) /\ Len(SwitchTell) # Len(StopStaTell)
        /\ Len(Provision) # Len(Close)
    BY Lengths
  <1>4. /\ Len(Provision) # Len(Stop) /\ Len(Close) # Len(Stop)
        /\ Len(StartAfterPortal) # Len(CloseTell) /\ Len(StartAfterPortal) # Len(StopApTell)
        /\ Len(CloseTell) # Len(StopApTell)
    BY Lengths
  <1>5. HotspotTell # StopStaTell  BY Lengths
  <1> QED  BY <1>1, <1>2, <1>3, <1>4, <1>5, Zenon

LEMMA Tails ==
    /\ Tail(Start) = Nothing /\ Tail(StartAfterPortal) = StartOpen
    /\ Tail(StartOpen) = Nothing
    /\ Tail(Switch) = Provision /\ Tail(SwitchTell) = Provision
    /\ Tail(Provision) = ProvisionArm /\ Tail(ProvisionArm) = Hotspot
    /\ Tail(Hotspot) = Nothing /\ Tail(HotspotTell) = HotspotOpen
    /\ Tail(HotspotOpen) = Nothing /\ Tail(HotspotTold) = Nothing
    /\ Tail(Close) = CloseAp /\ Tail(CloseAp) = Nothing /\ Tail(CloseTell) = Nothing
    /\ Tail(Stop) = StopAp /\ Tail(StopAp) = StopSta /\ Tail(StopApTell) = StopSta
    /\ Tail(StopSta) = StopReady /\ Tail(StopStaTell) = StopReady
    /\ Tail(StopReady) = Nothing
  <1>1. /\ Tail(Start) = Nothing /\ Tail(StartAfterPortal) = StartOpen
        /\ Tail(StartOpen) = Nothing
    BY DEF Nothing, Start, StartAfterPortal, StartOpen
  <1>2. Tail(Switch) = Provision  BY Z3 DEF Switch, Provision
  <1>3. Tail(SwitchTell) = Provision  BY Z3 DEF SwitchTell, Provision
  <1>4. Tail(Provision) = ProvisionArm /\ Tail(ProvisionArm) = Hotspot
    BY DEF Provision, ProvisionArm, Hotspot
  <1>5. /\ Tail(Hotspot) = Nothing /\ Tail(HotspotTell) = HotspotOpen
        /\ Tail(HotspotOpen) = Nothing /\ Tail(HotspotTold) = Nothing
    BY DEF Nothing, Hotspot, HotspotTell, HotspotOpen, HotspotTold
  <1>6. /\ Tail(Close) = CloseAp /\ Tail(CloseAp) = Nothing
        /\ Tail(CloseTell) = Nothing
    BY DEF Nothing, Close, CloseAp, CloseTell
  <1>7. Tail(Stop) = StopAp  BY Z3 DEF Stop, StopAp
  <1>8. Tail(StopAp) = StopSta /\ Tail(StopApTell) = StopSta
    BY DEF StopAp, StopApTell, StopSta
  <1>9. /\ Tail(StopSta) = StopReady /\ Tail(StopStaTell) = StopReady
        /\ Tail(StopReady) = Nothing
    BY DEF Nothing, StopSta, StopStaTell, StopReady
  <1> QED  BY <1>1, <1>2, <1>3, <1>4, <1>5, <1>6, <1>7, <1>8, <1>9

LEMMA ProgramsAreSequences == Programs \subseteq Seq(Steps)
  <1>1. Nothing \in Seq(Steps)  BY DEF Nothing
  <1>2. Start \in Seq(Steps)  BY DEF Start, Steps
  <1>3. StartAfterPortal \in Seq(Steps)  BY DEF StartAfterPortal, Steps, Events
  <1>4. StartOpen \in Seq(Steps)  BY DEF StartOpen, Steps
  <1>5. Switch \in Seq(Steps)  BY DEF Switch, Steps
  <1>6. SwitchTell \in Seq(Steps)  BY DEF SwitchTell, Steps, Events
  <1>7. Provision \in Seq(Steps)  BY DEF Provision, Steps
  <1>8. ProvisionArm \in Seq(Steps)  BY DEF ProvisionArm, Steps
  <1>9. Hotspot \in Seq(Steps)  BY DEF Hotspot, Steps
  <1>10. HotspotTell \in Seq(Steps)  BY DEF HotspotTell, Steps, Events
  <1>11. HotspotOpen \in Seq(Steps)  BY DEF HotspotOpen, Steps
  <1>12. HotspotTold \in Seq(Steps)  BY DEF HotspotTold, Steps, Events
  <1>13. Close \in Seq(Steps)  BY DEF Close, Steps
  <1>14. CloseAp \in Seq(Steps)  BY DEF CloseAp, Steps
  <1>15. CloseTell \in Seq(Steps)  BY DEF CloseTell, Steps, Events
  <1>16. Stop \in Seq(Steps)  BY DEF Stop, Steps
  <1>17. StopAp \in Seq(Steps)  BY DEF StopAp, Steps
  <1>18. StopApTell \in Seq(Steps)  BY DEF StopApTell, Steps, Events
  <1>19. StopSta \in Seq(Steps)  BY DEF StopSta, Steps
  <1>20. StopStaTell \in Seq(Steps)  BY DEF StopStaTell, Steps, Events
  <1>21. StopReady \in Seq(Steps)  BY DEF StopReady, Steps
  <1> QED
    BY <1>1, <1>2, <1>3, <1>4, <1>5, <1>6, <1>7, <1>8, <1>9, <1>10, <1>11,
       <1>12, <1>13, <1>14, <1>15, <1>16, <1>17, <1>18, <1>19, <1>20, <1>21
    DEF Programs, Starting, Provisioning, Switching, Opening, Closing, Stopping

\* A sequence is its head before its tail.
LEMMA HeadBeforeTail ==
    ASSUME NEW u \in Seq(Steps), u # <<>>
    PROVE  <<Head(u)>> \o Tail(u) = u
  <1> DEFINE x == Head(u)
             t == Tail(u)
  <1>1. /\ x \in Steps /\ t \in Seq(Steps) /\ Len(u) = Len(t) + 1 /\ Len(t) \in Nat
        /\ x = u[1] /\ \A i \in 1..Len(t) : t[i] = u[i + 1]
    BY HeadTailProperties
  <1> HIDE DEF x, t
  <1>2. <<x>> \in Seq(Steps) /\ Len(<<x>>) = 1 /\ <<x>>[1] = x  BY <1>1
  <1>3. /\ <<x>> \o t \in Seq(Steps) /\ Len(<<x>> \o t) = Len(u)
        /\ \A i \in 1..Len(u) :
              (<<x>> \o t)[i] = IF i <= 1 THEN <<x>>[i] ELSE t[i - 1]
    BY <1>1, <1>2, ConcatProperties
  <1>4. \A i \in 1..Len(u) : (<<x>> \o t)[i] = u[i]
    <2> TAKE i \in 1..Len(u)
    <2>1. CASE i = 1  BY <2>1, <1>1, <1>2, <1>3
    <2>2. CASE i # 1
      <3>1. i - 1 \in 1..Len(t) /\ (i - 1) + 1 = i  BY <2>2, <1>1
      <3>2. t[i - 1] = u[i]  BY <3>1, <1>1
      <3> QED  BY <2>2, <3>1, <3>2, <1>1, <1>3
    <2> QED  BY <2>1, <2>2
  <1>5. <<x>> \o t = u  BY <1>1, <1>3, <1>4, SeqEqual
  <1> QED  BY <1>5 DEF x, t

\* The rest after a step that adds nothing, and after those that add to it.
LEMMA Added ==
    /\ \A p \in Programs : <<>> \o p = p
    /\ <<"Disconnected">> \o Provision = SwitchTell
    /\ <<"Disconnected">> \o StopReady = StopStaTell
    /\ <<"PortalExit">> \o StopSta = StopApTell
    /\ <<"StationOpen">> \o Nothing = StartOpen
    /\ <<"PortalExit", "StationOpen">> \o Nothing = StartAfterPortal
    /\ <<"PortalExit">> \o Nothing = CloseTell
    /\ <<"Disconnected", "ApOpen">> \o Nothing = HotspotTell
    /\ <<"ApOpen">> \o Nothing = HotspotOpen
    /\ <<"PortalEnter">> \o Nothing = HotspotTold
  <1>1. \A p \in Programs : <<>> \o p = p /\ p \o Nothing = p
    BY ProgramsAreSequences, ConcatEmptySeq DEF Nothing
  <1>2. \A p \in Programs \ {Nothing} : <<Head(p)>> \o Tail(p) = p
    BY ProgramsAreSequences, HeadBeforeTail DEF Nothing
  <1>3. {SwitchTell, StopStaTell, StopApTell} \subseteq Programs \ {Nothing}
    BY Lengths DEF Programs, Provisioning, Switching, Stopping
  <1>4. /\ <<"Disconnected">> \o Provision = SwitchTell
        /\ <<"Disconnected">> \o StopReady = StopStaTell
        /\ <<"PortalExit">> \o StopSta = StopApTell
    <2>1. <<Head(SwitchTell)>> \o Tail(SwitchTell) = SwitchTell  BY <1>2, <1>3
    <2>2. <<Head(StopStaTell)>> \o Tail(StopStaTell) = StopStaTell  BY <1>2, <1>3
    <2>3. <<Head(StopApTell)>> \o Tail(StopApTell) = StopApTell  BY <1>2, <1>3
    <2> QED  BY <2>1, <2>2, <2>3, Heads, Tails
  <1>5. {StartOpen, StartAfterPortal, CloseTell, HotspotTell, HotspotOpen, HotspotTold}
            \subseteq Programs
    BY DEF Programs, Starting, Closing, Provisioning, Opening
  <1>6. /\ StartOpen \o Nothing = StartOpen
        /\ StartAfterPortal \o Nothing = StartAfterPortal
        /\ CloseTell \o Nothing = CloseTell
        /\ HotspotTell \o Nothing = HotspotTell
        /\ HotspotOpen \o Nothing = HotspotOpen
        /\ HotspotTold \o Nothing = HotspotTold
    BY <1>1, <1>5
  <1> QED
    BY <1>1, <1>4, <1>6, Zenon
    DEF StartOpen, StartAfterPortal, CloseTell, HotspotTell, HotspotOpen, HotspotTold

\* What the handlers start, in the words of the source.
LEMMA HandlersRun ==
    /\ StartStation = IF creds THEN Start ELSE Nothing
    /\ StartProvisioning = Provision /\ StopProvisioning = Close
    /\ StopStation \o StartProvisioning = Switch
    /\ StopProvisioning \o StopStation \o <<"Ready">> = Stop
  <1>1. /\ StartStation = IF creds THEN Start ELSE Nothing
        /\ StartProvisioning = Provision /\ StopProvisioning = Close
    BY Zenon DEF StartStation, StartProvisioning, StopProvisioning, Start,
           Nothing, Provision, Close
  <1>2. \A p \in Programs \ {Nothing} : <<Head(p)>> \o Tail(p) = p
    BY ProgramsAreSequences, HeadBeforeTail DEF Nothing
  <1>3. {Switch, Stop, StopAp, StopSta, Close} \subseteq Programs \ {Nothing}
    <2>1. {Switch, Stop, StopAp, StopSta, Close} \subseteq Programs
      BY Zenon DEF Programs, Provisioning, Switching, Stopping, Closing
    <2>2. Switch # Nothing /\ Stop # Nothing /\ StopAp # Nothing
      BY Lengths
    <2>3. StopSta # Nothing /\ Close # Nothing
      BY Lengths
    <2> QED  BY <2>1, <2>2, <2>3, Zenon
  <1>4. <<"StationStop">> \o Provision = Switch
    <2>1. <<Head(Switch)>> \o Tail(Switch) = Switch  BY <1>2, <1>3
    <2> QED  BY <2>1, Heads, Tails
  <1>5. StopStation \o StartProvisioning = Switch
    BY <1>1, <1>4, Zenon DEF StopStation
  <1>6. Close \o <<"StationStop">> \o <<"Ready">> = Stop
    <2>1. <<Head(StopSta)>> \o Tail(StopSta) = StopSta  BY <1>2, <1>3
    <2>2. <<Head(StopAp)>> \o Tail(StopAp) = StopAp  BY <1>2, <1>3
    <2>3. <<Head(Stop)>> \o Tail(Stop) = Stop  BY <1>2, <1>3
    <2>4. <<Head(Close)>> \o Tail(Close) = Close  BY <1>2, <1>3
    <2>5. <<"StationStop">> \o <<"Ready">> = StopSta
      BY <2>1, Heads, Tails DEF StopReady
    <2>6. Close = <<"TimerStop">> \o <<"ApStop">>
      BY <2>4, Heads, Tails DEF CloseAp
    <2>7. /\ Close \in Seq(Steps) /\ <<"TimerStop">> \in Seq(Steps)
          /\ <<"ApStop">> \in Seq(Steps) /\ <<"StationStop">> \in Seq(Steps)
          /\ <<"Ready">> \in Seq(Steps)
      <3>1. Close \in Seq(Steps)  BY <1>3, ProgramsAreSequences
      <3>2. <<"TimerStop">> \in Seq(Steps)  BY DEF Steps
      <3>3. <<"ApStop">> \in Seq(Steps)  BY DEF Steps
      <3>4. <<"StationStop">> \in Seq(Steps)  BY DEF Steps
      <3>5. <<"Ready">> \in Seq(Steps)  BY DEF Steps
      <3> QED  BY <3>1, <3>2, <3>3, <3>4, <3>5, Zenon
    <2>8. (Close \o <<"StationStop">>) \o <<"Ready">> = Close \o StopSta
      <3>1. (Close \o <<"StationStop">>) \o <<"Ready">>
                = Close \o (<<"StationStop">> \o <<"Ready">>)
        BY <2>7, ConcatAssociative
      <3> QED  BY <2>5, <3>1, Zenon
    <2>9. StopSta \in Seq(Steps)  BY <1>3, ProgramsAreSequences
    <2>10. Close \o StopSta = <<"TimerStop">> \o (<<"ApStop">> \o StopSta)
      <3>1. (<<"TimerStop">> \o <<"ApStop">>) \o StopSta
                = <<"TimerStop">> \o (<<"ApStop">> \o StopSta)
        BY <2>7, <2>9, ConcatAssociative
      <3> QED  BY <2>6, <3>1, Zenon
    <2>11. <<"ApStop">> \o StopSta = StopAp /\ <<"TimerStop">> \o StopAp = Stop
      BY <2>2, <2>3, Heads, Tails
    <2> QED  BY <2>8, <2>10, <2>11
  <1>7. StopProvisioning \o StopStation \o <<"Ready">> = Stop
    BY <1>1, <1>6, Zenon DEF StopStation
  <1> QED  BY <1>1, <1>5, <1>7

\* Where the controller's call is when it makes a step.
LEMMA CallAt ==
    ASSUME Calls
    PROVE  /\ Step("controller", "StationStop") => Call \in {Switch, StopSta}
           /\ Step("controller", "StationStart") => Call = Start
           /\ Step("controller", "StationOpen") => Call = StartOpen
           /\ Step("controller", "ApStop") => Call \in {CloseAp, StopAp}
           /\ Step("controller", "ApStart") => Call = Hotspot
           /\ Step("controller", "ApOpen") => Call = HotspotOpen
           /\ Step("controller", "TimerStop") => Call \in {Provision, Close, Stop}
           /\ Step("controller", "TimerStart") => Call = ProvisionArm
           /\ Step("controller", "Ready") => Call = StopReady
           /\ Step("controller", "Disconnected")
                => Call \in {SwitchTell, HotspotTell, StopStaTell}
           /\ Step("controller", "PortalEnter") => Call = HotspotTold
           /\ Step("controller", "PortalExit")
                => Call \in {StartAfterPortal, CloseTell, StopApTell}
           /\ ~Step("controller", "Trying") /\ ~Step("controller", "GotIp")
           /\ ~Step("controller", "Timeout")
  <1>1. Call \in Programs  BY DEF Calls, Call, Tasks
  <1>2. CASE Call = Nothing  BY <1>2 DEF Step, Call, Nothing
  <1>3. CASE Call \in Starting \union Closing
    BY <1>3, Heads DEF Step, Call, Starting, Closing
  <1>4. CASE Call \in Switching
    BY <1>4, Heads DEF Step, Call, Switching
  <1>5. CASE Call \in {Hotspot} \union Opening
    BY <1>5, Heads DEF Step, Call, Opening
  <1>6. CASE Call \in Stopping
    BY <1>6, Heads DEF Step, Call, Stopping
  <1> QED
    BY <1>1, <1>2, <1>3, <1>4, <1>5, <1>6 DEF Programs, Provisioning

LEMMA ExitCallAt ==
    ASSUME Calls, NEW step, Step("exit", step)
    PROVE  \/ step = "ApStop" /\ ExitCall = CloseAp
           \/ step = "PortalExit" /\ ExitCall = CloseTell
  BY Heads DEF Calls, ExitCall, Step, Nothing

LEMMA CallGoesOn ==
    ASSUME Calls, NEW then, Continue("controller", then),
           then \o Tail(Call) \in Programs
    PROVE  Calls' /\ Call' = then \o Tail(Call) /\ ExitCall' = ExitCall
  BY DEF Calls, Call, ExitCall, Continue, Tasks

LEMMA ExitCallGoesOn ==
    ASSUME Calls, NEW then, Continue("exit", then),
           then \o Tail(ExitCall) \in {Nothing, CloseAp, CloseTell}
    PROVE  Calls' /\ ExitCall' = then \o Tail(ExitCall) /\ Call' = Call
  <1>1. {Nothing, CloseAp, CloseTell} \subseteq Programs
    BY Zenon DEF Programs, Closing
  <1> QED  BY <1>1 DEF Calls, Call, ExitCall, Continue, Tasks

LEMMA AllPrograms ==
    /\ Nothing \in Programs
    /\ Start \in Programs /\ StartAfterPortal \in Programs /\ StartOpen \in Programs
    /\ Switch \in Programs /\ SwitchTell \in Programs /\ Provision \in Programs
    /\ ProvisionArm \in Programs /\ Hotspot \in Programs
    /\ HotspotTell \in Programs /\ HotspotOpen \in Programs
    /\ HotspotTold \in Programs
    /\ Close \in Programs /\ CloseAp \in Programs /\ CloseTell \in Programs
    /\ Stop \in Programs /\ StopAp \in Programs /\ StopApTell \in Programs
    /\ StopSta \in Programs /\ StopStaTell \in Programs /\ StopReady \in Programs
  BY Zenon DEF Programs, Starting, Provisioning, Switching, Opening, Closing, Stopping

LEMMA StationStopMoves ==
    ASSUME Calls, MStationStop("controller")
    PROVE  /\ Calls' /\ ExitCall' = ExitCall
           /\ station = "off" => \/ Call = Switch /\ Call' = Provision
                                 \/ Call = StopSta /\ Call' = StopReady
           /\ station # "off" => \/ Call = Switch /\ Call' = SwitchTell
                                 \/ Call = StopSta /\ Call' = StopStaTell
  <1>1. Call \in {Switch, StopSta}  BY CallAt DEF MStationStop
  <1>2. CASE station = "off"
    <2>1. <<>> \o Tail(Call) = IF Call = Switch THEN Provision ELSE StopReady
      BY <1>1, Tails, Added, AllPrograms
    <2>2. Continue("controller", <<>>)  BY <1>2 DEF MStationStop
    <2> QED  BY <1>1, <1>2, <2>1, <2>2, CallGoesOn, AllPrograms
  <1>3. CASE station # "off"
    <2>1. <<"Disconnected">> \o Tail(Call)
              = IF Call = Switch THEN SwitchTell ELSE StopStaTell
      BY <1>1, Tails, Added
    <2>2. Continue("controller", <<"Disconnected">>)  BY <1>3 DEF MStationStop
    <2> QED  BY <1>1, <1>3, <2>1, <2>2, CallGoesOn, AllPrograms
  <1> QED  BY <1>2, <1>3

LEMMA StationStartMoves ==
    ASSUME Calls, MStationStart("controller")
    PROVE  /\ Calls' /\ ExitCall' = ExitCall /\ Call = Start
           /\ station # "off" => Call' = Nothing
           /\ station = "off" /\ portal => Call' = StartAfterPortal
           /\ station = "off" /\ ~portal => Call' = StartOpen
  <1>1. Call = Start  BY CallAt DEF MStationStart
  <1>2. CASE station # "off"
    <2>1. <<>> \o Tail(Call) = Nothing /\ Nothing \in Programs
      BY <1>1, Tails, Added, AllPrograms
    <2>2. Continue("controller", <<>>)  BY <1>2 DEF MStationStart
    <2> QED  BY <1>1, <1>2, <2>1, <2>2, CallGoesOn
  <1>3. CASE station = "off" /\ portal
    <2>1. <<"PortalExit", "StationOpen">> \o Tail(Call) = StartAfterPortal /\ StartAfterPortal \in Programs
      BY <1>1, Tails, Added, AllPrograms
    <2>2. Continue("controller", <<"PortalExit", "StationOpen">>)  BY <1>3 DEF MStationStart
    <2> QED  BY <1>1, <1>3, <2>1, <2>2, CallGoesOn
  <1>4. CASE station = "off" /\ ~portal
    <2>1. <<"StationOpen">> \o Tail(Call) = StartOpen /\ StartOpen \in Programs
      BY <1>1, Tails, Added, AllPrograms
    <2>2. Continue("controller", <<"StationOpen">>)  BY <1>4 DEF MStationStart
    <2> QED  BY <1>1, <1>4, <2>1, <2>2, CallGoesOn
  <1> QED  BY <1>1, <1>2, <1>3, <1>4

LEMMA StationOpenMoves ==
    ASSUME Calls, MStationOpen("controller")
    PROVE  Calls' /\ ExitCall' = ExitCall /\ Call = StartOpen /\ Call' = Nothing
  <1>1. Call = StartOpen  BY CallAt DEF MStationOpen
  <1>2. <<>> \o Tail(Call) = Nothing /\ Nothing \in Programs
    BY <1>1, Tails, Added, AllPrograms
  <1>3. Continue("controller", <<>>)  BY DEF MStationOpen
  <1> QED  BY <1>1, <1>2, <1>3, CallGoesOn

LEMMA ApStopMoves ==
    ASSUME Calls, MApStop("controller")
    PROVE  /\ Calls' /\ ExitCall' = ExitCall
           /\ portal => \/ Call = CloseAp /\ Call' = CloseTell
                        \/ Call = StopAp /\ Call' = StopApTell
           /\ ~portal => \/ Call = CloseAp /\ Call' = Nothing
                         \/ Call = StopAp /\ Call' = StopSta
  <1>1. Call \in {CloseAp, StopAp}  BY CallAt DEF MApStop
  <1>2. CASE portal
    <2>1. <<"PortalExit">> \o Tail(Call)
              = IF Call = CloseAp THEN CloseTell ELSE StopApTell
      BY <1>1, Tails, Added
    <2>2. Continue("controller", <<"PortalExit">>)  BY <1>2 DEF MApStop
    <2> QED  BY <1>1, <1>2, <2>1, <2>2, CallGoesOn, AllPrograms
  <1>3. CASE ~portal
    <2>1. <<>> \o Tail(Call) = IF Call = CloseAp THEN Nothing ELSE StopSta
      BY <1>1, Tails, Added, AllPrograms
    <2>2. Continue("controller", <<>>)  BY <1>3 DEF MApStop
    <2> QED  BY <1>1, <1>3, <2>1, <2>2, CallGoesOn, AllPrograms
  <1> QED  BY <1>2, <1>3

LEMMA ApStartMoves ==
    ASSUME Calls, MApStart("controller")
    PROVE  /\ Calls' /\ ExitCall' = ExitCall /\ Call = Hotspot
           /\ portal => Call' = Nothing
           /\ ~portal /\ station # "off" => Call' = HotspotTell
           /\ ~portal /\ station = "off" => Call' = HotspotOpen
  <1>1. Call = Hotspot  BY CallAt DEF MApStart
  <1>2. CASE portal
    <2>1. <<>> \o Tail(Call) = Nothing /\ Nothing \in Programs
      BY <1>1, Tails, Added, AllPrograms
    <2>2. Continue("controller", <<>>)  BY <1>2 DEF MApStart
    <2> QED  BY <1>1, <1>2, <2>1, <2>2, CallGoesOn
  <1>3. CASE ~portal /\ station # "off"
    <2>1. <<"Disconnected", "ApOpen">> \o Tail(Call) = HotspotTell /\ HotspotTell \in Programs
      BY <1>1, Tails, Added, AllPrograms
    <2>2. Continue("controller", <<"Disconnected", "ApOpen">>)  BY <1>3 DEF MApStart
    <2> QED  BY <1>1, <1>3, <2>1, <2>2, CallGoesOn
  <1>4. CASE ~portal /\ station = "off"
    <2>1. <<"ApOpen">> \o Tail(Call) = HotspotOpen /\ HotspotOpen \in Programs
      BY <1>1, Tails, Added, AllPrograms
    <2>2. Continue("controller", <<"ApOpen">>)  BY <1>4 DEF MApStart
    <2> QED  BY <1>1, <1>4, <2>1, <2>2, CallGoesOn
  <1> QED  BY <1>1, <1>2, <1>3, <1>4

LEMMA ApOpenMoves ==
    ASSUME Calls, MApOpen("controller")
    PROVE  Calls' /\ ExitCall' = ExitCall /\ Call = HotspotOpen /\ Call' = HotspotTold
  <1>1. Call = HotspotOpen  BY CallAt DEF MApOpen
  <1>2. <<"PortalEnter">> \o Tail(Call) = HotspotTold /\ HotspotTold \in Programs
    BY <1>1, Tails, Added, AllPrograms
  <1>3. Continue("controller", <<"PortalEnter">>)  BY DEF MApOpen
  <1> QED  BY <1>1, <1>2, <1>3, CallGoesOn

LEMMA TimerMoves ==
    ASSUME Calls, MTimer("controller")
    PROVE  /\ Calls' /\ ExitCall' = ExitCall
           /\ \/ Call = Provision /\ Call' = ProvisionArm /\ portalTimer' = FALSE
              \/ Call = ProvisionArm /\ Call' = Hotspot /\ portalTimer' = TRUE
              \/ Call = Close /\ Call' = CloseAp /\ portalTimer' = FALSE
              \/ Call = Stop /\ Call' = StopAp /\ portalTimer' = FALSE
  <1>1. Call \in {Provision, ProvisionArm, Close, Stop}  BY CallAt DEF MTimer
  <1>2. Tail(Call) \in Programs  BY <1>1, Tails, AllPrograms
  <1>3. Continue("controller", <<>>)  BY DEF MTimer
  <1>4. <<>> \o Tail(Call) = Tail(Call)  BY <1>2, Added
  <1>5. Calls' /\ ExitCall' = ExitCall /\ Call' = Tail(Call)
    BY <1>2, <1>3, <1>4, CallGoesOn
  <1>6. portalTimer' = (Head(Call) = "TimerStart")  BY DEF MTimer, Call
  <1>7. CASE Call = Provision
    <2>1. Head(Call) = "TimerStop" /\ Tail(Call) = ProvisionArm
      BY <1>7, Heads, Tails
    <2> QED  BY <1>5, <1>6, <1>7, <2>1
  <1>8. CASE Call = ProvisionArm
    <2>1. Head(Call) = "TimerStart" /\ Tail(Call) = Hotspot
      BY <1>8, Heads, Tails
    <2> QED  BY <1>5, <1>6, <1>8, <2>1
  <1>9. CASE Call = Close
    <2>1. Head(Call) = "TimerStop" /\ Tail(Call) = CloseAp
      BY <1>9, Heads, Tails
    <2> QED  BY <1>5, <1>6, <1>9, <2>1
  <1>10. CASE Call = Stop
    <2>1. Head(Call) = "TimerStop" /\ Tail(Call) = StopAp
      BY <1>10, Heads, Tails
    <2> QED  BY <1>5, <1>6, <1>10, <2>1
  <1> QED  BY <1>1, <1>7, <1>8, <1>9, <1>10

LEMMA ReadyMoves ==
    ASSUME Calls, MReady("controller")
    PROVE  Calls' /\ ExitCall' = ExitCall /\ Call = StopReady /\ Call' = Nothing
  <1>1. Call = StopReady  BY CallAt DEF MReady
  <1>2. <<>> \o Tail(Call) = Nothing /\ Nothing \in Programs
    BY <1>1, Tails, Added, AllPrograms
  <1>3. Continue("controller", <<>>)  BY DEF MReady
  <1> QED  BY <1>1, <1>2, <1>3, CallGoesOn

LEMMA NotifyMoves ==
    ASSUME Calls, NEW event \in Events, MNotify("controller", event)
    PROVE  /\ Calls' /\ ExitCall' = ExitCall
           /\ \/ /\ event = "Disconnected"
                 /\ \/ Call = SwitchTell /\ Call' = Provision
                    \/ Call = HotspotTell /\ Call' = HotspotOpen
                    \/ Call = StopStaTell /\ Call' = StopReady
              \/ event = "PortalEnter" /\ Call = HotspotTold /\ Call' = Nothing
              \/ /\ event = "PortalExit"
                 /\ \/ Call = StartAfterPortal /\ Call' = StartOpen
                    \/ Call = CloseTell /\ Call' = Nothing
                    \/ Call = StopApTell /\ Call' = StopSta
  <1>1. \/ event = "Disconnected" /\ Call \in {SwitchTell, HotspotTell, StopStaTell}
        \/ event = "PortalEnter" /\ Call = HotspotTold
        \/ event = "PortalExit" /\ Call \in {StartAfterPortal, CloseTell, StopApTell}
    BY CallAt DEF MNotify, Events
  <1>2. Tail(Call) \in Programs  BY <1>1, Tails, AllPrograms
  <1>3. Continue("controller", <<>>)  BY DEF MNotify
  <1>4. Calls' /\ ExitCall' = ExitCall /\ Call' = Tail(Call)
    BY <1>2, <1>3, CallGoesOn, Added
  <1> QED  BY <1>1, <1>4, Tails

\* The exit page's task: close the portal, and report it.
LEMMA ExitMoves ==
    ASSUME Calls, Manager("exit")
    PROVE  /\ Calls' /\ Call' = Call
           /\ \/ /\ MApStop("exit") /\ ExitCall = CloseAp
                 /\ ExitCall' = IF portal THEN CloseTell ELSE Nothing
              \/ /\ MNotify("exit", "PortalExit") /\ ExitCall = CloseTell
                 /\ ExitCall' = Nothing
  <1>1. \/ MApStop("exit") /\ ExitCall = CloseAp
        \/ MNotify("exit", "PortalExit") /\ ExitCall = CloseTell
    <2>1. ASSUME NEW event \in Events, MNotify("exit", event)
          PROVE  event = "PortalExit" /\ ExitCall = CloseTell
      <3>1. Step("exit", event)  BY <2>1 DEF MNotify
      <3>2. event # "ApStop"  BY DEF Events
      <3> QED  BY <3>1, <3>2, ExitCallAt
    <2>2. MApStop("exit") => ExitCall = CloseAp  BY ExitCallAt DEF MApStop
    <2>0. \A step : Step("exit", step) => step \in {"ApStop", "PortalExit"}
      BY ExitCallAt
    <2>3. /\ ~MStationStop("exit") /\ ~MStationStart("exit")
          /\ ~MStationOpen("exit") /\ ~MApStart("exit") /\ ~MApOpen("exit")
          /\ ~MTimer("exit") /\ ~MReady("exit")
      BY <2>0 DEF MStationStop, MStationStart, MStationOpen, MApStart,
          MApOpen, MTimer, MReady
    <2> QED  BY <2>1, <2>2, <2>3 DEF Manager
  <1>2. CASE MApStop("exit") /\ ExitCall = CloseAp
    <2>1. Tail(ExitCall) = Nothing /\ <<>> \o Nothing = Nothing
          /\ <<"PortalExit">> \o Nothing = CloseTell
      BY <1>2, Tails, Added, AllPrograms
    <2>2. CASE portal
      <3>1. Continue("exit", <<"PortalExit">>)  BY <1>2, <2>2 DEF MApStop
      <3> QED  BY <1>2, <2>1, <2>2, <3>1, ExitCallGoesOn
    <2>3. CASE ~portal
      <3>1. Continue("exit", <<>>)  BY <1>2, <2>3 DEF MApStop
      <3> QED  BY <1>2, <2>1, <2>3, <3>1, ExitCallGoesOn
    <2> QED  BY <1>2, <2>2, <2>3
  <1>3. CASE MNotify("exit", "PortalExit") /\ ExitCall = CloseTell
    <2>1. Tail(ExitCall) = Nothing /\ <<>> \o Nothing = Nothing
      BY <1>3, Tails, Added, AllPrograms
    <2>2. Continue("exit", <<>>)  BY <1>3 DEF MNotify
    <2> QED  BY <1>3, <2>1, <2>2, ExitCallGoesOn
  <1> QED  BY <1>1, <1>2, <1>3

-------------------------------------------------------------------------------
(* The groups of actions: what each does to calls, queue and radio *)

LEMMA RunsCall ==
    ASSUME Calls, Call = Nothing, NEW calls \in Programs, Run(calls)
    PROVE  Calls' /\ Call' = calls /\ ExitCall' = ExitCall
  BY DEF Calls, Call, ExitCall, Run, Tasks

LEMMA ControllerMoves ==
    ASSUME Calls, Controller
    PROVE  /\ Calls' /\ ExitCall' = ExitCall /\ Call = Nothing
           /\ \/ HandleBoot /\ Call' = IF creds THEN Start ELSE Provision
              \/ HandleStartWifi /\ Call' = Switch
              \/ HandleCloseSetup /\ Call' = IF portal THEN Close ELSE Nothing
              \/ HandleShutdown /\ Call' = Stop
              \/ HandlePortalExit /\ Call' = IF creds THEN Start ELSE Nothing
              \/ HandleTimeout /\ Call' = Close
              \/ /\ Call' = Nothing
                 /\ \/ HandleTrying \/ HandleGotIp \/ HandleDisconnected
                    \/ HandlePortalEnter \/ Ignore
  <1>1. Call = Nothing
    BY DEF Controller, HandleBoot, HandleStartWifi, HandleCloseSetup,
           HandleShutdown, Ignore, HandleTrying, HandleGotIp,
           HandleDisconnected, HandlePortalEnter, HandlePortalExit,
           HandleTimeout, EventTaken, Take, Call, Nothing
  <1>2. ASSUME prog' = prog PROVE Calls' /\ ExitCall' = ExitCall /\ Call' = Call
    BY <1>2 DEF Calls, Call, ExitCall
  <1>3. CASE HandleBoot
    BY <1>1, <1>3, RunsCall, HandlersRun, AllPrograms DEF HandleBoot
  <1>4. CASE HandleStartWifi
    BY <1>1, <1>4, RunsCall, HandlersRun, AllPrograms DEF HandleStartWifi
  <1>5. CASE HandleCloseSetup
    BY <1>1, <1>5, RunsCall, HandlersRun, AllPrograms DEF HandleCloseSetup, Nothing
  <1>6. CASE HandleShutdown
    BY <1>1, <1>6, RunsCall, HandlersRun, AllPrograms DEF HandleShutdown
  <1>7. CASE HandlePortalExit
    BY <1>1, <1>7, RunsCall, HandlersRun, AllPrograms DEF HandlePortalExit
  <1>8. CASE HandleTimeout
    BY <1>1, <1>8, RunsCall, HandlersRun, AllPrograms DEF HandleTimeout
  <1>9. CASE \/ HandleTrying \/ HandleGotIp \/ HandleDisconnected
             \/ HandlePortalEnter \/ Ignore
    BY <1>1, <1>2, <1>9 DEF HandleTrying, HandleGotIp, HandleDisconnected,
                            HandlePortalEnter, Ignore
  <1> QED
    BY <1>1, <1>3, <1>4, <1>5, <1>6, <1>7, <1>8, <1>9, Zenon DEF Controller

\* The driver's task leaves everything but the station and the queue alone; a
\* station that is on stays on, and says when it gets or loses its address.
LEMMA StationMoves ==
    ASSUME Station
    PROVE  /\ station # "off" /\ station' # "off"
           /\ UNCHANGED <<creds, inRange, portalVars, prog, viewVars, stopVars>>
           /\ \/ Silent /\ (station' = "up" <=> station = "up")
              \/ Post("Trying") /\ station # "up" /\ station' # "up"
              \/ Post("GotIp") /\ station' = "up"
              \/ Post("Disconnected") /\ station' # "up"
  BY DEF Station, StaStarted, ScanDone, ScanUseless, AttemptFailed,
         NetworkGivenUp, AllGivenUp, GetsAddress, LinkLost, RestOver, Connect,
         Rest, StationStep

\* The world adds commands, ends the window, and calls the exit page.
LEMMA WorldMoves ==
    ASSUME Calls, World
    PROVE  /\ Calls' /\ Call' = Call
           /\ UNCHANGED <<station, tries, others, portal, late, viewVars, shutting>>
           /\ \/ /\ UNCHANGED <<portalTimer, queue, lost, prog, ready>>
              \/ /\ \E intent \in {"StartWifi", "CloseSetup"} : Joins(intent)
                 /\ ~shutting /\ UNCHANGED <<portalTimer, lost, prog, ready>>
              \/ /\ Joins("Shutdown") /\ ready' = FALSE
                 /\ UNCHANGED <<portalTimer, lost, prog>>
              \/ /\ portal /\ ExitCall = Nothing
                 /\ UNCHANGED <<portalTimer, queue, lost, ready>>
              \/ /\ portalTimer /\ Post("Timeout") /\ UNCHANGED <<prog, ready>>
           /\ prog' = prog => ExitCall' = ExitCall
  <1>1. ASSUME prog' = prog PROVE Calls' /\ Call' = Call /\ ExitCall' = ExitCall
    BY <1>1 DEF Calls, Call, ExitCall
  <1>2. ASSUME NEW intent \in {"StartWifi", "CloseSetup"}, Press(intent)
        PROVE  /\ Joins(intent) /\ ~shutting /\ prog' = prog
               /\ UNCHANGED <<station, tries, others, portal, late, viewVars, shutting,
                              portalTimer, lost, ready>>
    BY <1>2 DEF Press, Joins
  <1>3. CASE PrepareShutdown
    BY <1>1, <1>3 DEF PrepareShutdown, Joins
  <1>4. CASE PortalSaves \/ NetworkMoves
    BY <1>1, <1>4 DEF PortalSaves, NetworkMoves
  <1>5. CASE WebExit
    <2>1. Calls' /\ Call' = Call /\ ExitCall = Nothing /\ prog' # prog
      BY <1>5, Heads, Lengths, AllPrograms
      DEF Calls, Call, ExitCall, WebExit, Tasks, CloseAp, Nothing
    <2> QED  BY <1>5, <2>1 DEF WebExit
  <1>6. CASE WindowEnds
    BY <1>1, <1>6 DEF WindowEnds
  <1>7. CASE \E intent \in {"StartWifi", "CloseSetup"} : Press(intent)
    BY <1>1, <1>2, <1>7
  <1> QED  BY <1>3, <1>4, <1>5, <1>6, <1>7, Zenon DEF World

LEMMA CallsKeep ==
    ASSUME Calls, [Next]_vars
    PROVE  Calls'
  <1>1. CASE Controller  BY <1>1, ControllerMoves
  <1>2. CASE Manager("controller")
    BY <1>2, StationStopMoves, StationStartMoves, StationOpenMoves,
       ApStopMoves, ApStartMoves, ApOpenMoves, TimerMoves, ReadyMoves,
       NotifyMoves
    DEF Manager
  <1>3. CASE Manager("exit")  BY <1>3, ExitMoves
  <1>4. CASE Station \/ UNCHANGED vars
    <2>1. prog' = prog  BY <1>4, StationMoves DEF vars
    <2> QED  BY <2>1 DEF Calls, ExitCall
  <1>5. CASE World  BY <1>5, WorldMoves
  <1> QED  BY <1>1, <1>2, <1>3, <1>4, <1>5 DEF Next, Tasks

-------------------------------------------------------------------------------
(* The parts, one by one *)

\* What a step may do to the queue.
LEMMA QueueMoves ==
    ASSUME TypeOK, Calls, [Next]_vars
    PROVE  \/ queue' = queue
           \/ \E e \in Commands \ {"Boot"} : Joins(e) /\ lost' = lost
           \/ \E command : Take(command) /\ lost' = lost
  <1>1. CASE Controller
    BY <1>1 DEF Controller, HandleBoot, HandleStartWifi, HandleCloseSetup,
        HandleShutdown, Ignore, HandleTrying, HandleGotIp, HandleDisconnected,
        HandlePortalEnter, HandlePortalExit, HandleTimeout, EventTaken
  <1>2. ASSUME NEW e \in Events, Post(e)
        PROVE  \/ queue' = queue
               \/ \E f \in Commands \ {"Boot"} : Joins(f) /\ lost' = lost
    <2>1. e \in Commands \ {"Boot"}  BY CommandsAre DEF Events
    <2> QED  BY <1>2, <2>1, PostsOrLoses
  <1>3. ASSUME NEW t \in Tasks, Manager(t)
        PROVE  queue' = queue \/ \E e \in Events : Post(e)
    BY <1>3 DEF Manager, MStationStop, MStationStart, MStationOpen, MApStop,
        MApStart, MApOpen, MTimer, MReady, MNotify
  <1>4. CASE Station
    <2>1. Silent \/ \E e \in Events : Post(e)  BY <1>4, StationMoves DEF Events
    <2> QED  BY <1>2, <2>1 DEF Silent
  <1>5. CASE World
    <2>1. {"StartWifi", "CloseSetup", "Shutdown", "Timeout"} \subseteq Commands \ {"Boot"}
      BY CommandsAre
    <2> QED  BY <1>5, <2>1, WorldMoves, PostsOrLoses
  <1>6. CASE UNCHANGED vars  BY <1>6 DEF vars
  <1> QED  BY <1>1, <1>2, <1>3, <1>4, <1>5, <1>6 DEF Next

LEMMA StationTyped ==
    ASSUME TypeOK, [Next]_vars
    PROVE  /\ station' \in {"off", "starting", "scanning", "trying", "up", "resting"}
           /\ tries' \in 0..MaxReconnect /\ others' \in 0..MaxSaved - 1
  <1>1. /\ station \in {"off", "starting", "scanning", "trying", "up", "resting"}
        /\ tries \in 0..MaxReconnect /\ others \in 0..MaxSaved - 1
        /\ MaxReconnect \in Nat /\ MaxSaved \in Nat \ {0}
    BY WifiConstants DEF TypeOK
  <1>2. CASE Controller \/ World \/ UNCHANGED vars
    <2>1. UNCHANGED <<station, tries, others>>
      BY <1>2 DEF Controller, HandleBoot, HandleStartWifi, HandleCloseSetup,
        HandleShutdown, Ignore, HandleTrying, HandleGotIp, HandleDisconnected,
        HandlePortalEnter, HandlePortalExit, HandleTimeout, World, Press,
        PrepareShutdown, PortalSaves, WebExit, WindowEnds, NetworkMoves, vars
    <2> QED  BY <1>1, <2>1
  <1>3. ASSUME NEW t \in Tasks, Manager(t)
        PROVE  UNCHANGED <<station, tries, others>> \/ StationOff \/ StationOn
    BY <1>3 DEF Manager, MStationStop, MStationStart, MStationOpen, MApStop,
        MApStart, MApOpen, MTimer, MReady, MNotify
  <1>4. CASE StationOff \/ StationOn  BY <1>1, <1>4 DEF StationOff, StationOn
  <1>5. CASE StaStarted \/ ScanUseless \/ AllGivenUp \/ RestOver
    BY <1>1, <1>5 DEF StaStarted, ScanUseless, AllGivenUp, RestOver, Rest
  <1>6. CASE ScanDone \/ NetworkGivenUp
    BY <1>1, <1>6 DEF ScanDone, NetworkGivenUp, Connect
  <1>7. CASE AttemptFailed \/ GetsAddress \/ LinkLost
    BY <1>1, <1>7 DEF AttemptFailed, GetsAddress, LinkLost
  <1> QED
    BY <1>1, <1>2, <1>3, <1>4, <1>5, <1>6, <1>7 DEF Next, Station

LEMMA TypeKeeps ==
    ASSUME TypeOK, Calls, [Next]_vars
    PROVE  TypeOK'
  <1> USE DEF Next, Controller, HandleBoot, HandleStartWifi, HandleCloseSetup,
        HandleShutdown, Ignore, HandleTrying, HandleGotIp, HandleDisconnected,
        HandlePortalEnter, HandlePortalExit, HandleTimeout, World, Press,
        PrepareShutdown, PortalSaves, WebExit, WindowEnds, NetworkMoves, vars,
        Manager, MStationStop, MStationStart, MStationOpen, MApStop, MApStart,
        MApOpen, MTimer, MReady, MNotify, Station, StaStarted, ScanDone,
        ScanUseless, AttemptFailed, NetworkGivenUp, AllGivenUp, GetsAddress,
        LinkLost, RestOver, StationStep
  <1>1. queue' \in Seq(Commands) /\ Len(queue') <= QueueDepth
    <2>1. queue \in Seq(Commands) /\ Len(queue) <= QueueDepth  BY DEF TypeOK
    <2> HIDE DEF Next
    <2> QED  BY <2>1, QueueMoves, JoinsQueue, TakesQueue
  <1>2. prog' \in [Tasks -> Seq(Steps)]
    <2> HIDE DEF Next
    <2>1. Calls'  BY CallsKeep
    <2> QED  BY <2>1, ProgramsAreSequences DEF Calls
  <1>3. creds' \in BOOLEAN  BY ZenonT(60) DEF TypeOK
  <1>4. inRange' \in BOOLEAN  BY ZenonT(60) DEF TypeOK, StationOff, StationOn
  <1>5. portal' \in BOOLEAN  BY ZenonT(60) DEF TypeOK
  <1>6. portalTimer' \in BOOLEAN  BY ZenonT(60) DEF TypeOK
  <1>7. late' \in BOOLEAN  BY ZenonT(60) DEF TypeOK
  <1>8. online' \in BOOLEAN  BY ZenonT(60) DEF TypeOK
  <1>9. lost' \in BOOLEAN  BY ZenonT(60) DEF TypeOK, Post, EventTaken, Take, Silent
  <1>10. shutting' \in BOOLEAN  BY ZenonT(60) DEF TypeOK
  <1>11. ready' \in BOOLEAN  BY ZenonT(60) DEF TypeOK
  <1>12. life' \in {"boot", "connecting", "provisioning", "required", "up", "sleep"}
    BY DEF TypeOK
  <1> HIDE DEF Next
  <1> QED
    BY <1>1, <1>2, <1>3, <1>4, <1>5, <1>6, <1>7, <1>8, <1>9, <1>10, <1>11,
       <1>12, StationTyped
    DEF TypeOK

LEMMA BootKeeps ==
    ASSUME TypeOK, Calls, BootFirst, [Next]_vars
    PROVE  BootFirst'
  <1>1. CASE HandleShutdown
    <2>1. Take("Shutdown")  BY <1>1 DEF HandleShutdown
    <2> QED  BY <2>1, TakesBootFirst
  <1>2. CASE ~HandleShutdown
    <2>1. UNCHANGED shutting
      BY <1>2 DEF Next, Controller, HandleBoot, HandleStartWifi, HandleCloseSetup,
        Ignore, HandleTrying, HandleGotIp, HandleDisconnected,
        HandlePortalEnter, HandlePortalExit, HandleTimeout, World, Press,
        PrepareShutdown, PortalSaves, WebExit, WindowEnds, NetworkMoves, vars,
        Manager, MStationStop, MStationStart, MStationOpen, MApStop, MApStart,
        MApOpen, MTimer, MReady, MNotify, Station, StaStarted, ScanDone,
        ScanUseless, AttemptFailed, NetworkGivenUp, AllGivenUp, GetsAddress,
        LinkLost, RestOver, StationStep
    <2>2. CASE queue' = queue  BY <2>1, <2>2 DEF BootFirst
    <2> QED  BY <2>1, <2>2, QueueMoves, JoinsBootFirst, TakesBootFirst
  <1> QED  BY <1>1, <1>2

LEMMA RadioKeeps ==
    ASSUME IInv, [Next]_vars
    PROVE  Radio'
  <1>0. TypeOK /\ Calls /\ Radio  BY DEF IInv
  <1>1. CASE Controller
    <2>1. UNCHANGED <<station, portal>>
      BY <1>1 DEF Controller, HandleBoot, HandleStartWifi, HandleCloseSetup,
        HandleShutdown, Ignore, HandleTrying, HandleGotIp, HandleDisconnected,
        HandlePortalEnter, HandlePortalExit, HandleTimeout
    <2>2. Call' \in {Nothing, Start, Provision, Switch, Close, Stop}
      BY <1>0, <1>1, ControllerMoves
    <2>3. /\ Call' \notin {SwitchTell, StartAfterPortal, StartOpen} \union Opening
          /\ Call' \notin {StartAfterPortal, StartOpen, CloseTell}
          /\ Call' \notin {StopApTell, StopSta, StopStaTell, StopReady}
      BY <2>2, Heads, Distinct DEF Opening
    <2> QED  BY <1>0, <2>1, <2>3 DEF Radio, Opening
  <1>2. CASE MStationStop("controller")
    <2>1. CASE station = "off"
      <3>1. UNCHANGED <<station, portal>>  BY <1>2, <2>1 DEF MStationStop
      <3>2. \/ Call = Switch /\ Call' = Provision
            \/ Call = StopSta /\ Call' = StopReady
        BY <1>0, <1>2, <2>1, StationStopMoves
      <3> QED
        BY <1>0, <2>1, <3>1, <3>2, Heads, Distinct DEF Radio, Opening
    <2>2. CASE station # "off"
      <3>1. station' = "off" /\ portal' = portal /\ ~portal
        BY <1>0, <1>2, <2>2 DEF MStationStop, StationOff, Radio
      <3> QED  BY <3>1 DEF Radio
    <2> QED  BY <2>1, <2>2
  <1>3. CASE MStationStart("controller")
    <2>1. station' = station  BY <1>3 DEF MStationStart
    <2>2. \/ Call' = Nothing /\ portal' = portal
          \/ Call' \in {StartAfterPortal, StartOpen} /\ ~portal' /\ station = "off"
      BY <1>0, <1>3, StationStartMoves DEF MStationStart
    <2>3. /\ Call' \notin {SwitchTell} \union Opening \union {CloseTell}
          /\ Call' \notin {StopApTell, StopSta, StopStaTell, StopReady}
          /\ Call' = Nothing => Call' \notin {StartAfterPortal, StartOpen}
      BY <2>2, Heads, Distinct DEF Opening
    <2> QED  BY <1>0, <2>1, <2>2, <2>3 DEF Radio, Opening
  <1>4. CASE MStationOpen("controller")
    <2>1. portal' = portal /\ Call = StartOpen /\ Call' = Nothing
      BY <1>0, <1>4, StationOpenMoves DEF MStationOpen
    <2> QED  BY <1>0, <2>1, Heads, Distinct DEF Radio, Opening
  <1>5. CASE MApStop("controller")
    <2>1. station' = station /\ ~portal'  BY <1>5 DEF MApStop
    <2>2. Call' \in {CloseTell, StopApTell, Nothing, StopSta}
      BY <1>0, <1>5, ApStopMoves
    <2>3. /\ Call' \notin {SwitchTell, StartAfterPortal, StartOpen} \union Opening
          /\ Call' \notin {StopStaTell, StopReady}
      BY <2>2, Heads, Distinct DEF Opening
    <2> QED  BY <2>1, <2>3 DEF Radio
  <1>6. CASE MApStart("controller")
    <2>1. portal' = portal /\ (station' = station \/ station' = "off")
      BY <1>6 DEF MApStart, StationOff
    <2>2. \/ portal /\ Call' = Nothing
          \/ ~portal /\ station' = "off" /\ Call' \in {HotspotTell, HotspotOpen}
      BY <1>0, <1>6, ApStartMoves DEF MApStart, StationOff
    <2>3. CASE Call' = Nothing
      BY <1>0, <2>1, <2>3, Heads, Distinct DEF Radio, Opening
    <2>4. CASE ~portal /\ station' = "off"
      BY <2>1, <2>4 DEF Radio
    <2> QED  BY <2>2, <2>3, <2>4
  <1>7. CASE MApOpen("controller")
    <2>1. station' = station /\ Call = HotspotOpen /\ Call' = HotspotTold
      BY <1>0, <1>7, ApOpenMoves DEF MApOpen
    <2>2. station = "off"  BY <1>0, <2>1 DEF Radio, Opening
    <2>3. /\ Call' \notin {SwitchTell, HotspotTell, HotspotOpen}
          /\ Call' \notin {StartAfterPortal, StartOpen, CloseTell}
          /\ Call' \notin {StopApTell, StopSta, StopStaTell, StopReady}
      BY <2>1, Heads, Distinct
    <2> QED  BY <2>1, <2>2, <2>3 DEF Radio
  <1>8. CASE MTimer("controller") \/ MReady("controller")
    <2>1. UNCHANGED <<station, portal>>  BY <1>8 DEF MTimer, MReady
    <2>2. Call' \in {ProvisionArm, Hotspot, CloseAp, StopAp, Nothing}
      BY <1>0, <1>8, TimerMoves, ReadyMoves
    <2>3. /\ Call' \notin {SwitchTell, StartAfterPortal, StartOpen} \union Opening
          /\ Call' \notin {StartAfterPortal, StartOpen, CloseTell}
          /\ Call' \notin {StopApTell, StopSta, StopStaTell, StopReady}
      BY <2>2, Heads, Distinct DEF Opening
    <2> QED  BY <1>0, <2>1, <2>3 DEF Radio, Opening
  <1>9. ASSUME NEW event \in Events, MNotify("controller", event) PROVE Radio'
    <2>1. UNCHANGED <<station, portal>>  BY <1>9 DEF MNotify
    <2>2. \/ Call = SwitchTell /\ Call' = Provision
          \/ Call = HotspotTell /\ Call' = HotspotOpen
          \/ Call = StopStaTell /\ Call' = StopReady
          \/ Call = HotspotTold /\ Call' = Nothing
          \/ Call = StartAfterPortal /\ Call' = StartOpen
          \/ Call = CloseTell /\ Call' = Nothing
          \/ Call = StopApTell /\ Call' = StopSta
      BY <1>0, <1>9, NotifyMoves
    <2>3. CASE Call' = Nothing \/ Call' = Provision
      BY <1>0, <2>1, <2>3, Heads, Distinct DEF Radio, Opening
    <2>4. CASE Call = HotspotTell /\ Call' = HotspotOpen
      BY <1>0, <2>1, <2>4 DEF Radio, Opening
    <2>5. CASE Call = StopStaTell /\ Call' = StopReady
      BY <1>0, <2>1, <2>5 DEF Radio
    <2>6. CASE Call = StartAfterPortal /\ Call' = StartOpen
      BY <1>0, <2>1, <2>6, Heads, Distinct DEF Radio, Opening
    <2>7. CASE Call = StopApTell /\ Call' = StopSta
      BY <1>0, <2>1, <2>7, Heads, Distinct DEF Radio, Opening
    <2> QED  BY <2>2, <2>3, <2>4, <2>5, <2>6, <2>7
  <1>10. CASE Manager("exit")
    <2>1. station' = station /\ (portal' = portal \/ ~portal') /\ Call' = Call
      BY <1>0, <1>10, ExitMoves DEF MApStop, MNotify
    <2> QED  BY <1>0, <2>1 DEF Radio
  <1>11. CASE Station
    <2>1. station # "off" /\ portal' = portal /\ Call' = Call
      BY <1>11, StationMoves DEF Call
    <2> QED  BY <1>0, <2>1 DEF Radio
  <1>12. CASE World \/ UNCHANGED vars
    <2>1. UNCHANGED <<station, portal, Call>>
      BY <1>0, <1>12, WorldMoves DEF vars, Call
    <2> QED  BY <1>0, <2>1 DEF Radio
  <1> QED
    BY <1>1, <1>2, <1>3, <1>4, <1>5, <1>6, <1>7, <1>8, <1>9, <1>10, <1>11,
       <1>12
    DEF Next, Tasks, Manager

LEMMA BootBeforeStop ==
    ASSUME TypeOK, BootFirst, Take("Boot")
    PROVE  ~shutting
  <1>1. queue \in Seq(Commands) /\ queue # <<>>  BY DEF TypeOK, Take
  <1>2. queue[1] = "Boot" /\ 1 \in 1..Len(queue)
    BY <1>1, HeadTailProperties DEF Take
  <1> QED  BY <1>2 DEF BootFirst

\* The stop goes on to its end and opens nothing; nothing else turns into it.
LEMMA StoppingMoves ==
    ASSUME Calls, Manager("controller")
    PROVE  /\ Call # Nothing /\ UNCHANGED <<shutting, life>>
           /\ Call \in Stopping =>
                 /\ Call' \in Stopping \/ MReady("controller")
                 /\ station' = station \/ station' = "off"
                 /\ portal' = portal \/ ~portal'
           /\ Call \notin Stopping => Call' \notin Stopping /\ ~MReady("controller")
           /\ UNCHANGED <<ready, online>> \/ MReady("controller")
  <1>0. {Stop, StopAp, StopApTell, StopSta, StopStaTell, StopReady} \subseteq Stopping
    BY DEF Stopping
  <1>1. CASE MStationStop("controller")
    <2>1. \/ Call = Switch /\ Call' \in {Provision, SwitchTell}
          \/ Call = StopSta /\ Call' \in {StopReady, StopStaTell}
      BY <1>1, StationStopMoves
    <2>2. /\ Call # Nothing /\ {Switch, Provision, SwitchTell} \intersect Stopping = {}
      BY <2>1, Heads, Distinct DEF Stopping
    <2>3. ~MReady("controller")  BY <2>1, Heads, CallAt, Distinct DEF MReady
    <2> QED  BY <1>0, <1>1, <2>1, <2>2, <2>3 DEF MStationStop, StationOff
  <1>2. CASE MStationStart("controller") \/ MStationOpen("controller")
    <2>1. Call \in {Start, StartOpen} /\ Call' \in {StartAfterPortal, StartOpen, Nothing}
      BY <1>2, StationStartMoves, StationOpenMoves
    <2>2. /\ Call # Nothing
          /\ Call \notin Stopping /\ Call' \notin Stopping
      BY <2>1, Heads, Distinct DEF Stopping
    <2>3. ~MReady("controller")  BY <2>1, Heads, CallAt DEF MReady
    <2> QED  BY <1>2, <2>2, <2>3 DEF MStationStart, MStationOpen
  <1>3. CASE MApStop("controller")
    <2>1. \/ Call = CloseAp /\ Call' \in {CloseTell, Nothing}
          \/ Call = StopAp /\ Call' \in {StopApTell, StopSta}
      BY <1>3, ApStopMoves
    <2>2. Call # Nothing /\ {CloseAp, CloseTell, Nothing} \intersect Stopping = {}
      BY <2>1, Heads, Distinct DEF Stopping
    <2>3. ~MReady("controller")  BY <2>1, Heads, CallAt, Distinct DEF MReady
    <2> QED  BY <1>0, <1>3, <2>1, <2>2, <2>3 DEF MApStop
  <1>4. CASE MApStart("controller") \/ MApOpen("controller")
    <2>1. /\ Call \in {Hotspot, HotspotOpen}
          /\ Call' \in {Nothing, HotspotTell, HotspotOpen, HotspotTold}
      BY <1>4, ApStartMoves, ApOpenMoves
    <2>2. /\ Call # Nothing
          /\ Call \notin Stopping /\ Call' \notin Stopping
      BY <2>1, Heads, Distinct DEF Stopping
    <2>3. ~MReady("controller")  BY <2>1, Heads, CallAt DEF MReady
    <2> QED  BY <1>4, <2>2, <2>3 DEF MApStart, MApOpen
  <1>5. CASE MTimer("controller")
    <2>1. \/ /\ Call \in {Provision, ProvisionArm, Close}
             /\ Call' \in {ProvisionArm, Hotspot, CloseAp}
          \/ Call = Stop /\ Call' = StopAp
      BY <1>5, TimerMoves
    <2>2. /\ Call # Nothing
          /\ {Provision, ProvisionArm, Close, Hotspot, CloseAp} \intersect Stopping = {}
      BY <2>1, Heads, Distinct DEF Stopping
    <2>3. ~MReady("controller")  BY <2>1, Heads, CallAt DEF MReady
    <2> QED  BY <1>0, <1>5, <2>1, <2>2, <2>3 DEF MTimer
  <1>6. CASE MReady("controller")
    <2>1. Call = StopReady /\ Call # Nothing  BY <1>6, ReadyMoves, Distinct
    <2> QED  BY <1>0, <1>6, <2>1 DEF MReady
  <1>7. ASSUME NEW event \in Events, MNotify("controller", event)
        PROVE  /\ Call # Nothing /\ ~MReady("controller")
               /\ Call \in Stopping => Call' \in Stopping
               /\ Call \notin Stopping => Call' \notin Stopping
               /\ UNCHANGED <<station, portal, shutting, life, ready, online>>
    <2>1. \/ /\ Call \in {SwitchTell, HotspotTell, HotspotTold, StartAfterPortal, CloseTell}
             /\ Call' \in {Provision, HotspotOpen, Nothing, StartOpen}
          \/ Call \in {StopStaTell, StopApTell} /\ Call' \in {StopReady, StopSta}
      BY <1>7, NotifyMoves
    <2>2. /\ Call # Nothing
          /\ {SwitchTell, HotspotTell, HotspotTold, StartAfterPortal, CloseTell}
                \intersect Stopping = {}
          /\ {Provision, HotspotOpen, Nothing, StartOpen} \intersect Stopping = {}
      BY <2>1, Heads, Distinct DEF Stopping
    <2>3. ~MReady("controller")  BY <2>1, Heads, CallAt, Distinct DEF MReady
    <2> QED  BY <1>0, <1>7, <2>1, <2>2, <2>3 DEF MNotify
  <1> QED
    BY <1>1, <1>2, <1>3, <1>4, <1>5, <1>6, <1>7 DEF Manager

LEMMA StoppedKeeps ==
    ASSUME IInv, [Next]_vars
    PROVE  Stopped'
  <1>0. TypeOK /\ Calls /\ BootFirst /\ Radio /\ Stopped  BY DEF IInv
  <1>1. CASE Controller
    <2>1. CASE HandleShutdown
      <3>1. shutting' /\ life' = "sleep" /\ UNCHANGED <<station, portal, ready>>
        BY <2>1 DEF HandleShutdown
      <3>2. Call' = Stop
        <4>1. Take("Shutdown")  BY <2>1 DEF HandleShutdown
        <4>2. Call = Nothing  BY <4>1 DEF Take, Call, Nothing
        <4> QED
          BY <1>0, <2>1, <4>2, RunsCall, HandlersRun, AllPrograms DEF HandleShutdown
      <3>3. Stop \in Stopping /\ Stop # Nothing  BY Distinct DEF Stopping
      <3> QED  BY <1>0, <3>1, <3>2, <3>3 DEF Stopped
    <2>2. CASE Ignore
      <3>1. UNCHANGED <<station, portal, online, life, shutting, ready, Call>>
        BY <2>2 DEF Ignore, Call
      <3> QED  BY <1>0, <3>1 DEF Stopped
    <2>3. CASE ~HandleShutdown /\ ~Ignore
      <3>1. ~shutting /\ UNCHANGED <<shutting, ready>>
        BY <1>0, <1>1, <2>3, BootBeforeStop
        DEF Controller, HandleBoot, HandleStartWifi, HandleCloseSetup,
          HandleTrying, HandleGotIp, HandleDisconnected, HandlePortalEnter,
          HandlePortalExit, HandleTimeout, EventTaken
      <3>2. Call' \in {Nothing, Start, Provision, Switch, Close}
        BY <1>0, <1>1, <2>3, ControllerMoves
      <3>3. Call' \notin Stopping  BY <3>2, Heads, Distinct DEF Stopping
      <3> QED  BY <1>0, <3>1, <3>3 DEF Stopped
    <2> QED  BY <2>1, <2>2, <2>3
  <1>2. CASE Manager("controller")
    <2>1. CASE MReady("controller")
      <3>1. Call = StopReady /\ Call' = Nothing  BY <1>0, <2>1, ReadyMoves
      <3>2. StopReady \in Stopping /\ Nothing \notin Stopping
        BY Distinct DEF Stopping
      <3>3. station = "off" /\ ~portal  BY <1>0, <3>1 DEF Radio
      <3>4. ~online' /\ UNCHANGED <<station, portal, shutting, life>>
        BY <2>1 DEF MReady
      <3> QED  BY <1>0, <3>1, <3>2, <3>3, <3>4 DEF Stopped
    <2>2. CASE ~MReady("controller") /\ shutting
      <3>1. Nothing \notin Stopping  BY Distinct DEF Stopping
      <3>2. Call \in Stopping  BY <1>0, <1>2, <2>2, StoppingMoves DEF Stopped
      <3>3. /\ Call' \in Stopping /\ UNCHANGED <<shutting, life, ready>>
            /\ station' = station \/ station' = "off"
            /\ portal' = portal \/ ~portal'
        BY <1>0, <1>2, <2>2, <3>2, StoppingMoves
      <3> QED  BY <1>0, <2>2, <3>1, <3>3 DEF Stopped
    <2>3. CASE ~MReady("controller") /\ ~shutting
      BY <1>0, <1>2, <2>3, StoppingMoves DEF Stopped
    <2> QED  BY <2>1, <2>2, <2>3
  <1>3. CASE Manager("exit")
    <2>1. /\ UNCHANGED <<station, online, life, shutting, ready>>
          /\ portal' = portal \/ ~portal'
          /\ Call' = Call
      BY <1>0, <1>3, ExitMoves DEF MApStop, MNotify
    <2> QED  BY <1>0, <2>1 DEF Stopped
  <1>4. CASE Station
    <2>1. /\ station # "off" /\ Call' = Call
          /\ UNCHANGED <<portal, online, life, shutting, ready>>
      BY <1>4, StationMoves DEF Call
    <2> QED  BY <1>0, <2>1 DEF Stopped
  <1>5. CASE World \/ UNCHANGED vars
    <2>1. /\ UNCHANGED <<station, portal, online, life, shutting, Call>>
          /\ ready' = ready \/ ~ready'
      <3>1. CASE World  BY <1>0, <3>1, WorldMoves
      <3>2. CASE UNCHANGED vars  BY <3>2 DEF vars, Call
      <3> QED  BY <1>5, <3>1, <3>2
    <2> QED  BY <1>0, <2>1 DEF Stopped
  <1> QED  BY <1>1, <1>2, <1>3, <1>4, <1>5 DEF Next, Tasks

LEMMA PostKeepsEnds ==
    ASSUME TypeOK, NEW e \in Commands, Post(e), UNCHANGED late
    PROVE  /\ Ends /\ portalTimer' = portalTimer => Ends'
           /\ e = "Timeout" => Ends'
  <1>1. CASE lost'  BY <1>1 DEF Ends
  <1>2. CASE Joins(e) /\ lost' = lost  BY <1>2, JoinsEnds
  <1> QED  BY <1>1, <1>2, PostsOrLoses

LEMMA WindowKeeps ==
    ASSUME IInv, [Next]_vars
    PROVE  Window'
  <1>0. TypeOK /\ Calls /\ Radio /\ Stopped /\ Window  BY DEF IInv
  <1>1. ASSUME UNCHANGED <<queue, lost, late, portalTimer>>, Ends PROVE Ends'
    BY <1>1 DEF Ends
  <1>2. CASE Controller
    <2>1. UNCHANGED <<portal, portalTimer, late, lost>>
      BY <1>2 DEF Controller, HandleBoot, HandleStartWifi, HandleCloseSetup,
        HandleShutdown, Ignore, HandleTrying, HandleGotIp, HandleDisconnected,
        HandlePortalEnter, HandlePortalExit, HandleTimeout
    <2>2. Call' \in {Nothing, Start, Provision, Switch, Close, Stop} /\ Call = Nothing
      BY <1>0, <1>2, ControllerMoves
    <2>3. Call' \notin {Hotspot} \union Opening
      BY <2>2, Heads, Distinct DEF Opening
    <2>4. ASSUME Call' = Nothing, portal PROVE Ends'
      <3>1. Ends  BY <1>0, <2>2, <2>4 DEF Window
      <3>2. ~shutting  BY <1>0, <2>2, <2>4 DEF Stopped
      <3>3. \/ HandlePortalExit \/ HandleTrying \/ HandleGotIp
            \/ HandleDisconnected \/ HandlePortalEnter
        <4>1. ~Ignore  BY <3>2 DEF Ignore
        <4> QED  BY <1>0, <1>2, <2>4, <4>1, ControllerMoves, Distinct
      <3>4. \E command \in Events \ {"Timeout"} : Take(command)
        BY <3>3 DEF HandlePortalExit, HandleTrying, HandleGotIp,
            HandleDisconnected, HandlePortalEnter, EventTaken, Events
      <3> QED  BY <1>0, <2>1, <3>1, <3>4, TakesEnds DEF Events
    <2> QED  BY <2>1, <2>3, <2>4 DEF Window
  <1>3. CASE MStationStop("controller") \/ MStationStart("controller")
             \/ MStationOpen("controller")
    <2>1. \/ Call' \in {Provision, StopReady, SwitchTell, StopStaTell,
                        StartAfterPortal, StartOpen}
          \/ Call' = Nothing /\ ~portal'
      BY <1>0, <1>3, StationStopMoves, StationStartMoves, StationOpenMoves
      DEF MStationStart, MStationOpen, Radio
    <2>2. /\ Call' \notin {Hotspot} \union Opening
          /\ Call' = Nothing => ~portal'
      BY <2>1, Heads, Distinct DEF Opening
    <2> QED  BY <2>2 DEF Window
  <1>4. CASE MApStop("controller")
    <2>1. Call' \in {CloseTell, StopApTell, Nothing, StopSta} /\ ~portal'
      BY <1>0, <1>4, ApStopMoves DEF MApStop
    <2>2. Call' \notin {Hotspot} \union Opening
      BY <2>1, Heads, Distinct DEF Opening
    <2> QED  BY <2>1, <2>2 DEF Window
  <1>5. CASE MApStart("controller") \/ MApOpen("controller")
    <2>1. Call \in {Hotspot, HotspotOpen}  BY <1>0, <1>5, ApStartMoves, ApOpenMoves
    <2>2. Ends  BY <1>0, <2>1 DEF Window, Opening
    <2>3. Ends'  BY <1>1, <1>5, <2>2 DEF MApStart, MApOpen
    <2> QED  BY <2>3 DEF Window
  <1>6. CASE MTimer("controller")
    <2>1. CASE Call' = Hotspot
      <3>1. portalTimer'  BY <1>0, <1>6, <2>1, TimerMoves, Heads, Distinct
      <3> QED  BY <3>1 DEF Window, Ends
    <2>2. CASE Call' \in {ProvisionArm, CloseAp, StopAp}
      <3>1. Call' \notin {Hotspot, Nothing} \union Opening
        BY <2>2, Heads, Distinct DEF Opening
      <3> QED  BY <3>1 DEF Window
    <2> QED  BY <1>0, <1>6, <2>1, <2>2, TimerMoves
  <1>7. CASE MReady("controller")
    <2>1. Call = StopReady /\ Call' = Nothing /\ portal' = portal
      BY <1>0, <1>7, ReadyMoves DEF MReady
    <2>2. ~portal'  BY <1>0, <2>1 DEF Radio
    <2>3. Nothing \notin {Hotspot} \union Opening  BY Distinct DEF Opening
    <2> QED  BY <2>1, <2>2, <2>3 DEF Window
  <1>8. ASSUME NEW event \in Events, MNotify("controller", event) PROVE Window'
    <2>1. portal' = portal /\ late' = late /\ Post(event) /\ event \in Commands
      BY <1>0, <1>8 DEF MNotify, TypeOK, Commands
    <2>2. CASE Call \in {HotspotTell, HotspotTold}
      <3>1. Ends  BY <1>0, <2>2 DEF Window, Opening
      <3>2. event # "PortalExit"
        BY <1>0, <1>8, <2>2, NotifyMoves, Heads, Distinct
      <3>3. portalTimer' = portalTimer  BY <1>0, <1>8, <3>2 DEF MNotify, TypeOK
      <3> QED  BY <1>0, <2>1, <3>1, <3>3, PostKeepsEnds DEF Window
    <2>3. CASE Call \notin {HotspotTell, HotspotTold}
      <3>1. \/ Call' \in {Provision, StopReady, StartOpen, StopSta}
            \/ Call = CloseTell /\ Call' = Nothing
        BY <1>0, <1>8, <2>3, NotifyMoves
      <3>2. /\ Call' \notin {Hotspot} \union Opening
            /\ Call' = Nothing => ~portal'
        BY <1>0, <2>1, <3>1, Heads, Distinct DEF Opening, Radio
      <3> QED  BY <3>2 DEF Window
    <2> QED  BY <2>2, <2>3
  <1>9. CASE Manager("exit")
    <2>1. Call' = Call  BY <1>0, <1>9, ExitMoves
    <2>2. CASE MApStop("exit")
      <3>1. ~portal' /\ UNCHANGED <<queue, lost, late, portalTimer>>
        BY <2>2 DEF MApStop
      <3> QED  BY <1>0, <1>1, <2>1, <3>1 DEF Window
    <2>3. CASE MNotify("exit", "PortalExit")
      <3>1. portal' = portal /\ (portal \/ Call # Nothing => late')
        BY <2>3 DEF MNotify, Call, Nothing
      <3>2. Nothing \notin {Hotspot} \union Opening  BY Distinct DEF Opening
      <3> QED  BY <2>1, <3>1, <3>2 DEF Window, Ends
    <2> QED  BY <1>0, <1>9, <2>2, <2>3, ExitMoves
  <1>10. CASE Station
    <2>1. /\ UNCHANGED <<portal, portalTimer, late, Call>>
          /\ Silent \/ \E e \in {"Trying", "GotIp", "Disconnected"} : Post(e)
      BY <1>10, StationMoves DEF Call
    <2>2. ASSUME Ends PROVE Ends'
      BY <1>0, <1>1, <2>1, <2>2, PostKeepsEnds, CommandsAre DEF Silent
    <2> QED  BY <1>0, <2>1, <2>2 DEF Window
  <1>11. CASE World \/ UNCHANGED vars
    <2>1. ASSUME Ends PROVE Ends'
      <3>1. CASE UNCHANGED vars  BY <1>1, <2>1, <3>1 DEF vars
      <3>2. CASE World
        <4>1. late' = late  BY <1>0, <3>2, WorldMoves
        <4>2. ASSUME NEW e \in Commands, Joins(e), UNCHANGED <<portalTimer, lost>>
              PROVE  Ends'
          BY <1>0, <2>1, <4>1, <4>2, JoinsEnds
        <4>3. CASE Post("Timeout")
          BY <1>0, <4>1, <4>3, PostKeepsEnds, CommandsAre
        <4> QED  BY <1>0, <1>1, <2>1, <3>2, <4>1, <4>2, <4>3, WorldMoves, CommandsAre
      <3> QED  BY <1>11, <3>1, <3>2
    <2>2. UNCHANGED <<portal, Call>>
      <3>1. CASE World  BY <1>0, <3>1, WorldMoves
      <3>2. CASE UNCHANGED vars  BY <3>2 DEF vars, Call
      <3> QED  BY <1>11, <3>1, <3>2
    <2> QED  BY <1>0, <2>1, <2>2 DEF Window
  <1> QED
    BY <1>2, <1>3, <1>4, <1>5, <1>6, <1>7, <1>8, <1>9, <1>10, <1>11
    DEF Next, Tasks, Manager

LEMMA PostOnline ==
    ASSUME TypeOK, NEW e \in Commands, Post(e), UNCHANGED online, ~lost'
    PROVE  /\ ~lost
           /\ e \notin OnlineKinds => (OnlineSoon' <=> OnlineSoon)
           /\ e = "GotIp" => OnlineSoon'
           /\ e \in {"Disconnected", "PortalEnter"} => ~OnlineSoon'
  <1>1. Joins(e) /\ lost' = lost  BY PostsOrLoses
  <1> QED  BY <1>1, JoinsOnline

LEMMA OnlineKeeps ==
    ASSUME IInv, [Next]_vars
    PROVE  Online'
  <1>0. TypeOK /\ Calls /\ BootFirst /\ Radio /\ Stopped /\ Online  BY DEF IInv
  <1>1. ASSUME UNCHANGED <<queue, online>> PROVE OnlineSoon' <=> OnlineSoon
    BY <1>1 DEF OnlineSoon
  <1>2. CASE Controller
    <2>1. UNCHANGED <<station, lost>>
      BY <1>2 DEF Controller, HandleBoot, HandleStartWifi, HandleCloseSetup,
        HandleShutdown, Ignore, HandleTrying, HandleGotIp, HandleDisconnected,
        HandlePortalEnter, HandlePortalExit, HandleTimeout
    <2>2. Call = Nothing /\ Nothing \notin {Switch, SwitchTell, HotspotTell}
      BY <1>0, <1>2, ControllerMoves, Distinct
    <2>3. CASE HandleShutdown \/ Ignore
      BY <2>3 DEF Online, HandleShutdown, Ignore
    <2>4. CASE HandleStartWifi
      <3>1. /\ OnlineSoon' => OnlineSoon
            /\ ~shutting
        BY <1>0, <2>4, TakesOnline DEF HandleStartWifi
      <3>2. Call' = Switch
        BY <1>0, <2>2, <2>4, RunsCall, HandlersRun, AllPrograms DEF HandleStartWifi
      <3> QED  BY <1>0, <2>1, <2>2, <3>1, <3>2 DEF Online
    <2>5. CASE HandleBoot
      <3>1. ~shutting  BY <1>0, <2>5, BootBeforeStop DEF HandleBoot
      <3>2. OnlineSoon' <=> OnlineSoon
        BY <1>0, <2>5, TakesOnline DEF HandleBoot, OnlineKinds
      <3> QED  BY <1>0, <2>1, <2>2, <3>1, <3>2 DEF Online
    <2>6. CASE HandleCloseSetup \/ HandleTimeout \/ HandlePortalExit \/ HandleTrying
      <3>1. \E command \in {"CloseSetup", "Timeout", "PortalExit", "Trying"} :
               Take(command) /\ online' = online
        BY <2>6 DEF HandleCloseSetup, HandleTimeout, HandlePortalExit,
            HandleTrying, EventTaken
      <3>2. ~shutting
        BY <2>6 DEF HandleCloseSetup, HandleTimeout, HandlePortalExit,
            HandleTrying, EventTaken
      <3>3. OnlineSoon' <=> OnlineSoon
        BY <1>0, <3>1, TakesOnline DEF OnlineKinds
      <3> QED  BY <1>0, <2>1, <2>2, <3>2, <3>3 DEF Online
    <2>7. CASE HandleGotIp \/ HandleDisconnected \/ HandlePortalEnter
      <3>1. \/ Take("GotIp") /\ online'
            \/ Take("Disconnected") /\ ~online'
            \/ Take("PortalEnter") /\ ~online'
        BY <2>7 DEF HandleGotIp, HandleDisconnected, HandlePortalEnter, EventTaken
      <3>2. ~shutting
        BY <2>7 DEF HandleGotIp, HandleDisconnected, HandlePortalEnter, EventTaken
      <3>3. OnlineSoon' <=> OnlineSoon  BY <1>0, <3>1, TakesOnline
      <3> QED  BY <1>0, <2>1, <2>2, <3>2, <3>3 DEF Online
    <2> QED
      BY <1>2, <2>3, <2>4, <2>5, <2>6, <2>7 DEF Controller
  <1>3. CASE Manager("controller") /\ Call \in Stopping
    <2>1. shutting'  BY <1>0, <1>3, StoppingMoves DEF Stopped
    <2> QED  BY <2>1 DEF Online
  <1>4. CASE MStationStop("controller") /\ Call \notin Stopping
    <2>1. Call = Switch
      BY <1>0, <1>4, StationStopMoves DEF Stopping
    <2>2. Call \notin {SwitchTell, HotspotTell}  BY <2>1, Heads
    <2>3. UNCHANGED <<queue, lost, online, shutting>> /\ station' = "off"
      BY <1>4 DEF MStationStop, StationOff
    <2>4. station # "off" => Call' = SwitchTell
      BY <1>0, <1>4, <2>1, StationStopMoves, Distinct
    <2> QED  BY <1>0, <1>1, <2>2, <2>3, <2>4 DEF Online
  <1>5. CASE MStationStart("controller") \/ MApStop("controller")
             \/ MApOpen("controller") \/ MTimer("controller")
    <2>1. Call \in {Start, CloseAp, StopAp, HotspotOpen, Provision, ProvisionArm,
                    Close, Stop}
      BY <1>0, <1>5, StationStartMoves, ApStopMoves, ApOpenMoves, TimerMoves
    <2>2. Call \notin {Switch, SwitchTell, HotspotTell}  BY <2>1, Heads
    <2>3. UNCHANGED <<queue, lost, online, shutting, station>>
      BY <1>5 DEF MStationStart, MApStop, MApOpen, MTimer
    <2> QED  BY <1>0, <1>1, <2>2, <2>3 DEF Online
  <1>6. CASE MStationOpen("controller")
    <2>1. Call = StartOpen  BY <1>0, <1>6, StationOpenMoves
    <2>2. Call \notin {Switch, SwitchTell, HotspotTell}  BY <2>1, Heads
    <2>3. station = "off" /\ station' = "starting"
      BY <1>0, <1>6, <2>1 DEF Radio, MStationOpen, StationOn
    <2>4. UNCHANGED <<queue, lost, online, shutting>>  BY <1>6 DEF MStationOpen
    <2> QED  BY <1>0, <1>1, <2>2, <2>3, <2>4 DEF Online
  <1>7. CASE MApStart("controller")
    <2>1. Call = Hotspot  BY <1>0, <1>7, ApStartMoves
    <2>2. Call \notin {Switch, SwitchTell, HotspotTell}  BY <2>1, Heads
    <2>3. UNCHANGED <<queue, lost, online, shutting>>  BY <1>7 DEF MApStart
    <2>4. \/ station' = station
          \/ station' = "off" /\ Call' = HotspotTell
      <3>1. CASE portal
        BY <1>0, <1>7, <3>1, ApStartMoves, Distinct DEF MApStart
      <3>2. CASE ~portal /\ station # "off"
        BY <1>0, <1>7, <3>2, ApStartMoves DEF MApStart, StationOff
      <3>3. CASE ~portal /\ station = "off"
        BY <1>0, <1>7, <3>3, ApStartMoves, Heads DEF MApStart
      <3> QED  BY <3>1, <3>2, <3>3
    <2> QED  BY <1>0, <1>1, <2>2, <2>3, <2>4 DEF Online
  <1>8. CASE MReady("controller")
    <2>1. Call \in Stopping  BY <1>0, <1>8, ReadyMoves DEF Stopping
    <2> QED  BY <1>3, <1>8, <2>1 DEF Manager
  <1>9. ASSUME NEW event \in Events, MNotify("controller", event), Call \notin Stopping
        PROVE  Online'
    <2>0. SUFFICES ASSUME ~lost', ~shutting' PROVE Online'  BY DEF Online
    <2>1. Post(event) /\ UNCHANGED <<online, shutting, station>> /\ event \in Commands
      BY <1>9 DEF MNotify, Commands
    <2>2. CASE event = "Disconnected" \/ event = "PortalEnter"
      <3>1. Call \in {SwitchTell, HotspotTell, HotspotTold}
        BY <1>0, <1>9, <2>2, NotifyMoves DEF Stopping
      <3>2. station = "off"  BY <1>0, <3>1 DEF Radio, Opening
      <3>3. ~OnlineSoon'  BY <1>0, <2>0, <2>1, <2>2, PostOnline
      <3> QED  BY <2>1, <3>2, <3>3 DEF Online
    <2>3. CASE event = "PortalExit"
      <3>1. Call \in {StartAfterPortal, CloseTell, StopApTell}
        BY <1>0, <1>9, <2>3, NotifyMoves
      <3>2. Call \notin {Switch, SwitchTell, HotspotTell}  BY <3>1, Heads
      <3>3. (OnlineSoon' <=> OnlineSoon) /\ ~lost
        BY <1>0, <2>0, <2>1, <2>3, PostOnline DEF OnlineKinds
      <3> QED  BY <1>0, <2>1, <3>2, <3>3 DEF Online
    <2> QED  BY <1>0, <1>9, <2>2, <2>3, NotifyMoves
  <1>10. CASE Manager("exit")
    <2>0. Call' = Call  BY <1>0, <1>10, ExitMoves
    <2>1. CASE MApStop("exit")
      <3>1. UNCHANGED <<queue, lost, online, shutting, station>>
        BY <2>1 DEF MApStop
      <3> QED  BY <1>0, <1>1, <2>0, <3>1 DEF Online
    <2>2. CASE MNotify("exit", "PortalExit")
      <3>1. Post("PortalExit") /\ UNCHANGED <<online, shutting, station>>
        BY <2>2 DEF MNotify
      <3>2. ~lost' => (OnlineSoon' <=> OnlineSoon) /\ ~lost
        BY <1>0, <3>1, PostOnline, CommandsAre DEF OnlineKinds
      <3> QED  BY <1>0, <2>0, <3>1, <3>2 DEF Online
    <2> QED  BY <1>0, <1>10, <2>1, <2>2, ExitMoves
  <1>11. CASE Station
    <2>1. /\ station # "off" /\ station' # "off"
          /\ UNCHANGED <<Call, online, shutting>>
      BY <1>11, StationMoves DEF Call
    <2>2. Call \notin {SwitchTell, HotspotTell}
      BY <1>0, <2>1 DEF Radio, Opening
    <2>3. CASE Silent /\ (station' = "up" <=> station = "up")
      BY <1>0, <1>1, <2>1, <2>3 DEF Online, Silent
    <2>4. CASE Post("Trying") /\ station # "up" /\ station' # "up"
      <3>1. ~lost' => (OnlineSoon' <=> OnlineSoon) /\ ~lost
        BY <1>0, <2>1, <2>4, PostOnline, CommandsAre DEF OnlineKinds
      <3> QED  BY <1>0, <2>1, <2>4, <3>1 DEF Online
    <2>5. CASE Post("GotIp") /\ station' = "up"
      <3>1. ~lost' => OnlineSoon'
        BY <1>0, <2>1, <2>5, PostOnline, CommandsAre
      <3> QED  BY <2>5, <3>1 DEF Online
    <2>6. CASE Post("Disconnected") /\ station' # "up"
      <3>1. ~lost' => ~OnlineSoon'
        BY <1>0, <2>1, <2>6, PostOnline, CommandsAre
      <3> QED  BY <2>6, <3>1 DEF Online
    <2> QED  BY <1>11, <2>3, <2>4, <2>5, <2>6, StationMoves
  <1>12. CASE World
    <2>1. UNCHANGED <<Call, station, online, shutting>>
      BY <1>0, <1>12, WorldMoves
    <2>2. ~lost' => (OnlineSoon' <=> OnlineSoon) /\ ~lost
      <3>1. CASE UNCHANGED <<queue, lost>>  BY <1>1, <2>1, <3>1
      <3>2. ASSUME NEW e \in {"StartWifi", "CloseSetup", "Shutdown"}, Joins(e),
                   UNCHANGED lost
            PROVE  ~lost' => (OnlineSoon' <=> OnlineSoon) /\ ~lost
        BY <1>0, <2>1, <3>2, JoinsOnline, CommandsAre DEF OnlineKinds
      <3>3. CASE Post("Timeout")
        BY <1>0, <2>1, <3>3, PostOnline, CommandsAre DEF OnlineKinds
      <3> QED  BY <1>0, <1>12, <3>1, <3>2, <3>3, WorldMoves
    <2> QED  BY <1>0, <2>1, <2>2 DEF Online
  <1>13. CASE UNCHANGED vars
    <2>1. UNCHANGED <<Call, station, online, shutting, queue, lost>>
      BY <1>13 DEF vars, Call
    <2> QED  BY <1>0, <1>1, <2>1 DEF Online
  <1> QED
    BY <1>2, <1>3, <1>4, <1>5, <1>6, <1>7, <1>8, <1>9, <1>10, <1>11, <1>12,
       <1>13
    DEF Next, Tasks, Manager

LEMMA PostLife ==
    ASSUME TypeOK, NEW e \in Commands, Post(e), UNCHANGED life, ~lost'
    PROVE  /\ ~lost
           /\ e \notin LifeKinds => /\ ConnectingSoon' <=> ConnectingSoon
                                    /\ ProvisioningSoon' <=> ProvisioningSoon
           /\ e \in LifeKinds \ {"Trying", "Disconnected"} => ~ConnectingSoon'
           /\ e \in LifeKinds \ {"PortalEnter"} => ~ProvisioningSoon'
  <1>1. Joins(e) /\ lost' = lost  BY PostsOrLoses
  <1> QED  BY <1>1, JoinsLife

\* A handler leaves the radio alone, and sets the screen as its command says or
\* starts what it shows.
LEMMA ScreenHandled ==
    ASSUME IInv, Controller
    PROVE  Screen'
  <1>0. TypeOK /\ Calls /\ BootFirst /\ Screen  BY DEF IInv
  <1>1. UNCHANGED <<station, portal, lost, late>>
    BY DEF Controller, HandleBoot, HandleStartWifi, HandleCloseSetup,
      HandleShutdown, Ignore, HandleTrying, HandleGotIp, HandleDisconnected,
      HandlePortalEnter, HandlePortalExit, HandleTimeout
  <1>2. Call = Nothing /\ ExitCall' = ExitCall /\ Call' # HotspotTold
    <2>1. /\ Call = Nothing /\ ExitCall' = ExitCall
          /\ Call' \in {Nothing, Start, Provision, Switch, Close, Stop}
      BY <1>0, ControllerMoves
    <2> QED  BY <2>1, Heads, Distinct
  <1>3. /\ ConnectingBacked => ConnectingBacked'
        /\ ProvisioningBacked => ProvisioningBacked'
    <2>1. /\ Nothing \notin Starting \union Opening \union {CloseTell}
          /\ Nothing \notin Provisioning
          /\ Nothing \notin Switching \union {Hotspot, HotspotTell, HotspotOpen}
          /\ Nothing \notin {CloseTell, StartAfterPortal}
      BY Distinct DEF Starting, Opening, Provisioning, Switching
    <2> QED  BY <1>1, <1>2, <2>1, Zenon DEF ConnectingBacked, ProvisioningBacked
  <1>4. ASSUME /\ ~shutting
               /\ ConnectingSoon' => ConnectingSoon \/ ConnectingBacked'
               /\ ProvisioningSoon' => ProvisioningSoon \/ ProvisioningBacked'
        PROVE  Screen'
    BY <1>0, <1>1, <1>2, <1>3, <1>4 DEF Screen
  <1>5. CASE HandleShutdown \/ Ignore
    BY <1>5 DEF Screen, HandleShutdown, Ignore
  <1>6. CASE HandleBoot
    <2>1. ~shutting  BY <1>0, <1>6, BootBeforeStop DEF HandleBoot
    <2>2. Call' = IF creds THEN Start ELSE Provision
      BY <1>0, <1>2, <1>6, RunsCall, HandlersRun, AllPrograms DEF HandleBoot
    <2>3. CASE creds
      <3>1. ConnectingBacked'  BY <2>2, <2>3 DEF ConnectingBacked, Starting
      <3>2. ProvisioningSoon' => ProvisioningSoon
        BY <1>0, <1>6, <2>3, TakesLife DEF HandleBoot
      <3> QED  BY <1>4, <2>1, <3>1, <3>2
    <2>4. CASE ~creds
      <3>1. ProvisioningBacked'  BY <2>2, <2>4 DEF ProvisioningBacked, Switching
      <3>2. ConnectingSoon' => ConnectingSoon
        BY <1>0, <1>6, <2>4, TakesLife DEF HandleBoot
      <3> QED  BY <1>4, <2>1, <3>1, <3>2
    <2> QED  BY <2>3, <2>4
  <1>7. CASE HandleStartWifi
    <2>1. Call' = Switch
      BY <1>0, <1>2, <1>7, RunsCall, HandlersRun, AllPrograms DEF HandleStartWifi
    <2>2. ProvisioningBacked'  BY <2>1 DEF ProvisioningBacked, Switching
    <2>3. (ConnectingSoon' => ConnectingSoon) /\ ~shutting
      BY <1>0, <1>7, TakesLife DEF HandleStartWifi
    <2> QED  BY <1>4, <2>2, <2>3
  <1>8. CASE HandlePortalExit
    <2>1. Call' = IF creds THEN Start ELSE Nothing
      BY <1>0, <1>2, <1>8, RunsCall, HandlersRun, AllPrograms DEF HandlePortalExit
    <2>2. (ProvisioningSoon' => ProvisioningSoon) /\ ~shutting
      BY <1>0, <1>8, TakesLife DEF HandlePortalExit, EventTaken
    <2>3. CASE creds
      <3>1. ConnectingBacked'  BY <2>1, <2>3 DEF ConnectingBacked, Starting
      <3> QED  BY <1>4, <2>2, <3>1
    <2>4. CASE ~creds
      <3>1. ConnectingSoon' => ConnectingSoon
        BY <1>0, <1>8, <2>4, TakesLife DEF HandlePortalExit, EventTaken
      <3> QED  BY <1>4, <2>2, <3>1
    <2> QED  BY <2>3, <2>4
  <1>9. CASE HandleCloseSetup \/ HandleTimeout
    <2>1. /\ ~shutting /\ life' = life
          /\ \E command \in {"CloseSetup", "Timeout"} : Take(command)
      BY <1>9 DEF HandleCloseSetup, HandleTimeout, EventTaken
    <2>2. /\ ConnectingSoon' => ConnectingSoon
          /\ ProvisioningSoon' => ProvisioningSoon
      BY <1>0, <2>1, TakesLife DEF LifeKinds
    <2> QED  BY <1>4, <2>1, <2>2
  <1>10. CASE HandleTrying \/ HandleDisconnected
    <2>1. /\ ~shutting /\ life' = "connecting"
          /\ \E command \in {"Trying", "Disconnected"} : Take(command)
      BY <1>10 DEF HandleTrying, HandleDisconnected, EventTaken
    <2>2. /\ ConnectingSoon' => ConnectingSoon
          /\ ProvisioningSoon' => ProvisioningSoon
      BY <1>0, <2>1, TakesLife
    <2> QED  BY <1>4, <2>1, <2>2
  <1>11. CASE HandleGotIp
    <2>1. ~shutting /\ life' = "up" /\ Take("GotIp")
      BY <1>11 DEF HandleGotIp, EventTaken
    <2>2. /\ ConnectingSoon' => ConnectingSoon
          /\ ProvisioningSoon' => ProvisioningSoon
      BY <1>0, <2>1, TakesLife
    <2> QED  BY <1>4, <2>1, <2>2
  <1>12. CASE HandlePortalEnter
    <2>1. ~shutting /\ life' = "provisioning" /\ Take("PortalEnter")
      BY <1>12 DEF HandlePortalEnter, EventTaken
    <2>2. /\ ConnectingSoon' => ConnectingSoon
          /\ ProvisioningSoon' => ProvisioningSoon
      BY <1>0, <2>1, TakesLife
    <2> QED  BY <1>4, <2>1, <2>2
  <1> QED
    BY <1>5, <1>6, <1>7, <1>8, <1>9, <1>10, <1>11, <1>12 DEF Controller

\* A step of the controller's call.
LEMMA ScreenManaged ==
    ASSUME IInv, Manager("controller")
    PROVE  Screen'
  <1>0. TypeOK /\ Calls /\ Radio /\ Stopped /\ Screen  BY DEF IInv
  <1>1. ASSUME UNCHANGED <<queue, life>>
        PROVE  /\ ConnectingSoon' <=> ConnectingSoon
               /\ ProvisioningSoon' <=> ProvisioningSoon
    BY <1>1 DEF ConnectingSoon, ProvisioningSoon
  <1>2. CASE Call \in Stopping
    <2>1. shutting'  BY <1>0, <1>2, StoppingMoves DEF Stopped
    <2> QED  BY <2>1 DEF Screen
  <1>3. CASE MStationStop("controller") /\ Call \notin Stopping
    <2>1. Call = Switch /\ Call' \in {Provision, SwitchTell}
      BY <1>0, <1>3, StationStopMoves DEF Stopping
    <2>2. UNCHANGED <<queue, life, lost, late, shutting, portal>>
      BY <1>3 DEF MStationStop
    <2>3. ProvisioningBacked' /\ Call' # HotspotTold
      BY <2>1, Heads DEF ProvisioningBacked, Switching
    <2>4. ConnectingBacked => ConnectingBacked'
      <3>1. ~portal => ConnectingBacked'
        BY <2>1, <2>2 DEF ConnectingBacked, Provisioning, Switching
      <3>2. Call \notin Starting \union Opening \union {CloseTell}
        BY <2>1, Heads DEF Starting, Opening
      <3> QED  BY <1>0, <3>1, <3>2 DEF ConnectingBacked, Radio
    <2> QED  BY <1>0, <1>1, <2>2, <2>3, <2>4 DEF Screen
  <1>4. CASE MStationStart("controller")
    <2>1. /\ UNCHANGED <<queue, life, lost, late, shutting, station>>
          /\ portal' = portal \/ (station = "off" /\ portal)
      BY <1>4 DEF MStationStart
    <2>2. /\ Call = Start /\ ExitCall' = ExitCall
          /\ Call' \in {Nothing, StartAfterPortal, StartOpen}
      BY <1>0, <1>4, StationStartMoves
    <2>3. ConnectingBacked'
      BY <1>0, <1>4, <2>1, StationStartMoves DEF ConnectingBacked, Starting
    <2>4. Call' # HotspotTold  BY <2>2, Heads, Distinct
    <2>5. ProvisioningBacked => ProvisioningBacked'
      <3>1. /\ Call \notin Switching \union {Hotspot, HotspotTell, HotspotOpen}
            /\ Call \notin {CloseTell, StartAfterPortal}
        BY <2>2, Heads DEF Switching
      <3>2. station = "off" /\ portal => Call' = StartAfterPortal
        BY <1>0, <1>4, StationStartMoves
      <3> QED  BY <2>1, <2>2, <3>1, <3>2 DEF ProvisioningBacked
    <2> QED  BY <1>0, <1>1, <2>1, <2>3, <2>4, <2>5 DEF Screen
  <1>5. CASE MStationOpen("controller")
    <2>1. /\ UNCHANGED <<queue, life, lost, late, shutting, portal>>
          /\ station' = "starting"
      BY <1>5 DEF MStationOpen, StationOn
    <2>2. Call = StartOpen /\ Call' = Nothing /\ ExitCall' = ExitCall
      BY <1>0, <1>5, StationOpenMoves
    <2>3. /\ Call \notin Switching \union {Hotspot, HotspotTell, HotspotOpen}
          /\ Call \notin {CloseTell, StartAfterPortal}
          /\ Call' # HotspotTold
      BY <2>2, Heads, Lengths, Distinct DEF Switching
    <2>4. ProvisioningBacked => ProvisioningBacked'
      BY <2>1, <2>2, <2>3 DEF ProvisioningBacked
    <2>5. ConnectingBacked'  BY <2>1 DEF ConnectingBacked
    <2> QED  BY <1>0, <1>1, <2>1, <2>3, <2>4, <2>5 DEF Screen
  <1>6. CASE MApStop("controller") /\ Call \notin Stopping
    <2>1. /\ UNCHANGED <<queue, life, lost, late, shutting, station>> /\ ~portal'
          /\ ExitCall' = ExitCall
      BY <1>0, <1>6, ApStopMoves DEF MApStop
    <2>2. /\ Call = CloseAp
          /\ Call' = IF portal THEN CloseTell ELSE Nothing
      BY <1>0, <1>6, ApStopMoves DEF Stopping
    <2>3. CASE portal
      <3>1. ConnectingBacked' /\ ProvisioningBacked' /\ Call' # HotspotTold
        BY <2>2, <2>3, Heads DEF ConnectingBacked, ProvisioningBacked
      <3> QED  BY <3>1 DEF Screen
    <2>4. CASE ~portal
      <3>1. /\ Call \notin Starting \union Opening \union {CloseTell}
            /\ Call \notin Provisioning
            /\ Call \notin Switching \union {Hotspot, HotspotTell, HotspotOpen}
            /\ Call \notin {CloseTell, StartAfterPortal}
        BY <2>2, Heads DEF Starting, Opening, Provisioning, Switching
      <3>2. /\ ConnectingBacked => ConnectingBacked'
            /\ ProvisioningBacked => ProvisioningBacked'
        BY <2>1, <2>4, <3>1 DEF ConnectingBacked, ProvisioningBacked
      <3>3. Call' # HotspotTold  BY <2>2, <2>4, Distinct
      <3> QED  BY <1>0, <1>1, <2>1, <3>2, <3>3 DEF Screen
    <2> QED  BY <2>3, <2>4
  <1>7. CASE MApStart("controller")
    <2>1. UNCHANGED <<queue, life, lost, late, shutting, portal>> /\ ExitCall' = ExitCall
      BY <1>0, <1>7, ApStartMoves DEF MApStart
    <2>2. CASE portal
      <3>1. Call = Hotspot /\ Call' = Nothing /\ station' = station
        BY <1>0, <1>7, <2>2, ApStartMoves DEF MApStart
      <3>2. /\ Call \notin Starting \union Opening \union {CloseTell}
            /\ Call' # HotspotTold
        BY <3>1, Heads, Distinct DEF Starting, Opening
      <3>3. ConnectingBacked => ConnectingBacked'
        BY <2>2, <3>1, <3>2 DEF ConnectingBacked
      <3>4. ProvisioningBacked'  BY <2>1, <2>2 DEF ProvisioningBacked
      <3> QED  BY <1>0, <1>1, <2>1, <3>2, <3>3, <3>4 DEF Screen
    <2>3. CASE ~portal
      <3>1. Call' \in {HotspotTell, HotspotOpen}
        BY <1>0, <1>7, <2>3, ApStartMoves
      <3>2. ConnectingBacked' /\ ProvisioningBacked' /\ Call' # HotspotTold
        BY <3>1, Heads DEF ConnectingBacked, ProvisioningBacked, Opening
      <3> QED  BY <3>2 DEF Screen
    <2> QED  BY <2>2, <2>3
  <1>8. CASE MApOpen("controller")
    <2>1. Call' = HotspotTold /\ portal'
      BY <1>0, <1>8, ApOpenMoves DEF MApOpen
    <2>2. ConnectingBacked' /\ ProvisioningBacked'
      BY <2>1 DEF ConnectingBacked, ProvisioningBacked, Opening
    <2> QED  BY <2>1, <2>2 DEF Screen
  <1>9. CASE MTimer("controller") /\ Call \notin Stopping
    <2>1. UNCHANGED <<queue, life, lost, late, shutting, portal, station>>
      BY <1>9 DEF MTimer
    <2>2. /\ ExitCall' = ExitCall
          /\ \/ /\ Call \in {Provision, ProvisionArm}
                /\ Call' \in {ProvisionArm, Hotspot}
             \/ Call = Close /\ Call' = CloseAp
      BY <1>0, <1>9, TimerMoves DEF Stopping
    <2>3. Call \notin Starting \union Opening \union {CloseTell} /\ Call' # HotspotTold
      BY <2>2, Heads, Distinct DEF Starting, Opening
    <2>4. CASE Call \in {Provision, ProvisionArm} /\ Call' \in {ProvisionArm, Hotspot}
      <3>1. ProvisioningBacked'  BY <2>4 DEF ProvisioningBacked, Switching
      <3>2. ConnectingBacked => ConnectingBacked'
        BY <2>1, <2>3, <2>4 DEF ConnectingBacked, Provisioning, Switching
      <3> QED  BY <1>0, <1>1, <2>1, <2>3, <3>1, <3>2 DEF Screen
    <2>5. CASE Call = Close /\ Call' = CloseAp
      <3>1. /\ Call \notin Provisioning
            /\ Call \notin Switching \union {Hotspot, HotspotTell, HotspotOpen}
            /\ Call \notin {CloseTell, StartAfterPortal}
        BY <2>5, Heads, Distinct DEF Opening, Provisioning, Switching
      <3>2. /\ ConnectingBacked => ConnectingBacked'
            /\ ProvisioningBacked => ProvisioningBacked'
        BY <2>1, <2>2, <2>3, <3>1 DEF ConnectingBacked, ProvisioningBacked
      <3> QED  BY <1>0, <1>1, <2>1, <2>3, <3>2 DEF Screen
    <2> QED  BY <2>2, <2>4, <2>5
  <1>10. CASE MReady("controller")
    <2>1. Call \in Stopping  BY <1>0, <1>10, ReadyMoves DEF Stopping
    <2> QED  BY <1>2, <2>1
  <1>11. ASSUME NEW event \in Events, MNotify("controller", event), Call \notin Stopping
         PROVE  Screen'
    <2>0. SUFFICES ASSUME ~lost', ~late', ~shutting' PROVE Screen'  BY DEF Screen
    <2>1. /\ Post(event) /\ UNCHANGED <<life, shutting, portal, station, late>>
          /\ event \in Commands /\ ExitCall' = ExitCall
      BY <1>0, <1>11, NotifyMoves DEF MNotify, Commands, TypeOK
    <2>2. CASE event = "Disconnected"
      <3>1. /\ Call \in {SwitchTell, HotspotTell} /\ ~portal
            /\ Call' \in {Provision, HotspotOpen}
        BY <1>0, <1>11, <2>2, NotifyMoves DEF Stopping, Radio
      <3>2. ConnectingBacked'
        BY <2>1, <3>1 DEF ConnectingBacked, Provisioning, Switching, Opening
      <3>3. ProvisioningBacked' /\ Call' # HotspotTold
        BY <3>1, Heads DEF ProvisioningBacked, Switching
      <3> QED  BY <3>2, <3>3 DEF Screen
    <2>3. CASE event = "PortalEnter"
      <3>1. Call = HotspotTold /\ Call' = Nothing /\ Call' # HotspotTold
        BY <1>0, <1>11, <2>3, NotifyMoves, Distinct
      <3>2. ~ConnectingSoon' /\ ~lost
        BY <1>0, <2>0, <2>1, <2>3, PostLife DEF LifeKinds
      <3>3. ProvisioningBacked'
        BY <1>0, <2>0, <2>1, <3>1, <3>2 DEF Screen, ProvisioningBacked
      <3> QED  BY <3>1, <3>2, <3>3 DEF Screen
    <2>4. CASE event = "PortalExit"
      <3>1. Call' \in {StartOpen, Nothing, StopSta}
        BY <1>0, <1>11, <2>4, NotifyMoves
      <3>2. Call' # HotspotTold  BY <3>1, Heads, Distinct
      <3>3. ~ConnectingSoon' /\ ~ProvisioningSoon'
        BY <1>0, <2>0, <2>1, <2>4, PostLife DEF LifeKinds
      <3> QED  BY <3>2, <3>3 DEF Screen
    <2> QED  BY <1>0, <1>11, <2>2, <2>3, <2>4, NotifyMoves
  <1> QED
    BY <1>2, <1>3, <1>4, <1>5, <1>6, <1>7, <1>8, <1>9, <1>10, <1>11 DEF Manager

LEMMA ScreenKeeps ==
    ASSUME IInv, [Next]_vars
    PROVE  Screen'
  <1>0. TypeOK /\ Calls /\ Radio /\ Stopped /\ Screen  BY DEF IInv
  <1>1. ASSUME UNCHANGED <<queue, life>>
        PROVE  /\ ConnectingSoon' <=> ConnectingSoon
               /\ ProvisioningSoon' <=> ProvisioningSoon
    BY <1>1 DEF ConnectingSoon, ProvisioningSoon
  <1>2. CASE Manager("exit")
    <2>0. Call' = Call  BY <1>0, <1>2, ExitMoves
    <2>1. CASE MApStop("exit") /\ ExitCall = CloseAp
      <3>1. UNCHANGED <<queue, life, lost, late, shutting, station>> /\ ~portal'
        BY <2>1 DEF MApStop
      <3>2. ConnectingBacked => ConnectingBacked'
        BY <2>0, <3>1 DEF ConnectingBacked
      <3>3. CASE portal
        <4>1. ExitCall' = CloseTell
          <5>1. Continue("exit", <<"PortalExit">>)  BY <2>1, <3>3 DEF MApStop
          <5>2. <<"PortalExit">> \o Tail(ExitCall) = CloseTell
            BY <2>1, Tails, Added
          <5> QED  BY <1>0, <5>1, <5>2, ExitCallGoesOn
        <4> QED  BY <1>0, <1>1, <3>1, <3>2, <4>1 DEF Screen, ProvisioningBacked
      <3>4. CASE ~portal
        <4>1. ExitCall # CloseTell  BY <2>1, Heads
        <4>2. ProvisioningBacked => ProvisioningBacked'
          BY <2>0, <3>4, <4>1 DEF ProvisioningBacked
        <4> QED  BY <1>0, <1>1, <2>0, <3>1, <3>2, <3>4, <4>1, <4>2 DEF Screen
      <3> QED  BY <3>3, <3>4
    <2>2. CASE MNotify("exit", "PortalExit")
      <3>0. SUFFICES ASSUME ~lost', ~late', ~shutting' PROVE Screen'  BY DEF Screen
      <3>1. Post("PortalExit") /\ life' = life /\ (Call # Nothing => late')
        BY <2>2 DEF MNotify, Call, Nothing
      <3>2. ~ConnectingSoon' /\ ~ProvisioningSoon'
        BY <1>0, <3>0, <3>1, PostLife, CommandsAre DEF LifeKinds
      <3>3. Call' # HotspotTold  BY <2>0, <3>0, <3>1, Distinct
      <3> QED  BY <3>2, <3>3 DEF Screen
    <2> QED  BY <1>0, <1>2, <2>1, <2>2, ExitMoves
  <1>3. CASE Station
    <2>1. /\ station' # "off"
          /\ UNCHANGED <<Call, ExitCall, portal, late, life, shutting>>
      BY <1>3, StationMoves DEF Call, ExitCall
    <2>2. ConnectingBacked' /\ (ProvisioningBacked => ProvisioningBacked')
      BY <2>1 DEF ConnectingBacked, ProvisioningBacked
    <2>3. CASE Silent
      BY <1>0, <1>1, <2>1, <2>2, <2>3 DEF Screen, Silent
    <2>4. ASSUME NEW e \in {"Trying", "GotIp", "Disconnected"}, Post(e) PROVE Screen'
      <3>1. ~lost' => ~ProvisioningSoon' /\ ~lost
        BY <1>0, <2>1, <2>4, PostLife, CommandsAre DEF LifeKinds
      <3> QED  BY <1>0, <2>1, <2>2, <3>1 DEF Screen
    <2> QED  BY <1>3, <2>3, <2>4, StationMoves
  <1>4. CASE World
    <2>1. UNCHANGED <<Call, station, portal, late, life, shutting>>
      BY <1>0, <1>4, WorldMoves
    <2>2. ConnectingBacked => ConnectingBacked'
      BY <2>1 DEF ConnectingBacked
    <2>3. /\ ProvisioningBacked => ProvisioningBacked'
          /\ portal \/ ExitCall = CloseTell => portal' \/ ExitCall' = CloseTell
      <3>1. portal \/ ExitCall' = ExitCall  BY <1>0, <1>4, WorldMoves
      <3> QED  BY <2>1, <3>1 DEF ProvisioningBacked
    <2>4. ~lost' => /\ ~lost
                    /\ ConnectingSoon' <=> ConnectingSoon
                    /\ ProvisioningSoon' <=> ProvisioningSoon
      <3>1. CASE UNCHANGED <<queue, lost>>  BY <1>1, <2>1, <3>1
      <3>2. ASSUME NEW e \in {"StartWifi", "CloseSetup", "Shutdown"}, Joins(e),
                   UNCHANGED lost
            PROVE  ~lost' => /\ ~lost
                             /\ ConnectingSoon' <=> ConnectingSoon
                             /\ ProvisioningSoon' <=> ProvisioningSoon
        BY <1>0, <2>1, <3>2, JoinsLife, CommandsAre DEF LifeKinds
      <3>3. CASE Post("Timeout")
        BY <1>0, <2>1, <3>3, PostLife, CommandsAre DEF LifeKinds
      <3> QED  BY <1>0, <1>4, <3>1, <3>2, <3>3, WorldMoves
    <2> QED  BY <1>0, <2>1, <2>2, <2>3, <2>4 DEF Screen
  <1>5. CASE UNCHANGED vars
    <2>1. UNCHANGED <<Call, ExitCall, station, portal, late, life, shutting, queue, lost>>
      BY <1>5 DEF vars, Call, ExitCall
    <2> QED
      BY <1>0, <1>1, <2>1 DEF Screen, ConnectingBacked, ProvisioningBacked
  <1> QED
    BY <1>2, <1>3, <1>4, <1>5, ScreenHandled, ScreenManaged DEF Next, Tasks

-------------------------------------------------------------------------------
(* The theorems *)

LEMMA InitHolds == Init => IInv
  <1> SUFFICES ASSUME Init PROVE IInv  OBVIOUS
  <1>1. /\ Call = Nothing /\ ExitCall = Nothing /\ Nothing \in Programs
        /\ queue = <<"Boot">> /\ Len(queue) = 1 /\ queue[1] = "Boot"
    BY AllPrograms DEF Init, Call, ExitCall, Tasks, Nothing
  <1>2. TypeOK
    <2>1. queue \in Seq(Commands) /\ Len(queue) <= QueueDepth
      BY <1>1, CommandsAre, WifiConstants
    <2>2. prog \in [Tasks -> Seq(Steps)]  BY DEF Init
    <2>3. /\ tries \in 0..MaxReconnect /\ others \in 0..MaxSaved - 1
          /\ station \in {"off", "starting", "scanning", "trying", "up", "resting"}
          /\ life \in {"boot", "connecting", "provisioning", "required", "up", "sleep"}
      BY WifiConstants DEF Init
    <2>4. /\ creds \in BOOLEAN /\ inRange \in BOOLEAN
          /\ portal \in BOOLEAN /\ portalTimer \in BOOLEAN /\ late \in BOOLEAN
          /\ online \in BOOLEAN /\ lost \in BOOLEAN
          /\ shutting \in BOOLEAN /\ ready \in BOOLEAN
      BY Zenon DEF Init
    <2> QED  BY <2>1, <2>2, <2>3, <2>4 DEF TypeOK
  <1>3. Calls  BY <1>1 DEF Init, Calls, Nothing
  <1>4. BootFirst  BY <1>1 DEF Init, BootFirst
  <1>5. Radio
    <2>1. /\ Nothing \notin {SwitchTell, StartAfterPortal, StartOpen} \union Opening
          /\ Nothing \notin {StopStaTell, StopReady}
      BY Distinct DEF Opening
    <2> QED  BY <1>1, <2>1 DEF Init, Radio
  <1>6. Stopped /\ Window
    <2>1. Nothing \notin Stopping /\ Nothing \notin {Hotspot} \union Opening
      BY Distinct DEF Opening, Stopping
    <2> QED  BY <1>1, <2>1 DEF Init, Stopped, Window
  <1>7. Online
    <2>1. ~OnlineSoon
      BY <1>1 DEF Init, OnlineSoon, OnlineKinds, LastOf
    <2> QED  BY <2>1 DEF Init, Online
  <1>8. Screen
    <2>1. ~ConnectingSoon /\ ~ProvisioningSoon
      BY <1>1 DEF Init, ConnectingSoon, ProvisioningSoon, LifeKinds, LastOf
    <2> QED  BY <1>1, <2>1, Distinct DEF Screen
  <1> QED  BY <1>2, <1>3, <1>4, <1>5, <1>6, <1>7, <1>8 DEF IInv

LEMMA StepKeeps == IInv /\ [Next]_vars => IInv'
  <1> SUFFICES ASSUME IInv, [Next]_vars PROVE IInv'  OBVIOUS
  <1>1. TypeOK /\ Calls /\ BootFirst  BY DEF IInv
  <1>2. TypeOK' /\ Calls' /\ BootFirst'
    BY <1>1, TypeKeeps, CallsKeep, BootKeeps
  <1> QED
    BY <1>2, RadioKeeps, StoppedKeeps, WindowKeeps, OnlineKeeps, ScreenKeeps
    DEF IInv

LEMMA Invariant == Spec => []IInv
  <1>1. Init => IInv  BY InitHolds
  <1>2. IInv /\ [Next]_vars => IInv'  BY StepKeeps
  <1> QED  BY <1>1, <1>2, PTL DEF Spec

\* With nothing to do and nothing queued the predictions are the present.
LEMMA QuietIsNow ==
    ASSUME Idle, queue = <<>>
    PROVE  /\ Call = Nothing /\ ExitCall = Nothing
           /\ OnlineSoon <=> online
           /\ life = "connecting" => ConnectingSoon
           /\ life = "provisioning" => ProvisioningSoon
  <1>1. Call = Nothing /\ ExitCall = Nothing
    BY DEF Idle, Tasks, Call, ExitCall, Nothing
  <1>2. \A kinds, e : NoneOf(queue, kinds) /\ ~LastOf(queue, kinds, e)
    BY DEF NoneOf, LastOf
  <1> QED  BY <1>1, <1>2 DEF OnlineSoon, ConnectingSoon, ProvisioningSoon

\* Every variable keeps its type; a station that is on waits for its driver or
\* its timer (wifi_station.cc: WifiEventHandler, HandleScanResult).
THEOREM WifiTypes == Spec => []TypeOK
  <1>1. IInv => TypeOK  BY DEF IInv
  <1> QED  BY <1>1, Invariant, PTL

\* Station and setup hotspot are never on together, whatever the two tasks that
\* call WifiManager do between its critical sections (wifi_manager.cc:
\* StartStation, StartConfigAp).
THEOREM WifiOneMode == Spec => []OneMode
  <1>1. IInv => OneMode  BY DEF IInv, Radio, OneMode
  <1> QED  BY <1>1, Invariant, PTL

\* An open setup hotspot has a running window or an end that is on its way,
\* unless one of the two known losses happened (wifi_adapter.cc:
\* wifi_event_callback, wifi_adapter_start_provisioning).
THEOREM WifiPortalBounded == Spec => []PortalBounded
  <1>1. IInv => PortalBounded
    <2> SUFFICES ASSUME IInv, portal, Call = Nothing, ~portalTimer, ~lost, ~late
                 PROVE  \E i \in DOMAIN queue : queue[i] \in {"Timeout", "Shutdown"}
      BY DEF PortalBounded, Call, Nothing
    <2>1. Ends /\ queue \in Seq(Commands)  BY DEF IInv, Window, TypeOK
    <2>2. DOMAIN queue = 1..Len(queue)  BY <2>1
    <2> QED  BY <2>1, <2>2 DEF Ends, NoneOf
  <1> QED  BY <1>1, Invariant, PTL

\* When every event is handled, "online" is the station's address
\* (app_controller.c: handle_wifi_event).
THEOREM WifiOnlineAgrees == Spec => []OnlineAgrees
  <1>1. IInv => OnlineAgrees
    <2> SUFFICES ASSUME IInv, Idle, queue = <<>>, ~lost
                 PROVE  online <=> station = "up"
      BY DEF OnlineAgrees
    <2>1. Call = Nothing /\ (OnlineSoon <=> online)  BY QuietIsNow
    <2>2. Nothing \notin {Switch, SwitchTell, HotspotTell}  BY Distinct
    <2>3. CASE shutting  BY <2>1, <2>3 DEF IInv, Stopped
    <2>4. CASE ~shutting  BY <2>1, <2>2, <2>4 DEF IInv, Online
    <2> QED  BY <2>3, <2>4
  <1> QED  BY <1>1, Invariant, PTL

\* When every event is handled, the screen's "connecting" and "provisioning"
\* have a station or a hotspot behind them (app_controller.c:
\* handle_wifi_event).
THEOREM WifiScreenTruthful == Spec => []ScreenTruthful
  <1>1. IInv => ScreenTruthful
    <2> SUFFICES ASSUME IInv, Idle, queue = <<>>, ~lost, ~late
                 PROVE  /\ life = "connecting" => station # "off"
                        /\ life = "provisioning" => portal
      BY DEF ScreenTruthful
    <2>1. /\ Call = Nothing /\ ExitCall = Nothing
          /\ life = "connecting" => ConnectingSoon
          /\ life = "provisioning" => ProvisioningSoon
      BY QuietIsNow
    <2>2. CASE shutting  BY <2>2 DEF IInv, Stopped
    <2>3. CASE ~shutting
      <3>1. /\ ConnectingSoon => ConnectingBacked
            /\ ProvisioningSoon => ProvisioningBacked
        BY <2>3 DEF IInv, Screen
      <3>2. /\ Nothing \notin Starting \union Opening \union {CloseTell}
            /\ Nothing \notin Provisioning
            /\ Nothing \notin Switching \union {Hotspot, HotspotTell, HotspotOpen}
            /\ Nothing \notin {CloseTell, StartAfterPortal}
        BY Distinct DEF Starting, Opening, Provisioning, Switching
      <3> QED
        BY <2>1, <3>1, <3>2, Zenon DEF ConnectingBacked, ProvisioningBacked
    <2> QED  BY <2>2, <2>3
  <1> QED  BY <1>1, Invariant, PTL

\* Nothing brings the radio back once the network is reported stopped
\* (app_controller.c: APP_SHUTDOWN_READY_BIT).
THEOREM WifiQuietAfterReady == Spec => []QuietAfterReady
  <1>1. IInv => QuietAfterReady  BY DEF IInv, Stopped, QuietAfterReady
  <1> QED  BY <1>1, Invariant, PTL

-------------------------------------------------------------------------------
(* The program keeps the promise of RadioPromise *)

\* The modes that are open.
On == {mode \in {"station", "hotspot"} :
          IF mode = "station" THEN station # "off" ELSE portal}

LEMMA OnIs ==
    /\ station = "off" /\ ~portal => On = {}
    /\ station # "off" /\ ~portal => On = {"station"}
    /\ station = "off" /\ portal => On = {"hotspot"}
  BY DEF On

LEMMA OnWillBe ==
    /\ station' = "off" /\ ~portal' => On' = {}
    /\ station' # "off" /\ ~portal' => On' = {"station"}
    /\ station' = "off" /\ portal' => On' = {"hotspot"}
  BY DEF On

\* The promise is about nothing but what is open and the stop.
LEMMA RadioStays ==
    ASSUME station' = "off" <=> station = "off", UNCHANGED <<portal, shutting, ready>>
    PROVE  UNCHANGED Promise!radioVars
  <1>1. On' = On  BY DEF On
  <1> QED  BY <1>1 DEF Promise!radioVars, On

LEMMA RadioCloses ==
    ASSUME station' = "off", ~portal', UNCHANGED <<shutting, ready>>
    PROVE  Promise!RadioNext
  <1>1. On' = {}  BY OnWillBe
  <1> QED  BY <1>1 DEF Promise!RadioNext, Promise!Close, On

LEMMA RadioOpens ==
    ASSUME station = "off", ~portal, ~shutting, UNCHANGED <<shutting, ready>>,
           \/ station' # "off" /\ ~portal'
           \/ station' = "off" /\ portal'
    PROVE  Promise!RadioNext
  <1>1. On = {}  BY OnIs
  <1>2. PICK mode \in {"station", "hotspot"} : On' = {mode}  BY OnWillBe
  <1>3. Promise!Open(mode)  BY <1>1, <1>2 DEF Promise!Open, On
  <1> QED  BY <1>3 DEF Promise!RadioNext

\* The controller's calls: a mode opens while the other is closed and no stop is
\* under way, and the stop is reported with both closed.
LEMMA CallPromised ==
    ASSUME IInv, Manager("controller")
    PROVE  Promise!RadioNext \/ UNCHANGED Promise!radioVars
  <1>0. TypeOK /\ Calls /\ Radio /\ Stopped  BY DEF IInv
  <1>1. CASE MStationStop("controller")
    <2>1. CASE station = "off"
      <3>1. UNCHANGED <<station, portal, shutting, ready>>
        BY <1>1, <2>1 DEF MStationStop
      <3> QED  BY <3>1, RadioStays
    <2>2. CASE station # "off"
      <3>1. station' = "off" /\ ~portal' /\ UNCHANGED <<shutting, ready>>
        BY <1>0, <1>1, <2>2 DEF MStationStop, StationOff, Radio
      <3> QED  BY <3>1, RadioCloses
    <2> QED  BY <2>1, <2>2
  <1>2. CASE MStationStart("controller")
    <2>1. UNCHANGED <<station, shutting, ready>>
      BY <1>2 DEF MStationStart
    <2>2. portal' = portal \/ (station = "off" /\ ~portal')
      BY <1>2 DEF MStationStart
    <2> QED  BY <2>1, <2>2, RadioStays, RadioCloses
  <1>3. CASE MStationOpen("controller")
    <2>1. Call = StartOpen  BY <1>0, <1>3, StationOpenMoves
    <2>2. station = "off" /\ ~portal  BY <1>0, <2>1 DEF Radio
    <2>3. ~shutting
      <3>1. StartOpen \notin Stopping \union {Nothing}
        BY Heads, Distinct DEF Stopping
      <3> QED  BY <1>0, <2>1, <3>1 DEF Stopped
    <2>4. station' # "off" /\ UNCHANGED <<portal, shutting, ready>>
      BY <1>3 DEF MStationOpen, StationOn
    <2> QED  BY <2>2, <2>3, <2>4, RadioOpens
  <1>4. CASE MApStop("controller")
    <2>1. UNCHANGED <<station, shutting, ready>>  BY <1>4 DEF MApStop
    <2>2. portal' = portal \/ (station = "off" /\ ~portal')
      BY <1>0, <1>4 DEF MApStop, Radio
    <2> QED  BY <2>1, <2>2, RadioStays, RadioCloses
  <1>5. CASE MApStart("controller")
    <2>1. UNCHANGED <<portal, shutting, ready>>  BY <1>5 DEF MApStart
    <2>2. station' = station \/ (~portal /\ station' = "off")
      BY <1>5 DEF MApStart, StationOff
    <2> QED  BY <2>1, <2>2, RadioStays, RadioCloses
  <1>6. CASE MApOpen("controller")
    <2>1. Call = HotspotOpen  BY <1>0, <1>6, ApOpenMoves
    <2>2. station = "off" /\ ~portal  BY <1>0, <2>1 DEF Radio, Opening
    <2>3. ~shutting
      <3>1. HotspotOpen \notin Stopping \union {Nothing}
        BY Heads, Distinct DEF Stopping
      <3> QED  BY <1>0, <2>1, <3>1 DEF Stopped
    <2>4. portal' /\ UNCHANGED <<station, shutting, ready>>
      BY <1>6 DEF MApOpen
    <2> QED  BY <2>2, <2>3, <2>4, RadioOpens
  <1>7. CASE MReady("controller")
    <2>1. Call = StopReady  BY <1>0, <1>7, ReadyMoves
    <2>2. station = "off" /\ ~portal  BY <1>0, <2>1 DEF Radio
    <2>3. shutting  BY <1>0, <2>1 DEF Stopped, Stopping
    <2>4. On = {} /\ On' = On /\ ready' = TRUE /\ shutting' = shutting
      BY <1>7, <2>2, OnIs, OnWillBe DEF MReady
    <2> QED  BY <2>3, <2>4 DEF Promise!RadioNext, Promise!Report, On
  <1>8. CASE \/ MTimer("controller")
             \/ \E event \in Events : MNotify("controller", event)
    <2>1. UNCHANGED <<station, portal, shutting, ready>>
      BY <1>8 DEF MTimer, MNotify
    <2> QED  BY <2>1, RadioStays
  <1> QED
    BY <1>1, <1>2, <1>3, <1>4, <1>5, <1>6, <1>7, <1>8 DEF Manager

LEMMA RadioPromised ==
    ASSUME IInv, [Next]_vars
    PROVE  Promise!RadioNext \/ UNCHANGED Promise!radioVars
  <1>0. TypeOK /\ Calls /\ Radio /\ Stopped  BY DEF IInv
  <1>1. CASE Controller
    <2>1. UNCHANGED <<station, portal, ready>>
      BY <1>1 DEF Controller, HandleBoot, HandleStartWifi, HandleCloseSetup,
        HandleShutdown, Ignore, HandleTrying, HandleGotIp, HandleDisconnected,
        HandlePortalEnter, HandlePortalExit, HandleTimeout
    <2>2. CASE HandleShutdown
      <3>1. shutting' = TRUE /\ On' = On  BY <2>1, <2>2 DEF HandleShutdown, On
      <3> QED  BY <2>1, <3>1 DEF Promise!RadioNext, Promise!Stop, On
    <2>3. CASE ~HandleShutdown
      <3>1. shutting' = shutting
        BY <1>1, <2>3 DEF Controller, HandleBoot, HandleStartWifi, HandleCloseSetup,
          Ignore, HandleTrying, HandleGotIp, HandleDisconnected,
          HandlePortalEnter, HandlePortalExit, HandleTimeout
      <3> QED  BY <2>1, <3>1, RadioStays
    <2> QED  BY <2>2, <2>3
  <1>2. CASE Manager("controller")  BY <1>2, CallPromised
  <1>3. CASE Manager("exit")
    <2>1. UNCHANGED <<station, shutting, ready>>
      BY <1>0, <1>3, ExitMoves DEF MApStop, MNotify
    <2>2. portal' = portal \/ (station = "off" /\ ~portal')
      BY <1>0, <1>3, ExitMoves DEF MApStop, MNotify, Radio
    <2> QED  BY <2>1, <2>2, RadioStays, RadioCloses
  <1>4. CASE Station
    <2>1. /\ station # "off" /\ station' # "off"
          /\ UNCHANGED <<portal, shutting, ready>>
      BY <1>4, StationMoves
    <2> QED  BY <2>1, RadioStays
  <1>5. CASE World
    <2>1. UNCHANGED <<station, portal, shutting>>  BY <1>0, <1>5, WorldMoves
    <2>2. ready' = ready \/ ready' = FALSE  BY <1>0, <1>5, WorldMoves
    <2>3. CASE ready' = ready  BY <2>1, <2>3, RadioStays
    <2>4. CASE ready' = FALSE
      <3>1. On' = On  BY <2>1 DEF On
      <3> QED  BY <2>1, <2>4, <3>1 DEF Promise!RadioNext, Promise!AskAgain, On
    <2> QED  BY <2>2, <2>3, <2>4
  <1>6. CASE UNCHANGED vars
    <2>1. UNCHANGED <<station, portal, shutting, ready>>  BY <1>6 DEF vars
    <2> QED  BY <2>1, RadioStays
  <1> QED  BY <1>1, <1>2, <1>3, <1>4, <1>5, <1>6 DEF Next, Tasks

\* The manager's critical sections, the station, the exit page's task and the
\* shutdown implement RadioPromise (wifi_manager.cc: StartStation,
\* StartConfigAp; app_controller.c: handle_wifi_event, controller_task).
THEOREM RadioPromiseImplemented == Spec => RadioImplemented
  <1>1. Init => Promise!RadioInit
    <2> SUFFICES ASSUME Init PROVE Promise!RadioInit  OBVIOUS
    <2>1. On = {} /\ shutting = FALSE /\ ready = FALSE  BY OnIs DEF Init
    <2> QED  BY <2>1 DEF Promise!RadioInit, On
  <1>2. IInv /\ [Next]_vars => [Promise!RadioNext]_(Promise!radioVars)
    BY RadioPromised
  <1> QED
    BY <1>1, <1>2, Invariant, PTL DEF Spec, RadioImplemented, Promise!RadioSpec

-------------------------------------------------------------------------------
(***************************************************************************)
(* The saved networks, module WifiCredentials, for any number of places,   *)
(* names and passwords: what a restart finds, and the most that a save     *)
(* which does not end can cost.                                            *)
(***************************************************************************)
\* The place of a key; the one after a name is its password.
LEMMA KeyPlaces ==
    ASSUME NEW k \in 0..(Keys - 1)
    PROVE  /\ Place(k) \in Places
           /\ k + 1 \in 0..Keys
           /\ IsName(k) =>
                 /\ Place(k + 1) = Place(k)
                 /\ ~IsName(k + 1)
                 /\ k + 1 < Keys
           /\ ~IsName(k) =>
                 /\ Place(k + 1) = Place(k) + 1
                 /\ IsName(k + 1)
  <1>1. Capacity \in Nat \ {0} /\ k \in Nat /\ k < 2 * Capacity
    BY CredentialConstants DEF Keys
  <1>2. PICK h \in Nat : k = 2 * h \/ k = 2 * h + 1
    <2>1. k \div 2 \in Nat /\ (k = 2 * (k \div 2) \/ k = 2 * (k \div 2) + 1)
      BY <1>1
    <2> QED  BY <2>1
  <1>3. h < Capacity  BY <1>1, <1>2
  <1>4. CASE k = 2 * h
    <2>1. k \div 2 = h /\ k % 2 = 0 /\ (k + 1) \div 2 = h /\ (k + 1) % 2 = 1
      BY <1>2, <1>4
    <2> QED
      BY <1>1, <1>2, <1>3, <1>4, <2>1
         DEF Place, Places, IsName, Keys
  <1>5. CASE k = 2 * h + 1
    <2>1. /\ k \div 2 = h /\ k % 2 = 1
          /\ (k + 1) \div 2 = h + 1 /\ (k + 1) % 2 = 0
      BY <1>2, <1>5
    <2> QED
      BY <1>1, <1>2, <1>3, <1>5, <2>1
         DEF Place, Places, IsName, Keys
  <1> QED  BY <1>2, <1>4, <1>5

\* How many readable places there are up to one of them tells it from the others,
\* so that each entry of the list that is loaded has one place it comes from.
LEMMA SourcePlace ==
    ASSUME NEW length \in Nat, NEW kept \in SUBSET (1..length)
    PROVE  /\ Cardinality(kept) \in Nat /\ Cardinality(kept) <= length
           /\ \A n \in 1..Cardinality(kept) :
                 /\ Source(kept, n) \in kept
                 /\ Position(kept, Source(kept, n)) = n
           /\ \A i \in kept :
                 /\ Position(kept, i) \in 1..Cardinality(kept)
                 /\ Source(kept, Position(kept, i)) = i
  <1> DEFINE count == Cardinality(kept)
             UpTo(i) == {j \in kept : j <= i}
  <1>1. /\ IsFiniteSet(1..length) /\ Cardinality(1..length) = length
    BY FS_Interval
  <1>2. IsFiniteSet(kept) /\ count <= length /\ count \in Nat
    BY <1>1, FS_Subset, FS_CardinalityType
  <1>3. ASSUME NEW i \in kept
        PROVE  /\ IsFiniteSet(UpTo(i)) /\ i \in UpTo(i)
               /\ Cardinality(UpTo(i)) \in 1..count
    <2>1. UpTo(i) \in SUBSET kept /\ i \in UpTo(i) /\ UpTo(i) # {}
      BY <1>3
    <2> HIDE DEF UpTo
    <2>2. IsFiniteSet(UpTo(i)) /\ Cardinality(UpTo(i)) <= count
      BY <1>2, <2>1, FS_Subset
    <2>3. Cardinality(UpTo(i)) \in Nat /\ Cardinality(UpTo(i)) # 0
      BY <2>1, <2>2, FS_CardinalityType, FS_EmptySet
    <2>4. QED
      BY <1>2, <2>1, <2>2, <2>3
  <1>4. ASSUME NEW i \in kept, NEW j \in kept, i < j
        PROVE  Cardinality(UpTo(i)) # Cardinality(UpTo(j))
    <2>1. i \in Int /\ j \in Int /\ \A k \in kept : k \in Int
      OBVIOUS
    <2>2. j \in UpTo(j) /\ j \notin UpTo(i)
      BY <1>4, <2>1
    <2>3. UpTo(i) \in SUBSET UpTo(j)
      <3>1. ASSUME NEW k \in kept, k <= i
            PROVE  k <= j
        BY <1>4, <2>1, <3>1
      <3>2. QED
        BY <3>1
    <2>4. IsFiniteSet(UpTo(j))
      BY <1>3
    <2> HIDE DEF UpTo
    <2>5. QED
      BY <2>2, <2>3, <2>4, FS_Subset
  <1> DEFINE place == [i \in kept |-> Cardinality(UpTo(i))]
  <1> HIDE DEF UpTo
  <1>5. place \in [kept -> 1..count]
    BY <1>3
  <1>6. \A i, j \in kept : place[i] = place[j] => i = j
    <2>1. TAKE i, j \in kept
    <2>2. HAVE place[i] = place[j]
    <2>3. i \in Int /\ j \in Int
      OBVIOUS
    <2>4. ~(i < j) /\ ~(j < i)
      BY <1>4, <2>2
    <2>5. QED
      BY <2>3, <2>4
  <1> HIDE DEF count
  <1>7. IsFiniteSet(1..count) /\ Cardinality(1..count) = count
    BY <1>2, FS_Interval
  <1>8. \A n \in 1..count : \E i \in kept : place[i] = n
    <2> HIDE DEF place
    <2>1. place \in Injection(kept, 1..count)
      BY <1>5, <1>6, Fun_IsInj
    <2>2. Cardinality(kept) = Cardinality(1..count)
      BY <1>7 DEF count
    <2>3. place \in Surjection(kept, 1..count)
      BY <1>7, <2>1, <2>2, FS_Injection
    <2>4. QED
      BY <2>3, Fun_SurjectionProperties
  <1>9. ASSUME NEW n \in 1..count
        PROVE  /\ Source(kept, n) \in kept
               /\ Position(kept, Source(kept, n)) = n
    <2>1. \E i \in kept : Position(kept, i) = n
      BY <1>8 DEF UpTo, Position
    <2>2. QED
      BY <2>1 DEF Source
  <1>10. ASSUME NEW i \in kept
         PROVE  /\ Position(kept, i) \in 1..count
                /\ Source(kept, Position(kept, i)) = i
    <2>1. Position(kept, i) \in 1..count
      BY <1>3 DEF UpTo, Position
    <2>2. /\ Source(kept, Position(kept, i)) \in kept
          /\ Position(kept, Source(kept, Position(kept, i)))
               = Position(kept, i)
      BY <1>9, <2>1
    <2>3. \A j \in kept : place[j] = Position(kept, j)
      BY DEF UpTo, Position
    <2> HIDE DEF place
    <2>4. QED
      BY <1>6, <2>1, <2>2, <2>3
  <1>11. QED
    BY <1>2, <1>9, <1>10 DEF count

PlaceRecord == [ssid : Ssids \union {None}, password : Passwords \union {None}]

\* What a restart loads: the networks of the readable places, each at most as far
\* back in the list as its place is.
LEMMA LoadFacts ==
    ASSUME NEW f \in [Places -> PlaceRecord]
    PROVE  /\ Load(f) \in Seq(Item)
           /\ Len(Load(f)) <= Capacity
           /\ \A n \in 1..Len(Load(f)) :
                 \E p \in Readable(f) : p >= n /\ Load(f)[n] = f[p]
           /\ \A p \in Readable(f) :
                 \E n \in 1..Len(Load(f)) : Load(f)[n] = f[p]
  <1> DEFINE found == Readable(f)
             count == Cardinality(found)
             loaded == [n \in 1..count |-> f[Source(found, n)]]
  <1>1. Capacity \in Nat /\ found \in SUBSET (1..Capacity)
    BY CredentialConstants DEF Readable, Places
  <1>2. Load(f) = loaded
    BY DEF Load
  <1>3. \A p \in found : f[p] \in Item
    BY DEF Readable, Item, PlaceRecord
  <1> HIDE DEF found
  <1>4. /\ count \in Nat /\ count <= Capacity
        /\ \A n \in 1..count :
              /\ Source(found, n) \in found
              /\ Position(found, Source(found, n)) = n
        /\ \A i \in found :
              /\ Position(found, i) \in 1..count
              /\ Source(found, Position(found, i)) = i
    BY <1>1, SourcePlace
  <1>5. \A i \in found : Position(found, i) <= i
    <2> SUFFICES ASSUME NEW i \in found
                 PROVE  Cardinality({j \in found : j <= i}) <= i
      BY DEF Position
    <2>1. i \in Nat /\ i >= 1  BY <1>1
    <2>2. \A j \in found : j <= i => j \in 1..i  BY <1>1, <2>1
    <2>3. {j \in found : j <= i} \in SUBSET (1..i)  BY <2>2
    <2>4. IsFiniteSet(1..i) /\ Cardinality(1..i) = i  BY <2>1, FS_Interval
    <2> QED  BY <2>3, <2>4, FS_Subset
  <1> HIDE DEF count
  <1>6. loaded \in Seq(Item) /\ Len(loaded) = count
    BY <1>3, <1>4
  <1>7. \A n \in 1..count : \E p \in found : p >= n /\ loaded[n] = f[p]
    <2> TAKE n \in 1..count
    <2> DEFINE p == Source(found, n)
    <2>1. p \in found /\ Position(found, p) = n  BY <1>4
    <2>2. p >= n  BY <1>1, <1>4, <1>5, <2>1
    <2> QED  BY <2>1, <2>2
  <1>8. \A p \in found : \E n \in 1..count : loaded[n] = f[p]
    <2> TAKE p \in found
    <2>1. Position(found, p) \in 1..count  BY <1>4
    <2>2. loaded[Position(found, p)] = f[p]  BY <1>4, <2>1
    <2> QED  BY <2>1, <2>2
  <1> HIDE DEF loaded
  <1> QED  BY <1>2, <1>4, <1>6, <1>7, <1>8 DEF found

\* What a place holds once the list is written to it.
Target(p) == IF p <= Len(list) THEN list[p] ELSE EmptyPlace

LEMMA Count ==
    ASSUME NEW n \in Nat
    PROVE  IsFiniteSet(1..n) /\ Cardinality(1..n) = n
  BY FS_Interval

\* A list that has been written in full is loaded as it is.
LEMMA LoadOfList ==
    ASSUME list \in Seq(Item), Len(list) <= Capacity,
           NEW f, \A p \in Places : f[p] = Target(p)
    PROVE  Load(f) = list
  <1> DEFINE count == Len(list)
             found == 1..count
  <1>1. Capacity \in Nat /\ count \in Nat /\ count <= Capacity
    BY CredentialConstants
  <1>2. Readable(f) = found
    <2>1. ASSUME NEW p \in found
          PROVE  p \in Readable(f)
      <3>1. p \in Places /\ f[p] = list[p] /\ list[p] \in Item
        BY <1>1 DEF Places, Target
      <3>2. list[p].ssid \in Ssids /\ list[p].password \in Passwords
        BY <3>1 DEF Item
      <3> QED  BY CredentialConstants, <3>1, <3>2 DEF Readable
    <2>2. ASSUME NEW p \in Readable(f)
          PROVE  p \in found
      <3>1. p \in Places /\ f[p].ssid # None  BY DEF Readable
      <3>2. ~(p > count)
        BY <1>1, <3>1 DEF Places, Target, EmptyPlace
      <3> QED  BY <1>1, <3>1, <3>2 DEF Places
    <2> QED  BY <2>1, <2>2
  <1>3. IsFiniteSet(found) /\ Cardinality(found) = count
    BY <1>1, Count
  <1>4. ASSUME NEW i \in found
        PROVE  Position(found, i) = i
    <2>1. i \in Nat /\ {j \in found : j <= i} = 1..i  BY <1>1
    <2>2. Cardinality(1..i) = i  BY <2>1, FS_Interval
    <2> QED  BY <2>1, <2>2 DEF Position
  <1>5. ASSUME NEW n \in found
        PROVE  Source(found, n) = n
    BY <1>4 DEF Source
  <1>6. \A n \in found : f[Source(found, n)] = list[n]
    BY <1>1, <1>5 DEF Places, Target
  <1>7. Load(f) = [n \in found |-> f[Source(found, n)]]
    BY <1>2, <1>3 DEF Load
  <1>8. list = [n \in found |-> list[n]]
    BY <1>1
  <1> HIDE DEF found
  <1> QED  BY <1>6, <1>7, <1>8

\* The places before the one that is written have been written.
Rewritten ==
    ~NoSave =>
        /\ \A p \in Places : p < Place(next) => flash[p] = Target(p)
        /\ ~IsName(next) =>
              flash[Place(next)].ssid = Target(Place(next)).ssid

\* Every place but one holds a pair that was saved, or meant to be; while a save
\* is under way the one is where it stands.
Accounted ==
    /\ ~NoSave => \A i \in 1..Len(list) : list[i] \in pairs
    /\ \E q \in Nat :
          /\ ~NoSave => q = Place(next)
          /\ \A p \in Readable(flash) : p # q => flash[p] \in pairs

\* No change of the list moves a network back by more than one ...
Near(old, new) ==
    \A i \in 1..Len(old), k \in 1..Len(new) : old[i] = new[k] =>
        \E j \in 1..Len(old), m \in 1..Len(new) :
            old[j] = old[i] /\ new[m] = old[i] /\ m <= j + 1

\* ... and the places behind the one that is written hold what the list had
\* there before, or in front.
Behind ==
    \A j \in 1..Len(previous) :
        \E q \in Places :
            q >= j /\ (q > Place(next) => flash[q] = previous[j])

Unlost == ~NoSave /\ ~torn => Near(previous, list) /\ Behind

SavedInv ==
    /\ CredentialsTypeOK /\ Rewritten /\ Accounted /\ Unlost
    /\ RestartKeepsNetworks

\* All the places are written when the last key is.
LEMMA KeyBounds ==
    /\ Keys \in Nat /\ Done = Keys + 1
    /\ Keys > 0 /\ Capacity \in Nat
    /\ Place(0) = 1 /\ IsName(0)
    /\ Place(Keys) = Capacity + 1 /\ IsName(Keys)
  <1>1. Capacity \in Nat \ {0}  BY CredentialConstants
  <1>2. 0 \div 2 = 0 /\ 0 % 2 = 0  OBVIOUS
  <1>3. (2 * Capacity) \div 2 = Capacity /\ (2 * Capacity) % 2 = 0  BY <1>1
  <1> QED
    BY <1>1, <1>2, <1>3
       DEF Keys, Done, Place, IsName

LEMMA SavedTypes ==
    ASSUME CredentialsTypeOK
    PROVE  /\ list \in Seq(Item) /\ Len(list) <= Capacity
           /\ previous \in Seq(Item) /\ Len(previous) <= Capacity
           /\ flash \in [Places -> PlaceRecord]
           /\ next \in 0..Done /\ torn \in BOOLEAN
  BY DEF CredentialsTypeOK, PlaceRecord

\* The beginning of a save.
LEMMA SaveBegins ==
    ASSUME SavedInv, NEW new \in Seq(Item),
           Len(new) <= Capacity, Near(list, new), Save(new)
    PROVE  SavedInv'
  <1>1. /\ next = Done /\ list' = new /\ previous' = list /\ next' = 0
        /\ flash' = flash /\ torn' = torn
        /\ pairs' = ToSet(Load(flash)) \union ToSet(list)
                       \union ToSet(new)
    BY DEF Save, NoSave
  <1>2. next' \in 0..Done /\ next' # Done
    BY <1>1, KeyBounds
  <1>3. CredentialsTypeOK'
    BY <1>1, <1>2 DEF SavedInv, CredentialsTypeOK
  <1>4. /\ Place(next') = 1 /\ IsName(next')
        /\ \A p \in Places : p >= 1 /\ p \in Nat
    BY <1>1, KeyBounds DEF Places
  <1>5. Rewritten'
    BY <1>4 DEF Rewritten, Place, IsName
  <1>6. flash \in [Places -> PlaceRecord] /\ list \in Seq(Item)
    BY SavedTypes DEF SavedInv
  <1>7. Accounted'
    <2>1. \A p \in Readable(flash) : flash[p] \in pairs'
      <3> TAKE p \in Readable(flash)
      <3> DEFINE loaded == Load(flash)
      <3>1. loaded \in Seq(Item)  BY <1>6, LoadFacts
      <3>2. PICK n \in 1..Len(loaded) : loaded[n] = flash[p]
        BY <1>6, LoadFacts
      <3>3. n \in DOMAIN loaded  BY <3>1, <3>2
      <3> QED  BY <1>1, <3>2, <3>3 DEF ToSet
    <2>2. \A i \in 1..Len(list') : list'[i] \in pairs'
      BY <1>1 DEF ToSet
    <2>3. Readable(flash') = Readable(flash)  BY <1>1
    <2>4. 1 \in Nat  OBVIOUS
    <2> QED
      BY <1>1, <1>4, <2>1, <2>2, <2>3, <2>4
         DEF Accounted, Place, NoSave, Readable
  <1>8. Unlost'
    <2> SUFFICES ASSUME ~torn
                 PROVE  Near(list, new) /\ Behind'
      BY <1>1 DEF Unlost
    <2>1. Load(flash) = list
      BY <1>1 DEF SavedInv, RestartKeepsNetworks, NoSave
    <2>2. \A j \in 1..Len(list) :
             \E p \in Places : p >= j /\ flash[p] = list[j]
      BY <1>6, <2>1, LoadFacts DEF Readable
    <2> QED  BY <1>1, <2>2 DEF Behind
  <1>9. RestartKeepsNetworks'
    BY <1>2 DEF RestartKeepsNetworks, NoSave
  <1> QED  BY <1>3, <1>5, <1>7, <1>8, <1>9 DEF SavedInv

\* Taking a network out of the list.
LEMMA WithoutFacts ==
    ASSUME list \in Seq(Item), NEW i \in 1..Len(list)
    PROVE  /\ Without(i) \in Seq(Item)
           /\ Len(Without(i)) = Len(list) - 1
           /\ \A k \in 1..(Len(list) - 1) :
                 Without(i)[k] = IF k < i THEN list[k] ELSE list[k + 1]
  <1> DEFINE front == SubSeq(list, 1, i - 1)
             back == SubSeq(list, i + 1, Len(list))
  <1>1. Len(list) \in Nat /\ i \in Nat  OBVIOUS
  <1>2. /\ front \in Seq(Item) /\ Len(front) = i - 1
        /\ \A k \in 1..(i - 1) : front[k] = list[k]
    BY <1>1
  <1>3. /\ back \in Seq(Item) /\ Len(back) = Len(list) - i
        /\ \A k \in 1..(Len(list) - i) : back[k] = list[k + i]
    BY <1>1
  <1>4. Without(i) = front \o back
    BY DEF Without, RemoveAt
  <1> HIDE DEF front, back
  <1>5. /\ front \o back \in Seq(Item)
        /\ Len(front \o back) = Len(front) + Len(back)
        /\ \A k \in 1..(Len(front) + Len(back)) :
              (front \o back)[k] = IF k <= Len(front) THEN front[k]
                                   ELSE back[k - Len(front)]
    BY <1>2, <1>3, ConcatProperties
  <1> DEFINE both == front \o back
  <1> HIDE DEF both
  <1>6. ASSUME NEW k \in 1..(Len(list) - 1)
        PROVE  both[k] = IF k < i THEN list[k] ELSE list[k + 1]
    <2>1. /\ k \in 1..(Len(front) + Len(back))
          /\ both[k] = IF k <= i - 1 THEN front[k] ELSE back[k - (i - 1)]
      BY <1>1, <1>2, <1>3, <1>5 DEF both
    <2>2. CASE k < i
      <3>1. k \in 1..(i - 1)  BY <1>1, <2>2
      <3> QED  BY <1>2, <2>1, <2>2, <3>1
    <2>3. CASE ~(k < i)
      <3>1. /\ k - (i - 1) \in 1..(Len(list) - i) /\ ~(k <= i - 1)
            /\ (k - (i - 1)) + i = k + 1
        BY <1>1, <2>3
      <3> QED  BY <1>3, <2>1, <2>3, <3>1
    <2> QED  BY <2>2, <2>3
  <1>7. both \in Seq(Item) /\ Len(both) = Len(list) - 1
    BY <1>1, <1>2, <1>3, <1>5 DEF both
  <1>8. Without(i) = both  BY <1>4 DEF both
  <1> QED  BY <1>6, <1>7, <1>8

LEMMA UpdateKeeps ==
    ASSUME SavedInv, NEW s \in Ssids, NEW p \in Passwords,
           UpdateSsid(s, p)
    PROVE  SavedInv'
  <1>1. list \in Seq(Item) /\ Len(list) <= Capacity
    BY SavedTypes DEF SavedInv
  <1>2. PICK i \in Known(s) : Save([list EXCEPT ![i].password = p])
    BY Zenon DEF UpdateSsid
  <1> DEFINE item == [list[i] EXCEPT !.password = p]
             new == [list EXCEPT ![i] = item]
  <1>3. i \in 1..Len(list) /\ list[i] \in Item
    BY <1>1 DEF Known
  <1>4. item \in Item  BY <1>3, Zenon DEF Item
  <1>5. Save(new)  BY <1>2, Zenon
  <1> HIDE DEF item
  <1>6. /\ new \in Seq(Item) /\ Len(new) = Len(list)
        /\ new[i] = item /\ \A k \in 1..Len(list) : k # i => new[k] = list[k]
    BY <1>1, <1>3, <1>4
  <1> HIDE DEF new
  <1>7. Near(list, new)
    <2> SUFFICES ASSUME NEW a \in 1..Len(list), NEW k \in 1..Len(list),
                        list[a] = new[k]
                 PROVE  \E j \in 1..Len(list), m \in 1..Len(list) :
                            list[j] = list[a] /\ new[m] = list[a] /\ m <= j + 1
      BY <1>6 DEF Near
    <2>1. CASE k # i
      <3>1. list[k] = list[a] /\ new[k] = list[a] /\ k <= k + 1  BY <1>6, <2>1
      <3> QED  BY <3>1
    <2>2. CASE k = i
      <3>1. new[a] = list[a] /\ a <= a + 1  BY <1>6, <2>2
      <3> QED  BY <3>1
    <2> QED  BY <2>1, <2>2
  <1> QED  BY <1>1, <1>5, <1>6, <1>7, SaveBegins

LEMMA AddKeeps ==
    ASSUME SavedInv, NEW s \in Ssids, NEW p \in Passwords,
           AddSsid(s, p)
    PROVE  SavedInv'
  <1> DEFINE item == [ssid |-> s, password |-> p]
             kept == IF Len(list) >= Capacity
                     THEN SubSeq(list, 1, Capacity - 1) ELSE list
             new == <<item>> \o kept
  <1>1. list \in Seq(Item) /\ Len(list) <= Capacity
    BY SavedTypes DEF SavedInv
  <1>2. Capacity \in Nat \ {0}  BY CredentialConstants
  <1>3. /\ kept \in Seq(Item) /\ Len(kept) <= Len(list)
        /\ Len(kept) < Capacity /\ \A k \in 1..Len(kept) : kept[k] = list[k]
    <2>1. CASE Len(list) >= Capacity  BY <1>1, <1>2, <2>1
    <2>2. CASE Len(list) < Capacity  BY <1>1, <1>2, <2>2
    <2> QED  BY <1>1, <1>2, <2>1, <2>2
  <1>4. item \in Item /\ item.ssid = s  BY DEF Item
  <1>5. Save(new) /\ Known(s) = {}  BY DEF AddSsid
  <1> HIDE DEF kept, item
  <1>6. /\ new \in Seq(Item) /\ Len(new) = Len(kept) + 1
        /\ new[1] = item
        /\ \A k \in 2..(Len(kept) + 1) : new[k] = list[k - 1]
    BY <1>3, <1>4
  <1> HIDE DEF new
  <1>7. Near(list, new)
    <2> SUFFICES ASSUME NEW a \in 1..Len(list), NEW k \in 1..Len(new),
                        list[a] = new[k]
                 PROVE  \E j \in 1..Len(list), m \in 1..Len(new) :
                            list[j] = list[a] /\ new[m] = list[a] /\ m <= j + 1
      BY DEF Near
    <2>1. a \in Known(list[a].ssid)  BY <1>1 DEF Known
    <2>2. k # 1  BY <1>4, <1>5, <1>6, <2>1
    <2>3. /\ k - 1 \in 1..Len(list) /\ list[k - 1] = list[a]
          /\ k <= (k - 1) + 1
      BY <1>1, <1>3, <1>6, <2>2
    <2> QED  BY <2>3
  <1> QED  BY <1>2, <1>3, <1>5, <1>6, <1>7, SaveBegins

LEMMA RemoveKeeps ==
    ASSUME SavedInv, NEW i, RemoveSsid(i)
    PROVE  SavedInv'
  <1> DEFINE new == Without(i)
  <1>1. list \in Seq(Item) /\ Len(list) <= Capacity
    BY SavedTypes DEF SavedInv
  <1>2. i \in 1..Len(list) /\ Save(new)
    BY <1>1 DEF RemoveSsid
  <1>3. /\ new \in Seq(Item) /\ Len(new) = Len(list) - 1
        /\ \A k \in 1..(Len(list) - 1) :
              new[k] = IF k < i THEN list[k] ELSE list[k + 1]
    BY <1>1, <1>2, WithoutFacts
  <1> HIDE DEF new
  <1>4. Near(list, new)
    <2> SUFFICES ASSUME NEW a \in 1..Len(list), NEW k \in 1..Len(new),
                        list[a] = new[k]
                 PROVE  \E j \in 1..Len(list), m \in 1..Len(new) :
                            list[j] = list[a] /\ new[m] = list[a] /\ m <= j + 1
      BY DEF Near
    <2>1. /\ k \in 1..Len(list) /\ k + 1 \in 1..Len(list)
          /\ k <= k + 1 /\ k <= k + 1 + 1
      BY <1>1, <1>3
    <2>2. list[k] = list[a] \/ list[k + 1] = list[a]
      BY <1>1, <1>3
    <2> QED  BY <2>1, <2>2
  <1>5. Len(new) <= Capacity
    BY CredentialConstants, <1>1, <1>3
  <1> QED  BY <1>2, <1>3, <1>4, <1>5, SaveBegins

LEMMA DefaultKeeps ==
    ASSUME SavedInv, NEW i, SetDefaultSsid(i)
    PROVE  SavedInv'
  <1> DEFINE rest == Without(i)
             new == <<list[i]>> \o rest
  <1>1. list \in Seq(Item) /\ Len(list) <= Capacity
    BY SavedTypes DEF SavedInv
  <1>2. i \in 1..Len(list) /\ list[i] \in Item /\ Save(new)
    BY <1>1 DEF SetDefaultSsid
  <1>3. /\ rest \in Seq(Item) /\ Len(rest) = Len(list) - 1
        /\ \A k \in 1..(Len(list) - 1) :
              rest[k] = IF k < i THEN list[k] ELSE list[k + 1]
    BY <1>1, <1>2, WithoutFacts
  <1> HIDE DEF rest
  <1>4. /\ new \in Seq(Item) /\ Len(new) = Len(list)
        /\ new[1] = list[i]
        /\ \A k \in 2..Len(list) : new[k] = rest[k - 1]
    BY <1>1, <1>2, <1>3
  <1> HIDE DEF new
  <1>5. Near(list, new)
    <2> SUFFICES ASSUME NEW a \in 1..Len(list), NEW k \in 1..Len(list),
                        list[a] = new[k]
                 PROVE  \E j \in 1..Len(list), m \in 1..Len(list) :
                            list[j] = list[a] /\ new[m] = list[a] /\ m <= j + 1
      BY <1>4 DEF Near
    <2>1. CASE k = 1
      <3>1. list[i] = list[a] /\ new[k] = list[a] /\ k <= i + 1
        BY <1>2, <1>4, <2>1
      <3> QED  BY <1>2, <3>1
    <2>2. CASE k # 1
      <3>1. /\ k \in 2..Len(list) /\ k - 1 \in 1..(Len(list) - 1)
            /\ k - 1 \in 1..Len(list) /\ k <= (k - 1) + 1 /\ k <= k + 1
            /\ (k - 1) + 1 = k
        BY <1>1, <2>2
      <3>2. list[k - 1] = list[a] \/ list[k] = list[a]
        BY <1>3, <1>4, <3>1
      <3> QED  BY <3>1, <3>2
    <2> QED  BY <2>1, <2>2
  <1> QED  BY <1>1, <1>2, <1>4, <1>5, SaveBegins

LEMMA ClearKeeps ==
    ASSUME SavedInv, Clear
    PROVE  SavedInv'
  <1>1. Capacity \in Nat  BY CredentialConstants
  <1>2. /\ <<>> \in Seq(Item) /\ Len(<<>>) = 0 /\ Len(<<>>) <= Capacity
    BY <1>1
  <1>3. Near(list, <<>>)  BY <1>2 DEF Near
  <1> QED  BY <1>2, <1>3, SaveBegins DEF Clear

\* One key written: the name or the password of its place.
LEMMA WriteFacts ==
    ASSUME CredentialsTypeOK, NEW k \in 0..(Keys - 1),
           Write(k)
    PROVE  LET p == Place(k) IN
           /\ flash' \in [Places -> PlaceRecord]
           /\ \A q \in Places : q # p => flash'[q] = flash[q]
           /\ IsName(k) => /\ flash'[p].ssid = Target(p).ssid
                                 /\ flash'[p].password = flash[p].password
           /\ ~IsName(k) => /\ flash'[p].password = Target(p).password
                                  /\ flash'[p].ssid = flash[p].ssid
  <1> DEFINE p == Place(k)
             named == [flash[p] EXCEPT !.ssid = Value(k)]
             given == [flash[p] EXCEPT !.password = Value(k)]
             place == IF IsName(k) THEN named ELSE given
  <1>1. p \in Places /\ flash \in [Places -> PlaceRecord]
    BY KeyPlaces, SavedTypes
  <1>2. flash[p] \in PlaceRecord  BY <1>1
  <1>3. /\ p \in Nat /\ p >= 1 /\ list \in Seq(Item)
    BY <1>1, SavedTypes DEF Places
  <1>4. /\ Target(p) \in PlaceRecord
        /\ Value(k) = IF IsName(k) THEN Target(p).ssid
                                                ELSE Target(p).password
    <2>1. CASE p > Len(list)
      <3>1. Target(p) = EmptyPlace  BY <1>3, <2>1 DEF Target
      <3>2. Value(k) = None  BY <2>1 DEF Value
      <3> QED  BY <3>1, <3>2 DEF EmptyPlace, PlaceRecord
    <2>2. CASE ~(p > Len(list))
      <3>1. Target(p) = list[p] /\ list[p] \in Item
        BY <1>3, <2>2 DEF Target
      <3>2. Value(k) = IF IsName(k) THEN list[p].ssid
                                                ELSE list[p].password
        BY <2>2 DEF Value
      <3> QED  BY <3>1, <3>2 DEF Item, PlaceRecord
    <2> QED  BY <2>1, <2>2
  <1>5. flash' = [flash EXCEPT ![p] = place]
    BY Zenon DEF Write
  <1>6. /\ Target(p).ssid \in Ssids \union {None}
        /\ Target(p).password \in Passwords \union {None}
    BY <1>4 DEF PlaceRecord
  <1>7. CASE IsName(k)
    <2>1. Value(k) = Target(p).ssid  BY <1>4, <1>7
    <2>2. named \in PlaceRecord
      BY <1>2, <1>6, <2>1, Zenon DEF PlaceRecord
    <2>3. named.ssid = Target(p).ssid /\ named.password = flash[p].password
      BY <1>2, <2>1 DEF PlaceRecord
    <2>4. place = named  BY <1>7
    <2> HIDE DEF named, place
    <2> QED  BY <1>1, <1>5, <1>7, <2>2, <2>3, <2>4
  <1>8. CASE ~IsName(k)
    <2>1. Value(k) = Target(p).password  BY <1>4, <1>8
    <2>2. given \in PlaceRecord
      BY <1>2, <1>6, <2>1, Zenon DEF PlaceRecord
    <2>3. given.password = Target(p).password /\ given.ssid = flash[p].ssid
      BY <1>2, <2>1 DEF PlaceRecord
    <2>4. place = given  BY <1>8
    <2> HIDE DEF given, place
    <2> QED  BY <1>1, <1>5, <1>8, <2>2, <2>3, <2>4
  <1> QED  BY <1>7, <1>8

\* What a place holds once both its keys are written, and what that is worth.
LEMMA PlaceWritten ==
    ASSUME CredentialsTypeOK, NEW p \in Places, NEW place \in PlaceRecord,
           place.ssid = Target(p).ssid, place.password = Target(p).password
    PROVE  place = Target(p)
  <1>1. list \in Seq(Item) /\ p \in Nat /\ p >= 1
    BY SavedTypes DEF Places
  <1>2. Target(p) \in PlaceRecord
    <2>1. CASE p <= Len(list)
      <3>1. Target(p) = list[p] /\ list[p] \in Item
        BY <1>1, <2>1 DEF Target
      <3> QED  BY <3>1 DEF Item, PlaceRecord
    <2>2. CASE ~(p <= Len(list))
      BY <2>2 DEF Target, EmptyPlace, PlaceRecord
    <2> QED  BY <2>1, <2>2
  <1> QED  BY <1>2 DEF PlaceRecord

\* A place that is written holds nothing or a pair of the list.
LEMMA WrittenIsAccounted ==
    ASSUME CredentialsTypeOK, \A i \in 1..Len(list) : list[i] \in pairs,
           NEW f, NEW p \in Readable(f), f[p] = Target(p)
    PROVE  f[p] \in pairs
  <1>1. list \in Seq(Item) /\ p \in Nat /\ p >= 1 /\ f[p].ssid # None
    BY SavedTypes DEF Places, Readable
  <1>2. p <= Len(list)
    BY <1>1 DEF Target, EmptyPlace
  <1> QED  BY <1>1, <1>2 DEF Target

LEMMA WriteKeyKeeps ==
    ASSUME SavedInv, WriteKey
    PROVE  SavedInv'
  <1> DEFINE here == Place(next)
  <1>1. /\ next \in 0..(Keys - 1) /\ next' = next + 1
        /\ next # Done /\ next' # Done /\ next' \in 0..Done
    BY KeyBounds, SavedTypes DEF SavedInv, WriteKey
  <1>2. /\ Write(next)
        /\ UNCHANGED <<list, previous, torn, pairs>>
    BY DEF WriteKey
  <1>3. /\ flash' \in [Places -> PlaceRecord]
        /\ \A q \in Places : q # here => flash'[q] = flash[q]
        /\ IsName(next) => flash'[here].ssid = Target(here).ssid
        /\ ~IsName(next) =>
              /\ flash'[here].password = Target(here).password
              /\ flash'[here].ssid = flash[here].ssid
    BY <1>1, <1>2, WriteFacts DEF SavedInv
  <1>4. CredentialsTypeOK'
    BY <1>1, <1>2, <1>3 DEF SavedInv, CredentialsTypeOK, PlaceRecord
  <1>5. /\ here \in Places /\ here \in Nat
        /\ IsName(next) =>
              Place(next') = here /\ ~IsName(next')
        /\ ~IsName(next) =>
              Place(next') = here + 1 /\ IsName(next')
    BY <1>1, KeyPlaces DEF Places
  <1>6. ~NoSave /\ ~(next' = Done)
    BY <1>1 DEF NoSave
  <1>7. ~IsName(next) => flash'[here] = Target(here)
    <2>1. ~IsName(next) => flash[here].ssid = Target(here).ssid
      BY <1>6 DEF SavedInv, Rewritten
    <2>2. flash'[here] \in PlaceRecord  BY <1>3, <1>5
    <2> QED  BY <1>3, <1>5, <2>1, <2>2, PlaceWritten DEF SavedInv
  <1>8. \A p \in Places : p \in Nat  BY DEF Places
  <1> DEFINE there == Place(next')
  <1> HIDE DEF here, there
  <1>9. there = here \/ there = here + 1
    BY <1>5 DEF here, there
  <1>10. ASSUME NEW p \in Places, p < there
         PROVE  flash'[p] = Target(p)
    <2>1. CASE p < here
      <3>1. flash[p] = Target(p)
        BY <1>6, <2>1 DEF SavedInv, Rewritten, here
      <3> QED  BY <1>3, <1>5, <1>8, <2>1, <3>1 DEF here
    <2>2. CASE ~(p < here)
      <3>1. p = here /\ ~IsName(next)
        BY <1>5, <1>8, <1>10, <2>2 DEF here, there
      <3> QED  BY <1>7, <3>1 DEF here
    <2> QED  BY <2>1, <2>2
  <1>11. ~IsName(next') => flash'[there].ssid = Target(there).ssid
    BY <1>3, <1>5 DEF here, there
  <1>12. Rewritten'
    <2>1. \A p : Target(p)' = Target(p)  BY <1>2 DEF Target
    <2> QED
      BY <1>10, <1>11, <2>1, <1>2
         DEF Rewritten, there, Target, Place, IsName
  <1>13. Accounted'
    <2>1. /\ \A i \in 1..Len(list) : list[i] \in pairs
          /\ \A p \in Readable(flash) : p # here => flash[p] \in pairs
      BY <1>6 DEF SavedInv, Accounted, here
    <2>2. ASSUME NEW p \in Readable(flash'), p # there
          PROVE  flash'[p] \in pairs
      <3>1. p \in Places  BY DEF Readable
      <3>2. CASE p = here
        <4>1. flash'[p] = Target(p)  BY <1>5, <1>7, <2>2, <3>2 DEF here, there
        <4> QED  BY <2>1, <4>1, WrittenIsAccounted DEF SavedInv
      <3>3. CASE p # here
        <4>1. flash'[p] = flash[p]  BY <1>3, <3>1, <3>3 DEF here
        <4>2. p \in Readable(flash)  BY <3>1, <4>1 DEF Readable
        <4> QED  BY <2>1, <3>3, <4>1, <4>2
      <3> QED  BY <3>2, <3>3
    <2>3. there \in Nat  BY <1>5, <1>9 DEF here
    <2> QED
      BY <1>2, <2>1, <2>2, <2>3
         DEF Accounted, there, Readable, NoSave, Place
  <1>14. Unlost'
    <2> SUFFICES ASSUME ~torn
                 PROVE  Near(previous, list) /\ Behind'
      BY <1>2 DEF Unlost
    <2>1. Near(previous, list) /\ Behind
      BY <1>6 DEF SavedInv, Unlost
    <2>2. ASSUME NEW j \in 1..Len(previous)
          PROVE  \E q \in Places :
                     q >= j /\ (q > there => flash'[q] = previous[j])
      <3>1. PICK q \in Places :
                q >= j /\ (q > here => flash[q] = previous[j])
        BY <2>1 DEF Behind, here
      <3>2. q > there => q > here /\ q # here
        BY <1>5, <1>8, <1>9 DEF here
      <3> QED  BY <1>3, <3>1, <3>2 DEF here
    <2> QED  BY <1>2, <2>1, <2>2 DEF Behind, there, Place
  <1>15. RestartKeepsNetworks'
    BY <1>6 DEF RestartKeepsNetworks, NoSave
  <1> QED  BY <1>4, <1>12, <1>13, <1>14, <1>15 DEF SavedInv

LEMMA CommitKeeps ==
    ASSUME SavedInv, Commit
    PROVE  SavedInv'
  <1>1. /\ next = Keys /\ next # Done /\ next' = Done
        /\ torn' = FALSE /\ list' = list /\ previous' = previous
        /\ flash' = flash /\ pairs' = pairs /\ Done \in 0..Done
    BY KeyBounds DEF Commit
  <1>2. CredentialsTypeOK'  BY <1>1 DEF SavedInv, CredentialsTypeOK
  <1>3. Load(flash) = list
    <2>1. \A p \in Places : flash[p] = Target(p)
      <3> TAKE p \in Places
      <3>1. p < Place(next)
        BY <1>1, KeyBounds DEF Places
      <3> QED  BY <1>1, <3>1 DEF SavedInv, Rewritten, NoSave
    <2> QED  BY <2>1, LoadOfList, SavedTypes DEF SavedInv
  <1>4. Accounted'
    BY <1>1 DEF SavedInv, Accounted, NoSave, Readable
  <1> QED
    BY <1>1, <1>2, <1>3, <1>4
       DEF SavedInv, Rewritten, Unlost, RestartKeepsNetworks,
           NoSave, Load, Readable

\* Where a save stops, at most the place it was at holds a pair of its own.
LEMMA WriteFailsKeeps ==
    ASSUME SavedInv, WriteFails
    PROVE  SavedInv'
  <1>1. /\ next' = Done /\ torn' = TRUE /\ list' = previous
        /\ previous' = previous /\ flash' = flash /\ pairs' = pairs
        /\ Done \in 0..Done
    BY KeyBounds DEF WriteFails, GiveUp
  <1>2. CredentialsTypeOK'  BY <1>1 DEF SavedInv, CredentialsTypeOK
  <1>3. Accounted'
    BY <1>1 DEF SavedInv, Accounted, NoSave, Readable
  <1> QED
    BY <1>1, <1>2, <1>3
       DEF SavedInv, Rewritten, Unlost, RestartKeepsNetworks, NoSave

LEMMA EraseFailsKeeps ==
    ASSUME SavedInv, EraseFails
    PROVE  SavedInv'
  <1> DEFINE here == Place(next)
  <1>1. /\ next' = Done /\ torn' = TRUE /\ list' = previous
        /\ previous' = previous /\ pairs' = pairs
        /\ Done \in 0..Done /\ Write(next + 1)
        /\ next \in 0..(Keys - 1) /\ IsName(next)
        /\ next # Done
    BY KeyBounds, SavedTypes DEF SavedInv, EraseFails, GiveUp
  <1>2. /\ next + 1 \in 0..(Keys - 1) /\ Place(next + 1) = here
        /\ here \in Nat
    BY <1>1, KeyPlaces, KeyBounds DEF Places
  <1>3. /\ flash' \in [Places -> PlaceRecord]
        /\ \A q \in Places : q # here => flash'[q] = flash[q]
    BY <1>1, <1>2, WriteFacts DEF SavedInv
  <1>4. CredentialsTypeOK'
    BY <1>1, <1>3 DEF SavedInv, CredentialsTypeOK, PlaceRecord
  <1>5. \A p \in Readable(flash) : p # here => flash[p] \in pairs
    BY <1>1 DEF SavedInv, Accounted, NoSave
  <1>6. \A p \in Readable(flash') : p # here => flash'[p] \in pairs
    BY <1>3, <1>5 DEF Readable
  <1>7. Accounted'
    BY <1>1, <1>2, <1>6 DEF Accounted, NoSave, Readable
  <1> QED
    BY <1>1, <1>4, <1>7
       DEF SavedInv, Rewritten, Unlost, RestartKeepsNetworks, NoSave

\* Whatever the flash holds, after a restart the list is what it gives.
LEMMA LoadedKeeps ==
    ASSUME list \in Seq(Item), Len(list) <= Capacity,
           flash \in [Places -> PlaceRecord], list = Load(flash),
           previous = list, pairs = ToSet(list), next = Done,
           torn = FALSE
    PROVE  SavedInv
  <1>1. Done \in 0..Done  BY KeyBounds
  <1>2. CredentialsTypeOK  BY <1>1 DEF CredentialsTypeOK, PlaceRecord
  <1>3. \A p \in Readable(flash) : flash[p] \in pairs
    <2> TAKE p \in Readable(flash)
    <2>1. PICK n \in 1..Len(list) : list[n] = flash[p]  BY LoadFacts
    <2>2. n \in DOMAIN list  OBVIOUS
    <2> QED  BY <2>1, <2>2 DEF ToSet
  <1>4. Accounted
    <2>1. 0 \in Nat  OBVIOUS
    <2> QED  BY <1>3, <2>1 DEF Accounted, NoSave
  <1> QED
    BY <1>2, <1>4
       DEF SavedInv, Rewritten, Unlost, RestartKeepsNetworks, NoSave

LEMMA SavedInit == CredentialsInit => SavedInv
  <1> SUFFICES ASSUME CredentialsInit
               PROVE  SavedInv
    OBVIOUS
  <1>1. flash \in [Places -> PlaceRecord]
    <2>1. {EmptyPlace} \union Item \subseteq PlaceRecord
      BY DEF EmptyPlace, Item, PlaceRecord
    <2>2. flash \in [Places -> {EmptyPlace} \union Item]
      BY DEF CredentialsInit
    <2> QED  BY <2>1, <2>2
  <1> QED
    BY <1>1, LoadFacts, LoadedKeeps DEF CredentialsInit

LEMMA PowerCutKeeps ==
    ASSUME SavedInv, PowerCut
    PROVE  SavedInv'
  <1> DEFINE loaded == Load(flash)
  <1>1. /\ list' = loaded /\ previous' = loaded
        /\ pairs' = ToSet(loaded) /\ next' = Done
        /\ torn' = FALSE /\ flash' = flash
    BY DEF PowerCut
  <1>2. flash \in [Places -> PlaceRecord]
    BY SavedTypes DEF SavedInv
  <1>3. loaded \in Seq(Item) /\ Len(loaded) <= Capacity
    BY <1>2, LoadFacts
  <1>4. Done \in 0..Done  BY KeyBounds
  <1>5. CredentialsTypeOK'
    BY <1>1, <1>2, <1>3, <1>4 DEF CredentialsTypeOK, PlaceRecord
  <1>6. \A p \in Readable(flash) : flash[p] \in pairs'
    <2> TAKE p \in Readable(flash)
    <2>1. PICK n \in 1..Len(loaded) : loaded[n] = flash[p]  BY <1>2, LoadFacts
    <2>2. n \in DOMAIN loaded  BY <1>3, <2>1
    <2> QED  BY <1>1, <2>1, <2>2 DEF ToSet
  <1>7. Accounted'
    <2>1. 0 \in Nat  OBVIOUS
    <2> QED  BY <1>1, <1>6, <2>1 DEF Accounted, NoSave, Readable
  <1> QED
    BY <1>1, <1>5, <1>7
       DEF SavedInv, Rewritten, Unlost, RestartKeepsNetworks,
           NoSave, Load, Readable

LEMMA SavedNext ==
    ASSUME SavedInv, [CredentialsNext]_credentialVars
    PROVE  SavedInv'
  <1>1. CASE \E s \in Ssids, p \in Passwords :
                 UpdateSsid(s, p) \/ AddSsid(s, p)
    BY <1>1, UpdateKeeps, AddKeeps
  <1>2. CASE \E i \in Places : RemoveSsid(i) \/ SetDefaultSsid(i)
    BY <1>2, RemoveKeeps, DefaultKeeps
  <1>3. CASE UNCHANGED credentialVars
    BY <1>3 DEF SavedInv, credentialVars, CredentialsTypeOK, Rewritten, Accounted, Unlost,
                Behind, Near, RestartKeepsNetworks, NoSave, Load,
                Readable, Place, IsName, Target
  <1> QED
    BY <1>1, <1>2, <1>3, ClearKeeps, WriteKeyKeeps, CommitKeeps,
       WriteFailsKeeps, EraseFailsKeeps, PowerCutKeeps DEF CredentialsNext

LEMMA SavedAlways == CredentialsSpec => []SavedInv
  <1>1. CredentialsInit => SavedInv  BY SavedInit
  <1>2. SavedInv /\ [CredentialsNext]_credentialVars => SavedInv'  BY SavedNext
  <1> QED  BY <1>1, <1>2, PTL DEF CredentialsSpec

\* Between saves a restart loads the networks the device uses, unless the last
\* save stopped on an error (ssid_manager.cc: SaveToNvs, LoadFromNvs).
THEOREM CredentialsKept == CredentialsSpec => []RestartKeepsNetworks
  <1>1. SavedInv => RestartKeepsNetworks  BY DEF SavedInv
  <1> QED  BY <1>1, SavedAlways, PTL

\* Wherever power goes or a write fails, one name at most has another's password;
\* without a failed save two networks at most are missing (ssid_manager.cc:
\* SaveToNvs).
THEOREM CredentialsTornSave == CredentialsSpec => []TornSaveLimits
  <1>1. SavedInv => TornSaveLimits
    <2> SUFFICES ASSUME SavedInv
                 PROVE  TornSaveLimits
      OBVIOUS
    <2> DEFINE loaded == Load(flash)
    <2>1. /\ list \in Seq(Item) /\ previous \in Seq(Item)
          /\ Len(previous) <= Capacity
          /\ flash \in [Places -> PlaceRecord]
      BY SavedTypes DEF SavedInv
    <2>2. /\ loaded \in Seq(Item)
          /\ \A n \in 1..Len(loaded) :
                \E p \in Readable(flash) : loaded[n] = flash[p]
          /\ \A p \in Readable(flash) :
                \E n \in 1..Len(loaded) : loaded[n] = flash[p]
      BY <2>1, LoadFacts
    <2>3. ToSet(loaded) = {flash[p] : p \in Readable(flash)}
      <3> HIDE DEF loaded
      <3> QED  BY <2>2 DEF ToSet
    <2>4. Cardinality(MixedPairs) <= 1
      <3>1. PICK q \in Nat :
                \A p \in Readable(flash) : p # q => flash[p] \in pairs
        BY DEF SavedInv, Accounted
      <3>2. MixedPairs \in SUBSET {flash[q]}
        BY <2>3, <3>1 DEF MixedPairs
      <3>3. IsFiniteSet({flash[q]}) /\ Cardinality({flash[q]}) = 1
        BY FS_Singleton
      <3>4. IsFiniteSet(MixedPairs)
            /\ Cardinality(MixedPairs) <= Cardinality({flash[q]})
        BY <3>2, <3>3, FS_Subset
      <3> QED  BY <3>3, <3>4
    <2>5. ASSUME ~torn
          PROVE  Cardinality(LostNetworks) <= 2
      <3>1. CASE NoSave
        <4>1. LostNetworks = {}
          BY <2>5, <3>1 DEF SavedInv, RestartKeepsNetworks,
                            LostNetworks
        <4>2. Cardinality({}) = 0  BY FS_EmptySet
        <4> QED  BY <4>1, <4>2
      <3>2. CASE ~NoSave
        <4> DEFINE here == Place(next)
                   limits == {previous[here - 1], previous[here]}
        <4>1. /\ Near(previous, list) /\ Behind
              /\ \A p \in Places : p < here => flash[p] = Target(p)
          BY <2>5, <3>2 DEF SavedInv, Unlost, Rewritten
        <4>2. ASSUME NEW x \in LostNetworks
              PROVE  x \in limits
          <5>1. PICK i \in 1..Len(previous), k \in 1..Len(list) :
                    previous[i] = x /\ list[k] = x
            BY <2>1 DEF LostNetworks, ToSet
          <5>2. PICK j \in 1..Len(previous), m \in 1..Len(list) :
                    previous[j] = x /\ list[m] = x /\ m <= j + 1
            BY <4>1, <5>1 DEF Near
          <5>3. x \notin {flash[p] : p \in Readable(flash)}
            BY <2>3 DEF LostNetworks
          <5>4. x \in Item /\ m \in Nat /\ j \in Nat /\ m >= 1
            BY <2>1, <5>2
          <5>5. \A p \in Places : flash[p] # x
            <6>1. x.ssid # None /\ x.password # None
              BY CredentialConstants, <5>4 DEF Item
            <6> QED  BY <5>3, <6>1 DEF Readable
          <5>6. ~(m < here)
            <6>1. m < here /\ m \in Places => flash[m] = x
              BY <4>1, <5>2 DEF Target
            <6>2. m \in Places
              BY CredentialConstants, <2>1, <5>4, <5>2, SavedTypes
                 DEF SavedInv, Places
            <6> QED  BY <5>5, <6>1, <6>2
          <5>7. ~(j > here)
            <6>1. PICK q \in Places :
                      q >= j /\ (q > here => flash[q] = previous[j])
              BY <4>1, <5>2 DEF Behind
            <6>2. ~(q > here)  BY <5>2, <5>5, <6>1
            <6>3. q \in Nat /\ here \in Nat
              BY SavedTypes DEF SavedInv, Places, Place
            <6> QED  BY <5>4, <6>1, <6>2, <6>3
          <5>8. here \in Nat
            BY SavedTypes DEF SavedInv, Place
          <5>9. j = here - 1 \/ j = here
            <6> HIDE DEF here
            <6> QED  BY <5>2, <5>4, <5>6, <5>7, <5>8
          <5> QED  BY <5>2, <5>9
        <4>3. IsFiniteSet(limits) /\ Cardinality(limits) <= 2
          <5> DEFINE a == previous[here - 1]
                     b == previous[here]
          <5> HIDE DEF a, b
          <5>1. IsFiniteSet({a}) /\ Cardinality({a}) = 1  BY FS_Singleton
          <5>2. /\ IsFiniteSet({a} \union {b})
                /\ Cardinality({a} \union {b}) =
                      IF b \in {a} THEN Cardinality({a}) ELSE Cardinality({a}) + 1
            BY <5>1, FS_AddElement
          <5>3. {a} \union {b} = limits  BY DEF a, b
          <5> QED  BY <5>1, <5>2, <5>3
        <4>4. LostNetworks \in SUBSET limits  BY <4>2
        <4> HIDE DEF limits
        <4>5. /\ IsFiniteSet(LostNetworks)
              /\ Cardinality(LostNetworks) <= Cardinality(limits)
              /\ Cardinality(LostNetworks) \in Nat
              /\ Cardinality(limits) \in Nat
          BY <4>3, <4>4, FS_Subset, FS_CardinalityType
        <4> QED  BY <4>3, <4>5
      <3> QED  BY <3>1, <3>2
    <2> QED  BY <2>4, <2>5 DEF TornSaveLimits
  <1> QED  BY <1>1, SavedAlways, PTL

===============================================================================
