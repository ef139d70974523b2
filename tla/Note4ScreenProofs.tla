---------------------------- MODULE Note4ScreenProofs ----------------------------
(***************************************************************************)
(* TLAPS proofs about Note4Screen, for every limit of partial refreshes:   *)
(* what the application believes to be on the glass is there, ghosts do    *)
(* not pile up, and nothing is confirmed blind, whatever calls of the      *)
(* panel fail and wherever.                                                *)
(***************************************************************************)
EXTENDS Note4Screen, TLAPS

\* The fields of the driver; between two frames it is off.
Driver(e) == e \in [powered : BOOLEAN, ready : BOOLEAN, shadow : {e.shadow}]
PanelOff == Driver(epd) /\ ~epd.powered /\ ~epd.ready

\* A copy that is trusted is on the glass and in the driver.
Trusted == previous # Unknown => glass = previous /\ epd.shadow = previous

\* The application counts no fewer partial refreshes than the glass had, as long
\* as it trusts its copy; when it does not, the next refresh is a full one.
Counted ==
    /\ partials \in Nat /\ wear \in Nat
    /\ wear <= MaxPartials
    /\ previous # Unknown => wear <= partials

\* A trusted frame that was drawn on a confirmation page asks the question.
Asked ==
    (pc \in {"look", "wait"} /\ page = "Confirm" /\ previous # Unknown)
        => previous.visual = "Confirm" /\ previous.mark = (IF yes THEN 1 ELSE 0)

IInv == PanelOff /\ Trusted /\ Counted /\ Asked

USE DEF panelVars

-------------------------------------------------------------------------------
(* The panel *)

LEMMA PowerOffCuts ==
    ASSUME NEW e, Driver(e), NEW g, NEW off \in PowerOff(e, g)
    PROVE  /\ Driver(off.epd) /\ ~off.epd.powered /\ ~off.epd.ready
           /\ off.epd.shadow = e.shadow
           /\ off.glass = g
  <1> DEFINE cut == [e EXCEPT !.powered = FALSE, !.ready = FALSE]
  <1>1. PICK good \in BOOLEAN : off = Result(cut, g, good)  BY DEF PowerOff
  <1>2. off.epd = cut /\ off.glass = g  BY <1>1 DEF Result
  <1>3. cut \in [powered : BOOLEAN, ready : BOOLEAN, shadow : {e.shadow}]
    BY Zenon DEF Driver
  <1>4. ~cut.powered /\ ~cut.ready /\ cut.shadow = e.shadow  BY SMT DEF Driver
  <1> HIDE DEF cut
  <1> QED  BY <1>2, <1>3, <1>4 DEF Driver

\* The panel comes up as it was left, or stays without power.
LEMMA PowerOnFromCut ==
    ASSUME PanelOff, NEW on \in PowerOn(epd, glass)
    PROVE  /\ on.glass = glass
           /\ Driver(on.epd) /\ on.epd.shadow = epd.shadow
           /\ on.ok => on.epd.powered /\ on.epd.ready
           /\ ~on.ok => ~on.epd.powered /\ ~on.epd.ready
  <1>1. ~(epd.powered /\ epd.ready)  BY DEF PanelOff
  <1>2. CASE on = Result(epd, glass, FALSE)  BY <1>2 DEF Result, PanelOff
  <1> DEFINE up == [epd EXCEPT !.powered = TRUE, !.ready = TRUE]
  <1>3. CASE on = Result(up, glass, TRUE)
    <2>1. on.epd = up /\ on.glass = glass /\ on.ok  BY <1>3 DEF Result
    <2>2. up \in [powered : BOOLEAN, ready : BOOLEAN, shadow : {epd.shadow}]
      BY Zenon DEF PanelOff, Driver
    <2>3. up.powered /\ up.ready /\ up.shadow = epd.shadow
      BY SMT DEF PanelOff, Driver
    <2> HIDE DEF up
    <2> QED  BY <2>1, <2>2, <2>3 DEF Driver
  <1>4. CASE \E r \in PowerOff(epd, glass) : on = [r EXCEPT !.ok = FALSE]
    <2>1. PICK r \in PowerOff(epd, glass) : on = [r EXCEPT !.ok = FALSE]
      BY <1>4
    <2>2. /\ Driver(r.epd) /\ ~r.epd.powered /\ ~r.epd.ready
          /\ r.epd.shadow = epd.shadow /\ r.glass = glass
      BY PowerOffCuts DEF PanelOff
    <2>3. on.epd = r.epd /\ on.glass = r.glass /\ ~on.ok
      BY <2>1 DEF PowerOff, Result
    <2> QED  BY <2>2, <2>3
  <1> HIDE DEF up
  <1>5. on \in {Result(epd, glass, FALSE), Result(up, glass, TRUE)}
               \union {[r EXCEPT !.ok = FALSE] : r \in PowerOff(epd, glass)}
    BY <1>1 DEF PowerOn, up
  <1> QED  BY <1>2, <1>3, <1>4, <1>5

\* A refresh that is reported as done has put the image on the glass and the
\* new shadow into the driver.
LEMMA TriggerResult ==
    ASSUME NEW e, Driver(e), NEW g, NEW image, NEW shadow,
           NEW r \in Trigger(e, g, image, shadow)
    PROVE  /\ Driver(r.epd)
           /\ r.ok => r.epd.shadow = shadow /\ r.glass = image
  <1>1. CASE \E h \in {g, image, Unknown} : r = Result(Unsure(e), h, FALSE)
    <2>1. r.epd = Unsure(e) /\ ~r.ok  BY <1>1 DEF Result
    <2>2. Unsure(e) \in [powered : BOOLEAN, ready : BOOLEAN, shadow : {Unknown}]
      BY Zenon DEF Unsure, Driver
    <2>3. Unsure(e).shadow = Unknown  BY SMT DEF Unsure, Driver
    <2> QED  BY <2>1, <2>2, <2>3 DEF Driver
  <1> DEFINE done == [e EXCEPT !.shadow = shadow]
  <1>2. CASE r = Result(done, image, TRUE)
    <2>1. r.epd = done /\ r.glass = image /\ r.ok  BY <1>2 DEF Result
    <2>2. done \in [powered : BOOLEAN, ready : BOOLEAN, shadow : {shadow}]
      BY Zenon DEF Driver
    <2>3. done.shadow = shadow  BY SMT DEF Driver
    <2> HIDE DEF done
    <2> QED  BY <2>1, <2>2, <2>3 DEF Driver
  <1> QED  BY <1>1, <1>2 DEF Trigger

\* That image is the frame, after a partial refresh because it started from the
\* image it was computed for.
LEMMA RefreshResult ==
    ASSUME Trusted, NEW frame, NEW plan \in {"full", "partial"},
           plan = "partial" => previous # Unknown,
           NEW e, Driver(e), e.powered, e.ready, e.shadow = epd.shadow,
           NEW r \in Refresh(plan, e, glass, frame)
    PROVE  /\ Driver(r.epd)
           /\ r.ok => r.epd.shadow = frame /\ r.glass = frame
  <1>1. CASE plan = "full"
    <2>1. r \in Trigger(e, glass, frame, frame)
      BY <1>1 DEF Refresh, RefreshFull
    <2> QED  BY <2>1, TriggerResult
  <1>2. CASE plan = "partial"
    <2>1. glass = previous /\ epd.shadow = previous /\ previous # Unknown
      BY <1>2 DEF Trusted
    <2>2. r \in Trigger(e, glass, frame, frame)
      BY <1>2, <2>1 DEF Refresh, RefreshPartial
    <2> QED  BY <2>2, TriggerResult
  <1> QED  BY <1>1, <1>2

-------------------------------------------------------------------------------
(* A frame *)

LEMMA PlanCases ==
    ASSUME NEW frame, NEW force, NEW big, Counted
    PROVE  LET plan == Plan(frame, force, big)
           IN  /\ plan \in {"skip", "full", "partial"}
               /\ plan = "skip" => frame = previous
               /\ plan = "partial" => previous # Unknown /\ partials < MaxPartials
  BY MaxPartialsAssumption DEF Plan, MustBeFull, Full, Counted

\* Bringing a frame to the panel keeps what is believed of the panel true, and
\* what is trusted afterwards is that frame.
LEMMA CommitFrameKeeps ==
    ASSUME PanelOff, Trusted, Counted,
           NEW frame, NEW force, NEW ok \in BOOLEAN, CommitFrame(frame, force, ok)
    PROVE  /\ PanelOff' /\ Trusted' /\ Counted'
           /\ previous' # Unknown => previous' = frame
  <1>1. PICK big \in BOOLEAN :
          LET plan == Plan(frame, force, big) IN
          IF plan = "skip" THEN ok /\ UNCHANGED panelVars
          ELSE \E on \in PowerOn(epd, glass) :
               IF ~on.ok
               THEN /\ ~ok /\ Distrust
                    /\ epd' = on.epd /\ UNCHANGED <<glass, wear>>
               ELSE \E r \in Refresh(plan, on.epd, on.glass, frame) :
                    \E off \in PowerOff(r.epd, r.glass) :
                       /\ ok = (r.ok /\ off.ok)
                       /\ IF ok THEN Adopt(plan, frame) ELSE Distrust
                       /\ epd' = off.epd /\ glass' = off.glass
                       /\ wear' = IF plan = "partial" THEN wear + 1
                                  ELSE IF r.ok THEN 0 ELSE wear
    BY DEF CommitFrame
  <1> DEFINE plan == Plan(frame, force, big)
  <1> HIDE DEF plan
  <1>2. /\ plan \in {"skip", "full", "partial"}
        /\ plan = "skip" => frame = previous
        /\ plan = "partial" => previous # Unknown /\ partials < MaxPartials
    BY PlanCases DEF plan
  <1>3. CASE plan = "skip"
    BY <1>1, <1>2, <1>3 DEF plan, PanelOff, Trusted, Counted
  <1>4. CASE plan # "skip"
    <2>1. PICK on \in PowerOn(epd, glass) :
            IF ~on.ok
            THEN /\ ~ok /\ Distrust
                 /\ epd' = on.epd /\ UNCHANGED <<glass, wear>>
            ELSE \E r \in Refresh(plan, on.epd, on.glass, frame) :
                 \E off \in PowerOff(r.epd, r.glass) :
                    /\ ok = (r.ok /\ off.ok)
                    /\ IF ok THEN Adopt(plan, frame) ELSE Distrust
                    /\ epd' = off.epd /\ glass' = off.glass
                    /\ wear' = IF plan = "partial" THEN wear + 1
                               ELSE IF r.ok THEN 0 ELSE wear
      BY <1>1, <1>4 DEF plan
    <2>2. CASE ~on.ok
      BY <2>1, <2>2, PowerOnFromCut DEF Distrust, PanelOff, Trusted, Counted
    <2>3. CASE on.ok
      <3> DEFINE e == on.epd
      <3>0. /\ Driver(e) /\ e.powered /\ e.ready /\ e.shadow = epd.shadow
            /\ on.glass = glass
        BY <2>3, PowerOnFromCut
      <3>1. PICK r \in Refresh(plan, e, glass, frame) :
            \E off \in PowerOff(r.epd, r.glass) :
               /\ ok = (r.ok /\ off.ok)
               /\ IF ok THEN Adopt(plan, frame) ELSE Distrust
               /\ epd' = off.epd /\ glass' = off.glass
               /\ wear' = IF plan = "partial" THEN wear + 1
                          ELSE IF r.ok THEN 0 ELSE wear
        BY <2>1, <2>3, <3>0
      <3>2. PICK off \in PowerOff(r.epd, r.glass) :
               /\ ok = (r.ok /\ off.ok)
               /\ IF ok THEN Adopt(plan, frame) ELSE Distrust
               /\ epd' = off.epd /\ glass' = off.glass
               /\ wear' = IF plan = "partial" THEN wear + 1
                          ELSE IF r.ok THEN 0 ELSE wear
        BY <3>1
      <3> HIDE DEF e
      <3>3. /\ Driver(r.epd)
            /\ r.ok => r.epd.shadow = frame /\ r.glass = frame
        BY <1>2, <1>4, <3>0, RefreshResult
      <3>4. /\ PanelOff'
            /\ r.ok => epd'.shadow = frame /\ glass' = frame
        BY <3>2, <3>3, PowerOffCuts DEF PanelOff
      <3>5. CASE ok
        <4>1. r.ok /\ Adopt(plan, frame)  BY <3>2, <3>5
        <4>2. Trusted' /\ previous' = frame  BY <3>4, <4>1 DEF Trusted, Adopt
        <4>3. Counted'
          BY <1>2, <1>4, <3>2, <4>1, MaxPartialsAssumption DEF Counted, Adopt
        <4> QED  BY <3>4, <4>2, <4>3
      <3>6. CASE ~ok
        <4>1. Distrust  BY <3>2, <3>6
        <4>2. Counted'
          BY <1>2, <1>4, <3>2, <4>1, MaxPartialsAssumption DEF Counted, Distrust
        <4> QED  BY <3>4, <4>1, <4>2 DEF Distrust, Trusted
      <3> QED  BY <3>5, <3>6
    <2> QED  BY <2>2, <2>3
  <1> QED  BY <1>3, <1>4

\* The frame of a confirmation page asks the question.
LEMMA FrameAsks ==
    ASSUME NEW p, NEW v, NEW y, p = "Confirm"
    PROVE  /\ Frame(p, v, y).visual = "Confirm"
           /\ Frame(p, v, y).mark = (IF y THEN 1 ELSE 0)
  BY DEF Frame, Visual

-------------------------------------------------------------------------------
(* The steps *)

LEMMA InitHolds == Init => IInv
  <1> SUFFICES ASSUME Init PROVE IInv  OBVIOUS
  <1>1. PanelOff  BY DEF Init, PanelOff, Driver
  <1>2. Trusted /\ Asked  BY DEF Init, Trusted, Asked
  <1>3. Counted  BY MaxPartialsAssumption DEF Init, Counted
  <1> QED  BY <1>1, <1>2, <1>3 DEF IInv

LEMMA LookKeeps ==
    ASSUME IInv, Look
    PROVE  IInv'
  <1>1. CASE \E ok \in BOOLEAN : CommitFrame(Frame(page', view, yes), FALSE, ok) /\ Rendered(ok)
    <2>1. PICK ok \in BOOLEAN : CommitFrame(Frame(page', view, yes), FALSE, ok)
      BY <1>1
    <2>2. /\ PanelOff' /\ Trusted' /\ Counted'
          /\ previous' # Unknown => previous' = Frame(page', view, yes)
      BY <2>1, CommitFrameKeeps DEF IInv
    <2>3. Asked'  BY <2>2, FrameAsks DEF Asked, Look
    <2> QED  BY <2>2, <2>3 DEF IInv
  <1>2. CASE fresh /\ ~NewAlert(view) /\ UNCHANGED <<fresh, panelVars>>
    BY <1>2 DEF Look, IInv, PanelOff, Trusted, Counted, Asked
  <1> QED  BY <1>1, <1>2 DEF Look

LEMMA ButtonKeeps ==
    ASSUME IInv, NEW next, NEW answer, Button(next, answer)
    PROVE  IInv'
  <1>1. PICK ok \in BOOLEAN : CommitFrame(Frame(page', view, yes'), FALSE, ok)
    BY DEF Button, Drawn
  <1>2. /\ PanelOff' /\ Trusted' /\ Counted'
        /\ previous' # Unknown => previous' = Frame(page', view, yes')
    BY <1>1, CommitFrameKeeps DEF IInv
  <1>3. Asked'  BY <1>2, FrameAsks DEF Asked
  <1> QED  BY <1>2, <1>3 DEF IInv

LEMMA CleanScreenKeeps ==
    ASSUME IInv, CleanScreen
    PROVE  IInv'
  <1>1. PICK ok \in BOOLEAN : CommitFrame(Frame(page', view, yes), TRUE, ok)
    BY DEF CleanScreen
  <1>2. PanelOff' /\ Trusted' /\ Counted'
    BY <1>1, CommitFrameKeeps DEF IInv
  <1>3. Asked'  BY DEF Asked, CleanScreen
  <1> QED  BY <1>2, <1>3 DEF IInv

LEMMA ShutdownKeeps ==
    ASSUME IInv, Shutdown
    PROVE  IInv'
  <1>1. PICK frame \in {Goodbye, Blank}, ok \in BOOLEAN : CommitFrame(frame, TRUE, ok)
    BY DEF Shutdown, Closing
  <1>2. PanelOff' /\ Trusted' /\ Counted'
    BY <1>1, CommitFrameKeeps DEF IInv
  <1>3. Asked'  BY DEF Asked, Shutdown, Closing
  <1> QED  BY <1>2, <1>3 DEF IInv

LEMMA StepKeeps == IInv /\ [Next]_vars => IInv'
  <1> SUFFICES ASSUME IInv, [Next]_vars PROVE IInv'  OBVIOUS
  <1>1. CASE Look  BY <1>1, LookKeeps
  <1>2. CASE LookFails \/ NoButton
    BY <1>2 DEF LookFails, NoButton, IInv, PanelOff, Trusted, Counted, Asked
  <1>3. CASE \E next, answer : Button(next, answer)
    BY <1>3, ButtonKeeps
  <1>4. CASE CleanScreen  BY <1>4, CleanScreenKeeps
  <1>5. CASE Shutdown  BY <1>5, ShutdownKeeps
  <1>6. CASE ViewChanges
    BY <1>6 DEF ViewChanges, IInv, PanelOff, Trusted, Counted, Asked
  <1>7. CASE UNCHANGED vars
    BY <1>7 DEF vars, IInv, PanelOff, Trusted, Counted, Asked
  <1>8. HandleButton /\ ~CleanScreen => \E next, answer : Button(next, answer)
    BY DEF HandleButton, Browse, Unheard, OkHeld, AskToConfirm, Toggle,
           Confirmed, NotConfirmed
  <1> QED
    BY <1>1, <1>2, <1>3, <1>4, <1>5, <1>6, <1>7, <1>8 DEF Next, Loop

LEMMA ScreenInvariant == Spec => []IInv
  <1>1. Init => IInv  BY InitHolds
  <1>2. IInv /\ [Next]_vars => IInv'  BY StepKeeps
  <1> QED  BY <1>1, <1>2, PTL DEF Spec

-------------------------------------------------------------------------------
\* Whatever call of the panel failed before, a copy of the last frame that is
\* trusted is on the glass and in the driver (vibe_note4_ui.cc: CommitFrame).
THEOREM ScreenPreviousOnGlass == Spec => []PreviousOnGlass
  <1>1. IInv => PreviousOnGlass
    BY DEF IInv, PanelOff, Trusted, PreviousOnGlass
  <1> QED  BY <1>1, ScreenInvariant, PTL

\* No more than MaxPartials partial refreshes follow each other
\* (epd_refresh_policy.c: note4_epd_plan_refresh).
THEOREM ScreenPartialsBounded == Spec => []PartialsBounded
  <1>1. IInv => PartialsBounded  BY DEF IInv, Counted, PartialsBounded
  <1> QED  BY <1>1, ScreenInvariant, PTL

\* Nothing is confirmed blind: unless the last frame failed, the question with
\* "yes" marked is on the glass (vibe_note4_ui.cc: HandleButton).
THEOREM ScreenNoBlindReset == Spec => NoBlindReset
  <1>1. IInv /\ [Next]_vars =>
          [Confirmed => previous = Unknown
                         \/ (glass.visual = "Confirm" /\ glass.mark = 1)]_vars
    BY DEF IInv, Trusted, Asked, Confirmed, Button
  <1> QED  BY <1>1, ScreenInvariant, PTL DEF Spec, NoBlindReset

-------------------------------------------------------------------------------
(* The types.  The panel's follow from those of the frames it is given. *)

PanelOK ==
    /\ previous \in Frames /\ glass \in Frames /\ epd.shadow \in Frames
    /\ partials \in 0..MaxPartials

ControlOK ==
    /\ pc \in {"look", "wait", "stopping", "off"}
    /\ view \in [mode : Modes, body : {0, 1}, alert : Alerts, seq : Sequences]
    /\ fresh \in BOOLEAN
    /\ shown \in [id : Alerts, seq : Sequences]
    /\ page \in Pages /\ yes \in BOOLEAN

LEMMA FixedFrames == {Unknown, Blank, Goodbye} \subseteq Frames
  <1>1. Unknown \in Frames /\ Blank \in Frames
    BY DEF Unknown, Blank, Frames
  <1>2. Goodbye = [visual |-> "Shutdown", body |-> 0, mark |-> 1]
    BY SMT DEF Goodbye, Blank
  <1>3. Goodbye \in Frames  BY <1>2 DEF Frames
  <1> QED  BY <1>1, <1>3

LEMMA FrameTyped ==
    ASSUME NEW p \in Pages, NEW y \in BOOLEAN,
           NEW v \in [mode : Modes, body : {0, 1}, alert : Alerts, seq : Sequences]
    PROVE  Frame(p, v, y) \in Frames
  <1>1. Visual(p, v) \in Pages \union {"link", "Shutdown", "unknown"}
    BY DEF Visual, Pages, Modes
  <1>2. (IF p = "Confirm" /\ y THEN 1 ELSE IF p = "Todo" THEN v.alert ELSE 0) \in {0, 1}
    BY DEF Alerts
  <1>3. v.body \in {0, 1}  OBVIOUS
  <1> QED  BY Zenon, <1>1, <1>2, <1>3 DEF Frame, Frames

\* What a refresh leaves is something it was given, or nobody knows what.
LEMMA TriggerTyped ==
    ASSUME NEW e, Driver(e), NEW g \in Frames,
           NEW image \in Frames, NEW shadow \in Frames,
           NEW r \in Trigger(e, g, image, shadow)
    PROVE  r.epd.shadow \in Frames /\ r.glass \in Frames
  <1>1. CASE \E h \in {g, image, Unknown} : r = Result(Unsure(e), h, FALSE)
    <2>1. r.epd = Unsure(e) /\ r.glass \in {g, image, Unknown}
      BY <1>1 DEF Result
    <2>2. Unsure(e).shadow = Unknown  BY SMT DEF Unsure, Driver
    <2> QED  BY <2>1, <2>2, FixedFrames
  <1> DEFINE done == [e EXCEPT !.shadow = shadow]
  <1>2. CASE r = Result(done, image, TRUE)
    <2>1. r.epd = done /\ r.glass = image  BY <1>2 DEF Result
    <2>2. done.shadow = shadow  BY SMT DEF Driver
    <2> HIDE DEF done
    <2> QED  BY <2>1, <2>2
  <1> QED  BY <1>1, <1>2 DEF Trigger

LEMMA RefreshTyped ==
    ASSUME NEW frame \in Frames, NEW plan, NEW e, Driver(e), e.shadow \in Frames,
           NEW g \in Frames, NEW r \in Refresh(plan, e, g, frame)
    PROVE  r.epd.shadow \in Frames /\ r.glass \in Frames
  <1>1. CASE r = Result(e, g, FALSE)  BY <1>1 DEF Result
  <1>2. CASE \E image, shadow \in {frame, Unknown} : r \in Trigger(e, g, image, shadow)
    BY <1>2, TriggerTyped, FixedFrames
  <1>3. CASE plan = "full"
    BY <1>1, <1>2, <1>3 DEF Refresh, RefreshFull
  <1>4. CASE plan # "full"
    <2> DEFINE shadow == IF previous = e.shadow THEN frame ELSE Unknown
               image == IF g = e.shadow THEN shadow ELSE Unknown
    <2>1. shadow \in {frame, Unknown} /\ image \in {frame, Unknown}
      OBVIOUS
    <2>2. r = Result(e, g, FALSE) \/ r \in Trigger(e, g, image, shadow)
      BY <1>4 DEF Refresh, RefreshPartial
    <2> HIDE DEF shadow, image
    <2> QED  BY <1>1, <1>2, <2>1, <2>2
  <1> QED  BY <1>3, <1>4

LEMMA RefreshDriver ==
    ASSUME NEW frame, NEW plan, NEW e, Driver(e), NEW g,
           NEW r \in Refresh(plan, e, g, frame)
    PROVE  Driver(r.epd)
  <1>1. r = Result(e, g, FALSE) \/ \E image, shadow : r \in Trigger(e, g, image, shadow)
    BY DEF Refresh, RefreshFull, RefreshPartial
  <1>2. CASE r = Result(e, g, FALSE)  BY <1>2 DEF Result
  <1> QED  BY <1>1, <1>2, TriggerResult

LEMMA CommitFrameTyped ==
    ASSUME IInv, PanelOK, NEW frame \in Frames, NEW force, NEW ok \in BOOLEAN,
           CommitFrame(frame, force, ok)
    PROVE  PanelOK'
  <1>1. PICK big \in BOOLEAN :
          LET plan == Plan(frame, force, big) IN
          IF plan = "skip" THEN ok /\ UNCHANGED panelVars
          ELSE \E on \in PowerOn(epd, glass) :
               IF ~on.ok
               THEN /\ ~ok /\ Distrust
                    /\ epd' = on.epd /\ UNCHANGED <<glass, wear>>
               ELSE \E r \in Refresh(plan, on.epd, on.glass, frame) :
                    \E off \in PowerOff(r.epd, r.glass) :
                       /\ ok = (r.ok /\ off.ok)
                       /\ IF ok THEN Adopt(plan, frame) ELSE Distrust
                       /\ epd' = off.epd /\ glass' = off.glass
                       /\ wear' = IF plan = "partial" THEN wear + 1
                                  ELSE IF r.ok THEN 0 ELSE wear
    BY DEF CommitFrame
  <1> DEFINE plan == Plan(frame, force, big)
  <1>2. /\ plan \in {"skip", "full", "partial"}
        /\ plan = "partial" => partials < MaxPartials
    BY PlanCases DEF IInv
  <1> HIDE DEF plan
  <1>3. (plan # "skip" /\ Adopt(plan, frame)) \/ Distrust
          => previous' \in Frames /\ partials' \in 0..MaxPartials
    BY <1>2, FixedFrames, MaxPartialsAssumption DEF Adopt, Distrust, PanelOK
  <1>4. CASE plan = "skip"
    BY <1>1, <1>4 DEF plan, PanelOK
  <1>5. CASE plan # "skip"
    <2>1. PICK on \in PowerOn(epd, glass) :
            IF ~on.ok
            THEN /\ ~ok /\ Distrust
                 /\ epd' = on.epd /\ UNCHANGED <<glass, wear>>
            ELSE \E r \in Refresh(plan, on.epd, on.glass, frame) :
                 \E off \in PowerOff(r.epd, r.glass) :
                    /\ IF ok THEN Adopt(plan, frame) ELSE Distrust
                    /\ epd' = off.epd /\ glass' = off.glass
      BY <1>1, <1>5 DEF plan
    <2>2. on.glass = glass /\ Driver(on.epd) /\ on.epd.shadow = epd.shadow
      BY PowerOnFromCut DEF IInv
    <2>3. CASE ~on.ok
      BY <1>3, <1>5, <2>1, <2>2, <2>3 DEF PanelOK
    <2>4. CASE on.ok
      <3> DEFINE e == on.epd
      <3>0. PICK r \in Refresh(plan, e, glass, frame) :
              \E off \in PowerOff(r.epd, r.glass) :
                 /\ IF ok THEN Adopt(plan, frame) ELSE Distrust
                 /\ epd' = off.epd /\ glass' = off.glass
        BY <2>1, <2>2, <2>4
      <3>1. PICK off \in PowerOff(r.epd, r.glass) :
              /\ IF ok THEN Adopt(plan, frame) ELSE Distrust
              /\ epd' = off.epd /\ glass' = off.glass
        BY <3>0
      <3>2. Driver(e) /\ e.shadow \in Frames  BY <2>2 DEF PanelOK
      <3> HIDE DEF e
      <3>3. r.epd.shadow \in Frames /\ r.glass \in Frames
        BY <3>2, RefreshTyped DEF PanelOK
      <3>4. Driver(r.epd)
        BY <3>2, RefreshDriver
      <3>5. off.epd.shadow = r.epd.shadow /\ off.glass = r.glass
        BY <3>4, PowerOffCuts
      <3> QED  BY <1>3, <1>5, <3>1, <3>3, <3>5 DEF PanelOK
    <2> QED  BY <2>3, <2>4
  <1> QED  BY <1>4, <1>5

LEMMA InitTyped == Init => ControlOK /\ PanelOK
  <1> SUFFICES ASSUME Init PROVE ControlOK /\ PanelOK  OBVIOUS
  <1>1. view \in [mode : Modes, body : {0, 1}, alert : Alerts, seq : Sequences]
    BY DEF Init, Modes, Alerts, Sequences
  <1>2. shown \in [id : Alerts, seq : Sequences]
    BY DEF Init, Alerts, Sequences
  <1>3. ControlOK  BY <1>1, <1>2 DEF Init, ControlOK, Pages
  <1>4. PanelOK  BY FixedFrames, MaxPartialsAssumption DEF Init, PanelOK
  <1> QED  BY <1>3, <1>4

LEMMA ControlKeeps == ControlOK /\ [Next]_vars => ControlOK'
  <1> SUFFICES ASSUME ControlOK, [Next]_vars PROVE ControlOK'  OBVIOUS
  <1>1. CASE Look
    <2>1. shown' \in [id : Alerts, seq : Sequences]
      <3>1. CASE NewAlert(view)
        <4>1. shown' = [id |-> view.alert, seq |-> view.seq]  BY <1>1, <3>1 DEF Look
        <4>2. view.alert \in Alerts /\ view.seq \in Sequences  BY DEF ControlOK
        <4> QED  BY <4>1, <4>2
      <3>2. CASE ~NewAlert(view)
        <4>1. shown' = shown \/ shown' = [shown EXCEPT !.id = 0]
          BY <1>1, <3>2 DEF Look
        <4>2. shown \in [id : Alerts, seq : Sequences] /\ 0 \in Alerts
          BY DEF ControlOK, Alerts
        <4>3. [shown EXCEPT !.id = 0] \in [id : Alerts, seq : Sequences]
          BY Zenon, <4>2
        <4> QED  BY <4>1, <4>2, <4>3
      <3> QED  BY <3>1, <3>2
    <2>2. fresh' \in BOOLEAN
      BY Zenon, <1>1 DEF Look, Rendered, ControlOK
    <2>3. page' \in Pages  BY <1>1 DEF Look, ControlOK, Pages
    <2> QED  BY <1>1, <2>1, <2>2, <2>3 DEF Look, ControlOK
  <1>2. CASE LookFails \/ NoButton
    BY <1>2 DEF LookFails, NoButton, ControlOK
  <1>3. CASE \E next \in Pages, answer \in BOOLEAN : Button(next, answer)
    BY <1>3 DEF Button, ControlOK
  <1>4. CASE CleanScreen  BY <1>4 DEF CleanScreen, ControlOK, Pages
  <1>5. CASE Shutdown  BY <1>5 DEF Shutdown, Closing, ControlOK
  <1>6. CASE ViewChanges
    <2>1. view' \in [mode : Modes, body : {0, 1}, alert : Alerts, seq : Sequences]
      BY <1>6 DEF ViewChanges
    <2> QED  BY <1>6, <2>1 DEF ViewChanges, ControlOK
  <1>7. CASE UNCHANGED vars  BY <1>7 DEF vars, ControlOK
  <1>8. HandleButton /\ ~CleanScreen
          => \E next \in Pages, answer \in BOOLEAN : Button(next, answer)
    BY DEF HandleButton, Browse, Unheard, OkHeld, AskToConfirm, Toggle,
           Confirmed, NotConfirmed, ControlOK, Pages
  <1> QED
    BY <1>1, <1>2, <1>3, <1>4, <1>5, <1>6, <1>7, <1>8 DEF Next, Loop

LEMMA PanelKeeps == IInv /\ ControlOK /\ PanelOK /\ [Next]_vars => PanelOK'
  <1> SUFFICES ASSUME IInv, ControlOK, PanelOK, [Next]_vars PROVE PanelOK'
    OBVIOUS
  <1>1. ControlOK'  BY ControlKeeps
  <1>2. ASSUME NEW ok \in BOOLEAN, NEW force, NEW answer \in BOOLEAN,
               CommitFrame(Frame(page', view, answer), force, ok)
        PROVE  PanelOK'
    <2>1. Frame(page', view, answer) \in Frames
      BY <1>1, FrameTyped DEF ControlOK
    <2> QED  BY <1>2, <2>1, CommitFrameTyped
  <1>3. CASE UNCHANGED panelVars  BY <1>3 DEF PanelOK
  <1>4. CASE Look
    BY <1>2, <1>3, <1>4 DEF Look, ControlOK
  <1>5. CASE \E next, answer : Button(next, answer)
    <2>1. PICK ok \in BOOLEAN : CommitFrame(Frame(page', view, yes'), FALSE, ok)
      BY <1>5 DEF Button, Drawn
    <2> QED  BY <1>1, <1>2, <2>1 DEF ControlOK
  <1>6. CASE CleanScreen
    BY <1>2, <1>6 DEF CleanScreen, ControlOK
  <1>7. CASE Shutdown
    <2>1. PICK frame \in {Goodbye, Blank}, ok \in BOOLEAN : CommitFrame(frame, TRUE, ok)
      BY <1>7 DEF Shutdown, Closing
    <2> QED  BY <2>1, FixedFrames, CommitFrameTyped
  <1>8. CASE LookFails \/ NoButton \/ ViewChanges \/ UNCHANGED vars
    BY <1>3, <1>8 DEF LookFails, NoButton, ViewChanges, vars
  <1>9. HandleButton /\ ~CleanScreen => \E next, answer : Button(next, answer)
    BY DEF HandleButton, Browse, Unheard, OkHeld, AskToConfirm, Toggle,
           Confirmed, NotConfirmed
  <1> QED
    BY <1>4, <1>5, <1>6, <1>7, <1>8, <1>9 DEF Next, Loop

\* Every variable keeps its type: the pages, the view, and on the panel only
\* frames that were drawn or an image that is known to be unknown
\* (zectrix_epd.cc, vibe_note4_ui.cc: CommitFrame).
THEOREM ScreenTypes == Spec => []TypeOK
  <1>1. Init => IInv /\ ControlOK /\ PanelOK  BY InitHolds, InitTyped
  <1>2. IInv /\ ControlOK /\ PanelOK /\ [Next]_vars => (IInv /\ ControlOK /\ PanelOK)'
    BY StepKeeps, ControlKeeps, PanelKeeps
  <1>3. IInv /\ ControlOK /\ PanelOK => TypeOK
    <2> SUFFICES ASSUME IInv, ControlOK, PanelOK PROVE TypeOK  OBVIOUS
    <2>1. epd \in [powered : BOOLEAN, ready : BOOLEAN, shadow : Frames]
      BY Zenon DEF IInv, PanelOff, Driver, PanelOK
    <2> QED  BY <2>1 DEF ControlOK, PanelOK, TypeOK
  <1> QED  BY <1>1, <1>2, <1>3, PTL DEF Spec

===============================================================================
