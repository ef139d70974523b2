------------------------------ MODULE Note4Screen ------------------------------
(***************************************************************************)
(* The Zectrix Note: one task that looks at the controller's view, draws,  *)
(* waits for a button, and drives an e-paper panel that keeps its image    *)
(* without power and that may be refreshed in part only from an image that *)
(* is known.  Every call of the panel may fail half-way.  Meanwhile the    *)
(* controller changes its view and reminders come and go.                  *)
(*                                                                         *)
(* A frame is the visual, the body of its text, and its mark: the answer   *)
(* on a confirmation page, the reminder on the TODO page.  Pages that take *)
(* buttons alike are one page here; list offsets, settings rows, QR steps  *)
(* and the recording (TodoList) are left out.  A copy of a frame that is   *)
(* not valid is "Unknown": the code compares it, but the result is unused. *)
(***************************************************************************)
EXTENDS Naturals

CONSTANT MaxPartials  \* partial refreshes between two full ones (10 in the code)

ASSUME MaxPartialsAssumption == MaxPartials \in Nat

VARIABLES
    pc,         \* where the task is
    view,       \* the controller's view
    fresh,      \* rendered_revision_ is the view's revision
    shown,      \* shown_alert_id_ and shown_alert_sequence_
    page,       \* page_
    yes,        \* confirm_yes_
    previous,   \* previous_ with its visual and QR hash, if previous_valid_
    partials,   \* partial_count_
    epd,        \* the driver: powered, controller_ready, its shadow
    glass,      \* what the panel shows
    wear        \* partial refreshes since the last full one (history)

panelVars == <<previous, partials, epd, glass, wear>>
vars == <<pc, view, fresh, shown, page, yes, panelVars>>

\* "Usage" is the overview, the agents and the status; "Menu" the settings and
\* the pages opened from them; "Confirm" either confirmation.
Pages == {"Usage", "Todo", "Menu", "Confirm"}
Modes == {"usage", "link"}
Alerts == {0, 1}      \* todo_alert_id, 0 when there is none
Sequences == {0, 1}   \* todo_alert_sequence

Unknown == [visual |-> "unknown", body |-> 0, mark |-> 0]
Blank == [visual |-> "Shutdown", body |-> 0, mark |-> 0]
Goodbye == [Blank EXCEPT !.mark = 1]

(***************************************************************************)
(* Drawing: ResolveVisual and Render.                                      *)
(***************************************************************************)
\* What the controller is busy with covers the usage pages only.
Visual(p, v) == IF p = "Usage" /\ v.mode # "usage" THEN v.mode ELSE p

Frame(p, v, y) ==
    [visual |-> Visual(p, v),
     body |-> v.body,
     mark |-> IF p = "Confirm" /\ y THEN 1 ELSE IF p = "Todo" THEN v.alert ELSE 0]

\* The hash of the QR code drawn: the link page has one, and it may change.
Qr(frame) == IF frame.visual = "link" THEN frame.body + 1 ELSE 0

(***************************************************************************)
(* zectrix_epd.cc: each call as the set of its results.                    *)
(***************************************************************************)
Result(e, g, good) == [epd |-> e, glass |-> g, ok |-> good]

\* The driver takes the rail for cut even when its pin refused.
PowerOff(e, g) ==
    {Result([e EXCEPT !.powered = FALSE, !.ready = FALSE], g, good) : good \in BOOLEAN}

\* The pin fails, or the reset does and power goes off again, or all is well.
PowerOn(e, g) ==
    IF e.powered /\ e.ready THEN {Result(e, g, TRUE)}
    ELSE {Result(e, g, FALSE), Result([e EXCEPT !.powered = TRUE, !.ready = TRUE], g, TRUE)}
         \union {[r EXCEPT !.ok = FALSE] : r \in PowerOff(e, g)}

\* A refresh that should bring "image" to the glass, once the frame is checked:
\* nothing happened, it stopped anywhere, it was done but not concluded, or
\* all is well.
Unsure(e) == [e EXCEPT !.ready = FALSE, !.shadow = Unknown]
Trigger(e, g, image, shadow) ==
    {Result(Unsure(e), h, FALSE) : h \in {g, image, Unknown}}
        \union {Result([e EXCEPT !.shadow = shadow], image, TRUE)}

RefreshFull(e, g, frame) ==
    IF ~(e.powered /\ e.ready) THEN {Result(e, g, FALSE)}
    ELSE Trigger(e, g, frame, frame)

\* Only the rectangle that differs from the application's copy is sent, as
\* transitions from the driver's shadow.
RefreshPartial(e, g, frame, copy) ==
    IF ~(e.powered /\ e.ready /\ e.shadow # Unknown) THEN {Result(e, g, FALSE)}
    ELSE LET shadow == IF copy = e.shadow THEN frame ELSE Unknown
         IN  Trigger(e, g, IF g = e.shadow THEN shadow ELSE Unknown, shadow)

(***************************************************************************)
(* note4_epd_plan_refresh and CommitFrame.                                 *)
(***************************************************************************)
MustBeFull(frame, force) ==
    \/ force \/ previous = Unknown
    \/ frame.visual # previous.visual
    \/ Qr(frame) # Qr(previous)

\* Too much of the glass changes, or it had its share of partial refreshes.
FullUncounted(big) == big
Full(big) == big \/ partials >= MaxPartials

Plan(frame, force, big) ==
    IF MustBeFull(frame, force) THEN "full"
    ELSE IF frame = previous THEN "skip"
    ELSE IF Full(big) THEN "full" ELSE "partial"

Refresh(plan, e, g, frame) ==
    IF plan = "full" THEN RefreshFull(e, g, frame)
                     ELSE RefreshPartial(e, g, frame, previous)

KeepTrust == UNCHANGED <<previous, partials>>
Distrust == previous' = Unknown /\ UNCHANGED partials

Adopt(plan, frame) ==
    /\ previous' = frame
    /\ partials' = IF plan = "full" THEN 0 ELSE partials + 1

\* The outcome of bringing a frame to the panel: ok, or some call failed.
CommitFrame(frame, force, ok) ==
    \E big \in BOOLEAN :
        LET plan == Plan(frame, force, big) IN
        IF plan = "skip" THEN ok /\ UNCHANGED panelVars
        ELSE \E on \in PowerOn(epd, glass) :
             IF ~on.ok
             THEN /\ ~ok /\ Distrust
                  /\ epd' = on.epd /\ UNCHANGED <<glass, wear>>
             ELSE \E r \in Refresh(plan, on.epd, on.glass, frame) :
                  \E off \in PowerOff(r.epd, r.glass) :
                     /\ ok = (r.ok /\ off.ok)
                     /\ IF ok THEN Adopt(plan, frame) ELSE Distrust
                     /\ epd' = off.epd /\ glass' = off.glass
                     /\ wear' = IF plan = "partial" THEN wear + 1
                                ELSE IF r.ok THEN 0 ELSE wear

Init ==
    /\ pc = "look"
    /\ view = [mode |-> "link", body |-> 0, alert |-> 0, seq |-> 0]
    /\ fresh = FALSE
    /\ shown = [id |-> 0, seq |-> 0]
    /\ page = "Usage" /\ yes = FALSE
    /\ previous = Unknown /\ partials = 0
    /\ epd = [powered |-> FALSE, ready |-> FALSE, shadow |-> Unknown]
    /\ glass = Unknown
    /\ wear = 0

(***************************************************************************)
(* Loop: a look at the view and, if it is another one, a frame of it.  The *)
(* task works on its own copy, so a look and its frame are one step.       *)
(***************************************************************************)
NewAlertById(v) == v.alert # 0 /\ v.alert # shown.id
NewAlert(v) == v.alert # 0 /\ (v.alert # shown.id \/ v.seq # shown.seq)

\* A frame that failed is drawn again at the next look.
RenderedAnyway(ok) == fresh' = TRUE
Rendered(ok) == fresh' = ok

\* A new reminder turns to the TODO page; it asks for a frame, as does the
\* reading of the battery that is due.
Look ==
    /\ pc = "look" /\ pc' = "wait"
    /\ IF NewAlert(view)
       THEN page' = "Todo" /\ shown' = [id |-> view.alert, seq |-> view.seq]
       ELSE /\ UNCHANGED page
            /\ shown' = IF view.alert = 0 THEN [shown EXCEPT !.id = 0] ELSE shown
    /\ \/ \E ok \in BOOLEAN : CommitFrame(Frame(page', view, yes), FALSE, ok) /\ Rendered(ok)
       \/ fresh /\ ~NewAlert(view) /\ UNCHANGED <<fresh, panelVars>>
    /\ UNCHANGED <<view, yes>>

\* The view's mutex was not free in time.
LookFails ==
    /\ pc = "look" /\ pc' = "wait"
    /\ UNCHANGED <<view, fresh, shown, page, yes, panelVars>>

NoButton ==
    /\ pc = "wait" /\ pc' = "look"
    /\ UNCHANGED <<view, fresh, shown, page, yes, panelVars>>

(***************************************************************************)
(* HandleButton.  Whatever the button, the page is drawn from the view the *)
(* press was judged by, and at the next look once more.                    *)
(***************************************************************************)
NotDrawn == UNCHANGED panelVars
Drawn == \E ok \in BOOLEAN : CommitFrame(Frame(page', view, yes'), FALSE, ok)

Button(next, answer) ==
    /\ pc = "wait" /\ pc' = "look"
    /\ page' = next /\ yes' = answer
    /\ Drawn
    /\ fresh' = FALSE
    /\ UNCHANGED <<view, shown>>

\* Next page, next row, other window; on the TODO page also the dismissal of
\* the reminder, which the controller answers by a change of its view; in the
\* menu a row that dispatches or opens a page.  While something covers the
\* usage pages, OK dispatches and the others turn to the TODO page.
Browse ==
    /\ page # "Confirm"
    /\ \E next \in IF page = "Menu" THEN {"Menu", "Usage"} ELSE {"Usage", "Todo"} :
         Button(next, yes)

\* A release, another button held, a click while OK records: drawn all the same.
Unheard == Button(page, yes)

\* OK held: the menu and back, but for the TODO page, where it records.
OkHeld ==
    /\ page # "Todo"
    /\ Button(IF page = "Menu" THEN "Usage" ELSE "Menu", FALSE)

AskToConfirm == page = "Menu" /\ Button("Confirm", FALSE)

Toggle == page = "Confirm" /\ Button(page, ~yes)

Confirmed == page = "Confirm" /\ yes /\ Button("Usage", FALSE)
NotConfirmed == page = "Confirm" /\ ~yes /\ Button("Menu", FALSE)

\* "Refresh screen" and the language drop the copy, then the page is drawn.
CleanScreen ==
    /\ pc = "wait" /\ pc' = "look"
    /\ page = "Menu" /\ page' \in {"Usage", "Menu"}
    /\ \E ok \in BOOLEAN : CommitFrame(Frame(page', view, yes), TRUE, ok)
    /\ fresh' = FALSE
    /\ UNCHANGED <<view, shown, yes>>

(***************************************************************************)
(* Shutdown: a last frame, the controller's barrier (however it ends), a   *)
(* white glass, and the power is cut.                                      *)
(***************************************************************************)
Closing(from, to, frame) ==
    /\ pc = from /\ pc' = to
    /\ \E ok \in BOOLEAN : CommitFrame(frame, TRUE, ok)
    /\ UNCHANGED <<view, fresh, shown, page, yes>>

Shutdown == Closing("wait", "stopping", Goodbye) \/ Closing("stopping", "off", Blank)

(***************************************************************************)
(* The controller: another revision of the view, perhaps another ring of a *)
(* reminder.  Its revisions do not wrap around between two looks, nor its  *)
(* sequences while the task still has to look.                             *)
(***************************************************************************)
ViewChanges ==
    /\ pc # "off"
    /\ \E m \in Modes, b \in {0, 1}, a \in Alerts, s \in Sequences :
         /\ a # view.alert \/ s # view.seq => a # 0 \/ s = view.seq
         /\ a # 0 /\ a # view.alert => s # view.seq
         /\ s # view.seq => s # shown.seq
         /\ view' = [mode |-> m, body |-> b, alert |-> a, seq |-> s]
    /\ fresh' = FALSE
    /\ UNCHANGED <<pc, shown, page, yes, panelVars>>

-----------------------------------------------------------------------------
HandleButton ==
    \/ Browse \/ Unheard \/ OkHeld \/ AskToConfirm \/ Toggle
    \/ Confirmed \/ NotConfirmed \/ CleanScreen

Loop == Look \/ LookFails \/ NoButton

Next == Loop \/ HandleButton \/ Shutdown \/ ViewChanges

Spec == Init /\ [][Next]_vars

\* The task runs on, the view's mutex is free now and then, and the panel takes
\* one of infinitely many frames that are asked for because the view is another.
FairSpec ==
    /\ Spec
    /\ WF_vars(Loop) /\ SF_vars(Look)
    /\ SF_vars(~fresh /\ Look /\ previous' # Unknown)

-----------------------------------------------------------------------------
(***************************************************************************)
(* Correctness.                                                            *)
(***************************************************************************)
Frames == [visual : Pages \union {"link", "Shutdown", "unknown"}, body : {0, 1}, mark : {0, 1}]

TypeOK ==
    /\ pc \in {"look", "wait", "stopping", "off"}
    /\ view \in [mode : Modes, body : {0, 1}, alert : Alerts, seq : Sequences]
    /\ fresh \in BOOLEAN
    /\ shown \in [id : Alerts, seq : Sequences]
    /\ page \in Pages /\ yes \in BOOLEAN
    /\ previous \in Frames /\ glass \in Frames
    /\ partials \in 0..MaxPartials
    /\ epd \in [powered : BOOLEAN, ready : BOOLEAN, shadow : Frames]

\* Whatever call of the panel failed, between two frames the driver takes it for
\* off, so that the next frame powers it on and resets it (zectrix_epd.cc:264);
\* and while the application trusts its copy of the last frame, that is what the
\* glass shows and what the driver computes the next transitions from
\* (vibe_note4_ui.cc:1071): a partial refresh never starts from a guess.
PreviousOnGlass ==
    /\ ~epd.powered /\ ~epd.ready
    /\ previous # Unknown => glass = previous /\ epd.shadow = previous

\* Ghosts do not pile up: no more than MaxPartials partial refreshes, failed
\* ones included, follow each other without a full one.
PartialsBounded == wear <= MaxPartials

\* An unlink or a factory reset is never dispatched blind: unless the last frame
\* failed, the glass asked the question with "yes" marked, although reminders
\* turn the page and presses queue up while the panel is slow.
NoBlindReset ==
    [][ Confirmed => previous = Unknown \/ (glass.visual = "Confirm" /\ glass.mark = 1) ]_vars

\* Each ring of a reminder turns the screen to it, even when it was dismissed
\* and rang again between two looks, unless it is over before the next look.
AlertShown ==
    \A s \in Sequences :
        (view.alert # 0 /\ view.seq = s)
            ~> \/ shown.id = view.alert /\ shown.seq = s
               \/ view.alert = 0 \/ view.seq # s \/ pc \in {"stopping", "off"}

\* Once nobody presses and the view rests, the glass comes to show it and keeps
\* showing it, whatever frames failed before.
Stirred == HandleButton \/ Shutdown \/ ViewChanges
NewestShown ==
    <>[][~Stirred]_vars
        => <>[](pc \in {"stopping", "off"} \/ glass = Frame(page, view, yes))

=============================================================================
