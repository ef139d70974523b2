------------------------------ MODULE GatewayProofs ------------------------------
(***************************************************************************)
(* TLAPS proofs about Gateway, for any set of connections and any queue of *)
(* events: whatever is cancelled, wherever and how often, a free gateway   *)
(* has no child process and no workspace, and a busy one those of a single *)
(* request; and a transcript that is returned hides no unfinished part.    *)
(***************************************************************************)
EXTENDS Gateway, SequenceTheorems, TLAPS

HandlerStates == {"idle", "body", "wait", "ending", "closing"}
WorkStates == {"none", "started", "opening", "closing", "asking", "hanging",
               "hanging, failed", "hung", "hung, failed", "draining",
               "draining, failed", "ok", "failed"}
CloseStates == {"none", "open", "reader", "wait", "kill", "space", "done"}

TypeOK ==
    /\ busy \in BOOLEAN
    /\ stop \in {"no", "asked", "over"}
    /\ handler \in [Requests -> HandlerStates]
    /\ work \in [Requests -> WorkStates]
    /\ close \in [Requests -> CloseStates]
    /\ child \in [Requests -> {"none", "alive", "dead"}]
    /\ space \in [Requests -> BOOLEAN]

\* The flag belongs to the one handler that is under way.
OneHandler ==
    /\ \A r \in Requests : handler[r] # "idle" => busy
    /\ \A q, r \in Requests : handler[q] # "idle" /\ handler[r] # "idle" => q = r
    /\ stop = "over" => \A r \in Requests : handler[r] = "idle"

\* A handler waits for its work before it waits for the close task, which the
\* work cannot start again by then; and the close task ends with everything
\* gone.
InOrder(r) ==
    /\ handler[r] \in {"idle", "body"} => work[r] = "none"
    /\ handler[r] = "closing" => work[r] \in {"ok", "failed"} /\ close[r] # "open"
    /\ work[r] \in {"none", "started"} => close[r] = "none"
    /\ close[r] \in {"none", "done"} => child[r] = "none" /\ ~space[r]
    /\ close[r] = "space" => child[r] = "none"

IInv == TypeOK /\ OneHandler /\ \A r \in Requests : InOrder(r)

USE DEF clientVars, voiceVars, HandlerStates, WorkStates, CloseStates

-------------------------------------------------------------------------------
(* Cancellations *)

\* A cancelled work is never back at its start, and one that is over stays so.
LEMMA CancelledState ==
    ASSUME NEW w \in WorkStates, NEW call
    PROVE  /\ Cancelled(w, call) \in WorkStates \ {"started"}
           /\ Cancelled(w, call) = "none" <=> w = "none"
           /\ w \in {"ok", "failed"} => Cancelled(w, call) = w
  BY DEF Cancelled

\* All that a cancellation does: the work moves on, an open client is closed.
LEMMA CancelWorkDoes ==
    ASSUME TypeOK, NEW r \in Requests, CancelWork(r)
    PROVE  /\ \E w \in WorkStates \ {"started"} :
                  /\ work' = [work EXCEPT ![r] = w]
                  /\ w = "none" <=> work[r] = "none"
                  /\ work[r] \in {"ok", "failed"} => w = work[r]
           /\ \/ close' = close
              \/ close[r] = "open" /\ close' = [close EXCEPT ![r] = "reader"]
  <1>1. work[r] \in WorkStates  BY DEF TypeOK
  <1>2. work' = [work EXCEPT ![r] = Cancelled(work[r], voice[r])]
    BY DEF CancelWork
  <1>3. [close EXCEPT ![r] = close[r]] = close  BY DEF TypeOK
  <1>4. \/ close' = close
        \/ close[r] = "open" /\ close' = [close EXCEPT ![r] = "reader"]
    <2>1. CASE close[r] = "open"  BY <2>1 DEF CancelWork, CloseOnce
    <2>2. CASE close[r] # "open"  BY <1>3, <2>2 DEF CancelWork, CloseOnce
    <2> QED  BY <2>1, <2>2
  <1> QED  BY ZenonT(120), <1>1, <1>2, <1>4, CancelledState

\* A cancellation of the handler, wherever it is, keeps the order: it gives the
\* gateway up only while there is nothing yet, and otherwise goes on waiting.
LEMMA HeedKeepsOrder ==
    ASSUME IInv, NEW r \in Requests, Heed(r), UNCHANGED <<stop, child, space>>
    PROVE  IInv'
  <1>1. TypeOK /\ OneHandler /\ InOrder(r)  BY DEF IInv
  <1>2. TypeOK'
    <2>1. CASE Over(r) /\ UNCHANGED <<work, close>>
      BY <1>1, <2>1 DEF TypeOK, Over
    <2>2. CASE Goes(r, {"wait", "ending"}, "ending") /\ CancelWork(r) /\ UNCHANGED busy
      <3>1. handler' = [handler EXCEPT ![r] = "ending"]  BY <2>2 DEF Goes
      <3>2. handler' \in [Requests -> HandlerStates]  BY <1>1, <3>1 DEF TypeOK
      <3>3. work' \in [Requests -> WorkStates] /\ close' \in [Requests -> CloseStates]
        <4>1. PICK w \in WorkStates : work' = [work EXCEPT ![r] = w]
          BY <1>1, <2>2, CancelWorkDoes
        <4>2. close' = close \/ close' = [close EXCEPT ![r] = "reader"]
          BY <1>1, <2>2, CancelWorkDoes
        <4>3. work' \in [Requests -> WorkStates]  BY <1>1, <4>1 DEF TypeOK
        <4>4. close' \in [Requests -> CloseStates]  BY <1>1, <4>2 DEF TypeOK
        <4> QED  BY <4>3, <4>4
      <3> QED  BY <1>1, <2>2, <3>2, <3>3 DEF TypeOK
    <2>3. CASE HeedInClosing(r)
      BY <1>1, <2>3 DEF TypeOK, HeedInClosing
    <2> QED  BY <2>1, <2>2, <2>3 DEF Heed
  <1>3. OneHandler'
    BY ZenonT(60), <1>1 DEF TypeOK, OneHandler, Heed, HeedInClosing, Goes, Over
  <1>4. ASSUME NEW q \in Requests PROVE InOrder(q)'
    <2>1. InOrder(q)  BY DEF IInv
    <2>2. CASE handler[r] = "body" /\ Over(r) /\ UNCHANGED <<work, close>>
      BY <1>1, <2>1, <2>2 DEF TypeOK, InOrder, Over
    <2>3. CASE Goes(r, {"wait", "ending"}, "ending") /\ CancelWork(r)
      BY ZenonT(60), <1>1, <2>1, <2>3, CancelWorkDoes DEF TypeOK, InOrder, Goes
    <2>4. CASE handler[r] = "closing" /\ HeedInClosing(r)
      BY <2>1, <2>4 DEF InOrder, HeedInClosing
    <2> QED  BY <2>2, <2>3, <2>4 DEF Heed
  <1> QED  BY <1>2, <1>3, <1>4 DEF IInv

-------------------------------------------------------------------------------
(* The steps *)

LEMMA InitHolds == Init => IInv
  <1> SUFFICES ASSUME Init PROVE IInv  OBVIOUS
  <1>1. busy \in BOOLEAN /\ stop \in {"no", "asked", "over"}  BY DEF Init
  <1>2. space \in [Requests -> BOOLEAN]  BY DEF Init
  <1>3. /\ handler \in [Requests -> HandlerStates]
        /\ work \in [Requests -> WorkStates]
        /\ close \in [Requests -> CloseStates]
        /\ child \in [Requests -> {"none", "alive", "dead"}]
    BY DEF Init
  <1>4. OneHandler  BY DEF Init, OneHandler
  <1>5. \A r \in Requests : InOrder(r)  BY DEF Init, InOrder
  <1> QED  BY <1>1, <1>2, <1>3, <1>4, <1>5 DEF IInv, TypeOK

LEMMA ServeKeeps ==
    ASSUME IInv, NEW r \in Requests, Serve(r)
    PROVE  IInv'
  <1>0. TypeOK /\ OneHandler /\ InOrder(r)  BY DEF IInv
  <1>1. CASE Refused(r)
    <2>1. TypeOK'  BY <1>0, <1>1 DEF TypeOK, Refused, Over
    <2>2. OneHandler'  BY <1>0, <1>1 DEF TypeOK, OneHandler, Refused, Over
    <2>3. ASSUME NEW q \in Requests PROVE InOrder(q)'
      <3>1. InOrder(q)  BY DEF IInv
      <3> QED  BY <1>0, <1>1, <3>1 DEF TypeOK, InOrder, Refused, Over
    <2> QED  BY <2>1, <2>2, <2>3 DEF IInv
  <1>2. CASE BodyRead(r)
    BY ZenonT(60), <1>2 DEF IInv, TypeOK, OneHandler, InOrder, BodyRead, Goes
  <1>3. CASE Answered(r)
    <2>1. TypeOK'  BY ZenonT(60), <1>0, <1>3, CancelWorkDoes DEF TypeOK, Answered, Goes
    <2>2. OneHandler'  BY <1>0, <1>3 DEF TypeOK, OneHandler, Answered, Goes
    <2>3. ASSUME NEW q \in Requests PROVE InOrder(q)'
      <3>1. InOrder(q)  BY DEF IInv
      <3> QED
        BY ZenonT(60), <1>0, <1>3, <3>1, CancelWorkDoes
        DEF TypeOK, InOrder, Answered, Goes
    <2> QED  BY <2>1, <2>2, <2>3 DEF IInv
  <1>4. CASE WorkEnded(r)
    BY ZenonT(60), <1>4 DEF IInv, TypeOK, OneHandler, InOrder, WorkEnded, Goes, CloseOnce
  <1>5. CASE Closed(r)
    BY <1>5 DEF IInv, TypeOK, OneHandler, InOrder, Closed, Over
  <1>6. CASE Disconnected(r) \/ ShutdownCancels(r)
    BY <1>6, HeedKeepsOrder DEF Disconnected, ShutdownCancels
  <1>7. CASE WatcherSees(r)
    <2>1. TypeOK'  BY ZenonT(60), <1>0, <1>7, CancelWorkDoes DEF TypeOK, WatcherSees
    <2>2. OneHandler'  BY <1>0, <1>7 DEF OneHandler, WatcherSees
    <2>3. ASSUME NEW q \in Requests PROVE InOrder(q)'
      <3>1. InOrder(q)  BY DEF IInv
      <3> QED
        BY ZenonT(60), <1>0, <1>7, <3>1, CancelWorkDoes DEF TypeOK, InOrder, WatcherSees
    <2> QED  BY <2>1, <2>2, <2>3 DEF IInv
  <1> QED
    BY <1>1, <1>2, <1>3, <1>4, <1>5, <1>6, <1>7 DEF Serve

LEMMA WorkKeeps ==
    ASSUME IInv, NEW r \in Requests, Work(r)
    PROVE  IInv'
  <1>0. TypeOK /\ OneHandler /\ InOrder(r)  BY DEF IInv
  <1>1. CASE Launch(r)
    <2>1. TypeOK'  BY <1>0, <1>1 DEF TypeOK, Launch, Works
    <2>2. OneHandler'  BY <1>0, <1>1 DEF OneHandler, Launch
    <2>3. ASSUME NEW q \in Requests PROVE InOrder(q)'
      <3>1. InOrder(q)  BY DEF IInv
      <3> QED  BY <1>0, <1>1, <3>1 DEF TypeOK, InOrder, Launch, Works
    <2> QED  BY <2>1, <2>2, <2>3 DEF IInv
  <1>2. CASE Opened(r)
    <2>1. TypeOK'  BY <1>0, <1>2 DEF TypeOK, Opened, Works
    <2>2. OneHandler'  BY <1>0, <1>2 DEF OneHandler, Opened
    <2>3. ASSUME NEW q \in Requests PROVE InOrder(q)'
      <3>1. InOrder(q)  BY DEF IInv
      <3> QED  BY <1>0, <1>2, <3>1 DEF TypeOK, InOrder, Opened, Works
    <2> QED  BY <2>1, <2>2, <2>3 DEF IInv
  <1>3. CASE OpeningFails(r)
    <2>1. TypeOK'  BY <1>0, <1>3 DEF TypeOK, OpeningFails, Works, CloseOnce
    <2>2. OneHandler'  BY <1>0, <1>3 DEF OneHandler, OpeningFails
    <2>3. ASSUME NEW q \in Requests PROVE InOrder(q)'
      <3>1. InOrder(q)  BY DEF IInv
      <3> QED  BY <1>0, <1>3, <3>1 DEF TypeOK, InOrder, OpeningFails, Works, CloseOnce
    <2> QED  BY <2>1, <2>2, <2>3 DEF IInv
  <1>4. CASE OpeningClosed(r)
    <2>1. TypeOK'  BY <1>0, <1>4 DEF TypeOK, OpeningClosed, Works
    <2>2. OneHandler'  BY <1>0, <1>4 DEF OneHandler, OpeningClosed
    <2>3. ASSUME NEW q \in Requests PROVE InOrder(q)'
      <3>1. InOrder(q)  BY DEF IInv
      <3> QED  BY <1>0, <1>4, <3>1 DEF TypeOK, InOrder, OpeningClosed, Works
    <2> QED  BY <2>1, <2>2, <2>3 DEF IInv
  <1>5. CASE TurnOver(r)
    <2>1. TypeOK'  BY <1>0, <1>5 DEF TypeOK, TurnOver, Works
    <2>2. OneHandler'  BY <1>0, <1>5 DEF OneHandler, TurnOver
    <2>3. ASSUME NEW q \in Requests PROVE InOrder(q)'
      <3>1. InOrder(q)  BY DEF IInv
      <3> QED  BY <1>0, <1>5, <3>1 DEF TypeOK, InOrder, TurnOver, Works
    <2> QED  BY <2>1, <2>2, <2>3 DEF IInv
  <1>6. CASE RecordingOver(r)
    <2>1. TypeOK'  BY <1>0, <1>6 DEF TypeOK, RecordingOver, Works
    <2>2. OneHandler'  BY <1>0, <1>6 DEF OneHandler, RecordingOver
    <2>3. ASSUME NEW q \in Requests PROVE InOrder(q)'
      <3>1. InOrder(q)  BY DEF IInv
      <3>2. \/ work'[q] = work[q]
            \/ work[q] = "asking" /\ work'[q] \in {"hanging", "hanging, failed"}
        BY <1>0, <1>6 DEF TypeOK, RecordingOver, Works
      <3> QED  BY <1>0, <1>6, <3>1, <3>2 DEF InOrder, RecordingOver
    <2> QED  BY <2>1, <2>2, <2>3 DEF IInv
  <1>7. CASE CallFails(r)
    <2>1. TypeOK'  BY <1>0, <1>7 DEF TypeOK, CallFails, Works
    <2>2. OneHandler'  BY <1>0, <1>7 DEF OneHandler, CallFails
    <2>3. ASSUME NEW q \in Requests PROVE InOrder(q)'
      <3>1. InOrder(q)  BY DEF IInv
      <3> QED  BY <1>0, <1>7, <3>1 DEF TypeOK, InOrder, CallFails, Works
    <2> QED  BY <2>1, <2>2, <2>3 DEF IInv
  <1>8. CASE HangUp(r)
    <2>1. TypeOK'  BY <1>0, <1>8 DEF TypeOK, HangUp, Works
    <2>2. OneHandler'  BY <1>0, <1>8 DEF OneHandler, HangUp
    <2>3. ASSUME NEW q \in Requests PROVE InOrder(q)'
      <3>1. InOrder(q)  BY DEF IInv
      <3> QED  BY <1>0, <1>8, <3>1 DEF TypeOK, InOrder, HangUp, Works
    <2> QED  BY <2>1, <2>2, <2>3 DEF IInv
  <1>9. CASE Transcribed(r)
    <2>1. TypeOK'  BY <1>0, <1>9 DEF TypeOK, Transcribed
    <2>2. OneHandler'  BY <1>0, <1>9 DEF OneHandler, Transcribed
    <2>3. ASSUME NEW q \in Requests PROVE InOrder(q)'
      <3>1. InOrder(q)  BY DEF IInv
      <3> QED  BY <1>0, <1>9, <3>1 DEF TypeOK, InOrder, Transcribed
    <2> QED  BY <2>1, <2>2, <2>3 DEF IInv
  <1>11. CASE LetDrain(r)
    <2>1. TypeOK'  BY <1>0, <1>11 DEF TypeOK, LetDrain, Works
    <2>2. OneHandler'  BY <1>0, <1>11 DEF OneHandler, LetDrain
    <2>3. ASSUME NEW q \in Requests PROVE InOrder(q)'
      <3>1. InOrder(q)  BY DEF IInv
      <3> QED  BY <1>0, <1>11, <3>1 DEF TypeOK, InOrder, LetDrain, Works
    <2> QED  BY <2>1, <2>2, <2>3 DEF IInv
  <1>10. CASE Consume(r)
    <2>1. TypeOK'  BY <1>0, <1>10 DEF TypeOK, Consume
    <2>2. OneHandler'  BY <1>0, <1>10 DEF OneHandler, Consume
    <2>3. ASSUME NEW q \in Requests PROVE InOrder(q)'
      <3>1. InOrder(q)  BY DEF IInv
      <3> QED  BY <1>0, <1>10, <3>1 DEF TypeOK, InOrder, Consume
    <2> QED  BY <2>1, <2>2, <2>3 DEF IInv
  <1> QED
    BY <1>1, <1>2, <1>3, <1>4, <1>5, <1>6, <1>7, <1>8, <1>9, <1>10, <1>11
    DEF Work

LEMMA CloseKeeps ==
    ASSUME IInv, NEW r \in Requests, Close(r)
    PROVE  IInv'
  <1>0. TypeOK /\ OneHandler /\ InOrder(r)  BY DEF IInv
  <1>1. CASE CloseReader(r)
    <2>1. TypeOK'  BY <1>0, <1>1 DEF TypeOK, CloseReader, Closing
    <2>2. OneHandler'  BY <1>0, <1>1 DEF OneHandler, CloseReader
    <2>3. ASSUME NEW q \in Requests PROVE InOrder(q)'
      <3>1. InOrder(q)  BY DEF IInv
      <3> QED  BY <1>0, <1>1, <3>1 DEF TypeOK, InOrder, CloseReader, Closing
    <2> QED  BY <2>1, <2>2, <2>3 DEF IInv
  <1>2. CASE CloseWait(r)
    <2>1. TypeOK'  BY <1>0, <1>2 DEF TypeOK, CloseWait, Closing
    <2>2. OneHandler'  BY <1>0, <1>2 DEF OneHandler, CloseWait
    <2>3. ASSUME NEW q \in Requests PROVE InOrder(q)'
      <3>1. InOrder(q)  BY DEF IInv
      <3> QED  BY <1>0, <1>2, <3>1 DEF TypeOK, InOrder, CloseWait, Closing
    <2> QED  BY <2>1, <2>2, <2>3 DEF IInv
  <1>3. CASE CloseKill(r)
    <2>1. TypeOK'  BY <1>0, <1>3 DEF TypeOK, CloseKill, Closing, Reaped
    <2>2. OneHandler'  BY <1>0, <1>3 DEF OneHandler, CloseKill
    <2>3. ASSUME NEW q \in Requests PROVE InOrder(q)'
      <3>1. InOrder(q)  BY DEF IInv
      <3> QED  BY <1>0, <1>3, <3>1 DEF TypeOK, InOrder, CloseKill, Closing, Reaped
    <2> QED  BY <2>1, <2>2, <2>3 DEF IInv
  <1>4. CASE CloseSpace(r)
    <2>1. TypeOK'  BY <1>0, <1>4 DEF TypeOK, CloseSpace, Closing
    <2>2. OneHandler'  BY <1>0, <1>4 DEF OneHandler, CloseSpace
    <2>3. ASSUME NEW q \in Requests PROVE InOrder(q)'
      <3>1. InOrder(q)  BY DEF IInv
      <3> QED  BY <1>0, <1>4, <3>1 DEF TypeOK, InOrder, CloseSpace, Closing
    <2> QED  BY <2>1, <2>2, <2>3 DEF IInv
  <1> QED  BY <1>1, <1>2, <1>3, <1>4 DEF Close

LEMMA StepKeeps == IInv /\ [Next]_vars => IInv'
  <1> SUFFICES ASSUME IInv, [Next]_vars PROVE IInv'  OBVIOUS
  <1>1. ASSUME NEW r \in Requests, Admit(r) PROVE IInv'
    <2>1. TypeOK' /\ OneHandler'
      BY <1>1 DEF IInv, TypeOK, OneHandler, Admit, Goes
    <2>2. \A q \in Requests : InOrder(q)'
      BY <1>1 DEF IInv, TypeOK, InOrder, Admit, Goes
    <2> QED  BY <2>1, <2>2 DEF IInv
  <1>2. CASE \E r \in Requests : Serve(r)  BY <1>2, ServeKeeps
  <1>3. CASE \E r \in Requests : Work(r)  BY <1>3, WorkKeeps
  <1>4. CASE \E r \in Requests : Close(r)  BY <1>4, CloseKeeps
  <1>5. ASSUME NEW r \in Requests, ClientLeaves(r) PROVE IInv'
    <2>1. TypeOK' /\ OneHandler'
      BY <1>5 DEF IInv, TypeOK, OneHandler, ClientLeaves
    <2>2. \A q \in Requests : InOrder(q)'
      BY <1>5 DEF IInv, TypeOK, InOrder, ClientLeaves
    <2> QED  BY <2>1, <2>2 DEF IInv
  <1>6. ASSUME NEW r \in Requests, ChildEnds(r) PROVE IInv'
    BY <1>6 DEF IInv, TypeOK, OneHandler, InOrder, ChildEnds
  <1>7. ASSUME NEW r \in Requests, ReaderEnds(r) PROVE IInv'
    <2>1. TypeOK' /\ OneHandler'
      BY <1>7 DEF IInv, TypeOK, OneHandler, ReaderEnds
    <2>2. \A q \in Requests : InOrder(q)'
      BY <1>7 DEF IInv, TypeOK, InOrder, ReaderEnds
    <2> QED  BY <2>1, <2>2 DEF IInv
  <1>8. ASSUME NEW r \in Requests, NEW kind \in Kinds, ChildSays(r, kind)
       PROVE  IInv'
    BY <1>8 DEF IInv, TypeOK, OneHandler, InOrder, ChildSays, CanSpeak
  <1>12. ASSUME NEW r \in Requests, NEW kind \in Kinds, ChildSaysLate(r, kind)
        PROVE  IInv'
    BY <1>12 DEF IInv, TypeOK, OneHandler, InOrder, ChildSaysLate, CanSpeak
  <1>9. CASE Shutdown  BY <1>9 DEF IInv, TypeOK, OneHandler, InOrder, Shutdown
  <1>10. CASE ShutdownOver
    <2>1. TypeOK' /\ OneHandler'
      BY <1>10 DEF IInv, TypeOK, OneHandler, ShutdownOver
    <2>2. \A r \in Requests : InOrder(r)'
      BY <1>10 DEF IInv, InOrder, ShutdownOver
    <2> QED  BY <2>1, <2>2 DEF IInv
  <1>11. CASE UNCHANGED vars
    BY <1>11 DEF IInv, TypeOK, OneHandler, InOrder, vars
  <1> QED
    BY <1>1, <1>2, <1>3, <1>4, <1>5, <1>6, <1>7, <1>8, <1>9, <1>10, <1>11,
       <1>12
    DEF Next

LEMMA OrderLeavesNothing == IInv => NothingLeftBehind
  <1> SUFFICES ASSUME IInv PROVE NothingLeftBehind  OBVIOUS
  <1>1. ASSUME NEW r \in Requests, handler[r] = "idle" PROVE r \notin Using
    BY <1>1 DEF IInv, InOrder, Using
  <1>2. ~busy \/ stop = "over" => Using = {}
    BY <1>1 DEF IInv, OneHandler, Using
  <1>3. \A q, r \in Using : q = r
    BY <1>1 DEF IInv, OneHandler, Using
  <1> QED  BY <1>2, <1>3 DEF NothingLeftBehind

-------------------------------------------------------------------------------
\* However often and wherever a request is cancelled, the gateway is free only
\* when no child process and no workspace is left, and never has two requests'
\* (gateway.py: the "finally" of the handler; codex_client.py: close).
THEOREM GatewayLeavesNothing == Spec => []NothingLeftBehind
  <1>1. Init => IInv  BY InitHolds
  <1>2. IInv /\ [Next]_vars => IInv'  BY StepKeeps
  <1>3. IInv => NothingLeftBehind  BY OrderLeavesNothing
  <1> QED  BY <1>1, <1>2, <1>3, PTL DEF Spec

-------------------------------------------------------------------------------
(* The collector *)

Collected == [text : BOOLEAN, open : Nat, error : BOOLEAN]
Speech == [begun : Nat, ended : Nat, error : BOOLEAN]

\* The collector has heard the speech up to a point: it has a text if some part
\* is over, and its pending parts are those without an end.  It may have noted
\* an error that was not spoken.
Heeds(h, s) ==
    /\ s.begun = s.ended + h.open
    /\ h.text <=> s.ended > 0
    /\ s.error => h.error

\* A collector that is changed, field by field
LEMMA HeardAs ==
    ASSUME NEW h \in Collected, NEW text, NEW open, NEW error
    PROVE  /\ [h EXCEPT !.text = text] =
                 [text |-> text, open |-> h.open, error |-> h.error]
           /\ [h EXCEPT !.open = open] =
                 [text |-> h.text, open |-> open, error |-> h.error]
           /\ [h EXCEPT !.text = text, !.open = open] =
                 [text |-> text, open |-> open, error |-> h.error]
           /\ [h EXCEPT !.error = error] =
                 [text |-> h.text, open |-> h.open, error |-> error]
  <1>1. [h EXCEPT !.text = text] =
           [text |-> text, open |-> h.open, error |-> h.error]
    BY DEF Collected
  <1>2. [h EXCEPT !.open = open] =
           [text |-> h.text, open |-> open, error |-> h.error]
    BY DEF Collected
  <1>3. [h EXCEPT !.text = text, !.open = open] =
           [text |-> text, open |-> open, error |-> h.error]
    <2> DEFINE first == [h EXCEPT !.text = text]
    <2>1. [h EXCEPT !.text = text, !.open = open] =
             [first EXCEPT !.open = open]
      BY DEF Collected
    <2>2. first = [text |-> text, open |-> h.open, error |-> h.error]
      BY <1>1
    <2> HIDE DEF first
    <2>3. [first EXCEPT !.open = open] =
             [text |-> text, open |-> open, error |-> h.error]
      BY <2>2
    <2> QED  BY <2>1, <2>3
  <1>4. [h EXCEPT !.error = error] =
           [text |-> h.text, open |-> h.open, error |-> error]
    BY DEF Collected
  <1> QED  BY <1>1, <1>2, <1>3, <1>4

\* The same for the speech
LEMMA SpokenAs ==
    ASSUME NEW s \in Speech, NEW begun, NEW ended, NEW error
    PROVE  /\ [s EXCEPT !.begun = begun] =
                 [begun |-> begun, ended |-> s.ended, error |-> s.error]
           /\ [s EXCEPT !.ended = ended] =
                 [begun |-> s.begun, ended |-> ended, error |-> s.error]
           /\ [s EXCEPT !.begun = begun, !.ended = ended] =
                 [begun |-> begun, ended |-> ended, error |-> s.error]
           /\ [s EXCEPT !.error = error] =
                 [begun |-> s.begun, ended |-> s.ended, error |-> error]
  <1>1. [s EXCEPT !.begun = begun] =
           [begun |-> begun, ended |-> s.ended, error |-> s.error]
    BY DEF Speech
  <1>2. [s EXCEPT !.ended = ended] =
           [begun |-> s.begun, ended |-> ended, error |-> s.error]
    BY DEF Speech
  <1>3. [s EXCEPT !.begun = begun, !.ended = ended] =
           [begun |-> begun, ended |-> ended, error |-> s.error]
    <2> DEFINE first == [s EXCEPT !.begun = begun]
    <2>1. [s EXCEPT !.begun = begun, !.ended = ended] =
             [first EXCEPT !.ended = ended]
      BY DEF Speech
    <2>2. first = [begun |-> begun, ended |-> s.ended, error |-> s.error]
      BY <1>1
    <2> HIDE DEF first
    <2>3. [first EXCEPT !.ended = ended] =
             [begun |-> begun, ended |-> ended, error |-> s.error]
      BY <2>2
    <2> QED  BY <2>1, <2>3
  <1>4. [s EXCEPT !.error = error] =
           [begun |-> s.begun, ended |-> s.ended, error |-> error]
    BY DEF Speech
  <1> QED  BY <1>1, <1>2, <1>3, <1>4

\* One event more keeps the collector and the speech together.
LEMMA HeedsNext ==
    ASSUME NEW h \in Collected, NEW s \in Speech, NEW kind \in Kinds,
           Heeds(h, s)
    PROVE  /\ Ingest(h, kind) \in Collected
           /\ Speaks(s, kind) \in Speech
           /\ Heeds(Ingest(h, kind), Speaks(s, kind))
  <1> DEFINE H(text, open, error) ==
                [text |-> text, open |-> open, error |-> error]
             S(begun, ended, error) ==
                [begun |-> begun, ended |-> ended, error |-> error]
  <1>1. h.text \in BOOLEAN /\ h.open \in Nat /\ h.error \in BOOLEAN
    BY DEF Collected
  <1>2. s.begun \in Nat /\ s.ended \in Nat /\ s.error \in BOOLEAN
    BY DEF Speech
  <1>3. /\ s.begun = s.ended + h.open
        /\ h.text <=> s.ended > 0
        /\ s.error => h.error
        /\ s.ended < s.begun <=> h.open > 0
    BY <1>1, <1>2 DEF Heeds
  <1>4. /\ h.error \in BOOLEAN /\ s.error \in BOOLEAN
         /\ s.error => h.error
    BY <1>1, <1>2, <1>3
  <1>5. PICK heardNext : heardNext = Ingest(h, kind)  OBVIOUS
  <1>6. PICK saidNext : saidNext = Speaks(s, kind)  OBVIOUS
  <1> DEFINE goal == /\ heardNext \in Collected /\ saidNext \in Speech
                     /\ Heeds(heardNext, saidNext)
  <1>7. PICK yes : yes = TRUE  OBVIOUS
  <1>8. ASSUME kind = "delta" PROVE goal
    <2>1. heardNext = H(h.text, h.open + 1, h.error)
      <3>1. Ingest(h, kind) = [h EXCEPT !.open = @ + 1]  BY <1>8 DEF Ingest
      <3> QED  BY <1>5, <1>7, <3>1, HeardAs, Zenon
    <2>2. saidNext = S(s.begun + 1, s.ended, s.error)
      <3>1. Speaks(s, kind) = [s EXCEPT !.begun = @ + 1]
        BY <1>2, <1>8 DEF Speaks
      <3> QED  BY <1>6, <1>7, <3>1, SpokenAs, Zenon
    <2>3. /\ s.begun + 1 = s.ended + (h.open + 1)
          /\ s.begun + 1 \in Nat /\ s.ended \in Nat /\ h.open + 1 \in Nat
          /\ h.text \in BOOLEAN /\ (h.text <=> s.ended > 0)
      BY <1>1, <1>2, <1>3, <1>7
    <2> QED  BY <1>4, <2>1, <2>2, <2>3 DEF Collected, Speech, Heeds
  <1>9. ASSUME kind \in {"done", "whole", "revision"} /\ h.open = 0 PROVE goal
    <2>1. heardNext = H(yes, 0, h.error)
      <3>1. \/ Ingest(h, kind) = [h EXCEPT !.text = TRUE, !.open = 0]
            \/ Ingest(h, kind) = [h EXCEPT !.text = TRUE]
        BY <1>1, <1>9 DEF Ingest
      <3> QED  BY <1>5, <1>7, <1>9, <3>1, HeardAs, Zenon
    <2>2. saidNext = S(s.begun + 1, s.ended + 1, s.error)
      <3>1. Speaks(s, kind) = [s EXCEPT !.begun = @ + 1, !.ended = @ + 1]
        BY <1>2, <1>3, <1>9 DEF Speaks
      <3> QED  BY <1>6, <1>7, <3>1, SpokenAs, ZenonT(40)
    <2>3. /\ s.begun + 1 = (s.ended + 1) + 0 /\ (yes <=> s.ended + 1 > 0)
          /\ s.begun + 1 \in Nat /\ s.ended + 1 \in Nat /\ 0 \in Nat
          /\ yes \in BOOLEAN
      BY <1>2, <1>3, <1>9, <1>7
    <2> QED  BY <1>4, <2>1, <2>2, <2>3 DEF Collected, Speech, Heeds
  <1>10. ASSUME kind = "done" /\ h.open > 0 PROVE goal
    <2>1. heardNext = H(yes, h.open - 1, h.error)
      <3>1. Ingest(h, kind) = [h EXCEPT !.text = TRUE, !.open = @ - 1]
        BY <1>1, <1>10 DEF Ingest
      <3> QED  BY <1>5, <1>7, <3>1, HeardAs, Zenon
    <2>2. saidNext = S(s.begun, s.ended + 1, s.error)
      <3>1. Speaks(s, kind) = [s EXCEPT !.ended = @ + 1]
        BY <1>2, <1>3, <1>10 DEF Speaks
      <3> QED  BY <1>6, <1>7, <3>1, SpokenAs, Zenon
    <2>3. /\ s.begun = (s.ended + 1) + (h.open - 1)
          /\ (yes <=> s.ended + 1 > 0)
          /\ h.open - 1 \in Nat /\ s.begun \in Nat /\ s.ended + 1 \in Nat
          /\ yes \in BOOLEAN
      BY <1>1, <1>2, <1>3, <1>10, <1>7
    <2> QED  BY <1>4, <2>1, <2>2, <2>3 DEF Collected, Speech, Heeds
  <1>11. ASSUME kind = "whole" /\ h.open > 0 PROVE goal
    <2>1. heardNext = H(yes, 0, h.error)
      <3>1. Ingest(h, kind) = [h EXCEPT !.text = TRUE, !.open = 0]
        BY <1>1, <1>11 DEF Ingest
      <3> QED  BY <1>5, <1>7, <3>1, HeardAs, Zenon
    <2>2. saidNext = S(s.begun, s.begun, s.error)
      <3>1. Speaks(s, kind) = [s EXCEPT !.ended = s.begun]
        BY <1>2, <1>3, <1>11 DEF Speaks
      <3> QED  BY <1>6, <1>7, <3>1, SpokenAs, Zenon
    <2>3. /\ s.begun = s.begun + 0 /\ (yes <=> s.begun > 0)
          /\ s.begun \in Nat /\ 0 \in Nat /\ yes \in BOOLEAN
      BY <1>1, <1>2, <1>3, <1>11, <1>7
    <2> QED  BY <1>4, <2>1, <2>2, <2>3 DEF Collected, Speech, Heeds
  <1>12. ASSUME kind = "error" \/ (kind = "revision" /\ h.open > 0) PROVE goal
    <2>1. heardNext = H(h.text, h.open, yes)
      <3>1. Ingest(h, kind) = [h EXCEPT !.error = TRUE]
        BY <1>1, <1>12 DEF Ingest
      <3> QED  BY <1>5, <1>7, <3>1, HeardAs, Zenon
    <2>2. saidNext = S(s.begun, s.ended, yes)
      <3>1. Speaks(s, kind) = [s EXCEPT !.error = TRUE]
        BY <1>2, <1>3, <1>12 DEF Speaks
      <3> QED  BY <1>6, <1>7, <3>1, SpokenAs, Zenon
    <2>3. /\ yes \in BOOLEAN /\ (s.error => yes)
          /\ s.begun = s.ended + h.open /\ (h.text <=> s.ended > 0)
          /\ h.text \in BOOLEAN /\ h.open \in Nat
          /\ s.begun \in Nat /\ s.ended \in Nat
      BY <1>1, <1>2, <1>3, <1>7
    <2> QED  BY <1>4, <2>1, <2>2, <2>3 DEF Collected, Speech, Heeds
  <1>13. h.open = 0 \/ h.open > 0  BY <1>1
  <1>14. goal  BY <1>8, <1>9, <1>10, <1>11, <1>12, <1>13, Zenon DEF Kinds
  <1> QED  BY <1>5, <1>6, <1>14

\* Whatever comes, the collector and the speech keep their types.
LEMMA IngestType ==
    ASSUME NEW h \in Collected, NEW kind \in Kinds
    PROVE  Ingest(h, kind) \in Collected
  <1> DEFINE s == [begun |-> h.open + (IF h.text THEN 1 ELSE 0),
                   ended |-> IF h.text THEN 1 ELSE 0, error |-> FALSE]
  <1>1. s \in Speech /\ Heeds(h, s)
    <2>1. h.text \in BOOLEAN /\ h.open \in Nat  BY DEF Collected
    <2>2. CASE h.text  BY <2>1, <2>2 DEF Speech, Heeds
    <2>3. CASE ~h.text  BY <2>1, <2>3 DEF Speech, Heeds
    <2> QED  BY <2>1, <2>2, <2>3
  <1> HIDE DEF s
  <1> QED  BY <1>1, HeedsNext

LEMMA SpeaksType ==
    ASSUME NEW s \in Speech, NEW kind \in Kinds
    PROVE  Speaks(s, kind) \in Speech
  <1> DEFINE S(begun, ended, error) ==
                [begun |-> begun, ended |-> ended, error |-> error]
  <1>1. s.begun \in Nat /\ s.ended \in Nat /\ s.error \in BOOLEAN
        /\ s = S(s.begun, s.ended, s.error)
    BY DEF Speech
  <1>2. \/ Speaks(s, kind) = S(s.begun + 1, s.ended, s.error)
        \/ Speaks(s, kind) = S(s.begun, s.ended, TRUE)
        \/ Speaks(s, kind) = S(s.begun, s.ended + 1, s.error)
        \/ Speaks(s, kind) = S(s.begun, s.begun, s.error)
        \/ Speaks(s, kind) = S(s.begun + 1, s.ended + 1, s.error)
    BY <1>1 DEF Speaks
  <1>3. \A b, e \in Nat, x \in BOOLEAN : S(b, e, x) \in Speech
    BY DEF Speech
  <1>4. s.begun + 1 \in Nat /\ s.ended + 1 \in Nat  BY <1>1
  <1> HIDE DEF S
  <1> QED  BY <1>1, <1>2, <1>3, <1>4, Zenon

-------------------------------------------------------------------------------
(* The queue *)

\* The speech as it was when each of the queued events had yet to come: it starts
\* where the collector is and ends with all that was said.
Unheard(run, h, queue, s) ==
    /\ run \in [0..Len(queue) -> Speech]
    /\ Heeds(h, run[0])
    /\ \A i \in 1..Len(queue) : run[i] = Speaks(run[i - 1], queue[i])
    /\ run[Len(queue)] = s

Missing(h, queue, s) == \E run : Unheard(run, h, queue, s)

\* With an empty queue the collector has heard it all.
LEMMA NothingQueued ==
    ASSUME NEW h \in Collected, NEW s \in Speech
    PROVE  Missing(h, <<>>, s) <=> Heeds(h, s)
  <1>1. Len(<<>>) = 0  BY EmptySeq
  <1>2. ASSUME Missing(h, <<>>, s) PROVE Heeds(h, s)
    BY <1>1, <1>2 DEF Missing, Unheard
  <1>3. ASSUME Heeds(h, s) PROVE Missing(h, <<>>, s)
    <2> DEFINE run == [i \in 0..0 |-> s]
    <2>1. Unheard(run, h, <<>>, s)  BY <1>1, <1>3 DEF Unheard
    <2> QED  BY <2>1 DEF Missing
  <1> QED  BY <1>2, <1>3

\* An event that is queued prolongs what is missing.
LEMMA QueuedLast ==
    ASSUME NEW h \in Collected, NEW queue \in Seq(Kinds), NEW s \in Speech,
           NEW kind \in Kinds, Missing(h, queue, s), Speaks(s, kind) \in Speech
    PROVE  Missing(h, Append(queue, kind), Speaks(s, kind))
  <1>1. PICK run : Unheard(run, h, queue, s)  BY DEF Missing
  <1> DEFINE n == Len(queue)
             longer == Append(queue, kind)
             new == [i \in 0..(n + 1) |->
                        IF i = n + 1 THEN Speaks(s, kind) ELSE run[i]]
  <1>2. /\ n \in Nat /\ Len(longer) = n + 1
        /\ \A i \in 1..n : longer[i] = queue[i]
        /\ longer[n + 1] = kind
    BY AppendProperties, LenProperties
  <1> HIDE DEF n, longer
  <1>3. /\ run \in [0..n -> Speech] /\ Heeds(h, run[0]) /\ run[n] = s
        /\ \A i \in 1..n : run[i] = Speaks(run[i - 1], queue[i])
    BY <1>1 DEF Unheard, n
  <1>4. new \in [0..(n + 1) -> Speech]  BY <1>2, <1>3
  <1>5. /\ \A i \in 0..n : new[i] = run[i]
        /\ new[n + 1] = Speaks(s, kind)
    BY <1>2
  <1> HIDE DEF new
  <1>6. Heeds(h, new[0])  BY <1>2, <1>3, <1>5
  <1>7. ASSUME NEW i \in 1..(n + 1)
        PROVE  new[i] = Speaks(new[i - 1], longer[i])
    <2>1. CASE i = n + 1
      <3>1. i - 1 = n /\ n \in 0..n  BY <1>2, <2>1
      <3>2. new[i - 1] = s  BY <1>3, <1>5, <3>1
      <3>3. new[i] = Speaks(s, kind)  BY <1>5, <2>1
      <3>4. longer[i] = kind  BY <1>2, <2>1
      <3> QED  BY <3>2, <3>3, <3>4, Zenon
    <2>2. CASE i # n + 1
      <3>1. i \in 1..n /\ i \in 0..n /\ i - 1 \in 0..n  BY <1>2, <2>2
      <3> QED  BY <1>2, <1>3, <1>5, <3>1
    <2> QED  BY <2>1, <2>2
  <1>8. Unheard(new, h, longer, Speaks(s, kind))
    BY <1>2, <1>4, <1>5, <1>6, <1>7 DEF Unheard
  <1> QED  BY <1>8 DEF Missing, longer

\* An event that is taken shortens it.
LEMMA TakenFirst ==
    ASSUME NEW h \in Collected, NEW queue \in Seq(Kinds), NEW s \in Speech,
           queue # <<>>, Missing(h, queue, s)
    PROVE  /\ Head(queue) \in Kinds /\ Tail(queue) \in Seq(Kinds)
           /\ Ingest(h, Head(queue)) \in Collected
           /\ Missing(Ingest(h, Head(queue)), Tail(queue), s)
  <1>1. PICK run : Unheard(run, h, queue, s)  BY DEF Missing
  <1> DEFINE n == Len(queue) - 1
             kind == Head(queue)
             rest == Tail(queue)
             new == [i \in 0..n |-> run[i + 1]]
  <1>2. /\ n \in Nat /\ Len(queue) = n + 1
        /\ kind \in Kinds /\ rest \in Seq(Kinds) /\ Len(rest) = n
        /\ kind = queue[1]
        /\ \A i \in 1..n : rest[i] = queue[i + 1]
    BY HeadTailProperties, EmptySeq, LenProperties
  <1> HIDE DEF n, kind, rest
  <1>3. /\ run \in [0..(n + 1) -> Speech] /\ Heeds(h, run[0])
        /\ run[n + 1] = s
        /\ \A i \in 1..(n + 1) : run[i] = Speaks(run[i - 1], queue[i])
    BY <1>1, <1>2 DEF Unheard
  <1>4. /\ new \in [0..n -> Speech]
        /\ \A i \in 0..n : new[i] = run[i + 1]
    BY <1>2, <1>3
  <1> HIDE DEF new
  <1>5. Ingest(h, kind) \in Collected /\ Heeds(Ingest(h, kind), new[0])
    <2>1. 1 \in 1..(n + 1) /\ 0 \in 0..n /\ 0 \in 0..(n + 1)  BY <1>2
    <2>2. run[0] \in Speech  BY <1>3, <2>1
    <2>3. new[0] = Speaks(run[0], kind)
      <3>1. run[1] = Speaks(run[1 - 1], queue[1])  BY <1>3, <2>1
      <3>2. new[0] = run[0 + 1]  BY <1>4, <2>1
      <3> QED  BY <1>2, <3>1, <3>2
    <2> QED  BY <1>2, <1>3, <2>2, <2>3, HeedsNext
  <1>6. ASSUME NEW i \in 1..n PROVE new[i] = Speaks(new[i - 1], rest[i])
    <2>1. i + 1 \in 1..(n + 1) /\ i \in 0..n /\ i - 1 \in 0..n  BY <1>2
    <2>2. run[i + 1] = Speaks(run[(i + 1) - 1], queue[i + 1])  BY <1>3, <2>1
    <2>3. (i + 1) - 1 = i /\ (i - 1) + 1 = i  OBVIOUS
    <2>4. new[i] = run[i + 1] /\ new[i - 1] = run[i]  BY <1>4, <2>1, <2>3
    <2> QED  BY <1>2, <2>2, <2>3, <2>4
  <1>7. new[n] = s  BY <1>2, <1>3, <1>4
  <1>8. Unheard(new, Ingest(h, kind), rest, s)
    BY <1>2, <1>4, <1>5, <1>6, <1>7 DEF Unheard
  <1>9. Missing(Ingest(h, kind), rest, s)  BY <1>8 DEF Missing
  <1> QED  BY <1>2, <1>5, <1>9 DEF kind, rest

-------------------------------------------------------------------------------
(* Transcripts *)

VoiceTypes ==
    /\ events \in [Requests -> Seq(Kinds)]
    /\ heard \in [Requests -> Collected]
    /\ fatal \in [Requests -> BOOLEAN]
    /\ said \in [Requests -> Speech]

\* TranscriptComplete is about the end of a call only.  All along, what the
\* collector has heard and what is still queued make up what was said, until
\* the reader ends and drops the queue.
NothingMissed(r) == fatal[r] \/ Missing(heard[r], events[r], said[r])

VoiceInv == VoiceTypes /\ \A r \in Requests : NothingMissed(r)

\* One request's events, collector and ends change together.
LEMMA VoiceChanges ==
    ASSUME VoiceInv, NEW r \in Requests,
           NEW queue \in Seq(Kinds), NEW h \in Collected, NEW over \in BOOLEAN,
           NEW speech \in Speech,
           events' = [events EXCEPT ![r] = queue],
           heard' = [heard EXCEPT ![r] = h],
           fatal' = [fatal EXCEPT ![r] = over],
           said' = [said EXCEPT ![r] = speech],
           over \/ Missing(h, queue, speech)
    PROVE  VoiceInv'
  <1>1. VoiceTypes'  BY DEF VoiceInv, VoiceTypes
  <1>2. ASSUME NEW q \in Requests PROVE NothingMissed(q)'
    <2>1. CASE q = r
      <3>1. /\ events'[q] = queue /\ heard'[q] = h
            /\ fatal'[q] = over /\ said'[q] = speech
        BY <2>1 DEF VoiceInv, VoiceTypes
      <3> QED  BY <3>1 DEF NothingMissed
    <2>2. CASE q # r
      <3>1. /\ events'[q] = events[q] /\ heard'[q] = heard[q]
            /\ fatal'[q] = fatal[q] /\ said'[q] = said[q]
        BY <2>2 DEF VoiceInv, VoiceTypes
      <3> QED  BY <3>1 DEF VoiceInv, NothingMissed
    <2> QED  BY <2>1, <2>2
  <1> QED  BY <1>1, <1>2 DEF VoiceInv

\* What does not change is what it was.
LEMMA VoiceSame ==
    ASSUME VoiceInv, NEW r \in Requests
    PROVE  /\ events = [events EXCEPT ![r] = events[r]]
           /\ heard = [heard EXCEPT ![r] = heard[r]]
           /\ fatal = [fatal EXCEPT ![r] = fatal[r]]
           /\ said = [said EXCEPT ![r] = said[r]]
           /\ events[r] \in Seq(Kinds) /\ heard[r] \in Collected
           /\ fatal[r] \in BOOLEAN /\ said[r] \in Speech
           /\ fatal[r] \/ Missing(heard[r], events[r], said[r])
  BY DEF VoiceInv, VoiceTypes, NothingMissed

\* A request that is over leaves nothing behind for the next one.
LEMMA VoiceClosed ==
    ASSUME VoiceInv, NEW r \in Requests, Closed(r)
    PROVE  VoiceInv'
  <1>1. Nothing \in Collected /\ Silence \in Speech /\ <<>> \in Seq(Kinds)
    BY EmptySeq DEF Nothing, Silence, Collected, Speech
  <1>2. Heeds(Nothing, Silence)  BY DEF Nothing, Silence, Heeds
  <1>3. Missing(Nothing, <<>>, Silence)  BY <1>1, <1>2, NothingQueued
  <1>4. /\ events' = [events EXCEPT ![r] = <<>>]
        /\ heard' = [heard EXCEPT ![r] = Nothing]
        /\ fatal' = [fatal EXCEPT ![r] = FALSE]
        /\ said' = [said EXCEPT ![r] = Silence]
    BY DEF Closed
  <1> QED  BY <1>1, <1>3, <1>4, VoiceChanges

\* The consumer takes the first event.
LEMMA VoiceConsumed ==
    ASSUME VoiceInv, NEW r \in Requests, Consume(r)
    PROVE  VoiceInv'
  <1> DEFINE queue == events[r]
             h == heard[r]
  <1>1. /\ queue # <<>>
        /\ events' = [events EXCEPT ![r] = Tail(queue)]
        /\ heard' = [heard EXCEPT ![r] = Ingest(h, Head(queue))]
        /\ fatal' = [fatal EXCEPT ![r] = fatal[r]]
        /\ said' = [said EXCEPT ![r] = said[r]]
    BY VoiceSame DEF Consume
  <1>2. /\ queue \in Seq(Kinds) /\ h \in Collected
        /\ fatal[r] \in BOOLEAN /\ said[r] \in Speech
        /\ fatal[r] \/ Missing(h, queue, said[r])
    BY VoiceSame
  <1> HIDE DEF queue, h
  <1>3. CASE fatal[r]
    <2>1. Head(queue) \in Kinds /\ Tail(queue) \in Seq(Kinds)
      BY <1>1, <1>2, HeadTailProperties
    <2>2. Ingest(h, Head(queue)) \in Collected  BY <1>2, <2>1, IngestType
    <2> QED  BY <1>1, <1>2, <1>3, <2>1, <2>2, VoiceChanges
  <1>4. CASE Missing(h, queue, said[r])
    <2>1. /\ Tail(queue) \in Seq(Kinds)
          /\ Ingest(h, Head(queue)) \in Collected
          /\ Missing(Ingest(h, Head(queue)), Tail(queue), said[r])
      BY <1>1, <1>2, <1>4, TakenFirst
    <2> QED  BY <1>1, <1>2, <2>1, VoiceChanges
  <1> QED  BY <1>2, <1>3, <1>4

\* The reader ends: nothing is claimed any more.
LEMMA VoiceFatal ==
    ASSUME VoiceInv, NEW r \in Requests, ReaderEnds(r)
    PROVE  VoiceInv'
  <1> DEFINE queue == events[r]
             h == heard[r]
  <1>1. queue \in Seq(Kinds) /\ h \in Collected /\ said[r] \in Speech
        /\ <<>> \in Seq(Kinds)
    BY VoiceSame, EmptySeq
  <1>2. PICK last \in {h} \union {Ingest(h, queue[i]) :
                                    i \in DOMAIN queue \intersect {1}},
             noted \in {TRUE, work[r] = "asking"} :
          heard' = [heard EXCEPT ![r] = IF noted THEN Ingest(last, "error") ELSE last]
    BY DEF ReaderEnds
  <1>3. last \in Collected
    <2>1. \A i \in DOMAIN queue : queue[i] \in Kinds
      BY <1>1, ElementOfSeq, LenProperties
    <2> HIDE DEF queue, h
    <2> QED  BY <1>1, <2>1, IngestType
  <1>4. PICK new \in Collected : new = IF noted THEN Ingest(last, "error") ELSE last
    BY <1>3, IngestType DEF Kinds
  <1>5. /\ events' = [events EXCEPT ![r] = <<>>]
        /\ fatal' = [fatal EXCEPT ![r] = TRUE]
        /\ said' = [said EXCEPT ![r] = said[r]]
        /\ heard' = [heard EXCEPT ![r] = new]
    BY <1>2, <1>4, VoiceSame DEF ReaderEnds
  <1> QED  BY <1>1, <1>5, VoiceChanges

\* The child speaks, to the queue or to a consumer that is not over yet.
LEMMA VoiceSpoken ==
    ASSUME VoiceInv, NEW r \in Requests, NEW kind \in Kinds,
           ChildSays(r, kind) \/ ChildSaysLate(r, kind)
    PROVE  VoiceInv'
  <1> DEFINE queue == events[r]
             h == heard[r]
             s == said[r]
  <1>1. /\ queue \in Seq(Kinds) /\ h \in Collected /\ s \in Speech
        /\ fatal[r] \in BOOLEAN /\ (fatal[r] \/ Missing(h, queue, s))
    BY VoiceSame
  <1>2. ~fatal[r] /\ said' = [said EXCEPT ![r] = Speaks(s, kind)]
    BY DEF ChildSays, ChildSaysLate, CanSpeak
  <1>3. /\ Missing(h, queue, s)
        /\ fatal' = [fatal EXCEPT ![r] = fatal[r]]
    BY <1>1, <1>2, VoiceSame DEF ChildSays, ChildSaysLate
  <1>4. Speaks(s, kind) \in Speech  BY <1>1, SpeaksType
  <1>5. CASE ChildSays(r, kind)
    <2>1. /\ events' = [events EXCEPT ![r] = Append(queue, kind)]
          /\ heard' = [heard EXCEPT ![r] = h]
      BY <1>5, VoiceSame DEF ChildSays
    <2> HIDE DEF queue, h, s
    <2>2. Append(queue, kind) \in Seq(Kinds)  BY <1>1, AppendProperties
    <2>3. Missing(h, Append(queue, kind), Speaks(s, kind))
      BY <1>1, <1>3, <1>4, QueuedLast
    <2> QED  BY <1>1, <1>2, <1>3, <1>4, <2>1, <2>2, <2>3, VoiceChanges
  <1>6. CASE ChildSaysLate(r, kind)
    <2>1. /\ queue = <<>>
          /\ events' = [events EXCEPT ![r] = queue]
          /\ heard' = [heard EXCEPT ![r] = Ingest(h, kind)]
      BY <1>6, VoiceSame DEF ChildSaysLate
    <2> HIDE DEF queue, h, s
    <2>2. Heeds(h, s)  BY <1>1, <1>3, <2>1, NothingQueued
    <2>3. Ingest(h, kind) \in Collected /\ Heeds(Ingest(h, kind), Speaks(s, kind))
      BY <1>1, <2>2, HeedsNext
    <2>4. Missing(Ingest(h, kind), queue, Speaks(s, kind))
      BY <1>4, <2>1, <2>3, NothingQueued
    <2> QED  BY <1>1, <1>2, <1>3, <1>4, <2>1, <2>3, <2>4, VoiceChanges
  <1> QED  BY <1>5, <1>6

\* The invariant holds at first and every step keeps it.
LEMMA VoiceInductive ==
    /\ Init => VoiceInv
    /\ VoiceInv /\ [Next]_vars => VoiceInv'
  <1>1. Init => VoiceInv
    <2> SUFFICES ASSUME Init PROVE VoiceInv  OBVIOUS
    <2>1. Nothing \in Collected /\ Silence \in Speech /\ <<>> \in Seq(Kinds)
      BY EmptySeq DEF Nothing, Silence, Collected, Speech
    <2>2. Heeds(Nothing, Silence)  BY DEF Nothing, Silence, Heeds
    <2>3. Missing(Nothing, <<>>, Silence)  BY <2>1, <2>2, NothingQueued
    <2>4. VoiceTypes  BY <2>1 DEF Init, VoiceTypes
    <2>5. ASSUME NEW r \in Requests PROVE NothingMissed(r)
      BY <2>3 DEF Init, NothingMissed
    <2> QED  BY <2>4, <2>5 DEF VoiceInv
  <1>2. VoiceInv /\ [Next]_vars => VoiceInv'
    <2> SUFFICES ASSUME VoiceInv, [Next]_vars PROVE VoiceInv'  OBVIOUS
    <2>1. CASE UNCHANGED voiceVars
      BY <2>1 DEF VoiceInv, VoiceTypes, NothingMissed
    <2>2. ASSUME NEW r \in Requests, Serve(r) PROVE VoiceInv'
      <3>1. UNCHANGED voiceVars \/ Closed(r)
        BY <2>2 DEF Serve, Refused, BodyRead, Answered, WorkEnded, Disconnected,
                    WatcherSees, ShutdownCancels
      <3> QED  BY <2>1, <3>1, VoiceClosed
    <2>3. ASSUME NEW r \in Requests, Work(r) PROVE VoiceInv'
      <3>1. UNCHANGED voiceVars \/ Consume(r)
        BY <2>3 DEF Work, Launch, Opened, OpeningFails, OpeningClosed, TurnOver,
                    RecordingOver, CallFails, HangUp, LetDrain, Transcribed
      <3> QED  BY <2>1, <3>1, VoiceConsumed
    <2>4. ASSUME NEW r \in Requests,
                 Admit(r) \/ Close(r) \/ ClientLeaves(r) \/ ChildEnds(r)
          PROVE  VoiceInv'
      <3>1. UNCHANGED voiceVars
        BY <2>4 DEF Admit, Close, CloseReader, CloseWait, CloseKill, CloseSpace,
                    ClientLeaves, ChildEnds
      <3> QED  BY <2>1, <3>1
    <2>5. ASSUME NEW r \in Requests,
                 \/ ReaderEnds(r)
                 \/ \E kind \in Kinds : ChildSays(r, kind) \/ ChildSaysLate(r, kind)
          PROVE  VoiceInv'
      BY <2>5, VoiceFatal, VoiceSpoken
    <2>6. CASE Shutdown \/ ShutdownOver \/ UNCHANGED vars
      BY <2>1, <2>6 DEF Shutdown, ShutdownOver, vars
    <2> QED  BY <2>2, <2>3, <2>4, <2>5, <2>6 DEF Next
  <1> QED  BY <1>1, <1>2

\* A cancellation makes no work succeed.
LEMMA CancelMakesNoResult ==
    ASSUME TypeOK, NEW q \in Requests, CancelWork(q), NEW r \in Requests,
           work'[r] = "ok"
    PROVE  work[r] = "ok"
  <1>1. work' = [work EXCEPT ![q] = Cancelled(work[q], voice[q])]
    BY DEF CancelWork
  <1>2. work[q] \in WorkStates  BY DEF TypeOK
  <1>3. CASE q = r
    <2>1. Cancelled(work[q], voice[q]) = "ok"  BY <1>1, <1>3 DEF TypeOK
    <2> QED  BY <1>2, <1>3, <2>1 DEF Cancelled
  <1>4. CASE q # r  BY <1>1, <1>4 DEF TypeOK
  <1> QED  BY <1>3, <1>4

\* The work of a voice request succeeds in one place only.
LEMMA ResultIsTranscript ==
    ASSUME TypeOK, [Next]_vars, NEW r \in Requests,
           voice[r], work[r] # "ok", work'[r] = "ok"
    PROVE  Transcribed(r)
  <1>2. ASSUME NEW q \in Requests, Serve(q) PROVE FALSE
    <2>1. ~CancelWork(q)  BY CancelMakesNoResult
    <2>2. \/ work' = work
          \/ \E w \in WorkStates \ {"ok"} : work' = [work EXCEPT ![q] = w]
      BY <1>2, <2>1 DEF Serve, Refused, BodyRead, Answered, WorkEnded, Closed,
                        Disconnected, WatcherSees, ShutdownCancels, Heed,
                        HeedInClosing
    <2> QED  BY <2>2 DEF TypeOK
  <1>3. ASSUME NEW q \in Requests, Work(q) PROVE Transcribed(r)
    <2>1. CASE \/ Launch(q) \/ Opened(q) \/ OpeningFails(q) \/ OpeningClosed(q)
               \/ RecordingOver(q) \/ CallFails(q) \/ HangUp(q) \/ LetDrain(q)
               \/ Consume(q)
      <3>1. \/ work' = work
            \/ \E w \in WorkStates \ {"ok"} : work' = [work EXCEPT ![q] = w]
        BY <2>1 DEF Launch, Opened, OpeningFails, OpeningClosed, RecordingOver,
                    CallFails, HangUp, LetDrain, Consume, Works
      <3> QED  BY <3>1 DEF TypeOK
    <2>2. CASE TurnOver(q)
      <3>1. q # r /\ \E w \in WorkStates : work' = [work EXCEPT ![q] = w]
        BY <2>2 DEF TurnOver, Works
      <3> QED  BY <3>1 DEF TypeOK
    <2>3. CASE Transcribed(q)
      <3>1. \E w \in WorkStates : work' = [work EXCEPT ![q] = w]
        BY <2>3 DEF Transcribed
      <3>2. q = r  BY <3>1 DEF TypeOK
      <3> QED  BY <2>3, <3>2
    <2> QED  BY <1>3, <2>1, <2>2, <2>3 DEF Work
  <1>4. ASSUME NEW q \in Requests,
               \/ Admit(q) \/ Close(q) \/ ClientLeaves(q) \/ ChildEnds(q)
               \/ ReaderEnds(q)
               \/ \E kind \in Kinds : ChildSays(q, kind) \/ ChildSaysLate(q, kind)
        PROVE  FALSE
    <2>1. work' = work
      BY <1>4 DEF Admit, Close, CloseReader, CloseWait, CloseKill, CloseSpace,
                  ClientLeaves, ChildEnds, ReaderEnds, ChildSays, ChildSaysLate
    <2> QED  BY <2>1
  <1>5. CASE Shutdown \/ ShutdownOver \/ UNCHANGED vars
    BY <1>5 DEF Shutdown, ShutdownOver, vars
  <1> QED  BY <1>2, <1>3, <1>4, <1>5 DEF Next

\* ... and only when the collector has heard all of a speech that is over.
LEMMA TranscriptWhole ==
    ASSUME IInv, VoiceInv, [Next]_vars, NEW r \in Requests,
           voice[r], work[r] # "ok", work'[r] = "ok"
    PROVE  SpeechOver(said[r]) \/ fatal[r]
  <1>1. Transcribed(r)  BY ResultIsTranscript DEF IInv
  <1>2. events[r] = <<>>  BY <1>1 DEF Transcribed
  <1>3. Complete(heard[r])
    <2>1. work' = [work EXCEPT ![r] =
              IF work[r] = "draining" /\ Usable(r) THEN "ok" ELSE "failed"]
      BY <1>1 DEF Transcribed
    <2>2. work'[r] = IF work[r] = "draining" /\ Usable(r) THEN "ok" ELSE "failed"
      BY <2>1 DEF IInv, TypeOK
    <2> QED  BY <2>2 DEF Usable
  <1>4. heard[r] \in Collected /\ said[r] \in Speech
        /\ (fatal[r] \/ Missing(heard[r], events[r], said[r]))
    BY VoiceSame
  <1>5. fatal[r] \/ Heeds(heard[r], said[r])  BY <1>2, <1>4, NothingQueued
  <1> QED  BY <1>3, <1>4, <1>5 DEF Complete, SpeechOver, Heeds, Collected, Speech

\* When a transcript is returned, every part that the child had begun by the end
\* of the call (voice.py:339) has an end of its own, and there was no error,
\* whatever the order of parts, final texts and judgements (voice.py:67,
\* voice.py:359), unless the reader itself ended.
THEOREM GatewayTranscriptComplete == Spec => TranscriptComplete
  <1>1. Init => IInv /\ VoiceInv  BY InitHolds, VoiceInductive
  <1>2. IInv /\ VoiceInv /\ [Next]_vars => (IInv /\ VoiceInv)'
    BY StepKeeps, VoiceInductive
  <1>3. IInv /\ VoiceInv /\ [Next]_vars =>
           [\A r \in Requests :
               voice[r] /\ work[r] # "ok" /\ work'[r] = "ok"
                   => SpeechOver(said[r]) \/ fatal[r]]_vars
    BY TranscriptWhole
  <1> QED  BY <1>1, <1>2, <1>3, PTL DEF Spec, TranscriptComplete

===============================================================================
