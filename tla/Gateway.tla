-------------------------------- MODULE Gateway --------------------------------
(***************************************************************************)
(* The optional Codex gateway, services/codex_gateway: an asyncio server   *)
(* that serves one device request at a time.  A handler (gateway.py) reads *)
(* the body, runs the work as a task of its own, and cleans up; the work   *)
(* starts a child process in a workspace of its own (codex_client.py) and  *)
(* asks it for a TODO action, or for a transcript (voice.py) that it puts  *)
(* together from the events a reader task queues.                          *)
(*                                                                         *)
(* The handler is cancelled when its client goes away and when the server  *)
(* stops, the work also by a watcher and by time limits, at whatever they  *)
(* await and more than once.  A cancellation is modelled by what it does   *)
(* there.  Checks of headers, bodies and JSON end in one refusal; what the *)
(* child says is left of its protocol.                                     *)
(***************************************************************************)
EXTENDS Naturals, Sequences

CONSTANTS
    Requests,  \* connections of devices, each used again and again
    MaxEvents, \* events of the child not consumed yet (128 in the code)
    MaxParts   \* bound: parts of speech in one call

ASSUME MaxEventsAssumption == MaxEvents \in Nat \ {0}
ASSUME MaxPartsAssumption == MaxParts \in Nat \ {0}

VARIABLES
    busy,     \* state.busy
    stop,     \* shutdown: no, asked, over
    cancel,   \* handlers that shutdown has still to cancel
    gone,     \* connections whose client went away
    handler,  \* where the handler of a connection is
    voice,    \* whether it is a transcription
    work,     \* its operation task
    close,    \* its client's close task; "none" without a client, "open" before
    child,    \* its child process
    space,    \* its temporary directory is there
    events,   \* queued by the reader, not yet consumed
    heard,    \* the collector: some final text, parts pending, an error
    fatal,    \* the reader ended by itself (_fatal)
    said      \* parts the child has begun and ended, a contradiction (history)

clientVars == <<close, child, space>>
voiceVars == <<events, heard, fatal, said>>
vars == <<busy, stop, cancel, gone, handler, voice, work, clientVars, voiceVars>>

\* What the reader queues for the consumer: a part that begins, the final text
\* of the first part pending, one that covers all that is pending, one that
\* does not fit what is pending, and an error of the session.
Kinds == {"delta", "done", "whole", "revision", "error"}
Nothing == [text |-> FALSE, open |-> 0, error |-> FALSE]
Silence == [begun |-> 0, ended |-> 0, error |-> FALSE]

\* Regression variant: a final text clears all that is pending.
IngestClearing(h, kind) ==
    CASE kind = "delta" -> [h EXCEPT !.open = @ + 1]
      [] kind \in {"done", "whole"} -> [h EXCEPT !.text = TRUE, !.open = 0]
      [] kind = "revision" /\ h.open = 0 -> [h EXCEPT !.text = TRUE]
      [] OTHER -> [h EXCEPT !.error = TRUE]

\* TranscriptCollector.ingest, and the errors its consumer notes.  A final text
\* consumes only the part of the pending text that it matches; with nothing
\* pending any final text is taken as it is.
Ingest(h, kind) ==
    CASE kind = "delta" -> [h EXCEPT !.open = @ + 1]
      [] kind = "done" /\ h.open > 0 ->
            [h EXCEPT !.text = TRUE, !.open = @ - 1]
      [] kind = "whole" -> [h EXCEPT !.text = TRUE, !.open = 0]
      [] kind \in {"done", "revision"} /\ h.open = 0 ->
            [h EXCEPT !.text = TRUE]
      [] OTHER -> [h EXCEPT !.error = TRUE]

\* ready, and no error
Complete(h) == h.text /\ h.open = 0 /\ ~h.error

\* The account of the child's own speech: how many parts it has begun, and how
\* many of them, counted from the first, have their end.  An end without a
\* beginning is a part of its own.
Speaks(s, kind) ==
    LET pending == s.ended < s.begun
    IN  CASE kind = "delta" -> [s EXCEPT !.begun = @ + 1]
          [] kind = "error" \/ (kind = "revision" /\ pending) ->
                [s EXCEPT !.error = TRUE]
          [] kind = "done" /\ pending -> [s EXCEPT !.ended = @ + 1]
          [] kind = "whole" /\ pending -> [s EXCEPT !.ended = s.begun]
          [] OTHER -> [s EXCEPT !.begun = @ + 1, !.ended = @ + 1]

\* Every part of the speech has an end of its own.
SpeechOver(s) == s.ended > 0 /\ s.ended = s.begun /\ ~s.error

Init ==
    /\ busy = FALSE /\ stop = "no" /\ cancel = {} /\ gone = {}
    /\ handler = [r \in Requests |-> "idle"]
    /\ voice = [r \in Requests |-> FALSE]
    /\ work = [r \in Requests |-> "none"]
    /\ close = [r \in Requests |-> "none"]
    /\ child = [r \in Requests |-> "none"]
    /\ space = [r \in Requests |-> FALSE]
    /\ events = [r \in Requests |-> <<>>]
    /\ heard = [r \in Requests |-> Nothing]
    /\ fatal = [r \in Requests |-> FALSE]
    /\ said = [r \in Requests |-> Silence]

(***************************************************************************)
(* The handler.                                                            *)
(***************************************************************************)
Goes(r, from, to) == handler[r] \in from /\ handler' = [handler EXCEPT ![r] = to]

\* The flag is tested and set without an await in between; anyone else is
\* answered 429 at once.
Admit(r) ==
    /\ stop = "no" /\ ~busy /\ Goes(r, {"idle"}, "body")
    /\ busy' = TRUE
    /\ gone' = gone \ {r}
    /\ UNCHANGED <<stop, cancel, voice, work, clientVars, voiceVars>>

\* The end of the "finally": nothing is left to wait for.
Over(r) ==
    /\ handler' = [handler EXCEPT ![r] = "idle"]
    /\ busy' = FALSE
    /\ cancel' = cancel \ {r}

Refused(r) ==
    /\ handler[r] = "body" /\ Over(r)
    /\ UNCHANGED <<stop, gone, voice, work, clientVars, voiceVars>>

BodyRead(r) ==
    /\ Goes(r, {"body"}, "wait")
    /\ voice' \in {[voice EXCEPT ![r] = v] : v \in BOOLEAN}
    /\ work' = [work EXCEPT ![r] = "started"]
    /\ UNCHANGED <<busy, stop, cancel, gone, clientVars, voiceVars>>

\* A cancellation of the work at whatever it awaits: what it has opened it
\* closes first, what it is closing it goes on closing.
CloseOnce(r) ==
    close' = [close EXCEPT ![r] = IF @ = "open" THEN "reader" ELSE @]

Cancelled(w, call) ==
    CASE w = "started" -> "failed"
      [] w = "opening" -> "closing"
      [] w = "asking" -> IF call THEN "hanging, failed" ELSE "failed"
      [] w = "hanging" -> "hanging, failed"
      [] w = "hung" -> "hung, failed"
      [] w = "draining" -> "draining, failed"
      [] OTHER -> w

CancelWork(r) ==
    /\ work' = [work EXCEPT ![r] = Cancelled(@, voice[r])]
    /\ IF work[r] = "opening" THEN CloseOnce(r) ELSE UNCHANGED close

\* An answer, an error, or the time limit of the request (25 or 32 seconds)
\* while the work goes on: something is written and the "finally" cancels.
Answered(r) ==
    /\ Goes(r, {"wait"}, "ending")
    /\ CancelWork(r)
    /\ UNCHANGED <<busy, stop, cancel, gone, voice, child, space, voiceVars>>

\* await operation, in the "finally".
WorkEnded(r) ==
    /\ Goes(r, {"ending"}, "closing")
    /\ work[r] \in {"ok", "failed"}
    /\ CloseOnce(r)
    /\ UNCHANGED <<busy, stop, cancel, gone, voice, work, child, space, voiceVars>>

\* await client.close(); the handler's own variables end with it.
Closed(r) ==
    /\ handler[r] = "closing" /\ close[r] \in {"none", "done"}
    /\ Over(r)
    /\ voice' = [voice EXCEPT ![r] = FALSE]
    /\ work' = [work EXCEPT ![r] = "none"]
    /\ close' = [close EXCEPT ![r] = "none"]
    /\ events' = [events EXCEPT ![r] = <<>>]
    /\ heard' = [heard EXCEPT ![r] = Nothing]
    /\ fatal' = [fatal EXCEPT ![r] = FALSE]
    /\ said' = [said EXCEPT ![r] = Silence]
    /\ UNCHANGED <<stop, gone, child, space>>

(***************************************************************************)
(* Cancellations of the handler.                                           *)
(***************************************************************************)
\* While the close task runs its waiter only remembers to be cancelled.
HeedInClosingAnyway(r) == Over(r) /\ UNCHANGED <<work, close>>
HeedInClosing(r) == UNCHANGED <<handler, busy, work, close>> /\ cancel' = cancel \ {r}

Heed(r) ==
    \/ handler[r] = "body" /\ Over(r) /\ UNCHANGED <<work, close>>
    \/ /\ Goes(r, {"wait", "ending"}, "ending")
       /\ cancel' = cancel \ {r}
       /\ CancelWork(r)
       /\ UNCHANGED busy
    \/ handler[r] = "closing" /\ HeedInClosing(r)

ClientLeaves(r) ==
    /\ handler[r] # "idle"
    /\ gone' = gone \union {r}
    /\ UNCHANGED <<busy, stop, cancel, handler, voice, work, clientVars, voiceVars>>

\* aiohttp's handler_cancellation.
Disconnected(r) ==
    /\ r \in gone /\ Heed(r)
    /\ UNCHANGED <<stop, gone, voice, child, space, voiceVars>>

\* _watch_disconnect.
WatcherSees(r) ==
    /\ r \in gone /\ handler[r] = "wait" /\ work[r] \notin {"ok", "failed"}
    /\ CancelWork(r)
    /\ UNCHANGED <<busy, stop, cancel, gone, handler, voice, child, space, voiceVars>>

Shutdown ==
    /\ stop = "no" /\ stop' = "asked"
    /\ cancel' = {r \in Requests : handler[r] # "idle"}
    /\ UNCHANGED <<busy, gone, handler, voice, work, clientVars, voiceVars>>

ShutdownCancels(r) ==
    /\ r \in cancel /\ Heed(r)
    /\ UNCHANGED <<stop, gone, voice, child, space, voiceVars>>

ShutdownOver ==
    /\ stop = "asked" /\ \A r \in Requests : handler[r] = "idle"
    /\ stop' = "over"
    /\ UNCHANGED <<busy, cancel, gone, handler, voice, work, clientVars, voiceVars>>

(***************************************************************************)
(* The work.                                                               *)
(***************************************************************************)
Works(r, from, to) == work[r] = from /\ work' = [work EXCEPT ![r] = to]

\* The client's directory, child and reader; a launch that fails closes.
Launch(r) ==
    /\ Works(r, "started", "opening")
    /\ close' = [close EXCEPT ![r] = "open"]
    /\ space' = [space EXCEPT ![r] = TRUE]
    /\ child' \in {[child EXCEPT ![r] = c] : c \in {"none", "alive"}}
    /\ UNCHANGED <<busy, stop, cancel, gone, handler, voice, voiceVars>>

Opened(r) ==
    /\ Works(r, "opening", "asking") /\ child[r] # "none" /\ ~fatal[r]
    /\ UNCHANGED <<busy, stop, cancel, gone, handler, voice, clientVars, voiceVars>>

\* Not logged in, tools configured, the child's end, three seconds passed.
OpeningFails(r) ==
    /\ Works(r, "opening", "closing")
    /\ CloseOnce(r)
    /\ UNCHANGED <<busy, stop, cancel, gone, handler, voice, child, space, voiceVars>>

OpeningClosed(r) ==
    /\ Works(r, "closing", "failed") /\ close[r] = "done"
    /\ UNCHANGED <<busy, stop, cancel, gone, handler, voice, clientVars, voiceVars>>

\* complete_todo, to the end of its turn.
TurnOver(r) ==
    /\ ~voice[r]
    /\ Works(r, "asking", "ok") \/ Works(r, "asking", "failed")
    /\ UNCHANGED <<busy, stop, cancel, gone, handler, voice, clientVars, voiceVars>>

\* transcribe_wav after the recording and the quiet tail, or when anything
\* before fails, the 28 seconds included.
RecordingOver(r) ==
    /\ voice[r]
    /\ IF Complete(heard[r]) THEN Works(r, "asking", "hanging")
                             ELSE Works(r, "asking", "hanging, failed")
    /\ UNCHANGED <<busy, stop, cancel, gone, handler, voice, clientVars, voiceVars>>

CallFails(r) ==
    /\ voice[r]
    /\ Works(r, "asking", "hanging, failed")
    /\ UNCHANGED <<busy, stop, cancel, gone, handler, voice, clientVars, voiceVars>>

\* The call is stopped, then the connection closed: a child that does not
\* answer and an error on the media's own channel make it a failure.
HangUp(r) ==
    /\ \/ Works(r, "hanging", "hung") /\ ~fatal[r]
       \/ Works(r, "hanging", "hung, failed")
       \/ Works(r, "hanging, failed", "hung, failed")
    /\ UNCHANGED <<busy, stop, cancel, gone, handler, voice, clientVars, voiceVars>>

\* sleep(0), then consumer.cancel().  What is queued by now is taken before the
\* consumer ends.  Since Python 3.12 one pass of the loop takes all of it; the
\* wait_for of 3.11 needs several passes for an event, but returns one that it
\* has already got although it is cancelled, and the consumer goes on.
LetDrain(r) ==
    /\ Works(r, "hung", "draining") \/ Works(r, "hung, failed", "draining, failed")
    /\ UNCHANGED <<busy, stop, cancel, gone, handler, voice, clientVars, voiceVars>>

\* Regression variant: the result is not judged again after the stop.
UsableAsJudgedBefore(r) == TRUE

\* The collector as it is once the consumer is over.
Usable(r) == Complete(heard[r])

\* await consumer, and the cleanup is over.
Transcribed(r) ==
    /\ work[r] \in {"draining", "draining, failed"}
    /\ events[r] = <<>>
    /\ work' = [work EXCEPT ![r] = IF @ = "draining" /\ Usable(r) THEN "ok" ELSE "failed"]
    /\ UNCHANGED <<busy, stop, cancel, gone, handler, voice, clientVars, voiceVars>>

\* A consumer that has ended over an error leaves the rest in the queue, which
\* makes no difference: the error stands.
Consume(r) ==
    /\ work[r] \in {"asking", "hanging", "hanging, failed", "hung", "hung, failed",
                     "draining", "draining, failed"}
    /\ events[r] # <<>>
    /\ heard' = [heard EXCEPT ![r] = Ingest(@, Head(events[r]))]
    /\ events' = [events EXCEPT ![r] = Tail(@)]
    /\ UNCHANGED <<busy, stop, cancel, gone, handler, voice, work, clientVars, fatal, said>>

(***************************************************************************)
(* The close task, and the child.                                          *)
(***************************************************************************)
Closing(r, from, to) == close[r] = from /\ close' = [close EXCEPT ![r] = to]

CloseReader(r) ==
    /\ Closing(r, "reader", IF child[r] = "none" THEN "space" ELSE "wait")
    /\ UNCHANGED <<busy, stop, cancel, gone, handler, voice, work, child, space, voiceVars>>

\* SIGTERM, a second at most for the child to end; then SIGKILL to its group.
CloseWait(r) ==
    /\ Closing(r, "wait", "kill")
    /\ child' \in {child, [child EXCEPT ![r] = "dead"]}
    /\ UNCHANGED <<busy, stop, cancel, gone, handler, voice, work, space, voiceVars>>

ReapedIfDead(r) == child[r] = "dead" /\ child' = [child EXCEPT ![r] = "none"]
Reaped(r) == child' = [child EXCEPT ![r] = "none"]

CloseKill(r) ==
    /\ Closing(r, "kill", "space")
    /\ Reaped(r)
    /\ UNCHANGED <<busy, stop, cancel, gone, handler, voice, work, space, voiceVars>>

CloseSpace(r) ==
    /\ Closing(r, "space", "done")
    /\ space' = [space EXCEPT ![r] = FALSE]
    /\ UNCHANGED <<busy, stop, cancel, gone, handler, voice, work, child, voiceVars>>

ChildEnds(r) ==
    /\ child[r] = "alive"
    /\ child' = [child EXCEPT ![r] = "dead"]
    /\ UNCHANGED <<busy, stop, cancel, gone, handler, voice, work, close, space, voiceVars>>

CanSpeak(r, kind) ==
    /\ voice[r] /\ child[r] # "none" /\ close[r] = "open" /\ ~fatal[r]
    /\ Speaks(said[r], kind).begun <= MaxParts
    /\ said' = [said EXCEPT ![r] = Speaks(@, kind)]

ChildSays(r, kind) ==
    /\ CanSpeak(r, kind)
    /\ work[r] \in {"asking", "hanging", "hung"}
    /\ Len(events[r]) < MaxEvents
    /\ events' = [events EXCEPT ![r] = Append(@, kind)]
    /\ UNCHANGED <<busy, stop, cancel, gone, handler, voice, work, clientVars, heard, fatal>>

\* What comes after the sleep(0) began is dropped with the queue, which changes
\* nothing here, or taken by a consumer that is not over yet.
ChildSaysLate(r, kind) ==
    /\ CanSpeak(r, kind)
    /\ work[r] = "draining" /\ events[r] = <<>>
    /\ heard' = [heard EXCEPT ![r] = Ingest(@, kind)]
    /\ UNCHANGED <<busy, stop, cancel, gone, handler, voice, work, clientVars, events, fatal>>

\* The reader's end: the child's output is over, makes no sense, overfills the
\* queue, or shows a turn nobody asked for.  The consumer takes at most the
\* event that woke it and is then refused the rest; it notes the end as an error
\* only if the call was not being stopped, and the turn is always one.
ReaderEnds(r) ==
    /\ child[r] # "none" /\ close[r] = "open" /\ ~fatal[r]
    /\ fatal' = [fatal EXCEPT ![r] = TRUE]
    /\ \E last \in {heard[r]} \union {Ingest(heard[r], events[r][i]) :
                                       i \in DOMAIN events[r] \intersect {1}} :
       \E noted \in {TRUE, work[r] = "asking"} :
          heard' = [heard EXCEPT ![r] = IF noted THEN Ingest(last, "error") ELSE last]
    /\ events' = [events EXCEPT ![r] = <<>>]
    /\ UNCHANGED <<busy, stop, cancel, gone, handler, voice, work, clientVars, said>>

-----------------------------------------------------------------------------
Serve(r) ==
    \/ Refused(r) \/ BodyRead(r) \/ Answered(r) \/ WorkEnded(r) \/ Closed(r)
    \/ Disconnected(r) \/ WatcherSees(r) \/ ShutdownCancels(r)

Work(r) ==
    \/ Launch(r) \/ Opened(r) \/ OpeningFails(r) \/ OpeningClosed(r)
    \/ TurnOver(r) \/ RecordingOver(r) \/ CallFails(r)
    \/ HangUp(r) \/ LetDrain(r) \/ Transcribed(r) \/ Consume(r)

Close(r) == CloseReader(r) \/ CloseWait(r) \/ CloseKill(r) \/ CloseSpace(r)

Next ==
    \/ \E r \in Requests :
          \/ Admit(r) \/ Serve(r) \/ Work(r) \/ Close(r)
          \/ ClientLeaves(r) \/ ChildEnds(r) \/ ReaderEnds(r)
          \/ \E kind \in Kinds : ChildSays(r, kind) \/ ChildSaysLate(r, kind)
    \/ Shutdown \/ ShutdownOver

Spec == Init /\ [][Next]_vars

\* The event loop runs every task that can go on, the consumer included, a body,
\* a request and the wait for an event have their time limits, and a killed
\* child is reaped by the system.
FairSpec ==
    /\ Spec
    /\ \A r \in Requests :
          /\ WF_vars(Refused(r) \/ BodyRead(r))
          /\ WF_vars(Answered(r)) /\ WF_vars(WorkEnded(r)) /\ WF_vars(Closed(r))
          /\ WF_vars(Launch(r)) /\ WF_vars(Opened(r) \/ OpeningFails(r))
          /\ WF_vars(OpeningClosed(r))
          /\ WF_vars(TurnOver(r) \/ RecordingOver(r))
          /\ WF_vars(HangUp(r)) /\ WF_vars(LetDrain(r))
          /\ WF_vars(Consume(r)) /\ WF_vars(Transcribed(r))
          /\ WF_vars(Close(r))
    /\ WF_vars(ShutdownOver)

-----------------------------------------------------------------------------
(***************************************************************************)
(* Correctness.                                                            *)
(***************************************************************************)
\* When the gateway says it is free, and when it has shut down, no child
\* process and no workspace of any request is left, however often and wherever
\* its handler and its work were cancelled (codex_client.py:431); and while it
\* is not free only one request has any.
Using == {r \in Requests : child[r] # "none" \/ space[r]}
NothingLeftBehind ==
    /\ ~busy \/ stop = "over" => Using = {}
    /\ \A q, r \in Using : q = r

\* A transcript is returned only if every part that the child had begun when the
\* call was over (voice.py:339), and every part its consumer took later, has an
\* end of its own, and no error came between: no late part and no late error is
\* hidden by a final text of an earlier part (voice.py:67) or by the judgement
\* made before the stop (voice.py:359).  The exception is a reader that ends
\* during the stop, with which the queue is lost.
TranscriptComplete ==
    [][ \A r \in Requests :
            voice[r] /\ work[r] # "ok" /\ work'[r] = "ok"
                => SpeechOver(said[r]) \/ fatal[r] ]_vars

\* The gateway is never blocked for good: whatever a child, a client and the
\* cancellations do, it becomes free again, and a shutdown ends.
BecomesFree == (busy ~> ~busy) /\ (stop = "asked" ~> stop = "over")

=============================================================================
