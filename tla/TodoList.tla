------------------------------- MODULE TodoList --------------------------------
(***************************************************************************)
(* The smart TODO list: the list of smart_todo.c, its record in NVS, the   *)
(* voice transaction and the reminders of app_controller.c.                *)
(*                                                                         *)
(* One task, the controller, does all the work.  A voice request takes it  *)
(* through a recording and two HTTP requests; between their chunks the     *)
(* HTTP callbacks sound reminders, so that the list changes under the      *)
(* request.  Other tasks start, release and cancel a request through three *)
(* atomic flags at any time, and the power can go at any time.             *)
(*                                                                         *)
(* Data is abstracted: a title is a value that no other item of the list   *)
(* has, so that it tells items apart, and a unit of time is the retry      *)
(* interval of a reminder.  The revision counter, and the limits of        *)
(* titles, times and intervals, are left out.                              *)
(***************************************************************************)
EXTENDS Integers, Sequences, FiniteSets

CONSTANTS
    Titles,     \* titles of items
    Capacity,   \* SMART_TODO_CAPACITY, 12 in the code
    QueueDepth, \* APP_QUEUE_DEPTH, 20 in the code
    Delays,     \* delays a request can ask for
    Repeats,    \* repeat intervals a request can ask for
    MaxClock,   \* bound: time at which the clock stops
    MaxFaults   \* bound: power cuts and failed operations, in all

ASSUME TodoAssumption ==
    /\ {Capacity, QueueDepth} \subseteq Nat \ {0}
    /\ {MaxClock, MaxFaults} \subseteq Nat
    /\ Delays \subseteq Nat \ {0}
    /\ Repeats \subseteq Nat \ {0}

VARIABLES
    pc,         \* what the controller task is at
    chime,      \* the reminder it is sounding meanwhile, or NoChime
    todos,      \* s_todos
    nvs,        \* vibe_todo/list_v1
    storageOk,  \* s_todo_storage_ok
    timeValid,  \* system_time_valid
    clock,      \* time
    retryAt,    \* s_reminder_retry_us
    held,       \* voice_held: s_voice_held, and OK is pressed
    pending,    \* s_voice_pending
    cancelled,  \* s_voice_cancelled
    queue,      \* commands in s_controller.queue
    seen,       \* the list and the time the interpreter was given
    change,     \* the request's ids and the candidate list it led to
    alert,      \* view.todo_alert_id, 0 for none
    alerted,    \* history: title of the reminder that set alert
    rung,       \* history: the reminders that sounded
    faults      \* number of faults so far

flashVars == <<nvs, faults>>
clockVars == <<timeValid, clock>>
flagVars == <<held, pending, cancelled>>
requestVars == <<seen, change>>
alertVars == <<alert, alerted>>
ramVars == <<todos, storageOk, retryAt>>
vars == <<pc, chime, flashVars, clockVars, flagVars, queue, requestVars,
          alertVars, ramVars, rung>>

-------------------------------------------------------------------------------
(* The list: smart_todo.c *)

EmptyList == [items |-> <<>>, next |-> 1]

TitlesOf(list) == {list.items[i].title : i \in DOMAIN list.items}

\* smart_todo_apply for SMART_TODO_ADD
Add(list, title, due, repeat) ==
    [items |-> Append(list.items, [id |-> list.next, title |-> title, due |-> due,
                                   repeat |-> repeat, done |-> FALSE]),
     next  |-> list.next + 1]

\* ... for SMART_TODO_COMPLETE: all of the ids that are still open.
Closed(item) == [item EXCEPT !.done = TRUE, !.due = 0, !.repeat = 0]

Complete(list, ids) ==
    [items |-> [i \in DOMAIN list.items |->
                  IF list.items[i].id \in ids
                  THEN Closed(list.items[i])
                  ELSE list.items[i]],
     next  |-> list.next]

\* The places of the items that stay, and where the loop writes each of them
Kept(list, ids) == {i \in DOMAIN list.items : list.items[i].id \notin ids}
Written(kept, i) == Cardinality({j \in kept : j <= i})

\* ... the other way round: what the n-th item that stays was read from
Read(kept, n) == CHOOSE i \in kept : Written(kept, i) = n

\* Regression variant: the next id starts over, and the items keep theirs.
DeleteKeepsIds(list, ids) ==
    LET kept == Kept(list, ids)
    IN [items |-> [n \in 1..Cardinality(kept) |-> list.items[Read(kept, n)]],
        next  |-> Cardinality(kept) + 1]

\* ... for SMART_TODO_DELETE: what is left is numbered again from 1.
Delete(list, ids) ==
    LET kept == Kept(list, ids)
    IN [items |-> [n \in 1..Cardinality(kept) |->
                      [list.items[Read(kept, n)] EXCEPT !.id = n]],
        next  |-> Cardinality(kept) + 1]

\* Regression variant: a reminder is due in its own unit of time only.
OverdueExactly(list, now) ==
    {i \in DOMAIN list.items : list.items[i].due = now}

\* The open items whose due time has come; 0 is no due time.
OverdueAt(list, now) ==
    {i \in DOMAIN list.items : list.items[i].due \in 1..now}

\* smart_todo_due: the place of the first item with the earliest due time
\* that has come, as a set of at most one.
Due(list, now) ==
    LET earliest == {i \in OverdueAt(list, now) :
            \A j \in OverdueAt(list, now) : list.items[i].due <= list.items[j].due}
    IN {i \in earliest : \A j \in earliest : i <= j}

\* Regression variant: a reminder without repetition takes its item away.
RemindedRemoves(list, i, now) ==
    IF list.items[i].repeat = 0
    THEN Delete(list, {list.items[i].id})
    ELSE [list EXCEPT !.items[i].due = now + list.items[i].repeat]

\* The first time of the item's own schedule that is still to come.
NextDue(item, now) ==
    item.due + ((now - item.due) \div item.repeat + 1) * item.repeat

WithDue(item, due) ==
    [id |-> item.id, title |-> item.title, due |-> due, repeat |-> item.repeat,
     done |-> item.done]

\* smart_todo_reminded: only the due time of one item changes.
Reminded(list, i, now) ==
    [items |-> [j \in DOMAIN list.items |->
        IF j # i THEN list.items[j]
        ELSE WithDue(list.items[i],
                     IF list.items[i].repeat = 0 THEN 0
                     ELSE NextDue(list.items[i], now))],
     next |-> list.next]

\* The reminders a list holds: title and due time.
Reminders(list) ==
    {<<list.items[i].title, list.items[i].due>> :
        i \in {j \in DOMAIN list.items : list.items[j].due # 0}}

-------------------------------------------------------------------------------
NoChime == [stage |-> "none", title |-> "none", id |-> 0, due |-> 0, list |-> EmptyList]
NotSeen == [list |-> EmptyList, at |-> 0]
NoChange == [ids |-> {}, list |-> EmptyList]

Waits == {"prepare", "asr", "chat"}     \* where callbacks run smart_reminders
VoiceSteps == Waits \cup {"recording", "commit", "done"}

Commands == {"voice", "ack", "other"}

Init ==
    /\ pc = "off"
    /\ chime = NoChime
    /\ todos = EmptyList
    /\ nvs = EmptyList
    /\ storageOk = FALSE
    /\ timeValid = FALSE
    /\ clock = 1
    /\ retryAt = 0
    /\ held = FALSE /\ pending = FALSE /\ cancelled = FALSE
    /\ queue = <<>>
    /\ seen = NotSeen
    /\ change = NoChange
    /\ alert = 0 /\ alerted = "none"
    /\ rung = {}
    /\ faults = 0

Running == pc # "off"
Quiet == chime = NoChime   \* the controller is not inside smart_reminders

\* A fault of the flash or of the speaker, or a power cut.  The last unit of
\* time has none, so that a retry still falls before the clock stops.
Fault == faults < MaxFaults /\ clock < MaxClock /\ faults' = faults + 1

-------------------------------------------------------------------------------
(* Time and power *)

Tick ==
    /\ clock < MaxClock
    /\ clock' = clock + 1
    /\ UNCHANGED <<pc, chime, flashVars, timeValid, flagVars, queue, requestVars,
                   alertVars, ramVars, rung>>

\* sync_system_time, in the controller task
TimeSync ==
    /\ pc = "tick"
    /\ Quiet
    /\ ~timeValid
    /\ timeValid' = TRUE
    /\ UNCHANGED <<pc, chime, flashVars, clock, flagVars, queue, requestVars,
                   alertVars, ramVars, rung>>

\* app_controller_init: the list is loaded, or it cannot be and is left empty.
Boot ==
    /\ pc = "off"
    /\ pc' = "wait"
    /\ \/ todos' = nvs /\ storageOk' = TRUE /\ UNCHANGED faults
       \/ todos' = EmptyList /\ storageOk' = FALSE /\ Fault
    /\ UNCHANGED <<chime, nvs, clockVars, flagVars, queue, requestVars, alertVars,
                   retryAt, rung>>

PowerLoss ==
    /\ Running
    /\ Fault
    /\ pc' = "off"
    /\ chime' = NoChime
    /\ todos' = EmptyList
    /\ storageOk' = FALSE
    /\ timeValid' = FALSE
    /\ retryAt' = 0
    /\ held' = FALSE /\ pending' = FALSE /\ cancelled' = FALSE
    /\ queue' = <<>>
    /\ seen' = NotSeen
    /\ change' = NoChange
    /\ alert' = 0 /\ alerted' = "none"
    /\ UNCHANGED <<nvs, clock, rung>>

-------------------------------------------------------------------------------
(* Other tasks: app_controller_dispatch and app_controller_voice_stop *)

Room == Len(queue) < QueueDepth

\* Regression variant: a start is not refused while a request is pending.
MayStartAlways == TRUE

\* The compare-and-exchange on s_voice_pending
MayStart == ~pending

\* The user may have let go of OK by now.  With a full queue the start is
\* taken back.
VoiceStart ==
    /\ Running
    /\ MayStart
    /\ pending' = Room
    /\ held' \in IF Room THEN BOOLEAN ELSE {FALSE}
    /\ cancelled' = FALSE
    /\ queue' = IF Room THEN Append(queue, "voice") ELSE queue
    /\ UNCHANGED <<pc, chime, flashVars, clockVars, requestVars, alertVars,
                   ramVars, rung>>

VoiceStop ==
    /\ held
    /\ held' = FALSE
    /\ UNCHANGED <<pc, chime, flashVars, clockVars, pending, cancelled, queue,
                   requestVars, alertVars, ramVars, rung>>

\* The intents that cancel a request, such as a relink, whether or not there
\* is room for them.
Cancel ==
    /\ Running
    /\ cancelled' = TRUE
    /\ held' = FALSE
    /\ queue' = IF Room THEN Append(queue, "other") ELSE queue
    /\ UNCHANGED <<pc, chime, flashVars, clockVars, pending, requestVars,
                   alertVars, ramVars, rung>>

\* APP_INTENT_TODO_ACK: the screens offer it while an alert shows.
Acknowledge ==
    /\ alert # 0
    /\ Room
    /\ queue' = Append(queue, "ack")
    /\ UNCHANGED <<pc, chime, flashVars, clockVars, flagVars, requestVars,
                   alertVars, ramVars, rung>>

-------------------------------------------------------------------------------
(* controller_task: receive a command or time out, then run_due_actions *)

TakeOther ==
    /\ pc = "wait"
    /\ queue # <<>> /\ Head(queue) = "other"
    /\ queue' = Tail(queue)
    /\ pc' = "tick"
    /\ UNCHANGED <<chime, flashVars, clockVars, flagVars, requestVars, alertVars,
                   ramVars, rung>>

TakeAck ==
    /\ pc = "wait"
    /\ queue # <<>> /\ Head(queue) = "ack"
    /\ queue' = Tail(queue)
    /\ pc' = "tick"
    /\ alert' = 0 /\ alerted' = "none"
    /\ UNCHANGED <<chime, flashVars, clockVars, flagVars, requestVars, ramVars,
                   rung>>

\* xQueueReceive times out after 250 ms.
Timeout ==
    /\ pc = "wait"
    /\ queue = <<>>
    /\ pc' = "tick"
    /\ UNCHANGED <<chime, flashVars, clockVars, flagVars, queue, requestVars,
                   alertVars, ramVars, rung>>

\* Regression variant: the list is written back even if it was never read.
MayUseListAlways == TRUE

\* s_todo_storage_ok, checked before anything is done with the list
MayUseList == storageOk

\* The guards of smart_reminders, and smart_todo_due
ReminderDue ==
    /\ MayUseList
    /\ timeValid
    /\ retryAt <= clock
    /\ Due(todos, clock) # {}

\* run_due_actions ends without a reminder.
TurnEnds ==
    /\ pc = "tick"
    /\ Quiet
    /\ ~ReminderDue
    /\ pc' = "wait"
    /\ UNCHANGED <<chime, flashVars, clockVars, flagVars, queue, requestVars,
                   alertVars, ramVars, rung>>

-------------------------------------------------------------------------------
(* smart_reminders, from run_due_actions or from a callback of a request *)

Chime ==
    /\ pc \in {"tick"} \cup Waits
    /\ Quiet
    /\ ReminderDue
    /\ retryAt' = clock + 1
    /\ \E i \in Due(todos, clock) :
          chime' = [stage |-> "sound", title |-> todos.items[i].title,
                    id |-> todos.items[i].id, due |-> todos.items[i].due,
                    list |-> Reminded(todos, i, clock)]
    /\ UNCHANGED <<pc, flashVars, clockVars, flagVars, queue, requestVars,
                   alertVars, todos, storageOk, rung>>

\* The end of smart_reminders: the alert shows whatever happened.
ChimeEnds ==
    /\ chime' = NoChime
    /\ alert' = chime.id /\ alerted' = chime.title
    /\ pc' = IF pc = "tick" THEN "wait" ELSE pc

\* board_audio_reminder returns.
ChimeSounded ==
    /\ chime.stage = "sound"
    /\ chime' = [chime EXCEPT !.stage = "save"]
    /\ rung' = rung \cup {<<chime.title, chime.due>>}
    /\ UNCHANGED <<pc, flashVars, clockVars, flagVars, queue, requestVars,
                   alertVars, ramVars>>

\* The speaker fails: the due time is kept and tried again later.
ChimeSilent ==
    /\ chime.stage = "sound"
    /\ Fault
    /\ ChimeEnds
    /\ UNCHANGED <<nvs, clockVars, flagVars, queue, requestVars, ramVars, rung>>

ChimeSaved ==
    /\ chime.stage = "save"
    /\ nvs' = chime.list
    /\ todos' = chime.list
    /\ retryAt' = 0   \* in two seconds, which is less than a unit
    /\ ChimeEnds
    /\ UNCHANGED <<faults, storageOk, clockVars, flagVars, queue, requestVars,
                   rung>>

\* smart_todo_save fails, before or after the record is written.
ChimeNotSaved ==
    /\ chime.stage = "save"
    /\ Fault
    /\ nvs' \in {nvs, chime.list}
    /\ ChimeEnds
    /\ UNCHANGED <<clockVars, flagVars, queue, requestVars, ramVars, rung>>

-------------------------------------------------------------------------------
(* handle_voice *)

\* What a command that cannot go on leaves: handle_voice at "done".
Stop == pc' = "done" /\ UNCHANGED requestVars

TakeVoice ==
    /\ pc = "wait"
    /\ queue # <<>> /\ Head(queue) = "voice"
    /\ queue' = Tail(queue)
    /\ pc' = IF MayUseList /\ held /\ ~cancelled THEN "prepare" ELSE "done"
    /\ UNCHANGED <<chime, flashVars, clockVars, flagVars, requestVars, alertVars,
                   ramVars, rung>>

\* smart_todo_transcribe opens the microphone ...
Record ==
    /\ pc = "prepare"
    /\ Quiet
    /\ ~cancelled
    /\ pc' = "recording"
    /\ UNCHANGED <<chime, flashVars, clockVars, flagVars, queue, requestVars,
                   alertVars, ramVars, rung>>

\* ... until OK is released, the request is cancelled or time is up.
RecordEnds ==
    /\ pc = "recording"
    /\ pc' = "asr"
    /\ UNCHANGED <<chime, flashVars, clockVars, flagVars, queue, requestVars,
                   alertVars, ramVars, rung>>

\* The text is there, and smart_todo_interpret sends it with the list.
Transcribed ==
    /\ pc = "asr"
    /\ Quiet
    /\ timeValid
    /\ pc' = "chat"
    /\ seen' = [list |-> todos, at |-> clock]
    /\ UNCHANGED <<chime, flashVars, clockVars, flagVars, queue, change, alertVars,
                   ramVars, rung>>

\* Regression variant: the request is applied to the list that was sent.
BaseAsSent == seen.list

\* The list a request is applied to
Base == todos

\* The delay of a request counts from when it was sent; one that has passed
\* meanwhile becomes the shortest delay.
DueTime(delay) ==
    IF seen.at + delay > clock THEN seen.at + delay ELSE clock + 1

AddRequest ==
    /\ Len(Base.items) < Capacity
    /\ \E title \in Titles \ TitlesOf(Base), repeat \in Repeats \cup {0} :
       \E due \in {DueTime(d) : d \in Delays}
                    \cup {IF repeat = 0 THEN 0 ELSE clock + repeat} :
          change' = [ids |-> {}, list |-> Add(Base, title, due, repeat)]

\* The ids are those of the list that was sent, or any others; applied to the
\* list of now, they must change something.
ChangeRequest ==
    \E ids \in (SUBSET (1..Capacity)) \ {{}} :
    \E list \in {Complete(Base, ids), Delete(Base, ids)} :
        /\ list # Base
        /\ change' = [ids |-> ids, list |-> list]

\* A valid answer of the interpreter, applied to a copy of the list
Interpreted ==
    /\ pc = "chat"
    /\ Quiet
    /\ ~cancelled
    /\ AddRequest \/ ChangeRequest
    /\ pc' = "commit"
    /\ UNCHANGED <<chime, flashVars, clockVars, flagVars, queue, seen, alertVars,
                   ramVars, rung>>

\* A cancellation, a failed request, no clear task, or a list that is full
VoiceFails ==
    /\ pc \in Waits \cup {"recording"}
    /\ Quiet
    /\ Stop
    /\ UNCHANGED <<chime, flashVars, clockVars, flagVars, queue, alertVars,
                   ramVars, rung>>

\* The last look at the cancellation comes just before the save.
CancelledAtLast ==
    /\ pc = "commit"
    /\ cancelled
    /\ Stop
    /\ UNCHANGED <<chime, flashVars, clockVars, flagVars, queue, alertVars,
                   ramVars, rung>>

Commit ==
    /\ pc = "commit"
    /\ nvs' = change.list
    /\ todos' = change.list
    /\ Stop
    /\ UNCHANGED <<chime, faults, clockVars, flagVars, queue, alertVars,
                   storageOk, retryAt, rung>>

CommitFails ==
    /\ pc = "commit"
    /\ Fault
    /\ nvs' \in {nvs, change.list}
    /\ Stop
    /\ UNCHANGED <<chime, clockVars, flagVars, queue, alertVars, ramVars, rung>>

\* The two flags go one after the other ...
RequestOver ==
    /\ pc = "done"
    /\ pc' = "release"
    /\ pending' = FALSE
    /\ seen' = NotSeen
    /\ change' = NoChange
    /\ UNCHANGED <<chime, flashVars, clockVars, held, cancelled, queue, alertVars,
                   ramVars, rung>>

\* ... and a start that comes between them loses its held flag.
ReleaseHeld ==
    /\ pc = "release"
    /\ pc' = "tick"
    /\ held' = FALSE
    /\ UNCHANGED <<chime, flashVars, clockVars, pending, cancelled, queue,
                   requestVars, alertVars, ramVars, rung>>

-------------------------------------------------------------------------------
Turn == TakeOther \/ TakeAck \/ Timeout \/ TakeVoice \/ TurnEnds
Reminder ==
    Chime \/ ChimeSounded \/ ChimeSilent \/ ChimeSaved \/ ChimeNotSaved
Voice ==
    \/ Record
    \/ RecordEnds
    \/ Transcribed
    \/ Interpreted
    \/ VoiceFails
    \/ CancelledAtLast
    \/ Commit
    \/ CommitFails
    \/ RequestOver
    \/ ReleaseHeld

Next ==
    \/ Tick
    \/ TimeSync
    \/ Boot
    \/ PowerLoss
    \/ VoiceStart
    \/ VoiceStop
    \/ Cancel
    \/ Acknowledge
    \/ Turn
    \/ Reminder
    \/ Voice

Spec == Init /\ [][Next]_vars

\* The task never blocks for good: the queue wait, a recording and a request
\* all end after a time.  Time goes on, power comes back, and so does the
\* network, with the time.
Fairness ==
    /\ WF_vars(Tick)
    /\ SF_vars(TimeSync)
    /\ WF_vars(Boot)
    /\ WF_vars(Turn)
    /\ WF_vars(Reminder)
    /\ WF_vars(Voice)

FairSpec == Spec /\ Fairness

-------------------------------------------------------------------------------
(* Properties *)

Item == [id : Nat \ {0}, title : Titles, due : Nat, repeat : Nat, done : BOOLEAN]
List == [items : Seq(Item), next : Nat \ {0}]

\* smart_todo_valid, which refuses to encode, decode or change any other list
ValidList(list) ==
    /\ Len(list.items) <= Capacity
    /\ \A i \in DOMAIN list.items :
          LET item == list.items[i] IN
          /\ item.id < list.next
          /\ item.done => item.due = 0
          /\ item.due = 0 => item.repeat = 0
          /\ \A j \in 1..(i - 1) : list.items[j].id # item.id

\* The state has its types, and every list the program holds, stores or is
\* about to store is one that smart_todo_valid accepts: a list that is not
\* would be refused for good, by every save and at the next boot.
TypeOK ==
    /\ pc \in {"off", "wait", "tick", "release"} \cup VoiceSteps
    /\ chime.stage \in {"none", "sound", "save"}
    /\ \A list \in {todos, nvs, chime.list, seen.list, change.list} :
          list \in List /\ ValidList(list)
    /\ {held, pending, cancelled, storageOk, timeValid} \subseteq BOOLEAN
    /\ {clock, retryAt, alert, faults} \subseteq Nat
    /\ queue \in Seq(Commands) /\ Len(queue) <= QueueDepth

\* At most one voice request is queued or being worked on, whatever starts,
\* cancellations and full queues come together: two would record over each
\* other's audio partition and apply one answer to the other's list.
OneRequest ==
    /\ \A i, j \in DOMAIN queue : queue[i] = "voice" /\ queue[j] = "voice" => i = j
    /\ \A i \in DOMAIN queue : queue[i] = "voice" => pending /\ pc \notin VoiceSteps

\* Two lists have the same items, done or not, under the same numbers.
SameNumbers(list, other) ==
    /\ DOMAIN list.items = DOMAIN other.items
    /\ \A i \in DOMAIN list.items :
          /\ list.items[i].id = other.items[i].id
          /\ list.items[i].title = other.items[i].title
          /\ list.items[i].done = other.items[i].done

\* While the interpreter works on the items it was sent, reminders that sound
\* meanwhile leave every number with the item it was sent for, so that the ids
\* of the answer name what the user asked for.
NumbersStandStill ==
    pc \in {"chat", "commit"} => SameNumbers(todos, seen.list)

\* The titles that the request under way names
Named == {seen.list.items[i].title :
             i \in {j \in DOMAIN seen.list.items : seen.list.items[j].id \in change.ids}}

\* A reminder that is stored, and that the program knows unless it could not
\* read its storage, leaves the storage only after it has sounded, or because
\* a request named its item.  Power cuts, failed saves, an unreadable list and
\* a reminder that sounds during a request lose none.
RemindersDurable ==
    [][\A reminder \in Reminders(nvs) :
          reminder \in Reminders(todos) \/ ~storageOk =>
              \/ reminder \in Reminders(nvs')
              \/ reminder \in rung
              \/ pc \in VoiceSteps /\ reminder[1] \in Named]_vars

\* Without a fault no reminder sounds twice, however a request that is being
\* applied and the reminders that sound during it overlap.  (With one it may:
\* the sound comes before the save.)
SoundsOnce ==
    [][chime.stage = "sound" /\ chime'.stage = "save" /\ faults = 0
          => <<chime.title, chime.due>> \notin rung]_vars

\* An item without its number, and the items of a list
Entry(item) ==
    [title |-> item.title, due |-> item.due, repeat |-> item.repeat,
     done |-> item.done]
Entries(list) == {Entry(list.items[i]) : i \in DOMAIN list.items}

\* The list the program acts on; while it has not read the record, that one.
Promised == Entries(IF storageOk THEN todos ELSE nvs)
Asking == pc \in VoiceSteps \ {"done"}

Store == INSTANCE TodoStore WITH
    promised <- Promised, stored <- Entries(nvs), asking <- Asking,
    heard <- rung, now <- clock

\* The list in RAM with its record, the voice request and the reminders that
\* sound in its callbacks implement the promise of TodoStore: each change is
\* made to the list of its moment, so that none undoes another, a request makes
\* one at most, and an item keeps its schedule whatever fails and wherever the
\* power goes.
StoreImplemented == Store!StoreSpec

\* A reminder that is stored and known sounds before time ends, unless its item
\* is changed by a request, or a boot that could not read the list goes on with
\* an empty one; voice requests cannot keep it from sounding.
ReminderSounds ==
    \A title \in Titles, due \in 1..MaxClock :
        (<<title, due>> \in Reminders(nvs) \cap Reminders(todos))
            ~> \/ <<title, due>> \in rung
               \/ <<title, due>> \notin Reminders(nvs)
               \/ Running /\ ~storageOk

\* The row shown as alerting is the item whose reminder sounded.
AlertNamesReminded ==
    \A i \in DOMAIN todos.items :
        todos.items[i].id = alert => todos.items[i].title = alerted

=============================================================================
