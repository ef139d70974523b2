# TLA+ verification of the Vibe Usage firmware

This directory models the program logic of the Vibe Usage firmware (an ESP32
display for token usage, with a smart TODO list) in TLA+, checks it with TLC on
small instances and proves part of it with TLAPS for all parameters. The C, C++
and Python sources are the reference; paths below are relative to the
repository root. `PROJECT.json` lists components, runs, mutants, the map from
definitions to source lines, the findings, the hazards and the theorems.

## 1. Inventory

| Component | State | Operations | Interacts with | What must hold |
|---|---|---|---|---|
| Usage client, `components/vibe_usage` (`vibe_client.c`, `vibe_store.c`) | account record (credential, generation), cache header and `persisted` flag in RAM; `auth_v1`, `cache_a`, `cache_b`, `retry_v1`, `reset_v1` in NVS; `cancel_generation` | init, poll for a credential, link, unlink, fetch today, begin and run a reconciliation, save, load, cancel, reset | called by the controller task only; cancelled by any task | days of two accounts never mix; days that are called persisted survive a power cut |
| Usage cache, `vibe_cache.c` | eight day slots, reconcile anchor and pending mask, last reconcile time | find, replace, build a snapshot, encode and decode | client | one slot per date, no day of the window evicted |
| App controller, `components/app_controller` | deadlines (link poll, refresh, round, retry), device code, flags, published view, command queue | intents, Wi-Fi events, due actions, shutdown | everything; UI, event and timer tasks post to its queue | a linked device keeps refreshing; the view agrees with the client; a link screen ends |
| Factory reset, across `vibe_store.c`, `app_controller.c`, `app_main.c` | the journal `vibe_meta/reset_v1` | begin, erase, complete, resume at boot | all stores | all or nothing, and it ends |
| Device configuration, `components/device_config` | settings record, language, volume | load or create, save | boot, controller | the configuration revision stays in step with the timezone |
| Parser, aggregate, JSON safety | none | parse one response | client | a pure function |
| HTTP and its policies | last error, status, retry-after | one blocking request | client | cancellation is seen; retry windows are respected |
| Dates and usage state | none | civil dates, display state | client, cache | arithmetic over days and zones |
| Smart TODO list and store, `components/smart_todo` | list (ids, due times, revision), one NVS blob | apply, due, reminded, encode, save | controller | ids unique; an action applies to the list it was computed from |
| Voice client, `smart_todo_llm.c` | recording and request in progress, voice flags | transcribe, interpret | controller, button task, audio | a cancelled request changes nothing; reminders keep running |
| LLM portal | settings record, HTTP server | serve the form, save, clear | controller | pure form handling |
| Wi-Fi: `wifi_adapter`, `esp_wifi_connect` | station or portal mode, its timer, reconnect counters, the saved networks in `wifi` | start and stop either mode, scan, try, rest, save networks | event task, timer task, the exit page's task, controller | one mode at a time; online and screen agree with the radio; name and password stay paired |
| Zectrix Note: UI task, `epd_refresh_policy.c`, `zectrix_epd.cc` | page, confirmation, last frame and whether it is trusted, panel rail and shadow | look, draw, press, refresh in full or in part, shut down | controller's view and queue, panel | what the task believes is on the glass; no confirmation given blind; newest view shown |
| AI Passport: boot order, LVGL screens | screen objects | boot, render | controller's view | the boot order around the reset journal |
| Board services, fonts and messages | driver state | beep, NFC | controller | I/O |
| Codex gateway, `services/codex_gateway` | busy flag, handler, its work, its client's child process, workspace and event queue | turns, transcriptions, shutdown | devices over HTTP; a child process | one request at a time; nothing left behind; no partial transcript |

One RTOS task, `vibe_controller`, runs all of the client and the stores. Other
tasks (UI, Wi-Fi events, timers) set atomics (`cancel_generation`, voice flags)
and post to its queue. For that task concurrency means: a cancellation, an
event or the clock moving *during a blocking call*, commands handled late or
dropped, and a power cut between any two flash operations. The radio is
different: four threads (controller, the task of the portal's exit page, the
event task, the timer task) call `WifiManager`, whose mutex is given up before
every notification. The e-paper task is alone with its panel but slow: the
world moves on for seconds while it draws, and every call may fail. The gateway
is a set of asyncio tasks that cancel each other.

The hard behaviours are these: account change against leftovers in flash;
two-slot persistence with torn writes; midnight during a request; deadlines
that every link code clears; retries against rounds in progress; reminders
inside voice requests; radio mode changes against late events; a panel whose
content is not what was asked for; clean-up that is itself cancelled; the reset
and its resumption. The full list, with lines, is under `hazards`.

## 2. Modules

| Module | Models | Role |
|---|---|---|
| `AccountSession` | what the device promises about accounts | abstract specification |
| `UsageClient`, `MCUsageClient` | account and cache life cycle over NVS | implements `AccountSession` |
| `UsageClientProofs` | types, isolation, snapshots, failed saves, refinement | TLAPS |
| `DayWindow`, `MCDayWindow` | day slots, fetches, rounds over midnights | |
| `DayWindowProofs` | one slot per day, window kept, rounds complete | TLAPS |
| `Controller` | the command loop: intents, events, deadlines, requests | |
| `ControllerProofs` | types, schedule kept, figures hidden | TLAPS |
| `TodoStore` | what the device promises about TODO items and reminders | abstract specification |
| `TodoList`, `MCTodoList` | the TODO list, its record, voice requests, reminders | implements `TodoStore` |
| `TodoListProofs` | the list operations; lists valid, one request, numbers stand still, reminders kept and sounded once; refinement | TLAPS |
| `ResetPromise` | what the device promises about a factory reset | abstract specification |
| `FactoryReset`, `MCFactoryReset` | journalled reset across boots; finite, explored in full | implements `ResetPromise` |
| `FactoryResetProofs` | journalled while torn, removed when empty, no boot in between, refinement | TLAPS |
| `RadioPromise` | what the device promises about its radio | abstract specification |
| `WifiLink` | station, setup portal, exit page, timer, shutdown barrier | implements `RadioPromise` |
| `WifiLinkProofs` | one mode, portal bounded, online and screen agree, quiet after the stop, refinement; the two properties of `WifiCredentials` | TLAPS |
| `WifiCredentials`, `MCWifiCredentials` | the saved networks, key by key | |
| `Note4Screen` | the Zectrix Note's UI task and e-paper panel | |
| `Note4ScreenProofs` | types, glass known, partial refreshes bounded, no blind dispatch | TLAPS |
| `Gateway` | the Codex gateway's request, work, clean-up and transcript | |
| `GatewayProofs` | nothing left behind, transcripts complete | TLAPS |

The controller appears in five modules, each with the part of the world its
properties need, the rest reduced to what that part can observe of it:
`Controller` has the schedule and knows of the client only whether it holds an
account, a cached day and how much of a round; `DayWindow` and `UsageClient`
have the content; `WifiLink` has the radio and the shutdown with a queue that
drops commands (`Controller`'s environment waits for room instead); `TodoList`
has voice and reminders; `FactoryReset` the erasures.

### UsageClient

State: `pc` is the place of the controller task inside a client operation
(`idle`, `polling`, `linked`, `fetching`, `saving`, `unlinked`, `off`); `auth`,
`cache`, `persisted` and `active` are the fields of `g_vibe`; `nvsAuth`, `slot`
and `nvsSettings` are the NVS records; `settings` is the controller's RAM copy.
A snapshot is its header (sequence, generation, configuration) with the set of
accounts whose days it holds (`owners`, a history of the content), a version
number that tells two contents of its days apart, and its `notes`: the anchor
and pending days of a round and the times of the fetches.

Not every change of the notes is marked for saving: `vibe_reconcile` starts a
round over in RAM before the request that may fail (vibe_client.c:682-686), and
a day that comes back unchanged gets a new time (vibe_cache.c:279). `persisted`
then stays true (`Renoted`), so `RebootRestoresPersisted` promises the days, their
header and the sequence, not the notes. docs/architecture.md:110-112 counts the
progress of a round as part of the snapshot; the flag does not cover it.

An action is an operation or the part of it between two points where the rest
of the world can intervene. `vibe_poll_device_code` is `StartPoll` and then
`LinkStored`, `LinkNotStored`, `PollWithoutKey` or `PollKeyDiscarded`, and
`ClearAfterLink` after a stored credential; `fetch_day` with its commit is
`StartFetch`, then `FetchRejected` or `CommitDay`, then `SaveVerified` or
`SaveFailed`; `vibe_unlink` is `Unlink` and `ClearAfterUnlink`. `InitClient` is
`vibe_init`, used by `Boot` and by the timezone toggle, which runs it again on
a live device. A failing flash write may leave the old or the new record (a
cache slot also an undecodable one).

`AccountSession` keeps only the account that the flash remembers, the account
the firmware acts for, and the accounts whose days are held. The refinement
maps `shown` to the empty set between `LinkStored` and `ClearAfterLink`: during
that window the controller task is inside one call and nothing reads the cache.

### DayWindow

Time is counted in half days (before and after the 03:xx reconciliation minute).
A date is a number, a day slot is its date and the date on which it was fetched.
A fetch remembers the date it asks for and the "today" it started on (locals of
`fetch_day`); everything decided at its end reads the clock again. The
controller contributes the conditions of `run_due_actions`,
`daily_reconciliation_due`, `fetch_today` and `reconcile_one`. A save always
succeeds here (`UsageClient` covers failing ones), but not every change is
saved: `saved` is what a boot finds, and a round that started over in RAM alone,
or the time of a day that came back unchanged, is lost with a reboot. Network
failures, reboots, account changes and user actions are drawn from one budget
(`MaxUpsets`). `reconcileActive` and `retryPending` stand for the controller's
timers.

### FactoryReset

A reset is a list of flash operations in the order of the code: journal, own
records, TODO, LLM, Wi-Fi, completion at run time; at boot first `app_main`'s
half (before the settings are loaded), then the whole list again in
`app_controller_init`. Each operation can fail with or without effect. A failed
reset at run time leaves the device running and storing data again, but the
client uninitialised until a timezone change or a boot.

`ResetPromise` has no lists: there is data, a reset that is owed, and a device
that works or not. A reset that is owed ends only with no data left, data goes
only while a reset is owed, and while it is owed no boot goes on to the device's
work. Owed is the journal; the device works in the stages `running` and `reset`
(from the button on, the device has loaded its data and works on its reset).

### TodoList

`pc` is the place of the controller task: `wait` for a command, `tick` in
`run_due_actions`, or the step of `handle_voice` it is at (`prepare`,
`recording`, `asr`, `chat`, `commit`, `done`, and `release` between the two
flags it clears). `chime` is a call of `smart_reminders` in progress. The
controller calls it in `tick`; the callback `voice_cancelled` calls it in
`prepare`, `asr` and `chat`, but not while the microphone is open. While it
runs, the task does nothing else, so the other controller steps are guarded by
`Quiet`; other tasks start, release, cancel and acknowledge meanwhile, and time
goes on. The candidate list is computed before the sound and saved after it.

A list is the items in order with the next id, as in `smart_todo_list_t`; a
title is a value that no other item of the list has. A unit of time is the 60 s
after which a failed reminder is tried again; the 2 s after a successful one
are less than a unit. An answer of the interpreter is any valid request: an
item with a delay, a repetition, both or neither, or any set of ids to complete
or delete. `Delete` gives the result of the compacting loop of
`smart_todo_apply`: the n-th item that stays was read from place
`Read(kept, n)`. A delay counts from when the list was sent (`DueTime`). A failed
save leaves the old or the new record. The model takes from the heap what it
wants: a reminder whose candidate cannot be allocated is only tried later.

`TodoStore` knows no numbers, records, tasks or callbacks: there are the items the
device acts on, the items its flash holds, and changes made one at a time, each to
the items of that moment. A request makes one change at most (an item entered,
some completed, some deleted), a reminder that was heard ends or moves on along
its own schedule, a change that could not be stored is not made, though flash may
hold it until the next change or start. The mapping drops the numbers (`Entries`)
and, until the record has been read, takes it for the list the device acts on;
a request is under way from `prepare` to `commit`.

`held` is what `voice_held` returns (the flag, and the button). `rung`,
`alerted` and `faults` are histories that no action reads, but for the bound on
faults.

### Controller

`pc` is `wait` (the queue receive), `due` (`run_due_actions`), or the request in
flight: `code`, `poll`, `today`, `day`. One action handles a command, with all
the handler changes; one action is a branch of `run_due_actions`, its guard the
negation of the branches before it (`PollDue`, `ManualDue`, `RoundWanted`,
`RoundDue`, `RefreshDue`, `RetryDue`); a request ends with one of its answers.
The four `next_*` deadlines are off, running (`wait`) or `due`; when they become
due is the environment's choice, so every relation of their lengths is covered.
`ClearLink` is `clear_public_link`, which forgets every deadline; what its
caller arms again is its argument. A cancellation reaches the request in flight
only, and a cancelled answer is never used. `window` is the server's retry
window after a 429.

### WifiLink

A call of `wifi_adapter.cc` is a program, a sequence of critical sections of
`WifiManager` and of notifications, each executed as one step by the task that
made the call (`prog`); the steps of two tasks interleave. `station` follows
`WifiStation`: starting, scanning, trying a network, up, resting until its timer.
`tries` and `others` are `reconnect_count_` and the rest of `connect_queue_`.
A notification is a command if the queue has room and otherwise is dropped
(`lost`, a history). `late` records the exit page's report arriving after the
controller opened another portal. `shutting` and `ready` are
`prepare_shutdown`'s request and its answer.

`RadioPromise` keeps the set of open modes and the two flags of the shutdown: a
mode opens only while none is open and no stop has begun, and the stop is
reported only when none is open. It says more than `OneMode` and
`QuietAfterReady` (which follows from it and is a theorem of its own): from the
moment the shutdown is handled, before anything is reported, nothing opens.

### WifiCredentials

`list` is the list in RAM, `flash` the keys `ssid`*n* and `password`*n*, `next`
the key that the save under way writes next. A save may stop at a failing write
or erasure, which restores `list` from `previous` but not `flash`; a power cut
loads `flash` anew, skipping places that lack a key as `LoadFromNvs` does (the
n-th network loaded comes from place `Source(found, n)`). The initial states are
all lists that a complete save can have left.

### Note4Screen

`Look` is one pass of the UI task's loop: it takes the view, turns the page to a
new alert, draws and refreshes; a button, `CleanScreen` and the two frames of
the shutdown refresh too. A refresh is a set of results: the panel calls in order, each
succeeding or failing, leave the driver's view of the rail (`powered`: it takes
the rail for cut even when the pin refused), its shadow, the glass and the
application's copy (`previous`, `Unknown` when not valid). A button (`Browse`,
`AskToConfirm`, `Toggle`, `Confirmed`, ...) is judged by `page`, not by the
glass, as in the code. `wear` counts partial refreshes since a full one, also
those the code did not count.

### Gateway

For each connection: `handler` (where it is), `work` (its operation task),
`close` (the client's close task), `child` and `space` (the process and its
directory), and the events its reader queued. The client that leaves, the
watcher, the time limits and the shutdown cancel in actions of their own;
what a cancellation does depends on the await it meets (`Heed`, `Cancelled`),
and while the shielded close task runs its waiter only remembers it.
The collector (`heard`) has some final text or none, a number of parts whose
text is pending, and an error or none. A final text ends the part it matches,
the first one pending (`"done"`), or all that is pending (`"whole"`), and is an
error if it does not fit (`"revision"`); a blank final text is of the last two
kinds, and the limits on lengths and on the number of parts end in the same
error. `said` keeps an account of its own, which the collector does not touch:
how many parts the child has begun, and how many have their end.

At the end of a call `LetDrain` is `sleep(0)` and the cancellation of the
consumer, `Consume` still takes what is queued, and `Transcribed` follows when
the queue is empty. With Python 3.12 the consumer takes all of it in the pass
that `sleep(0)` gives it. With 3.11 `wait_for` runs the queue's `get` as a task
and needs more passes for an event; but one that is cancelled when that task has
its event returns the event, and the consumer, of which the cancellation is then
forgotten, goes on to the next, until the queue is empty and it is over. Events
that come in that time are taken or dropped with the queue (`ChildSaysLate`, or
nothing).

## 3. Runs

| Run | Bounds | Shows |
|---|---|---|
| `usage_client` | 2 accounts, 4 generations, 2 configurations, 3 sequences, 3 changed days, any 2 of all write and erase failures | account isolation, persisted days survive a boot, a first failed save costs nothing, refinement of `AccountSession` |
| `day_window` | window 3 and slots 4 (7 and 8 in the code), 5 half days, 1 step back, 2 upsets | no duplicate date, no eviction from the window, finished rounds confirm their window, the window fills and rests |
| `factory_reset` | none: finite and explored in full | journalled until complete, nothing survives, no boot on remains, refinement of `ResetPromise`, completes |
| `todo_list` | 2 titles (symmetric), 2 items, queue of 1, clock of 3 units, 2 faults | valid lists, one request, numbers stand still, no stored reminder lost, none sounds twice without a fault, refinement of `TodoStore` |
| `todo_rings` | 1 item, clock of 4 units, 2 faults | a stored reminder sounds |
| `controller` | rounds of 1 request, queue of 1, seven intents; explored in full | the schedule is kept, lost accounts are hidden |
| `controller_live` | rounds of 2 requests, queue of 1, four intents | today's usage is refreshed again and again, a link code ends |
| `controller_401` | rounds of 1 request, one intent | violation: see findings |
| `wifi` | 1 reconnect, 2 saved networks, queue of 2 | one mode, bounded portal, agreement of online and screen with the radio, refinement of `RadioPromise`, connects |
| `credentials` | 4 names, 2 passwords (symmetric), 3 places | what a restart finds, and the most a torn save costs |
| `screen` | 1 partial refresh between full ones, 2 views, 2 alerts | glass known, refreshes bounded, no blind dispatch, alerts and newest view shown |
| `gateway` | 2 connections, 2 queued events, 3 parts of speech in a call | nothing left behind, transcripts complete, free again |

Why the bounds suffice. Four generations let both accounts be linked with an
unlink between, so leftovers of the first meet the second; three sequences
write both slots and one of them twice; two failures cover a failure and a
failure while recovering from it. The windows of three days have a first, an
inner and a last day, and the ratio that matters (one slot more than the
window) is that of the code; the clock crosses two midnights, so a round can
start before one and be restarted by the next. Two items are the least that a
deletion can renumber; two faults let a power cut be followed by a boot that
cannot read the list, and a failed save by a power cut. No fault happens in the
last unit of time, so that a retry still comes before the clock stops.

The controller's safety run has every intent but the two of the setup portal,
which change no deadline; they are in the live run, whose rounds of two requests
have a first and a last day. A queue of one already lets an event wait behind a
request and behind a handler; more only delays. The two runs together take every
branch. The station's reconnect limit of one separates a retry from giving up,
two saved networks have a next one and a last one, and a queue of two can hold
an outdated event before a new one; the safety properties were also checked with
a queue of three. Three places and four names let an insertion shift the whole
list and drop its last network. One partial refresh between full ones makes the
policy change its mind at once; two give the same results. Two connections are
what an admission can confuse, two events what a late one can follow; with three
parts one can have its end, one be pending and one begin late.

Deadlock is checked in every run but `screen`, where the device switches itself
off, and `gateway`, where the server ends.

Each property of a passing run has a mutant: a definition changed the way a
plausible bug would change it (a generation reused, the oldest slot always
taken, the journal written last, a back-off that does not arm its deadline, a
round preferred during a back-off, a station opened beside the portal, a failed
refresh still trusted, a reminder recognised by its id alone, a final text that
clears later parts, ...), under which TLC finds the property violated. The
mutated forms are the definitions marked "Regression variant" or placed directly
above the definition they replace.

### Findings

`controller_401`: docs/architecture.md:130 says that a 401 hides the data held
in RAM. When it answers a day of a round, the client drops the account but
`reconcile_one` treats it as any failure, and the screens go on showing the
figures and a linked account. The retry that follows finds no account and asks
for a link code (`start_device_link`, app_controller.c:1306): that puts the link
page in front, but clears neither `view.has_auth` nor `view.has_today`.

### Other known behaviour

These statements do not hold of the code; where a property is named, checking it
reproduces the behaviour. Five of them restate what the repository says, and name the
place; the others are promised nowhere.

- An account that was dropped stays dropped (`UsageClient.DroppedAccountStaysDropped`;
  the comment at vibe_client.c:752 says the old account is no longer used or
  displayed even if NVS is unhealthy):
  an unlink whose tombstone cannot be written, then a timezone change, brings it
  back. One account, one `"authWrite"` failure.
- `UsageClient.AccountIsolation` with `"authRead"` among `FaultKinds`: a boot
  that cannot read the credential restarts the generation count, on which the
  separation of the cache slots rests.
- The save goes to the older slot (`UsageClient.SaveTargetsOlderSlot`;
  docs/VIBE_USAGE_HARDWARE_FIRMWARE_PLAN.zh_CN.md:478): after one
  failed `"cacheWrite"` the parity rule overwrites the newest snapshot.
- A round counts for the day whose window it fetched
  (`DayWindow.CompletionMatchesWindow`; line 443 of the same plan says that the
  round of an old window must not be taken for complete): one that ends after
  midnight is stamped with the new day (no upset needed).
- A failure keeps the progress of a round (`DayWindow.FailureKeepsProgress`;
  line 443, too): the retry starts it over (one upset).
- No day of the window is evicted (`DayWindow.NoWindowDayEvicted`) with
  `MaxClockBack` 3: days of a future that was taken back fill the slots, once the
  clock has been set back by more than one day in all (start at half day 13).
- An alert on display keeps naming its item (`TodoList.AlertNamesReminded`): a
  deletion renumbers the list below it (two items, no fault).
- `Controller.ScheduleKept` names four steps that leave a linked device with no
  deadline: a timezone change that is not saved; one saved while the clock is
  not set; and a code that expires or is refused after it was asked for over a
  linked account. A button, a new address or a restart helps.
- A persisted snapshot includes the progress of its round
  (docs/architecture.md:110-112): a round that started over on a new day is in RAM
  alone until its first day is saved (`Renoted` in `UsageClient`, `saved` in
  `DayWindow`). A reboot starts it over again, which costs requests only:
  `RoundConfirmsWindow` and `WindowSettles` hold with it.
- `Controller.DataHiddenOnLoss` names two steps that leave the figures of a lost
  account: a day of a round answered 401, and a factory reset that stops half-way.
- `Controller.CalmRefreshes` assumes no remembered request for a code
  (`codeRetry`): a refresh pressed on the link screen is remembered over the
  account that is then linked, and as long as code requests fail they take the
  place of the usage requests.
- `Gateway.TranscriptComplete` excepts a reader that ends during the hang-up:
  what is then still queued is not looked at (remove `\/ fatal[r]`).
- `WifiLink`: the properties that compare the controller with the radio hold up
  to the first dropped event (`lost`) or late report of the exit page (`late`).

## 4. Fairness

`DayWindow`: the controller loop polls its queue every 250 ms and never stops,
requests end by timeout at the latest, and only finitely many fail (the upset
budget). Ends of requests and refreshes have weak fairness. `DailyReconcile`,
`ReconcileStart` and `ReconcileIdle` have strong fairness because
`run_due_actions` tests the round before the periodic refresh: a refresh that
disables a due round for its own duration cannot keep it out for ever. Nothing
is assumed of the clock, the user or the failures.

`FactoryReset`: boot and reset code does not stall (weak fairness).
`ResetCompletes` itself names what else it needs: from some time on nothing
fails, power is cut only outside the work, and the device is switched off and
on again and again.

`TodoList`: the task's queue wait, a recording (8 s) and the requests (125 s
and 45 s) end after a time, so turns, reminders and the steps of a request have
weak fairness. Time goes on, power comes back. `TimeSync` has strong fairness:
it is possible only in a turn of the loop, and it stands for a network that
comes back again and again. The user is not fair to anything: voice requests may
follow each other for ever, and `ReminderSounds` holds since every command is
followed by a turn of `run_due_actions`.

`Controller`: the task is never starved and requests have timeouts, so handlers,
idle turns and answers have weak fairness; so do the deadlines, the code's life
and the retry window, which are clocks. `Work`, the usage work of
`run_due_actions`, has strong fairness: a turn may be skipped by a reminder due
within 40 s, but not every turn (two repeating reminders 30 s apart would do
that, see `hazards`). The setup portal, which also stops this work, is assumed
closed in the properties (`~llmOpen`). Nothing is assumed of the user, the
server's answers or the network.

`WifiLink`: tasks run on and the driver answers (weak fairness of each). A
network in range takes one of infinitely many attempts (strong fairness of
`ScanDone` and `GetsAddress`): the radio is not required to succeed the first
time, only not to fail for ever.

`Note4Screen`: the loop runs on, looks are not starved by presses (the wait for
a button has a time limit), and the panel takes one of infinitely many frames
(strong fairness of a look that succeeds).

`Gateway`: the event loop runs every task that is ready, turns and recordings
have time limits, a killed child is reaped. `HangUp` and `Close` rest on the time
limits of the SIGTERM and SIGKILL waits.

`UsageClient`, `AccountSession` and `WifiCredentials` state safety only.

## 5. Proofs

Every invariant, every action property and every refinement that a run checks is
also a theorem, for all values of the constants; what remains to TLC alone is at
the end of this section. Each inductive invariant was checked on its run before
it was proved. Type invariants are proved and take no place in a run, but for
that of `TodoList`, which says that its lists are valid.

`UsageClientProofs`. `AccountInv` is the inductive argument for isolation:
no slot is newer than the account the flash names, a slot of exactly that
generation holds that account's days only, no slot is newer than the running
account, and while an account is in use the flash names it or a credential one
generation ahead whose write was reported as failed. `AccountIsolation` alone
is not inductive: it says nothing of the slots a later load will read. It is
proved for any set of accounts and any bounds under the assumption that reads
of the credential never fail (`"authRead" \notin FaultKinds`), which is needed
(section 3). `SnapshotInv` (with `AccountInv`)
strengthens `RebootRestoresPersisted`: each slot holds sequences of its own
parity, the running snapshot is ahead of every slot it competes with, and a
persisted one has its days in its slot (`SameDays`). `SpareSlot` adds, for
`FirstFailedSaveKeepsSnapshot`, that until something fails the slot a save is
about to write is not the one a boot would load; it rests on `PersistedIsNewest`
(what is persisted is what is loaded) and on consecutive sequences taking
different slots. `SessionImplemented` maps each action to one of
`AccountSession` or to a stutter.

`DayWindowProofs`. `WindowInv` adds to `DatesUnique` that the clock cannot reach
the dates below the first window, that slots fill from the front (so the scan of
`choose_slot` meets a date's own slot before a free one), and that a request has
a date of its window. The choice of the first suitable slot rests on
well-foundedness of the naturals. `NotAhead` bounds what a clock that was set
back leaves in the slots: no date beyond the latest clock, and none more than a
day beyond the day a request started on. With it a counting argument (`Crowded`:
window and slots differ by one, so all slots taken means one date is outside the
window) gives `NoWindowDayEvicted`. `RoundInv` says that the days no longer
pending were fetched since the anchor, for the round in RAM (`LiveRound`) and
for the one a reboot returns to (`SavedRound`), whose slots have the same dates
(`SavedDates`); this gives `RoundConfirmsWindow`. Both assume `MaxClockBack <=
2`, one day in all: the code sets no such bound, and with one half day more TLC
finds an eviction (section 3).

`TodoListProofs`. First the operators: adding, completing, deleting and
reminding lead from valid lists to valid lists and to the reminders they should
(`AddGood`, `CompleteGood`, `DeleteGood`, `RemindedGood`, ...). That the deletion
loop is a renumbering in order needs no induction: counting the items that stay
up to each of them is an injection into as many numbers, hence onto
(`ReadPlace`). `ListInv` then says of every list in RAM, on flash or in a local
of the controller that it is valid. `RequestInv` adds to `OneRequest` that the
pending flag stays set while a request is worked on: without it a start in that
time would be accepted. `NumbersInv` adds to `NumbersStandStill` that the
candidate of a reminder in progress has the numbers of the list it will replace,
and that no reminder is in progress where a request is committed. `Pending`
strengthens `RemindersDurable`, which speaks of one save only: what that save
takes away was settled earlier, when its list was computed, so the invariant
relates the list in RAM to the candidate of a reminder and to the answer of a
request, and says that both come from storage that was read. `Sounded`, for
`SoundsOnce`, says that as long as nothing failed RAM and flash agree and what has
sounded is in no list and has no time to come. `TodoStoreImplemented` needs one
more invariant, `StoreInv`: the candidate that a reminder or a request is about to
save is one change away from the items the device acts on *now*, not from those
it had when the candidate was computed. For a reminder this rests on nothing else
changing the list while it sounds (`Quiet`), for a request on its change being
applied after the last callback. All hold for every capacity, queue depth, clock
and number of faults.

Three theorems are about the operations alone. `DueServesTheEarliest`: whenever a
time has come exactly one item is served, one that has waited longest.
`NextDueIsFirstToCome`: a repeating reminder goes on to the first time of its own
schedule after now, however late it was served. `DeletionKeepsOrder`: the places
of the new list are mapped one to one and in order onto those of the items that
stay, and are numbered from 1.

`ControllerProofs`. The invariant `IInv` is the types and two facts. `DayLeft`: a
day of a round is only asked for while one is left, without which taking it off
leaves the naturals. `LinkedReady`: a client that could not be initialised again
holds no account, without which an unlink, which such a client ignores, would
clear the deadlines of an account that stays. Each part of the state has its
lemma (`FlagsTyped`, `QueueTyped`, `TimerTyped`, ...) over all actions;
`ScheduledKept` and `HiddenOnLoss` are the two action properties, one step per
action, for every length of a round, queue depth and set of intents.

`FactoryResetProofs`. `Due` says that what is left of a list of operations is its
end, `Achieved` that every operation before it has had its effect and still has:
nothing else writes while a list runs, and one that is broken off starts over.
`TornIsJournalled` is then inductive with them; that the journal goes only when
all is erased, and that no boot runs on remains, follow by looking at the last
operation of each list. `ResetPromiseImplemented` needs that a list which a boot
takes up has its journal on flash from the start (`Resumed`), so that every
erasure is one of a reset that is owed, and that the operation which removes the
journal is the last of the two lists that have it (`LastOperation`).
`FactoryReset` is finite and TLC explores it in full; the proof shows why the
order of the lists is enough.

`WifiLinkProofs`. Each call of the adapter, and each rest of one, is given a name,
and the invariant says for each what is true of the radio while it is under way.
`Calls`: the programs the two tasks can be in; the exit page's task only ever
closes the portal. `Radio`: what a call found out before it gave the mutex up
is still so when it goes on, without which `OneMode` is not kept by the step that
opens. `Stopped`: once the stop is under way no other call is, and after it the
radio is off. `Window`, `Online` and `Screen` extend `PortalBounded`,
`OnlineAgrees` and `ScreenTruthful` from the moments when every event has been
handled to all others, by what the queue will make of the controller's fields:
the last event of the kinds that decide them, or if there is none the field
itself. `RadioPromiseImplemented` needs no more than `Radio` and `Stopped`: the
calls that open a mode are at a place where both are closed, and none of them is
a call that is possible once the stop has begun. All hold for every number of
attempts and networks and every queue.
The last part is about `WifiCredentials`, which the module extends as well (the
two share no name): `Rewritten` (the places before the one being written hold the
new list),
`Accounted` (every place but one holds a pair that was saved or meant to be) and
`Unlost` (no change moves a network back by more than one place, and the old
list is still at or behind its place) give `TornSaveLimits`;
`RestartKeepsNetworks` follows when the last key is written (`CredentialsTornSave`,
`CredentialsKept`), for any number of places, names and passwords.

`Note4ScreenProofs`. The invariant has four parts: between two frames the driver
takes the panel for off; a trusted copy is what glass and shadow hold; the
partial refreshes since the last full one are no more than the code has counted;
and a confirmation page in memory, unless the last frame failed, is the one on
the glass with its mark. Every refresh is a composition of panel calls, so the
lemmas go call by call. `ScreenTypes` adds that glass, driver and copy only ever
hold frames that were drawn, or `Unknown`. All hold for every bound on partial
refreshes.

`GatewayProofs`. Besides the types the invariant says that at most one handler
is past its admission and has not given the gateway back (`OneHandler`), and
that child and workspace exist only while the stages of work and close task say
so (`InOrder`); `NothingLeftBehind` follows, for any number of connections.
`NothingMissed` is for `TranscriptComplete`, which is about the end of a call
only: all along, until the reader ends, the account of the speech is what the
collector has heard (`Heeds`: as many parts pending as are begun and not ended,
a text if some has its end) continued by the events that are still queued
(`Missing`).

Model-checked only: the liveness properties `WindowSettles`, `ResetCompletes`,
`ReminderSounds`, `CalmRefreshes`, `LinkConcludes`, `Connects`, `AlertShown`,
`NewestShown` and `BecomesFree`. They rest on fairness, that is on ENABLED,
which the proof system does not handle here; so each refinement is one of
safety, and that a promise is kept *in the end* is one of these properties.
Facts that no proof here can reach are those by induction over data: `Delete`
and `Load` are therefore written by their results (the n-th item that stays),
which TLC compared with the step-by-step forms on all inputs of up to five
elements.

## 6. Not modelled

- Generated data: of the repository's roughly 86 000 lines about 65 000 are
  fonts, glyph tables and the panel's waveform, which have no behaviour.
- Contents of days (tokens, costs), their encoding, CRC and parsing; HTTP below
  "an answer, an error, rejected or cancelled"; the lengths of delays, retry
  windows and poll intervals, which are deadlines that run and become due.
- uint32 wrap of generation, sequence and revision; the TODO list's revision
  counter. Corruption of flash outside a failing operation.
- Civil-date arithmetic and the predicates of `vibe_state.c`: pure functions.
- The portal's web server (forms, its trial connection and scan timer), the DNS
  responder, the LLM portal's form. In `WifiLink` saving and exit are events.
- In `WifiStation`, the ignored results of `esp_wifi_scan_start` and
  `esp_wifi_connect` (wifi_station.cc:383, 403), and a stored name out of bounds
  as the last of the queue (:269): each would end without an event, a scan or the
  timer, so `Connects` assumes them away. Unregistering event handlers while one
  runs depends on the event loop's lock, outside this repository.
- In `TodoList` and `Controller`, the two single-key settings (language, alert
  volume), and text and display wording.
- In `Note4Screen`, drawing, list offsets, the recording display, and the 4bpp
  refresh, which the firmware never calls.
- In `Gateway`, header and body checks, the heartbeat, matching of JSON-RPC
  answers, the filter of turns and tools, and operating system calls that fail
  within the clean-up (`_close_impl`); asyncio is modelled by what a
  cancellation does at each await, not by its scheduler.
- LVGL screens, drivers, build and release tools.

## 7. Plan

1. The pure algorithms (civil dates, retry and poll intervals, the refresh
   policy's area computation) as operators checked against reference definitions.
2. The portal's web server: its trial connection and scan timer beside the
   radio of `WifiLink`.
3. The gateway's promise (one request at a time, a whole transcript or an error)
   as an abstract specification.
