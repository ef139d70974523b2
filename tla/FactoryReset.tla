----------------------------- MODULE FactoryReset -----------------------------
(***************************************************************************)
(* The resumable factory reset: the journal and the erasures of            *)
(* vibe_store.c, started by app_controller.c while the device runs and     *)
(* taken up again by app_main and app_controller_init at the next boot.    *)
(*                                                                         *)
(* A reset is a list of flash operations.  Each can fail, with or without  *)
(* having had its effect, and power can go between any two; nothing else   *)
(* writes while one runs, because the controller task runs it after it has *)
(* stopped the station and the portals.  What is stored is abstracted to   *)
(* whether a place holds user data.                                        *)
(***************************************************************************)
EXTENDS Sequences

\* The NVS places a reset owns: the namespaces vibe_auth, vibe_cache, vibe_cfg,
\* vibe_todo and vibe_llm, the key retry_v1 of vibe_meta and the credentials in
\* wifi.
Places == {"auth", "cache", "cfg", "retry", "todo", "llm", "wifi"}

VARIABLES
    pc,          \* boot stage, "running", a reset under way, or "halted"
    steps,       \* flash operations left of the reset under way
    nvs,         \* what each place holds
    journal,     \* vibe_meta/reset_v1 is 1
    clientReady, \* g_vibe.initialized
    torn         \* a reset has erased something and is not complete

vars == <<pc, steps, nvs, journal, clientReady, torn>>

-------------------------------------------------------------------------------
(* The three lists of operations *)

\* Regression variant: the intent is journalled after the erasures.
LocalStepsJournalLast == <<"auth", "cache", "cfg", "retry", "journal">>

\* vibe_store_begin_reset and vibe_store_finish_reset
LocalSteps == <<"journal", "auth", "cache", "cfg", "retry">>

\* APP_INTENT_FACTORY_RESET
RuntimeSteps == LocalSteps \o <<"todo", "llm", "wifi", "complete">>

\* Regression variant: a place added later is forgotten at boot.
FinishStepsNoLlm == LocalSteps \o <<"wifi", "todo", "complete">>

\* Regression variant: the journal is never removed at boot.
FinishStepsNoComplete == LocalSteps \o <<"wifi", "todo", "llm">>

\* app_controller_init
FinishSteps == LocalSteps \o <<"wifi", "todo", "llm", "complete">>

Working == {"recover", "finish", "reset"}

\* Where each list leads when it is through; the last two end in esp_restart.
StageAfter(stage) == IF stage = "recover" THEN "config" ELSE "off"

\* Regression variant: app_controller_init trusts app_main to have finished.
InitSeesJournalNot == FALSE

\* The second vibe_factory_reset_pending.
InitSeesJournal == journal

-------------------------------------------------------------------------------
Init ==
    /\ pc = "off"
    /\ steps = <<>>
    /\ nvs = [p \in Places |-> "none"]
    /\ journal = FALSE
    /\ clientReady = FALSE
    /\ torn = FALSE

\* app_main looks at the journal before anything else.
Boot ==
    /\ pc = "off"
    /\ IF journal THEN pc' = "recover" /\ steps' = LocalSteps
                  ELSE pc' = "config" /\ steps' = <<>>
    /\ UNCHANGED <<nvs, journal, clientReady, torn>>

\* device_config_load_or_create stores defaults when there are no settings.
LoadConfig ==
    /\ pc = "config"
    /\ pc' = "init"
    /\ nvs' = IF nvs["cfg"] = "none" THEN [nvs EXCEPT !["cfg"] = "default"]
                                     ELSE nvs
    /\ UNCHANGED <<steps, journal, clientReady, torn>>

\* app_controller_init; vibe_init runs only after the local half is erased.
InitController ==
    /\ pc = "init"
    /\ IF InitSeesJournal
       THEN pc' = "finish" /\ steps' = FinishSteps /\ UNCHANGED clientReady
       ELSE pc' = "running" /\ steps' = <<>> /\ clientReady' = TRUE
    /\ UNCHANGED <<nvs, journal, torn>>

\* Any error of these stages stops the application until a power cycle.
BootFailed ==
    /\ pc \in {"off", "config", "init"}
    /\ pc' = "halted"
    /\ UNCHANGED <<steps, nvs, journal, clientReady, torn>>

PowerLoss ==
    /\ pc # "off"
    /\ pc' = "off"
    /\ steps' = <<>>
    /\ clientReady' = FALSE
    /\ UNCHANGED <<nvs, journal, torn>>

-------------------------------------------------------------------------------
(* The running device *)

\* Anything that stores: a link, a fetch, a 429, a setting, a TODO (also from
\* the list kept in RAM after a failed reset), a portal form.
Store(p) ==
    /\ pc = "running"
    /\ p \in {"auth", "cache", "retry"} => clientReady
    /\ nvs' = [nvs EXCEPT ![p] = "data"]
    /\ UNCHANGED <<pc, steps, journal, clientReady, torn>>

\* restart_vibe_for_timezone saves the settings and runs vibe_init again.
ToggleTimezone ==
    /\ pc = "running"
    /\ nvs' = [nvs EXCEPT !["cfg"] = "data"]
    /\ clientReady' = TRUE
    /\ UNCHANGED <<pc, steps, journal, torn>>

\* After a reset that failed half way vibe_factory_reset refuses to start
\* another one: g_vibe is no longer initialized.
RequestReset ==
    /\ pc = "running"
    /\ clientReady
    /\ pc' = "reset"
    /\ steps' = RuntimeSteps
    /\ UNCHANGED <<nvs, journal, clientReady, torn>>

-------------------------------------------------------------------------------
(* One flash operation of a reset *)

Effect(step) ==
    /\ journal' = CASE step = "journal"  -> TRUE
                    [] step = "complete" -> FALSE
                    [] OTHER             -> journal
    /\ nvs' = IF step \in Places THEN [nvs EXCEPT ![step] = "none"] ELSE nvs
    /\ torn' = CASE step \in Places    -> TRUE
                 [] step = "complete"  -> FALSE
                 [] OTHER              -> torn

\* vibe_factory_reset clears g_vibe once its own half is erased.
StepDone ==
    /\ pc \in Working
    /\ Effect(Head(steps))
    /\ steps' = Tail(steps)
    /\ pc' = IF Tail(steps) = <<>> THEN StageAfter(pc) ELSE pc
    /\ clientReady' = (clientReady /\ Head(steps) # "retry")

\* The rest is skipped: the running device reports a storage error and goes on,
\* a booting one stops.
StepFailed ==
    /\ pc \in Working
    /\ \/ Effect(Head(steps))
       \/ UNCHANGED <<journal, nvs, torn>>
    /\ steps' = <<>>
    /\ pc' = IF pc = "reset" THEN "running" ELSE "halted"
    /\ UNCHANGED clientReady

-------------------------------------------------------------------------------
Next ==
    \/ Boot
    \/ LoadConfig
    \/ InitController
    \/ BootFailed
    \/ PowerLoss
    \/ \E p \in Places : Store(p)
    \/ ToggleTimezone
    \/ RequestReset
    \/ StepDone
    \/ StepFailed

Spec == Init /\ [][Next]_vars

\* The code of the boot and of a reset does not stall.
Fairness == WF_vars(Boot \/ LoadConfig \/ InitController \/ StepDone)

FairSpec == Spec /\ Fairness

-------------------------------------------------------------------------------
(* Properties *)

\* Only the settings have stored defaults, and an operation is due exactly
\* while a reset runs.
TypeOK ==
    /\ pc \in {"off", "config", "init", "running", "halted"} \union Working
    /\ steps \in Seq(Places \union {"journal", "complete"})
    /\ steps # <<>> <=> pc \in Working
    /\ nvs \in [Places -> {"none", "default", "data"}]
    /\ \A p \in Places : nvs[p] = "default" => p = "cfg"
    /\ {journal, clientReady, torn} \subseteq BOOLEAN
    /\ clientReady => pc \in {"running", "reset"}

\* docs/architecture.md:132: the reset journals its intent before it erases
\* anything and until it has erased everything, so that no crash or failed
\* operation leaves a part of the data erased and the rest in use for good.
TornIsJournalled == torn => journal

\* The journal goes only when no place holds user data: at a power cut the
\* reset starts over from the top, whatever was stored after it failed and
\* whichever of the two lists was running.
JournalRemovedWhenEmpty ==
    [][ journal /\ ~journal' => \A p \in Places : nvs'[p] # "data" ]_vars

\* No boot starts the application on the remains of a reset: after power cuts
\* and failures anywhere, in the reset or in its resumption, credentials are
\* loaded only when nothing or everything of the reset has happened
\* (app_controller.c:1418 "before any credential can be used").
BootRunsOnWholeData == [][ pc = "init" /\ pc' = "running" => ~torn ]_vars

Promise == INSTANCE ResetPromise WITH
    data <- {p \in Places : nvs[p] = "data"},
    owed <- journal,
    live <- pc \in {"running", "reset"}

\* The three lists, the journal and the stages of the boot implement the promise
\* of ResetPromise: data goes only while a reset is owed, a reset is only over
\* when no data is left, and while it is owed no boot goes on to the device's
\* work.
ResetImplemented == Promise!PromiseSpec

\* From some time on nothing fails and power is cut only outside the work (the
\* restart after the last operation can look like a power cut).
QuietAtLast ==
    <>[][ ~StepFailed /\ ~BootFailed
          /\ (PowerLoss => StepDone \/ pc \in {"running", "halted"}) ]_vars

\* If failures and power cuts cease and the device is switched off and on again
\* a journalled reset completes, however it was interrupted before: the boot
\* comes back to it and does not restart for ever (app_controller.c:1450).
ResetCompletes ==
    QuietAtLast /\ []<>(pc = "off") => (journal ~> ~journal)

===============================================================================
