------------------------------ MODULE UsageClient ------------------------------
(***************************************************************************)
(* components/vibe_usage: the account and cache lifecycle of vibe_client.c *)
(* over the NVS records of vibe_store.c, with the settings record of       *)
(* device_config.c that selects the timezone.                              *)
(*                                                                         *)
(* One RTOS task (the app controller) runs every operation, so an action   *)
(* is one operation, or the part of it up to a network wait or between two *)
(* flash writes: that is where a cancellation from another task, a failed  *)
(* write or a power cut can land.                                          *)
(*                                                                         *)
(* Data is abstracted.  A cache snapshot is its header, the set of         *)
(* accounts whose days it holds, a version that tells two sets of days     *)
(* apart, and its notes: the anchor and the pending days of a round, the   *)
(* times of the fetches and the dictionary of sources, which change in RAM *)
(* without a new sequence number too.  The timezone is a function of the configuration revision        *)
(* because restart_vibe_for_timezone changes the two together, so the      *)
(* revision stands for both.  uint32_t wrap of generation, sequence and    *)
(* revision (after 2^32 relinks, saves or toggles) is left out.            *)
(***************************************************************************)
EXTENDS Naturals

CONSTANTS
    Keys,            \* API credentials of the Device Flow
    NoKey,           \* the empty credential of a tombstone
    NoBlob,          \* an absent or undecodable NVS record
    Notes,           \* what a snapshot holds beside its days and its header
    NoNotes,         \* ... when it is new
    FaultKinds,      \* which NVS operations may fail
    MaxFaults,       \* bound: number of failing operations
    MaxGeneration,   \* bound: account generation
    MaxRevision,     \* bound: configuration revision
    MaxSequence,     \* bound: cache sequence
    MaxFetches       \* bound: day fetches that change a value

AllFaultKinds == {"authRead", "authWrite", "cacheRead", "cacheWrite",
                  "cacheErase", "settingsWrite"}

Slots == {"a", "b"}
AuthRecord == [key : Keys \union {NoKey}, gen : Nat]
Snapshot == [seq : Nat, gen : Nat, config : Nat, owners : SUBSET Keys,
             ver : Nat, notes : Notes]

ASSUME ClientAssumption ==
    /\ NoKey \notin Keys
    /\ NoBlob \notin AuthRecord \union Snapshot
    /\ NoNotes \in Notes
    /\ FaultKinds \subseteq AllFaultKinds
    /\ {MaxFaults, MaxGeneration, MaxRevision, MaxSequence, MaxFetches}
         \subseteq Nat

VARIABLES
    pc,           \* what the controller task is doing in the client
    cancelled,    \* operation snapshot differs from g_vibe.cancel_generation
    auth,         \* g_vibe.auth
    nvsAuth,      \* vibe_auth/auth_v1
    cache,        \* g_vibe.cache without its persisted flag
    persisted,    \* g_vibe.cache.persisted
    slot,         \* vibe_cache/cache_a and cache_b
    active,       \* g_vibe.config_revision (and timezone)
    settings,     \* s_controller.config.settings.config_revision
    nvsSettings,  \* config_revision in vibe_cfg/settings_v1
    issued,       \* credentials the server has delivered
    fetches,      \* number of changed days fetched so far
    faults        \* number of failed operations so far

accountVars == <<auth, nvsAuth>>
cacheVars   == <<cache, persisted, slot>>
configVars  == <<active, settings, nvsSettings>>
vars == <<pc, cancelled, accountVars, cacheVars, configVars, issued, fetches,
          faults>>

-------------------------------------------------------------------------------
(* Records *)

Tombstone(g) == [key |-> NoKey, gen |-> g]

\* vibe_has_auth
HasAuth == auth.key # NoKey

\* vibe_cache_init
FreshCache(g, c) ==
    [seq |-> 0, gen |-> g, config |-> c, owners |-> {}, ver |-> 0,
     notes |-> NoNotes]

\* Regression variant: one slot only.
TargetSlotFixed(s) == "a"

\* vibe_store_write_cache: the parity of the sequence selects the key.
TargetSlot(s) == IF s % 2 = 0 THEN "a" ELSE "b"

\* Regression variant: the slots are not checked against the account.
CompatibleAnyAccount(blobs, g, c) ==
    {i \in Slots : blobs[i] # NoBlob /\ blobs[i].config = c}

\* vibe_store_load_cache: a slot counts only for its own account generation
\* and configuration.
Compatible(blobs, g, c) ==
    {i \in Slots : blobs[i] # NoBlob /\ blobs[i].gen = g /\ blobs[i].config = c}

\* Regression variant: sequences are not compared.
NewestPrefersB(blobs, candidates) == IF "b" \in candidates THEN "b" ELSE "a"

\* cache_b is preferred only when its sequence is strictly higher.
Newest(blobs, candidates) ==
    IF "b" \in candidates
         /\ ("a" \in candidates => blobs["b"].seq > blobs["a"].seq)
    THEN "b" ELSE "a"

\* What vibe_init leaves in g_vibe.cache.
LoadedCache(blobs, a, c) ==
    LET candidates == Compatible(blobs, a.gen, c) IN
    IF a.key # NoKey /\ candidates # {}
    THEN blobs[Newest(blobs, candidates)]
    ELSE FreshCache(a.gen, c)

\* ... and in its persisted flag: true exactly when a slot was decoded.
LoadedPersisted(blobs, a, c) ==
    a.key # NoKey /\ Compatible(blobs, a.gen, c) # {}

\* Regression variant: a new account reuses the generation.
SameGeneration == auth.gen

\* next_account_generation
NextGeneration == auth.gen + 1

-------------------------------------------------------------------------------
(* Flash operations.  A failed write reports an error and leaves either the  *)
(* old record (nvs_open or nvs_set_blob failed) or the new one (nvs_commit   *)
(* failed after the page was written).                                       *)

NoFault == UNCHANGED faults

Fault(kind) ==
    /\ kind \in FaultKinds
    /\ faults < MaxFaults
    /\ faults' = faults + 1

Erase(which) == [i \in Slots |-> IF i \in which THEN NoBlob ELSE slot[i]]

\* vibe_store_clear_cache erases both keys even when the first erase fails;
\* its error is reported but never retried.
ClearCache ==
    \/ NoFault /\ slot' = Erase(Slots)
    \/ Fault("cacheErase") /\ \E which \in SUBSET Slots : slot' = Erase(which)

\* mark_cache_dirty advances the sequence of a clean cache only.
MarkDirty(content, wasPersisted) ==
    IF wasPersisted THEN [content EXCEPT !.seq = @ + 1] ELSE content

\* A snapshot with other notes; its sequence and its flag stay as they are.
Renoted(content) == {[content EXCEPT !.notes = n] : n \in Notes}

-------------------------------------------------------------------------------
Init ==
    /\ pc = "off"
    /\ cancelled = FALSE
    /\ auth = Tombstone(0)
    /\ nvsAuth = NoBlob
    /\ cache = FreshCache(0, 0)
    /\ persisted = FALSE
    /\ slot = [i \in Slots |-> NoBlob]
    /\ active = 0
    /\ settings = 0
    /\ nvsSettings = 1
    /\ issued = {}
    /\ fetches = 0
    /\ faults = 0

\* vibe_init: an unreadable auth record becomes a generation 1 tombstone; an
\* unreadable cache slot is skipped.  One fault covers the reads of one call.
InitClient(config) ==
    \E failed \in SUBSET ({"authRead", "cacheRead"} \intersect FaultKinds) :
    \E readable \in SUBSET Slots :
        LET blobs == [i \in Slots |-> IF i \in readable THEN slot[i]
                                                        ELSE NoBlob]
        IN
        /\ "cacheRead" \notin failed => readable = Slots
        /\ failed # {} => faults < MaxFaults
        /\ faults' = IF failed = {} THEN faults ELSE faults + 1
        /\ auth' = IF "authRead" \in failed \/ nvsAuth = NoBlob
                   THEN Tombstone(1) ELSE nvsAuth
        /\ active' = config
        /\ cache' = LoadedCache(blobs, auth', config)
        /\ persisted' = LoadedPersisted(blobs, auth', config)

\* app_main and app_controller_init: the settings record, then vibe_init.
Boot ==
    /\ pc = "off"
    /\ pc' = "idle"
    /\ settings' = nvsSettings
    /\ InitClient(nvsSettings)
    /\ UNCHANGED <<cancelled, nvsAuth, slot, nvsSettings, issued, fetches>>

\* Power can go at any point.  While vibe_store_clear_cache runs, either slot
\* may already be gone.
PowerLoss ==
    /\ pc # "off"
    /\ pc' = "off"
    /\ cancelled' = FALSE
    /\ auth' = Tombstone(0)
    /\ cache' = FreshCache(0, 0)
    /\ persisted' = FALSE
    /\ active' = 0
    /\ settings' = 0
    /\ IF pc \in {"linked", "unlinked"}
       THEN \E which \in SUBSET Slots : slot' = Erase(which)
       ELSE UNCHANGED slot
    /\ UNCHANGED <<nvsAuth, nvsSettings, issued, fetches, faults>>

\* vibe_cancel from another task while a request is in flight.
Cancel ==
    /\ pc \in {"polling", "fetching"}
    /\ cancelled' = TRUE
    /\ UNCHANGED <<pc, accountVars, cacheVars, configVars, issued, fetches,
                   faults>>

-------------------------------------------------------------------------------
(* Device Flow: vibe_poll_device_code *)

\* The poll does not look at HasAuth: the controller polls whenever it holds a
\* device code, also while an account is live.
StartPoll ==
    /\ pc = "idle"
    /\ pc' = "polling"
    /\ cancelled' = FALSE
    /\ UNCHANGED <<accountVars, cacheVars, configVars, issued, fetches, faults>>

\* Pending, denied, expired, malformed, failed or cancelled.
PollWithoutKey ==
    /\ pc = "polling"
    /\ pc' = "idle"
    /\ cancelled' = FALSE
    /\ UNCHANGED <<accountVars, cacheVars, configVars, issued, fetches, faults>>

\* The server delivered the credential, once, to a poll that was cancelled.
PollKeyDiscarded(k) ==
    /\ pc = "polling"
    /\ cancelled
    /\ k \notin issued
    /\ issued' = issued \union {k}
    /\ pc' = "idle"
    /\ cancelled' = FALSE
    /\ UNCHANGED <<accountVars, cacheVars, configVars, fetches, faults>>


\* A delivered credential is stored under the next generation; the old cache
\* is still there until ClearAfterLink.
LinkStored(k) ==
    /\ pc = "polling"
    /\ ~cancelled
    /\ k \notin issued
    /\ NextGeneration <= MaxGeneration
    /\ issued' = issued \union {k}
    /\ nvsAuth' = [key |-> k, gen |-> NextGeneration]
    /\ auth' = nvsAuth'
    /\ pc' = "linked"
    /\ NoFault
    /\ UNCHANGED <<cancelled, cacheVars, configVars, fetches>>

LinkNotStored(k) ==
    /\ pc = "polling"
    /\ ~cancelled
    /\ k \notin issued
    /\ NextGeneration <= MaxGeneration
    /\ Fault("authWrite")
    /\ issued' = issued \union {k}
    /\ nvsAuth' \in {nvsAuth, [key |-> k, gen |-> NextGeneration]}
    /\ pc' = "idle"
    /\ UNCHANGED <<cancelled, auth, cacheVars, configVars, fetches>>

\* The result of vibe_store_clear_cache is ignored here.
ClearAfterLink ==
    /\ pc = "linked"
    /\ pc' = "idle"
    /\ ClearCache
    /\ cache' = FreshCache(auth.gen, active)
    /\ persisted' = FALSE
    /\ UNCHANGED <<cancelled, accountVars, configVars, issued, fetches>>

-------------------------------------------------------------------------------
(* Usage: fetch_day, vibe_fetch_today, vibe_begin_reconcile, vibe_reconcile *)

\* On a new day vibe_reconcile moves the anchor and the pending days in RAM
\* alone before it asks for a day; the snapshot still counts as persisted.
StartFetch ==
    /\ pc = "idle"
    /\ HasAuth
    /\ pc' = "fetching"
    /\ cancelled' = FALSE
    /\ cache' \in Renoted(cache)
    /\ UNCHANGED <<accountVars, persisted, slot, configVars, issued, fetches,
                   faults>>

\* Cancelled, HTTP or parse failure: the candidate is dropped.  Only names of
\* sources can be left of one whose sums overflow.
FetchRejected ==
    /\ pc = "fetching"
    /\ pc' = "idle"
    /\ cancelled' = FALSE
    /\ cache' \in Renoted(cache)
    /\ UNCHANGED <<accountVars, persisted, slot, configVars, issued, fetches,
                   faults>>

\* A parsed day: vibe_cache_replace_day notes the time of the fetch in any case,
\* but marks the cache only when a value changed; reconcile progress and the
\* hourly checkpoint mark it too, but only when it was clean.  An unsaved cache
\* is always written.
CommitDay(changed, progress) ==
    LET replaced == IF changed
                    THEN [cache EXCEPT !.seq = @ + 1,
                                       !.owners = @ \union {auth.key},
                                       !.ver = fetches + 1]
                    ELSE cache
        clean == persisted /\ ~changed
    IN
    /\ pc = "fetching"
    /\ ~cancelled
    /\ changed => fetches < MaxFetches
    /\ cache.seq < MaxSequence
    /\ fetches' = IF changed THEN fetches + 1 ELSE fetches
    /\ cache' \in Renoted(IF progress THEN MarkDirty(replaced, clean)
                                      ELSE replaced)
    /\ persisted' = (clean /\ ~progress)
    /\ pc' = IF persisted' THEN "idle" ELSE "saving"
    /\ UNCHANGED <<cancelled, accountVars, slot, configVars, issued, faults>>

\* vibe_begin_reconcile when it changes the anchor or the pending days, or
\* finds an unsaved cache.
BeginReconcile ==
    /\ pc = "idle"
    /\ HasAuth
    /\ cache.seq < MaxSequence
    /\ cache' \in Renoted(MarkDirty(cache, persisted))
    /\ persisted' = FALSE
    /\ pc' = "saving"
    /\ UNCHANGED <<cancelled, accountVars, slot, configVars, issued, fetches,
                   faults>>

\* vibe_store_write_cache, read back and verified.
SaveVerified ==
    /\ pc = "saving"
    /\ slot' = [slot EXCEPT ![TargetSlot(cache.seq)] = cache]
    /\ persisted' = TRUE
    /\ pc' = "idle"
    /\ NoFault
    /\ UNCHANGED <<cancelled, accountVars, cache, configVars, issued, fetches>>

\* The write or its verification failed: the old blob, the new one, or one
\* that no longer decodes.
SaveFailed ==
    /\ pc = "saving"
    /\ Fault("cacheWrite")
    /\ \E blob \in {slot[TargetSlot(cache.seq)], cache, NoBlob} :
           slot' = [slot EXCEPT ![TargetSlot(cache.seq)] = blob]
    /\ pc' = "idle"
    /\ UNCHANGED <<cancelled, accountVars, cache, persisted, configVars, issued,
                   fetches>>

-------------------------------------------------------------------------------
(* Unlink and timezone *)

\* vibe_unlink, from the menu or from a 401: RAM forgets the account whether
\* or not the tombstone could be stored; the cache is erased only if it was.
Unlink ==
    /\ pc = "idle" \/ (pc = "fetching" /\ ~cancelled)
    /\ NextGeneration <= MaxGeneration
    /\ auth' = Tombstone(NextGeneration)
    /\ cache' = FreshCache(NextGeneration, active)
    /\ persisted' = FALSE
    /\ \/ NoFault /\ nvsAuth' = auth' /\ pc' = "unlinked"
       \/ Fault("authWrite") /\ nvsAuth' \in {nvsAuth, auth'} /\ pc' = "idle"
    /\ cancelled' = FALSE
    /\ UNCHANGED <<slot, configVars, issued, fetches>>

ClearAfterUnlink ==
    /\ pc = "unlinked"
    /\ pc' = "idle"
    /\ ClearCache
    /\ UNCHANGED <<cancelled, accountVars, cache, persisted, configVars, issued,
                   fetches>>

\* restart_vibe_for_timezone: the RAM settings advance first; vibe_init runs
\* again only if they could be saved.
ToggleTimezone ==
    /\ pc = "idle"
    /\ settings < MaxRevision
    /\ settings' = settings + 1
    /\ nvsSettings' = settings'
    /\ InitClient(settings')
    /\ UNCHANGED <<pc, cancelled, nvsAuth, slot, issued, fetches>>

ToggleTimezoneNotSaved ==
    /\ pc = "idle"
    /\ settings < MaxRevision
    /\ Fault("settingsWrite")
    /\ settings' = settings + 1
    /\ nvsSettings' \in {nvsSettings, settings'}
    /\ UNCHANGED <<pc, cancelled, accountVars, cacheVars, active, issued,
                   fetches>>

-------------------------------------------------------------------------------
Next ==
    \/ Boot
    \/ PowerLoss
    \/ Cancel
    \/ StartPoll
    \/ PollWithoutKey
    \/ \E k \in Keys : PollKeyDiscarded(k) \/ LinkStored(k) \/ LinkNotStored(k)
    \/ ClearAfterLink
    \/ StartFetch
    \/ FetchRejected
    \/ \E changed, progress \in BOOLEAN : CommitDay(changed, progress)
    \/ BeginReconcile
    \/ SaveVerified
    \/ SaveFailed
    \/ Unlink
    \/ ClearAfterUnlink
    \/ ToggleTimezone
    \/ ToggleTimezoneNotSaved

Spec == Init /\ [][Next]_vars

-------------------------------------------------------------------------------
(* Properties *)

\* Two snapshots that differ in their notes at most
SameDays(s, t) ==
    /\ s.seq = t.seq /\ s.gen = t.gen /\ s.config = t.config
    /\ s.owners = t.owners /\ s.ver = t.ver

TypeOK ==
    /\ pc \in {"off", "idle", "polling", "linked", "fetching", "saving",
               "unlinked"}
    /\ cancelled \in BOOLEAN
    /\ auth \in AuthRecord
    /\ nvsAuth \in AuthRecord \union {NoBlob}
    /\ cache \in Snapshot
    /\ persisted \in BOOLEAN
    /\ slot \in [Slots -> Snapshot \union {NoBlob}]
    /\ {active, settings, nvsSettings, fetches, faults} \subseteq Nat
    /\ issued \subseteq Keys

\* The days held for display were all fetched with the credential in use:
\* relinking, unlinking, a failed erase of the slots, a failed write of the
\* credential or the tombstone, a power cut between any two of these and the
\* reload that a timezone change causes never mix accounts or bring the days
\* of an earlier account back (vibe_client.c:466, vibe_client.c:752).
AccountIsolation == pc # "linked" => cache.owners \subseteq {auth.key}

(* The inductive strengthening of AccountIsolation.  It holds as long as the  *)
(* credential record can be read back ("authRead" never fails).               *)

\* No slot is newer than the account the flash names, and a slot of that very
\* generation holds that account's days only.
SlotsBehindFlash ==
    \A i \in Slots : slot[i] # NoBlob =>
        /\ nvsAuth # NoBlob
        /\ slot[i].gen <= nvsAuth.gen
        /\ slot[i].gen = nvsAuth.gen => slot[i].owners \subseteq {nvsAuth.key}

\* No slot is newer than the running account; right after a link all are older.
SlotsBehindClient ==
    \A i \in Slots : slot[i] # NoBlob =>
        /\ pc # "off" => slot[i].gen <= auth.gen
        /\ pc = "linked" => slot[i].gen < auth.gen

\* While an account is in use the flash names it, or a credential whose store
\* was reported as failed, one generation ahead.
FlashFollowsClient ==
    HasAuth => /\ nvsAuth # NoBlob
               /\ nvsAuth = auth \/ nvsAuth.gen = auth.gen + 1

\* A link, a fetch or a save under way belongs to an account.
WorkHasAccount == pc \in {"linked", "fetching", "saving"} => HasAuth

CacheFollowsClient ==
    /\ pc \notin {"off", "linked"} => cache.gen = auth.gen
    /\ pc # "linked" => cache.owners \subseteq {auth.key}
    /\ pc = "off" => auth = Tombstone(0)

\* The safety argument of the two-slot cache and the account generation: which
\* account each durable record can belong to, relative to the one in use
\* (vibe_client.c:455, vibe_store.c:191).
AccountInv ==
    /\ SlotsBehindFlash
    /\ SlotsBehindClient
    /\ FlashFollowsClient
    /\ WorkHasAccount
    /\ CacheFollowsClient

\* The strengthening of RebootRestoresPersisted, when cache reads do not fail
\* either: the running snapshot is ahead of every slot it competes with, and
\* is in its own slot once it is marked persisted (vibe_store.c:242).
SnapshotInv ==
    /\ \A i \in Slots : slot[i] # NoBlob => TargetSlot(slot[i].seq) = i
    /\ pc # "off" => cache.config = active
    /\ pc = "saving" => ~persisted
    /\ pc = "unlinked" => ~HasAuth
    /\ pc \notin {"off", "linked"} /\ HasAuth =>
         /\ \A i \in Compatible(slot, auth.gen, active) :
                slot[i].seq <= cache.seq
         /\ persisted => LET stored == slot[TargetSlot(cache.seq)]
                         IN  stored # NoBlob /\ SameDays(stored, cache)

\* What g_vibe.cache.persisted tells the user: when it is true, and the flash
\* still names this account and this timezone, a power cut now and a boot give
\* back every day in RAM under the same sequence (vibe_store.c:223,
\* vibe_store.c:172).  The flag does not cover the notes: the anchor and the
\* pending days of a new round (vibe_client.c:682) and the time of a fetch that
\* changed nothing (vibe_cache.c:279) may fall back to those last saved.
RebootRestoresPersisted ==
    persisted /\ HasAuth /\ pc # "linked" /\ nvsAuth = auth
              /\ nvsSettings = active
        => /\ LoadedPersisted(slot, nvsAuth, nvsSettings)
           /\ SameDays(LoadedCache(slot, nvsAuth, nvsSettings), cache)

\* The point of alternating the slots (vibe_store.c:242): the first save that
\* fails, whatever it leaves in its slot, costs nothing that a boot could
\* still have loaded before it.
FirstFailedSaveKeepsSnapshot ==
    [][ pc = "saving" /\ faults = 0 /\ faults' = 1
          => LoadedCache(slot', auth, active).seq
               >= LoadedCache(slot, auth, active).seq ]_vars

\* vibe_client.c:752 "Stop using and displaying the old account even if NVS is
\* unhealthy": while it runs, the client never goes from an account generation
\* back to the credential of an earlier one.
DroppedAccountStaysDropped ==
    [][ pc # "off" /\ HasAuth' => auth'.gen >= auth.gen ]_vars

\* docs/VIBE_USAGE_HARDWARE_FIRMWARE_PLAN.zh_CN.md:478: a cache update writes
\* the slot with the older sequence (repeating the very same write aside).
SaveTargetsOlderSlot ==
    pc = "saving" /\ Compatible(slot, auth.gen, active) = Slots
        => \/ TargetSlot(cache.seq)
                # Newest(slot, Compatible(slot, auth.gen, active))
           \/ slot[TargetSlot(cache.seq)].seq = cache.seq

Session == INSTANCE AccountSession WITH
    account <- IF nvsAuth = NoBlob THEN NoKey ELSE nvsAuth.key,
    session <- auth.key,
    shown   <- IF pc = "linked" THEN {} ELSE cache.owners,
    issued  <- issued

\* The client over its flash records, with failing writes and power cuts,
\* implements the account promise of AccountSession.
SessionRefined == Session!SessionSpec

===============================================================================
