--------------------------- MODULE UsageClientProofs ---------------------------
(***************************************************************************)
(* TLAPS proofs about UsageClient, for any set of credentials, any bounds  *)
(* and any number of failing flash writes.                                 *)
(***************************************************************************)
EXTENDS UsageClient, TLAPS

USE DEF Slots

-------------------------------------------------------------------------------
(* What a load returns *)

\* The chosen slot is one of the candidates (vibe_store.c:201).
LEMMA NewestIsCandidate ==
    ASSUME NEW blobs, NEW candidates \in SUBSET Slots, candidates # {}
    PROVE  Newest(blobs, candidates) \in candidates
  BY DEF Newest

\* A load yields a decoded slot of the account, or an empty snapshot of it.
LEMMA LoadedCacheCases ==
    ASSUME NEW blobs, NEW a, NEW c
    PROVE  \/ LoadedCache(blobs, a, c) = FreshCache(a.gen, c)
           \/ \E i \in Slots : /\ a.key # NoKey
                               /\ i \in Compatible(blobs, a.gen, c)
                               /\ LoadedCache(blobs, a, c) = blobs[i]
  <1>1. CASE a.key # NoKey /\ Compatible(blobs, a.gen, c) # {}
    <2>1. Compatible(blobs, a.gen, c) \in SUBSET Slots  BY DEF Compatible
    <2>2. Newest(blobs, Compatible(blobs, a.gen, c))
            \in Compatible(blobs, a.gen, c)
      BY <1>1, <2>1, NewestIsCandidate
    <2> QED  BY <1>1, <2>1, <2>2 DEF LoadedCache
  <1>2. CASE ~(a.key # NoKey /\ Compatible(blobs, a.gen, c) # {})
    BY <1>2 DEF LoadedCache
  <1> QED  BY <1>1, <1>2

LEMMA FreshCacheType ==
    ASSUME NEW g \in Nat, NEW c \in Nat
    PROVE  FreshCache(g, c) \in Snapshot
  BY ClientAssumption DEF FreshCache, Snapshot

\* Changing the fields that a fetched day changes gives a snapshot again.
LEMMA SnapshotUpdateType ==
    ASSUME NEW s \in Snapshot, NEW n \in Nat, NEW o \in SUBSET Keys,
           NEW v \in Nat
    PROVE  /\ [s EXCEPT !.seq = n, !.owners = o, !.ver = v] \in Snapshot
           /\ [s EXCEPT !.seq = n] \in Snapshot
  BY DEF Snapshot

\* Other notes leave a snapshot with the same days.
LEMMA RenotedKeeps ==
    ASSUME NEW s \in Snapshot, NEW t \in Renoted(s)
    PROVE  t \in Snapshot /\ SameDays(t, s)
  <1>1. PICK n \in Notes : t = [s EXCEPT !.notes = n]  BY DEF Renoted
  <1>2. t \in Snapshot  BY <1>1, Zenon DEF Snapshot
  <1>3. SameDays(t, s)  BY <1>1 DEF Snapshot, SameDays
  <1> QED  BY <1>2, <1>3

\* What a step does to the snapshot, its notes aside
LEMMA FetchKeepsDays ==
    ASSUME TypeOK, StartFetch \/ FetchRejected
    PROVE  cache' \in Snapshot /\ SameDays(cache', cache)
  BY RenotedKeeps DEF StartFetch, FetchRejected, TypeOK

LEMMA BeginReconcileDoes ==
    ASSUME TypeOK, BeginReconcile
    PROVE  /\ cache' \in Snapshot
           /\ cache'.gen = cache.gen /\ cache'.config = cache.config
           /\ cache'.owners = cache.owners
           /\ cache'.seq = IF persisted THEN cache.seq + 1 ELSE cache.seq
  <1> DEFINE dirty == MarkDirty(cache, persisted)
  <1>1. /\ dirty \in Snapshot
        /\ dirty.gen = cache.gen /\ dirty.config = cache.config
        /\ dirty.owners = cache.owners
        /\ dirty.seq = IF persisted THEN cache.seq + 1 ELSE cache.seq
    BY DEF MarkDirty, TypeOK, Snapshot
  <1>2. cache' \in Renoted(dirty)  BY DEF BeginReconcile
  <1> HIDE DEF dirty
  <1>3. cache' \in Snapshot /\ SameDays(cache', dirty)
    BY <1>1, <1>2, RenotedKeeps
  <1> QED  BY <1>1, <1>3 DEF SameDays

LEMMA CommitDayDoes ==
    ASSUME TypeOK, WorkHasAccount, NEW changed \in BOOLEAN,
           NEW progress \in BOOLEAN, CommitDay(changed, progress)
    PROVE  /\ cache' \in Snapshot
           /\ cache'.gen = cache.gen /\ cache'.config = cache.config
           /\ cache'.owners = IF changed THEN cache.owners \union {auth.key}
                                         ELSE cache.owners
           /\ cache'.seq >= cache.seq /\ cache'.seq \in Nat
           /\ persisted /\ ~persisted' => cache'.seq = cache.seq + 1
           /\ persisted' => persisted /\ SameDays(cache', cache)
  <1> DEFINE replaced == IF changed
                         THEN [cache EXCEPT !.seq = @ + 1,
                                            !.owners = @ \union {auth.key},
                                            !.ver = fetches + 1]
                         ELSE cache
             clean == persisted /\ ~changed
             next == IF progress THEN MarkDirty(replaced, clean) ELSE replaced
  <1>1. auth.key \in Keys
    BY DEF CommitDay, WorkHasAccount, HasAuth, TypeOK, AuthRecord
  <1>2. cache \in Snapshot /\ persisted \in BOOLEAN  BY DEF TypeOK
  <1>3. /\ replaced \in Snapshot
        /\ replaced.gen = cache.gen /\ replaced.config = cache.config
        /\ replaced.owners = IF changed THEN cache.owners \union {auth.key}
                                        ELSE cache.owners
        /\ replaced.seq = IF changed THEN cache.seq + 1 ELSE cache.seq
        /\ ~changed => replaced = cache
    <2>1. /\ cache.seq + 1 \in Nat
          /\ cache.owners \union {auth.key} \in SUBSET Keys
          /\ fetches + 1 \in Nat
      BY <1>1 DEF TypeOK, Snapshot
    <2>2. replaced \in Snapshot  BY <1>2, <2>1, SnapshotUpdateType
    <2> QED  BY <1>2, <2>2 DEF Snapshot
  <1>4. /\ cache' \in Renoted(next) /\ persisted' = (clean /\ ~progress)
    BY DEF CommitDay
  <1> HIDE DEF replaced
  <1>5. /\ next \in Snapshot
        /\ next.gen = replaced.gen /\ next.config = replaced.config
        /\ next.owners = replaced.owners
        /\ next.seq = IF progress /\ clean THEN replaced.seq + 1
                                          ELSE replaced.seq
        /\ ~progress => next = replaced
    <2>1. replaced.seq + 1 \in Nat  BY <1>3 DEF Snapshot
    <2>2. [replaced EXCEPT !.seq = @ + 1] \in Snapshot
      BY <1>3, <2>1, SnapshotUpdateType
    <2> QED  BY <1>3, <2>2 DEF MarkDirty, Snapshot
  <1> HIDE DEF next
  <1>6. cache' \in Snapshot /\ SameDays(cache', next)
    BY <1>4, <1>5, RenotedKeeps
  <1>7. cache.seq \in Nat /\ cache'.seq \in Nat  BY <1>2, <1>6 DEF Snapshot
  <1>8. persisted' => persisted /\ next = cache
    BY <1>3, <1>4, <1>5
  <1>9. /\ cache'.gen = next.gen /\ cache'.config = next.config
        /\ cache'.owners = next.owners /\ cache'.seq = next.seq
    BY <1>6 DEF SameDays
  <1>10. cache'.seq = cache.seq \/ cache'.seq > cache.seq
    BY <1>3, <1>5, <1>7, <1>9
  <1>11. persisted /\ ~persisted' => cache'.seq = cache.seq + 1
    BY <1>2, <1>3, <1>4, <1>5, <1>7, <1>9
  <1> QED  BY <1>3, <1>5, <1>6, <1>7, <1>8, <1>9, <1>10, <1>11

-------------------------------------------------------------------------------
(* Type correctness *)

\* vibe_init leaves well-formed state whatever it could read.
LEMMA InitClientType ==
    ASSUME TypeOK, NEW config \in Nat, InitClient(config)
    PROVE  /\ auth' \in AuthRecord
           /\ cache' \in Snapshot
           /\ persisted' \in BOOLEAN
           /\ active' \in Nat
           /\ faults' \in Nat
  <1> PICK failed \in SUBSET ({"authRead", "cacheRead"} \intersect FaultKinds),
           readable \in SUBSET Slots :
        LET blobs == [i \in Slots |-> IF i \in readable THEN slot[i]
                                                        ELSE NoBlob]
        IN
        /\ faults' = IF failed = {} THEN faults ELSE faults + 1
        /\ auth' = IF "authRead" \in failed \/ nvsAuth = NoBlob
                   THEN Tombstone(1) ELSE nvsAuth
        /\ active' = config
        /\ cache' = LoadedCache(blobs, auth', config)
        /\ persisted' = LoadedPersisted(blobs, auth', config)
    BY DEF InitClient
  <1> DEFINE blobs == [i \in Slots |-> IF i \in readable THEN slot[i]
                                                         ELSE NoBlob]
  <1>1. auth' \in AuthRecord
    BY DEF TypeOK, AuthRecord, Tombstone
  <1>2. faults' \in Nat /\ active' \in Nat
    BY DEF TypeOK
  <1>3. persisted' \in BOOLEAN
    BY DEF LoadedPersisted
  <1>4. cache' \in Snapshot
    <2>1. cache' = LoadedCache(blobs, auth', config)  OBVIOUS
    <2>2. CASE cache' = FreshCache(auth'.gen, config)
      BY <1>1, <2>2, FreshCacheType DEF AuthRecord
    <2>3. CASE \E i \in Slots : /\ i \in Compatible(blobs, auth'.gen, config)
                                /\ cache' = blobs[i]
      BY <2>3 DEF Compatible, TypeOK
    <2> QED  BY <2>1, <2>2, <2>3, LoadedCacheCases
  <1> QED  BY <1>1, <1>2, <1>3, <1>4

LEMMA EraseType ==
    ASSUME TypeOK, NEW which \in SUBSET Slots
    PROVE  Erase(which) \in [Slots -> Snapshot \union {NoBlob}]
  BY DEF TypeOK, Erase

LEMMA TypeInit == Init => TypeOK /\ WorkHasAccount
  <1> SUFFICES ASSUME Init PROVE TypeOK /\ WorkHasAccount
    OBVIOUS
  <1>1. persisted \in BOOLEAN /\ cancelled \in BOOLEAN
    BY DEF Init
  <1>2. auth \in AuthRecord /\ cache \in Snapshot
    BY FreshCacheType DEF Init, Tombstone, AuthRecord
  <1>3. nvsAuth = NoBlob /\ slot \in [Slots -> Snapshot \union {NoBlob}]
    BY DEF Init
  <1>4. /\ {active, settings, nvsSettings, fetches, faults} \subseteq Nat
        /\ issued \subseteq Keys
        /\ pc = "off"
    BY DEF Init
  <1> QED  BY <1>1, <1>2, <1>3, <1>4 DEF TypeOK, WorkHasAccount

LEMMA WorkHasAccountNext ==
    ASSUME TypeOK, WorkHasAccount, [Next]_vars
    PROVE  WorkHasAccount'
  <1> USE DEF WorkHasAccount, HasAuth, accountVars, cacheVars, configVars
  <1>1. CASE Boot  BY <1>1 DEF Boot
  <1>2. CASE PowerLoss  BY <1>2 DEF PowerLoss
  <1>3. CASE Cancel \/ StartPoll \/ PollWithoutKey \/ StartFetch
             \/ FetchRejected
    BY <1>3 DEF Cancel, StartPoll, PollWithoutKey, StartFetch, FetchRejected
  <1>4. ASSUME NEW k \in Keys,
               PollKeyDiscarded(k) \/ LinkStored(k) \/ LinkNotStored(k)
        PROVE  WorkHasAccount'
    BY <1>4, ClientAssumption DEF PollKeyDiscarded, LinkStored, LinkNotStored
  <1>5. CASE ClearAfterLink \/ ClearAfterUnlink
    BY <1>5 DEF ClearAfterLink, ClearAfterUnlink
  <1>6. ASSUME NEW changed \in BOOLEAN, NEW progress \in BOOLEAN,
               CommitDay(changed, progress)
        PROVE  WorkHasAccount'
    BY <1>6 DEF CommitDay
  <1>7. CASE BeginReconcile \/ SaveVerified \/ SaveFailed
    BY <1>7 DEF BeginReconcile, SaveVerified, SaveFailed
  <1>8. CASE Unlink  BY <1>8 DEF Unlink
  <1>9. CASE ToggleTimezone \/ ToggleTimezoneNotSaved
    BY <1>9 DEF ToggleTimezone, ToggleTimezoneNotSaved
  <1>10. CASE UNCHANGED vars  BY <1>10 DEF vars
  <1> QED
    BY <1>1, <1>2, <1>3, <1>4, <1>5, <1>6, <1>7, <1>8, <1>9, <1>10 DEF Next

LEMMA TypeNext ==
    ASSUME TypeOK, WorkHasAccount, [Next]_vars
    PROVE  TypeOK'
  <1> USE DEF accountVars, cacheVars, configVars, NoFault, Fault
  <1>1. CASE Boot
    BY <1>1, InitClientType DEF Boot, TypeOK
  <1>2. CASE PowerLoss
    <2>1. slot' \in [Slots -> Snapshot \union {NoBlob}]
      BY <1>2, EraseType DEF PowerLoss, TypeOK
    <2>2. Tombstone(0) \in AuthRecord /\ FreshCache(0, 0) \in Snapshot
      BY FreshCacheType DEF Tombstone, AuthRecord
    <2>3. persisted' \in BOOLEAN /\ cancelled' \in BOOLEAN
      BY <1>2 DEF PowerLoss
    <2>4. {active', settings', nvsSettings', fetches', faults'} \subseteq Nat
      BY <1>2 DEF PowerLoss, TypeOK
    <2>5. cache' \in Snapshot /\ auth' \in AuthRecord /\ issued' \subseteq Keys
      BY <1>2, <2>2 DEF PowerLoss, TypeOK
    <2>6. pc' = "off" /\ nvsAuth' = nvsAuth
      BY <1>2 DEF PowerLoss
    <2> QED  BY <2>1, <2>3, <2>4, <2>5, <2>6 DEF TypeOK
  <1>3. CASE Cancel  BY <1>3 DEF Cancel, TypeOK
  <1>4. CASE StartPoll  BY <1>4 DEF StartPoll, TypeOK
  <1>5. CASE PollWithoutKey  BY <1>5 DEF PollWithoutKey, TypeOK
  <1>6. ASSUME NEW k \in Keys, PollKeyDiscarded(k)
        PROVE  TypeOK'
    BY <1>6 DEF PollKeyDiscarded, TypeOK
  <1>7. ASSUME NEW k \in Keys, LinkStored(k) \/ LinkNotStored(k)
        PROVE  TypeOK'
    <2>1. [key |-> k, gen |-> NextGeneration] \in AuthRecord
      BY DEF NextGeneration, TypeOK, AuthRecord
    <2> QED  BY <1>7, <2>1 DEF LinkStored, LinkNotStored, TypeOK
  <1>8. CASE ClearAfterLink
    <2>1. FreshCache(auth.gen, active) \in Snapshot
      BY FreshCacheType DEF TypeOK, AuthRecord
    <2>2. slot' \in [Slots -> Snapshot \union {NoBlob}]
      BY <1>8, EraseType DEF ClearAfterLink, ClearCache
    <2>3. persisted' \in BOOLEAN /\ cancelled' \in BOOLEAN
      BY <1>8 DEF ClearAfterLink, TypeOK
    <2>4. {active', settings', nvsSettings', fetches', faults'} \subseteq Nat
      BY <1>8 DEF ClearAfterLink, ClearCache, TypeOK
    <2> QED  BY <1>8, <2>1, <2>2, <2>3, <2>4 DEF ClearAfterLink, TypeOK
  <1>9. CASE StartFetch  BY <1>9, FetchKeepsDays DEF StartFetch, TypeOK
  <1>10. CASE FetchRejected
    BY <1>10, FetchKeepsDays DEF FetchRejected, TypeOK
  <1>11. ASSUME NEW changed \in BOOLEAN, NEW progress \in BOOLEAN,
                CommitDay(changed, progress)
         PROVE  TypeOK'
    <2>2. persisted' \in BOOLEAN /\ cancelled' \in BOOLEAN
      BY <1>11 DEF CommitDay, TypeOK
    <2>3. cache' \in Snapshot  BY <1>11, CommitDayDoes
    <2>4. pc' \in {"idle", "saving"} /\ fetches' \in Nat
      BY <1>11 DEF CommitDay, TypeOK
    <2> QED  BY <1>11, <2>2, <2>3, <2>4 DEF CommitDay, TypeOK
  <1>12. CASE BeginReconcile
    <2>1. cache' \in Snapshot  BY <1>12, BeginReconcileDoes
    <2>2. persisted' \in BOOLEAN /\ cancelled' \in BOOLEAN
      BY <1>12 DEF BeginReconcile, TypeOK
    <2> QED  BY <1>12, <2>1, <2>2 DEF BeginReconcile, TypeOK
  <1>13. CASE SaveVerified
    BY <1>13 DEF SaveVerified, TypeOK
  <1>14. CASE SaveFailed
    BY <1>14 DEF SaveFailed, TypeOK, TargetSlot
  <1>15. CASE Unlink
    <2>1. /\ Tombstone(NextGeneration) \in AuthRecord
          /\ FreshCache(NextGeneration, active) \in Snapshot
      BY FreshCacheType DEF NextGeneration, Tombstone, TypeOK, AuthRecord
    <2>2. persisted' \in BOOLEAN /\ cancelled' \in BOOLEAN
      BY <1>15 DEF Unlink
    <2>3. auth' \in AuthRecord /\ cache' \in Snapshot
      BY <1>15, <2>1 DEF Unlink
    <2>4. /\ nvsAuth' \in AuthRecord \union {NoBlob}
          /\ pc' \in {"idle", "unlinked"}
          /\ faults' \in Nat
      BY <1>15, <2>3 DEF Unlink, TypeOK
    <2> QED  BY <1>15, <2>2, <2>3, <2>4 DEF Unlink, TypeOK
  <1>16. CASE ClearAfterUnlink
    BY <1>16, EraseType DEF ClearAfterUnlink, ClearCache, TypeOK
  <1>17. CASE ToggleTimezone
    <2>1. settings' \in Nat  BY <1>17 DEF ToggleTimezone, TypeOK
    <2> QED  BY <1>17, <2>1, InitClientType DEF ToggleTimezone, TypeOK
  <1>18. CASE ToggleTimezoneNotSaved
    BY <1>18 DEF ToggleTimezoneNotSaved, TypeOK
  <1>19. CASE UNCHANGED vars  BY <1>19 DEF vars, TypeOK
  <1> QED
    BY <1>1, <1>2, <1>3, <1>4, <1>5, <1>6, <1>7, <1>8, <1>9, <1>10, <1>11,
       <1>12, <1>13, <1>14, <1>15, <1>16, <1>17, <1>18, <1>19 DEF Next

\* Every reachable state is well formed, whatever fails.
THEOREM TypeCorrect == Spec => []TypeOK
  <1>1. TypeOK /\ WorkHasAccount /\ [Next]_vars => (TypeOK /\ WorkHasAccount)'
    BY TypeNext, WorkHasAccountNext
  <1> QED  BY TypeInit, <1>1, PTL DEF Spec

-------------------------------------------------------------------------------
(* Account isolation.  The argument: a durable record never carries a        *)
(* generation beyond the one the flash or the client has reached, a new       *)
(* account always takes a generation nobody has reached, and a slot is only   *)
(* read for its own generation.                                               *)

\* What vibe_init leaves when the credential can be read: the account of the
\* flash, and a cache of that account.
LEMMA InitClientAccount ==
    ASSUME TypeOK, SlotsBehindFlash, "authRead" \notin FaultKinds,
           NEW config \in Nat, InitClient(config)
    PROVE  /\ auth' = IF nvsAuth = NoBlob THEN Tombstone(1) ELSE nvsAuth
           /\ cache'.gen = auth'.gen
           /\ cache'.owners \subseteq {auth'.key}
  <1> PICK failed \in SUBSET ({"authRead", "cacheRead"} \intersect FaultKinds),
           readable \in SUBSET Slots :
        LET blobs == [i \in Slots |-> IF i \in readable THEN slot[i]
                                                        ELSE NoBlob]
        IN
        /\ auth' = IF "authRead" \in failed \/ nvsAuth = NoBlob
                   THEN Tombstone(1) ELSE nvsAuth
        /\ cache' = LoadedCache(blobs, auth', config)
    BY DEF InitClient
  <1> DEFINE blobs == [i \in Slots |-> IF i \in readable THEN slot[i]
                                                         ELSE NoBlob]
  <1>1. auth' = IF nvsAuth = NoBlob THEN Tombstone(1) ELSE nvsAuth
    OBVIOUS
  <1>2. cache' = LoadedCache(blobs, auth', config)
    OBVIOUS
  <1>3. CASE cache' = FreshCache(auth'.gen, config)
    BY <1>1, <1>3 DEF FreshCache
  <1>4. CASE \E i \in Slots : /\ i \in Compatible(blobs, auth'.gen, config)
                              /\ cache' = blobs[i]
    <2> PICK i \in Slots : /\ i \in Compatible(blobs, auth'.gen, config)
                           /\ cache' = blobs[i]
      BY <1>4
    <2>1. blobs[i] # NoBlob /\ blobs[i].gen = auth'.gen
      BY DEF Compatible
    <2>2. blobs[i] = slot[i]
      BY <2>1
    <2>3. nvsAuth # NoBlob
      BY <2>1, <2>2 DEF SlotsBehindFlash
    <2> QED  BY <1>1, <2>1, <2>2, <2>3 DEF SlotsBehindFlash
  <1> QED  BY <1>1, <1>2, <1>3, <1>4, LoadedCacheCases

\* A step that touches neither records nor accounts.
LEMMA QuietStep ==
    ASSUME AccountInv, WorkHasAccount',
           UNCHANGED <<auth, nvsAuth, slot>>,
           cache'.gen = cache.gen, cache'.owners = cache.owners,
           pc \notin {"off", "linked"}, pc' \notin {"off", "linked"}
    PROVE  AccountInv'
  BY DEF AccountInv, SlotsBehindFlash, SlotsBehindClient, FlashFollowsClient,
     CacheFollowsClient, HasAuth

LEMMA AccountInit == Init => AccountInv
  BY DEF Init, AccountInv, SlotsBehindFlash, SlotsBehindClient,
     FlashFollowsClient, WorkHasAccount, CacheFollowsClient, HasAuth, Tombstone,
     FreshCache

LEMMA AccountNext ==
    ASSUME TypeOK, AccountInv, "authRead" \notin FaultKinds, [Next]_vars
    PROVE  AccountInv'
  <1> WorkHasAccount'
    BY WorkHasAccountNext DEF AccountInv
  <1> USE DEF accountVars, cacheVars, configVars
  <1>1. CASE Boot
    <2>1. /\ auth' = IF nvsAuth = NoBlob THEN Tombstone(1) ELSE nvsAuth
          /\ cache'.gen = auth'.gen
          /\ cache'.owners \subseteq {auth'.key}
      BY <1>1, InitClientAccount DEF Boot, AccountInv, TypeOK
    <2>2. UNCHANGED <<slot, nvsAuth>> /\ pc' = "idle"
      BY <1>1 DEF Boot
    <2> QED
      BY <2>1, <2>2 DEF AccountInv, SlotsBehindFlash, SlotsBehindClient,
         FlashFollowsClient, CacheFollowsClient, HasAuth, Tombstone
  <1>2. CASE PowerLoss
    <2>1. /\ nvsAuth' = nvsAuth
          /\ \A i \in Slots : slot'[i] \in {slot[i], NoBlob}
      BY <1>2 DEF PowerLoss, Erase, TypeOK
    <2>2. pc' = "off" /\ auth' = Tombstone(0) /\ cache'.owners = {}
      BY <1>2 DEF PowerLoss, FreshCache
    <2> QED
      BY <2>1, <2>2 DEF AccountInv, SlotsBehindFlash, SlotsBehindClient,
         FlashFollowsClient, CacheFollowsClient, HasAuth, Tombstone
  <1>3. CASE Cancel \/ StartPoll \/ PollWithoutKey \/ StartFetch
             \/ FetchRejected \/ ToggleTimezoneNotSaved
    BY <1>3, QuietStep, FetchKeepsDays DEF Cancel, StartPoll, PollWithoutKey,
       StartFetch, FetchRejected, ToggleTimezoneNotSaved, SameDays
  <1>4. ASSUME NEW k \in Keys, PollKeyDiscarded(k)
        PROVE  AccountInv'
    BY <1>4, QuietStep DEF PollKeyDiscarded
  <1>5. ASSUME NEW k \in Keys, LinkStored(k)
        PROVE  AccountInv'
    <2>1. /\ auth' = [key |-> k, gen |-> auth.gen + 1]
          /\ nvsAuth' = auth'
          /\ UNCHANGED <<slot, cache>>
          /\ pc = "polling" /\ pc' = "linked"
      BY <1>5 DEF LinkStored, NextGeneration
    <2>2. auth'.gen = auth.gen + 1 /\ auth'.key = k
      BY <2>1
    <2>3. \A i \in Slots : slot'[i] # NoBlob =>
            slot'[i].gen \in Nat /\ slot'[i].gen <= auth.gen
      BY <2>1 DEF AccountInv, SlotsBehindClient, TypeOK, Snapshot
    <2>4. auth.gen \in Nat /\ nvsAuth' # NoBlob
      BY <2>1, ClientAssumption DEF TypeOK, AuthRecord
    <2>5. SlotsBehindFlash' /\ SlotsBehindClient'
      BY <2>1, <2>2, <2>3, <2>4 DEF SlotsBehindFlash, SlotsBehindClient
    <2>6. FlashFollowsClient' /\ CacheFollowsClient'
      BY <2>1, <2>4 DEF FlashFollowsClient, CacheFollowsClient
    <2> QED  BY <2>5, <2>6 DEF AccountInv
  <1>6. ASSUME NEW k \in Keys, LinkNotStored(k)
        PROVE  AccountInv'
    <2>1. CASE nvsAuth' = nvsAuth
      BY <1>6, <2>1, QuietStep DEF LinkNotStored
    <2>2. CASE nvsAuth' = [key |-> k, gen |-> auth.gen + 1]
      <3>1. UNCHANGED <<auth, slot, cache>> /\ pc = "polling" /\ pc' = "idle"
        BY <1>6 DEF LinkNotStored
      <3>2. /\ nvsAuth'.gen = auth.gen + 1
            /\ auth.gen \in Nat
            /\ nvsAuth' # NoBlob
        BY <2>2, ClientAssumption DEF TypeOK, AuthRecord
      <3>3. \A i \in Slots : slot'[i] # NoBlob =>
              slot'[i].gen \in Nat /\ slot'[i].gen <= auth.gen
        BY <3>1 DEF AccountInv, SlotsBehindClient, TypeOK, Snapshot
      <3>4. SlotsBehindFlash' /\ SlotsBehindClient'
        BY <3>1, <3>2, <3>3 DEF SlotsBehindFlash, SlotsBehindClient
      <3>5. FlashFollowsClient' /\ CacheFollowsClient'
        BY <3>1, <3>2 DEF AccountInv, FlashFollowsClient, CacheFollowsClient
      <3> QED  BY <3>4, <3>5 DEF AccountInv
    <2> QED  BY <1>6, <2>1, <2>2 DEF LinkNotStored, NextGeneration
  <1>7. CASE ClearAfterLink \/ ClearAfterUnlink
    <2>1. /\ \A i \in Slots : slot'[i] \in {slot[i], NoBlob}
          /\ UNCHANGED <<auth, nvsAuth>>
          /\ pc' = "idle"
      BY <1>7 DEF ClearAfterLink, ClearAfterUnlink, ClearCache, Erase, TypeOK
    <2>2. cache'.gen = auth.gen /\ cache'.owners \subseteq {auth.key}
      BY <1>7 DEF ClearAfterLink, ClearAfterUnlink, FreshCache, AccountInv,
         CacheFollowsClient
    <2>3. pc # "off"
      BY <1>7 DEF ClearAfterLink, ClearAfterUnlink
    <2> QED
      BY <2>1, <2>2, <2>3 DEF AccountInv, SlotsBehindFlash, SlotsBehindClient,
         FlashFollowsClient, CacheFollowsClient, HasAuth
  <1>8. ASSUME NEW changed \in BOOLEAN, NEW progress \in BOOLEAN,
               CommitDay(changed, progress)
        PROVE  AccountInv'
    <2>1. /\ UNCHANGED <<auth, nvsAuth, slot>>
          /\ pc = "fetching" /\ pc' \in {"idle", "saving"}
      BY <1>8 DEF CommitDay
    <2>2. /\ cache'.gen = cache.gen
          /\ cache'.owners \subseteq cache.owners \union {auth.key}
      BY <1>8, CommitDayDoes DEF AccountInv
    <2> QED
      BY <2>1, <2>2 DEF AccountInv, SlotsBehindFlash, SlotsBehindClient,
         FlashFollowsClient, CacheFollowsClient, HasAuth
  <1>9. CASE BeginReconcile
    <2>1. /\ UNCHANGED <<auth, nvsAuth, slot>>
          /\ pc = "idle" /\ pc' = "saving"
      BY <1>9 DEF BeginReconcile
    <2>2. cache'.gen = cache.gen /\ cache'.owners = cache.owners
      BY <1>9, BeginReconcileDoes
    <2> QED
      BY <2>1, <2>2 DEF AccountInv, SlotsBehindFlash, SlotsBehindClient,
         FlashFollowsClient, CacheFollowsClient, HasAuth
  <1>10. CASE SaveVerified \/ SaveFailed
    <2>1. /\ UNCHANGED <<auth, nvsAuth, cache>>
          /\ pc = "saving" /\ pc' = "idle"
          /\ \A i \in Slots : slot'[i] \in {slot[i], cache, NoBlob}
      BY <1>10 DEF SaveVerified, SaveFailed, TypeOK
    <2>2. /\ HasAuth
          /\ cache.gen = auth.gen
          /\ cache.owners \subseteq {auth.key}
      BY <2>1 DEF AccountInv, WorkHasAccount, CacheFollowsClient
    <2>3. /\ nvsAuth # NoBlob
          /\ nvsAuth = auth \/ nvsAuth.gen = auth.gen + 1
          /\ auth.gen \in Nat
      BY <2>2 DEF AccountInv, FlashFollowsClient, TypeOK, AuthRecord
    <2>4. SlotsBehindFlash' /\ SlotsBehindClient'
      BY <2>1, <2>2, <2>3 DEF AccountInv, SlotsBehindFlash, SlotsBehindClient
    <2>5. FlashFollowsClient' /\ CacheFollowsClient'
      BY <2>1, <2>2, <2>3 DEF FlashFollowsClient, CacheFollowsClient, HasAuth
    <2> QED  BY <2>4, <2>5 DEF AccountInv
  <1>11. CASE Unlink
    <2>1. /\ auth' = Tombstone(auth.gen + 1)
          /\ cache' = FreshCache(auth.gen + 1, active)
          /\ nvsAuth' \in {nvsAuth, auth'}
          /\ UNCHANGED slot
          /\ pc \notin {"off", "linked"} /\ pc' \in {"idle", "unlinked"}
      BY <1>11 DEF Unlink, NextGeneration
    <2>2. /\ auth'.gen = auth.gen + 1 /\ auth'.key = NoKey
          /\ auth.gen \in Nat
          /\ auth' # NoBlob
          /\ cache'.gen = auth'.gen /\ cache'.owners = {}
      BY <2>1, ClientAssumption DEF Tombstone, FreshCache, TypeOK, AuthRecord
    <2>3. \A i \in Slots : slot'[i] # NoBlob =>
            slot'[i].gen \in Nat /\ slot'[i].gen <= auth.gen
      BY <2>1 DEF AccountInv, SlotsBehindClient, TypeOK, Snapshot
    <2>4. SlotsBehindFlash'
      BY <2>1, <2>2, <2>3 DEF AccountInv, SlotsBehindFlash
    <2>5. SlotsBehindClient' /\ FlashFollowsClient' /\ CacheFollowsClient'
      BY <2>1, <2>2, <2>3 DEF SlotsBehindClient, FlashFollowsClient,
         CacheFollowsClient, HasAuth
    <2> QED  BY <2>4, <2>5 DEF AccountInv
  <1>12. CASE ToggleTimezone
    <2>1. settings' \in Nat  BY <1>12 DEF ToggleTimezone, TypeOK
    <2>2. /\ auth' = IF nvsAuth = NoBlob THEN Tombstone(1) ELSE nvsAuth
          /\ cache'.gen = auth'.gen
          /\ cache'.owners \subseteq {auth'.key}
      BY <1>12, <2>1, InitClientAccount DEF ToggleTimezone, AccountInv
    <2>3. UNCHANGED <<slot, nvsAuth>> /\ pc' = "idle"
      BY <1>12 DEF ToggleTimezone
    <2> QED
      BY <2>2, <2>3 DEF AccountInv, SlotsBehindFlash, SlotsBehindClient,
         FlashFollowsClient, CacheFollowsClient, HasAuth, Tombstone
  <1>13. CASE UNCHANGED vars
    BY <1>13 DEF vars, AccountInv, SlotsBehindFlash, SlotsBehindClient,
       FlashFollowsClient, CacheFollowsClient, HasAuth
  <1> QED
    BY <1>1, <1>2, <1>3, <1>4, <1>5, <1>6, <1>7, <1>8, <1>9, <1>10, <1>11,
       <1>12, <1>13 DEF Next

\* As long as the credential record can be read back, AccountInv holds whatever
\* write, erase or cache read fails and wherever the power goes.
THEOREM AccountInvariant ==
    "authRead" \notin FaultKinds => (Spec => [](TypeOK /\ AccountInv))
  <1> SUFFICES ASSUME "authRead" \notin FaultKinds
               PROVE  Spec => [](TypeOK /\ AccountInv)
    OBVIOUS
  <1>1. TypeOK /\ AccountInv /\ [Next]_vars => (TypeOK /\ AccountInv)'
    BY TypeNext, AccountNext DEF AccountInv
  <1> QED  BY TypeInit, AccountInit, <1>1, PTL DEF Spec

\* No mix of accounts, and no days of an earlier account.
THEOREM AccountsIsolated ==
    "authRead" \notin FaultKinds => (Spec => []AccountIsolation)
  <1>1. AccountInv => AccountIsolation
    BY DEF AccountInv, CacheFollowsClient, AccountIsolation
  <1> QED  BY AccountInvariant, <1>1, PTL

-------------------------------------------------------------------------------
(* The persisted flag *)

\* The candidate chosen has the highest sequence (vibe_store.c:203).
LEMMA NewestIsHighest ==
    ASSUME NEW blobs, NEW candidates \in SUBSET Slots,
           \A i \in candidates : blobs[i].seq \in Nat
    PROVE  \A i \in candidates :
             blobs[i].seq <= blobs[Newest(blobs, candidates)].seq
  BY DEF Newest

LEMMA TargetIsSlot == \A s : TargetSlot(s) \in Slots
  BY DEF TargetSlot

\* What vibe_init leaves when every read works: a snapshot ahead of all slots
\* of its account and configuration, and equal to its own slot when loaded.
LEMMA InitClientSnapshot ==
    ASSUME TypeOK, SnapshotInv, "cacheRead" \notin FaultKinds,
           NEW config \in Nat, InitClient(config)
    PROVE  /\ cache'.config = config
           /\ active' = config
           /\ auth'.key # NoKey =>
                /\ \A i \in Compatible(slot, auth'.gen, config) :
                      slot[i].seq <= cache'.seq
                /\ persisted' => slot[TargetSlot(cache'.seq)] = cache'
  <1>1. /\ active' = config
        /\ cache' = LoadedCache(slot, auth', config)
        /\ persisted' = LoadedPersisted(slot, auth', config)
    <2> PICK failed \in SUBSET ({"authRead", "cacheRead"} \intersect FaultKinds),
             readable \in SUBSET Slots :
          LET blobs == [i \in Slots |-> IF i \in readable THEN slot[i]
                                                          ELSE NoBlob]
          IN
          /\ "cacheRead" \notin failed => readable = Slots
          /\ active' = config
          /\ cache' = LoadedCache(blobs, auth', config)
          /\ persisted' = LoadedPersisted(blobs, auth', config)
      BY DEF InitClient
    <2>1. [i \in Slots |-> IF i \in readable THEN slot[i] ELSE NoBlob] = slot
      BY DEF TypeOK
    <2> QED  BY <2>1
  <1> DEFINE candidates == Compatible(slot, auth'.gen, config)
  <1>2. /\ candidates \in SUBSET Slots
        /\ \A i \in candidates : slot[i].config = config /\ slot[i].seq \in Nat
      BY DEF Compatible, TypeOK, Snapshot
  <1>3. CASE auth'.key # NoKey /\ candidates # {}
    <2>1. cache' = slot[Newest(slot, candidates)]
      BY <1>1, <1>3 DEF LoadedCache
    <2>2. Newest(slot, candidates) \in candidates
      BY <1>2, <1>3, NewestIsCandidate
    <2>3. \A i \in candidates : slot[i].seq <= cache'.seq
      BY <1>2, <2>1, NewestIsHighest
    <2>4. slot[TargetSlot(cache'.seq)] = cache'
      BY <1>2, <2>1, <2>2 DEF SnapshotInv, Compatible
    <2> QED  BY <1>1, <1>2, <2>1, <2>2, <2>3, <2>4
  <1>4. CASE ~(auth'.key # NoKey /\ candidates # {})
    <2>1. cache' = FreshCache(auth'.gen, config)
      BY <1>1, <1>4 DEF LoadedCache
    <2>2. ~persisted'
      BY <1>1, <1>4 DEF LoadedPersisted
    <2>3. cache'.config = config
      BY <2>1 DEF FreshCache
    <2> QED  BY <1>1, <1>4, <2>2, <2>3
  <1> QED  BY <1>3, <1>4

LEMMA SnapshotInit == Init => SnapshotInv
  BY DEF Init, SnapshotInv

LEMMA SnapshotNext ==
    ASSUME TypeOK, AccountInv, SnapshotInv, "cacheRead" \notin FaultKinds,
           [Next]_vars
    PROVE  SnapshotInv'
  <1> USE DEF accountVars, cacheVars, configVars
  <1>1. CASE Boot
    <2>1. /\ UNCHANGED slot /\ pc' = "idle" /\ nvsSettings \in Nat
          /\ InitClient(nvsSettings)
      BY <1>1 DEF Boot, TypeOK
    <2>2. cache' # NoBlob  BY <2>1, InitClientType, ClientAssumption
    <2> QED
      BY <2>1, <2>2, InitClientSnapshot
      DEF SnapshotInv, Compatible, HasAuth, SameDays
  <1>2. CASE PowerLoss
    <2>1. \A i \in Slots : slot'[i] \in {slot[i], NoBlob}
      BY <1>2 DEF PowerLoss, Erase, TypeOK
    <2> QED  BY <1>2, <2>1 DEF PowerLoss, SnapshotInv
  <1>3. CASE Cancel \/ StartPoll \/ PollWithoutKey \/ StartFetch
             \/ FetchRejected \/ ToggleTimezoneNotSaved
    <2>1. /\ UNCHANGED <<auth, slot, persisted, active>>
          /\ pc \notin {"off", "linked"} /\ pc' \in {"idle", "polling", "fetching"}
      BY <1>3 DEF Cancel, StartPoll, PollWithoutKey, StartFetch, FetchRejected,
         ToggleTimezoneNotSaved
    <2>2. SameDays(cache', cache)
      BY <1>3, FetchKeepsDays DEF Cancel, StartPoll, PollWithoutKey,
         ToggleTimezoneNotSaved, SameDays
    <2> QED  BY <2>1, <2>2 DEF SnapshotInv, Compatible, HasAuth, SameDays
  <1>4. ASSUME NEW k \in Keys,
               PollKeyDiscarded(k) \/ LinkStored(k) \/ LinkNotStored(k)
        PROVE  SnapshotInv'
    <2>1. /\ UNCHANGED <<slot, cache, persisted, active>>
          /\ pc = "polling"
          /\ pc' = "linked" \/ (pc' = "idle" /\ UNCHANGED auth)
      BY <1>4 DEF PollKeyDiscarded, LinkStored, LinkNotStored
    <2> QED  BY <2>1 DEF SnapshotInv, Compatible, HasAuth
  <1>5. CASE ClearAfterLink
    <2>1. /\ \A i \in Slots : slot'[i] \in {slot[i], NoBlob}
          /\ UNCHANGED <<auth, active>>
          /\ pc = "linked" /\ pc' = "idle"
          /\ cache'.config = active /\ ~persisted'
      BY <1>5 DEF ClearAfterLink, ClearCache, Erase, FreshCache, TypeOK
    <2>2. \A i \in Slots : slot[i] # NoBlob => slot[i].gen # auth.gen
      BY <2>1 DEF AccountInv, SlotsBehindClient, TypeOK, Snapshot, AuthRecord
    <2>3. Compatible(slot', auth'.gen, active') = {}
      BY <2>1, <2>2 DEF Compatible
    <2> QED  BY <2>1, <2>3 DEF SnapshotInv
  <1>6. CASE ClearAfterUnlink
    <2>1. /\ \A i \in Slots : slot'[i] \in {slot[i], NoBlob}
          /\ UNCHANGED <<auth, cache, persisted, active>>
          /\ pc = "unlinked" /\ pc' = "idle"
      BY <1>6 DEF ClearAfterUnlink, ClearCache, Erase, TypeOK
    <2> QED  BY <2>1 DEF SnapshotInv, Compatible, HasAuth
  <1>7. ASSUME NEW changed \in BOOLEAN, NEW progress \in BOOLEAN,
               CommitDay(changed, progress)
        PROVE  SnapshotInv'
    <2>1. /\ UNCHANGED <<auth, slot, active>>
          /\ pc = "fetching"
          /\ pc' = IF persisted' THEN "idle" ELSE "saving"
      BY <1>7 DEF CommitDay
    <2>2. /\ cache'.config = cache.config
          /\ cache'.seq >= cache.seq
          /\ cache.seq \in Nat /\ cache'.seq \in Nat
      BY <1>7, CommitDayDoes DEF AccountInv, TypeOK, Snapshot
    <2>3. persisted' => persisted /\ SameDays(cache', cache)
      BY <1>7, CommitDayDoes DEF AccountInv
    <2>4. \A i \in Slots : slot[i] # NoBlob => slot[i].seq \in Nat
      BY DEF TypeOK, Snapshot
    <2> QED
      BY <2>1, <2>2, <2>3, <2>4 DEF SnapshotInv, Compatible, HasAuth, SameDays
  <1>8. CASE BeginReconcile
    <2>1. /\ UNCHANGED <<auth, slot, active>>
          /\ pc = "idle" /\ pc' = "saving" /\ ~persisted'
      BY <1>8 DEF BeginReconcile
    <2>2. /\ cache'.config = cache.config
          /\ cache'.seq >= cache.seq
          /\ cache.seq \in Nat /\ cache'.seq \in Nat
      BY <1>8, BeginReconcileDoes DEF TypeOK, Snapshot
    <2>3. \A i \in Slots : slot[i] # NoBlob => slot[i].seq \in Nat
      BY DEF TypeOK, Snapshot
    <2> QED  BY <2>1, <2>2, <2>3 DEF SnapshotInv, Compatible, HasAuth
  <1>9. CASE SaveVerified \/ SaveFailed
    <2> DEFINE own == TargetSlot(cache.seq)
    <2>0. PICK blob \in {slot[own], cache, NoBlob} :
            slot' = [slot EXCEPT ![own] = blob]
      BY <1>9 DEF SaveVerified, SaveFailed
    <2>1. /\ UNCHANGED <<auth, cache, active>>
          /\ pc = "saving" /\ pc' = "idle"
          /\ \A i \in Slots : slot'[i] \in {slot[i], NoBlob}
                              \/ (i = own /\ slot'[i] = cache)
      BY <1>9, <2>0 DEF SaveVerified, SaveFailed, TypeOK
    <2>2. persisted' => slot'[TargetSlot(cache.seq)] = cache
      BY <1>9, TargetIsSlot DEF SaveVerified, SaveFailed, TypeOK, SnapshotInv
    <2>3. cache.seq \in Nat /\ HasAuth /\ cache # NoBlob
      BY <2>1, ClientAssumption DEF TypeOK, Snapshot, AccountInv, WorkHasAccount
    <2> QED
      BY <2>1, <2>2, <2>3 DEF SnapshotInv, Compatible, HasAuth, SameDays
  <1>10. CASE Unlink
    <2>1. /\ UNCHANGED <<slot, active>>
          /\ pc' \in {"idle", "unlinked"}
          /\ ~HasAuth'
          /\ cache'.config = active
      BY <1>10 DEF Unlink, HasAuth, Tombstone, FreshCache
    <2> QED  BY <2>1 DEF SnapshotInv
  <1>11. CASE ToggleTimezone
    <2>1. /\ UNCHANGED slot /\ pc' = "idle" /\ settings' \in Nat
          /\ InitClient(settings')
      BY <1>11 DEF ToggleTimezone, TypeOK
    <2>2. cache' # NoBlob  BY <2>1, InitClientType, ClientAssumption
    <2> QED
      BY <2>1, <2>2, InitClientSnapshot
      DEF SnapshotInv, Compatible, HasAuth, SameDays
  <1>12. CASE UNCHANGED vars
    BY <1>12 DEF vars, SnapshotInv, Compatible, HasAuth
  <1> QED
    BY <1>1, <1>2, <1>3, <1>4, <1>5, <1>6, <1>7, <1>8, <1>9, <1>10, <1>11,
       <1>12 DEF Next

\* A snapshot marked persisted is the one a load would choose.
LEMMA PersistedIsNewest ==
    ASSUME TypeOK, AccountInv, SnapshotInv, persisted, HasAuth, pc # "linked"
    PROVE  LET candidates == Compatible(slot, auth.gen, active) IN
           /\ candidates \in SUBSET Slots /\ candidates # {}
           /\ Newest(slot, candidates) = TargetSlot(cache.seq)
           /\ SameDays(slot[TargetSlot(cache.seq)], cache)
  <1> DEFINE own == TargetSlot(cache.seq)
             candidates == Compatible(slot, auth.gen, active)
  <1>1. pc # "off"
    BY DEF AccountInv, CacheFollowsClient, HasAuth, Tombstone
  <1>2. /\ own \in Slots
        /\ slot[own] # NoBlob /\ SameDays(slot[own], cache)
        /\ \A i \in candidates : slot[i].seq <= cache.seq
    BY <1>1, TargetIsSlot DEF SnapshotInv
  <1>3. cache.gen = auth.gen /\ cache.config = active
    BY <1>1 DEF AccountInv, CacheFollowsClient, SnapshotInv
  <1>4. own \in candidates /\ candidates \in SUBSET Slots
    BY <1>2, <1>3 DEF Compatible, SameDays
  <1>5. \A i \in candidates : slot[i].seq \in Nat /\ TargetSlot(slot[i].seq) = i
    BY DEF Compatible, TypeOK, Snapshot, SnapshotInv
  <1>6. Newest(slot, candidates) = own
    <2>1. Newest(slot, candidates) \in candidates
      BY <1>4, NewestIsCandidate
    <2>2. slot[own].seq <= slot[Newest(slot, candidates)].seq
      BY <1>4, <1>5, NewestIsHighest
    <2>3. slot[Newest(slot, candidates)].seq <= slot[own].seq
      BY <1>2, <2>1 DEF SameDays
    <2>4. slot[Newest(slot, candidates)].seq = slot[own].seq
      BY <1>4, <1>5, <2>1, <2>2, <2>3
    <2> QED  BY <1>4, <1>5, <2>1, <2>4
  <1> QED  BY <1>2, <1>4, <1>6

\* A boot gives back the days the flag vouches for.
LEMMA PersistedIsRestored ==
    ASSUME TypeOK, AccountInv, SnapshotInv
    PROVE  RebootRestoresPersisted
  <1> SUFFICES ASSUME persisted, HasAuth, pc # "linked", nvsAuth = auth,
                      nvsSettings = active
               PROVE  /\ LoadedPersisted(slot, nvsAuth, nvsSettings)
                      /\ SameDays(LoadedCache(slot, nvsAuth, nvsSettings),
                                  cache)
    BY DEF RebootRestoresPersisted
  <1>1. LET candidates == Compatible(slot, auth.gen, active) IN
        /\ candidates # {}
        /\ Newest(slot, candidates) = TargetSlot(cache.seq)
        /\ SameDays(slot[TargetSlot(cache.seq)], cache)
    BY PersistedIsNewest
  <1> QED  BY <1>1 DEF LoadedPersisted, LoadedCache, HasAuth

\* With reads that work, every day in RAM comes back after a power cut while the
\* persisted flag is set, whatever write or erase failed before and wherever the
\* power goes; the progress of a round may come back older (vibe_store.c:223).
THEOREM PersistedSurvivesReboot ==
    {"authRead", "cacheRead"} \intersect FaultKinds = {}
      => (Spec => []RebootRestoresPersisted)
  <1> SUFFICES ASSUME {"authRead", "cacheRead"} \intersect FaultKinds = {}
               PROVE  Spec => []RebootRestoresPersisted
    OBVIOUS
  <1> DEFINE Inv == TypeOK /\ AccountInv /\ SnapshotInv
  <1>1. Init => Inv
    BY TypeInit, AccountInit, SnapshotInit
  <1>2. Inv /\ [Next]_vars => Inv'
    <2>1. "authRead" \notin FaultKinds /\ "cacheRead" \notin FaultKinds
      OBVIOUS
    <2> SUFFICES ASSUME Inv, [Next]_vars PROVE Inv'
      OBVIOUS
    <2>2. TypeOK'  BY TypeNext DEF AccountInv
    <2>3. AccountInv'  BY <2>1, AccountNext
    <2>4. SnapshotInv'  BY <2>1, SnapshotNext
    <2> QED  BY <2>2, <2>3, <2>4
  <1>3. Inv => RebootRestoresPersisted
    BY PersistedIsRestored
  <1> QED  BY <1>1, <1>2, <1>3, PTL DEF Spec

-------------------------------------------------------------------------------
(* The two slots.  Until something fails, a snapshot that is not in a slot    *)
(* yet goes to the slot a boot would not load, or there is none to load.      *)

SpareSlot ==
    LET candidates == Compatible(slot, auth.gen, active) IN
    faults = 0 /\ pc \notin {"off", "linked"} /\ HasAuth =>
        \/ candidates = {}
        \/ pc # "saving" /\ persisted
        \/ pc = "saving" /\ Newest(slot, candidates) # TargetSlot(cache.seq)

\* Two sequences in a row go to different slots.
LEMMA SlotsAlternate ==
    ASSUME NEW s \in Nat
    PROVE  TargetSlot(s + 1) # TargetSlot(s)
  <1>1. s % 2 = 0 => (s + 1) % 2 # 0  OBVIOUS
  <1>2. s % 2 # 0 => (s + 1) % 2 = 0  OBVIOUS
  <1> QED  BY <1>1, <1>2 DEF TargetSlot

\* After a load in which nothing failed, a snapshot that is not persisted has
\* no slot to compete with.
LEMMA InitClientSpare ==
    ASSUME TypeOK, NEW config \in Nat, InitClient(config), faults' = 0
    PROVE  auth'.key # NoKey =>
             persisted' \/ Compatible(slot, auth'.gen, active') = {}
  <1>1. /\ active' = config
        /\ persisted' = LoadedPersisted(slot, auth', config)
    <2> PICK failed \in SUBSET ({"authRead", "cacheRead"} \intersect FaultKinds),
             readable \in SUBSET Slots :
          LET blobs == [i \in Slots |-> IF i \in readable THEN slot[i]
                                                          ELSE NoBlob]
          IN
          /\ "cacheRead" \notin failed => readable = Slots
          /\ faults' = IF failed = {} THEN faults ELSE faults + 1
          /\ active' = config
          /\ persisted' = LoadedPersisted(blobs, auth', config)
      BY DEF InitClient
    <2>1. failed = {}  BY DEF TypeOK
    <2>2. [i \in Slots |-> IF i \in readable THEN slot[i] ELSE NoBlob] = slot
      BY <2>1 DEF TypeOK
    <2> QED  BY <2>2
  <1> QED  BY <1>1 DEF LoadedPersisted

\* A clean snapshot that becomes dirty leaves its slot for the other one.
LEMMA DirtyTakesOther ==
    ASSUME TypeOK, AccountInv, SnapshotInv, SpareSlot, faults = 0,
           pc \in {"idle", "fetching"}, HasAuth,
           UNCHANGED <<auth, slot, active>>, pc' = "saving",
           persisted => cache'.seq = cache.seq + 1
    PROVE  SpareSlot'
  <1> DEFINE candidates == Compatible(slot, auth.gen, active)
  <1>1. Compatible(slot', auth'.gen, active') = candidates
        /\ Newest(slot', candidates) = Newest(slot, candidates)
    OBVIOUS
  <1>2. CASE candidates = {}  BY <1>1, <1>2 DEF SpareSlot
  <1>3. CASE candidates # {}
    <2>1. persisted  BY <1>3 DEF SpareSlot
    <2>2. Newest(slot, candidates) = TargetSlot(cache.seq)
      BY <2>1, PersistedIsNewest
    <2>3. cache.seq \in Nat  BY DEF TypeOK, Snapshot
    <2>4. Newest(slot, candidates) # TargetSlot(cache'.seq)
      BY <2>1, <2>2, <2>3, SlotsAlternate
    <2> QED  BY <1>1, <2>4 DEF SpareSlot
  <1> QED  BY <1>2, <1>3

LEMMA SpareInit == Init => SpareSlot
  BY DEF Init, SpareSlot

LEMMA SpareNext ==
    ASSUME TypeOK, AccountInv, SnapshotInv, SpareSlot, [Next]_vars
    PROVE  SpareSlot'
  <1> USE DEF accountVars, cacheVars, configVars
  <1> SUFFICES ASSUME faults' = 0, pc' \notin {"off", "linked"}, HasAuth'
               PROVE  SpareSlot'
    BY DEF SpareSlot
  <1>0. faults \in Nat  BY DEF TypeOK
  <1>1. CASE Boot
    <2>1. /\ UNCHANGED slot /\ pc' = "idle" /\ nvsSettings \in Nat
          /\ InitClient(nvsSettings)
      BY <1>1 DEF Boot, TypeOK
    <2> QED  BY <2>1, InitClientSpare DEF SpareSlot, HasAuth
  <1>2. CASE PowerLoss  BY <1>2 DEF PowerLoss
  <1>3. CASE Cancel \/ StartPoll \/ PollWithoutKey \/ StartFetch
             \/ FetchRejected
    <2>1. /\ UNCHANGED <<auth, slot, persisted, active, faults>>
          /\ pc \in {"idle", "polling", "fetching"}
          /\ pc' \in {"idle", "polling", "fetching"}
      BY <1>3 DEF Cancel, StartPoll, PollWithoutKey, StartFetch, FetchRejected
    <2> QED  BY <2>1 DEF SpareSlot, HasAuth
  <1>4. CASE ToggleTimezoneNotSaved
    BY <1>0, <1>4 DEF ToggleTimezoneNotSaved, Fault
  <1>5. ASSUME NEW k \in Keys,
               PollKeyDiscarded(k) \/ LinkStored(k) \/ LinkNotStored(k)
        PROVE  SpareSlot'
    <2>1. CASE LinkNotStored(k)  BY <1>0, <2>1 DEF LinkNotStored, Fault
    <2>2. CASE LinkStored(k)  BY <2>2 DEF LinkStored
    <2>3. CASE PollKeyDiscarded(k)
      BY <2>3 DEF PollKeyDiscarded, SpareSlot, HasAuth
    <2> QED  BY <1>5, <2>1, <2>2, <2>3
  <1>6. CASE ClearAfterLink
    <2>1. /\ \A i \in Slots : slot'[i] \in {slot[i], NoBlob}
          /\ UNCHANGED <<auth, active>>
          /\ pc = "linked"
      BY <1>6 DEF ClearAfterLink, ClearCache, Erase, TypeOK
    <2>2. \A i \in Slots : slot[i] # NoBlob => slot[i].gen # auth.gen
      BY <2>1 DEF AccountInv, SlotsBehindClient, TypeOK, Snapshot, AuthRecord
    <2>3. Compatible(slot', auth'.gen, active') = {}
      BY <2>1, <2>2 DEF Compatible
    <2> QED  BY <2>3 DEF SpareSlot
  <1>7. CASE ClearAfterUnlink
    BY <1>7 DEF ClearAfterUnlink, SnapshotInv, HasAuth
  <1>8. ASSUME NEW changed \in BOOLEAN, NEW progress \in BOOLEAN,
               CommitDay(changed, progress)
        PROVE  SpareSlot'
    <2>1. /\ UNCHANGED <<auth, slot, active, faults>>
          /\ pc = "fetching" /\ HasAuth
          /\ pc' = IF persisted' THEN "idle" ELSE "saving"
      BY <1>8 DEF CommitDay, AccountInv, WorkHasAccount
    <2>2. CASE persisted'  BY <2>1, <2>2 DEF SpareSlot
    <2>3. CASE ~persisted'
      <3>1. persisted => cache'.seq = cache.seq + 1
        BY <1>8, <2>3, CommitDayDoes DEF AccountInv
      <3> QED  BY <2>1, <2>3, <3>1, DirtyTakesOther
    <2> QED  BY <2>2, <2>3
  <1>9. CASE BeginReconcile
    <2>1. /\ UNCHANGED <<auth, slot, active, faults>>
          /\ pc = "idle" /\ HasAuth /\ pc' = "saving"
      BY <1>9 DEF BeginReconcile
    <2>2. persisted => cache'.seq = cache.seq + 1
      BY <1>9, BeginReconcileDoes
    <2> QED  BY <2>1, <2>2, DirtyTakesOther
  <1>10. CASE SaveVerified  BY <1>10 DEF SaveVerified, SpareSlot
  <1>11. CASE SaveFailed  BY <1>0, <1>11 DEF SaveFailed, Fault
  <1>12. CASE Unlink  BY <1>12 DEF Unlink, HasAuth, Tombstone
  <1>13. CASE ToggleTimezone
    <2>1. /\ UNCHANGED slot /\ pc' = "idle" /\ settings' \in Nat
          /\ InitClient(settings')
      BY <1>13 DEF ToggleTimezone, TypeOK
    <2> QED  BY <2>1, InitClientSpare DEF SpareSlot, HasAuth
  <1>14. CASE UNCHANGED vars
    BY <1>14 DEF vars, SpareSlot, Compatible, HasAuth
  <1> QED
    BY <1>1, <1>2, <1>3, <1>4, <1>5, <1>6, <1>7, <1>8, <1>9, <1>10, <1>11,
       <1>12, <1>13, <1>14 DEF Next

\* What the first failed save leaves loads a snapshot that is not older.
LEMMA FailedSaveKeepsSnapshot ==
    ASSUME TypeOK, AccountInv, SnapshotInv, SpareSlot, [Next]_vars,
           pc = "saving", faults = 0, faults' = 1
    PROVE  LoadedCache(slot', auth, active).seq
             >= LoadedCache(slot, auth, active).seq
  <1> DEFINE own == TargetSlot(cache.seq)
             candidates == Compatible(slot, auth.gen, active)
             left == Compatible(slot', auth.gen, active)
  <1>1. SaveFailed
    BY DEF Next, vars, Boot, PowerLoss, Cancel, StartPoll, PollWithoutKey,
       PollKeyDiscarded, LinkStored, LinkNotStored, ClearAfterLink,
       StartFetch, FetchRejected, CommitDay, BeginReconcile, SaveVerified,
       Unlink, ClearAfterUnlink, ToggleTimezone, ToggleTimezoneNotSaved, NoFault
  <1>2. HasAuth  BY DEF AccountInv, WorkHasAccount
  <1>3. /\ slot' \in [Slots -> Snapshot \union {NoBlob}]
        /\ \A i \in Slots : i # own => slot'[i] = slot[i]
    BY <1>1 DEF SaveFailed, TypeOK
  <1>4. /\ candidates \in SUBSET Slots /\ left \in SUBSET Slots
        /\ \A i \in candidates : slot[i].seq \in Nat
        /\ \A i \in left : slot'[i].seq \in Nat
    BY <1>3 DEF Compatible, TypeOK, Snapshot
  <1>5. CASE candidates = {}
    <2>1. LoadedCache(slot, auth, active).seq = 0
      BY <1>5 DEF LoadedCache, FreshCache
    <2>2. LoadedCache(slot', auth, active).seq \in Nat
      <3>1. CASE left = {}  BY <3>1 DEF LoadedCache, FreshCache
      <3>2. CASE left # {}
        <4>1. Newest(slot', left) \in left
          BY <1>4, <3>2, NewestIsCandidate
        <4>2. LoadedCache(slot', auth, active) = slot'[Newest(slot', left)]
          BY <1>2, <3>2 DEF LoadedCache, HasAuth
        <4> QED  BY <1>4, <4>1, <4>2
      <3> QED  BY <3>1, <3>2
    <2> QED  BY <2>1, <2>2
  <1>6. CASE candidates # {}
    <2> DEFINE newest == Newest(slot, candidates)
    <2>1. newest # own  BY <1>2, <1>6 DEF SpareSlot
    <2>2. newest \in candidates  BY <1>4, <1>6, NewestIsCandidate
    <2>3. newest \in Slots /\ slot'[newest] = slot[newest]
      BY <1>3, <1>4, <2>1, <2>2
    <2>4. newest \in left  BY <2>2, <2>3 DEF Compatible
    <2>5. slot'[newest].seq <= slot'[Newest(slot', left)].seq
      BY <1>4, <2>4, NewestIsHighest
    <2>6. /\ LoadedCache(slot, auth, active) = slot[newest]
          /\ LoadedCache(slot', auth, active) = slot'[Newest(slot', left)]
      BY <1>2, <1>6, <2>4 DEF LoadedCache, HasAuth
    <2>7. Newest(slot', left) \in left  BY <1>4, <2>4, NewestIsCandidate
    <2> QED  BY <1>4, <2>2, <2>3, <2>5, <2>6, <2>7
  <1> QED  BY <1>5, <1>6

\* The first save that fails costs nothing that a boot could still have loaded
\* before it, as long as records can be read back (vibe_store.c:242).
THEOREM FirstFailedSaveIsHarmless ==
    {"authRead", "cacheRead"} \intersect FaultKinds = {}
      => (Spec => FirstFailedSaveKeepsSnapshot)
  <1> SUFFICES ASSUME {"authRead", "cacheRead"} \intersect FaultKinds = {}
               PROVE  Spec => FirstFailedSaveKeepsSnapshot
    OBVIOUS
  <1> DEFINE Inv == TypeOK /\ AccountInv /\ SnapshotInv /\ SpareSlot
             Step == pc = "saving" /\ faults = 0 /\ faults' = 1
                       => LoadedCache(slot', auth, active).seq
                            >= LoadedCache(slot, auth, active).seq
  <1>1. Init => Inv
    BY TypeInit, AccountInit, SnapshotInit, SpareInit
  <1>2. Inv /\ [Next]_vars => Inv'
    <2>1. "authRead" \notin FaultKinds /\ "cacheRead" \notin FaultKinds
      OBVIOUS
    <2> SUFFICES ASSUME Inv, [Next]_vars PROVE Inv'
      OBVIOUS
    <2>2. TypeOK'  BY TypeNext DEF AccountInv
    <2>3. AccountInv'  BY <2>1, AccountNext
    <2>4. SnapshotInv'  BY <2>1, SnapshotNext
    <2>5. SpareSlot'  BY SpareNext
    <2> QED  BY <2>2, <2>3, <2>4, <2>5
  <1>3. Inv /\ [Next]_vars => [Step]_vars
    BY FailedSaveKeepsSnapshot
  <1> QED
    BY <1>1, <1>2, <1>3, PTL DEF Spec, FirstFailedSaveKeepsSnapshot

-------------------------------------------------------------------------------
(* Refinement: the client implements AccountSession *)

USE DEF accountVars, cacheVars, configVars

Account == IF nvsAuth = NoBlob THEN NoKey ELSE nvsAuth.key
Shown == IF pc = "linked" THEN {} ELSE cache.owners

\* Rebuilding the client from flash is the abstract Resume.
LEMMA InitClientResumes ==
    ASSUME TypeOK, AccountInv, "authRead" \notin FaultKinds,
           NEW config \in Nat, InitClient(config), UNCHANGED <<nvsAuth, issued>>,
           pc' = "idle"
    PROVE  Session!Resume
  <1>1. /\ auth' = IF nvsAuth = NoBlob THEN Tombstone(1) ELSE nvsAuth
        /\ cache'.owners \subseteq {auth'.key}
    BY InitClientAccount DEF AccountInv
  <1>2. auth'.key = Account
    BY <1>1 DEF Account, Tombstone
  <1>3. /\ Shown' = cache'.owners
        /\ Account' = Account
    BY DEF Shown, Account
  <1>4. NoKey \notin cache'.owners
    BY InitClientType, ClientAssumption DEF Snapshot
  <1>5. Shown' \in {{}, {Account}} \ {{NoKey}}
    BY <1>1, <1>2, <1>3, <1>4
  <1> QED  BY <1>2, <1>3, <1>5 DEF Session!Resume, Account, Shown

LEMMA SessionInitRefined == Init => Session!SessionInit
  BY DEF Init, Session!SessionInit, Tombstone, FreshCache

\* A step that moves neither accounts nor days is a stutter.
LEMMA StutterStep ==
    ASSUME UNCHANGED <<auth, nvsAuth, issued>>, Shown' = Shown
    PROVE  UNCHANGED Session!sessionVars
  BY DEF Session!sessionVars, Shown

LEMMA SessionNextRefined ==
    ASSUME TypeOK, AccountInv, "authRead" \notin FaultKinds, [Next]_vars
    PROVE  [Session!SessionNext]_Session!sessionVars
  <1>1. CASE Boot
    <2>1. nvsSettings \in Nat  BY DEF TypeOK
    <2>2. Session!Resume
      BY <1>1, <2>1, InitClientResumes DEF Boot
    <2> QED  BY <2>2 DEF Session!SessionNext
  <1>2. CASE PowerLoss
    <2>1. Session!PowerOff
      BY <1>2 DEF PowerLoss, Session!PowerOff, Tombstone, FreshCache
    <2> QED  BY <2>1 DEF Session!SessionNext
  <1>3. CASE Cancel \/ StartPoll \/ PollWithoutKey \/ StartFetch
             \/ FetchRejected \/ ToggleTimezoneNotSaved \/ SaveVerified
             \/ SaveFailed \/ ClearAfterUnlink
    <2>1. /\ UNCHANGED <<auth, nvsAuth, issued>>
          /\ pc # "linked" /\ pc' # "linked"
      BY <1>3 DEF Cancel, StartPoll, PollWithoutKey, StartFetch, FetchRejected,
         ToggleTimezoneNotSaved, SaveVerified, SaveFailed, ClearAfterUnlink
    <2>2. cache'.owners = cache.owners
      BY <1>3, FetchKeepsDays DEF Cancel, StartPoll, PollWithoutKey,
         ToggleTimezoneNotSaved, SaveVerified, SaveFailed, ClearAfterUnlink,
         SameDays
    <2> QED  BY <2>1, <2>2, StutterStep DEF Shown
  <1>4. ASSUME NEW k \in Keys, PollKeyDiscarded(k) \/ LinkNotStored(k)
        PROVE  Session!SessionNext
    <2>1. /\ UNCHANGED <<auth, cache>>
          /\ nvsAuth' \in {nvsAuth, [key |-> k, gen |-> NextGeneration]}
          /\ k \notin issued /\ issued' = issued \union {k}
          /\ pc # "linked" /\ pc' # "linked"
      BY <1>4 DEF PollKeyDiscarded, LinkNotStored
    <2>2. [key |-> k, gen |-> NextGeneration] # NoBlob
      BY ClientAssumption DEF TypeOK, AuthRecord, NextGeneration
    <2>3. Account' \in {Account, k}
      BY <2>1, <2>2 DEF Account
    <2>4. Session!LinkNotStored(k)
      BY <2>1, <2>3 DEF Session!LinkNotStored, Account
    <2> QED  BY <2>4 DEF Session!SessionNext
  <1>5. ASSUME NEW k \in Keys, LinkStored(k)
        PROVE  Session!SessionNext
    <2>1. /\ nvsAuth' = [key |-> k, gen |-> NextGeneration]
          /\ auth' = nvsAuth'
          /\ k \notin issued /\ issued' = issued \union {k}
          /\ pc' = "linked"
      BY <1>5 DEF LinkStored
    <2>2. nvsAuth' # NoBlob
      BY <2>1, ClientAssumption DEF TypeOK, AuthRecord, NextGeneration
    <2>3. Session!LinkAccount(k)
      BY <2>1, <2>2 DEF Session!LinkAccount
    <2> QED  BY <2>3 DEF Session!SessionNext
  <1>6. CASE ClearAfterLink
    <2>1. UNCHANGED <<auth, nvsAuth, issued>> /\ Shown' = {} /\ Shown = {}
      BY <1>6 DEF ClearAfterLink, Shown, FreshCache
    <2> QED  BY <2>1, StutterStep
  <1>7. ASSUME NEW changed \in BOOLEAN, NEW progress \in BOOLEAN,
               CommitDay(changed, progress)
        PROVE  [Session!SessionNext]_Session!sessionVars
    <2>1. /\ UNCHANGED <<auth, nvsAuth, issued>>
          /\ pc = "fetching" /\ pc' # "linked"
      BY <1>7 DEF CommitDay
    <2>2. cache.owners \subseteq {auth.key} /\ auth.key # NoKey
      BY <2>1 DEF AccountInv, CacheFollowsClient, WorkHasAccount, HasAuth
    <2>3. CASE changed
      <3>1. cache'.owners = cache.owners \union {auth.key}
        BY <1>7, <2>3, CommitDayDoes DEF AccountInv
      <3>2. Session!ShowUsage
        BY <2>1, <2>2, <3>1 DEF Session!ShowUsage
      <3> QED  BY <3>2 DEF Session!SessionNext
    <2>4. CASE ~changed
      <3>1. cache'.owners = cache.owners
        BY <1>7, <2>4, CommitDayDoes DEF AccountInv
      <3> QED  BY <2>1, <3>1, StutterStep DEF Shown
    <2> QED  BY <2>3, <2>4
  <1>8. CASE BeginReconcile
    <2>1. /\ UNCHANGED <<auth, nvsAuth, issued>>
          /\ pc # "linked" /\ pc' # "linked"
          /\ cache'.owners = cache.owners
      BY <1>8, BeginReconcileDoes DEF BeginReconcile
    <2> QED  BY <2>1, StutterStep DEF Shown
  <1>9. CASE Unlink
    <2>1. /\ auth' = Tombstone(NextGeneration)
          /\ nvsAuth' \in {nvsAuth, auth'}
          /\ cache'.owners = {}
          /\ UNCHANGED issued
          /\ pc' # "linked"
      BY <1>9 DEF Unlink, FreshCache
    <2>2. auth'.key = NoKey /\ auth' # NoBlob
      BY <2>1, ClientAssumption DEF Tombstone, TypeOK, AuthRecord,
         NextGeneration
    <2>3. Account' \in {Account, NoKey}
      BY <2>1, <2>2 DEF Account
    <2>4. Session!UnlinkAccount
      BY <2>1, <2>2, <2>3 DEF Session!UnlinkAccount, Account
    <2> QED  BY <2>4 DEF Session!SessionNext
  <1>10. CASE ToggleTimezone
    <2>1. settings' \in Nat  BY <1>10 DEF ToggleTimezone, TypeOK
    <2>2. Session!Resume
      BY <1>10, <2>1, InitClientResumes DEF ToggleTimezone
    <2> QED  BY <2>2 DEF Session!SessionNext
  <1>11. CASE UNCHANGED vars
    BY <1>11, StutterStep DEF vars, Shown
  <1> QED
    BY <1>1, <1>2, <1>3, <1>4, <1>5, <1>6, <1>7, <1>8, <1>9, <1>10, <1>11
       DEF Next

\* The client over its flash records implements the account promise, for any
\* number of credentials and failing writes.
THEOREM SessionImplemented ==
    "authRead" \notin FaultKinds => (Spec => SessionRefined)
  <1> SUFFICES ASSUME "authRead" \notin FaultKinds
               PROVE  Spec => Session!SessionSpec
    BY DEF SessionRefined
  <1>1. TypeOK /\ AccountInv /\ [Next]_vars
          => [Session!SessionNext]_Session!sessionVars
    BY SessionNextRefined
  <1> QED
    BY SessionInitRefined, AccountInvariant, <1>1, PTL
       DEF Spec, Session!SessionSpec

===============================================================================
