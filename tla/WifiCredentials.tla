---------------------------- MODULE WifiCredentials ----------------------------
(***************************************************************************)
(* The saved networks of ssid_manager.cc: a list in RAM, newest first, and *)
(* one pair of flash keys per place, ssidN and passwordN.  A change first  *)
(* alters the list, then rewrites every key in order; a write may fail and *)
(* the power may go between any two of them.                               *)
(*                                                                         *)
(* An index out of range and a name or password of a wrong length are      *)
(* refused without a change and have no action here; the portal's server   *)
(* and the controller are taken to change the list one at a time.          *)
(*                                                                         *)
(* The radio is in WifiLink, which shares no state with this module; the   *)
(* names of the two differ so that one module can extend both.             *)
(***************************************************************************)
EXTENDS Naturals, Sequences, FiniteSets, SequencesExt

CONSTANTS
    Ssids,      \* network names
    Passwords,  \* passwords
    Capacity,   \* MAX_WIFI_SSID_COUNT (10 in the code)
    None        \* a key that is not there

ASSUME CredentialConstants ==
    /\ Capacity \in Nat \ {0}
    /\ None \notin Ssids \union Passwords

VARIABLES
    list,      \* ssid_list_
    previous,  \* the copy a failed save puts back
    flash,     \* the keys of every place
    next,      \* the key the save under way writes next, Keys before its
               \* commit, Done when no save is under way
    torn,      \* the last save stopped on an error: flash is neither list
    pairs      \* the pairs saved, or meant to be, since the save began (history)

credentialVars == <<list, previous, flash, next, torn, pairs>>

Places == 1..Capacity
Keys == 2 * Capacity
Done == Keys + 1
Item == [ssid : Ssids, password : Passwords]
EmptyPlace == [ssid |-> None, password |-> None]

\* Key number k is the name, then the password, of each place in turn.
PlaceScattered(k) == (k % Capacity) + 1
Place(k) == k \div 2 + 1
IsName(k) == k % 2 = 0

\* LoadFromNvs: the places with both keys, in order.
Readable(f) == {i \in Places : f[i].ssid # None /\ f[i].password # None}
Position(found, i) == Cardinality({j \in found : j <= i})
Source(found, n) == CHOOSE i \in found : Position(found, i) = n
Load(f) ==
    LET found == Readable(f)
    IN  [n \in 1..Cardinality(found) |-> f[Source(found, n)]]

NoSave == next = Done

CredentialsInit ==
    /\ flash \in [Places -> {EmptyPlace} \union Item]
    /\ \A i, j \in Places : i # j => flash[i].ssid # flash[j].ssid \/ flash[i] = EmptyPlace
    /\ \A i \in Places : i > 1 /\ flash[i] # EmptyPlace => flash[i - 1] # EmptyPlace
    /\ list = Load(flash)
    /\ previous = list /\ pairs = ToSet(list)
    /\ next = Done
    /\ torn = FALSE

(***************************************************************************)
(* Changes of the list, each followed by SaveToNvs.                        *)
(***************************************************************************)
Save(new) ==
    /\ NoSave
    /\ list' = new
    /\ previous' = list
    /\ pairs' = ToSet(Load(flash)) \union ToSet(list) \union ToSet(new)
    /\ next' = 0
    /\ UNCHANGED <<flash, torn>>

Without(i) == RemoveAt(list, i)
Known(s) == {i \in DOMAIN list : list[i].ssid = s}

\* AddSsid: a known name gets the new password where it stands.
UpdateSsid(s, p) ==
    \E i \in Known(s) :
        /\ \A j \in Known(s) : i <= j
        /\ Save([list EXCEPT ![i].password = p])

\* A new name goes in front, the last one out when the list is full.
AddSsid(s, p) ==
    /\ Known(s) = {}
    /\ LET kept == IF Len(list) >= Capacity THEN SubSeq(list, 1, Capacity - 1) ELSE list
       IN  Save(<<[ssid |-> s, password |-> p]>> \o kept)

RemoveSsid(i) == i \in DOMAIN list /\ Save(Without(i))

SetDefaultSsid(i) == i \in DOMAIN list /\ Save(<<list[i]>> \o Without(i))

Clear == Save(<<>>)

(***************************************************************************)
(* SaveToNvs, one key at a time.                                           *)
(***************************************************************************)
Value(k) ==
    IF Place(k) > Len(list) THEN None
    ELSE IF IsName(k) THEN list[Place(k)].ssid ELSE list[Place(k)].password

Write(k) ==
    flash' = [flash EXCEPT ![Place(k)] =
                 IF IsName(k) THEN [@ EXCEPT !.ssid = Value(k)]
                              ELSE [@ EXCEPT !.password = Value(k)]]

WriteKey ==
    /\ next < Keys
    /\ Write(next)
    /\ next' = next + 1
    /\ UNCHANGED <<list, previous, torn, pairs>>

Commit ==
    /\ next = Keys
    /\ next' = Done
    /\ torn' = FALSE
    /\ UNCHANGED <<list, previous, flash, pairs>>

GiveUpQuietly ==
    /\ next' = Done
    /\ torn' = FALSE
    /\ UNCHANGED <<list, previous, pairs>>
GiveUp ==
    /\ list' = previous
    /\ next' = Done
    /\ torn' = TRUE
    /\ UNCHANGED <<previous, pairs>>

\* The first failed open, write or commit ends the save; the list goes back, flash does not.
WriteFails ==
    /\ ~NoSave
    /\ GiveUp
    /\ UNCHANGED flash

\* A name that could not be erased does not spare its password.
EraseFails ==
    /\ next < Keys /\ IsName(next) /\ Value(next) = None
    /\ Write(next + 1)
    /\ GiveUp

\* The power goes, during a save or between two, and the list is loaded anew.
PowerCut ==
    /\ list' = Load(flash)
    /\ previous' = list' /\ pairs' = ToSet(list')
    /\ next' = Done
    /\ torn' = FALSE
    /\ UNCHANGED flash

CredentialsNext ==
    \/ \E s \in Ssids, p \in Passwords : UpdateSsid(s, p) \/ AddSsid(s, p)
    \/ \E i \in Places : RemoveSsid(i) \/ SetDefaultSsid(i)
    \/ Clear
    \/ WriteKey \/ Commit \/ WriteFails \/ EraseFails \/ PowerCut

CredentialsSpec == CredentialsInit /\ [][CredentialsNext]_credentialVars

-----------------------------------------------------------------------------
(***************************************************************************)
(* Correctness.                                                            *)
(***************************************************************************)
CredentialsTypeOK ==
    /\ list \in Seq(Item) /\ Len(list) <= Capacity
    /\ previous \in Seq(Item) /\ Len(previous) <= Capacity
    /\ flash \in [Places -> [ssid : Ssids \union {None}, password : Passwords \union {None}]]
    /\ next \in 0..Done
    /\ torn \in BOOLEAN

\* Between saves a restart loads exactly the networks the device is using,
\* unless the last save stopped on an error; a later complete save heals that.
RestartKeepsNetworks == (NoSave /\ ~torn) => Load(flash) = list

\* What a restart in the middle of a save costs at most: one name has the
\* password of another network; and of the networks that were saved before and
\* are to be saved after, two are gone, the one whose place is being overwritten
\* and the one whose name is ahead of its password.
MixedPairs == ToSet(Load(flash)) \ pairs
LostNetworks == (ToSet(previous) \intersect ToSet(list)) \ ToSet(Load(flash))
TornSaveLimits ==
    /\ Cardinality(MixedPairs) <= 1
    /\ ~torn => Cardinality(LostNetworks) <= 2

=============================================================================
