-------------------------- MODULE FactoryResetProofs --------------------------
(***************************************************************************)
(* TLAPS proofs about FactoryReset: however often a reset fails, is cut    *)
(* off and is taken up again, the journal is on flash while a part of the  *)
(* data is erased, it is removed only when everything is, no boot starts   *)
(* the application in between, and all this implements ResetPromise.       *)
(*                                                                         *)
(* The argument counts the operations of the list under way: those counted *)
(* have had their effect, because nothing else writes while a list runs    *)
(* and one that is broken off starts over.                                 *)
(***************************************************************************)
EXTENDS FactoryReset, TLAPS, SequenceTheorems

Operations == Places \union {"journal", "complete"}

Lists == {LocalSteps, RuntimeSteps, FinishSteps}

\* The list under way.
List == CASE pc = "reset"  -> RuntimeSteps
          [] pc = "finish" -> FinishSteps
          [] OTHER         -> LocalSteps

\* How many of its operations have been done.
Done == Len(List) - Len(steps)

\* What is left is the end of the list.
Due ==
    pc \in Working =>
        /\ Len(steps) <= Len(List)
        /\ \A i \in 1..Len(steps) : steps[i] = List[Done + i]

\* What was done is still so.
Achieved ==
    pc \in Working =>
        /\ Done >= 1 => journal
        /\ \A i \in 1..Done :
             /\ List[i] \in Places => nvs[List[i]] = "none"
             /\ List[i] = "retry" => ~clientReady

IInv == TypeOK /\ Due /\ Achieved /\ TornIsJournalled

-------------------------------------------------------------------------------
(* The three lists *)

LEMMA LocalList ==
    /\ LocalSteps \in Seq(Operations) /\ Len(LocalSteps) = 5
    /\ LocalSteps[1] = "journal" /\ LocalSteps[2] = "auth"
    /\ LocalSteps[3] = "cache" /\ LocalSteps[4] = "cfg"
    /\ LocalSteps[5] = "retry"
  BY DEF LocalSteps, Operations, Places

\* The two long lists are the local one and four more operations.
LEMMA LongList ==
    ASSUME NEW a \in Operations, NEW b \in Operations, NEW c \in Operations,
           NEW d \in Operations
    PROVE  LET s == LocalSteps \o <<a, b, c, d>> IN
           /\ s \in Seq(Operations) /\ Len(s) = 9
           /\ s[1] = "journal" /\ s[2] = "auth" /\ s[3] = "cache"
           /\ s[4] = "cfg" /\ s[5] = "retry"
           /\ s[6] = a /\ s[7] = b /\ s[8] = c /\ s[9] = d
  <1> DEFINE t == <<a, b, c, d>>
             s == LocalSteps \o t
  <1>1. /\ t \in Seq(Operations) /\ Len(t) = 4
        /\ t[1] = a /\ t[2] = b /\ t[3] = c /\ t[4] = d
    OBVIOUS
  <1> HIDE DEF t
  <1>2. /\ s \in Seq(Operations) /\ Len(s) = Len(LocalSteps) + Len(t)
        /\ \A i \in 1..(Len(LocalSteps) + Len(t)) :
             s[i] = IF i <= Len(LocalSteps) THEN LocalSteps[i]
                                            ELSE t[i - Len(LocalSteps)]
    BY <1>1, LocalList, ConcatProperties
  <1> HIDE DEF s
  <1>3. /\ s \in Seq(Operations) /\ Len(s) = 9
        /\ s[1] = "journal" /\ s[2] = "auth" /\ s[3] = "cache"
        /\ s[4] = "cfg" /\ s[5] = "retry"
    BY <1>1, <1>2, LocalList
  <1>4. s[6] = a /\ s[7] = b /\ s[8] = c /\ s[9] = d
    BY <1>1, <1>2, LocalList
  <1> QED  BY <1>3, <1>4 DEF s, t

\* The journal comes first, and the last operation of a long list comes after
\* every erasure.
LEMMA EveryList ==
    ASSUME NEW s \in Lists
    PROVE  /\ s \in Seq(Operations) /\ (Len(s) = 5 \/ Len(s) = 9)
           /\ s[1] = "journal"
           /\ \A i \in 1..Len(s) :
                s[i] = "complete" => /\ i = Len(s)
                                     /\ \A p \in Places :
                                          \E j \in 1..(i - 1) : s[j] = p
           /\ s # LocalSteps => s[Len(s)] = "complete"
  <1>1. {"todo", "llm", "wifi", "complete"} \subseteq Operations
    BY DEF Operations, Places
  <1>2. CASE s = LocalSteps  BY <1>2, LocalList, 1..5 = {1, 2, 3, 4, 5}
  <1>3. CASE s = RuntimeSteps
    <2>1. /\ s \in Seq(Operations) /\ Len(s) = 9
          /\ s[1] = "journal" /\ s[2] = "auth" /\ s[3] = "cache"
          /\ s[4] = "cfg" /\ s[5] = "retry" /\ s[6] = "todo" /\ s[7] = "llm"
          /\ s[8] = "wifi" /\ s[9] = "complete"
      BY <1>1, <1>3, LongList DEF RuntimeSteps
    <2>2. \A i \in 1..9 : s[i] = "complete" => i = 9
      BY <2>1
    <2>3. \A p \in Places : \E j \in 1..8 : s[j] = p
      BY <2>1 DEF Places
    <2> QED  BY <2>1, <2>2, <2>3
  <1>4. CASE s = FinishSteps
    <2>1. /\ s \in Seq(Operations) /\ Len(s) = 9
          /\ s[1] = "journal" /\ s[2] = "auth" /\ s[3] = "cache"
          /\ s[4] = "cfg" /\ s[5] = "retry" /\ s[6] = "wifi" /\ s[7] = "todo"
          /\ s[8] = "llm" /\ s[9] = "complete"
      BY <1>1, <1>4, LongList DEF FinishSteps
    <2>2. \A i \in 1..9 : s[i] = "complete" => i = 9
      BY <2>1
    <2>3. \A p \in Places : \E j \in 1..8 : s[j] = p
      BY <2>1 DEF Places
    <2> QED  BY <2>1, <2>2, <2>3
  <1> QED  BY <1>2, <1>3, <1>4 DEF Lists

LEMMA NoListEmpty ==
    ASSUME NEW s \in Lists
    PROVE  s # <<>>
  <1>1. s \in Seq(Operations) /\ (Len(s) = 5 \/ Len(s) = 9)  BY EveryList
  <1>2. CASE Len(s) = 5
    <2>1. Len(s) \in Nat /\ Len(s) > 0  BY <1>2
    <2> QED  BY <2>1
  <1>3. CASE Len(s) = 9
    <2>1. Len(s) \in Nat /\ Len(s) > 0  BY <1>3
    <2> QED  BY <2>1
  <1> QED  BY <1>1, <1>2, <1>3

-------------------------------------------------------------------------------
(* The invariant *)

\* The operation a step of a reset performs is the next of the list.
LEMMA NextOperation ==
    ASSUME IInv, pc \in Working
    PROVE  /\ List \in Lists
           /\ Done \in Nat /\ Done < Len(List) /\ Len(List) \in Nat
           /\ Len(steps) \in Nat
           /\ Head(steps) = List[Done + 1] /\ Head(steps) \in Operations
           /\ Tail(steps) \in Seq(Operations)
           /\ Len(Tail(steps)) = Len(steps) - 1
           /\ \A i \in 1..Len(Tail(steps)) : Tail(steps)[i] = steps[i + 1]
           /\ Tail(steps) = <<>> <=> Len(steps) = 1
  <1>1. List \in Lists  BY DEF List, Lists
  <1>2. List \in Seq(Operations) /\ Len(List) \in Nat  BY <1>1, EveryList
  <1>3. steps \in Seq(Operations) /\ steps # <<>>
    BY DEF IInv, TypeOK, Operations
  <1>4. /\ Head(steps) \in Operations /\ Tail(steps) \in Seq(Operations)
        /\ Len(Tail(steps)) = Len(steps) - 1
        /\ \A i \in 1..Len(Tail(steps)) : Tail(steps)[i] = steps[i + 1]
    BY <1>3, HeadTailProperties
  <1>5. Len(steps) \in Nat \ {0}  BY <1>3, EmptySeq
  <1>6. Head(steps) = steps[1]  BY <1>3
  <1>7. /\ Len(steps) <= Len(List)
        /\ \A i \in 1..Len(steps) : steps[i] = List[Done + i]
    BY DEF IInv, Due
  <1>8. Done \in Nat /\ Done < Len(List)  BY <1>2, <1>5, <1>7 DEF Done
  <1>9. steps[1] = List[Done + 1]  BY <1>5, <1>7
  <1>10. Tail(steps) = <<>> <=> Len(steps) = 1
    <2>1. Tail(steps) = <<>> => Len(Tail(steps)) = 0  BY EmptySeq
    <2>2. Tail(steps) # <<>> => Len(Tail(steps)) # 0  BY <1>4, EmptySeq
    <2> QED  BY <1>4, <1>5, <2>1, <2>2
  <1> QED  BY <1>1, <1>2, <1>4, <1>5, <1>6, <1>8, <1>9, <1>10

\* An operation of a reset keeps the types and the journal's promise.
LEMMA EffectKeeps ==
    ASSUME IInv, pc \in Working, Effect(Head(steps))
    PROVE  /\ nvs' \in [Places -> {"none", "default", "data"}]
           /\ \A p \in Places : nvs'[p] = "default" => p = "cfg"
           /\ journal' \in BOOLEAN /\ torn' \in BOOLEAN
           /\ TornIsJournalled'
  <1> DEFINE s == Head(steps)
  <1>1. s \in Operations  BY NextOperation
  <1>2. /\ journal \in BOOLEAN /\ torn \in BOOLEAN
        /\ nvs \in [Places -> {"none", "default", "data"}]
        /\ \A p \in Places : nvs[p] = "default" => p = "cfg"
    BY DEF IInv, TypeOK
  <1>3. s \in Places => journal
    <2> SUFFICES ASSUME s \in Places PROVE journal  OBVIOUS
    <2>1. s # "journal"  BY DEF Places
    <2>2. List[1] = "journal"  BY NextOperation, EveryList
    <2>3. Done # 0  BY <2>1, <2>2, NextOperation
    <2>4. Done >= 1  BY <2>3, NextOperation
    <2> QED  BY <2>4 DEF IInv, Achieved
  <1>4. CASE s = "journal"
    <2>1. s \notin Places  BY <1>4 DEF Places
    <2>2. journal' = TRUE /\ torn' = torn /\ nvs' = nvs
      BY <1>4, <2>1 DEF Effect
    <2> QED  BY <1>2, <2>2 DEF TornIsJournalled
  <1>5. CASE s = "complete"
    <2>1. s \notin Places  BY <1>5 DEF Places
    <2>2. journal' = FALSE /\ torn' = FALSE /\ nvs' = nvs
      BY <1>5, <2>1 DEF Effect
    <2> QED  BY <1>2, <2>2 DEF TornIsJournalled
  <1>6. CASE s \in Places
    <2>1. s # "journal" /\ s # "complete"  BY <1>6 DEF Places
    <2>2. journal' = journal /\ torn' = TRUE /\ nvs' = [nvs EXCEPT ![s] = "none"]
      BY <1>6, <2>1 DEF Effect
    <2> QED  BY <1>2, <1>3, <1>6, <2>2 DEF TornIsJournalled
  <1> QED  BY <1>1, <1>4, <1>5, <1>6 DEF Operations

\* When a reset ends while the device runs, the client has been shut down.
LEMMA ClientKeeps ==
    ASSUME IInv, StepDone
    PROVE  clientReady' => pc' \in {"running", "reset"}
  <1> SUFFICES ASSUME clientReady, Head(steps) # "retry"
               PROVE  pc' = "reset"
    BY DEF StepDone
  <1>1. pc = "reset"  BY DEF IInv, TypeOK, StepDone, Working
  <1>2. List = RuntimeSteps  BY <1>1 DEF List
  <1>3. pc \in Working  BY <1>1 DEF Working
  <1>4. CASE Tail(steps) # <<>>  BY <1>1, <1>4 DEF StepDone
  <1>5. CASE Tail(steps) = <<>>
    <2>1. /\ List # LocalSteps /\ Len(List) = 9
      <3>1. /\ "todo" \in Operations /\ "llm" \in Operations
            /\ "wifi" \in Operations /\ "complete" \in Operations
        BY DEF Operations, Places
      <3>2. ASSUME NEW s, s = RuntimeSteps PROVE Len(s) = 9
        BY <3>1, <3>2, LongList DEF RuntimeSteps
      <3>3. Len(List) = 9  BY <1>2, <3>2
      <3>4. Len(List) # Len(LocalSteps)  BY <3>3, LocalList
      <3> QED  BY <3>3, <3>4
    <2>2. Done = 8
      <3>1. Len(steps) = 1  BY <1>3, <1>5, NextOperation
      <3> QED  BY <2>1, <3>1 DEF Done
    <2>3. List \in Lists /\ List[9] = "complete"
      BY <1>3, <2>1, EveryList, NextOperation
    <2>4. \E j \in 1..8 : List[j] = "retry"
      <3>1. "retry" \in Places  BY DEF Places
      <3>2. 9 \in 1..Len(List) /\ 9 = Len(List)  BY <2>1
      <3>3. \E j \in 1..(9 - 1) : List[j] = "retry"
        BY <2>3, <3>1, <3>2, EveryList
      <3> QED  BY <3>3
    <2>5. \A i \in 1..Done : List[i] = "retry" => ~clientReady
      BY <1>3 DEF IInv, Achieved
    <2> QED  BY <2>2, <2>4, <2>5
  <1> QED  BY <1>4, <1>5

\* One more operation is done and the rest is due.
LEMMA StepDoneKeeps ==
    ASSUME IInv, StepDone
    PROVE  IInv'
  <1>1. pc \in Working /\ Effect(Head(steps)) /\ steps' = Tail(steps)
    BY DEF StepDone
  <1>2. TypeOK'
    <2>1. steps' \in Seq(Places \union {"journal", "complete"})
      BY <1>1, NextOperation DEF Operations
    <2>2. /\ pc' \in {"off", "config"} \union Working
          /\ steps' # <<>> <=> pc' \in Working
      BY <1>1 DEF StepDone, StageAfter, Working
    <2>3. clientReady' \in BOOLEAN  BY DEF StepDone
    <2>4. clientReady' => pc' \in {"running", "reset"}  BY ClientKeeps
    <2> QED  BY <1>1, <2>1, <2>2, <2>3, <2>4, EffectKeeps DEF TypeOK
  <1>3. CASE pc' \notin Working
    BY <1>1, <1>2, <1>3, EffectKeeps DEF IInv, Due, Achieved
  <1>4. CASE pc' \in Working
    <2>1. Tail(steps) # <<>> /\ pc' = pc
      BY <1>4 DEF StepDone, StageAfter, Working
    <2>2. List' = List  BY <2>1 DEF List
    <2>3. /\ Len(steps') = Len(steps) - 1 /\ Done' = Done + 1
          /\ Done \in Nat /\ Done + 1 < Len(List) /\ Len(List) \in Nat
          /\ Len(steps) \in Nat /\ Len(steps) > 1
      BY <1>1, <2>1, <2>2, NextOperation DEF Done
    <2>4. Due'
      <3>1. ASSUME NEW i \in 1..Len(steps') PROVE steps'[i] = List'[Done' + i]
        <4>1. steps'[i] = steps[i + 1] /\ i + 1 \in 1..Len(steps)
          BY <1>1, <2>3, NextOperation
        <4>2. steps[i + 1] = List[Done + (i + 1)]
          BY <1>1, <4>1 DEF IInv, Due
        <4> QED  BY <2>2, <2>3, <4>1, <4>2
      <3>2. Len(steps') <= Len(List')
        <4>1. Len(steps) <= Len(List)  BY <1>1 DEF IInv, Due
        <4> QED  BY <2>2, <2>3, <4>1
      <3> QED  BY <3>1, <3>2 DEF Due
    <2>5. Achieved'
      <3>1. Head(steps) # "complete"
        BY <1>1, <2>3, NextOperation, EveryList
      <3>2. journal'
        <4>1. CASE Done = 0
          <5>1. Head(steps) = "journal"
            BY <1>1, <4>1, NextOperation, EveryList
          <5> QED  BY <1>1, <5>1 DEF Effect
        <4>2. CASE Done # 0
          <5>1. journal  BY <1>1, <2>3, <4>2 DEF IInv, Achieved
          <5> QED  BY <1>1, <3>1, <5>1 DEF Effect
        <4> QED  BY <4>1, <4>2
      <3>3. ASSUME NEW i \in 1..(Done + 1)
            PROVE  /\ List[i] \in Places => nvs'[List[i]] = "none"
                   /\ List[i] = "retry" => ~clientReady'
        <4>1. nvs \in [Places -> {"none", "default", "data"}]
          BY DEF IInv, TypeOK
        <4>2. CASE i = Done + 1
          <5>1. Head(steps) = List[i]  BY <1>1, <4>2, NextOperation
          <5> QED  BY <1>1, <4>1, <5>1 DEF Effect, StepDone
        <4>3. CASE i # Done + 1
          <5>1. i \in 1..Done  BY <2>3, <4>3
          <5>2. /\ List[i] \in Places => nvs[List[i]] = "none"
                /\ List[i] = "retry" => ~clientReady
            BY <1>1, <5>1 DEF IInv, Achieved
          <5> QED  BY <1>1, <4>1, <5>2 DEF Effect, StepDone
        <4> QED  BY <4>2, <4>3
      <3> QED  BY <2>2, <2>3, <3>2, <3>3 DEF Achieved
    <2> QED  BY <1>1, <1>2, <2>4, <2>5, EffectKeeps DEF IInv
  <1> QED  BY <1>3, <1>4

\* A list that is broken off is no longer under way.
LEMMA StepFailedKeeps ==
    ASSUME IInv, StepFailed
    PROVE  IInv'
  <1>1. pc \in Working /\ pc' \in {"running", "halted"} /\ steps' = <<>>
    BY DEF StepFailed
  <1>2. pc' \notin Working  BY <1>1 DEF Working
  <1>3. /\ nvs' \in [Places -> {"none", "default", "data"}]
        /\ \A p \in Places : nvs'[p] = "default" => p = "cfg"
        /\ journal' \in BOOLEAN /\ torn' \in BOOLEAN
        /\ TornIsJournalled'
    <2>1. CASE Effect(Head(steps))  BY <1>1, <2>1, EffectKeeps
    <2>2. CASE UNCHANGED <<journal, nvs, torn>>
      BY <2>2 DEF IInv, TypeOK, TornIsJournalled
    <2> QED  BY <2>1, <2>2 DEF StepFailed
  <1>4. clientReady' => pc' = "running"
    BY <1>1 DEF StepFailed, IInv, TypeOK, Working
  <1>5. clientReady' \in BOOLEAN  BY DEF StepFailed, IInv, TypeOK
  <1>6. steps' \in Seq(Places \union {"journal", "complete"})
    BY <1>1, EmptySeq
  <1>7. TypeOK'
    BY <1>1, <1>2, <1>3, <1>4, <1>5, <1>6 DEF TypeOK
  <1> QED  BY <1>2, <1>3, <1>7 DEF IInv, Due, Achieved

\* A list that begins is due as a whole and nothing of it is done.
LEMMA ListBegins ==
    ASSUME steps' \in Lists, steps' = List'
    PROVE  Due' /\ Achieved' /\ steps' # <<>> /\ steps' \in Seq(Operations)
  <1>1. steps' \in Seq(Operations) /\ (Len(steps') = 5 \/ Len(steps') = 9)
    BY EveryList
  <1>2. Done' = 0 /\ Len(List') = Len(steps')  BY <1>1 DEF Done
  <1>3. steps' # <<>>  BY NoListEmpty
  <1>4. \A i \in 1..Len(steps') : steps'[i] = List'[Done' + i]
    BY <1>1, <1>2
  <1>5. Len(steps') <= Len(List')  BY <1>1, <1>2
  <1>6. ~(Done' >= 1) /\ 1..Done' = {}  BY <1>2
  <1>7. Due'  BY <1>4, <1>5 DEF Due
  <1>8. Achieved'  BY <1>6, Zenon DEF Achieved
  <1> QED  BY <1>1, <1>3, <1>7, <1>8

-------------------------------------------------------------------------------
LEMMA InitHolds == Init => IInv
  <1> SUFFICES ASSUME Init PROVE IInv  OBVIOUS
  <1>1. pc \notin Working  BY DEF Init, Working
  <1>2. TypeOK  BY <1>1, EmptySeq DEF Init, TypeOK
  <1>3. TornIsJournalled  BY DEF Init, TornIsJournalled
  <1> QED  BY <1>1, <1>2, <1>3 DEF IInv, Due, Achieved

LEMMA StepKeeps == IInv /\ [Next]_vars => IInv'
  <1> SUFFICES ASSUME IInv, [Next]_vars PROVE IInv'  OBVIOUS
  <1>0. TypeOK /\ TornIsJournalled  BY DEF IInv
  <1>1. CASE Boot
    <2>1. TornIsJournalled'  BY <1>0, <1>1 DEF Boot, TornIsJournalled
    <2>2. CASE journal
      <3>1. pc' = "recover" /\ steps' = LocalSteps  BY <1>1, <2>2 DEF Boot
      <3>2. Due' /\ Achieved' /\ steps' # <<>> /\ steps' \in Seq(Operations)
        BY <3>1, ListBegins DEF List, Lists
      <3>3. TypeOK'
        BY <1>0, <1>1, <3>1, <3>2 DEF TypeOK, Boot, Working, Operations
      <3> QED  BY <2>1, <3>2, <3>3 DEF IInv
    <2>3. CASE ~journal
      <3>1. pc' = "config" /\ steps' = <<>>  BY <1>1, <2>3 DEF Boot
      <3>2. TypeOK'
        BY <1>0, <1>1, <3>1, EmptySeq DEF TypeOK, Boot, Working
      <3> QED  BY <2>1, <3>1, <3>2 DEF IInv, Due, Achieved, Working
    <2> QED  BY <2>2, <2>3
  <1>2. CASE LoadConfig
    <2>1. TypeOK'
      BY <1>0, <1>2 DEF TypeOK, LoadConfig, Working, Places
    <2> QED
      BY <1>0, <1>2, <2>1
      DEF IInv, Due, Achieved, TornIsJournalled, LoadConfig, Working
  <1>3. CASE InitController
    <2>1. TornIsJournalled'  BY <1>0, <1>3 DEF InitController, TornIsJournalled
    <2>2. CASE journal
      <3>1. pc' = "finish" /\ steps' = FinishSteps /\ UNCHANGED clientReady
        BY <1>3, <2>2 DEF InitController, InitSeesJournal
      <3>2. Due' /\ Achieved' /\ steps' # <<>> /\ steps' \in Seq(Operations)
        BY <3>1, ListBegins DEF List, Lists
      <3>3. TypeOK'
        BY <1>0, <1>3, <3>1, <3>2
        DEF TypeOK, InitController, Working, Operations
      <3> QED  BY <2>1, <3>2, <3>3 DEF IInv
    <2>3. CASE ~journal
      <3>1. pc' = "running" /\ steps' = <<>> /\ clientReady' = TRUE
        BY <1>3, <2>3 DEF InitController, InitSeesJournal
      <3>2. TypeOK'
        BY <1>0, <1>3, <3>1, EmptySeq DEF TypeOK, InitController, Working
      <3> QED  BY <2>1, <3>1, <3>2 DEF IInv, Due, Achieved, Working
    <2> QED  BY <2>2, <2>3
  <1>4. CASE BootFailed
    <2>1. TypeOK'  BY <1>0, <1>4 DEF TypeOK, BootFailed, Working
    <2> QED
      BY <1>0, <1>4, <2>1
      DEF IInv, Due, Achieved, TornIsJournalled, BootFailed, Working
  <1>5. CASE PowerLoss
    <2>1. TypeOK'  BY <1>0, <1>5, EmptySeq DEF TypeOK, PowerLoss, Working
    <2> QED
      BY <1>0, <1>5, <2>1
      DEF IInv, Due, Achieved, TornIsJournalled, PowerLoss, Working
  <1>6. ASSUME NEW p \in Places, Store(p) PROVE IInv'
    <2>1. TypeOK'  BY <1>0, <1>6 DEF TypeOK, Store
    <2> QED
      BY <1>0, <1>6, <2>1
      DEF IInv, Due, Achieved, TornIsJournalled, Store, Working
  <1>7. CASE ToggleTimezone
    <2>1. TypeOK'  BY <1>0, <1>7 DEF TypeOK, ToggleTimezone, Places
    <2> QED
      BY <1>0, <1>7, <2>1
      DEF IInv, Due, Achieved, TornIsJournalled, ToggleTimezone, Working
  <1>8. CASE RequestReset
    <2>1. TornIsJournalled'  BY <1>0, <1>8 DEF RequestReset, TornIsJournalled
    <2>2. pc' = "reset" /\ steps' = RuntimeSteps  BY <1>8 DEF RequestReset
    <2>3. Due' /\ Achieved' /\ steps' # <<>> /\ steps' \in Seq(Operations)
      BY <2>2, ListBegins DEF List, Lists
    <2>4. TypeOK'
      BY <1>0, <1>8, <2>2, <2>3 DEF TypeOK, RequestReset, Working, Operations
    <2> QED  BY <2>1, <2>3, <2>4 DEF IInv
  <1>9. CASE StepDone  BY <1>9, StepDoneKeeps
  <1>10. CASE StepFailed  BY <1>10, StepFailedKeeps
  <1>11. CASE UNCHANGED vars
    BY <1>11
    DEF vars, IInv, TypeOK, Due, Achieved, TornIsJournalled, List, Done
  <1> QED
    BY <1>1, <1>2, <1>3, <1>4, <1>5, <1>6, <1>7, <1>8, <1>9, <1>10, <1>11
    DEF Next

LEMMA Invariant == Spec => []IInv
  <1>1. Init => IInv  BY InitHolds
  <1>2. IInv /\ [Next]_vars => IInv'  BY StepKeeps
  <1> QED  BY <1>1, <1>2, PTL DEF Spec

-------------------------------------------------------------------------------
(* Results *)

\* An operation is due exactly while a list runs, only the settings hold
\* defaults, and the client is up only while the device runs (vibe_store.c,
\* app_main).
THEOREM ResetTypes == Spec => []TypeOK
  <1>1. IInv => TypeOK  BY DEF IInv
  <1> QED  BY <1>1, Invariant, PTL

\* While a part of the data is erased the journal is on flash, wherever power
\* went or an operation failed (vibe_store.c: vibe_store_begin_reset).
THEOREM ResetTornIsJournalled == Spec => []TornIsJournalled
  <1>1. IInv => TornIsJournalled  BY DEF IInv
  <1> QED  BY <1>1, Invariant, PTL

\* The journal is removed only when no place holds user data, at the end of
\* either list (vibe_store.c: vibe_store_complete_reset).
THEOREM ResetJournalRemovedWhenEmpty == Spec => JournalRemovedWhenEmpty
  <1>1. IInv /\ [Next]_vars
          => [ journal /\ ~journal' => \A p \in Places : nvs'[p] # "data" ]_vars
    <2> SUFFICES ASSUME IInv, [Next]_vars, journal, ~journal', NEW p \in Places
                 PROVE  nvs'[p] # "data"
      OBVIOUS
    <2>1. StepDone \/ StepFailed
      BY DEF Next, vars, Boot, LoadConfig, InitController, BootFailed,
             PowerLoss, Store, ToggleTimezone, RequestReset
    <2>2. pc \in Working /\ Effect(Head(steps))
      BY <2>1 DEF StepDone, StepFailed
    <2>3. Head(steps) = "complete"
      BY <2>2 DEF Effect
    <2>4. nvs' = nvs  BY <2>2, <2>3 DEF Effect, Places
    <2>5. List[Done + 1] = "complete" /\ Done \in Nat /\ Done + 1 \in 1..Len(List)
      BY <2>2, <2>3, NextOperation
    <2>6. PICK j \in 1..((Done + 1) - 1) : List[j] = p
      BY <2>2, <2>5, NextOperation, EveryList
    <2>7. j \in 1..Done  BY <2>5
    <2>8. nvs[p] = "none"  BY <2>2, <2>6, <2>7 DEF IInv, Achieved
    <2> QED  BY <2>4, <2>8
  <1> QED  BY <1>1, Invariant, PTL DEF Spec, JournalRemovedWhenEmpty

\* No boot starts the application while a reset is half done
\* (app_controller.c: app_controller_init).
THEOREM ResetBootRunsOnWholeData == Spec => BootRunsOnWholeData
  <1>1. IInv /\ [Next]_vars
          => [ pc = "init" /\ pc' = "running" => ~torn ]_vars
    <2> SUFFICES ASSUME IInv, [Next]_vars, pc = "init", pc' = "running"
                 PROVE  ~torn
      OBVIOUS
    <2>1. InitController
      BY DEF Next, vars, Boot, LoadConfig, BootFailed, PowerLoss, Store,
             ToggleTimezone, RequestReset, StepDone, StepFailed, Working
    <2>2. ~journal  BY <2>1 DEF InitController, InitSeesJournal
    <2> QED  BY <2>2 DEF IInv, TornIsJournalled
  <1> QED  BY <1>1, Invariant, PTL DEF Spec, BootRunsOnWholeData

-------------------------------------------------------------------------------
(* The promise *)

\* A list that a boot takes up has its journal on flash from the start.
Resumed == pc \in {"recover", "finish"} => journal

PInv == IInv /\ Resumed

\* The list that app_main runs is the short one.
LEMMA LongLists == RuntimeSteps # LocalSteps /\ FinishSteps # LocalSteps
  <1>1. {"todo", "llm", "wifi", "complete"} \subseteq Operations
    BY DEF Operations, Places
  <1>2. ASSUME NEW s, s = RuntimeSteps PROVE Len(s) = 9
    BY <1>1, <1>2, LongList DEF RuntimeSteps
  <1>3. ASSUME NEW s, s = FinishSteps PROVE Len(s) = 9
    BY <1>1, <1>3, LongList DEF FinishSteps
  <1>4. Len(LocalSteps) # 9  BY LocalList
  <1> QED  BY <1>2, <1>3, <1>4

\* The last operation of a list comes when nothing holds data any more, and it
\* is not one of the list that app_main runs.
LEMMA LastOperation ==
    ASSUME IInv, pc \in Working, Head(steps) = "complete"
    PROVE  /\ pc # "recover" /\ journal
           /\ \A p \in Places : nvs[p] = "none"
           /\ Tail(steps) = <<>>
  <1>1. List[Done + 1] = "complete" /\ Done \in Nat /\ Done + 1 \in 1..Len(List)
    BY NextOperation
  <1>2. Done + 1 = Len(List)  BY <1>1, NextOperation, EveryList
  <1>3. pc # "recover"
    <2> SUFFICES ASSUME pc = "recover" PROVE FALSE  OBVIOUS
    <2>1. List = LocalSteps  BY DEF List
    <2>2. LocalSteps[5] = "complete"  BY <1>1, <1>2, <2>1, LocalList
    <2> QED  BY <2>2, LocalList
  <1>4. journal
    <2>1. Len(List) = 5 \/ Len(List) = 9  BY NextOperation, EveryList
    <2>2. Done + 1 = 5 \/ Done + 1 = 9  BY <1>2, <2>1
    <2>3. Done >= 1
      <3> HIDE DEF Done
      <3> QED  BY <1>1, <2>2
    <2> QED  BY <2>3 DEF IInv, Achieved
  <1>5. ASSUME NEW p \in Places PROVE nvs[p] = "none"
    <2>1. PICK j \in 1..((Done + 1) - 1) : List[j] = p
      BY <1>1, NextOperation, EveryList
    <2>2. j \in 1..Done  BY <1>1
    <2> QED  BY <2>1, <2>2 DEF IInv, Achieved
  <1>6. Tail(steps) = <<>>
    <2>1. Len(steps) = 1  BY <1>1, <1>2, NextOperation DEF Done
    <2> QED  BY <2>1, NextOperation
  <1> QED  BY <1>3, <1>4, <1>5, <1>6

LEMMA ResumedKept == PInv /\ [Next]_vars => PInv'
  <1> SUFFICES ASSUME PInv, [Next]_vars PROVE PInv'  OBVIOUS
  <1>1. IInv'  BY StepKeeps DEF PInv
  <1>2. CASE StepDone
    <2>1. pc \in Working /\ Effect(Head(steps))  BY <1>2 DEF StepDone
    <2>2. pc' \in {"recover", "finish"} => pc' = pc /\ Tail(steps) # <<>>
      BY <1>2 DEF StepDone, StageAfter
    <2>3. Tail(steps) # <<>> => Head(steps) # "complete"
      BY <2>1, LastOperation DEF PInv
    <2> QED  BY <1>1, <2>1, <2>2, <2>3 DEF PInv, Resumed, Effect
  <1>3. CASE StepFailed  BY <1>1, <1>3 DEF PInv, Resumed, StepFailed
  <1>4. CASE Boot  BY <1>1, <1>4 DEF PInv, Resumed, Boot
  <1>5. CASE InitController
    BY <1>1, <1>5 DEF PInv, Resumed, InitController, InitSeesJournal
  <1>6. CASE \/ LoadConfig \/ BootFailed \/ PowerLoss \/ ToggleTimezone
             \/ RequestReset \/ \E p \in Places : Store(p)
    BY <1>1, <1>6 DEF PInv, Resumed, LoadConfig, BootFailed, PowerLoss,
                      ToggleTimezone, RequestReset, Store
  <1>7. CASE UNCHANGED vars  BY <1>1, <1>7 DEF PInv, Resumed, vars
  <1> QED  BY <1>2, <1>3, <1>4, <1>5, <1>6, <1>7 DEF Next

\* The places that hold user data, and whether the device works with them
Data == {p \in Places : nvs[p] = "data"}
Live == pc \in {"running", "reset"}

\* One operation of a list, as the promise sees it: it makes the reset owed,
\* erases one place, or ends the reset.
LEMMA EffectPromised ==
    ASSUME PInv, pc \in Working, Effect(Head(steps)),
           Head(steps) # "complete" => Live' = Live,
           Live' => Live
    PROVE  [Promise!PromiseNext]_Promise!promiseVars
  <1> DEFINE s == Head(steps)
  <1>1. s \in Operations  BY NextOperation DEF PInv
  <1>2. /\ nvs \in [Places -> {"none", "default", "data"}]
        /\ journal \in BOOLEAN
    BY DEF PInv, IInv, TypeOK
  <1>3. CASE s = "journal"
    <2>1. s \notin Places  BY <1>3 DEF Places
    <2>2. journal' = TRUE /\ nvs' = nvs  BY <1>3, <2>1 DEF Effect
    <2>3. Live' = Live  BY <1>3
    <2>4. CASE journal
      BY <1>2, <2>2, <2>3, <2>4 DEF Promise!promiseVars, Data, Live
    <2>5. CASE ~journal
      <3>1. pc = "reset"  BY <2>5 DEF PInv, Resumed, Working
      <3>2. Promise!Owe
        BY <2>2, <2>3, <3>1 DEF Promise!Owe, Live
      <3> QED  BY <3>2 DEF Promise!PromiseNext
    <2> QED  BY <2>4, <2>5
  <1>4. CASE s = "complete"
    <2>1. s \notin Places  BY <1>4 DEF Places
    <2>2. journal' = FALSE /\ nvs' = nvs  BY <1>4, <2>1 DEF Effect
    <2>3. journal = TRUE /\ \A p \in Places : nvs[p] # "data"
      BY <1>2, <1>4, LastOperation DEF PInv
    <2>4. Live' = Live \/ Live' = FALSE  BY DEF Live
    <2>5. Promise!End
      BY <2>2, <2>3, <2>4 DEF Promise!End, Live
    <2> QED  BY <2>5 DEF Promise!PromiseNext
  <1>5. CASE s \in Places
    <2>1. PICK p \in Places : p = s  BY <1>5
    <2>2. s # "journal" /\ s # "complete"  BY <1>5 DEF Places
    <2>3. journal' = journal /\ nvs' = [nvs EXCEPT ![p] = "none"]
      BY <2>1, <2>2 DEF Effect
    <2>4. journal = TRUE
      <3>1. List[1] = "journal" /\ List[Done + 1] = s /\ Done \in Nat
        BY NextOperation, EveryList DEF PInv
      <3>2. Done >= 1  BY <2>2, <3>1
      <3> QED  BY <1>2, <3>2 DEF PInv, IInv, Achieved
    <2>5. Data' = Data \ {p}  BY <1>2, <2>3 DEF Data
    <2>6. Live' = Live  BY <2>2
    <2>7. Promise!Erase(p)
      BY <2>3, <2>4, <2>5, <2>6 DEF Promise!Erase, Data, Live
    <2> QED  BY <2>7 DEF Promise!PromiseNext
  <1> QED  BY <1>1, <1>3, <1>4, <1>5 DEF Operations

\* The working device and its boots, as the promise sees them
LEMMA DevicePromised ==
    ASSUME PInv,
           \/ Boot \/ LoadConfig \/ InitController \/ BootFailed \/ PowerLoss
           \/ ToggleTimezone \/ RequestReset \/ \E p \in Places : Store(p)
           \/ UNCHANGED vars
    PROVE  [Promise!PromiseNext]_Promise!promiseVars
  <1>1. nvs \in [Places -> {"none", "default", "data"}]  BY DEF PInv, IInv, TypeOK
  <1>2. CASE Boot \/ BootFailed \/ RequestReset \/ UNCHANGED vars
    <2>1. Live' = Live /\ UNCHANGED <<nvs, journal>>
      BY <1>2 DEF Boot, BootFailed, RequestReset, vars, Live
    <2> QED  BY <2>1 DEF Promise!promiseVars, Live
  <1>3. CASE LoadConfig
    <2>1. Live' = Live /\ journal' = journal  BY <1>3 DEF LoadConfig, Live
    <2>2. Data' = Data  BY <1>1, <1>3 DEF LoadConfig, Data
    <2> QED  BY <2>1, <2>2 DEF Promise!promiseVars, Live, Data
  <1>4. CASE InitController
    <2>1. CASE journal
      <3>1. Live' = Live /\ UNCHANGED <<nvs, journal>>
        BY <1>4, <2>1 DEF InitController, InitSeesJournal, Live
      <3> QED  BY <3>1 DEF Promise!promiseVars, Live
    <2>2. CASE ~journal
      <3>1. Live' = TRUE /\ Live = FALSE /\ UNCHANGED <<nvs, journal>>
        BY <1>4, <2>2 DEF InitController, InitSeesJournal, Live
      <3>2. Promise!Start  BY <2>2, <3>1 DEF Promise!Start, Live
      <3> QED  BY <3>2 DEF Promise!PromiseNext
    <2> QED  BY <2>1, <2>2
  <1>5. CASE PowerLoss
    <2>1. Live' = FALSE /\ UNCHANGED <<nvs, journal>>
      BY <1>5 DEF PowerLoss, Live
    <2>2. Promise!Stop  BY <2>1 DEF Promise!Stop, Live
    <2> QED  BY <2>2 DEF Promise!PromiseNext
  <1>6. ASSUME NEW p \in Places, pc = "running", nvs' = [nvs EXCEPT ![p] = "data"],
               UNCHANGED <<pc, journal>>
        PROVE  [Promise!PromiseNext]_Promise!promiseVars
    <2>1. Data' = Data \union {p}  BY <1>1, <1>6 DEF Data
    <2>2. Promise!Keep(p)  BY <1>6, <2>1 DEF Promise!Keep, Data
    <2> QED  BY <2>2 DEF Promise!PromiseNext
  <1>7. CASE ToggleTimezone
    <2>1. "cfg" \in Places  BY DEF Places
    <2> QED  BY <1>6, <1>7, <2>1 DEF ToggleTimezone
  <1>8. CASE \E p \in Places : Store(p)  BY <1>6, <1>8 DEF Store
  <1> QED  BY <1>2, <1>3, <1>4, <1>5, <1>7, <1>8

\* The reset of the flash operations, the journal and the boot stages implements
\* ResetPromise (vibe_store.c, app_main, app_controller_init): one that is owed
\* is neither forgotten nor started over, wherever power goes.
THEOREM ResetPromiseImplemented == Spec => ResetImplemented
  <1>1. Init => PInv  BY InitHolds DEF Init, PInv, Resumed
  <1>2. Init => Promise!PromiseInit
    BY DEF Init, Promise!PromiseInit
  <1>3. PInv /\ [Next]_vars => [Promise!PromiseNext]_Promise!promiseVars
    <2> SUFFICES ASSUME PInv, [Next]_vars
                 PROVE  [Promise!PromiseNext]_Promise!promiseVars
      OBVIOUS
    <2>1. CASE StepDone
      <3>1. pc \in Working /\ Effect(Head(steps)) /\ (Live' => Live)
        BY <2>1 DEF StepDone, StageAfter, Live, Working
      <3>2. Head(steps) # "complete" => Live' = Live
        <4> SUFFICES ASSUME Head(steps) # "complete", Tail(steps) = <<>>
                     PROVE  pc = "recover"
          BY <2>1 DEF StepDone, StageAfter, Live
        <4>1. /\ List \in Lists /\ Head(steps) = List[Done + 1]
              /\ Len(steps) = 1 /\ Len(List) \in Nat
          BY <3>1, NextOperation DEF PInv
        <4>2. Done + 1 = Len(List)  BY <4>1 DEF Done
        <4>3. List = LocalSteps  BY <4>1, <4>2, EveryList
        <4> QED  BY <3>1, <4>3, LongLists DEF List, Working
      <3> QED  BY <3>1, <3>2, EffectPromised
    <2>2. CASE StepFailed
      <3>1. pc \in Working /\ Live' = Live
        BY <2>2 DEF StepFailed, Live, Working
      <3>2. CASE Effect(Head(steps))  BY <3>1, <3>2, EffectPromised
      <3>3. CASE UNCHANGED <<journal, nvs, torn>>
        BY <3>1, <3>3 DEF Promise!promiseVars, Live
      <3> QED  BY <2>2, <3>2, <3>3 DEF StepFailed
    <2> QED  BY <2>1, <2>2, DevicePromised DEF Next
  <1> QED
    BY <1>1, <1>2, <1>3, ResumedKept, PTL
    DEF Spec, ResetImplemented, Promise!PromiseSpec

===============================================================================
