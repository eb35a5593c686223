------------------------------- MODULE ChatProofs -------------------------------
(***************************************************************************)
(* Proofs about Chat, for any number of questions, threads and slots.      *)
(***************************************************************************)
EXTENDS Chat, FiniteSetTheorems, SequenceTheorems, TLAPS

Calling == {r \in Request : pc[r] = "calling"}

(* The slots not free are held by the questions that are calling: without  *)
(* it TypeOK would not bound free, since Release adds without a look.      *)
SlotsAccounted ==
  /\ Cardinality(Calling) \in Nat
  /\ free + Cardinality(Calling) = Slots

(* A question under way has found a thread of its table.                   *)
AskedWhileOpen ==
  \A r \in Request : pc[r] \in Open \cup {"stored"} => asked[r] \in Key /\ about[r] \in Anchor

(* Whoever checked its anchor may still create its thread within the bound. *)
OpeningsCounted ==
  /\ IsFiniteSet(opening)
  /\ created + Cardinality(opening) <= MaxThreads

(* Who waits for a slot stands in the queue, so Acquire finds a head.      *)
WaitersQueued ==
  \A r \in Request : pc[r] = "waiting" => \E i \in 1..Len(queue) : queue[i] = r

(* TypeOK, made inductive.                                                 *)
WellTyped == TypeOK /\ SlotsAccounted /\ AskedWhileOpen /\ OpeningsCounted /\ WaitersQueued

(* A message of a request, and a whole turn of it.                         *)
LEMMA TurnType ==
  ASSUME NEW r \in Request
  PROVE  /\ Turn(r) \in Seq(Message)
         /\ Len(Turn(r)) = 2
         /\ Turn(r)[1] = [role |-> "user", of |-> r]
         /\ Turn(r)[2] = [role |-> "assistant", of |-> r]
<1>1. [role |-> "user", of |-> r] \in Message /\ [role |-> "assistant", of |-> r] \in Message
  BY DEF Message
<1> HIDE DEF Message
<1> QED BY <1>1 DEF Turn

(* A question that begins its call takes one slot, one that ends it gives  *)
(* one back, and the others leave the count as it is.                      *)
LEMMA CallingCount ==
  ASSUME TypeOK, NEW r \in Request, NEW label \in {"idle"} \cup Open \cup Answered,
         Goto(r, label)
  PROVE  /\ pc' \in [Request -> {"idle"} \cup Open \cup Answered]
         /\ \A q \in Request : pc'[q] = IF q = r THEN label ELSE pc[q]
         /\ pc[r] # "calling" /\ label = "calling" => Calling' = Calling \cup {r}
         /\ pc[r] = "calling" /\ label # "calling" => Calling' = Calling \ {r}
         /\ pc[r] # "calling" /\ label # "calling" => Calling' = Calling
BY DEF TypeOK, Goto, Calling, Open, Answered

(* The slots in use can be counted.                                        *)
LEMMA CallingFinite == IsFiniteSet(Calling) /\ Cardinality(Calling) \in Nat
<1>1. IsFiniteSet(Calling)
  BY ConstantsAssumption, FS_Subset DEF ConstantsAssumption, Calling
<1> QED BY <1>1, FS_CardinalityType

(* The questions' part of WellTyped, step by step.                         *)
LEMMA AskKeepsSlots ==
  ASSUME WellTyped, NEW r \in Request, Ask(r)
  PROVE  /\ SlotsAccounted' /\ free' \in 0..Slots
         /\ pc' \in [Request -> {"idle"} \cup Open \cup Answered]
<1> USE DEF WellTyped, SlotsAccounted
<1>1. free \in Nat /\ Slots \in Nat /\ Cardinality(Calling) \in Nat
  BY ConstantsAssumption DEF TypeOK, ConstantsAssumption
<1>2. CASE Acquire(r)
  <2>1. Goto(r, "calling") /\ pc[r] # "calling" /\ r \notin Calling /\ free' = free - 1 /\ free > 0
    BY <1>2 DEF Acquire, Calling
  <2>2. Calling' = Calling \cup {r} /\ pc' \in [Request -> {"idle"} \cup Open \cup Answered]
    BY <2>1, CallingCount, Zenon DEF Open
  <2>3. Cardinality(Calling') = Cardinality(Calling) + 1
    BY <2>1, <2>2, CallingFinite, FS_AddElement
  <2> QED BY <1>1, <2>1, <2>2, <2>3
<1>3. CASE CallReturns(r) \/ CallFails(r)
  <2>1. PICK label \in {"returned", "checked", "badGateway"} :
          Goto(r, label) /\ r \in Calling /\ free' = free + 1
    BY <1>3 DEF CallReturns, CallFails, Calling, Release
  <2>2. Calling' = Calling \ {r} /\ pc' \in [Request -> {"idle"} \cup Open \cup Answered]
    <3>1. label \in {"idle"} \cup Open \cup Answered /\ pc[r] = "calling" /\ label # "calling"
      BY <2>1 DEF Open, Answered, Calling
    <3> QED BY <2>1, <3>1, CallingCount, Zenon
  <2>3. Cardinality(Calling') = Cardinality(Calling) - 1
    BY <2>1, <2>2, CallingFinite, FS_RemoveElement
  <2>4. Cardinality(Calling') \in Nat
    BY <2>2, CallingFinite, FS_RemoveElement, FS_CardinalityType
  <2> QED BY <1>1, <2>1, <2>2, <2>3, <2>4
<1>4. CASE Read(r) \/ BuildContext(r) \/ ContextFails(r) \/ CheckAgain(r) \/ StoreTurn(r)
  <2>1. PICK label \in {"prepared", "waiting", "notFound", "error", "checked", "conflict", "stored"} :
          Goto(r, label) /\ pc[r] # "calling" /\ free' = free
    BY <1>4 DEF Read, ContextFails, BuildContext, CheckAgain, StoreTurn
  <2>2. Calling' = Calling /\ pc' \in [Request -> {"idle"} \cup Open \cup Answered]
    <3>1. label \in {"idle"} \cup Open \cup Answered /\ label # "calling"
      BY <2>1 DEF Open, Answered
    <3> QED BY <2>1, <3>1, CallingCount, Zenon
  <2> QED BY <1>1, <2>1, <2>2
<1> QED BY <1>2, <1>3, <1>4 DEF Ask

(* A creation under way, and its end, keep the bound.                      *)
LEMMA OpeningKeepsCount ==
  ASSUME WellTyped, NEW a \in Anchor, CheckAnchor(a) \/ CreateThread(a)
  PROVE  OpeningsCounted' /\ created' \in 0..MaxThreads
<1>1. /\ IsFiniteSet(opening) /\ Cardinality(opening) \in Nat
      /\ created \in Nat /\ created + Cardinality(opening) <= MaxThreads /\ MaxThreads \in Nat
  BY FS_CardinalityType, ConstantsAssumption
     DEF WellTyped, OpeningsCounted, TypeOK, ConstantsAssumption
<1>2. CASE CheckAnchor(a)
  <2>1. /\ opening' = opening \cup {a} /\ a \notin opening /\ created' = created
        /\ created + Cardinality(opening) < MaxThreads
    BY <1>2 DEF CheckAnchor
  <2>2. IsFiniteSet(opening') /\ Cardinality(opening') = Cardinality(opening) + 1
    BY <1>1, <2>1, FS_AddElement
  <2> QED BY <1>1, <2>1, <2>2 DEF OpeningsCounted
<1>3. CASE CreateThread(a)
  <2>1. opening' = opening \ {a} /\ a \in opening /\ created' \in {created, created + 1}
    BY <1>3 DEF CreateThread
  <2>2. IsFiniteSet(opening') /\ Cardinality(opening') = Cardinality(opening) - 1
    BY <1>1, <2>1, FS_RemoveElement
  <2>3. Cardinality(opening') \in Nat
    BY <2>2, FS_CardinalityType
  <2> QED BY <1>1, <2>1, <2>2, <2>3 DEF OpeningsCounted
<1> QED BY <1>2, <1>3

(* TypeOK holds together with what makes it inductive.                     *)
LEMMA WellTypedHolds == Spec => []WellTyped
<1>1. Init => WellTyped
  <2>1. Init => Calling = {}
    BY DEF Init, Calling
  <2>2. ASSUME Init PROVE SlotsAccounted
    <3>1. Cardinality(Calling) = 0
      BY <2>1, <2>2, FS_EmptySet
    <3> QED BY <2>2, <3>1, ConstantsAssumption DEF Init, SlotsAccounted, ConstantsAssumption
  <2>3. Init => OpeningsCounted
    BY FS_EmptySet, ConstantsAssumption DEF Init, OpeningsCounted, ConstantsAssumption
  <2>4. Init => TypeOK
    BY ConstantsAssumption DEF Init, TypeOK, ConstantsAssumption
  <2>5. Init => AskedWhileOpen
    BY DEF Init, AskedWhileOpen, Open
  <2>6. Init => WaitersQueued
    BY DEF Init, WaitersQueued
  <2> QED BY <2>2, <2>3, <2>4, <2>5, <2>6 DEF WellTyped
<1>2. WellTyped /\ [Next]_vars => WellTyped'
  <2> SUFFICES ASSUME WellTyped, [Next]_vars PROVE WellTyped'
    OBVIOUS
  <2> USE DEF WellTyped, TypeOK
  <2>1. ASSUME NEW a \in Anchor, CheckAnchor(a) PROVE WellTyped'
    <3>1. OpeningsCounted' /\ created' \in 0..MaxThreads
      BY <2>1, OpeningKeepsCount
    <3> QED BY <2>1, <3>1 DEF CheckAnchor, AskedWhileOpen, SlotsAccounted, Calling, WaitersQueued, store, asks
  <2>2. ASSUME NEW a \in Anchor, CreateThread(a) PROVE WellTyped'
    <3>1. OpeningsCounted' /\ created' \in 0..MaxThreads
      BY <2>2, OpeningKeepsCount
    <3>2. AskedWhileOpen' /\ SlotsAccounted' /\ WaitersQueued'
      BY <2>2 DEF CreateThread, AskedWhileOpen, SlotsAccounted, Calling, WaitersQueued, asks
    <3>3. /\ threads' \in [Key -> Anchor \cup {None}]
          /\ births' \in [Key -> 0..MaxThreads]
      <4>1. CASE UNCHANGED <<threads, births>>
        BY <4>1
      <4>2. CASE \E n \in 1..MaxThreads :
                   /\ threads' = [threads EXCEPT ![<<a[1], n>>] = a]
                   /\ births' = [births EXCEPT ![<<a[1], n>>] = created + 1]
                   /\ created' = created + 1
        <5>1. PICK n \in 1..MaxThreads :
                /\ threads' = [threads EXCEPT ![<<a[1], n>>] = a]
                /\ births' = [births EXCEPT ![<<a[1], n>>] = created']
          BY <4>2
        <5> QED BY <3>1, <5>1
      <4> QED BY <2>2, <4>1, <4>2 DEF CreateThread
    <3> QED BY <2>2, <3>1, <3>2, <3>3 DEF CreateThread, asks
  <2>3. ASSUME NEW a \in Anchor, Reingest(a) PROVE WellTyped'
    <3>1. anchors' \subseteq Anchor
      BY <2>3 DEF Reingest, Anchor
    <3>2. /\ messages' \in [Key -> Seq(Message)]
          /\ threads' \in [Key -> Anchor \cup {None}] /\ births' \in [Key -> 0..MaxThreads]
      BY <2>3, ConstantsAssumption DEF Reingest, Remove, ConstantsAssumption
    <3>3. reingested' \in 0..MaxReingest
      BY <2>3, ConstantsAssumption DEF Reingest, ConstantsAssumption
    <3>4. UNCHANGED <<created, opening, pc, asked, about, birth, seen, queue, free>>
      BY <2>3 DEF Reingest, asks
    <3> QED
      BY <3>1, <3>2, <3>3, <3>4 DEF AskedWhileOpen, SlotsAccounted, Calling, OpeningsCounted, WaitersQueued
  <2>4. ASSUME NEW t \in Key, DeleteThread(t) PROVE WellTyped'
    <3>1. /\ messages' \in [Key -> Seq(Message)]
          /\ threads' \in [Key -> Anchor \cup {None}] /\ births' \in [Key -> 0..MaxThreads]
      BY <2>4, ConstantsAssumption DEF DeleteThread, Remove, ConstantsAssumption
    <3>2. UNCHANGED <<anchors, created, reingested, opening, pc, asked, about, birth, seen,
                      queue, free>>
      BY <2>4 DEF DeleteThread, world, asks
    <3> QED BY <3>1, <3>2 DEF AskedWhileOpen, SlotsAccounted, Calling, OpeningsCounted, WaitersQueued
  <2>5. ASSUME NEW r \in Request, NEW t \in Key, Find(r, t) PROVE WellTyped'
    <3>1. PICK label \in {"found", "notFound"} :
            Goto(r, label) /\ pc[r] # "calling" /\ label # "calling" /\ free' = free
      BY <2>5 DEF Find
    <3>2. label \in {"idle"} \cup Open \cup Answered
      BY DEF Open, Answered
    <3>3. Calling' = Calling /\ pc' \in [Request -> {"idle"} \cup Open \cup Answered]
      BY <3>1, <3>2, CallingCount, Zenon
    <3>4. SlotsAccounted'
      BY <3>1, <3>3 DEF SlotsAccounted
    <3>5. AskedWhileOpen'
      BY <2>5 DEF Find, Live, AskedWhileOpen, Goto, Open
    <3>6. /\ asked' \in [Request -> Key \cup {None}]
          /\ about' \in [Request -> Anchor \cup {None}]
          /\ birth' \in [Request -> 0..MaxThreads]
      <4>1. /\ asked \in [Request -> Key \cup {None}]
            /\ about \in [Request -> Anchor \cup {None}]
            /\ birth \in [Request -> 0..MaxThreads]
            /\ threads[t] \in Anchor \cup {None} /\ births[t] \in 0..MaxThreads
        OBVIOUS
      <4>2. CASE Live(t)
        <5>1. /\ asked' = [asked EXCEPT ![r] = t]
              /\ about' = [about EXCEPT ![r] = threads[t]]
              /\ birth' = [birth EXCEPT ![r] = births[t]]
          BY <2>5, <4>2 DEF Find
        <5> HIDE DEF WellTyped, TypeOK, Key, Anchor, None
        <5> QED BY <4>1, <5>1
      <4>3. CASE ~Live(t)
        BY <2>5, <4>1, <4>3 DEF Find
      <4> QED BY <4>2, <4>3
    <3>7. UNCHANGED <<store, world, seen, queue, free>>
      BY <2>5 DEF Find
    <3>8. WaitersQueued'
      BY <3>1, <3>7 DEF Goto, WaitersQueued
    <3> QED
      BY <3>3, <3>4, <3>5, <3>6, <3>7, <3>8 DEF store, world, OpeningsCounted
  <2>6. ASSUME NEW r \in Request, Ask(r) PROVE WellTyped'
    <3>1. /\ SlotsAccounted' /\ free' \in 0..Slots
          /\ pc' \in [Request -> {"idle"} \cup Open \cup Answered]
      BY <2>6, AskKeepsSlots
    <3>2. UNCHANGED <<anchors, threads, births, world, asked, about, birth>>
      BY <2>6 DEF Ask, Read, ContextFails, BuildContext, Acquire, CallReturns, CallFails, CheckAgain, StoreTurn,
                  store, asks
    <3>3. AskedWhileOpen'
      BY <2>6, <3>2 DEF Ask, Read, ContextFails, BuildContext, Acquire, CallReturns, CallFails, CheckAgain,
                        StoreTurn, AskedWhileOpen, Goto, Open
    <3>4. messages' \in [Key -> Seq(Message)]
      <4>1. CASE StoreTurn(r)
        <5>1. asked[r] \in Key
          BY <4>1 DEF StoreTurn, AskedWhileOpen, Open
        <5>2. messages[asked[r]] \o Turn(r) \in Seq(Message)
          BY <5>1, TurnType, ConcatProperties
        <5> QED BY <4>1, <5>2 DEF StoreTurn
      <4> QED BY <2>6, <4>1 DEF Ask, Read, ContextFails, BuildContext, Acquire, CallReturns, CallFails,
                                CheckAgain, store
    <3>5. seen' \in [Request -> Seq(Message)]
      BY <2>6 DEF Ask, Read, ContextFails, BuildContext, Acquire, CallReturns, CallFails, CheckAgain, StoreTurn,
                  asks, AskedWhileOpen, Open
    <3>6. queue' \in Seq(Request)
      <4>1. CASE Acquire(r)
        <5>1. queue # <<>> /\ queue' = Tail(queue)
          BY <4>1 DEF Acquire, WaitersQueued
        <5> QED BY <5>1, HeadTailProperties
      <4>2. CASE Read(r)
        BY <4>2 DEF Read
      <4> QED BY <2>6, <4>1, <4>2 DEF Ask, ContextFails, BuildContext, CallReturns, CallFails, CheckAgain,
                                StoreTurn
    <3>7. WaitersQueued'
      <4>1. CASE Read(r)
        <5>1. queue' = Append(queue, r) /\ Goto(r, "waiting")
          BY <4>1 DEF Read
        <5>2. /\ Len(queue') = Len(queue) + 1 /\ queue'[Len(queue) + 1] = r
              /\ \A i \in 1..Len(queue) : queue'[i] = queue[i]
          BY <5>1
        <5>3. Len(queue) \in Nat
          BY LenProperties
        <5>4. \E i \in 1..Len(queue') : queue'[i] = r
          <6>1. Len(queue) + 1 \in 1..Len(queue')
            BY <5>2, <5>3
          <6>2. queue'[Len(queue) + 1] = r
            BY <5>2
          <6> QED BY <6>1, <6>2, Zenon
        <5>5. ASSUME NEW q \in Request, q # r, pc'[q] = "waiting"
              PROVE  \E i \in 1..Len(queue') : queue'[i] = q
          <6>1. PICK i \in 1..Len(queue) : queue[i] = q
            BY <5>1, <5>5 DEF WaitersQueued, Goto
          <6> QED BY <5>2, <5>3, <6>1
        <5> QED BY <5>4, <5>5 DEF WaitersQueued
      <4>2. CASE Acquire(r)
        <5>1. /\ queue # <<>> /\ queue' = Tail(queue) /\ Goto(r, "calling") /\ r = Head(queue)
          BY <4>2 DEF Acquire, WaitersQueued
        <5>2. /\ Len(queue') = Len(queue) - 1 /\ Len(queue) \in Nat
              /\ \A i \in 1..Len(queue) - 1 : queue'[i] = queue[i + 1]
              /\ r = queue[1]
          BY <5>1, HeadTailProperties, LenProperties
        <5>3. ASSUME NEW q \in Request, pc'[q] = "waiting"
              PROVE  \E i \in 1..Len(queue') : queue'[i] = q
          <6>1. q # r /\ pc[q] = "waiting"
            BY <5>1, <5>3 DEF Goto
          <6>2. PICK i \in 1..Len(queue) : queue[i] = q
            BY <6>1 DEF WaitersQueued
          <6>3. i # 1
            BY <5>2, <6>1, <6>2
          <6>4. i - 1 \in 1..Len(queue) - 1 /\ (i - 1) + 1 = i
            BY <5>2, <6>2, <6>3
          <6>5. queue'[i - 1] = queue[i] /\ Len(queue') = Len(queue) - 1
            BY <5>2, <6>4
          <6> QED BY <6>2, <6>4, <6>5
        <5> QED BY <5>3 DEF WaitersQueued
      <4> QED BY <2>6, <4>1, <4>2 DEF Ask, ContextFails, BuildContext, CallReturns, CallFails, CheckAgain,
                                      StoreTurn, WaitersQueued, Goto
    <3> QED BY <3>1, <3>2, <3>3, <3>4, <3>5, <3>6, <3>7 DEF world, OpeningsCounted
  <2>7. CASE UNCHANGED vars
    BY <2>7 DEF vars, store, world, asks, AskedWhileOpen, SlotsAccounted, Calling,
                OpeningsCounted, WaitersQueued
  <2> QED BY <2>1, <2>2, <2>3, <2>4, <2>5, <2>6, <2>7 DEF Next
<1> QED BY <1>1, <1>2, PTL DEF Spec

(* The variables of the chat keep their types: the slots are never more    *)
(* than the configured number nor less than none, whoever fails, and a     *)
(* queue or a transcript holds what belongs in it.                         *)
THEOREM TypeCorrect == Spec => []TypeOK
<1>1. WellTyped => TypeOK
  BY DEF WellTyped
<1> QED BY <1>1, WellTypedHolds, PTL

-------------------------------------------------------------------------------
(* Transcripts.                                                            *)

(* What the steps do to the tables, for the proofs about transcripts.      *)
LEMMA AppendedTurn ==
  ASSUME NEW m \in Seq(Message), NEW r \in Request
  PROVE  LET n == m \o Turn(r)
         IN  /\ Len(m) \in Nat /\ Len(n) = Len(m) + 2
             /\ \A i \in 1..Len(m) : n[i] = m[i]
             /\ n[Len(m) + 1] = [role |-> "user", of |-> r]
             /\ n[Len(m) + 2] = [role |-> "assistant", of |-> r]
<1>1. Turn(r) \in Seq(Message) /\ Len(Turn(r)) = 2
      /\ Turn(r)[1] = [role |-> "user", of |-> r]
      /\ Turn(r)[2] = [role |-> "assistant", of |-> r]
  BY TurnType
<1> DEFINE n == m \o Turn(r)
<1>2. /\ Len(n) = Len(m) + Len(Turn(r)) /\ Len(m) \in Nat
      /\ \A i \in 1..Len(m) + Len(Turn(r)) :
           n[i] = IF i <= Len(m) THEN m[i] ELSE Turn(r)[i - Len(m)]
  BY <1>1, ConcatProperties, LenProperties
<1> HIDE DEF n, Message
<1>3. /\ Len(m) + 1 \in 1..Len(m) + 2 /\ Len(m) + 2 \in 1..Len(m) + 2
      /\ (Len(m) + 1) - Len(m) = 1 /\ (Len(m) + 2) - Len(m) = 2
      /\ ~(Len(m) + 1 <= Len(m)) /\ ~(Len(m) + 2 <= Len(m))
  BY <1>2
<1>4. n[Len(m) + 1] = Turn(r)[1] /\ n[Len(m) + 2] = Turn(r)[2]
  BY <1>1, <1>2, <1>3
<1>5. \A i \in 1..Len(m) : n[i] = m[i]
  BY <1>1, <1>2
<1> QED BY <1>1, <1>2, <1>4, <1>5 DEF n

(* Nothing hangs on a row that is gone, whichever of the three ways it     *)
(* went, so a thread that gets an id used before starts empty.             *)
THEOREM NothingOrphaned == Spec => []NoOrphans
<1>1. Init => NoOrphans
  BY DEF Init, NoOrphans, Live
<1>2. WellTyped /\ NoOrphans /\ [Next]_vars => NoOrphans'
  <2> SUFFICES ASSUME WellTyped, NoOrphans, [Next]_vars PROVE NoOrphans'
    OBVIOUS
  <2> USE DEF NoOrphans, Live, WellTyped, TypeOK
  <2>1. ASSUME NEW a \in Anchor, CreateThread(a) PROVE NoOrphans'
    <3>1. CASE UNCHANGED <<threads, births>>
      BY <2>1, <3>1 DEF CreateThread
    <3>2. CASE a \in anchors /\ \E n \in 1..MaxThreads : threads' = [threads EXCEPT ![<<a[1], n>>] = a]
      <4>1. a # None
        BY <2>1, ConstantsAssumption DEF Anchor, None, ConstantsAssumption
      <4>2. \A t \in Key : threads'[t] = a \/ threads'[t] = threads[t]
        BY <3>2
      <4> QED BY <2>1, <3>2, <4>1, <4>2 DEF CreateThread
    <3> QED BY <2>1, <3>1, <3>2 DEF CreateThread
  <2>2. ASSUME NEW a \in Anchor, Reingest(a) PROVE NoOrphans'
    BY <2>2 DEF Reingest, Remove
  <2>3. ASSUME NEW t \in Key, DeleteThread(t) PROVE NoOrphans'
    BY <2>3 DEF DeleteThread, Remove
  <2>4. ASSUME NEW r \in Request, StoreTurn(r) PROVE NoOrphans'
    BY <2>4 DEF StoreTurn
  <2>5. CASE UNCHANGED store
    BY <2>5 DEF store
  <2> QED
    BY <2>1, <2>2, <2>3, <2>4, <2>5
       DEF Next, CheckAnchor, Find, Ask, Read, ContextFails, BuildContext, Acquire, CallReturns, CallFails,
           CheckAgain, vars, store
<1> QED BY <1>1, <1>2, WellTypedHolds, PTL DEF Spec

(* WholeTurns in terms of one transcript, with the length that makes it    *)
(* inductive: a transcript ends with an answer.                            *)
InTurns(m) ==
  /\ Len(m) % 2 = 0
  /\ \A i \in 1..Len(m) : m[i].role = "user" =>
       /\ i + 1 \in 1..Len(m)
       /\ m[i + 1] = [role |-> "assistant", of |-> m[i].of]
  /\ \A i \in 1..Len(m) : m[i].role = "assistant" => i % 2 = 0
  /\ \A i \in 1..Len(m), j \in 1..Len(m) : m[i] = m[j] => i = j

OfStored(m) == \A i \in 1..Len(m) : pc[m[i].of] = "stored"

TurnsOnly == \A t \in Key : InTurns(messages[t]) /\ OfStored(messages[t])

(* A turn of a question that has none there extends whole turns to whole   *)
(* turns.                                                                  *)
LEMMA TurnAdded ==
  ASSUME NEW m \in Seq(Message), NEW r \in Request, InTurns(m),
         \A i \in 1..Len(m) : m[i].of # r
  PROVE  InTurns(m \o Turn(r))
<1> DEFINE n == m \o Turn(r)
<1>1. /\ Len(m) \in Nat /\ Len(n) = Len(m) + 2
      /\ \A i \in 1..Len(m) : n[i] = m[i]
      /\ n[Len(m) + 1] = [role |-> "user", of |-> r]
      /\ n[Len(m) + 2] = [role |-> "assistant", of |-> r]
  BY AppendedTurn
<1>2. Len(m) % 2 = 0
  BY DEF InTurns
<1> HIDE DEF n
<1>3. \A i \in 1..Len(n) : i \in 1..Len(m) \/ i = Len(m) + 1 \/ i = Len(m) + 2
  BY <1>1
<1>4. Len(n) % 2 = 0 /\ (Len(m) + 2) % 2 = 0
  BY <1>1, <1>2
<1>5. ASSUME NEW i \in 1..Len(n), n[i].role = "user"
      PROVE  i + 1 \in 1..Len(n) /\ n[i + 1] = [role |-> "assistant", of |-> n[i].of]
  <2>1. CASE i \in 1..Len(m)
    <3>1. i + 1 \in 1..Len(m) /\ m[i + 1] = [role |-> "assistant", of |-> m[i].of]
      BY <1>1, <1>5, <2>1 DEF InTurns
    <3> QED BY <1>1, <2>1, <3>1
  <2>2. CASE i = Len(m) + 1
    <3>1. i + 1 = Len(m) + 2 /\ i + 1 \in 1..Len(n)
      BY <1>1, <2>2
    <3> QED BY <1>1, <2>2, <3>1
  <2>3. i # Len(m) + 2
    BY <1>1, <1>5
  <2> QED BY <1>3, <2>1, <2>2, <2>3
<1>6. ASSUME NEW i \in 1..Len(n), n[i].role = "assistant" PROVE i % 2 = 0
  <2>1. CASE i \in 1..Len(m)
    BY <1>1, <1>6, <2>1 DEF InTurns
  <2>2. i # Len(m) + 1
    BY <1>1, <1>6
  <2> QED BY <1>3, <1>4, <2>1, <2>2
<1>7. ASSUME NEW i \in 1..Len(n), NEW j \in 1..Len(n), n[i] = n[j] PROVE i = j
  <2>1. CASE i \in 1..Len(m) /\ j \in 1..Len(m)
    BY <1>1, <1>7, <2>1 DEF InTurns
  <2>2. \A k \in 1..Len(n) : n[k].of = r <=> k \notin 1..Len(m)
    BY <1>1, <1>3
  <2>3. n[Len(m) + 1] # n[Len(m) + 2]
    BY <1>1
  <2> QED BY <1>3, <1>7, <2>1, <2>2, <2>3
<1> QED BY <1>4, <1>5, <1>6, <1>7 DEF InTurns, n

(* A transcript consists of whole turns, however the questions of a thread *)
(* overlap and whatever is deleted meanwhile.                              *)
THEOREM TurnsWhole == Spec => []WholeTurns
<1>1. Init => TurnsOnly
  BY DEF Init, TurnsOnly, InTurns, OfStored
<1>2. WellTyped /\ TurnsOnly /\ [Next]_vars => TurnsOnly'
  <2> SUFFICES ASSUME WellTyped, TurnsOnly, [Next]_vars PROVE TurnsOnly'
    OBVIOUS
  <2>1. \A t \in Key : messages[t] \in Seq(Message)
    BY DEF WellTyped, TypeOK
  <2>2. \A r \in Request : pc[r] = "stored" => pc'[r] = "stored"
    BY DEF Next, vars, CheckAnchor, CreateThread, Reingest, DeleteThread, Find, Ask, Read,
           ContextFails, BuildContext, Acquire, CallReturns, CallFails, CheckAgain, StoreTurn, Goto,
           WellTyped, TypeOK
  <2>3. \A t \in Key : \A i \in 1..Len(messages[t]) : messages[t][i].of \in Request
    <3> SUFFICES ASSUME NEW t \in Key, NEW i \in 1..Len(messages[t])
                 PROVE  messages[t][i].of \in Request
      OBVIOUS
    <3>1. messages[t][i] \in Message
      <4> HIDE DEF Message
      <4> QED BY <2>1
    <3> QED BY <3>1 DEF Message
  <2>4. ASSUME NEW r \in Request, StoreTurn(r) PROVE TurnsOnly'
    <3>1. CASE UNCHANGED messages
      BY <2>2, <2>3, <3>1 DEF TurnsOnly, InTurns, OfStored
    <3>2. CASE pc[r] = "checked" /\ Goto(r, "stored")
               /\ messages' = [messages EXCEPT ![asked[r]] = @ \o Turn(r)]
      <4>1. asked[r] \in Key
        BY <3>2 DEF WellTyped, AskedWhileOpen, Open
      <4> DEFINE m == messages[asked[r]]
                 n == m \o Turn(r)
      <4>2. messages' = [messages EXCEPT ![asked[r]] = n]
        BY <3>2
      <4>3. /\ Len(m) \in Nat /\ Len(n) = Len(m) + 2
            /\ \A i \in 1..Len(m) : n[i] = m[i]
            /\ n[Len(m) + 1] = [role |-> "user", of |-> r]
            /\ n[Len(m) + 2] = [role |-> "assistant", of |-> r]
        BY <2>1, <4>1, AppendedTurn
      <4>4. \A i \in 1..Len(m) : m[i].of # r
        BY <3>2, <4>1 DEF TurnsOnly, OfStored
      <4>5. InTurns(n)
        BY <2>1, <4>1, <4>4, TurnAdded DEF TurnsOnly
      <4>6. pc'[r] = "stored"
        BY <3>2 DEF Goto, WellTyped, TypeOK
      <4>7. \A i \in 1..Len(n) : pc'[n[i].of] = "stored"
        <5> SUFFICES ASSUME NEW i \in 1..Len(n) PROVE pc'[n[i].of] = "stored"
          OBVIOUS
        <5> HIDE DEF m, n
        <5>1. i \in 1..Len(m) \/ i = Len(m) + 1 \/ i = Len(m) + 2
          BY <4>3
        <5>2. i \in 1..Len(m) => pc'[m[i].of] = "stored"
          BY <2>2, <2>3, <4>1 DEF TurnsOnly, OfStored, m
        <5> QED BY <4>3, <4>6, <5>1, <5>2
      <4>8. \A t \in Key : t # asked[r] => messages'[t] = messages[t]
        BY <3>2 DEF WellTyped, TypeOK
      <4>9. messages'[asked[r]] = n
        BY <4>1, <4>2 DEF WellTyped, TypeOK
      <4> HIDE DEF m, n
      <4>10. ASSUME NEW t \in Key PROVE InTurns(messages'[t]) /\ OfStored(messages[t])'
        <5>1. CASE t = asked[r]
          BY <4>5, <4>7, <4>9, <5>1 DEF OfStored
        <5>2. CASE t # asked[r]
          BY <2>2, <2>3, <4>8, <5>2 DEF TurnsOnly, OfStored
        <5> QED BY <5>1, <5>2
      <4> QED BY <4>10 DEF TurnsOnly, InTurns
    <3> QED BY <2>4, <3>1, <3>2 DEF StoreTurn
  <2>5. CASE \A t \in Key : messages'[t] = messages[t] \/ messages'[t] = <<>>
    <3>1. ASSUME NEW t \in Key PROVE InTurns(messages'[t]) /\ OfStored(messages[t])'
      <4>1. CASE messages'[t] = messages[t]
        BY <2>2, <2>3, <4>1 DEF TurnsOnly, OfStored
      <4>2. CASE messages'[t] = <<>>
        BY <4>2 DEF InTurns, OfStored
      <4> QED BY <2>5, <4>1, <4>2
    <3> QED BY <3>1 DEF TurnsOnly, InTurns
  <2>6. ASSUME NEW a \in Anchor, Reingest(a) PROVE TurnsOnly'
    BY <2>5, <2>6 DEF Reingest, Remove
  <2>7. ASSUME NEW t \in Key, DeleteThread(t) PROVE TurnsOnly'
    BY <2>5, <2>7 DEF DeleteThread, Remove
  <2>8. CASE UNCHANGED messages
    BY <2>5, <2>8
  <2>9. CASE \/ \E a \in Anchor : CheckAnchor(a) \/ CreateThread(a)
             \/ \E r \in Request, t \in Key : Find(r, t)
             \/ \E r \in Request : Ask(r) /\ ~StoreTurn(r)
             \/ UNCHANGED vars
    <3>1. UNCHANGED messages
      BY <2>9 DEF vars, store, CheckAnchor, CreateThread, Find, Ask, Read, ContextFails, BuildContext, Acquire,
                  CallReturns, CallFails, CheckAgain
    <3> QED BY <2>8, <3>1
  <2> QED BY <2>4, <2>6, <2>7, <2>9 DEF Next
<1>3. WellTyped /\ TurnsOnly => WholeTurns
  <2> SUFFICES ASSUME WellTyped, TurnsOnly PROVE WholeTurns
    OBVIOUS
  <2>1. \A t \in Key : DOMAIN messages[t] = 1..Len(messages[t])
    BY LenProperties DEF WellTyped, TypeOK
  <2> SUFFICES ASSUME NEW t \in Key
               PROVE  LET m == messages[t]
                      IN  /\ \A i \in DOMAIN m : m[i].role = "user" =>
                               /\ i + 1 \in DOMAIN m
                               /\ m[i + 1] = [role |-> "assistant", of |-> m[i].of]
                          /\ \A i \in DOMAIN m : m[i].role = "assistant" => i % 2 = 0
                          /\ \A i \in DOMAIN m : pc[m[i].of] = "stored"
                          /\ \A i, j \in DOMAIN m : m[i] = m[j] => i = j
    BY Zenon DEF WholeTurns
  <2>2. InTurns(messages[t]) /\ OfStored(messages[t])
    BY DEF TurnsOnly
  <2> QED BY <2>1, <2>2 DEF InTurns, OfStored
<1> QED BY <1>1, <1>2, <1>3, WellTypedHolds, PTL DEF Spec

-------------------------------------------------------------------------------
(* Histories.                                                              *)

(* IsPrefixOf, point by point.                                             *)
LEMMA PrefixPointwise ==
  ASSUME NEW p \in Seq(Message), NEW m \in Seq(Message)
  PROVE  IsPrefixOf(p, m) <=> Len(p) <= Len(m) /\ \A i \in 1..Len(p) : p[i] = m[i]
<1> HIDE DEF Message
<1>1. Len(p) \in Nat /\ Len(m) \in Nat /\ \A i \in 1..Len(m) : m[i] \in Message
  OBVIOUS
<1>2. CASE Len(p) <= Len(m)
  <2> DEFINE s == SubSeq(m, 1, Len(p))
  <2>1. \A i \in 1..Len(p) : m[i] \in Message
    BY <1>1, <1>2
  <2>2. s \in Seq(Message) /\ Len(s) = Len(p)
    BY <1>1, <2>1, SubSeqProperties
  <2>3. \A i \in 1..Len(p) : s[i] = m[i]
    <3>1. \A i \in 1..Len(p) - 1 + 1 : s[i] = m[1 + i - 1]
      BY <1>1, <2>1, SubSeqProperties
    <3>2. Len(p) - 1 + 1 = Len(p) /\ \A i \in 1..Len(p) : 1 + i - 1 = i
      BY <1>1
    <3> QED BY <3>1, <3>2
  <2> HIDE DEF s
  <2>4. p = s <=> \A i \in 1..Len(p) : p[i] = s[i]
    BY <2>2, SeqEqual
  <2> QED BY <1>2, <2>3, <2>4 DEF IsPrefixOf, s
<1> QED BY <1>1, <1>2 DEF IsPrefixOf

(* Creations are numbered, a thread there is has the number of its own, and *)
(* a question keeps the one of the thread it found.                        *)
BirthsCounted ==
  /\ \A t \in Key : births[t] <= created
  /\ \A r \in Request : pc[r] \in Open \cup {"stored"} => birth[r] \in 1..created
  /\ \A t \in Key : Live(t) => births[t] # 0

(* A question that has not read yet has been told nothing.                 *)
UntoldBeforeRead ==
  \A r \in Request : pc[r] \in {"idle", "found", "prepared"} => seen[r] = <<>>

(* What an answer was based on stays the beginning of its thread, for any  *)
(* number of questions at once.                                            *)
THEOREM HistoryPast == Spec => []HistoryIsPast
<1> DEFINE IInv == BirthsCounted /\ UntoldBeforeRead /\ HistoryIsPast
<1>1. Init => IInv
  BY ConstantsAssumption
     DEF Init, BirthsCounted, UntoldBeforeRead, HistoryIsPast, Live, Open, ConstantsAssumption
<1>2. WellTyped /\ IInv /\ [Next]_vars => IInv'
  <2> SUFFICES ASSUME WellTyped, IInv, [Next]_vars PROVE IInv'
    OBVIOUS
  <2>1. /\ messages \in [Key -> Seq(Message)] /\ seen \in [Request -> Seq(Message)]
        /\ births \in [Key -> 0..MaxThreads] /\ created \in 0..MaxThreads
        /\ birth \in [Request -> 0..MaxThreads] /\ pc \in [Request -> {"idle"} \cup Open \cup Answered]
        /\ \A r \in Request : pc[r] \in Open \cup {"stored"} => asked[r] \in Key
        /\ MaxThreads \in Nat
    BY ConstantsAssumption DEF WellTyped, TypeOK, AskedWhileOpen, ConstantsAssumption
  <2>0. created \in Nat /\ \A t \in Key : births[t] \in Nat
    BY <2>1
  <2> HIDE DEF Message
  <2>2. ASSUME NEW a \in Anchor, CheckAnchor(a) \/ CreateThread(a) PROVE IInv'
    <3>1. UNCHANGED <<messages, pc, asked, birth, seen>> /\ created' \in {created, created + 1}
      BY <2>2 DEF CheckAnchor, CreateThread, store, asks
    <3>2. UNCHANGED <<threads, births, created>>
          \/ \E k : /\ threads' = [threads EXCEPT ![k] = a]
                    /\ births' = [births EXCEPT ![k] = created'] /\ created' = created + 1
      BY <2>2 DEF CheckAnchor, CreateThread, store
    <3>3. \A t \in Key :
            \/ births'[t] = created + 1 /\ created' = created + 1
            \/ births'[t] = births[t] /\ threads'[t] = threads[t]
      BY <2>1, <3>2 DEF WellTyped, TypeOK
    <3>4. BirthsCounted'
      <4>1. \A t \in Key : births'[t] <= created'
        BY <2>1, <3>1, <3>3 DEF BirthsCounted
      <4>2. \A r \in Request : pc'[r] \in Open \cup {"stored"} => birth'[r] \in 1..created'
        BY <2>1, <3>1 DEF BirthsCounted
      <4>3. \A t \in Key : threads'[t] # None => births'[t] # 0
        BY <2>0, <3>3 DEF BirthsCounted, Live
      <4> QED BY <4>1, <4>2, <4>3 DEF BirthsCounted, Live
    <3>5. HistoryIsPast'
      BY <2>1, <3>1, <3>3 DEF HistoryIsPast, BirthsCounted
    <3> QED BY <3>1, <3>4, <3>5 DEF UntoldBeforeRead
  <2>3. ASSUME NEW ts \in SUBSET Key, Remove(ts), UNCHANGED <<created, pc, asks>> PROVE IInv'
    <3>1. \A t \in Key :
            \/ births'[t] = 0 /\ threads'[t] = None
            \/ /\ births'[t] = births[t] /\ threads'[t] = threads[t]
               /\ messages'[t] = messages[t]
      BY <2>3 DEF Remove
    <3>2. BirthsCounted'
      <4>1. \A t \in Key : births'[t] <= created'
        BY <2>0, <2>3, <3>1 DEF BirthsCounted
      <4>2. \A r \in Request : pc'[r] \in Open \cup {"stored"} => birth'[r] \in 1..created'
        BY <2>1, <2>3 DEF BirthsCounted, asks
      <4>3. \A t \in Key : threads'[t] # None => births'[t] # 0
        BY <2>1, <2>3, <3>1 DEF BirthsCounted, Live
      <4> QED BY <4>1, <4>2, <4>3 DEF BirthsCounted, Live
    <3>3. HistoryIsPast'
      <4> SUFFICES ASSUME NEW r \in Request, pc'[r] \in Open \cup {"stored"},
                          births'[asked'[r]] = birth'[r]
                   PROVE  IsPrefixOf(seen'[r], messages'[asked'[r]])
        BY DEF HistoryIsPast
      <4>1. /\ pc[r] \in Open \cup {"stored"} /\ asked'[r] = asked[r] /\ asked[r] \in Key
            /\ birth'[r] = birth[r] /\ seen'[r] = seen[r] /\ birth[r] # 0
        BY <2>1, <2>3 DEF asks, BirthsCounted
      <4>2. births'[asked[r]] = births[asked[r]] /\ messages'[asked[r]] = messages[asked[r]]
        BY <3>1, <4>1
      <4> QED BY <4>1, <4>2 DEF HistoryIsPast
    <3> QED BY <2>3, <3>2, <3>3 DEF UntoldBeforeRead, asks
  <2>4. ASSUME NEW r \in Request, NEW t \in Key, Find(r, t) PROVE IInv'
    <3>1. UNCHANGED <<threads, messages, births, created, seen>> /\ pc[r] = "idle"
      BY <2>4 DEF Find, store, world
    <3>2. \/ /\ Live(t) /\ asked' = [asked EXCEPT ![r] = t]
             /\ birth' = [birth EXCEPT ![r] = births[t]] /\ Goto(r, "found")
          \/ Goto(r, "notFound") /\ UNCHANGED <<asked, birth>>
      BY <2>4 DEF Find
    <3>3. seen[r] = <<>>
      BY <3>1 DEF UntoldBeforeRead
    <3>4. \A q \in Request : q # r => pc'[q] = pc[q] /\ asked'[q] = asked[q] /\ birth'[q] = birth[q]
      BY <3>2 DEF Goto, WellTyped, TypeOK
    <3>5. \/ pc'[r] = "found" /\ birth'[r] \in 1..created /\ asked'[r] = t
          \/ pc'[r] = "notFound"
      BY <2>1, <3>2 DEF Goto, BirthsCounted, WellTyped, TypeOK
    <3>6. BirthsCounted'
      BY <3>1, <3>4, <3>5 DEF BirthsCounted, Live, Open
    <3>7. IsPrefixOf(seen[r], messages[t])
      <4>1. seen[r] \in Seq(Message) /\ messages[t] \in Seq(Message) /\ Len(seen[r]) = 0
        BY <2>1, <3>3
      <4>2. Len(messages[t]) \in Nat
        BY <4>1, LenProperties
      <4> QED BY <4>1, <4>2, PrefixPointwise
    <3>8. HistoryIsPast'
      BY <3>1, <3>4, <3>5, <3>7 DEF HistoryIsPast, Open
    <3> QED BY <3>1, <3>3, <3>4, <3>5, <3>6, <3>8 DEF UntoldBeforeRead
  <2>5. ASSUME NEW r \in Request, Read(r) PROVE IInv'
    <3>1. UNCHANGED <<threads, messages, births, created, asked, birth>>
          /\ pc[r] = "prepared" /\ Goto(r, "waiting")
          /\ seen' = [seen EXCEPT ![r] = messages[asked[r]]]
      BY <2>5 DEF Read, store, world
    <3>2. asked[r] \in Key /\ messages[asked[r]] \in Seq(Message)
      BY <2>1, <3>1 DEF Open
    <3>3. /\ pc'[r] = "waiting" /\ seen'[r] = messages[asked[r]]
          /\ \A q \in Request : q # r => pc'[q] = pc[q] /\ seen'[q] = seen[q]
      BY <2>1, <3>1 DEF Goto
    <3>4. IsPrefixOf(messages[asked[r]], messages[asked[r]])
      BY <3>2, PrefixPointwise
    <3>5. BirthsCounted'
      BY <3>1, <3>3 DEF BirthsCounted, Live, Open
    <3>6. HistoryIsPast'
      BY <3>1, <3>3, <3>4 DEF HistoryIsPast, Open
    <3> QED BY <3>3, <3>5, <3>6 DEF UntoldBeforeRead
  <2>6. ASSUME NEW r \in Request, Ask(r), ~Read(r), ~StoreTurn(r) PROVE IInv'
    <3>1. UNCHANGED <<threads, messages, births, created, asked, birth, seen>>
      BY <2>6 DEF Ask, ContextFails, BuildContext, Acquire, CallReturns, CallFails, CheckAgain, store, world, asks
    <3>2. PICK label : /\ Goto(r, label) /\ pc[r] \in Open
                       /\ label \notin {"idle", "found", "stored"}
                       /\ label = "prepared" => pc[r] = "found"
      BY <2>6 DEF Ask, ContextFails, BuildContext, Acquire, CallReturns, CallFails, CheckAgain, Open
    <3>3. /\ \A q \in Request : q # r => pc'[q] = pc[q]
          /\ pc'[r] \notin {"idle", "found", "stored"}
          /\ pc'[r] = "prepared" => pc[r] = "found"
      BY <2>1, <3>2 DEF Goto
    <3>4. BirthsCounted'
      BY <3>1, <3>2, <3>3 DEF BirthsCounted, Live
    <3>5. HistoryIsPast'
      BY <3>1, <3>2, <3>3 DEF HistoryIsPast
    <3> QED BY <3>1, <3>3, <3>4, <3>5 DEF UntoldBeforeRead
  <2>7. ASSUME NEW r \in Request, StoreTurn(r) PROVE IInv'
    <3>1. /\ UNCHANGED <<threads, births, created, asked, birth, seen>>
          /\ pc[r] = "checked"
          /\ \/ UNCHANGED messages /\ \E label \in {"conflict", "error"} : Goto(r, label)
             \/ Goto(r, "stored")
                /\ messages' = [messages EXCEPT ![asked[r]] = @ \o Turn(r)]
      BY <2>7 DEF StoreTurn, world, asks
    <3>2. /\ \A q \in Request : q # r => pc'[q] = pc[q]
          /\ pc'[r] \notin {"idle", "found", "prepared"}
      BY <2>1, <3>1 DEF Goto
    <3>3. BirthsCounted'
      BY <3>1, <3>2 DEF BirthsCounted, Live, Open
    <3>4. ASSUME NEW t \in Key, NEW p \in Seq(Message), IsPrefixOf(p, messages[t])
          PROVE  IsPrefixOf(p, messages'[t])
      <4>1. CASE messages'[t] = messages[t]
        BY <3>4, <4>1
      <4>2. CASE messages'[t] = messages[t] \o Turn(r)
        <5> DEFINE m == messages[t]
                   n == m \o Turn(r)
        <5>1. m \in Seq(Message) /\ n \in Seq(Message)
          BY <2>1, TurnType, ConcatProperties
        <5>2. Len(m) \in Nat /\ Len(n) = Len(m) + 2 /\ \A i \in 1..Len(m) : n[i] = m[i]
          BY <2>1, AppendedTurn
        <5>3. Len(p) \in Nat
          BY LenProperties
        <5>4. Len(p) <= Len(m) /\ \A i \in 1..Len(p) : p[i] = m[i]
          BY <3>4, <5>1, PrefixPointwise
        <5> HIDE DEF m, n
        <5>5. Len(p) <= Len(n) /\ \A i \in 1..Len(p) : p[i] = n[i]
          BY <5>2, <5>3, <5>4
        <5>6. IsPrefixOf(p, n)
          BY <5>1, <5>5, PrefixPointwise
        <5> QED BY <4>2, <5>6 DEF m, n
      <4> QED BY <2>1, <3>1, <4>1, <4>2
    <3>5. \A q \in Request : pc'[q] \in Open \cup {"stored"} => pc[q] \in Open \cup {"stored"}
      BY <3>1, <3>2 DEF Open
    <3>6. HistoryIsPast'
      BY <2>1, <3>1, <3>4, <3>5 DEF HistoryIsPast
    <3> QED BY <3>1, <3>2, <3>3, <3>6 DEF UntoldBeforeRead
  <2>8. ASSUME NEW a \in Anchor, Reingest(a) PROVE IInv'
    BY <2>3, <2>8 DEF Reingest
  <2>9. ASSUME NEW t \in Key, DeleteThread(t) PROVE IInv'
    BY <2>3, <2>9 DEF DeleteThread, world
  <2>10. CASE UNCHANGED vars
    BY <2>10 DEF vars, store, world, asks, BirthsCounted, UntoldBeforeRead, HistoryIsPast, Live
  <2> QED BY <2>2, <2>4, <2>5, <2>6, <2>7, <2>8, <2>9, <2>10 DEF Next
<1> QED BY <1>1, <1>2, WellTypedHolds, PTL DEF Spec
===============================================================================
