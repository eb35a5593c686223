-------------------------- MODULE ChunkTranslateProofs --------------------------
(***************************************************************************)
(* Proofs about ChunkTranslate, for any document, any number of runs and   *)
(* repairs and any retry bounds.                                           *)
(***************************************************************************)
EXTENDS ChunkTranslate, FiniteSetTheorems, TLAPS

(* Texts of different origins are different texts.                         *)
LEMMA TextKinds ==
  /\ NoText \in Texts
  /\ \A c \in Chunk : SourceText(c) \in Texts /\ ContextText(c) \in Texts
  /\ \A k \in Keys : CopiedText(k) \in Texts
  /\ runs \in 1..MaxRuns => \A j \in Job : FreshText(j) \in Texts
  /\ \A j : FreshText(j) # NoText /\ \A c : FreshText(j) # ContextText(c)
  /\ \A k : CopiedText(k) # NoText /\ \A c : CopiedText(k) # ContextText(c)
  /\ \A c : SourceText(c) # NoText /\ \A d : SourceText(c) # ContextText(d)
  /\ \A c : ContextText(c) # NoText /\ \A d : ContextText(c) = ContextText(d) => c = d
<1>1. NoText[1] = "none" /\ \A c : SourceText(c)[1] = "source" /\ ContextText(c)[1] = "context"
  BY DEF NoText, SourceText, ContextText
<1>2. (\A k : CopiedText(k)[1] = "elsewhere") /\ \A j : FreshText(j)[1] = "llm"
  BY DEF CopiedText, FreshText
<1>3. \A c, d : ContextText(c) = ContextText(d) => c = d
  BY DEF ContextText
<1>4. /\ NoText \in Texts
      /\ \A c \in Chunk : SourceText(c) \in Texts /\ ContextText(c) \in Texts
      /\ \A k \in Keys : CopiedText(k) \in Texts
      /\ runs \in 1..MaxRuns => \A j \in Job : FreshText(j) \in Texts
  BY DEF Texts, SourceText, ContextText, CopiedText, FreshText
<1> QED BY <1>1, <1>2, <1>3, <1>4

(* The rows a run or a repair makes.                                       *)
LEMMA RowKinds ==
  /\ AbsentRow \in Row /\ AbsentRow.status = "absent" /\ AbsentRow.key = NoKey
  /\ AbsentRow.body = NoText /\ AbsentRow.caption = NoText
  /\ FailedRow \in Row /\ FailedRow.status = "failed" /\ FailedRow.key = NoKey
  /\ FailedRow.body = NoText /\ FailedRow.caption = NoText
  /\ \A body \in Texts, caption \in Texts, key \in Keys \cup {NoKey, BlankKey} :
       LET row == TranslatedRow(body, caption, key)
       IN  /\ row \in Row /\ row.status = "translated"
           /\ row.body = body /\ row.caption = caption /\ row.key = key
<1>1. NoText \in Texts
  BY TextKinds
<1> QED BY <1>1 DEF AbsentRow, FailedRow, TranslatedRow, Row

(* A repaired row is a row, and loses its key.                             *)
LEMMA RepairedRow ==
  ASSUME TypeOK, NEW c \in Chunk
  PROVE  /\ Repaired(c) \in Row
         /\ Repaired(c).status = "translated" /\ Repaired(c).key = NoKey
         /\ Repaired(c).body = staged[c] /\ Repaired(c).caption = rows[c].caption
<1>1. rows[c] \in Row /\ staged[c] \in Texts
  BY DEF TypeOK
<1> QED BY <1>1 DEF Repaired, Row

(* The keys of the two parts, and the job of neither.                      *)
LEMMA JobKinds ==
  /\ NoJob \notin Job
  /\ \A c \in Chunk, p \in Part : <<c, p>> \in Job
  /\ \A j \in Job : j[1] \in Chunk /\ j[2] \in Part /\ j = <<j[1], j[2]>>
  /\ \A j \in Job : KeyOf(j) \in Keys \cup {NoKey}
  /\ \A c \in Chunk : KeyOf(<<c, "body">>) = BodyOf[c] /\ KeyOf(<<c, "caption">>) = CaptionOf[c]
<1>1. NChunks \in Nat /\ 0 \notin Chunk
  BY ConstantsAssumption DEF ConstantsAssumption, Chunk
<1>2. /\ BodyOf \in [Chunk -> Keys \cup {NoKey}]
      /\ CaptionOf \in [Chunk -> Keys \cup {NoKey}]
  BY ConstantsAssumption DEF ConstantsAssumption
<1>3. NoJob \notin Job
  <2>1. NoJob[1] = 0 /\ \A j \in Job : j[1] \in Chunk
    BY DEF NoJob, Job
  <2> QED BY <1>1, <2>1
<1>4. \A j \in Job : j[1] \in Chunk /\ j[2] \in Part /\ j = <<j[1], j[2]>>
  BY DEF Job
<1>5. \A c \in Chunk, p \in Part : <<c, p>> \in Job
  BY DEF Job
<1>6. \A j \in Job : KeyOf(j) \in Keys \cup {NoKey}
  BY <1>2, <1>4 DEF KeyOf
<1>7. \A c \in Chunk : KeyOf(<<c, "body">>) = BodyOf[c] /\ KeyOf(<<c, "caption">>) = CaptionOf[c]
  BY DEF KeyOf
<1> QED BY <1>3, <1>4, <1>5, <1>6, <1>7

-------------------------------------------------------------------------------
(* Types.                                                                  *)

Owning == {"slot", "incall", "publish", "drop"}

(* A task at work on a part works under a key, a task that waits waits for *)
(* a call under its own key, and what is registered under a key is a call  *)
(* for it.                                                                 *)
WorkNamed ==
  /\ phase = "running" => runs # 0
  /\ \A c \in Chunk : pc[c] \in {"lookup", "await"} \cup Owning => Key(c) \in Keys
  /\ \A c \in Chunk : pc[c] = "await" => waitsOn[c] \in Job /\ KeyOf(waitsOn[c]) = Key(c)
  /\ \A k \in Keys : pendingFutures[k] # NoJob => KeyOf(pendingFutures[k]) = k

(* A row under a key was written by a run, for the content of its chunk.   *)
KeyedRows ==
  \A c \in Chunk : rows[c].key # NoKey =>
    /\ rows[c].key = ContentKey(c) /\ rows[c].status = "translated"
    /\ rows[c].body = NoText <=> rows[c].key = BlankKey

(* The key of a content is that of a body, or the key of a blank.          *)
LEMMA ContentKeys ==
  ASSUME NEW c \in Chunk
  PROVE  /\ ContentKey(c) \in Keys \cup {BlankKey} /\ ContentKey(c) # NoKey
         /\ ContentKey(c) = BlankKey <=> BodyOf[c] = NoKey
         /\ ContentKey(c) \in Keys => ContentKey(c) = BodyOf[c]
BY ConstantsAssumption DEF ConstantsAssumption, ContentKey

(* A text goes to the part the task is at; a body's task goes on to its    *)
(* caption, if there is one.                                               *)
LEMMA ReceiveEffect ==
  ASSUME TypeOK, NEW c \in Chunk, NEW text \in Texts, Receive(c, text)
  PROVE  /\ got' \in [Chunk -> [Part -> Texts]] /\ part' \in [Chunk -> Part]
         /\ \A d \in Chunk, p \in Part :
              got'[d][p] = IF d = c /\ p = part[c] THEN text ELSE got[d][p]
         /\ \A d \in Chunk : d # c => pc'[d] = pc[d] /\ part'[d] = part[d]
         /\ part[c] = "body" /\ CaptionOf[c] # NoKey => part'[c] = "caption" /\ pc'[c] = "lookup"
         /\ ~(part[c] = "body" /\ CaptionOf[c] # NoKey) => part'[c] = part[c] /\ pc'[c] = "write"
         /\ \E label \in {"lookup", "write"} : Goto(c, label)
<1>1. /\ got \in [Chunk -> [Part -> Texts]] /\ part \in [Chunk -> Part] /\ part[c] \in Part
      /\ pc = [d \in Chunk |-> pc[d]]
  BY DEF TypeOK
<1>2. /\ got' = [got EXCEPT ![c][part[c]] = text]
      /\ part' = [part EXCEPT ![c] = IF part[c] = "body" /\ CaptionOf[c] # NoKey
                                       THEN "caption" ELSE @]
      /\ Goto(c, IF part[c] = "body" /\ CaptionOf[c] # NoKey THEN "lookup" ELSE "write")
  BY DEF Receive
<1>3. got' \in [Chunk -> [Part -> Texts]]
      /\ \A d \in Chunk, p \in Part :
           got'[d][p] = IF d = c /\ p = part[c] THEN text ELSE got[d][p]
  BY <1>1, <1>2
<1>4. part' \in [Chunk -> Part]
  BY <1>1, <1>2 DEF Part
<1>5. \A d \in Chunk : d # c => pc'[d] = pc[d] /\ part'[d] = part[d]
  BY <1>1, <1>2 DEF Goto
<1>6. part[c] = "body" /\ CaptionOf[c] # NoKey => part'[c] = "caption" /\ pc'[c] = "lookup"
  BY <1>1, <1>2 DEF Goto
<1>7. ~(part[c] = "body" /\ CaptionOf[c] # NoKey) => part'[c] = part[c] /\ pc'[c] = "write"
  BY <1>1, <1>2 DEF Goto
<1> QED BY <1>2, <1>3, <1>4, <1>5, <1>6, <1>7

(* What a lookup can answer with is a text.                                *)
LEMMA KnownTextsType ==
  ASSUME TypeOK, NEW k \in Keys
  PROVE  DbTexts(k) \subseteq Texts /\ KnownTexts(k) \subseteq Texts
<1>1. \A c \in Chunk : rows[c].body \in Texts
  BY DEF TypeOK, Row
<1>2. pendingCache[k] \in Texts /\ CopiedText(k) \in Texts
  BY TextKinds DEF TypeOK
<1> QED BY <1>1, <1>2 DEF DbTexts, KnownTexts

(* Counting an outcome keeps the counters natural numbers.                 *)
LEMMA CountType ==
  ASSUME TypeOK, NEW o \in Outcome, Count(o)
  PROVE  stats' \in [Outcome -> Nat] /\ stats' = [stats EXCEPT ![o] = stats[o] + 1]
BY DEF TypeOK, Count

(* A command that begins or ends leaves the memory of a run empty.         *)
LEMMA MemoryType ==
  ASSUME NEW place \in {"idle", "precheck"}, Memory(place)
  PROVE  /\ pc' \in [Chunk -> {"idle", "precheck", "passthrough", "lookup", "await", "slot",
                               "incall", "publish", "drop", "write", "writeFailed", "done"}]
         /\ part' \in [Chunk -> Part] /\ got' \in [Chunk -> [Part -> Texts]]
         /\ fresh' \in [Chunk -> BOOLEAN] /\ waitsOn' \in [Chunk -> Job \cup {NoJob}]
         /\ retries' \in [Chunk -> 0..MaxRetries] /\ rerolls' \in [Chunk -> 0..MathLossRetries]
         /\ future' \in [Job -> {"none", "pending", "ok", "failed"}]
         /\ pendingFutures' \in [Keys -> Job \cup {NoJob}]
         /\ pendingCache' \in [Keys -> Texts]
         /\ stats' \in [Outcome -> Nat]
<1>1. NoText \in Texts /\ MaxRetries \in Nat /\ MathLossRetries \in Nat
  BY TextKinds, ConstantsAssumption DEF ConstantsAssumption
<1> QED BY <1>1 DEF Memory, Part

(* TypeOK and the names, step by step.                                     *)
LEMMA TypeStep ==
  ASSUME TypeOK, WorkNamed, [Next]_vars
  PROVE  TypeOK'
<1> USE DEF TypeOK
<1>0. /\ MaxRuns \in Nat /\ MaxRepairs \in Nat /\ MaxRetries \in Nat /\ MathLossRetries \in Nat
      /\ Explicit \subseteq Chunk /\ Short \subseteq Chunk
      /\ BodyOf \in [Chunk -> Keys \cup {NoKey}]
  BY ConstantsAssumption DEF ConstantsAssumption
<1>1. ASSUME NEW rf \in BOOLEAN, StartRun(rf) PROVE TypeOK'
  BY <1>0, <1>1, MemoryType DEF StartRun, durable, repair
<1>2. CASE Finalize
  BY <1>2, MemoryType DEF Finalize, bounds, repair
<1>3. CASE StopRun
  BY <1>3, MemoryType DEF StopRun, durable, bounds, repair
<1>4. ASSUME NEW c \in Chunk, Skip(c) \/ TakeUp(c) PROVE TypeOK'
  <2>1. CASE Skip(c)
    <3>1. stats' \in [Outcome -> Nat]
      BY <2>1, CountType DEF Skip, Outcome
    <3> QED BY <2>1, <3>1 DEF Skip, Goto, durable, bounds, repair
  <2>2. CASE TakeUp(c)
    BY <2>2 DEF TakeUp, Goto, Part, durable, bounds, shared, repair
  <2> QED BY <1>4, <2>1, <2>2
<1>5. ASSUME NEW c \in Chunk, PassThrough(c) \/ Write(c) \/ WriteFailed(c) PROVE TypeOK'
  <2>1. PICK row \in Row, o \in Outcome : Upsert(c, row) /\ Count(o) /\ Goto(c, "done")
    <3>1. CASE PassThrough(c)
      <4>1. TranslatedRow(SourceText(c), NoText, NoKey) \in Row
        BY TextKinds, RowKinds
      <4> QED BY <3>1, <4>1 DEF PassThrough, Outcome
    <3>2. CASE Write(c)
      <4>1. TranslatedRow(got[c]["body"], got[c]["caption"], ContentKey(c)) \in Row
        BY RowKinds, ContentKeys DEF Part
      <4> QED BY <3>2, <4>1 DEF Write, Outcome
    <3>3. CASE WriteFailed(c)
      BY <3>3, RowKinds DEF WriteFailed, Outcome
    <3> QED BY <1>5, <3>1, <3>2, <3>3
  <2>2. stats' \in [Outcome -> Nat]
    BY <2>1, CountType
  <2>3. rows' \in [Chunk -> Row]
    BY <2>1 DEF Upsert
  <2>4. UNCHANGED <<docStatus, phase, bounds, retryFailed, part, got, fresh, waitsOn, retries,
                    rerolls, future, pendingFutures, pendingCache, repair>>
    BY <1>5 DEF PassThrough, Write, WriteFailed
  <2> QED BY <2>1, <2>2, <2>3, <2>4 DEF Goto, bounds, repair
<1>6. ASSUME NEW c \in Chunk, Lookup(c) PROVE TypeOK'
  <2>1. CASE LookupHit(c)
    <3>1. PICK text \in KnownTexts(Key(c)) :
            pendingCache' = [pendingCache EXCEPT ![Key(c)] = text] /\ Receive(c, text)
      BY <2>1 DEF LookupHit
    <3>2. Key(c) \in Keys
      BY <2>1 DEF LookupHit, At, WorkNamed
    <3>3. text \in Texts
      BY <3>1, <3>2, KnownTextsType
    <3>4. got' \in [Chunk -> [Part -> Texts]] /\ part' \in [Chunk -> Part]
          /\ \E label \in {"lookup", "write"} : Goto(c, label)
      BY <3>1, <3>3, ReceiveEffect
    <3> QED BY <2>1, <3>1, <3>2, <3>3, <3>4 DEF LookupHit, Goto, durable, bounds, repair
  <2>2. CASE LookupJoin(c)
    <3>1. Key(c) \in Keys
      BY <2>2 DEF LookupJoin, At, WorkNamed
    <3> QED BY <2>2, <3>1 DEF LookupJoin, Goto, durable, bounds, shared, repair
  <2>3. CASE LookupOwn(c)
    <3>1. Key(c) \in Keys /\ <<c, part[c]>> \in Job
      BY <2>3, JobKinds DEF LookupOwn, At, WorkNamed
    <3> QED BY <2>3, <3>1 DEF LookupOwn, Goto, durable, bounds, repair
  <2>4. CASE Wake(c)
    <3>1. waitsOn[c] \in Job /\ FreshText(waitsOn[c]) \in Texts
      BY <1>0, <2>4, TextKinds DEF Wake, At, WorkNamed
    <3>2. CASE Receive(c, FreshText(waitsOn[c]))
      <4>1. got' \in [Chunk -> [Part -> Texts]] /\ part' \in [Chunk -> Part]
            /\ \E label \in {"lookup", "write"} : Goto(c, label)
        BY <3>1, <3>2, ReceiveEffect
      <4> QED BY <2>4, <4>1 DEF Wake, Goto, durable, bounds, shared, repair
    <3>3. CASE Goto(c, "writeFailed") /\ UNCHANGED <<part, got>>
      BY <2>4, <3>3 DEF Wake, Goto, durable, bounds, shared, repair
    <3> QED BY <2>4, <3>2, <3>3 DEF Wake
  <2> QED BY <1>6, <2>1, <2>2, <2>3, <2>4 DEF Lookup
<1>7. ASSUME NEW c \in Chunk, Call(c) PROVE TypeOK'
  <2>1. CASE StartCall(c)
    BY <2>1 DEF StartCall, Goto, durable, bounds, shared, repair
  <2>2. CASE RetryTransient(c)
    BY <1>0, <2>2 DEF RetryTransient, Goto, durable, bounds, shared, repair
  <2>3. CASE RerollLostMath(c)
    BY <1>0, <2>3 DEF RerollLostMath, Goto, durable, bounds, shared, repair
  <2>4. CASE CallReturns(c) \/ CallFails(c)
    <3>1. PICK outcome \in {"ok", "failed"}, label \in {"publish", "drop"} :
            EndCall(c, outcome, label)
      BY <2>4 DEF CallReturns, CallFails
    <3>2. <<c, part[c]>> \in Job
      BY JobKinds
    <3> QED BY <1>0, <3>1, <3>2 DEF EndCall, Goto, durable, bounds, repair
  <2>5. CASE Publish(c)
    <3>1. Key(c) \in Keys /\ FreshText(<<c, part[c]>>) \in Texts
      BY <1>0, <2>5, TextKinds, JobKinds DEF Publish, At, WorkNamed, Owning
    <3>2. got' \in [Chunk -> [Part -> Texts]] /\ part' \in [Chunk -> Part]
          /\ \E label \in {"lookup", "write"} : Goto(c, label)
      BY <2>5, <3>1, ReceiveEffect DEF Publish
    <3> QED BY <2>5, <3>1, <3>2 DEF Publish, Goto, Unregister, durable, bounds, repair
  <2>6. CASE Drop(c)
    BY <2>6 DEF Drop, Goto, Unregister, durable, bounds, repair
  <2> QED BY <1>7, <2>1, <2>2, <2>3, <2>4, <2>5, <2>6 DEF Call
<1>8. ASSUME NEW targets \in SUBSET Chunk, StartRepair(targets) PROVE TypeOK'
  BY <1>0, <1>8 DEF StartRepair, durable, task, shared
<1>9. ASSUME NEW c \in Chunk, RepairStep(c) PROVE TypeOK'
  <2>1. staged' \in [Chunk -> Texts] /\ todo' \subseteq Chunk
    <3>1. ContextText(c) \in Texts
      BY TextKinds
    <3>2. \/ staged' = staged
          \/ staged' = [staged EXCEPT ![c] = ContextText(c)]
      BY <1>9 DEF RepairStep, RepairAnswered, RepairFailed
    <3>3. todo' = todo \ {c}
      BY <1>9 DEF RepairStep, RepairAnswered, RepairFailed
    <3>4. staged \in [Chunk -> Texts] /\ todo \subseteq Chunk
      OBVIOUS
    <3> QED BY <3>1, <3>2, <3>3, <3>4
  <2>2. UNCHANGED <<durable, phase, bounds, retryFailed, task, shared>>
    BY <1>9 DEF RepairStep, RepairAnswered, RepairFailed, Repairing
  <2> QED BY <2>1, <2>2 DEF durable, bounds, task, shared
<1>10. CASE CommitRepair \/ StopRepair
  <2>1. rows' \in [Chunk -> Row]
    BY <1>10, RepairedRow DEF CommitRepair, StopRepair, durable
  <2>2. staged' \in [Chunk -> Texts]
    BY <1>10, TextKinds DEF CommitRepair, StopRepair
  <2> QED BY <1>10, <2>1, <2>2 DEF CommitRepair, StopRepair, Repairing, durable, bounds, task,
                                   shared
<1>11. CASE UNCHANGED vars
  BY <1>11 DEF vars, durable, bounds, task, shared, repair
<1> QED
  BY <1>0, <1>1, <1>2, <1>3, <1>4, <1>5, <1>6, <1>7, <1>8, <1>9, <1>10, <1>11
     DEF Next, TaskStep, RepairShort, RepairExplicit

-------------------------------------------------------------------------------
(* What a step can touch.                                                  *)

(* A task's step leaves the other tasks alone, and what the run shares     *)
(* except under its own key.                                               *)
LEMMA TaskFrame ==
  ASSUME TypeOK, NEW c \in Chunk, TaskStep(c)
  PROVE  /\ phase = "running"
         /\ UNCHANGED <<phase, runs, retryFailed, docStatus, repair>>
         /\ \A d \in Chunk : d # c =>
              /\ pc'[d] = pc[d] /\ part'[d] = part[d] /\ got'[d] = got[d]
              /\ waitsOn'[d] = waitsOn[d] /\ rows'[d] = rows[d]
         /\ \A j \in Job : j # <<c, part[c]>> => future'[j] = future[j]
         /\ \A k \in Keys : k # Key(c) =>
              pendingFutures'[k] = pendingFutures[k] /\ pendingCache'[k] = pendingCache[k]
<1> USE DEF TypeOK
<1>1. CASE Skip(c) \/ TakeUp(c)
  BY <1>1 DEF Skip, TakeUp, At, Goto, durable, bounds, shared
<1>2. CASE PassThrough(c) \/ Write(c) \/ WriteFailed(c)
  BY <1>2 DEF PassThrough, Write, WriteFailed, At, Goto, Upsert, bounds
<1>3. CASE LookupHit(c)
  BY <1>3 DEF LookupHit, Receive, At, Goto, durable, bounds
<1>4. CASE LookupJoin(c) \/ LookupOwn(c)
  BY <1>4 DEF LookupJoin, LookupOwn, At, Goto, durable, bounds, shared
<1>5. CASE Wake(c)
  BY <1>5 DEF Wake, Receive, At, Goto, durable, bounds, shared
<1>6. CASE StartCall(c) \/ RetryTransient(c) \/ RerollLostMath(c)
  BY <1>6 DEF StartCall, RetryTransient, RerollLostMath, At, Goto, durable, bounds, shared
<1>7. CASE CallReturns(c) \/ CallFails(c)
  BY <1>7 DEF CallReturns, CallFails, EndCall, At, Goto, durable, bounds
<1>8. CASE Publish(c)
  BY <1>8 DEF Publish, Unregister, Receive, At, Goto, durable, bounds
<1>9. CASE Drop(c)
  BY <1>9 DEF Drop, Unregister, At, Goto, durable, bounds
<1> QED
  BY <1>1, <1>2, <1>3, <1>4, <1>5, <1>6, <1>7, <1>8, <1>9 DEF TaskStep, Lookup, Call

(* A step of no task begins or ends a run, with nothing in memory, or is a *)
(* repair's, which changes rows at most.                                   *)
Rebegins ==
  /\ \E place \in {"idle", "precheck"} : Memory(place)
  /\ UNCHANGED rows
  /\ phase' = "running" => runs' # 0

Repairs ==
  /\ UNCHANGED <<task, shared, runs>>
  /\ phase' = "running" => phase = "running" /\ UNCHANGED <<rows, retryFailed>>
  /\ \A c \in Chunk : \/ rows'[c] = rows[c]
                      \/ rows'[c] = Repaired(c) /\ staged[c] # NoText

(* Every step is a task's, begins or ends a run, or belongs to a repair.   *)
LEMMA StepKinds ==
  ASSUME TypeOK, [Next]_vars
  PROVE  (\E c \in Chunk : TaskStep(c)) \/ Rebegins \/ Repairs
<1>1. ASSUME NEW rf \in BOOLEAN, StartRun(rf) PROVE Rebegins
  BY <1>1 DEF StartRun, Rebegins, durable, TypeOK
<1>2. CASE Finalize \/ StopRun
  BY <1>2 DEF Finalize, StopRun, Rebegins, durable
<1>3. CASE RepairShort \/ RepairExplicit \/ StopRepair
  BY <1>3 DEF RepairShort, RepairExplicit, StartRepair, StopRepair, Repairing, Repairs,
              durable, bounds
<1>4. ASSUME NEW c \in Chunk, RepairStep(c) PROVE Repairs
  BY <1>4 DEF RepairStep, RepairAnswered, RepairFailed, Repairing, Repairs, durable, bounds
<1>5. CASE CommitRepair
  BY <1>5 DEF CommitRepair, Repairing, Repairs, bounds
<1>6. CASE UNCHANGED vars
  BY <1>6 DEF vars, Repairs, durable, bounds
<1> QED BY <1>1, <1>2, <1>3, <1>4, <1>5, <1>6 DEF Next

(* The work keeps its names.                                               *)
LEMMA NamedStep ==
  ASSUME TypeOK, WorkNamed, [Next]_vars
  PROVE  WorkNamed'
<1>1. CASE Rebegins
  BY <1>1 DEF Rebegins, Memory, WorkNamed, Owning
<1>2. CASE Repairs
  BY <1>2 DEF Repairs, WorkNamed, task, shared, Key
<1>3. ASSUME NEW c \in Chunk, TaskStep(c) PROVE WorkNamed'
  <2>1. /\ part[c] \in Part /\ pc = [d \in Chunk |-> pc[d]] /\ <<c, part[c]>> \in Job
        /\ part \in [Chunk -> Part] /\ pendingFutures \in [Keys -> Job \cup {NoJob}]
        /\ waitsOn \in [Chunk -> Job \cup {NoJob}]
    BY JobKinds DEF TypeOK
  <2>2. /\ phase' = phase /\ runs' = runs
        /\ \A d \in Chunk : d # c =>
             /\ pc'[d] = pc[d] /\ waitsOn'[d] = waitsOn[d] /\ part'[d] = part[d]
    BY <1>3, TaskFrame
  <2>3. /\ pc'[c] \in {"lookup", "await"} \cup Owning => KeyOf(<<c, part'[c]>>) \in Keys
        /\ pc'[c] = "await" => waitsOn'[c] \in Job /\ KeyOf(waitsOn'[c]) = KeyOf(<<c, part'[c]>>)
        /\ \A k \in Keys : pendingFutures'[k] # NoJob => KeyOf(pendingFutures'[k]) = k
    <3> DEFINE Good ==
          /\ pc'[c] \in {"lookup", "await"} \cup Owning => KeyOf(<<c, part'[c]>>) \in Keys
          /\ pc'[c] = "await" => waitsOn'[c] \in Job /\ KeyOf(waitsOn'[c]) = KeyOf(<<c, part'[c]>>)
          /\ \A k \in Keys : pendingFutures'[k] # NoJob => KeyOf(pendingFutures'[k]) = k
    <3> SUFFICES Good
      OBVIOUS
    <3>0. /\ \A k \in Keys : pendingFutures[k] # NoJob => KeyOf(pendingFutures[k]) = k
          /\ pc[c] \in {"lookup", "await"} \cup Owning => KeyOf(<<c, part[c]>>) \in Keys
      BY DEF WorkNamed, Key
    <3>1. CASE \E label \in {"done", "writeFailed"} :
                 Goto(c, label) /\ UNCHANGED pendingFutures
      BY <2>1, <3>0, <3>1 DEF Goto, Owning
    <3>2. CASE TakeUp(c)
      <4>1. KeyOf(<<c, part'[c]>>) = (IF BodyOf[c] = NoKey THEN CaptionOf[c] ELSE BodyOf[c])
        BY <2>1, <3>2, JobKinds DEF TakeUp
      <4>2. pc'[c] \in {"passthrough", "write"} \/ (pc'[c] = "lookup" /\ ~(BodyOf[c] = NoKey /\ CaptionOf[c] = NoKey))
        BY <2>1, <3>2 DEF TakeUp, Goto
      <4>3. BodyOf[c] \in Keys \cup {NoKey} /\ CaptionOf[c] \in Keys \cup {NoKey}
        BY ConstantsAssumption DEF ConstantsAssumption
      <4>4. UNCHANGED pendingFutures
        BY <3>2 DEF TakeUp, shared
      <4> QED BY <3>0, <4>1, <4>2, <4>3, <4>4 DEF Owning
    <3>3. ASSUME NEW text \in Texts, Receive(c, text),
                 \A k \in Keys : pendingFutures'[k] \in {NoJob, pendingFutures[k]}
          PROVE  Good
      <4>1. \/ pc'[c] = "write"
            \/ pc'[c] = "lookup" /\ part'[c] = "caption" /\ CaptionOf[c] # NoKey
        BY <3>3, ReceiveEffect
      <4>2. CaptionOf[c] \in Keys \cup {NoKey} /\ KeyOf(<<c, "caption">>) = CaptionOf[c]
        BY JobKinds, ConstantsAssumption DEF ConstantsAssumption
      <4>3. \A k \in Keys : pendingFutures'[k] # NoJob => KeyOf(pendingFutures'[k]) = k
        BY <3>0, <3>3
      <4> QED BY <4>1, <4>2, <4>3 DEF Owning
    <3>4. CASE LookupHit(c)
      <4>1. Key(c) \in Keys
        BY <3>4 DEF LookupHit, At, WorkNamed
      <4> QED BY <3>3, <3>4, <4>1, KnownTextsType DEF LookupHit
    <3>5. CASE LookupJoin(c)
      <4>1. /\ Key(c) \in Keys /\ pendingFutures[Key(c)] # NoJob
            /\ pc'[c] = "await" /\ waitsOn'[c] = pendingFutures[Key(c)]
            /\ UNCHANGED <<part, pendingFutures>>
        BY <2>1, <3>5 DEF LookupJoin, At, WorkNamed, Goto, shared
      <4>2. waitsOn'[c] \in Job /\ KeyOf(waitsOn'[c]) = Key(c)
        BY <2>1, <3>0, <4>1
      <4> QED BY <3>0, <4>1, <4>2 DEF Key
    <3>6. CASE LookupOwn(c)
      <4>1. /\ Key(c) \in Keys /\ UNCHANGED part /\ pc'[c] = "slot"
            /\ pendingFutures' = [pendingFutures EXCEPT ![Key(c)] = <<c, part[c]>>]
        BY <2>1, <3>6 DEF LookupOwn, At, WorkNamed, Goto
      <4> QED BY <2>1, <3>0, <4>1 DEF Key
    <3>7. CASE Wake(c) /\ \E text \in Texts : Receive(c, text)
      BY <3>3, <3>7 DEF Wake, shared
    <3>8. CASE /\ pc[c] \in {"slot", "incall"} /\ UNCHANGED <<part, pendingFutures>>
               /\ \E label \in Owning : Goto(c, label)
      BY <2>1, <3>0, <3>8 DEF Goto, Owning
    <3>9. CASE Publish(c)
      <4>1. FreshText(<<c, part[c]>>) \in Texts
        BY <2>1, <3>9, TextKinds, ConstantsAssumption
           DEF Publish, At, WorkNamed, TypeOK, ConstantsAssumption
      <4> QED BY <2>1, <3>3, <3>9, <4>1 DEF Publish, Unregister
    <3>10. CASE Drop(c)
      BY <2>1, <3>0, <3>10 DEF Drop, Unregister, Goto, Owning
    <3>11. CASE Wake(c)
      <4>1. waitsOn[c] \in Job /\ FreshText(waitsOn[c]) \in Texts
        BY <3>11, TextKinds, ConstantsAssumption
           DEF Wake, At, WorkNamed, TypeOK, ConstantsAssumption
      <4> QED BY <3>1, <3>7, <3>11, <4>1 DEF Wake, shared
    <3>12. CASE StartCall(c) \/ RetryTransient(c) \/ RerollLostMath(c) \/ CallReturns(c) \/ CallFails(c)
      BY <3>8, <3>12 DEF StartCall, RetryTransient, RerollLostMath, CallReturns, CallFails,
                         EndCall, At, Owning, shared
    <3>13. CASE Skip(c) \/ PassThrough(c) \/ Write(c) \/ WriteFailed(c)
      BY <3>1, <3>13 DEF Skip, PassThrough, Write, WriteFailed
    <3> HIDE DEF Good
    <3> QED
      BY <1>3, <3>2, <3>4, <3>5, <3>6, <3>9, <3>10, <3>11, <3>12, <3>13
         DEF TaskStep, Lookup, Call
  <2> QED BY <2>2, <2>3 DEF WorkNamed, Key
<1> QED BY <1>1, <1>2, <1>3, StepKinds

-------------------------------------------------------------------------------
(* Who calls, and what is known.                                           *)

(* The task that calls for a key is the one registered for it, until it    *)
(* has recorded the outcome of its call.                                   *)
Registered ==
  \A c \in Chunk :
    /\ pc[c] \in Owning => pendingFutures[Key(c)] = <<c, part[c]>>
    /\ pc[c] \in {"slot", "incall"} => future[<<c, part[c]>>] = "pending"
    /\ pc[c] = "publish" => future[<<c, part[c]>>] = "ok"

(* A call that succeeded is in the cache or about to be put there.         *)
Published ==
  \A j \in Job : future[j] = "ok" =>
    /\ KeyOf(j) \in Keys
    /\ \/ pendingCache[KeyOf(j)] # NoText
       \/ pc[j[1]] = "publish" /\ part[j[1]] = j[2]

(* A text a task has is one the cache or a call has given.                 *)
GotKnown ==
  \A j \in Job : got[j[1]][j[2]] # NoText =>
    /\ KeyOf(j) \in Keys
    /\ \/ pendingCache[KeyOf(j)] # NoText
       \/ \E i \in Job : KeyOf(i) = KeyOf(j) /\ future[i] = "ok"

(* A step touches the registration under its key only when nobody else     *)
(* owns that key.                                                          *)
LEMMA OthersRegistered ==
  ASSUME TypeOK, WorkNamed, Registered, NEW c \in Chunk, TaskStep(c),
         NEW d \in Chunk, d # c, pc[d] \in Owning
  PROVE  pendingFutures'[Key(d)] = pendingFutures[Key(d)]
<1>1. pendingFutures[Key(d)] = <<d, part[d]>> /\ <<d, part[d]>> # NoJob /\ Key(d) \in Keys
  <2>1. part[d] \in Part
    BY DEF TypeOK
  <2>2. <<d, part[d]>> \in Job
    BY <2>1, JobKinds
  <2>3. <<d, part[d]>> # NoJob
    BY <2>2, JobKinds
  <2>4. pendingFutures[Key(d)] = <<d, part[d]>> /\ Key(d) \in Keys
    BY DEF Registered, WorkNamed
  <2> QED BY <2>3, <2>4
<1>2. CASE Key(d) # Key(c)
  BY <1>1, <1>2, TaskFrame
<1>3. CASE Key(d) = Key(c) /\ LookupOwn(c)
  BY <1>1, <1>3 DEF LookupOwn
<1>4. CASE Key(d) = Key(c) /\ (Publish(c) \/ Drop(c))
  <2>1. pendingFutures[Key(c)] = <<c, part[c]>>
    BY <1>4 DEF Publish, Drop, At, Owning, Registered
  <2> QED BY <1>1, <1>4, <2>1
<1>5. CASE UNCHANGED pendingFutures
  BY <1>5
<1> QED
  BY <1>2, <1>3, <1>4, <1>5
     DEF TaskStep, Skip, TakeUp, PassThrough, Lookup, LookupHit, LookupJoin, Wake, Call,
         StartCall, RetryTransient, RerollLostMath, CallReturns, CallFails, EndCall, Write,
         WriteFailed, shared

(* A key stays registered for the task that calls for it until that task   *)
(* has published or dropped.                                               *)
LEMMA RegisteredStep ==
  ASSUME TypeOK, WorkNamed, Registered, [Next]_vars
  PROVE  Registered'
<1>1. CASE Rebegins
  BY <1>1 DEF Rebegins, Memory, Registered, Owning
<1>2. CASE Repairs
  BY <1>2 DEF Repairs, Registered, task, shared, Key
<1>3. ASSUME NEW c \in Chunk, TaskStep(c) PROVE Registered'
  <2>1. ASSUME NEW d \in Chunk, d # c
        PROVE  /\ pc'[d] \in Owning => pendingFutures'[KeyOf(<<d, part'[d]>>)] = <<d, part'[d]>>
               /\ pc'[d] \in {"slot", "incall"} => future'[<<d, part'[d]>>] = "pending"
               /\ pc'[d] = "publish" => future'[<<d, part'[d]>>] = "ok"
    <3>1. pc'[d] = pc[d] /\ part'[d] = part[d] /\ part[d] \in Part /\ part[c] \in Part
      BY <1>3, <2>1, TaskFrame DEF TypeOK
    <3>2. future'[<<d, part[d]>>] = future[<<d, part[d]>>]
      <4>1. <<d, part[d]>> \in Job /\ <<d, part[d]>> # <<c, part[c]>>
        BY <2>1, <3>1, JobKinds
      <4> QED BY <1>3, <4>1, TaskFrame
    <3>3. pc[d] \in Owning => pendingFutures'[Key(d)] = pendingFutures[Key(d)]
      BY <1>3, <2>1, OthersRegistered
    <3> QED BY <3>1, <3>2, <3>3 DEF Registered, Key
  <2>2. /\ pc'[c] \in Owning => pendingFutures'[KeyOf(<<c, part'[c]>>)] = <<c, part'[c]>>
        /\ pc'[c] \in {"slot", "incall"} => future'[<<c, part'[c]>>] = "pending"
        /\ pc'[c] = "publish" => future'[<<c, part'[c]>>] = "ok"
    <3>0. part[c] \in Part /\ <<c, part[c]>> \in Job /\ pc = [d \in Chunk |-> pc[d]]
          /\ pendingFutures \in [Keys -> Job \cup {NoJob}]
          /\ future \in [Job -> {"none", "pending", "ok", "failed"}]
      BY JobKinds DEF TypeOK
    <3>1. CASE \E label \in {"done", "writeFailed", "passthrough", "lookup", "write", "await"} :
                 Goto(c, label)
      BY <3>0, <3>1 DEF Goto, Owning
    <3>2. CASE LookupOwn(c)
      <4>1. Key(c) \in Keys
        BY <3>2 DEF LookupOwn, At, WorkNamed
      <4> QED BY <3>0, <3>2, <4>1 DEF LookupOwn, Goto, Key
    <3>3. CASE StartCall(c) \/ RetryTransient(c) \/ RerollLostMath(c)
      <4>1. /\ pc[c] \in {"slot", "incall"} /\ pc'[c] \in {"slot", "incall"}
            /\ UNCHANGED <<part, pendingFutures, future>>
        BY <3>0, <3>3 DEF StartCall, RetryTransient, RerollLostMath, At, Goto, shared
      <4> QED BY <4>1 DEF Registered, Owning, Key
    <3>4. CASE CallReturns(c) \/ CallFails(c)
      <4>1. /\ pc[c] = "incall" /\ UNCHANGED <<part, pendingFutures>>
            /\ \/ pc'[c] = "publish" /\ future' = [future EXCEPT ![<<c, part[c]>>] = "ok"]
               \/ pc'[c] = "drop"
        BY <3>0, <3>4 DEF CallReturns, CallFails, EndCall, At, Goto
      <4> QED BY <3>0, <4>1 DEF Registered, Owning, Key
    <3>5. CASE TakeUp(c) \/ Wake(c) \/ LookupHit(c) \/ Publish(c)
      BY <3>1, <3>5 DEF TakeUp, Wake, LookupHit, Publish, Receive
    <3> QED
      BY <1>3, <3>1, <3>2, <3>3, <3>4, <3>5
         DEF TaskStep, Skip, PassThrough, Lookup, LookupJoin, Call, Drop, Write, WriteFailed
  <2> QED BY <2>1, <2>2 DEF Registered, Key
<1> QED BY <1>1, <1>2, <1>3, StepKinds

(* What the run knows it does not forget.                                  *)
LEMMA CacheGrows ==
  ASSUME TypeOK, WorkNamed, NEW c \in Chunk, TaskStep(c), NEW k \in Keys, pendingCache[k] # NoText
  PROVE  pendingCache'[k] # NoText
<1>1. CASE k # Key(c)
  BY <1>1, TaskFrame
<1>2. CASE LookupHit(c) /\ k = Key(c)
  <2>1. KnownTexts(k) = {pendingCache[k]}
    BY DEF KnownTexts
  <2> QED BY <1>2, <2>1 DEF LookupHit, TypeOK
<1>3. CASE Publish(c) /\ k = Key(c)
  BY <1>3, TextKinds DEF Publish, TypeOK
<1>4. CASE UNCHANGED pendingCache
  BY <1>4
<1> QED
  BY <1>1, <1>2, <1>3, <1>4
     DEF TaskStep, Skip, TakeUp, PassThrough, Lookup, LookupOwn, LookupJoin, Wake, Call,
         StartCall, RetryTransient, RerollLostMath, CallReturns, CallFails, EndCall, Drop,
         Write, WriteFailed, shared

(* A call that succeeded is not repeated by the same task.                 *)
LEMMA SuccessStays ==
  ASSUME TypeOK, WorkNamed, Registered, Published, NEW c \in Chunk, TaskStep(c),
         NEW j \in Job, future[j] = "ok"
  PROVE  future'[j] = "ok"
<1>1. CASE j # <<c, part[c]>>
  BY <1>1, TaskFrame
<1>2. CASE LookupOwn(c) /\ j = <<c, part[c]>>
  <2>1. pc[c] = "lookup" /\ KnownTexts(KeyOf(j)) = {} /\ j[1] = c
    BY <1>2 DEF LookupOwn, At, Key
  <2>2. pendingCache[KeyOf(j)] = NoText
    BY <2>1 DEF KnownTexts
  <2> QED BY <2>1, <2>2 DEF Published
<1>3. CASE (CallReturns(c) \/ CallFails(c)) /\ j = <<c, part[c]>>
  BY <1>3 DEF CallReturns, CallFails, EndCall, At, Registered
<1>4. CASE UNCHANGED future
  BY <1>4
<1> QED
  BY <1>1, <1>2, <1>3, <1>4
     DEF TaskStep, Skip, TakeUp, PassThrough, Lookup, LookupHit, LookupJoin, Wake, Call,
         StartCall, RetryTransient, RerollLostMath, Publish, Drop, Write, WriteFailed, shared

(* The shared texts stay those of ended calls or of looked-up rows.        *)
LEMMA PublishedStep ==
  ASSUME TypeOK, WorkNamed, Registered, Published, [Next]_vars
  PROVE  Published'
<1>1. CASE Rebegins
  BY <1>1 DEF Rebegins, Memory, Published
<1>2. CASE Repairs
  BY <1>2 DEF Repairs, Published, task, shared
<1>3. ASSUME NEW c \in Chunk, TaskStep(c) PROVE Published'
  <2> SUFFICES ASSUME NEW j \in Job, future'[j] = "ok"
               PROVE  /\ KeyOf(j) \in Keys
                      /\ \/ pendingCache'[KeyOf(j)] # NoText
                         \/ pc'[j[1]] = "publish" /\ part'[j[1]] = j[2]
    BY DEF Published
  <2>0. j = <<j[1], j[2]>> /\ j[1] \in Chunk /\ j[2] \in Part
        /\ pc = [d \in Chunk |-> pc[d]] /\ future = [i \in Job |-> future[i]]
    BY JobKinds DEF TypeOK
  <2>1. CASE CallReturns(c) /\ j = <<c, part[c]>>
    <3>1. pc[c] = "incall" /\ pc'[c] = "publish" /\ UNCHANGED part
      BY <2>0, <2>1 DEF CallReturns, EndCall, At, Goto
    <3>2. Key(c) \in Keys
      BY <3>1 DEF WorkNamed, Owning
    <3> QED BY <2>1, <3>1, <3>2 DEF Key
  <2>2. CASE future[j] = "ok" /\ j[1] # c
    <3>1. pc'[j[1]] = pc[j[1]] /\ part'[j[1]] = part[j[1]]
      BY <1>3, <2>0, <2>2, TaskFrame
    <3> QED BY <1>3, <2>2, <3>1, CacheGrows DEF Published
  <2>3. CASE future[j] = "ok" /\ j[1] = c
    <3>1. CASE pendingCache[KeyOf(j)] # NoText
      BY <1>3, <2>3, <3>1, CacheGrows DEF Published
    <3>2. CASE pc[c] = "publish" /\ part[c] = j[2]
      <4>1. Publish(c)
        BY <1>3, <3>2 DEF TaskStep, Skip, TakeUp, PassThrough, Lookup, LookupHit, LookupOwn,
             LookupJoin, Wake, Call, StartCall, RetryTransient, RerollLostMath, CallReturns,
             CallFails, EndCall, Drop, Write, WriteFailed, At
      <4>2. Key(c) = KeyOf(j) /\ KeyOf(j) \in Keys
        BY <2>0, <2>3, <3>2 DEF Key, Published
      <4> QED BY <4>1, <4>2, TextKinds DEF Publish, TypeOK
    <3> QED BY <2>3, <3>1, <3>2 DEF Published
  <2>4. CASE future[j] # "ok" /\ ~(CallReturns(c) /\ j = <<c, part[c]>>)
    BY <1>3, <2>0, <2>4
       DEF TaskStep, Skip, TakeUp, PassThrough, Lookup, LookupHit, LookupOwn, LookupJoin, Wake,
           Call, StartCall, RetryTransient, RerollLostMath, CallReturns, CallFails, EndCall,
           Publish, Drop, Write, WriteFailed, shared
  <2> QED BY <2>1, <2>2, <2>3, <2>4
<1> QED BY <1>1, <1>2, <1>3, StepKinds

(* A text received comes from the cache or a call that succeeded.          *)
LEMMA GotKnownStep ==
  ASSUME TypeOK, WorkNamed, Registered, Published, GotKnown, [Next]_vars
  PROVE  GotKnown'
<1>1. CASE Rebegins
  BY <1>1, JobKinds DEF Rebegins, Memory, GotKnown
<1>2. CASE Repairs
  BY <1>2 DEF Repairs, GotKnown, task, shared
<1>3. ASSUME NEW c \in Chunk, TaskStep(c) PROVE GotKnown'
  <2> SUFFICES ASSUME NEW j \in Job, got'[j[1]][j[2]] # NoText
               PROVE  /\ KeyOf(j) \in Keys
                      /\ \/ pendingCache'[KeyOf(j)] # NoText
                         \/ \E i \in Job : KeyOf(i) = KeyOf(j) /\ future'[i] = "ok"
    BY DEF GotKnown
  <2>0. j = <<j[1], j[2]>> /\ j[1] \in Chunk /\ j[2] \in Part
        /\ part[c] \in Part /\ <<c, part[c]>> \in Job
    BY JobKinds DEF TypeOK
  <2>1. CASE got[j[1]][j[2]] # NoText
    <3>1. CASE pendingCache[KeyOf(j)] # NoText
      BY <1>3, <2>1, <3>1, CacheGrows DEF GotKnown
    <3>2. ASSUME NEW i \in Job, KeyOf(i) = KeyOf(j), future[i] = "ok" PROVE future'[i] = "ok"
      BY <1>3, <3>2, SuccessStays
    <3> QED BY <2>1, <3>1, <3>2 DEF GotKnown
  <2>2. ASSUME NEW text \in Texts, Receive(c, text), got[j[1]][j[2]] = NoText
        PROVE  j = <<c, part[c]>> /\ text # NoText /\ KeyOf(j) = Key(c)
    <3>1. got'[j[1]][j[2]] = IF j[1] = c /\ j[2] = part[c] THEN text ELSE got[j[1]][j[2]]
      BY <2>0, <2>2, ReceiveEffect
    <3> QED BY <2>0, <2>2, <3>1 DEF Key
  <2>3. CASE LookupHit(c) /\ got[j[1]][j[2]] = NoText
    <3>1. Key(c) \in Keys
      BY <2>3 DEF LookupHit, At, WorkNamed
    <3>2. PICK text \in KnownTexts(Key(c)) :
            pendingCache' = [pendingCache EXCEPT ![Key(c)] = text] /\ Receive(c, text)
      BY <2>3 DEF LookupHit
    <3>3. text \in Texts
      BY <3>1, <3>2, KnownTextsType
    <3>4. KeyOf(j) = Key(c) /\ text # NoText
      BY <2>2, <2>3, <3>2, <3>3
    <3> QED BY <3>1, <3>2, <3>4 DEF TypeOK
  <2>4. CASE Wake(c) /\ got[j[1]][j[2]] = NoText
    <3>1. waitsOn[c] \in Job /\ KeyOf(waitsOn[c]) = Key(c) /\ Key(c) \in Keys
      BY <2>4 DEF Wake, At, WorkNamed
    <3>2. FreshText(waitsOn[c]) \in Texts
      BY <2>4, <3>1, TextKinds, ConstantsAssumption
         DEF Wake, At, WorkNamed, TypeOK, ConstantsAssumption
    <3>3. future[waitsOn[c]] = "ok" /\ Receive(c, FreshText(waitsOn[c])) /\ UNCHANGED future
      BY <2>4 DEF Wake, shared
    <3>4. KeyOf(j) = Key(c)
      BY <2>2, <2>4, <3>2, <3>3
    <3> QED BY <3>1, <3>3, <3>4
  <2>5. CASE Publish(c) /\ got[j[1]][j[2]] = NoText
    <3>1. Key(c) \in Keys /\ FreshText(<<c, part[c]>>) \in Texts
      BY <2>0, <2>5, TextKinds, ConstantsAssumption
         DEF Publish, At, WorkNamed, Owning, TypeOK, ConstantsAssumption
    <3>2. KeyOf(j) = Key(c) /\ pendingCache'[Key(c)] = FreshText(<<c, part[c]>>)
      BY <2>2, <2>5, <3>1 DEF Publish, TypeOK
    <3> QED BY <3>1, <3>2, TextKinds
  <2>6. CASE UNCHANGED got /\ got[j[1]][j[2]] = NoText
    BY <2>6
  <2> QED
    BY <1>3, <2>1, <2>3, <2>4, <2>5, <2>6
       DEF TaskStep, Skip, TakeUp, PassThrough, Lookup, LookupOwn, LookupJoin, Call, StartCall,
           RetryTransient, RerollLostMath, CallReturns, CallFails, EndCall, Drop, Write,
           WriteFailed
<1> QED BY <1>1, <1>2, <1>3, StepKinds

-------------------------------------------------------------------------------
(* What a task has when it writes its row.                                 *)

(* A task has the texts of the parts it is through with, and no others.    *)
Staged ==
  \A c \in Chunk :
    /\ pc[c] \in {"idle", "precheck"} =>
         got[c]["body"] = NoText /\ got[c]["caption"] = NoText
    /\ pc[c] \in {"lookup", "await"} \cup Owning =>
         /\ got[c]["caption"] = NoText
         /\ part[c] = "body" => got[c]["body"] = NoText
         /\ part[c] = "caption" => (got[c]["body"] = NoText <=> BodyOf[c] = NoKey)
    /\ pc[c] = "write" =>
         /\ got[c]["body"] = NoText <=> BodyOf[c] = NoKey
         /\ got[c]["caption"] = NoText <=> CaptionOf[c] = NoKey

(* What a lookup finds is no blank.                                        *)
LEMMA KnownIsText ==
  ASSUME KeyedRows, NEW k \in Keys
  PROVE  NoText \notin KnownTexts(k)
<1>1. k # NoKey /\ k # BlankKey
  BY ConstantsAssumption DEF ConstantsAssumption
<1> QED BY <1>1, TextKinds DEF KnownTexts, DbTexts, KeyedRows

(* A task keeps the texts it has until its row is written.                 *)
LEMMA StagedStep ==
  ASSUME TypeOK, WorkNamed, KeyedRows, Staged, [Next]_vars
  PROVE  Staged'
<1>1. CASE Rebegins
  BY <1>1 DEF Rebegins, Memory, Staged, Owning, Part
<1>2. CASE Repairs
  BY <1>2 DEF Repairs, Staged, task
<1>3. ASSUME NEW c \in Chunk, TaskStep(c) PROVE Staged'
  <2> DEFINE Good ==
        /\ pc'[c] \in {"idle", "precheck"} =>
             got'[c]["body"] = NoText /\ got'[c]["caption"] = NoText
        /\ pc'[c] \in {"lookup", "await"} \cup Owning =>
             /\ got'[c]["caption"] = NoText
             /\ part'[c] = "body" => got'[c]["body"] = NoText
             /\ part'[c] = "caption" => (got'[c]["body"] = NoText <=> BodyOf[c] = NoKey)
        /\ pc'[c] = "write" =>
             /\ got'[c]["body"] = NoText <=> BodyOf[c] = NoKey
             /\ got'[c]["caption"] = NoText <=> CaptionOf[c] = NoKey
  <2> SUFFICES Good
    <3>1. \A d \in Chunk : d # c => pc'[d] = pc[d] /\ part'[d] = part[d] /\ got'[d] = got[d]
      BY <1>3, TaskFrame
    <3> QED BY <3>1 DEF Staged
  <2>0. part[c] \in {"body", "caption"} /\ pc = [d \in Chunk |-> pc[d]]
        /\ part = [d \in Chunk |-> part[d]]
    BY DEF TypeOK, Part
  <2>1. ASSUME NEW text \in Texts, text # NoText, Receive(c, text), Key(c) \in Keys,
               pc[c] \in {"lookup", "await"} \cup Owning
        PROVE  Good
    <3>1. \A p \in Part : got'[c][p] = IF p = part[c] THEN text ELSE got[c][p]
      BY <2>1, ReceiveEffect
    <3>2. got'[c]["body"] = (IF part[c] = "body" THEN text ELSE got[c]["body"])
          /\ got'[c]["caption"] = (IF part[c] = "caption" THEN text ELSE got[c]["caption"])
      BY <3>1 DEF Part
    <3>3. /\ part[c] = "body" => BodyOf[c] # NoKey
          /\ part[c] = "caption" => CaptionOf[c] # NoKey
      BY <2>1, JobKinds, ConstantsAssumption DEF Key, ConstantsAssumption
    <3>4. \/ part[c] = "body" /\ CaptionOf[c] # NoKey /\ part'[c] = "caption" /\ pc'[c] = "lookup"
          \/ ~(part[c] = "body" /\ CaptionOf[c] # NoKey) /\ pc'[c] = "write"
      BY <2>1, ReceiveEffect
    <3>5. /\ got[c]["caption"] = NoText
          /\ part[c] = "caption" => (got[c]["body"] = NoText <=> BodyOf[c] = NoKey)
      BY <2>1 DEF Staged
    <3> QED BY <2>0, <2>1, <3>2, <3>3, <3>4, <3>5 DEF Owning
  <2>2. CASE LookupHit(c)
    <3>1. Key(c) \in Keys /\ pc[c] = "lookup"
      BY <2>2 DEF LookupHit, At, WorkNamed
    <3>2. PICK text \in KnownTexts(Key(c)) : Receive(c, text)
      BY <2>2 DEF LookupHit
    <3>3. text \in Texts /\ text # NoText
      BY <3>1, <3>2, KnownTextsType, KnownIsText
    <3> QED BY <2>1, <3>1, <3>2, <3>3
  <2>3. CASE Wake(c)
    <3>1. waitsOn[c] \in Job /\ Key(c) \in Keys /\ pc[c] = "await"
      BY <2>3 DEF Wake, At, WorkNamed
    <3>2. FreshText(waitsOn[c]) \in Texts /\ FreshText(waitsOn[c]) # NoText
      BY <2>3, <3>1, TextKinds, ConstantsAssumption
         DEF Wake, At, WorkNamed, TypeOK, ConstantsAssumption
    <3>3. CASE Receive(c, FreshText(waitsOn[c]))
      BY <2>1, <3>1, <3>2, <3>3
    <3>4. CASE Goto(c, "writeFailed")
      BY <2>0, <3>4 DEF Goto, Owning
    <3> QED BY <2>3, <3>3, <3>4 DEF Wake
  <2>4. CASE Publish(c)
    <3>1. Key(c) \in Keys /\ pc[c] = "publish" /\ <<c, part[c]>> \in Job
      BY <2>0, <2>4, JobKinds DEF Publish, At, WorkNamed, Owning, Part
    <3>2. FreshText(<<c, part[c]>>) \in Texts /\ FreshText(<<c, part[c]>>) # NoText
      BY <2>4, <3>1, TextKinds, ConstantsAssumption
         DEF Publish, At, WorkNamed, TypeOK, ConstantsAssumption
    <3> QED BY <2>1, <2>4, <3>1, <3>2 DEF Publish, Owning
  <2>5. CASE TakeUp(c)
    <3>1. /\ pc[c] = "precheck" /\ UNCHANGED got
          /\ part'[c] = IF BodyOf[c] = NoKey THEN "caption" ELSE "body"
          /\ \/ pc'[c] \in {"passthrough", "lookup"}
             \/ pc'[c] = "write" /\ BodyOf[c] = NoKey /\ CaptionOf[c] = NoKey
      BY <2>0, <2>5 DEF TakeUp, At, Goto
    <3>2. got'[c] = got[c] /\ got[c]["body"] = NoText /\ got[c]["caption"] = NoText
      BY <3>1 DEF Staged
    <3>3. CASE pc'[c] \in {"passthrough", "lookup"}
      BY <3>1, <3>2, <3>3 DEF Owning
    <3>4. CASE pc'[c] = "write" /\ BodyOf[c] = NoKey /\ CaptionOf[c] = NoKey
      BY <3>2, <3>4 DEF Owning
    <3> QED BY <3>1, <3>3, <3>4
  <2>6. CASE /\ pc[c] \in {"lookup", "await"} \cup Owning /\ UNCHANGED <<part, got>>
             /\ \E label \in {"await", "slot", "incall", "publish", "drop", "writeFailed"} :
                  Goto(c, label)
    BY <2>0, <2>6 DEF Staged, Goto, Owning
  <2>7. CASE Goto(c, "done")
    BY <2>0, <2>7 DEF Goto, Owning
  <2> HIDE DEF Good
  <2> QED
    BY <1>3, <2>2, <2>3, <2>4, <2>5, <2>6, <2>7
       DEF TaskStep, Skip, PassThrough, Lookup, LookupOwn, LookupJoin, Call, StartCall,
           RetryTransient, RerollLostMath, CallReturns, CallFails, EndCall, Drop, Write,
           WriteFailed, At, Owning
<1> QED BY <1>1, <1>2, <1>3, StepKinds

(* A row under a key is a translation of its chunk's body.                 *)
LEMMA KeyedRowsStep ==
  ASSUME TypeOK, Staged, KeyedRows, [Next]_vars
  PROVE  KeyedRows'
<1>1. CASE Rebegins
  BY <1>1 DEF Rebegins, KeyedRows
<1>2. CASE Repairs
  BY <1>2, RepairedRow DEF Repairs, KeyedRows
<1>3. ASSUME NEW c \in Chunk, TaskStep(c) PROVE KeyedRows'
  <2>1. CASE UNCHANGED rows
    BY <2>1 DEF KeyedRows
  <2>2. CASE Write(c)
    <3>1. LET row == TranslatedRow(got[c]["body"], got[c]["caption"], ContentKey(c))
          IN  row.status = "translated" /\ row.body = got[c]["body"] /\ row.key = ContentKey(c)
      BY DEF TranslatedRow
    <3>2. got[c]["body"] = NoText <=> BodyOf[c] = NoKey
      BY <2>2 DEF Write, At, Staged
    <3>3. rows' = [rows EXCEPT ![c] = TranslatedRow(got[c]["body"], got[c]["caption"], ContentKey(c))]
      BY <2>2 DEF Write, Upsert
    <3>4. rows' \in [Chunk -> Row] \/ rows \in [Chunk -> Row]
      BY DEF TypeOK
    <3>5. ContentKey(c) = BlankKey <=> BodyOf[c] = NoKey
      BY ContentKeys
    <3>6. \A d \in Chunk : d # c => rows'[d] = rows[d]
      BY <3>3, <3>4
    <3>7. /\ rows'[c].status = "translated" /\ rows'[c].body = got[c]["body"]
          /\ rows'[c].key = ContentKey(c)
      BY <3>1, <3>3 DEF TypeOK
    <3> QED BY <3>2, <3>5, <3>6, <3>7 DEF KeyedRows
  <2>3. CASE PassThrough(c) \/ WriteFailed(c)
    <3>1. TranslatedRow(SourceText(c), NoText, NoKey).key = NoKey /\ FailedRow.key = NoKey
      BY RowKinds DEF TranslatedRow
    <3> QED BY <2>3, <3>1 DEF PassThrough, WriteFailed, Upsert, KeyedRows, TypeOK
  <2> QED
    BY <1>3, <2>1, <2>2, <2>3
       DEF TaskStep, Skip, TakeUp, Lookup, LookupHit, LookupOwn, LookupJoin, Wake, Call,
           StartCall, RetryTransient, RerollLostMath, CallReturns, CallFails, EndCall, Publish,
           Drop, durable
<1> QED BY <1>1, <1>2, <1>3, StepKinds

-------------------------------------------------------------------------------
(* What there is under a key: the texts a lookup finds, the tasks have and *)
(* the calls have given.                                                   *)
Evidence(k) ==
  {x \in Texts \ {NoText} :
     \/ x = pendingCache[k]
     \/ x \in DbTexts(k)
     \/ \E j \in Job : KeyOf(j) = k /\ x = got[j[1]][j[2]]
     \/ \E j \in Job : KeyOf(j) = k /\ future[j] = "ok" /\ x = FreshText(j)}

(* All of it is one text, and there is none while a call is open.          *)
Agreed == \A k \in Keys : \A x, y \in Evidence(k) : x = y
Unknown ==
  \A k \in Keys, c \in Chunk : pc[c] \in {"slot", "incall"} /\ Key(c) = k => Evidence(k) = {}

(* A lookup finds evidence, and so does who wakes.                         *)
LEMMA FoundIsEvidence ==
  ASSUME TypeOK, KeyedRows, NEW k \in Keys
  PROVE  KnownTexts(k) \subseteq Evidence(k)
<1>1. NoText \notin KnownTexts(k) /\ KnownTexts(k) \subseteq Texts
  BY KnownIsText, KnownTextsType
<1>2. \A x \in KnownTexts(k) : x = pendingCache[k] \/ x \in DbTexts(k)
  BY DEF KnownTexts
<1> QED BY <1>1, <1>2 DEF Evidence

(* The text of a call that succeeded is evidence for its key.              *)
LEMMA CalledIsEvidence ==
  ASSUME TypeOK, runs # 0, NEW j \in Job, future[j] = "ok"
  PROVE  FreshText(j) \in Evidence(KeyOf(j))
<1>1. FreshText(j) \in Texts /\ FreshText(j) # NoText
  BY TextKinds, ConstantsAssumption DEF TypeOK, ConstantsAssumption
<1> QED BY <1>1 DEF Evidence

(* Only a call that succeeds adds to the evidence.                         *)
LEMMA EvidenceStep ==
  ASSUME TypeOK, WorkNamed, Registered, KeyedRows, NEW c \in Chunk, TaskStep(c),
         NEW k \in Keys, NEW x \in Evidence(k)'
  PROVE  \/ x \in Evidence(k)
         \/ CallReturns(c) /\ k = Key(c) /\ x = FreshText(<<c, part[c]>>)
<1>1. runs' = runs /\ runs # 0 /\ (\A j : FreshText(j)' = FreshText(j))
      /\ \A kk : CopiedText(kk)' = CopiedText(kk)
  BY TaskFrame DEF WorkNamed, FreshText, CopiedText
<1>2. part[c] \in Part /\ <<c, part[c]>> \in Job /\ x \in Texts \ {NoText} /\ k # NoKey
  BY JobKinds, ConstantsAssumption DEF TypeOK, Evidence, ConstantsAssumption
<1>3. ASSUME LookupHit(c)
      PROVE  \E text \in KnownTexts(Key(c)) :
               /\ Receive(c, text) /\ text \in Texts /\ text \in Evidence(Key(c))
               /\ pendingCache' = [pendingCache EXCEPT ![Key(c)] = text]
               /\ Key(c) \in Keys
  <2>1. Key(c) \in Keys
    BY <1>3 DEF LookupHit, At, WorkNamed
  <2> QED BY <1>3, <2>1, KnownTextsType, FoundIsEvidence DEF LookupHit
<1>4. ASSUME Publish(c)
      PROVE  /\ Key(c) \in Keys /\ FreshText(<<c, part[c]>>) \in Evidence(Key(c))
             /\ Receive(c, FreshText(<<c, part[c]>>))
             /\ pendingCache' = [pendingCache EXCEPT ![Key(c)] = FreshText(<<c, part[c]>>)]
  <2>1. Key(c) \in Keys /\ future[<<c, part[c]>>] = "ok"
    BY <1>4 DEF Publish, At, WorkNamed, Owning, Registered
  <2>2. FreshText(<<c, part[c]>>) \in Evidence(KeyOf(<<c, part[c]>>))
    BY <1>1, <1>2, <2>1, CalledIsEvidence
  <2> QED BY <1>4, <2>1, <2>2 DEF Publish, Key
<1>5. CASE x = pendingCache'[k]
  <2>1. CASE pendingCache'[k] = pendingCache[k]
    BY <1>2, <1>5, <2>1 DEF Evidence
  <2>2. CASE pendingCache'[k] # pendingCache[k]
    <3>1. k = Key(c)
      BY <2>2, TaskFrame
    <3>2. LookupHit(c) \/ Publish(c)
      BY <2>2 DEF TaskStep, Skip, TakeUp, PassThrough, Lookup, LookupOwn, LookupJoin, Wake,
           Call, StartCall, RetryTransient, RerollLostMath, CallReturns, CallFails, EndCall,
           Drop, Write, WriteFailed, shared
    <3> QED BY <1>3, <1>4, <1>5, <3>1, <3>2 DEF TypeOK
  <2> QED BY <2>1, <2>2
<1>6. CASE x \in DbTexts(k)'
  <2>1. CASE k \in Elsewhere /\ x = CopiedText(k)
    BY <1>2, <2>1 DEF Evidence, DbTexts
  <2>2. CASE \E d \in Chunk : rows'[d].status = "translated" /\ rows'[d].key = k /\ x = rows'[d].body
    <3>1. PICK d \in Chunk : rows'[d].status = "translated" /\ rows'[d].key = k /\ x = rows'[d].body
      BY <2>2
    <3>2. CASE rows'[d] = rows[d]
      BY <1>2, <3>1, <3>2 DEF Evidence, DbTexts
    <3>3. CASE rows'[d] # rows[d]
      <4>1. d = c
        BY <3>3, TaskFrame
      <4>2. PassThrough(c) \/ Write(c) \/ WriteFailed(c)
        BY <3>3 DEF TaskStep, Skip, TakeUp, Lookup, LookupHit, LookupOwn, LookupJoin, Wake,
             Call, StartCall, RetryTransient, RerollLostMath, CallReturns, CallFails, EndCall,
             Publish, Drop, durable
      <4>3. CASE Write(c)
        <5>1. rows'[c] = TranslatedRow(got[c]["body"], got[c]["caption"], ContentKey(c))
          BY <4>3 DEF Write, Upsert, TypeOK
        <5>2. x = got[c]["body"] /\ BodyOf[c] = k
          BY <3>1, <4>1, <5>1, ContentKeys DEF TranslatedRow
        <5>3. <<c, "body">> \in Job /\ KeyOf(<<c, "body">>) = k
          BY <5>2, JobKinds DEF Part
        <5> QED BY <1>2, <5>2, <5>3 DEF Evidence
      <4>4. CASE PassThrough(c) \/ WriteFailed(c)
        <5>1. rows'[c] \in {TranslatedRow(SourceText(c), NoText, NoKey), FailedRow}
          BY <4>4 DEF PassThrough, WriteFailed, Upsert, TypeOK
        <5> QED BY <1>2, <3>1, <4>1, <5>1, RowKinds DEF TranslatedRow
      <4> QED BY <4>2, <4>3, <4>4
    <3> QED BY <3>2, <3>3
  <2> QED BY <1>1, <1>6, <2>1, <2>2 DEF DbTexts
<1>7. CASE \E j \in Job : KeyOf(j) = k /\ x = got'[j[1]][j[2]]
  <2>1. PICK j \in Job : KeyOf(j) = k /\ x = got'[j[1]][j[2]]
    BY <1>7
  <2>2. j = <<j[1], j[2]>> /\ j[1] \in Chunk /\ j[2] \in Part
    BY JobKinds
  <2>3. CASE got'[j[1]][j[2]] = got[j[1]][j[2]]
    BY <1>2, <2>1, <2>3 DEF Evidence
  <2>4. CASE got'[j[1]][j[2]] # got[j[1]][j[2]]
    <3>1. ASSUME NEW text \in Texts, Receive(c, text), text \in Evidence(Key(c))
          PROVE  x \in Evidence(k)
      <4>1. got'[j[1]][j[2]] = IF j[1] = c /\ j[2] = part[c] THEN text ELSE got[j[1]][j[2]]
        BY <2>2, <3>1, ReceiveEffect
      <4>2. j = <<c, part[c]>> /\ x = text
        BY <2>1, <2>2, <2>4, <4>1
      <4> QED BY <2>1, <3>1, <4>2 DEF Key
    <3>2. CASE LookupHit(c)
      BY <1>3, <3>1, <3>2
    <3>3. CASE Publish(c)
      BY <1>4, <3>1, <3>3 DEF Evidence
    <3>4. CASE Wake(c)
      <4>1. waitsOn[c] \in Job /\ KeyOf(waitsOn[c]) = Key(c)
        BY <3>4 DEF Wake, At, WorkNamed
      <4>2. future[waitsOn[c]] = "ok" /\ Receive(c, FreshText(waitsOn[c]))
        BY <2>4, <3>4 DEF Wake
      <4>3. FreshText(waitsOn[c]) \in Evidence(Key(c))
        BY <1>1, <4>1, <4>2, CalledIsEvidence
      <4> QED BY <3>1, <4>2, <4>3 DEF Evidence
    <3> QED
      BY <2>4, <3>2, <3>3, <3>4
         DEF TaskStep, Skip, TakeUp, PassThrough, Lookup, LookupOwn, LookupJoin, Call,
             StartCall, RetryTransient, RerollLostMath, CallReturns, CallFails, EndCall, Drop,
             Write, WriteFailed
  <2> QED BY <2>3, <2>4
<1>8. CASE \E j \in Job : KeyOf(j) = k /\ future'[j] = "ok" /\ x = FreshText(j)
  <2>1. PICK j \in Job : KeyOf(j) = k /\ future'[j] = "ok" /\ x = FreshText(j)
    BY <1>8
  <2>2. CASE future[j] = "ok"
    BY <1>2, <2>1, <2>2 DEF Evidence
  <2>3. CASE future[j] # "ok"
    <3>1. j = <<c, part[c]>>
      BY <2>1, <2>3, TaskFrame
    <3>2. CallReturns(c)
      <4>1. future = [i \in Job |-> future[i]]
        BY DEF TypeOK
      <4> QED
        BY <1>2, <2>1, <2>3, <3>1, <4>1
           DEF TaskStep, Skip, TakeUp, PassThrough, Lookup, LookupHit, LookupOwn, LookupJoin,
               Wake, Call, StartCall, RetryTransient, RerollLostMath, CallReturns, CallFails,
               EndCall, Publish, Drop, Write, WriteFailed, shared
    <3> QED BY <2>1, <3>1, <3>2 DEF Key
  <2> QED BY <2>2, <2>3
<1> QED BY <1>1, <1>5, <1>6, <1>7, <1>8 DEF Evidence

(* Beginnings, ends and repairs add no evidence.                           *)
LEMMA EvidenceFades ==
  ASSUME TypeOK, Rebegins \/ Repairs, NEW k \in Keys, NEW x \in Evidence(k)'
  PROVE  x \in Evidence(k)
<1>1. x \in Texts \ {NoText} /\ k # NoKey /\ \A kk : CopiedText(kk)' = CopiedText(kk)
  BY ConstantsAssumption DEF Evidence, CopiedText, ConstantsAssumption
<1>2. ASSUME NEW d \in Chunk, rows'[d].key = k PROVE rows'[d] = rows[d]
  BY <1>1, <1>2, RepairedRow DEF Rebegins, Repairs
<1>3. x \in DbTexts(k)' => x \in DbTexts(k)
  BY <1>1, <1>2 DEF DbTexts
<1>4. CASE Rebegins
  BY <1>1, <1>3, <1>4, JobKinds DEF Rebegins, Memory, Evidence
<1>5. CASE Repairs
  BY <1>1, <1>3, <1>5 DEF Repairs, Evidence, FreshText, task, shared
<1> QED BY <1>4, <1>5

(* A task that finds nothing under its key, neither a text nor a caller,   *)
(* begins a call where there is no evidence.                               *)
LEMMA CallsWhereNothing ==
  ASSUME TypeOK, WorkNamed, Registered, Published, GotKnown, NEW c \in Chunk, LookupOwn(c)
  PROVE  Evidence(Key(c)) = {}
<1>1. Key(c) \in Keys /\ pendingFutures[Key(c)] = NoJob /\ KnownTexts(Key(c)) = {}
  BY DEF LookupOwn, At, WorkNamed
<1>2. pendingCache[Key(c)] = NoText /\ DbTexts(Key(c)) = {}
  BY <1>1 DEF KnownTexts
<1>3. ASSUME NEW j \in Job, KeyOf(j) = Key(c), future[j] = "ok" PROVE FALSE
  <2>1. pc[j[1]] = "publish" /\ part[j[1]] = j[2]
    BY <1>2, <1>3 DEF Published
  <2>2. j = <<j[1], part[j[1]]>> /\ j[1] \in Chunk /\ j # NoJob
    BY <2>1, JobKinds
  <2>3. Key(j[1]) = Key(c)
    BY <1>3, <2>2 DEF Key
  <2> QED BY <1>1, <2>1, <2>2, <2>3 DEF Registered, Owning
<1>4. \A j \in Job : KeyOf(j) = Key(c) => got[j[1]][j[2]] = NoText
  BY <1>2, <1>3 DEF GotKnown
<1> QED BY <1>2, <1>3, <1>4 DEF Evidence

(* Nothing is known for a key while a task calls for it.                   *)
LEMMA UnknownStep ==
  ASSUME TypeOK, WorkNamed, Registered, Published, GotKnown, KeyedRows, Unknown, [Next]_vars
  PROVE  Unknown'
<1>1. CASE Rebegins
  BY <1>1 DEF Rebegins, Memory, Unknown
<1>2. CASE Repairs
  <2>1. \A c \in Chunk : pc'[c] = pc[c] /\ Key(c)' = Key(c)
    BY <1>2 DEF Repairs, task, Key
  <2>2. \A k \in Keys : \A x \in Evidence(k)' : x \in Evidence(k)
    BY <1>2, EvidenceFades
  <2> QED BY <2>1, <2>2 DEF Unknown
<1>3. ASSUME NEW c \in Chunk, TaskStep(c) PROVE Unknown'
  <2> SUFFICES ASSUME NEW k \in Keys, NEW d \in Chunk, pc'[d] \in {"slot", "incall"},
                      Key(d)' = k, NEW x \in Evidence(k)'
               PROVE  FALSE
    BY DEF Unknown
  <2>0. pc = [e \in Chunk |-> pc[e]] /\ part = [e \in Chunk |-> part[e]]
    BY DEF TypeOK
  <2>1. CASE d # c
    <3>1. /\ pc[d] = pc'[d] /\ Key(d) = k
          /\ pendingFutures[k] = <<d, part[d]>>
      BY <1>3, <2>1, TaskFrame DEF Key, Owning, Registered
    <3>2. Evidence(k) = {}
      BY <3>1 DEF Unknown
    <3>3. CallReturns(c) /\ k = Key(c)
      BY <1>3, <3>2, EvidenceStep
    <3>4. pendingFutures[Key(c)] = <<c, part[c]>>
      BY <3>3 DEF CallReturns, EndCall, At, Registered, Owning
    <3> QED BY <2>1, <3>1, <3>3, <3>4
  <2>2. CASE d = c
    <3>1. \/ LookupOwn(c)
          \/ StartCall(c) \/ RetryTransient(c) \/ RerollLostMath(c)
      BY <1>3, <2>0, <2>2
         DEF TaskStep, Skip, TakeUp, PassThrough, Lookup, LookupHit, LookupJoin, Wake, Receive,
             Call, CallReturns, CallFails, EndCall, Publish, Drop, Write, WriteFailed, Goto
    <3>2. Key(c) = k /\ ~CallReturns(c)
      BY <2>0, <2>2, <3>1 DEF LookupOwn, StartCall, RetryTransient, RerollLostMath, CallReturns,
                              EndCall, At, Goto, Key
    <3>3. Evidence(k) = {}
      <4>1. CASE LookupOwn(c)
        BY <3>2, <4>1, CallsWhereNothing
      <4>2. CASE StartCall(c) \/ RetryTransient(c) \/ RerollLostMath(c)
        BY <3>2, <4>2 DEF StartCall, RetryTransient, RerollLostMath, At, Unknown
      <4> QED BY <3>1, <4>1, <4>2
    <3> QED BY <1>3, <3>2, <3>3, EvidenceStep
  <2> QED BY <2>1, <2>2
<1> QED BY <1>1, <1>2, <1>3, StepKinds

(* All evidence for a key goes on agreeing: new evidence comes from a      *)
(* call, and a call is made only without evidence.                         *)
LEMMA AgreedStep ==
  ASSUME TypeOK, WorkNamed, Registered, KeyedRows, Unknown, Agreed, [Next]_vars
  PROVE  Agreed'
<1> SUFFICES ASSUME NEW k \in Keys, NEW x \in Evidence(k)', NEW y \in Evidence(k)' PROVE x = y
  BY DEF Agreed
<1>1. CASE Rebegins \/ Repairs
  BY <1>1, EvidenceFades DEF Agreed
<1>2. ASSUME NEW c \in Chunk, TaskStep(c) PROVE x = y
  <2>1. CASE CallReturns(c) /\ k = Key(c)
    <3>1. Evidence(k) = {}
      BY <2>1 DEF CallReturns, EndCall, At, Unknown
    <3> QED BY <1>2, <3>1, EvidenceStep
  <2>2. CASE ~(CallReturns(c) /\ k = Key(c))
    BY <1>2, <2>2, EvidenceStep DEF Agreed
  <2> QED BY <2>1, <2>2
<1> QED BY <1>1, <1>2, StepKinds

(* All of it together is inductive.                                        *)
RunInv ==
  /\ TypeOK /\ WorkNamed /\ Registered /\ Published /\ GotKnown /\ Staged /\ KeyedRows
  /\ Agreed /\ Unknown

(* The parts of the invariant hold together.                               *)
LEMMA RunInvHolds == Spec => []RunInv
<1>1. Init => RunInv
  <2> SUFFICES ASSUME Init PROVE RunInv
    OBVIOUS
  <2>1. TypeOK
    <3>1. /\ MaxRuns \in Nat /\ MaxRepairs \in Nat /\ MaxRetries \in Nat
          /\ MathLossRetries \in Nat
      BY ConstantsAssumption DEF ConstantsAssumption
    <3>2. NoText \in Texts /\ AbsentRow \in Row
      BY TextKinds, RowKinds
    <3>3. rows \in [Chunk -> Row] /\ staged \in [Chunk -> Texts]
      BY <3>2 DEF Init
    <3>4. got \in [Chunk -> [Part -> Texts]] /\ part \in [Chunk -> Part]
      BY <3>2 DEF Init, Part
    <3>5. pendingCache \in [Keys -> Texts] /\ pendingFutures \in [Keys -> Job \cup {NoJob}]
      BY <3>2 DEF Init
    <3>6. retries \in [Chunk -> 0..MaxRetries] /\ rerolls \in [Chunk -> 0..MathLossRetries]
          /\ runs \in 0..MaxRuns /\ repairs \in 0..MaxRepairs
      BY <3>1 DEF Init
    <3> QED BY <3>3, <3>4, <3>5, <3>6 DEF Init, TypeOK
  <2>2. WorkNamed /\ Registered /\ Published /\ GotKnown
    BY JobKinds DEF Init, WorkNamed, Registered, Published, GotKnown, Owning
  <2>3. Staged /\ KeyedRows
    BY RowKinds DEF Init, Staged, KeyedRows, Owning, Part
  <2>4. Unknown
    BY DEF Init, Unknown
  <2>5. Agreed
    <3>1. \A c \in Chunk : rows[c].key = NoKey
      BY RowKinds DEF Init
    <3>2. \A k \in Keys : k # NoKey
      BY ConstantsAssumption DEF ConstantsAssumption
    <3>3. \A k \in Keys : \A x \in Evidence(k) : x = CopiedText(k)
      BY <3>1, <3>2, JobKinds DEF Init, Evidence, DbTexts
    <3> QED BY <3>3 DEF Agreed
  <2> QED BY <2>1, <2>2, <2>3, <2>4, <2>5 DEF RunInv
<1>2. RunInv /\ [Next]_vars => RunInv'
  BY TypeStep, NamedStep, RegisteredStep, PublishedStep, GotKnownStep, StagedStep,
     KeyedRowsStep, UnknownStep, AgreedStep DEF RunInv
<1> QED BY <1>1, <1>2, PTL DEF Spec

-------------------------------------------------------------------------------
(* The results.                                                            *)

(* The tables, the memory and the counters of translate-chunks keep their  *)
(* types; in particular what wakes a waiter is a call that was made.       *)
THEOREM TypeCorrect == Spec => []TypeOK
BY RunInvHolds, PTL DEF RunInv

(* One call per key at a time, and none for a text the run knows, although *)
(* a task looks up, calls and records in separate critical sections.       *)
THEOREM CallsDeduplicated == Spec => []OneCallPerKey
<1>1. RunInv => OneCallPerKey
  <2> SUFFICES ASSUME RunInv, NEW k \in Keys
               PROVE  /\ Cardinality(CallsFor(k)) <= 1
                      /\ CallsFor(k) # {} => pendingCache[k] = NoText
    BY DEF OneCallPerKey
  <2>1. \A c, d \in CallsFor(k) : c = d
    <3>1. \A c \in CallsFor(k) : pendingFutures[k] = <<c, part[c]>>
      BY DEF RunInv, Registered, CallsFor, Owning
    <3> QED BY <3>1
  <2>2. Cardinality(CallsFor(k)) <= 1
    <3>1. CASE CallsFor(k) = {}
      BY <3>1, FS_EmptySet
    <3>2. CASE CallsFor(k) # {}
      <4>1. PICK c : CallsFor(k) = {c}
        BY <2>1, <3>2
      <4>2. Cardinality(CallsFor(k)) = 1
        BY <4>1, FS_Singleton
      <4> QED BY <4>2
    <3> QED BY <3>1, <3>2
  <2>3. ASSUME CallsFor(k) # {} PROVE pendingCache[k] = NoText
    <3>1. Evidence(k) = {}
      BY <2>3 DEF RunInv, Unknown, CallsFor
    <3> QED BY <3>1 DEF RunInv, TypeOK, Evidence
  <2> QED BY <2>2, <2>3
<1> QED BY <1>1, RunInvHolds, PTL

(* Two rows under one key hold one text, whatever was stopped or failed.   *)
THEOREM CacheFunctional == Spec => []CacheIsAFunction
<1>1. RunInv => CacheIsAFunction
  <2> SUFFICES ASSUME RunInv, NEW c \in Chunk, NEW d \in Chunk,
                      rows[c].key = rows[d].key, rows[c].key # NoKey
               PROVE  rows[c].body = rows[d].body
    BY DEF CacheIsAFunction
  <2>1. rows[c] \in Row /\ rows[d] \in Row
    BY DEF RunInv, TypeOK
  <2>2. /\ rows[c].key \in Keys \cup {BlankKey}
        /\ rows[c].body \in Texts /\ rows[d].body \in Texts
    BY <2>1 DEF Row
  <2>3. CASE rows[c].key = BlankKey
    BY <2>3 DEF RunInv, KeyedRows
  <2>4. CASE rows[c].key # BlankKey
    <3>1. /\ rows[c].status = "translated" /\ rows[c].body # NoText
          /\ rows[d].status = "translated" /\ rows[d].body # NoText
      BY <2>4 DEF RunInv, KeyedRows
    <3>2. rows[c].body \in Evidence(rows[c].key) /\ rows[d].body \in Evidence(rows[c].key)
      BY <2>2, <3>1 DEF Evidence, DbTexts
    <3> QED BY <2>2, <2>4, <3>2 DEF RunInv, Agreed
  <2> QED BY <2>3, <2>4
<1> QED BY <1>1, RunInvHolds, PTL

-------------------------------------------------------------------------------
(* Repairs and rows.                                                       *)

(* A repair stages the text of the chunk it asked for, and no caption's.   *)
RepairsBodies ==
  \A c \in Chunk : staged[c] # NoText => staged[c] = ContextText(c)

(* What a repair wrote stands in the body of its own row, without a key,   *)
(* and nowhere in the evidence.                                            *)
ContextKept ==
  /\ \A k \in Keys : \A c \in Chunk : ContextText(c) \notin Evidence(k)
  /\ \A c, d \in Chunk :
       /\ rows[d].caption # ContextText(c)
       /\ rows[d].body = ContextText(c) => c = d

(* Nothing else is ever staged.                                            *)
LEMMA RepairsBodiesStep ==
  ASSUME TypeOK, RepairsBodies, [Next]_vars
  PROVE  RepairsBodies'
<1>1. ASSUME NEW c \in Chunk, RepairStep(c) PROVE RepairsBodies'
  <2>1. CASE RepairAnswered(c)
    <3>1. staged' = [staged EXCEPT ![c] = ContextText(c)]
      BY <2>1 DEF RepairAnswered
    <3> QED BY <3>1 DEF RepairsBodies, TypeOK, ContextText
  <2>2. CASE RepairFailed(c)
    BY <2>2 DEF RepairFailed, RepairsBodies
  <2> QED BY <1>1, <2>1, <2>2 DEF RepairStep
<1>2. CASE CommitRepair \/ StopRepair
  BY <1>2 DEF CommitRepair, StopRepair, RepairsBodies
<1>3. ASSUME UNCHANGED staged PROVE RepairsBodies'
  BY <1>3 DEF RepairsBodies, ContextText
<1>4. ASSUME NEW c \in Chunk, TaskStep(c) PROVE RepairsBodies'
  BY <1>3, <1>4, TaskFrame DEF repair
<1> QED
  BY <1>1, <1>2, <1>3, <1>4
     DEF Next, StartRun, Finalize, StopRun, RepairShort, RepairExplicit, StartRepair, vars, repair

(* No task has a text made in a chunk's context.                           *)
LEMMA GotNoContext ==
  ASSUME RunInv, ContextKept, NEW c \in Chunk, NEW d \in Chunk, NEW p \in Part
  PROVE  got[d][p] # ContextText(c)
<1>1. <<d, p>> \in Job /\ got[d][p] \in Texts
  BY JobKinds DEF RunInv, TypeOK
<1>2. CASE got[d][p] = NoText
  BY <1>2, TextKinds
<1>3. CASE got[d][p] # NoText
  <2>1. KeyOf(<<d, p>>) \in Keys
    BY <1>1, <1>3 DEF RunInv, GotKnown
  <2>2. got[d][p] \in Evidence(KeyOf(<<d, p>>))
    BY <1>1, <1>3 DEF Evidence
  <2> QED BY <2>1, <2>2 DEF ContextKept
<1> QED BY <1>2, <1>3

(* A text made in its context never becomes known for a key.               *)
LEMMA ContextKeptStep ==
  ASSUME RunInv, RepairsBodies, ContextKept, [Next]_vars
  PROVE  ContextKept'
<1>0. TypeOK /\ WorkNamed /\ Registered /\ KeyedRows
  BY DEF RunInv
<1>1. \A k \in Keys : \A c \in Chunk : ContextText(c) \notin Evidence(k)'
  <2> SUFFICES ASSUME NEW k \in Keys, NEW c \in Chunk, ContextText(c) \in Evidence(k)'
               PROVE  FALSE
    OBVIOUS
  <2>1. CASE Rebegins \/ Repairs
    BY <1>0, <2>1, EvidenceFades DEF ContextKept
  <2>2. ASSUME NEW d \in Chunk, TaskStep(d) PROVE FALSE
    BY <1>0, <2>2, EvidenceStep, TextKinds DEF ContextKept
  <2> QED BY <1>0, <2>1, <2>2, StepKinds
<1>2. ASSUME NEW d \in Chunk, NEW c \in Chunk
      PROVE  /\ rows'[d].caption # ContextText(c)
             /\ rows'[d].body = ContextText(c) => c = d
  <2>1. CASE rows'[d] = rows[d]
    BY <2>1 DEF ContextKept
  <2>2. CASE rows'[d] = Repaired(d) /\ staged[d] # NoText
    <3>1. rows'[d].caption = rows[d].caption /\ rows'[d].body = ContextText(d)
      BY <1>0, <2>2, RepairedRow DEF RepairsBodies
    <3> QED BY <3>1, TextKinds DEF ContextKept
  <2>3. ASSUME NEW e \in Chunk, TaskStep(e), rows'[d] # rows[d]
        PROVE  /\ rows'[d].caption # ContextText(c)
               /\ rows'[d].body = ContextText(c) => c = d
    <3>1. d = e
      BY <1>0, <2>3, TaskFrame
    <3>2. PassThrough(e) \/ Write(e) \/ WriteFailed(e)
      BY <2>3 DEF TaskStep, Skip, TakeUp, Lookup, LookupHit, LookupOwn, LookupJoin, Wake,
           Call, StartCall, RetryTransient, RerollLostMath, CallReturns, CallFails, EndCall,
           Publish, Drop, durable
    <3>3. CASE PassThrough(e) \/ WriteFailed(e)
      <4>1. rows'[d] \in {TranslatedRow(SourceText(e), NoText, NoKey), FailedRow}
        BY <1>0, <3>1, <3>3 DEF PassThrough, WriteFailed, Upsert, TypeOK
      <4> QED BY <4>1, RowKinds, TextKinds DEF TranslatedRow
    <3>4. CASE Write(e)
      <4>1. rows'[d] = TranslatedRow(got[d]["body"], got[d]["caption"], ContentKey(d))
        BY <1>0, <3>1, <3>4 DEF Write, Upsert, TypeOK
      <4>2. got[d]["body"] # ContextText(c) /\ got[d]["caption"] # ContextText(c)
        BY GotNoContext DEF Part
      <4> QED BY <4>1, <4>2 DEF TranslatedRow
    <3> QED BY <3>2, <3>3, <3>4
  <2> QED BY <1>0, <2>1, <2>2, <2>3, StepKinds DEF Rebegins, Repairs
<1>3. \A c \in Chunk : ContextText(c)' = ContextText(c)
  BY DEF ContextText
<1> QED BY <1>1, <1>2, <1>3 DEF ContextKept

(* At first there is no such text at all.                                  *)
LEMMA ContextKeptInit ==
  ASSUME Init PROVE ContextKept
<1>1. \A c \in Chunk : rows[c].key = NoKey /\ rows[c].body = NoText /\ rows[c].caption = NoText
  BY RowKinds DEF Init
<1>2. \A k \in Keys : k # NoKey
  BY ConstantsAssumption DEF ConstantsAssumption
<1>3. \A k \in Keys : \A x \in Evidence(k) : x = CopiedText(k)
  BY <1>1, <1>2, JobKinds DEF Init, Evidence, DbTexts
<1> QED BY <1>1, <1>3, TextKinds DEF ContextKept

(* What a repair's LLM wrote with a chunk's neighbours in view is never    *)
(* served for another chunk.                                               *)
THEOREM RepairLocal == Spec => []RepairStaysLocal
<1>1. Init => RepairsBodies /\ ContextKept
  BY ContextKeptInit DEF Init, RepairsBodies
<1>2. RunInv /\ RepairsBodies /\ ContextKept /\ [Next]_vars => RepairsBodies' /\ ContextKept'
  BY RepairsBodiesStep, ContextKeptStep DEF RunInv
<1>3. ContextKept => RepairStaysLocal
  BY DEF ContextKept, RepairStaysLocal
<1> QED BY <1>1, <1>2, <1>3, RunInvHolds, PTL DEF Spec

(* Equations are passed through, and nothing else is.                      *)
EquationsPass ==
  \A c \in Chunk :
    /\ pc[c] = "passthrough" => c \in Equations
    /\ pc[c] \in {"lookup", "await", "write", "writeFailed"} \cup Owning => c \notin Equations

(* This is so in every step.                                               *)
LEMMA EquationsPassStep ==
  ASSUME TypeOK, EquationsPass, [Next]_vars
  PROVE  EquationsPass'
<1>1. CASE Rebegins
  BY <1>1 DEF Rebegins, Memory, EquationsPass, Owning
<1>2. CASE Repairs
  BY <1>2 DEF Repairs, task, EquationsPass
<1>3. ASSUME NEW c \in Chunk, TaskStep(c) PROVE EquationsPass'
  <2>1. \A d \in Chunk : d # c => pc'[d] = pc[d]
    BY <1>3, TaskFrame
  <2>2. pc = [d \in Chunk |-> pc[d]]
    BY DEF TypeOK
  <2>3. CASE TakeUp(c)
    <3>1. pc'[c] = IF c \in Equations THEN "passthrough"
                   ELSE IF BodyOf[c] = NoKey /\ CaptionOf[c] = NoKey THEN "write" ELSE "lookup"
      BY <2>2, <2>3 DEF TakeUp, Goto
    <3> QED BY <2>1, <3>1 DEF EquationsPass, Owning
  <2>4. CASE ~TakeUp(c)
    <3>1. /\ pc'[c] # "passthrough"
          /\ pc'[c] = "done" \/ pc[c] \in {"lookup", "await"} \cup Owning
      BY <1>3, <2>2, <2>4
         DEF TaskStep, Skip, PassThrough, Lookup, LookupHit, LookupOwn, LookupJoin, Wake,
             Receive, Call, StartCall, RetryTransient, RerollLostMath, CallReturns, CallFails,
             EndCall, Publish, Drop, Write, WriteFailed, Goto, At, Owning
    <3> QED BY <2>1, <3>1 DEF EquationsPass, Owning
  <2> QED BY <2>3, <2>4
<1> QED BY <1>1, <1>2, <1>3, StepKinds

(* What WholeRows says of one row; no row has a caption uncalled for.      *)
WholeRow(c, row) ==
  /\ row.status = "translated" /\ row.body # ContextText(c) =>
       IF c \in Equations
       THEN row = TranslatedRow(SourceText(c), NoText, NoKey)
       ELSE /\ row.body = NoText <=> BodyOf[c] = NoKey
            /\ row.caption = NoText <=> CaptionOf[c] = NoKey
  /\ row.body = ContextText(c) => row.status = "translated" /\ row.key = NoKey
  /\ row.status = "failed" => row = FailedRow
  /\ CaptionOf[c] = NoKey \/ c \in Equations => row.caption = NoText

(* The rows of a run and of a repair are whole.                            *)
LEMMA RowsStep ==
  ASSUME RunInv, RepairsBodies, ContextKept, EquationsPass, [Next]_vars,
         \A c \in Chunk : WholeRow(c, rows[c])
  PROVE  \A c \in Chunk : WholeRow(c, rows'[c])
<1>0. TypeOK
  BY DEF RunInv
<1> SUFFICES ASSUME NEW c \in Chunk PROVE WholeRow(c, rows'[c])
  OBVIOUS
<1>1. CASE rows'[c] = rows[c]
  BY <1>1
<1>2. CASE rows'[c] = Repaired(c) /\ staged[c] # NoText
  <2>1. /\ rows'[c].status = "translated" /\ rows'[c].body = ContextText(c)
        /\ rows'[c].key = NoKey /\ rows'[c].caption = rows[c].caption
    BY <1>0, <1>2, RepairedRow DEF RepairsBodies
  <2> QED BY <2>1 DEF WholeRow
<1>3. CASE Write(c)
  <2>1. /\ rows'[c].status = "translated" /\ rows'[c].body = got[c]["body"]
        /\ rows'[c].caption = got[c]["caption"]
    BY <1>0, <1>3 DEF Write, Upsert, TypeOK, TranslatedRow
  <2>2. /\ got[c]["body"] = NoText <=> BodyOf[c] = NoKey
        /\ got[c]["caption"] = NoText <=> CaptionOf[c] = NoKey
    BY <1>3 DEF Write, At, RunInv, Staged
  <2>3. c \notin Equations /\ got[c]["body"] # ContextText(c)
    BY <1>3, GotNoContext DEF Write, At, EquationsPass, Part
  <2> QED BY <2>1, <2>2, <2>3 DEF WholeRow
<1>4. CASE WriteFailed(c)
  <2>1. rows'[c] = FailedRow
    BY <1>0, <1>4 DEF WriteFailed, Upsert, TypeOK
  <2> QED BY <2>1, RowKinds, TextKinds DEF WholeRow
<1>5. CASE PassThrough(c)
  <2>1. c \in Equations
    BY <1>5 DEF PassThrough, At, EquationsPass
  <2>2. rows'[c] = TranslatedRow(SourceText(c), NoText, NoKey)
    BY <1>0, <1>5 DEF PassThrough, Upsert, TypeOK
  <2>3. /\ rows'[c].status = "translated" /\ rows'[c].body = SourceText(c)
        /\ rows'[c].caption = NoText
    BY <2>2 DEF TranslatedRow
  <2> QED BY <2>1, <2>2, <2>3, TextKinds DEF WholeRow
<1>6. ASSUME NEW d \in Chunk, TaskStep(d), rows'[c] # rows[c]
      PROVE  PassThrough(c) \/ Write(c) \/ WriteFailed(c)
  <2>1. c = d
    BY <1>0, <1>6, TaskFrame
  <2> QED
    BY <1>6, <2>1
       DEF TaskStep, Skip, TakeUp, Lookup, LookupHit, LookupOwn, LookupJoin, Wake, Call,
           StartCall, RetryTransient, RerollLostMath, CallReturns, CallFails, EndCall, Publish,
           Drop, durable
<1>7. CASE Rebegins \/ Repairs
  BY <1>1, <1>2, <1>7 DEF Rebegins, Repairs
<1>8. ASSUME NEW d \in Chunk, TaskStep(d)
      PROVE  rows'[c] = rows[c] \/ PassThrough(c) \/ Write(c) \/ WriteFailed(c)
  BY <1>6, <1>8
<1> QED BY <1>0, <1>1, <1>3, <1>4, <1>5, <1>7, <1>8, StepKinds

(* A row a run has translated has every text its chunk calls for, a failed *)
(* one none, and a repair leaves what it does not translate as it was,     *)
(* through runs, stops and repairs of any chunk.                           *)
THEOREM RowsWhole == Spec => []WholeRows
<1> DEFINE Whole == \A c \in Chunk : WholeRow(c, rows[c])
           IInv == RepairsBodies /\ ContextKept /\ EquationsPass /\ Whole
<1>1. Init => RepairsBodies /\ EquationsPass /\ Whole
  <2> SUFFICES ASSUME Init PROVE RepairsBodies /\ EquationsPass /\ Whole
    OBVIOUS
  <2>1. \A c \in Chunk : /\ rows[c].status = "absent" /\ rows[c].caption = NoText
                         /\ rows[c].body # ContextText(c)
    BY RowKinds, TextKinds DEF Init
  <2> QED BY <2>1 DEF Init, RepairsBodies, EquationsPass, WholeRow, Owning
<1>2. RunInv /\ IInv /\ [Next]_vars => IInv'
  <2> SUFFICES ASSUME RunInv, IInv, [Next]_vars PROVE IInv'
    OBVIOUS
  <2>1. TypeOK
    BY DEF RunInv
  <2>2. RepairsBodies' /\ EquationsPass' /\ ContextKept'
    BY <2>1, RepairsBodiesStep, EquationsPassStep, ContextKeptStep
  <2>3. \A c \in Chunk : WholeRow(c, rows'[c])
    BY RowsStep
  <2>4. Whole'
    BY <2>3 DEF WholeRow, ContextText, SourceText, TranslatedRow, FailedRow, AbsentRow, NoText
  <2> QED BY <2>2, <2>4
<1>3. IInv => WholeRows
  BY DEF WholeRow, WholeRows
<1>4. Init => IInv
  BY <1>1, ContextKeptInit
<1> QED BY <1>2, <1>3, <1>4, RunInvHolds, PTL DEF Spec

-------------------------------------------------------------------------------
(* The account of a run.                                                   *)

Done == {c \in Chunk : pc[c] = "done"}
Total ==
  stats["translated"] + stats["passthrough"] + stats["cached"] + stats["skipped"]
    + stats["failed"]

(* Every completed task has counted once; in a run that retries what       *)
(* failed, its row tells how.                                              *)
Accounted ==
  phase = "running" =>
    /\ Total = Cardinality(Done)
    /\ retryFailed =>
         /\ \A c \in Done : rows[c].status \in {"translated", "failed"}
         /\ stats["failed"] > 0 <=> \E c \in Done : rows[c].status = "failed"

(* Chunks, and those that are done, can be counted.                        *)
LEMMA ChunksFinite == IsFiniteSet(Chunk) /\ Cardinality(Chunk) = NChunks /\ IsFiniteSet(Done)
<1>1. NChunks \in Nat
  BY ConstantsAssumption DEF ConstantsAssumption
<1>2. IsFiniteSet(1..NChunks) /\ Cardinality(1..NChunks) = NChunks
  BY <1>1, FS_Interval
<1>3. IsFiniteSet(Done)
  BY <1>2, FS_Subset DEF Done, Chunk
<1> QED BY <1>2, <1>3 DEF Chunk

(* A task that completes writes or skips, and counts; nothing completed    *)
(* goes on.                                                                *)
LEMMA Completion ==
  ASSUME TypeOK, NEW c \in Chunk, TaskStep(c)
  PROVE  /\ pc[c] # "done"
         /\ \/ pc'[c] # "done" /\ UNCHANGED <<stats, rows>>
            \/ /\ pc'[c] = "done"
               /\ \/ AlreadySettled(c) /\ Count("skipped") /\ UNCHANGED rows
                  \/ /\ \E o \in {"translated", "cached", "passthrough"} : Count(o)
                     /\ rows'[c].status = "translated"
                  \/ Count("failed") /\ rows'[c].status = "failed"
<1>0. pc = [d \in Chunk |-> pc[d]] /\ rows = [d \in Chunk |-> rows[d]]
  BY DEF TypeOK
<1>1. CASE Skip(c)
  BY <1>0, <1>1 DEF Skip, At, Goto, durable
<1>2. CASE PassThrough(c) \/ Write(c)
  BY <1>0, <1>2 DEF PassThrough, Write, At, Goto, Upsert, TranslatedRow
<1>3. CASE WriteFailed(c)
  BY <1>0, <1>3, RowKinds DEF WriteFailed, At, Goto, Upsert
<1>4. CASE TakeUp(c) \/ Lookup(c)
  BY <1>0, <1>4 DEF TakeUp, Lookup, LookupHit, LookupOwn, LookupJoin, Wake, Receive, At, Goto,
                    durable, shared
<1>5. CASE Call(c)
  BY <1>0, <1>5 DEF Call, StartCall, RetryTransient, RerollLostMath, CallReturns, CallFails,
                    EndCall, Publish, Drop, Receive, At, Goto, durable, shared
<1> QED BY <1>1, <1>2, <1>3, <1>4, <1>5 DEF TaskStep

(* The total goes up by one with each count.                               *)
LEMMA TotalStep ==
  ASSUME TypeOK, NEW o \in Outcome, Count(o)
  PROVE  /\ Total' = Total + 1
         /\ o = "failed" => stats'["failed"] > 0
         /\ o # "failed" => stats'["failed"] = stats["failed"]
<1>1. \A p \in Outcome : stats[p] \in Nat /\ stats'[p] = IF p = o THEN stats[p] + 1 ELSE stats[p]
  BY DEF TypeOK, Count
<1> QED BY <1>1 DEF Total, Outcome

(* The counts go on adding up to the tasks that are done.                  *)
LEMMA AccountedStep ==
  ASSUME TypeOK, Accounted, [Next]_vars
  PROVE  Accounted'
<1>1. CASE Rebegins
  <2>1. Total' = 0 /\ Done' = {} /\ stats'["failed"] = 0
    BY <1>1 DEF Rebegins, Memory, Total, Done, Outcome
  <2> QED BY <2>1, FS_EmptySet DEF Accounted
<1>2. CASE Repairs
  <2>1. CASE phase' = "running"
    <3>1. phase = "running" /\ UNCHANGED <<rows, retryFailed>>
      BY <1>2, <2>1 DEF Repairs
    <3> QED BY <1>2, <3>1 DEF Repairs, Accounted, Total, Done, task, shared
  <2>2. CASE phase' # "running"
    BY <2>2 DEF Accounted
  <2> QED BY <2>1, <2>2
<1>3. ASSUME NEW c \in Chunk, TaskStep(c) PROVE Accounted'
  <2>1. /\ phase = "running" /\ retryFailed' = retryFailed
        /\ \A d \in Chunk : d # c => pc'[d] = pc[d] /\ rows'[d] = rows[d]
    BY <1>3, TaskFrame
  <2>2. Total = Cardinality(Done) /\ pc[c] # "done"
    BY <1>3, <2>1, Completion DEF Accounted
  <2>3. CASE pc'[c] # "done" /\ UNCHANGED <<stats, rows>>
    <3>1. Done' = Done
      BY <2>1, <2>2, <2>3 DEF Done
    <3> QED BY <2>1, <2>3, <3>1 DEF Accounted, Total
  <2>4. ASSUME pc'[c] = "done", NEW o \in Outcome, Count(o),
               retryFailed => /\ rows'[c].status \in {"translated", "failed"}
                              /\ rows'[c].status = "failed" <=> o = "failed"
        PROVE  Accounted'
    <3>1. Done' = Done \cup {c} /\ c \notin Done
      BY <2>1, <2>2, <2>4 DEF Done
    <3>2. Cardinality(Done') = Cardinality(Done) + 1
      BY <3>1, ChunksFinite, FS_AddElement
    <3>3. /\ Total' = Total + 1
          /\ o = "failed" => stats'["failed"] > 0
          /\ o # "failed" => stats'["failed"] = stats["failed"]
      BY <2>4, TotalStep
    <3>4. \A d \in Done : rows'[d] = rows[d]
      BY <2>1, <3>1 DEF Done
    <3>5. Total' = Cardinality(Done')
      BY <2>2, <3>2, <3>3
    <3>6. ASSUME retryFailed
          PROVE  /\ \A d \in Done' : rows'[d].status \in {"translated", "failed"}
                 /\ stats'["failed"] > 0 <=> \E d \in Done' : rows'[d].status = "failed"
      BY <2>1, <2>4, <3>1, <3>3, <3>4, <3>6 DEF Accounted
    <3> QED BY <2>1, <3>5, <3>6 DEF Accounted
  <2>5. CASE AlreadySettled(c) /\ Count("skipped") /\ UNCHANGED rows /\ pc'[c] = "done"
    BY <2>4, <2>5 DEF AlreadySettled, Outcome
  <2>6. CASE /\ \E o \in {"translated", "cached", "passthrough"} : Count(o)
             /\ rows'[c].status = "translated" /\ pc'[c] = "done"
    BY <2>4, <2>6 DEF Outcome
  <2>7. CASE Count("failed") /\ rows'[c].status = "failed" /\ pc'[c] = "done"
    BY <2>4, <2>7 DEF Outcome
  <2> QED BY <1>3, <2>3, <2>5, <2>6, <2>7, Completion
<1> QED BY <1>1, <1>2, <1>3, StepKinds

(* A run that ends has counted every chunk once, and after one that        *)
(* retried what failed the document's status says what its rows say.       *)
THEOREM RunAccounted == Spec => FinishedRunAccounted
<1>1. Init => Accounted
  BY DEF Init, Accounted
<1>2. RunInv /\ Accounted /\ [Next]_vars => Accounted'
  BY AccountedStep DEF RunInv
<1>3. RunInv /\ Accounted =>
        (Finalize =>
           /\ stats["translated"] + stats["passthrough"] + stats["cached"]
                + stats["skipped"] + stats["failed"] = NChunks
           /\ retryFailed => (docStatus' = "translated"
                                <=> \A c \in Chunk : rows[c].status = "translated"))
  <2> SUFFICES ASSUME RunInv, Accounted, Finalize
               PROVE  /\ Total = NChunks
                      /\ retryFailed => (docStatus' = "translated"
                                           <=> \A c \in Chunk : rows[c].status = "translated")
    BY DEF Total
  <2>1. phase = "running" /\ Done = Chunk
        /\ docStatus' = IF stats["failed"] > 0 THEN "partial_translated" ELSE "translated"
    BY DEF Finalize, Done
  <2>2. Total = NChunks
    BY <2>1, ChunksFinite DEF Accounted
  <2> QED BY <2>1, <2>2 DEF Accounted
<1> QED BY <1>1, <1>2, <1>3, RunInvHolds, PTL DEF Spec, FinishedRunAccounted

-------------------------------------------------------------------------------
(* Nobody stuck.  A task that waits holds nothing: it has no call of its   *)
(* own under way, so no ring of bodies and captions can close.             *)

(* A call whose future is pending is being made, by the task it belongs to *)
(* and for the part that task is at; a waiter, and a registration, is for  *)
(* a call that was begun.                                                  *)
Carried ==
  /\ \A j \in Job : future[j] = "pending" =>
       pc[j[1]] \in {"slot", "incall"} /\ part[j[1]] = j[2]
  /\ \A c \in Chunk : pc[c] = "await" => future[waitsOn[c]] # "none"
  /\ \A k \in Keys : pendingFutures[k] # NoJob => future[pendingFutures[k]] # "none"

(* What a task's step does to futures, and where the task is then.         *)
FutureMove(c) ==
  /\ \/ UNCHANGED future /\ pc[c] \notin {"slot", "incall"}
     \/ /\ UNCHANGED <<future, part>>
        /\ pc[c] \in {"slot", "incall"} /\ pc'[c] \in {"slot", "incall"}
     \/ /\ LookupOwn(c) /\ UNCHANGED part /\ pc[c] = "lookup" /\ pc'[c] = "slot"
        /\ future' = [future EXCEPT ![<<c, part[c]>>] = "pending"]
        /\ pendingFutures' = [pendingFutures EXCEPT ![Key(c)] = <<c, part[c]>>]
     \/ /\ UNCHANGED part /\ pc[c] = "incall"
        /\ \E outcome \in {"ok", "failed"} :
             future' = [future EXCEPT ![<<c, part[c]>>] = outcome]
  /\ ~LookupOwn(c) => \A k \in Keys : pendingFutures'[k] \in {NoJob, pendingFutures[k]}
  /\ pc'[c] = "await" => LookupJoin(c)

(* No step of a task does anything else to them.                           *)
LEMMA FutureMoves ==
  ASSUME TypeOK, WorkNamed, NEW c \in Chunk, TaskStep(c)
  PROVE  FutureMove(c)
<1> USE DEF FutureMove
<1>0. /\ pc = [d \in Chunk |-> pc[d]] /\ pendingFutures = [k \in Keys |-> pendingFutures[k]]
  BY DEF TypeOK
<1>1. CASE Skip(c) \/ TakeUp(c) \/ PassThrough(c) \/ Write(c) \/ WriteFailed(c)
  BY <1>0, <1>1 DEF Skip, TakeUp, PassThrough, Write, WriteFailed, At, Goto, shared
<1>2. CASE LookupHit(c) \/ Wake(c)
  BY <1>0, <1>2 DEF LookupHit, Wake, Receive, At, Goto, shared
<1>3. CASE LookupJoin(c)
  BY <1>0, <1>3 DEF LookupJoin, At, shared
<1>4. CASE LookupOwn(c)
  BY <1>0, <1>4 DEF LookupOwn, At, Goto
<1>5. CASE StartCall(c) \/ RetryTransient(c) \/ RerollLostMath(c)
  BY <1>0, <1>5 DEF StartCall, RetryTransient, RerollLostMath, At, Goto, shared
<1>6. CASE CallReturns(c) \/ CallFails(c)
  BY <1>0, <1>6 DEF CallReturns, CallFails, EndCall, At, Goto
<1>7. CASE Publish(c) \/ Drop(c)
  BY <1>0, <1>7 DEF Publish, Drop, Unregister, Receive, At, Goto
<1> QED BY <1>1, <1>2, <1>3, <1>4, <1>5, <1>6, <1>7 DEF TaskStep, Lookup, Call

(* Whoever has a pending call stays at it until its future is resolved.    *)
LEMMA CarriedStep ==
  ASSUME TypeOK, WorkNamed, Carried, [Next]_vars
  PROVE  Carried'
<1> USE DEF FutureMove
<1>1. CASE Rebegins
  BY <1>1 DEF Rebegins, Memory, Carried
<1>2. CASE Repairs
  BY <1>2 DEF Repairs, Carried, task, shared
<1>3. ASSUME NEW c \in Chunk, TaskStep(c) PROVE Carried'
  <2>0. /\ future \in [Job -> {"none", "pending", "ok", "failed"}]
        /\ <<c, part[c]>> \in Job /\ part[c] \in Part
        /\ pendingFutures \in [Keys -> Job \cup {NoJob}]
    BY JobKinds DEF TypeOK
  <2>f. \A d \in Chunk : d # c => pc'[d] = pc[d] /\ part'[d] = part[d] /\ waitsOn'[d] = waitsOn[d]
    BY <1>3, TaskFrame
  <2>m. FutureMove(c)
    BY <1>3, FutureMoves
  <2>b. \A j \in Job : future[j] # "none" => future'[j] # "none"
    BY <2>0, <2>m
  <2>1. ASSUME NEW j \in Job, future'[j] = "pending"
        PROVE  pc'[j[1]] \in {"slot", "incall"} /\ part'[j[1]] = j[2]
    <3>0. j[1] \in Chunk /\ j = <<j[1], j[2]>>
      BY JobKinds
    <3>1. CASE j[1] # c
      <4>1. future[j] = "pending"
        BY <2>0, <2>1, <2>m, <3>0, <3>1
      <4> QED BY <2>f, <3>0, <3>1, <4>1 DEF Carried
    <3>2. CASE j[1] = c /\ j[2] = part[c]
      BY <2>0, <2>1, <2>m, <3>0, <3>2 DEF Carried
    <3>3. CASE j[1] = c /\ j[2] # part[c]
      <4>1. future[j] = "pending"
        BY <2>0, <2>1, <2>m, <3>0, <3>3
      <4> QED BY <3>3, <4>1 DEF Carried
    <3> QED BY <3>1, <3>2, <3>3
  <2>2. ASSUME NEW k \in Keys, pendingFutures'[k] # NoJob
        PROVE  future'[pendingFutures'[k]] # "none"
    <3>1. CASE pendingFutures'[k] = pendingFutures[k]
      BY <2>0, <2>2, <2>b, <3>1 DEF Carried
    <3>2. CASE LookupOwn(c) /\ pendingFutures'[k] # pendingFutures[k]
      <4>1. pendingFutures'[k] = <<c, part[c]>> /\ future'[<<c, part[c]>>] = "pending"
        BY <2>0, <3>2 DEF LookupOwn
      <4> QED BY <4>1
    <3> QED BY <2>2, <2>m, <3>1, <3>2
  <2>3. ASSUME NEW d \in Chunk, pc'[d] = "await"
        PROVE  future'[waitsOn'[d]] # "none"
    <3>1. CASE d # c
      <4>1. pc[d] = "await" /\ waitsOn'[d] = waitsOn[d] /\ waitsOn[d] \in Job
        BY <2>3, <2>f, <3>1 DEF WorkNamed
      <4> QED BY <2>b, <4>1 DEF Carried
    <3>2. CASE d = c
      <4>1. LookupJoin(c)
        BY <2>3, <2>m, <3>2
      <4>2. Key(c) \in Keys /\ pendingFutures[Key(c)] # NoJob
            /\ waitsOn'[c] = pendingFutures[Key(c)] /\ UNCHANGED future
        BY <4>1 DEF LookupJoin, At, WorkNamed, TypeOK, shared
      <4> QED BY <3>2, <4>2 DEF Carried
    <3> QED BY <3>1, <3>2
  <2> QED BY <2>1, <2>2, <2>3 DEF Carried
<1> QED BY <1>1, <1>2, <1>3, StepKinds

(* Tasks never wait for each other in a ring: until all tasks of a run     *)
(* have ended, one of them can go on, for any document, also when bodies   *)
(* and captions repeat each other.                                         *)
THEOREM OneCanGo == Spec => []NobodyStuck
<1>1. Init => Carried
  BY JobKinds DEF Init, Carried
<1>2. RunInv /\ Carried /\ [Next]_vars => Carried'
  BY CarriedStep DEF RunInv
<1>3. ASSUME RunInv, Carried PROVE NobodyStuck
  <2> SUFFICES ASSUME phase = "running", NEW c \in Chunk, pc[c] # "done"
               PROVE  \E d \in Chunk : CanGo(d)
    BY DEF NobodyStuck
  <2>1. CASE \E d \in Chunk : pc[d] \notin {"slot", "await", "done"}
    BY <2>1 DEF CanGo
  <2>2. CASE \A d \in Chunk : pc[d] \in {"slot", "await", "done"}
    <3>1. InCall = {}
      BY <2>2 DEF InCall
    <3>2. Cardinality(InCall) < Concurrency
      BY <3>1, FS_EmptySet, ConstantsAssumption DEF ConstantsAssumption
    <3>3. CASE \E d \in Chunk : pc[d] = "slot"
      BY <3>2, <3>3 DEF CanGo
    <3>4. CASE \A d \in Chunk : pc[d] # "slot"
      <4>1. pc[c] = "await"
        BY <2>2, <3>4
      <4>2. waitsOn[c] \in Job /\ waitsOn[c][1] \in Chunk
        BY <1>3, <4>1, JobKinds DEF RunInv, WorkNamed
      <4>3. future[waitsOn[c]] \notin {"none", "pending"}
        BY <1>3, <2>2, <3>4, <4>1, <4>2 DEF Carried
      <4>4. future[waitsOn[c]] \in {"ok", "failed"}
        BY <1>3, <4>2, <4>3 DEF RunInv, TypeOK
      <4> QED BY <4>1, <4>4 DEF CanGo
    <3> QED BY <3>3, <3>4
  <2> QED BY <2>1, <2>2
<1> QED BY <1>1, <1>2, <1>3, RunInvHolds, PTL DEF Spec


-------------------------------------------------------------------------------
(* How far a task is from its end: the attempts left for the part it is at *)
(* (those of the rerolls left, and of the transient errors left before the *)
(* next), and the caption if that is still to come.                        *)

Attempts == MathLossRetries * (MaxRetries + 1) + MaxRetries
Left(c) == (MathLossRetries - rerolls[c]) * (MaxRetries + 1) + (MaxRetries - retries[c])

PartRank(c) ==
  CASE pc[c] = "lookup" -> 2 * Attempts + 6
    [] pc[c] = "slot" -> 2 * Left(c) + 5
    [] pc[c] = "incall" -> 2 * Left(c) + 4
    [] pc[c] \in {"await", "publish", "drop"} -> 3

Rank(c) ==
  CASE pc[c] \in {"idle", "done"} -> 0
    [] pc[c] \in {"write", "writeFailed", "passthrough"} -> 1
    [] pc[c] \in {"lookup", "await"} \cup Owning ->
         PartRank(c) + (IF part[c] = "body" THEN 2 * Attempts + 6 ELSE 0)
    [] pc[c] = "precheck" -> 4 * Attempts + 13

StepsAdvance ==
  [][\A c \in Chunk : TaskStep(c) =>
       /\ Rank(c) \in 1..(4 * Attempts + 13) /\ Rank(c)' \in 0..(Rank(c) - 1)
       /\ \A d \in Chunk \ {c} : Rank(d)' = Rank(d)]_vars

(* The attempts left are at most all of them, and fewer after a retry or a *)
(* reroll, although a reroll gives back what retries had used.             *)
LEMMA AttemptsLeft ==
  ASSUME NEW L \in Nat, NEW R \in Nat, NEW l \in 0..L, NEW r \in 0..R
  PROVE  /\ L * (R + 1) + R \in Nat
         /\ (L - l) * (R + 1) + (R - r) \in 0..(L * (R + 1) + R)
         /\ l < L => (L - (l + 1)) * (R + 1) + (R - 0) < (L - l) * (R + 1) + (R - r)
<1>1. \A a, b, n \in Nat : a <= b => a * n \in Nat /\ b * n \in Nat /\ a * n <= b * n
  OBVIOUS
<1>2. \A a, n \in Nat : (a + 1) * n = a * n + n /\ a * n \in Nat
  OBVIOUS
<1>3. L - l \in Nat /\ L - l <= L /\ R + 1 \in Nat
  OBVIOUS
<1>4. (L - l) * (R + 1) \in Nat /\ L * (R + 1) \in Nat /\ (L - l) * (R + 1) <= L * (R + 1)
  BY <1>1, <1>3
<1>5. ASSUME l < L
      PROVE  /\ (L - l) * (R + 1) = (L - (l + 1)) * (R + 1) + (R + 1)
             /\ (L - (l + 1)) * (R + 1) \in Nat
  <2>1. L - (l + 1) \in Nat /\ (L - (l + 1)) + 1 = L - l
    BY <1>5
  <2> QED BY <1>2, <1>3, <2>1
<1>6. L * (R + 1) + R \in Nat
  BY <1>4
<1>7. (L - l) * (R + 1) + (R - r) \in 0..(L * (R + 1) + R)
  BY <1>4
<1>8. l < L => (L - (l + 1)) * (R + 1) + (R - 0) < (L - l) * (R + 1) + (R - r)
  BY <1>4, <1>5
<1> QED BY <1>6, <1>7, <1>8

(* Where a task can go from where it is, and what that does to its         *)
(* allowances.                                                             *)
Way(c) ==
  /\ \A d \in Chunk \ {c} : /\ pc'[d] = pc[d] /\ part'[d] = part[d]
                            /\ retries'[d] = retries[d] /\ rerolls'[d] = rerolls[d]
  /\ \/ pc[c] = "precheck" /\ pc'[c] \in {"done", "passthrough", "write", "lookup"}
     \/ /\ pc[c] \in {"passthrough", "write", "writeFailed"}
        /\ pc'[c] = "done"
     \/ /\ pc[c] = "lookup" /\ pc'[c] \in {"await", "slot"} /\ part'[c] = part[c]
        /\ retries'[c] = retries[c] /\ rerolls'[c] = rerolls[c]
     \/ /\ pc[c] \in {"lookup", "await", "publish"}
        /\ \/ pc'[c] = "write"
           \/ pc'[c] = "lookup" /\ part[c] = "body" /\ part'[c] = "caption"
     \/ pc[c] \in {"await", "drop"} /\ pc'[c] = "writeFailed"
     \/ /\ pc[c] = "slot" /\ pc'[c] = "incall" /\ part'[c] = part[c]
        /\ retries'[c] = retries[c] /\ rerolls'[c] = rerolls[c]
     \/ /\ pc[c] = "incall" /\ pc'[c] = "slot" /\ part'[c] = part[c]
        /\ \/ /\ retries[c] < MaxRetries /\ retries'[c] = retries[c] + 1
              /\ rerolls'[c] = rerolls[c]
           \/ /\ rerolls[c] < MathLossRetries /\ rerolls'[c] = rerolls[c] + 1
              /\ retries'[c] = 0
     \/ /\ pc[c] = "incall" /\ pc'[c] \in {"publish", "drop"} /\ part'[c] = part[c]

(* A task's step is one of those, and no other task's.                     *)
LEMMA TaskWay ==
  ASSUME TypeOK, NEW c \in Chunk, TaskStep(c)
  PROVE  Way(c)
<1>0. /\ pc = [d \in Chunk |-> pc[d]] /\ part = [d \in Chunk |-> part[d]]
      /\ retries = [d \in Chunk |-> retries[d]] /\ rerolls = [d \in Chunk |-> rerolls[d]]
  BY DEF TypeOK
<1> USE <1>0 DEF At, Goto, Way
<1>1. CASE Skip(c) \/ TakeUp(c)
  BY <1>1 DEF Skip, TakeUp
<1>2. CASE PassThrough(c) \/ Write(c) \/ WriteFailed(c)
  BY <1>2 DEF PassThrough, Write, WriteFailed
<1>3. CASE LookupJoin(c) \/ LookupOwn(c)
  BY <1>3 DEF LookupJoin, LookupOwn
<1>4. CASE LookupHit(c) \/ Publish(c)
  BY <1>4 DEF LookupHit, Publish, Receive
<1>5. CASE Wake(c)
  BY <1>5 DEF Wake, Receive
<1>6. CASE StartCall(c) \/ RetryTransient(c) \/ RerollLostMath(c)
  BY <1>6 DEF StartCall, RetryTransient, RerollLostMath
<1>7. CASE CallReturns(c) \/ CallFails(c)
  BY <1>7 DEF CallReturns, CallFails, EndCall
<1>8. CASE Drop(c)
  BY <1>8 DEF Drop
<1> QED BY <1>1, <1>2, <1>3, <1>4, <1>5, <1>6, <1>7, <1>8 DEF TaskStep, Lookup, Call

(* Every step of a task brings it closer to its end and leaves the others  *)
(* where they were, although a reroll starts the retries afresh and a body *)
(* is followed by a caption: the tasks of a run take at most NChunks *     *)
(* (4 * Attempts + 13) steps in all.  With OneCanGo this is what RunEnds   *)
(* needs of the code.                                                      *)
THEOREM Advance == Spec => StepsAdvance
<1> USE DEF Way
<1>1. ASSUME TypeOK, NEW c \in Chunk, TaskStep(c)
      PROVE  /\ Rank(c) \in 1..(4 * Attempts + 13) /\ Rank(c)' \in 0..(Rank(c) - 1)
             /\ \A d \in Chunk \ {c} : Rank(d)' = Rank(d)
  <2>0. /\ MaxRetries \in Nat /\ MathLossRetries \in Nat
        /\ retries[c] \in 0..MaxRetries /\ rerolls[c] \in 0..MathLossRetries
        /\ part[c] \in {"body", "caption"}
    BY <1>1, ConstantsAssumption DEF TypeOK, ConstantsAssumption, Part
  <2>1. Attempts \in Nat /\ Left(c) \in 0..Attempts
    BY <2>0, AttemptsLeft DEF Attempts, Left
  <2>w. Way(c)
    BY <1>1, TaskWay
  <2>2. \A d \in Chunk \ {c} : Rank(d)' = Rank(d)
    BY <2>w DEF Rank, PartRank, Left, Attempts, Owning
  <2>3. Rank(c) \in 1..(4 * Attempts + 13)
    BY <2>1, <2>w DEF Rank, PartRank, Owning
  (* The attempts left after the step.                                     *)
  <2>4. Attempts' = Attempts
    BY DEF Attempts
  <2>5. pc[c] # "incall" /\ pc'[c] \in {"slot", "incall"} => Left(c)' = Left(c)
    BY <2>w DEF Left
  <2>6. ASSUME pc[c] = "incall", pc'[c] = "slot"
        PROVE  Left(c)' \in 0..(Left(c) - 1)
    <3>1. retries'[c] \in 0..MaxRetries /\ rerolls'[c] \in 0..MathLossRetries
      BY <2>0, <2>w, <2>6
    <3>2. Left(c)' \in 0..Attempts
      BY <2>0, <3>1, AttemptsLeft DEF Left, Attempts
    <3>3. Left(c)' < Left(c)
      <4>1. CASE retries'[c] = retries[c] + 1 /\ rerolls'[c] = rerolls[c]
        <5>1. (MathLossRetries - rerolls[c]) * (MaxRetries + 1) \in Nat
          BY <2>0
        <5> QED BY <2>0, <4>1, <5>1 DEF Left
      <4>2. CASE /\ rerolls[c] < MathLossRetries /\ rerolls'[c] = rerolls[c] + 1
                 /\ retries'[c] = 0
        BY <2>0, <4>2, AttemptsLeft DEF Left
      <4> QED BY <2>6, <2>w, <4>1, <4>2
    <3> QED BY <2>1, <3>2, <3>3
  <2>7. Rank(c)' \in 0..(Rank(c) - 1)
    <3> HIDE DEF Attempts, Left
    <3>1. CASE pc[c] = "precheck"
      BY <2>1, <2>4, <2>w, <3>1 DEF Rank, PartRank, Owning
    <3>2. CASE pc[c] \in {"passthrough", "write", "writeFailed"}
      BY <2>1, <2>4, <2>w, <3>2 DEF Rank, PartRank, Owning
    <3>3. CASE pc[c] \in {"lookup", "await", "publish", "drop"}
      BY <2>0, <2>1, <2>4, <2>5, <2>w, <3>3 DEF Rank, PartRank, Owning
    <3>4. CASE pc[c] = "slot"
      BY <2>0, <2>1, <2>4, <2>5, <2>w, <3>4 DEF Rank, PartRank, Owning
    <3>5. CASE pc[c] = "incall"
      BY <2>0, <2>1, <2>4, <2>6, <2>w, <3>5 DEF Rank, PartRank, Owning
    <3> QED BY <2>w, <3>1, <3>2, <3>3, <3>4, <3>5
  <2> QED BY <2>2, <2>3, <2>7
<1>2. TypeOK /\ [Next]_vars =>
        [\A c \in Chunk : TaskStep(c) =>
           /\ Rank(c) \in 1..(4 * Attempts + 13) /\ Rank(c)' \in 0..(Rank(c) - 1)
           /\ \A d \in Chunk \ {c} : Rank(d)' = Rank(d)]_vars
  BY <1>1
<1> QED BY <1>2, TypeCorrect, PTL DEF Spec, StepsAdvance

===============================================================================
