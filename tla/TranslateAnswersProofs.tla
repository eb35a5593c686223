------------------------ MODULE TranslateAnswersProofs ------------------------
(***************************************************************************)
(* Proofs about what a run of TranslatePipeline leaves, for any document   *)
(* and any schedule: blocks with the same text end alike, the run's counts *)
(* and the document's status say what the rows say, and the pipeline       *)
(* implements SingleFlight.  These suppose that no reader retranslates a   *)
(* block during the run (~Overlap): such a row is no answer of the run.    *)
(* What a run cut short leaves in the rows, and the last two sections, on  *)
(* the progress of a run, suppose nothing of the kind.                     *)
(***************************************************************************)
EXTENDS TranslatePipelineProofs, DataLemmas

-------------------------------------------------------------------------------
(* Who calls, who waits, and what the future of a call says.               *)

(* Outside a run no task is anywhere.                                      *)
IdleOutside == phase \notin InFlight => \A b \in Block : pc[b] = "idle"

RoleFits(b) ==
  /\ pc[b] \in {"idle", "precheck"} => role[b] = "none"
  /\ pc[b] \in {"slot", "incall", "recordOk", "recordFail", "unwind"} => role[b] = "owner"
  /\ pc[b] \in {"await", "serveOk", "serveFail"} => role[b] = "waiter"
  /\ pc[b] = "done" => role[b] # "none"
  /\ role[b] \in {"skipped", "cached"} => pc[b] = "done"
  /\ role[b] \in {"owner", "waiter", "cached"} => KeyOf[b] \in Keys

(* A waiter stands behind an owner of its key, as does a registration.     *)
PairFits(b) ==
  role[b] = "waiter" =>
    waitsOn[b] \in Block /\ role[waitsOn[b]] = "owner" /\ KeyOf[waitsOn[b]] = KeyOf[b]

RegistrationFits(k) ==
  pendingFutures[k] # 0 =>
    role[pendingFutures[k]] = "owner" /\ KeyOf[pendingFutures[k]] = k

(* What the future of a call says where its owner and waiters are.         *)
FutureFits(b) ==
  /\ role[b] = "owner" =>
       /\ pc[b] \in {"slot", "incall"} /\ phase = "running" => future[b] = "pending"
       /\ pc[b] = "recordOk" => future[b] = "ok"
       /\ pc[b] = "recordFail" => future[b] = "failed"
       /\ pc[b] = "done" => future[b] \in {"ok", "failed"}
  /\ role[b] = "waiter" =>
       /\ pc[b] = "serveOk" => future[waitsOn[b]] = "ok"
       /\ pc[b] = "serveFail" => future[waitsOn[b]] = "failed"
       /\ pc[b] = "done" => future[waitsOn[b]] \in {"ok", "failed"}

Flights == \A b \in Block : RoleFits(b) /\ PairFits(b) /\ FutureFits(b)
Registrations == \A k \in Keys : RegistrationFits(k)

Tasks == IdleOutside /\ Flights /\ Registrations

-------------------------------------------------------------------------------
(* Steps.                                                                  *)

(* A new run begins, or nothing of a run is left.                          *)
Rebegins ==
  /\ rows' = rows
  /\ pc' \in [Block -> {"idle", "precheck", "done"}]
  /\ role' = [b \in Block |-> IF pc'[b] = "done" THEN "skipped" ELSE "none"]
  /\ phase' \notin InFlight => pc' = [b \in Block |-> "idle"]
  /\ pendingFutures' = [k \in Keys |-> 0]
  /\ pendingCache' = [k \in Keys |-> NoText]
  /\ \A o \in Outcome : stats'[o] =
       IF o = "skipped" THEN Cardinality({b \in Block : pc'[b] = "done"}) ELSE 0

(* A step that no task takes, without a reader in the middle of a run.     *)
Stays ==
  /\ UNCHANGED <<pc, role, turn, arrivals, loaded, waitsOn, attempts, future, pendingFutures,
                 pendingCache, stats, run>>
  /\ \/ UNCHANGED rows /\ (phase' = phase \/ (phase = "running" /\ phase' = "aborting"))
     \/ /\ phase' = phase
        /\ phase \notin InFlight
        /\ \E b \in Block : rows' = [rows EXCEPT ![b] = ManualRow(b)]
     \/ /\ phase' = phase
        /\ committing # NoCommit
        /\ rows' = [rows EXCEPT ![committing.block] = committing.row]

(* A step that is no reader's begins or ends a run, leaves it alone, or is *)
(* a task's.                                                               *)
LEMMA RunStepKinds ==
  ASSUME [Next]_vars
  PROVE  \/ Rebegins \/ Stays \/ \E b \in Block : TaskStep(b)
         \/ \E b \in Reader : ManualRetranslate(b)
<1>1. ASSUME NEW rf \in BOOLEAN, StartRun(rf) PROVE Rebegins
  <2>1. \A b \in Block : pc'[b] = "done" <=> KeyOf[b] = NoKey
    BY <1>1 DEF StartRun
  <2>2. {b \in Block : pc'[b] = "done"} = {b \in Block : KeyOf[b] = NoKey}
    BY <2>1
  <2>3. \A o \in Outcome : stats'[o] =
          IF o = "skipped" THEN Cardinality({b \in Block : pc'[b] = "done"}) ELSE 0
    BY <1>1, <2>2 DEF StartRun
  <2>4. /\ pc' \in [Block -> {"idle", "precheck", "done"}]
        /\ role' = [b \in Block |-> IF pc'[b] = "done" THEN "skipped" ELSE "none"]
    BY <1>1, <2>1 DEF StartRun
  <2> QED BY <1>1, <2>3, <2>4 DEF StartRun, Rebegins, durable, InFlight
<1>2. ASSUME Finalize \/ AbortEnds \/ Crash PROVE Rebegins
  <2>1. ForgetRun /\ rows' = rows
    BY <1>2 DEF Finalize, AbortEnds, Crash, durable
  <2>2. {b \in Block : pc'[b] = "done"} = {}
    BY <2>1 DEF ForgetRun
  <2>3. \A o \in Outcome : stats'[o] =
          IF o = "skipped" THEN Cardinality({b \in Block : pc'[b] = "done"}) ELSE 0
    BY <2>1, <2>2, FS_EmptySet DEF ForgetRun
  <2> QED BY <2>1, <2>3 DEF ForgetRun, Rebegins
<1>3. ASSUME \/ Abort \/ CommitEnds \/ UNCHANGED vars
             \/ \E e \in Elsewhere : OtherDocument(e)
      PROVE  Stays
  BY <1>3 DEF Abort, CommitEnds, OtherDocument, Stays, vars, durable, control, tasks, shared
<1> QED BY <1>1, <1>2, <1>3 DEF Next

(* So is every step when no reader retranslates during a run.              *)
LEMMA StepKinds ==
  ASSUME ~Overlap, [Next]_vars
  PROVE  Rebegins \/ Stays \/ \E b \in Block : TaskStep(b)
<1>1. ASSUME NEW b \in Reader, ManualRetranslate(b) PROVE Stays
  BY <1>1, ConstantsAssumption DEF ManualRetranslate, Stays, control, tasks, shared, InFlight
<1> QED BY <1>1, RunStepKinds

(* A task's step is of its own block, but that a cancelled waiter cancels  *)
(* a call that is pending.                                                 *)
LEMMA TaskFrame ==
  ASSUME TypeOK, NEW b \in Block, TaskStep(b)
  PROVE  /\ UNCHANGED <<phase, run>> /\ phase \in InFlight
         /\ \A c \in Block \ {b} : /\ pc'[c] = pc[c] /\ role'[c] = role[c]
                                   /\ waitsOn'[c] = waitsOn[c] /\ loaded'[c] = loaded[c]
                                   /\ rows'[c] = rows[c]
                                   /\ future'[c] = future[c]
                                      \/ (future[c] = "pending" /\ phase = "aborting")
<1> USE DEF TypeOK, Goto, LeaveLine, JoinLine, InFlight
<1>1. CASE Precheck(b)
  BY <1>1 DEF Precheck, PrecheckSkip, PrecheckCached, PrecheckOwn, PrecheckJoin, Prechecking,
              durable, control, shared
<1>2. CASE Call(b) \/ Wake(b)
  BY <1>2 DEF Call, StartCall, CallRetries, CallReturns, CallFails, Wake, durable, control,
              shared
<1>3. CASE Record(b)
  <2>1. rows' = [rows EXCEPT ![b] = rows'[b]]
    BY <1>3 DEF Record, RecordOk, RecordFail, ServeOk, ServeFail, Upsert
  <2> QED BY <1>3, <2>1 DEF Record, RecordOk, RecordFail, ServeOk, ServeFail, Recording, control
<1>4. CASE Cancel(b)
  BY <1>4 DEF Cancel, CancelOwner, Unwind, CancelWaiter, CancelInLine, durable, control, shared
<1> QED BY <1>1, <1>2, <1>3, <1>4 DEF TaskStep

(* What each step does to its own task.                                    *)
Moves(b, label) == pc' = [pc EXCEPT ![b] = label]

(* The kinds of step a task makes, with what each writes.                  *)
LEMMA TaskMoves ==
  ASSUME TypeOK, NEW b \in Block, TaskStep(b)
  PROVE  \/ /\ pc[b] = "precheck" /\ phase = "running" /\ HoldsLock(b)
            /\ UNCHANGED waitsOn
            /\ Moves(b, "done") /\ UNCHANGED <<future, pendingFutures>>
            /\ \/ PrecheckSkip(b) /\ role' = [role EXCEPT ![b] = "skipped"]
               \/ PrecheckCached(b) /\ role' = [role EXCEPT ![b] = "cached"]
         \/ PrecheckOwn(b)
         \/ PrecheckJoin(b)
         \/ /\ phase = "running"
            /\ \/ pc[b] = "slot" /\ Moves(b, "incall")
               \/ pc[b] = "incall" /\ Moves(b, "slot")
            /\ UNCHANGED <<role, waitsOn, future, pendingFutures, pendingCache, rows, loaded,
                           stats>>
         \/ /\ pc[b] = "incall" /\ phase = "running"
            /\ \/ Moves(b, "recordOk") /\ future' = [future EXCEPT ![b] = "ok"]
               \/ Moves(b, "recordFail") /\ future' = [future EXCEPT ![b] = "failed"]
            /\ UNCHANGED <<role, waitsOn, pendingFutures, pendingCache, rows, loaded, stats>>
         \/ /\ pc[b] = "await" /\ phase = "running"
            /\ \/ future[waitsOn[b]] = "ok" /\ Moves(b, "serveOk")
               \/ future[waitsOn[b]] = "failed" /\ Moves(b, "serveFail")
            /\ UNCHANGED <<role, waitsOn, future, pendingFutures, pendingCache, rows, loaded,
                           stats>>
         \/ Record(b)
         \/ /\ phase = "aborting"
            /\ \/ pc[b] \in {"slot", "incall"} /\ Moves(b, "unwind")
               \/ pc[b] \notin {"done", "idle"} /\ Moves(b, "cancelled")
            /\ \/ UNCHANGED future
               \/ /\ pc[b] = "await"
                  /\ future' = [future EXCEPT ![waitsOn[b]] =
                                  IF @ = "pending" THEN "cancelled" ELSE @]
            /\ UNCHANGED <<role, waitsOn, pendingCache, rows, loaded, stats>>
            /\ \/ UNCHANGED pendingFutures
               \/ pendingFutures' = [pendingFutures EXCEPT ![KeyOf[b]] = 0]
<1> USE DEF Goto, Moves
<1>1. CASE Precheck(b)
  BY <1>1 DEF Precheck, PrecheckSkip, PrecheckCached, PrecheckOwn, PrecheckJoin, Prechecking
<1>2. CASE Call(b)
  BY <1>2 DEF Call, StartCall, CallRetries, CallReturns, CallFails, durable, shared
<1>3. CASE Wake(b)
  BY <1>3 DEF Wake, durable, shared
<1>4. CASE Cancel(b)
  BY <1>4 DEF Cancel, CancelOwner, Unwind, CancelWaiter, CancelInLine, Unregister, durable,
              shared
<1> QED BY <1>1, <1>2, <1>3, <1>4 DEF TaskStep

(* What a task that records takes from its call, and how its row changes.  *)
Copies(b) ==
  /\ phase = "running" /\ HoldsLock(b)
  /\ Moves(b, "done")
  /\ UNCHANGED <<role, waitsOn, future, loaded>>
  /\ \/ pc[b] \in {"recordOk", "recordFail"} /\ Unregister(b)
     \/ pc[b] \in {"serveOk", "serveFail"} /\ UNCHANGED pendingFutures
  /\ \/ /\ pc[b] = "recordOk" /\ Count("translated")
        /\ Upsert(b, "translated", FreshText(b))
        /\ pendingCache' = [pendingCache EXCEPT ![KeyOf[b]] = FreshText(b)]
     \/ /\ pc[b] = "serveOk" /\ Count("cached")
        /\ Upsert(b, "translated", FreshText(waitsOn[b]))
        /\ UNCHANGED pendingCache
     \/ /\ pc[b] \in {"recordFail", "serveFail"} /\ Count("failed")
        /\ Upsert(b, "failed", NoText)
        /\ UNCHANGED pendingCache

(* A recording writes the answer of its call into row, future and counts.  *)
LEMMA RecordCopies ==
  ASSUME NEW b \in Block, Record(b)
  PROVE  Copies(b)
<1>1. CASE RecordOk(b)
  BY <1>1 DEF RecordOk, Recording, Copies, Moves, Goto
<1>2. CASE RecordFail(b)
  BY <1>2 DEF RecordFail, Recording, Copies, Moves, Goto
<1>3. CASE ServeOk(b)
  BY <1>3 DEF ServeOk, Recording, Copies, Moves, Goto
<1>4. CASE ServeFail(b)
  BY <1>4 DEF ServeFail, Recording, Copies, Moves, Goto
<1> QED BY <1>1, <1>2, <1>3, <1>4 DEF Record

-------------------------------------------------------------------------------
(* Tasks, futures and registrations fit together.                          *)

(* They do before any task is there.                                       *)
LEMMA InitTasks == Init => Tasks
BY DEF Init, Tasks, IdleOutside, Flights, RoleFits, PairFits, FutureFits, Registrations,
       RegistrationFits

(* Every step keeps the role, the future and the registration of each task *)
(* in step with where the task is.                                         *)
LEMMA TasksStep ==
  ASSUME WellFormed, Tasks, [Next]_vars
  PROVE  Tasks'
<1> USE DEF WellFormed, TypeOK
<1>1. CASE Rebegins
  <2>1. \A b \in Block : pc'[b] \in {"idle", "precheck", "done"}
                         /\ role'[b] = IF pc'[b] = "done" THEN "skipped" ELSE "none"
    BY <1>1 DEF Rebegins
  <2>2. Flights'
    BY <2>1 DEF Flights, RoleFits, PairFits, FutureFits
  <2> QED BY <1>1, <2>1, <2>2 DEF Rebegins, Tasks, IdleOutside, Registrations,
                                  RegistrationFits
<1>2. CASE Stays
  BY <1>2 DEF Stays, Tasks, IdleOutside, Flights, RoleFits, PairFits, FutureFits,
              Registrations, RegistrationFits, InFlight
<1>3. ASSUME NEW b \in Block, TaskStep(b) PROVE Tasks'
  <2>f. /\ UNCHANGED <<phase, run>> /\ phase \in InFlight
        /\ \A c \in Block \ {b} : /\ pc'[c] = pc[c] /\ role'[c] = role[c]
                                  /\ waitsOn'[c] = waitsOn[c]
                                  /\ future'[c] = future[c]
                                     \/ (future[c] = "pending" /\ phase = "aborting")
    BY <1>3, TaskFrame
  <2>i. IdleOutside'
    BY <2>f DEF IdleOutside
  <2>r. \A c \in Block : RoleFits(c) /\ PairFits(c) /\ FutureFits(c)
    BY DEF Tasks, Flights
  (* It is enough to look at the task that moves, if its role as an owner  *)
  (* and the conclusion of a call, once there, are kept.                   *)
  <2>q. ASSUME RoleFits(b)', PairFits(b)', FutureFits(b)', Registrations',
               role[b] = "owner" => role'[b] = "owner",
               role[b] = "owner" /\ future[b] \in {"ok", "failed"} => future'[b] = future[b]
        PROVE  Tasks'
    <3>1. ASSUME NEW c \in Block \ {b} PROVE RoleFits(c)' /\ PairFits(c)' /\ FutureFits(c)'
      <4>1. RoleFits(c)'
        BY <2>f, <2>r DEF RoleFits
      <4>2. PairFits(c)'
        BY <2>f, <2>r, <2>q DEF PairFits
      <4>3. role[c] = "waiter" /\ future[waitsOn[c]] \in {"ok", "failed"}
              => future'[waitsOn[c]] = future[waitsOn[c]]
        BY <2>f, <2>r, <2>q DEF PairFits
      <4>4. role[c] = "owner" /\ future[c] \in {"ok", "failed"} => future'[c] = future[c]
        BY <2>f
      <4>5. FutureFits(c)'
        BY <2>f, <2>r, <4>3, <4>4 DEF FutureFits
      <4> QED BY <4>1, <4>2, <4>5
    <3> QED BY <2>i, <2>q, <3>1 DEF Tasks, Flights
  <2>o. ASSUME UNCHANGED <<role, waitsOn>>, UNCHANGED pendingFutures \/ Unregister(b)
        PROVE  PairFits(b)' /\ Registrations'
    BY <2>o, <2>r DEF PairFits, Tasks, Registrations, RegistrationFits, Unregister
  <2>1. CASE /\ pc[b] = "precheck" /\ Moves(b, "done")
             /\ UNCHANGED <<waitsOn, future, pendingFutures>>
             /\ \/ role' = [role EXCEPT ![b] = "skipped"]
                \/ role' = [role EXCEPT ![b] = "cached"]
    <3>1. KeyOf[b] \in Keys /\ role[b] = "none"
      BY <2>1, <2>r DEF CandidatesKeyed, RoleFits
    <3>2. RoleFits(b)' /\ PairFits(b)' /\ FutureFits(b)'
      BY <2>1, <3>1 DEF Moves, RoleFits, PairFits, FutureFits
    <3>3. Registrations'
      BY <2>1, <3>1 DEF Tasks, Registrations, RegistrationFits
    <3> QED BY <2>q, <3>1, <3>2, <3>3
  <2>2. CASE PrecheckOwn(b)
    <3>1. KeyOf[b] \in Keys /\ role[b] = "none"
      BY <2>2, <2>r DEF PrecheckOwn, Prechecking, CandidatesKeyed, RoleFits
    <3>2. RoleFits(b)' /\ PairFits(b)' /\ FutureFits(b)'
      BY <2>2, <3>1 DEF PrecheckOwn, Goto, RoleFits, PairFits, FutureFits
    <3>3. Registrations'
      BY <2>2, <3>1 DEF PrecheckOwn, Tasks, Registrations, RegistrationFits
    <3> QED BY <2>q, <3>1, <3>2, <3>3
  <2>3. CASE PrecheckJoin(b)
    <3>1. KeyOf[b] \in Keys /\ role[b] = "none" /\ pc[b] = "precheck"
      BY <2>3, <2>r DEF PrecheckJoin, Prechecking, CandidatesKeyed, RoleFits
    <3>2. /\ pendingFutures[KeyOf[b]] \in Block
          /\ role[pendingFutures[KeyOf[b]]] = "owner"
          /\ KeyOf[pendingFutures[KeyOf[b]]] = KeyOf[b]
      BY <2>3, <3>1 DEF PrecheckJoin, Tasks, Registrations, RegistrationFits
    <3>3. RoleFits(b)' /\ PairFits(b)' /\ FutureFits(b)'
      BY <2>3, <3>1, <3>2 DEF PrecheckJoin, Goto, RoleFits, PairFits, FutureFits
    <3>4. Registrations'
      BY <2>3, <3>1 DEF PrecheckJoin, shared, Tasks, Registrations, RegistrationFits
    <3> QED BY <2>q, <3>1, <3>3, <3>4
  <2>4. CASE /\ phase = "running"
             /\ \/ pc[b] = "slot" /\ Moves(b, "incall")
                \/ pc[b] = "incall" /\ Moves(b, "slot")
             /\ UNCHANGED <<role, waitsOn, future, pendingFutures>>
    <3>1. RoleFits(b)' /\ FutureFits(b)'
      BY <2>4, <2>r, <2>f DEF Moves, RoleFits, FutureFits
    <3> QED BY <2>4, <2>o, <2>q, <3>1
  <2>5. CASE /\ pc[b] = "incall" /\ phase = "running"
             /\ \/ Moves(b, "recordOk") /\ future' = [future EXCEPT ![b] = "ok"]
                \/ Moves(b, "recordFail") /\ future' = [future EXCEPT ![b] = "failed"]
             /\ UNCHANGED <<role, waitsOn, pendingFutures>>
    <3>1. role[b] = "owner" /\ future[b] = "pending"
      BY <2>5, <2>r DEF RoleFits, FutureFits
    <3>2. RoleFits(b)' /\ FutureFits(b)'
      BY <2>5, <2>r, <3>1 DEF Moves, RoleFits, FutureFits
    <3> QED BY <2>5, <2>o, <2>q, <3>1, <3>2
  <2>6. CASE /\ pc[b] = "await"
             /\ \/ future[waitsOn[b]] = "ok" /\ Moves(b, "serveOk")
                \/ future[waitsOn[b]] = "failed" /\ Moves(b, "serveFail")
             /\ UNCHANGED <<role, waitsOn, future, pendingFutures>>
    <3>1. RoleFits(b)' /\ FutureFits(b)'
      BY <2>6, <2>r DEF Moves, RoleFits, FutureFits
    <3> QED BY <2>6, <2>o, <2>q, <3>1
  <2>7. CASE Record(b)
    <3>1. Copies(b)
      BY <2>7, RecordCopies
    <3>2. RoleFits(b)' /\ FutureFits(b)'
      BY <3>1, <2>r DEF Copies, Moves, RoleFits, FutureFits
    <3> QED BY <3>1, <2>o, <2>q, <3>2 DEF Copies
  <2>8. CASE /\ phase = "aborting"
             /\ \/ pc[b] \in {"slot", "incall"} /\ Moves(b, "unwind")
                \/ pc[b] \notin {"done", "idle"} /\ Moves(b, "cancelled")
             /\ \/ UNCHANGED future
                \/ /\ pc[b] = "await"
                   /\ future' = [future EXCEPT ![waitsOn[b]] =
                                   IF @ = "pending" THEN "cancelled" ELSE @]
             /\ UNCHANGED <<role, waitsOn>>
             /\ UNCHANGED pendingFutures \/ Unregister(b)
    <3>1. RoleFits(b)' /\ FutureFits(b)'
      BY <2>8, <2>r DEF Moves, RoleFits, FutureFits
    <3>2. future[b] \in {"ok", "failed"} => future'[b] = future[b]
      BY <2>8
    <3> QED BY <2>8, <2>o, <2>q, <3>1, <3>2
  <2> QED BY <1>3, TaskMoves, <2>1, <2>2, <2>3, <2>4, <2>5, <2>6, <2>7, <2>8 DEF Unregister
<1>4. ASSUME NEW b \in Reader, ManualRetranslate(b) PROVE Tasks'
  BY <1>4 DEF ManualRetranslate, control, tasks, shared, Tasks, IdleOutside, Flights, RoleFits,
              PairFits, FutureFits, Registrations, RegistrationFits
<1> QED BY <1>1, <1>2, <1>3, <1>4, RunStepKinds

-------------------------------------------------------------------------------
(* What the rows say.                                                      *)

(* The call a task's answer comes from.                                    *)
CallOf(b) == IF role[b] = "owner" THEN b ELSE waitsOn[b]

(* A task at work finds its row as it loaded it, and open; once it is done *)
(* the row says what the call's future says.                               *)
RowFresh(b) ==
  phase = "running" /\ pc[b] \in Working =>
    loaded[b] = rows[b] /\ rows[b].status # "translated"

RowAnswers(b) ==
  pc[b] = "done" /\ role[b] \in {"owner", "waiter"} =>
    IF future[CallOf(b)] = "ok"
      THEN rows[b].status = "translated" /\ rows[b].text = FreshText(CallOf(b))
      ELSE rows[b].status = "failed" /\ rows[b].text = NoText

RowsTell == \A b \in Block : RowFresh(b) /\ RowAnswers(b)

(* Texts the lookup may find are texts, also once a commit has landed.     *)
HasText(row) == row.status = "translated" /\ row.key \in Keys => row.text # NoText

LookupFindsText == (\A b \in Block : HasText(rows[b])) /\ HasText(committing.row)

(* What a task records of its call's outcome.                              *)
Recorded(b) ==
  [status |-> IF future[CallOf(b)] = "ok" THEN "translated" ELSE "failed",
   text   |-> IF future[CallOf(b)] = "ok" THEN FreshText(CallOf(b)) ELSE NoText,
   key    |-> KeyOf[b]]

(* A row that is open and as it was loaded is recorded whole.              *)
LEMMA RecordedWhole ==
  ASSUME LocalInv, NEW b \in Block, RowFresh(b), phase = "running", pc[b] \in Working,
         NEW status, NEW text,
         \/ status = "translated" /\ text # NoText
         \/ status = "failed" /\ text = NoText
  PROVE  RecordedRow(b, status, text) = [status |-> status, text |-> text, key |-> KeyOf[b]]
<1>1. /\ loaded[b] = rows[b]
      /\ rows[b].status \in {"absent", "failed"}
      /\ FailedPlain(rows[b], b)
  BY DEF LocalInv, FailedRowsPlain, WellFormed, TypeOK, RowFresh, Row
<1>2. CASE rows[b].status = "absent"
  BY <1>1, <1>2 DEF RecordedRow
<1>3. CASE rows[b].status = "failed"
  <2>1. RecordedRow(b, status, text)
          = [status |-> Flush("failed", status, "failed"), text |-> Flush(NoText, text, NoText),
             key |-> Flush(KeyOf[b], KeyOf[b], KeyOf[b])]
    BY <1>1, <1>3 DEF RecordedRow, FailedPlain
  <2> QED BY <1>1, <2>1 DEF Flush
<1> QED BY <1>1, <1>2, <1>3

(* So an upsert writes it whole.                                           *)
LEMMA UpsertWhole ==
  ASSUME LocalInv, NEW b \in Block, RowFresh(b), phase = "running", pc[b] \in Working,
         NEW status, NEW text, Upsert(b, status, text),
         \/ status = "translated" /\ text # NoText
         \/ status = "failed" /\ text = NoText
  PROVE  rows' = [rows EXCEPT ![b] = [status |-> status, text |-> text, key |-> KeyOf[b]]]
BY RecordedWhole DEF Upsert

(* A record step, in full.                                                 *)
LEMMA RecordWrites ==
  ASSUME LocalInv, Tasks, NEW b \in Block, RowFresh(b), Copies(b)
  PROVE  /\ rows' = [rows EXCEPT ![b] = Recorded(b)]
         /\ role[b] \in {"owner", "waiter"} /\ CallOf(b) \in Block
         /\ future[CallOf(b)] \in {"ok", "failed"}
         /\ pc[b] = "recordOk" => CallOf(b) = b /\ future[b] = "ok" /\ role[b] = "owner"
         /\ pc[b] = "serveOk" => future[CallOf(b)] = "ok" /\ role[b] = "waiter"
         /\ pc[b] \in {"recordFail", "serveFail"} => future[CallOf(b)] = "failed"
<1>1. RoleFits(b) /\ PairFits(b) /\ FutureFits(b)
  BY DEF Tasks, Flights
<1>2. pc[b] \in Working /\ phase = "running"
  BY DEF Copies, Working
<1>t. NoText # FreshText(b) /\ NoText # FreshText(waitsOn[b])
  BY DEF NoText, FreshText
<1>3. CASE pc[b] = "recordOk"
  <2>1. role[b] = "owner" /\ future[b] = "ok" /\ Upsert(b, "translated", FreshText(b))
    BY <1>1, <1>3 DEF RoleFits, FutureFits, Copies
  <2>2. rows' = [rows EXCEPT ![b] = [status |-> "translated", text |-> FreshText(b),
                                     key |-> KeyOf[b]]]
    BY <1>2, <1>t, <2>1, UpsertWhole
  <2> QED BY <1>3, <2>1, <2>2 DEF CallOf, Recorded
<1>4. CASE pc[b] = "serveOk"
  <2>1. /\ role[b] = "waiter" /\ waitsOn[b] \in Block /\ future[waitsOn[b]] = "ok"
        /\ Upsert(b, "translated", FreshText(waitsOn[b]))
    BY <1>1, <1>4 DEF RoleFits, FutureFits, PairFits, Copies
  <2>2. rows' = [rows EXCEPT ![b] = [status |-> "translated", text |-> FreshText(waitsOn[b]),
                                     key |-> KeyOf[b]]]
    BY <1>2, <1>t, <2>1, UpsertWhole
  <2> QED BY <1>4, <2>1, <2>2 DEF CallOf, Recorded
<1>5. CASE pc[b] \in {"recordFail", "serveFail"}
  <2>1. /\ role[b] \in {"owner", "waiter"} /\ CallOf(b) \in Block
        /\ future[CallOf(b)] = "failed" /\ Upsert(b, "failed", NoText)
    BY <1>1, <1>5 DEF RoleFits, FutureFits, PairFits, Copies, CallOf
  <2>2. rows' = [rows EXCEPT ![b] = [status |-> "failed", text |-> NoText,
                                     key |-> KeyOf[b]]]
    BY <1>2, <2>1, UpsertWhole
  <2> QED BY <1>5, <2>1, <2>2 DEF Recorded
<1> QED BY <1>3, <1>4, <1>5 DEF Copies

(* What a lookup finds is a text.                                          *)
LEMMA KnownAreTexts ==
  ASSUME LookupFindsText, NEW k \in Keys
  PROVE  NoText \notin KnownTexts(k)
<1>1. \A e : CopiedText(e) # NoText
  BY DEF CopiedText, NoText
<1> QED BY <1>1 DEF LookupFindsText, HasText, KnownTexts, DbTexts

(* So an abort finds the commit of a row with a text, or of a failure.     *)
LEMMA CommitHasText ==
  ASSUME LocalInv, Tasks, RowsTell, LookupFindsText, Abort
  PROVE  HasText(committing'.row)
<1>1. CASE committing' = NoCommit
  BY <1>1 DEF NoCommit, AbsentRow, HasText
<1>2. CASE committing' # NoCommit
  <2>0. PICK b \in Block : \E row : committing' = [block |-> b, row |-> row] /\ Commits(b, row)
    BY <1>2, CommitKinds
  <2>1. PICK row : committing' = [block |-> b, row |-> row] /\ Commits(b, row)
    BY <2>0
  <2>2. CASE pc[b] = "precheck"
    <3>1. KeyOf[b] \in Keys
      BY <2>2 DEF LocalInv, WellFormed, CandidatesKeyed
    <3>2. PICK text \in KnownTexts(KeyOf[b]) : row = CachedRow(b, text)
      BY <2>1, <2>2 DEF Commits
    <3>3. text # NoText
      BY <3>1, <3>2, KnownAreTexts
    <3> QED BY <2>1, <3>2, <3>3 DEF CachedRow, HasText
  <2>3. CASE pc[b] # "precheck"
    <3>1. pc[b] \in Working /\ phase = "running" /\ RowFresh(b)
      BY <2>1, <2>3 DEF Commits, Working, Abort, RowsTell
    <3>2. NoText # FreshText(b) /\ NoText # FreshText(waitsOn[b])
      BY DEF NoText, FreshText
    <3>3. \/ row = [status |-> "translated", text |-> FreshText(b), key |-> KeyOf[b]]
          \/ row = [status |-> "translated", text |-> FreshText(waitsOn[b]), key |-> KeyOf[b]]
          \/ row = [status |-> "failed", text |-> NoText, key |-> KeyOf[b]]
      BY <2>1, <2>3, <3>1, <3>2, RecordedWhole DEF Commits
    <3> QED BY <2>1, <3>2, <3>3 DEF HasText
  <2> QED BY <2>2, <2>3
<1> QED BY <1>1, <1>2

(* No other step begins one.                                               *)
LEMMA CommitTextStep ==
  ASSUME LocalInv, Tasks, RowsTell, LookupFindsText, [Next]_vars
  PROVE  HasText(committing'.row)
<1>1. CASE committing' \in {committing, NoCommit}
  BY <1>1 DEF LookupFindsText, HasText, NoCommit, AbsentRow
<1>2. ASSUME NEW b \in Block, TaskStep(b) PROVE committing' = committing
  BY <1>2, TasksLeaveCommit
<1>3. CASE Abort
  BY <1>3, CommitHasText
<1> QED BY <1>1, <1>2, <1>3
        DEF Next, StartRun, Finalize, CommitEnds, AbortEnds, Crash, ManualRetranslate,
            OtherDocument, vars, control

(* The rows go on telling what was recorded, and the lookup finds texts    *)
(* only.                                                                   *)
LEMMA RowsStep ==
  ASSUME ~Overlap, LocalInv, CommitPlaced, Tasks, RowsTell, LookupFindsText, [Next]_vars
  PROVE  RowsTell' /\ LookupFindsText'
<1> USE DEF LocalInv, WellFormed, TypeOK
<1>l. ASSUME \A b \in Block : HasText(rows'[b]) PROVE LookupFindsText'
  BY <1>l, CommitTextStep DEF LookupFindsText, HasText
<1>u. ASSUME UNCHANGED rows PROVE LookupFindsText'
  BY <1>l, <1>u DEF LookupFindsText, HasText
<1>1. CASE Rebegins
  <2>1. \A b \in Block : pc'[b] \notin Working /\ role'[b] \notin {"owner", "waiter"}
    BY <1>1 DEF Rebegins, Working
  <2> QED BY <1>1, <1>u, <2>1 DEF Rebegins, RowsTell, RowFresh, RowAnswers
<1>2. CASE Stays
  <2>1. CASE UNCHANGED <<rows, run>>
    BY <1>2, <1>u, <2>1 DEF Stays, RowsTell, RowFresh, RowAnswers, CallOf, FreshText
  <2>2. CASE /\ phase' = phase /\ phase \notin InFlight
             /\ \E b \in Block : rows' = [rows EXCEPT ![b] = ManualRow(b)]
    <3>1. \A b \in Block : pc'[b] = "idle"
      BY <1>2, <2>2 DEF Stays, Tasks, IdleOutside
    <3>2. RowsTell'
      BY <3>1 DEF RowsTell, RowFresh, RowAnswers, Working
    <3>3. LookupFindsText'
      BY <1>l, <2>2, ConstantsAssumption DEF LookupFindsText, HasText, ManualRow
    <3> QED BY <3>2, <3>3
  (* The commit is of a task that is not done, in an aborted run.          *)
  <2>3. CASE /\ phase' = phase /\ committing # NoCommit
             /\ rows' = [rows EXCEPT ![committing.block] = committing.row]
    <3>1. phase' = "aborting" /\ pc[committing.block] # "done"
      BY <2>3 DEF CommitPlaced
    <3>2. ASSUME NEW c \in Block PROVE RowAnswers(c)'
      BY <1>2, <2>3, <3>1 DEF Stays, RowsTell, RowAnswers, CallOf, FreshText
    <3>3. RowsTell'
      BY <3>1, <3>2 DEF RowsTell, RowFresh
    <3>4. LookupFindsText'
      BY <1>l, <2>3 DEF LookupFindsText, HasText
    <3> QED BY <3>3, <3>4
  <2> QED BY <1>2, <2>1, <2>2, <2>3 DEF Stays
<1>3. ASSUME NEW b \in Block, TaskStep(b) PROVE RowsTell' /\ LookupFindsText'
  <2>f. /\ UNCHANGED <<phase, run>>
        /\ \A c \in Block \ {b} : /\ pc'[c] = pc[c] /\ role'[c] = role[c]
                                  /\ waitsOn'[c] = waitsOn[c] /\ loaded'[c] = loaded[c]
                                  /\ rows'[c] = rows[c]
                                  /\ future'[c] = future[c]
                                     \/ (future[c] = "pending" /\ phase = "aborting")
    BY <1>3, TaskFrame
  <2>r. \A c \in Block : RoleFits(c) /\ PairFits(c) /\ FutureFits(c)
    BY DEF Tasks, Flights
  <2>q. ASSUME RowFresh(b)', RowAnswers(b)',
               role[b] = "owner" /\ future[b] \in {"ok", "failed"} => future'[b] = future[b]
        PROVE  RowsTell'
    <3>1. ASSUME NEW c \in Block \ {b} PROVE RowFresh(c)' /\ RowAnswers(c)'
      <4>1. RowFresh(c)'
        BY <2>f DEF RowsTell, RowFresh
      <4>2. CASE pc[c] = "done" /\ role[c] \in {"owner", "waiter"}
        <5>1. /\ CallOf(c) \in Block /\ role[CallOf(c)] = "owner"
              /\ future[CallOf(c)] \in {"ok", "failed"}
              /\ CallOf(c)' = CallOf(c)
          BY <2>f, <2>r, <4>2 DEF CallOf, PairFits, FutureFits
        <5>2. future'[CallOf(c)] = future[CallOf(c)]
          BY <2>f, <2>q, <5>1
        <5>3. RowAnswers(c)
          BY DEF RowsTell
        <5>4. RowAnswers(c)'
          BY <2>f, <4>2, <5>1, <5>2, <5>3 DEF RowAnswers, FreshText
        <5> QED BY <4>1, <5>4
      <4>3. CASE ~(pc[c] = "done" /\ role[c] \in {"owner", "waiter"})
        BY <2>f, <4>1, <4>3 DEF RowAnswers
      <4> QED BY <4>1, <4>2, <4>3
    <3> QED BY <2>q, <3>1 DEF RowsTell
  <2>s. RowFresh(b) /\ RowAnswers(b)
    BY DEF RowsTell
  <2>1. CASE PrecheckSkip(b)
    <3>1. /\ pc' = [pc EXCEPT ![b] = "done"] /\ role' = [role EXCEPT ![b] = "skipped"]
          /\ UNCHANGED <<rows, future>>
      BY <2>1 DEF PrecheckSkip, Goto, durable
    <3>2. RowFresh(b)' /\ RowAnswers(b)'
      BY <3>1 DEF RowFresh, RowAnswers, Working
    <3> QED BY <2>q, <1>u, <3>1, <3>2
  <2>2. CASE PrecheckCached(b)
    <3>0. KeyOf[b] \in Keys
      BY <2>2 DEF PrecheckCached, Prechecking, CandidatesKeyed
    <3>1. /\ pc' = [pc EXCEPT ![b] = "done"] /\ role' = [role EXCEPT ![b] = "cached"]
          /\ UNCHANGED future
      BY <2>2 DEF PrecheckCached, Goto
    <3>2. RowFresh(b)' /\ RowAnswers(b)'
      BY <3>1 DEF RowFresh, RowAnswers, Working
    <3>3. PICK text \in KnownTexts(KeyOf[b]) :
            rows' = [rows EXCEPT ![b] = CachedRow(b, text)]
      BY <2>2 DEF PrecheckCached
    <3>4. text # NoText
      BY <3>0, KnownAreTexts
    <3>5. LookupFindsText'
      BY <1>l, <3>3, <3>4 DEF LookupFindsText, HasText, CachedRow
    <3> QED BY <2>q, <3>1, <3>2, <3>5
  <2>3. CASE PrecheckOwn(b) \/ PrecheckJoin(b)
    <3>1. /\ pc' = [pc EXCEPT ![b] = "slot"] \/ pc' = [pc EXCEPT ![b] = "await"]
          /\ loaded' = [loaded EXCEPT ![b] = rows[b]]
          /\ UNCHANGED rows /\ rows[b].status # "translated"
          /\ role[b] = "none"
      BY <2>3, <2>r DEF PrecheckOwn, PrecheckJoin, Prechecking, RoleFits, Goto, durable,
                        AlreadySettled
    <3>2. RowFresh(b)' /\ RowAnswers(b)'
      BY <3>1 DEF RowFresh, RowAnswers
    <3> QED BY <2>q, <1>u, <3>1, <3>2
  <2>4. CASE /\ UNCHANGED <<role, waitsOn, rows, loaded>>
             /\ \/ pc[b] = "slot" /\ Moves(b, "incall")
                \/ pc[b] = "incall" /\ Moves(b, "slot")
                \/ pc[b] = "incall" /\ Moves(b, "recordOk")
                \/ pc[b] = "incall" /\ Moves(b, "recordFail")
                \/ pc[b] = "await" /\ Moves(b, "serveOk")
                \/ pc[b] = "await" /\ Moves(b, "serveFail")
                \/ pc[b] \in {"slot", "incall"} /\ Moves(b, "unwind")
                \/ pc[b] \notin {"done", "idle"} /\ Moves(b, "cancelled")
             /\ future[b] \in {"ok", "failed"} /\ role[b] = "owner" => future'[b] = future[b]
    <3>1. RowFresh(b)' /\ RowAnswers(b)'
      <4>1. RowFresh(b)'
        BY <2>f, <2>4, <2>s DEF Moves, RowFresh, Working
      <4>2. RowAnswers(b)'
        BY <2>4, <2>s DEF Moves, RowAnswers
      <4> QED BY <4>1, <4>2
    <3> QED BY <2>4, <2>q, <1>u, <3>1
  <2>5. CASE Record(b)
    <3>1. Copies(b)
      BY <2>5, RecordCopies
    <3>2. /\ rows' = [rows EXCEPT ![b] = Recorded(b)]
          /\ future[CallOf(b)] \in {"ok", "failed"}
      BY <2>s, <3>1, RecordWrites
    <3>3. /\ pc' = [pc EXCEPT ![b] = "done"] /\ UNCHANGED <<role, waitsOn, future>>
      BY <3>1 DEF Copies, Moves
    <3>4. CallOf(b)' = CallOf(b) /\ rows'[b] = Recorded(b)
      BY <3>2, <3>3 DEF CallOf
    <3>5. RowFresh(b)' /\ RowAnswers(b)'
      BY <2>f, <3>2, <3>3, <3>4 DEF RowFresh, RowAnswers, Recorded, Working, FreshText
    <3>6. FreshText(CallOf(b)) # NoText
      BY DEF FreshText, NoText
    <3>7. LookupFindsText'
      BY <1>l, <3>2, <3>6 DEF LookupFindsText, HasText, Recorded
    <3> QED BY <2>q, <3>3, <3>5, <3>7
  <2>6. role[b] = "owner" /\ pc[b] = "incall" /\ phase = "running" => future[b] = "pending"
    BY <2>r DEF FutureFits
  <2> QED BY <1>3, TaskMoves, <2>1, <2>2, <2>3, <2>4, <2>5, <2>6
<1> QED BY <1>1, <1>2, <1>3, StepKinds

-------------------------------------------------------------------------------
(* A key is either served from what is known or called for: while a first  *)
(* look is pending nothing is recorded, so all that can be known of a key  *)
(* that has an owner is what another document's run has committed since.   *)

AnyCopied == {CopiedText(e) : e \in Elsewhere}

(* The blocks of a key that are served hold one text, and one from another *)
(* document if the key was called for as well.                             *)
ServedFits(b) ==
  role[b] = "cached" =>
    /\ rows[b].status = "translated"
    /\ rows[b].text # NoText
    /\ ~Prechecked => rows[b].text = pendingCache[KeyOf[b]]
    /\ \A c \in Block : role[c] = "cached" /\ KeyOf[c] = KeyOf[b] => rows[c].text = rows[b].text
    /\ \A c \in Block : role[c] = "owner" /\ KeyOf[c] = KeyOf[b] => rows[b].text \in AnyCopied

OwnedUnknown ==
  phase = "running" /\ ~Prechecked =>
    \A c \in Block : role[c] = "owner" => KnownTexts(KeyOf[c]) \subseteq AnyCopied

Served == OwnedUnknown /\ \A b \in Block : ServedFits(b)

(* What is known of a key comes from other documents, if it did before and *)
(* the step adds nothing of its own.                                       *)
LEMMA KnownFrom ==
  ASSUME elsewhere' \subseteq Elsewhere, NEW k \in Keys, KnownTexts(k) \subseteq AnyCopied,
         pendingCache'[k] = pendingCache[k] \/ pendingCache'[k] \in AnyCopied,
         \A c \in Block : rows'[c].status = "translated" /\ rows'[c].key = k =>
           rows'[c] = rows[c] \/ rows'[c].text \in AnyCopied
  PROVE  KnownTexts(k)' \subseteq AnyCopied
<1>1. NoText \notin AnyCopied
  BY DEF AnyCopied, CopiedText, NoText
<1>2. CASE pendingCache'[k] # NoText
  BY <1>2 DEF KnownTexts
<1>3. CASE pendingCache'[k] = NoText
  <2>1. KnownTexts(k) = DbTexts(k) /\ KnownTexts(k)' = DbTexts(k)'
    BY <1>1, <1>3 DEF KnownTexts
  <2>2. \A e \in elsewhere' : CopiedText(e) \in AnyCopied
    BY DEF AnyCopied
  <2>3. ASSUME NEW c \in Block, rows'[c].status = "translated", rows'[c].key = k
        PROVE  rows'[c].text \in AnyCopied
    <3>1. CASE rows'[c] = rows[c]
      <4>1. rows'[c].text \in DbTexts(k)
        BY <2>3, <3>1 DEF DbTexts
      <4> QED BY <2>1, <4>1
    <3> QED BY <2>3, <3>1
  <2>4. DbTexts(k)' = {rows'[c].text : c \in {d \in Block : rows'[d].status = "translated"
                                                             /\ rows'[d].key = k}}
                        \cup {CopiedText(e) : e \in {x \in elsewhere' : x[1] = k}}
    BY DEF DbTexts, CopiedText
  <2> QED BY <2>1, <2>2, <2>3, <2>4
<1> QED BY <1>2, <1>3

(* What is served for a key goes on agreeing.                              *)
LEMMA ServedStep ==
  ASSUME ~Overlap, LocalInv, CommitPlaced, LineOrdered, Tasks, RowsTell, LookupFindsText,
         Served, [Next]_vars
  PROVE  Served'
<1> USE DEF LocalInv, WellFormed, TypeOK
<1>e. elsewhere' \subseteq Elsewhere
  BY WellFormedStep
<1>r. \A c \in Block : RoleFits(c) /\ ServedFits(c)
  BY DEF Tasks, Flights, Served
(* As long as the run looks at blocks, what is known of an owned key stays *)
(* what other documents know.                                              *)
<1>o. ASSUME UNCHANGED <<rows, pendingCache>>,
             \A c \in Block : role'[c] = "owner" => role[c] = "owner",
             phase' = "running" /\ ~Prechecked' => phase = "running" /\ ~Prechecked
      PROVE  OwnedUnknown'
  <2>1. ASSUME phase' = "running", ~Prechecked', NEW c \in Block, role'[c] = "owner"
        PROVE  KnownTexts(KeyOf[c])' \subseteq AnyCopied
    <3>1. role[c] = "owner" /\ KeyOf[c] \in Keys
      BY <1>o, <1>r, <2>1 DEF RoleFits
    <3>2. KnownTexts(KeyOf[c]) \subseteq AnyCopied
      BY <1>o, <2>1, <3>1 DEF Served, OwnedUnknown
    <3> QED BY <1>e, <1>o, <3>1, <3>2, KnownFrom
  <2> QED BY <2>1 DEF OwnedUnknown
(* Nothing that this invariant looks at changes.                           *)
<1>q. ASSUME UNCHANGED <<rows, pendingCache, role>>,
             phase' = "running" => phase = "running", Prechecked => Prechecked'
      PROVE  Served'
  BY <1>o, <1>q, <1>r DEF Served, ServedFits
<1>1. CASE Rebegins
  <2>1. \A b \in Block : role'[b] \notin {"owner", "cached"}
    BY <1>1 DEF Rebegins
  <2> QED BY <2>1 DEF Served, OwnedUnknown, ServedFits
<1>2. CASE Stays
  <2>0. Prechecked' <=> Prechecked
    BY <1>2 DEF Stays, Prechecked
  <2>1. CASE UNCHANGED rows /\ (phase' = phase \/ phase' = "aborting")
    BY <1>2, <1>q, <2>0, <2>1 DEF Stays
  <2>2. CASE phase' = phase /\ phase \notin InFlight
    <3>1. \A b \in Block : role'[b] = "none"
      BY <1>2, <2>2 DEF Stays, Tasks, IdleOutside, Flights, RoleFits
    <3> QED BY <3>1 DEF Served, OwnedUnknown, ServedFits
  <2>3. CASE /\ phase' = phase /\ committing # NoCommit
             /\ rows' = [rows EXCEPT ![committing.block] = committing.row]
    <3>1. phase' = "aborting" /\ pc[committing.block] # "done"
      BY <2>3 DEF CommitPlaced
    <3>2. \A c \in Block : role[c] = "cached" => rows'[c] = rows[c]
      BY <1>r, <2>3, <3>1 DEF RoleFits
    <3>3. ASSUME NEW c \in Block PROVE ServedFits(c)'
      BY <1>2, <1>r, <2>0, <3>2 DEF Stays, ServedFits
    <3> QED BY <3>1, <3>3 DEF Served, OwnedUnknown
  <2> QED BY <1>2, <2>1, <2>2, <2>3 DEF Stays
<1>3. ASSUME NEW b \in Block, TaskStep(b) PROVE Served'
  <2>f. /\ UNCHANGED phase
        /\ \A c \in Block \ {b} : /\ pc'[c] = pc[c] /\ role'[c] = role[c]
                                  /\ rows'[c] = rows[c]
    BY <1>3, TaskFrame
  <2>1. CASE PrecheckSkip(b) \/ PrecheckJoin(b)
    <3>1. /\ UNCHANGED <<rows, pendingCache>> /\ ~Prechecked
          /\ role' = [role EXCEPT ![b] = "skipped"] \/ role' = [role EXCEPT ![b] = "waiter"]
      BY <2>1 DEF PrecheckSkip, PrecheckJoin, durable, shared, Prechecking, Prechecked
    <3>2. OwnedUnknown'
      BY <1>o, <2>f, <3>1
    <3>3. ASSUME NEW c \in Block PROVE ServedFits(c)'
      BY <1>r, <3>1 DEF ServedFits
    <3> QED BY <3>2, <3>3 DEF Served
  <2>3. CASE PrecheckOwn(b)
    <3>1. /\ UNCHANGED <<rows, pendingCache>> /\ role' = [role EXCEPT ![b] = "owner"]
          /\ ~Prechecked /\ KnownTexts(KeyOf[b]) = {} /\ KeyOf[b] \in Keys
          /\ phase = "running"
      BY <2>3 DEF PrecheckOwn, durable, Prechecking, Prechecked, CandidatesKeyed
    <3>2. pendingCache[KeyOf[b]] = NoText
      BY <3>1 DEF KnownTexts
    <3>3. \A c \in Block : role[c] = "cached" => KeyOf[c] # KeyOf[b]
      BY <1>r, <3>1, <3>2 DEF ServedFits
    <3>4. ASSUME NEW c \in Block, role'[c] = "owner"
          PROVE  KnownTexts(KeyOf[c])' \subseteq AnyCopied
      <4>1. KeyOf[c] \in Keys /\ KnownTexts(KeyOf[c]) \subseteq AnyCopied
        BY <1>r, <3>1, <3>4 DEF RoleFits, Served, OwnedUnknown
      <4> QED BY <1>e, <3>1, <4>1, KnownFrom
    <3>5. ASSUME NEW c \in Block PROVE ServedFits(c)'
      BY <1>r, <3>1, <3>3 DEF ServedFits
    <3> QED BY <3>4, <3>5 DEF Served, OwnedUnknown
  <2>4. CASE PrecheckCached(b)
    <3>1. /\ role' = [role EXCEPT ![b] = "cached"]
          /\ ~Prechecked /\ KeyOf[b] \in Keys /\ phase = "running" /\ role[b] = "none"
      BY <1>r, <2>4 DEF PrecheckCached, Prechecking, Prechecked, CandidatesKeyed, RoleFits
    <3>2. PICK text \in KnownTexts(KeyOf[b]) :
            /\ pendingCache' = [pendingCache EXCEPT ![KeyOf[b]] = text]
            /\ rows' = [rows EXCEPT ![b] = CachedRow(b, text)]
      BY <2>4 DEF PrecheckCached
    <3>3. text # NoText
      BY <3>1, KnownAreTexts
    <3>4. ASSUME NEW c \in Block, role[c] = "owner"
          PROVE  KeyOf[c] \in Keys /\ KnownTexts(KeyOf[c]) \subseteq AnyCopied
      BY <1>r, <3>1, <3>4 DEF RoleFits, Served, OwnedUnknown
    <3>5. \A c \in Block : role[c] = "owner" /\ KeyOf[c] = KeyOf[b] => text \in AnyCopied
      BY <3>2, <3>4
    <3>6. ASSUME NEW c \in Block, role'[c] = "owner"
          PROVE  KnownTexts(KeyOf[c])' \subseteq AnyCopied
      <4>1. role[c] = "owner" /\ KeyOf[c] \in Keys /\ KnownTexts(KeyOf[c]) \subseteq AnyCopied
        BY <3>1, <3>4, <3>6
      <4>2. pendingCache'[KeyOf[c]] = pendingCache[KeyOf[c]]
              \/ pendingCache'[KeyOf[c]] \in AnyCopied
        BY <3>1, <3>2, <3>5, <4>1
      <4>3. \A d \in Block : rows'[d].status = "translated" /\ rows'[d].key = KeyOf[c] =>
              rows'[d] = rows[d] \/ rows'[d].text \in AnyCopied
        BY <3>2, <3>5, <4>1 DEF CachedRow
      <4> QED BY <1>e, <4>1, <4>2, <4>3, KnownFrom
    <3>7. \A c \in Block : role[c] = "cached" /\ KeyOf[c] = KeyOf[b] => rows[c].text = text
      BY <1>r, <3>1, <3>2 DEF ServedFits, KnownTexts
    <3>8. ASSUME NEW c \in Block PROVE ServedFits(c)'
      <4>1. CASE c = b
        BY <3>1, <3>2, <3>3, <3>5, <3>7, <4>1 DEF ServedFits, CachedRow
      <4>2. CASE c # b /\ role[c] = "cached" /\ KeyOf[c] = KeyOf[b]
        BY <1>r, <3>1, <3>2, <3>7, <4>2 DEF ServedFits, CachedRow
      <4>3. CASE c # b /\ ~(role[c] = "cached" /\ KeyOf[c] = KeyOf[b])
        BY <1>r, <3>1, <3>2, <4>3 DEF ServedFits, RoleFits
      <4> QED BY <4>1, <4>2, <4>3
    <3> QED BY <3>6, <3>8 DEF Served, OwnedUnknown
  (* Whoever records finds no first look pending.                          *)
  <2>5. CASE Record(b)
    <3>1. Copies(b) /\ HoldsLock(b) /\ pc[b] \notin {"precheck", "done"}
      BY <2>5, RecordCopies DEF Copies
    <3>2. Prechecked /\ Prechecked'
      BY <2>f, <3>1, PastPrecheck DEF Prechecked, Copies, Moves
    <3>3. UNCHANGED role
      BY <3>1 DEF Copies
    <3>4. \A c \in Block : role[c] = "cached" => rows'[c] = rows[c]
      BY <1>r, <2>f, <3>1 DEF RoleFits
    <3>5. ASSUME NEW c \in Block PROVE ServedFits(c)'
      BY <1>r, <3>2, <3>3, <3>4 DEF ServedFits
    <3> QED BY <3>2, <3>5 DEF Served, OwnedUnknown
  <2>6. ASSUME UNCHANGED <<rows, pendingCache, role>>, NEW label, label # "precheck",
               Moves(b, label)
        PROVE  Served'
    BY <1>q, <2>6, <2>f DEF Moves, Prechecked
  <2> QED BY <1>3, TaskMoves, <2>1, <2>3, <2>4, <2>5, <2>6
<1> QED BY <1>1, <1>2, <1>3, StepKinds

(* The invariant of a run that no reader interferes with.                  *)
AnswersInv ==
  /\ SingleCallInv
  /\ LocalInv
  /\ CommitPlaced
  /\ Tasks
  /\ RowsTell
  /\ LookupFindsText
  /\ Served

(* The invariant holds when blocks are not retranslated by hand during a   *)
(* run.                                                                    *)
LEMMA AnswersInvHolds == ~Overlap => (Spec => []AnswersInv)
<1> SUFFICES ASSUME ~Overlap
             PROVE  Spec => []AnswersInv
  OBVIOUS
<1>1. Init => AnswersInv
  <2> SUFFICES ASSUME Init PROVE AnswersInv
    OBVIOUS
  <2>1. \A b \in Block : role[b] = "none" /\ pc[b] = "idle" /\ rows[b].status = "absent"
    BY DEF Init, AbsentRow
  <2>2. Tasks /\ CommitPlaced
    BY InitTasks DEF Init, CommitPlaced
  <2>3. RowsTell /\ LookupFindsText /\ Served
    BY <2>1 DEF Init, NoCommit, AbsentRow, RowsTell, RowFresh, RowAnswers, Working,
                LookupFindsText, HasText, Served, OwnedUnknown, ServedFits
  <2>4. SingleCallInv
    BY InitWellFormed, InitSingleCall DEF SingleCallInv
  <2>5. LocalInv
    BY InitWellFormed, InitLocal DEF LocalInv
  <2> QED BY <2>2, <2>3, <2>4, <2>5 DEF AnswersInv
<1>2. AnswersInv /\ [Next]_vars => AnswersInv'
  BY SingleCallStep, LocalStep, CommitPlacedStep, TasksStep, RowsStep, ServedStep
  DEF AnswersInv, SingleCallInv, WellFormed
<1> QED BY <1>1, <1>2, PTL DEF Spec

(* Blocks with the same text end a run alike, all with the same text or    *)
(* all failed, whether they called, waited or were served; unless another  *)
(* document's run committed a text of theirs after one went to call.       *)
THEOREM SameText == ~Overlap => (Spec => []SameTextSameOutcome)
<1> SUFFICES ASSUME ~Overlap
             PROVE  Spec => []SameTextSameOutcome
  OBVIOUS
<1>1. ASSUME AnswersInv PROVE SameTextSameOutcome
  <2> SUFFICES ASSUME NEW b \in Block, NEW c \in Block, WorkedOn(b), WorkedOn(c),
                      KeyOf[b] = KeyOf[c]
               PROVE  \/ rows[b].status = rows[c].status /\ rows[b].text = rows[c].text
                      \/ ServedByAnother(b) /\ role[c] # "cached"
                      \/ ServedByAnother(c) /\ role[b] # "cached"
    BY DEF SameTextSameOutcome
  <2>1. \A d \in {b, c} : /\ role[d] \in {"cached", "owner", "waiter"}
                          /\ RoleFits(d) /\ PairFits(d) /\ RowAnswers(d) /\ ServedFits(d)
                          /\ pc[d] = "done"
    <3>1. role \in [Block -> {"none", "skipped", "cached", "owner", "waiter"}]
      BY <1>1 DEF AnswersInv, LocalInv, WellFormed, TypeOK
    <3> QED BY <1>1, <3>1 DEF AnswersInv, Tasks, Flights, RowsTell, Served, WorkedOn, RoleFits
  <2>2. CASE role[b] = "cached" /\ role[c] = "cached"
    BY <2>1, <2>2 DEF ServedFits
  <2>3. \A d \in {b, c} : role[d] # "cached" =>
          CallOf(d) \in Block /\ role[CallOf(d)] = "owner" /\ KeyOf[CallOf(d)] = KeyOf[b]
    BY <2>1 DEF CallOf, PairFits
  <2>4. CASE role[b] = "cached" <=> role[c] # "cached"
    BY <2>1, <2>3, <2>4 DEF ServedFits, ServedByAnother, AnyCopied
  <2>5. CASE role[b] # "cached" /\ role[c] # "cached"
    <3>1. CallOf(b) = CallOf(c)
      BY <1>1, <2>3, <2>5 DEF AnswersInv, SingleCallInv, OneCallPerKey
    <3> QED BY <2>1, <2>5, <3>1 DEF RowAnswers
  <2> QED BY <2>2, <2>4, <2>5
<1> QED BY <1>1, AnswersInvHolds, PTL

-------------------------------------------------------------------------------
(* What a run that is cut short leaves.  A commit in the database's thread *)
(* outlives its task's cancellation, but its row was made before that: it  *)
(* is the row there was, or an answer.                                     *)

CommitAnswers ==
  committing # NoCommit =>
    \/ committing.row = rows[committing.block]
    \/ IsAnswer(committing.row, committing.block)

(* The call that an answer comes from is a call for the block's key.       *)
LEMMA CallFound ==
  ASSUME Tasks, NEW b \in Block, role[b] \in {"owner", "waiter"}
  PROVE  CallOf(b) \in CallsOf(b)
BY DEF Tasks, Flights, PairFits, CallOf, CallsOf

(* Whatever a task may commit leaves its row as it is, or is an answer.    *)
LEMMA CommitIsAnswer ==
  ASSUME LocalInv, Tasks, NEW b \in Block, NEW row, Commits(b, row)
  PROVE  row = rows[b] \/ IsAnswer(row, b)
<1> USE DEF LocalInv, WellFormed, TypeOK
<1>1. RoleFits(b) /\ PairFits(b) /\ FutureFits(b)
  BY DEF Tasks, Flights
<1>2. CASE pc[b] = "precheck"
  BY <1>2 DEF Commits, CachedRow, IsAnswer
<1>3. ASSUME pc[b] \in Working
      PROVE  /\ loaded[b].status \in {"absent", "failed"} /\ FailedPlain(loaded[b], b)
             /\ rows[b] = [status |-> rows[b].status, text |-> rows[b].text, key |-> rows[b].key]
             /\ FailedPlain(rows[b], b)
  BY <1>3 DEF FailedRowsPlain, Row
<1>4. ASSUME NEW text, text # NoText, pc[b] \in Working
      PROVE  /\ RecordedRow(b, "translated", text).status = "translated"
             /\ RecordedRow(b, "translated", text).text = text
  BY <1>3, <1>4 DEF RecordedRow, Flush, FailedPlain
<1>5. CASE pc[b] \in {"recordOk", "serveOk"}
  <2>1. /\ role[b] \in {"owner", "waiter"} /\ future[CallOf(b)] = "ok"
        /\ row = RecordedRow(b, "translated", FreshText(CallOf(b)))
    BY <1>1, <1>5 DEF RoleFits, FutureFits, CallOf, Commits
  <2>2. FreshText(CallOf(b)) # NoText /\ pc[b] \in Working
    BY <1>5 DEF FreshText, NoText, Working
  <2>3. row.status = "translated" /\ row.text = FreshText(CallOf(b))
    BY <1>4, <2>1, <2>2
  <2>4. CallOf(b) \in CallsOf(b)
    BY <2>1, CallFound
  <2> QED BY <2>1, <2>3, <2>4 DEF IsAnswer
<1>6. CASE pc[b] \in {"recordFail", "serveFail"}
  <2>1. /\ role[b] \in {"owner", "waiter"} /\ future[CallOf(b)] = "failed"
        /\ row = RecordedRow(b, "failed", NoText)
    BY <1>1, <1>6 DEF RoleFits, FutureFits, CallOf, Commits
  <2>2. CallOf(b) \in CallsOf(b) /\ pc[b] \in Working
    BY <1>6, <2>1, CallFound DEF Working
  <2>3. CASE loaded[b].status = "absent"
    <3>1. row.status = "failed"
      BY <2>1, <2>3 DEF RecordedRow
    <3> QED BY <2>1, <2>2, <3>1 DEF IsAnswer
  <2>4. CASE loaded[b].status = "failed"
    <3>1. row = [status |-> rows[b].status, text |-> rows[b].text, key |-> rows[b].key]
      BY <1>3, <2>1, <2>2, <2>4 DEF RecordedRow, Flush, FailedPlain
    <3> QED BY <1>3, <2>2, <3>1
  <2> QED BY <1>3, <2>2, <2>3, <2>4
<1> QED BY <1>2, <1>5, <1>6 DEF Commits

(* What a task writes is what it may commit.                               *)
LEMMA TaskWritesAnswer ==
  ASSUME LocalInv, Tasks, NEW b \in Block, TaskStep(b)
  PROVE  /\ rows'[b] = rows[b] \/ IsAnswer(rows'[b], b)
         /\ \A c \in Block \ {b} : rows'[c] = rows[c]
<1> USE DEF LocalInv, WellFormed, TypeOK
<1>1. CASE PrecheckCached(b)
  <2>1. PICK text \in KnownTexts(KeyOf[b]) : rows' = [rows EXCEPT ![b] = CachedRow(b, text)]
    BY <1>1 DEF PrecheckCached
  <2>2. Commits(b, CachedRow(b, text))
    BY <1>1, <2>1 DEF Commits, PrecheckCached, Prechecking
  <2> QED BY <2>1, <2>2, CommitIsAnswer
<1>2. CASE Record(b)
  <2>1. Copies(b)
    BY <1>2, RecordCopies
  <2>2. \E row : rows' = [rows EXCEPT ![b] = row] /\ Commits(b, row)
    BY <2>1 DEF Copies, Upsert, Commits
  <2> QED BY <2>2, CommitIsAnswer
<1>3. CASE UNCHANGED rows
  BY <1>3
<1> QED BY <1>1, <1>2, <1>3, TaskMoves DEF PrecheckSkip, PrecheckOwn, PrecheckJoin, durable

(* An answer stays one while an aborted run unwinds.                       *)
LEMMA AnswerStays ==
  ASSUME UNCHANGED <<rows, elsewhere, run, role, pendingCache>>,
         \A o \in Block : future[o] # "pending" => future'[o] = future[o],
         NEW b \in Block, NEW row, IsAnswer(row, b)
  PROVE  IsAnswer(row, b)'
<1>1. CallsOf(b)' = CallsOf(b) /\ CallsOf(b) \subseteq Block
  BY DEF CallsOf
<1>2. KnownTexts(KeyOf[b])' = KnownTexts(KeyOf[b])
  BY DEF KnownTexts, DbTexts, CopiedText
<1>3. \A o \in Block : FreshText(o)' = FreshText(o)
  BY DEF FreshText
<1>4. \A o \in CallsOf(b) : /\ future[o] = "ok" => future'[o] = "ok"
                            /\ future[o] = "failed" => future'[o] = "failed"
  BY <1>1
<1>5. CASE row.status = "failed" /\ \E o \in CallsOf(b) : future[o] = "failed"
  BY <1>1, <1>4, <1>5 DEF IsAnswer
<1>6. CASE row.status = "translated" /\ row.text \in KnownTexts(KeyOf[b])
  BY <1>2, <1>6 DEF IsAnswer
<1>7. CASE /\ row.status = "translated"
           /\ \E o \in CallsOf(b) : future[o] = "ok" /\ row.text = FreshText(o)
  <2>1. PICK o \in CallsOf(b) : future[o] = "ok" /\ row.text = FreshText(o)
    BY <1>7
  <2>2. o \in CallsOf(b)' /\ future'[o] = "ok" /\ row.text = FreshText(o)'
    BY <1>1, <1>3, <1>4, <2>1
  <2> QED BY <1>7, <2>2 DEF IsAnswer
<1> QED BY <1>5, <1>6, <1>7 DEF IsAnswer

(* So the row of a commit goes on being one until the commit has ended.    *)
LEMMA CommitAnswersStep ==
  ASSUME LocalInv, Tasks, CommitPlaced, CommitAnswers, [Next]_vars
  PROVE  CommitAnswers'
<1> USE DEF LocalInv, WellFormed, TypeOK
<1>1. CASE committing' = NoCommit
  BY <1>1 DEF CommitAnswers, NoCommit, AbsentRow, NoText
<1>2. CASE Abort /\ committing' # NoCommit
  <2>0. PICK b \in Block : \E row : committing' = [block |-> b, row |-> row] /\ Commits(b, row)
    BY <1>2, CommitKinds
  <2>1. PICK row : committing' = [block |-> b, row |-> row] /\ Commits(b, row)
    BY <2>0
  <2>2. row = rows[b] \/ IsAnswer(row, b)
    BY <2>1, CommitIsAnswer
  <2>3. IsAnswer(row, b) => IsAnswer(row, b)'
    BY <1>2, AnswerStays DEF Abort, durable, tasks, shared
  <2>4. committing'.block = b /\ committing'.row = row /\ rows' = rows
    BY <1>2, <2>1 DEF Abort, durable
  <2>5. IsAnswer(row, b)' => IsAnswer(committing.row, committing.block)'
    BY <2>4 DEF IsAnswer, CallsOf, KnownTexts, DbTexts, FreshText, CopiedText
  <2> QED BY <2>2, <2>3, <2>4, <2>5 DEF CommitAnswers
<1>3. ASSUME committing # NoCommit, UNCHANGED <<rows, elsewhere, run, role, pendingCache, committing>>,
             \A o \in Block : future[o] # "pending" => future'[o] = future[o]
      PROVE  CommitAnswers'
  <2> DEFINE row == committing.row  b == committing.block
  <2>1. b \in Block
    BY <1>3 DEF CommitPlaced
  <2>2. row = rows[b] \/ IsAnswer(row, b)
    BY <1>3 DEF CommitAnswers
  <2>3. ASSUME NEW r, NEW d \in Block, IsAnswer(r, d) PROVE IsAnswer(r, d)'
    BY <1>3, <2>3, AnswerStays
  <2>4. IsAnswer(committing.row, committing.block) => IsAnswer(committing.row, committing.block)'
    <3>1. PICK r, d : r = committing.row /\ d = committing.block
      OBVIOUS
    <3>2. IsAnswer(r, d) => IsAnswer(r, d)'
      BY <2>1, <2>3, <3>1
    <3>3. r = committing'.row /\ d = committing'.block
      BY <1>3, <3>1
    <3> QED BY <3>1, <3>2, <3>3 DEF IsAnswer, CallsOf, KnownTexts, DbTexts, FreshText, CopiedText
  <2> QED BY <1>3, <2>2, <2>4 DEF CommitAnswers
<1>4. CASE committing # NoCommit /\ committing' # NoCommit
  <2>1. phase = "aborting"
    BY <1>4 DEF CommitPlaced
  <2>2. ASSUME NEW b \in Block, TaskStep(b) PROVE CommitAnswers'
    BY <1>3, <1>4, <2>1, <2>2, AbortedTasks
  <2>3. CASE UNCHANGED vars
    BY <1>3, <1>4, <2>3 DEF vars, durable, control, tasks, shared
  <2> QED BY <1>4, <2>1, <2>2, <2>3
          DEF Next, StartRun, Finalize, Abort, CommitEnds, AbortEnds, Crash, ManualRetranslate,
              OtherDocument, InFlight
<1>5. CASE committing = NoCommit /\ ~Abort
  <2>1. ASSUME NEW b \in Block, TaskStep(b) PROVE committing' = NoCommit
    BY <1>5, <2>1, TasksLeaveCommit
  <2> QED BY <1>1, <1>5, <2>1
          DEF Next, StartRun, Finalize, CommitEnds, AbortEnds, Crash, ManualRetranslate,
              OtherDocument, vars, control
<1>6. CASE committing # NoCommit /\ Abort
  BY <1>6 DEF CommitPlaced, Abort
<1> QED BY <1>1, <1>2, <1>4, <1>5, <1>6

(* However a run is cut short, what it leaves in a row is an answer: the   *)
(* text of a call that returned or of a row that has one, and a failure    *)
(* only if the call failed; also if a reader writes rows during the run.   *)
THEOREM AnswersOnly == Spec => OnlyAnswersRecorded
<1> DEFINE I == LocalInv /\ Tasks /\ CommitPlaced /\ CommitAnswers
<1>1. Init => I
  BY InitWellFormed, InitLocal, InitTasks DEF Init, LocalInv, CommitPlaced, CommitAnswers
<1>2. I /\ [Next]_vars => I'
  BY LocalStep, TasksStep, CommitPlacedStep, CommitAnswersStep DEF LocalInv, WellFormed
<1>3. I /\ [Next]_vars =>
        [\A b \in Block : rows'[b] \in {rows[b], ManualRow(b)} \/ IsAnswer(rows'[b], b)]_vars
  <2> SUFFICES ASSUME I, Next, NEW b \in Block
               PROVE  rows'[b] \in {rows[b], ManualRow(b)} \/ IsAnswer(rows'[b], b)
    OBVIOUS
  <2>0. rows \in [Block -> Row]
    BY DEF LocalInv, WellFormed, TypeOK
  <2>1. ASSUME NEW c \in Block, TaskStep(c)
        PROVE  rows'[b] = rows[b] \/ IsAnswer(rows'[b], b)
    BY <2>1, TaskWritesAnswer
  <2>2. CASE CommitEnds
    <3>1. CASE UNCHANGED rows
      BY <3>1
    <3>2. CASE rows' = [rows EXCEPT ![committing.block] = committing.row]
      <4>1. CASE b = committing.block
        <5>1. rows'[b] = committing.row
          BY <2>0, <3>2, <4>1
        <5>2. committing.row = rows[b] \/ IsAnswer(committing.row, b)
          BY <2>2, <4>1 DEF CommitAnswers, CommitEnds
        <5> QED BY <5>1, <5>2
      <4>2. CASE b # committing.block
        BY <2>0, <3>2, <4>2
      <4> QED BY <4>1, <4>2
    <3> QED BY <2>2, <3>1, <3>2 DEF CommitEnds
  <2>3. ASSUME NEW c \in Reader, ManualRetranslate(c)
        PROVE  rows'[b] \in {rows[b], ManualRow(b)}
    BY <2>0, <2>3 DEF ManualRetranslate
  <2>4. CASE UNCHANGED rows
    BY <2>4
  <2> QED BY <2>1, <2>2, <2>3, <2>4
          DEF Next, StartRun, Finalize, Abort, AbortEnds, Crash, OtherDocument, durable
<1> QED BY <1>1, <1>2, <1>3, PTL DEF Spec, OnlyAnswersRecorded

-------------------------------------------------------------------------------
(* What a run counts.                                                      *)

(* How a task that is done was counted.                                    *)
CountedAs(b) ==
  IF role[b] \in {"skipped", "cached"} THEN role[b]
  ELSE IF future[CallOf(b)] # "ok" THEN "failed"
  ELSE IF role[b] = "owner" THEN "translated" ELSE "cached"

Done == {b \in Block : pc[b] = "done"}

Total == stats["translated"] + stats["skipped"] + stats["failed"] + stats["cached"]

(* Every task that is done is counted once, and the failed ones as failed. *)
Accounted ==
  /\ Total = Cardinality(Done)
  /\ stats["failed"] > 0 <=> \E b \in Done : CountedAs(b) = "failed"

(* Blocks, and those that are done, can be counted.                        *)
LEMMA BlocksFinite == IsFiniteSet(Block) /\ Cardinality(Block) = NBlocks /\ IsFiniteSet(Done)
<1>1. NBlocks \in Nat
  BY ConstantsAssumption
<1>2. IsFiniteSet(1..NBlocks) /\ Cardinality(1..NBlocks) = NBlocks
  BY <1>1, FS_Interval
<1>3. IsFiniteSet(Done)
  BY <1>2, FS_Subset DEF Done, Block
<1> QED BY <1>2, <1>3 DEF Block

(* A call concludes once.                                                  *)
LEMMA ConclusionsKept ==
  ASSUME WellFormed, Tasks, NEW b \in Block, TaskStep(b),
         NEW w \in Block, role[w] = "owner", future[w] \in {"ok", "failed"}
  PROVE  future'[w] = future[w]
<1> USE DEF WellFormed, TypeOK
<1>1. RoleFits(b) /\ FutureFits(b) /\ RoleFits(w) /\ FutureFits(w)
  BY DEF Tasks, Flights
<1>2. CASE w # b
  BY <1>2, TaskFrame
<1>3. CASE w = b
  <2>1. pc[b] # "precheck"
    BY <1>1, <1>3 DEF RoleFits
  <2>2. phase = "running" => pc[b] # "incall"
    BY <1>1, <1>3 DEF FutureFits
  <2>3. Record(b) => UNCHANGED future
    BY RecordCopies DEF Copies
  <2>4. ~PrecheckOwn(b) /\ ~PrecheckJoin(b)
    BY <2>1 DEF PrecheckOwn, PrecheckJoin, Prechecking
  <2> QED BY <1>3, <2>1, <2>2, <2>3, <2>4, TaskMoves
<1> QED BY <1>2, <1>3

(* So what a task that is done was counted as stays.                       *)
LEMMA CountsKept ==
  ASSUME WellFormed, Tasks, NEW b \in Block, TaskStep(b),
         NEW c \in Block, c # b, pc[c] = "done"
  PROVE  CountedAs(c)' = CountedAs(c)
<1>1. role'[c] = role[c] /\ waitsOn'[c] = waitsOn[c]
  BY TaskFrame DEF WellFormed
<1>2. RoleFits(c) /\ PairFits(c) /\ FutureFits(c)
  BY DEF Tasks, Flights
<1>3. role[c] \in {"skipped", "cached", "owner", "waiter"}
  BY <1>2 DEF RoleFits, WellFormed, TypeOK
<1>4. CASE role[c] \in {"owner", "waiter"}
  <2>1. /\ CallOf(c) \in Block /\ role[CallOf(c)] = "owner"
        /\ future[CallOf(c)] \in {"ok", "failed"}
        /\ CallOf(c)' = CallOf(c)
    BY <1>1, <1>2, <1>4 DEF CallOf, PairFits, FutureFits
  <2>2. future'[CallOf(c)] = future[CallOf(c)]
    BY <2>1, ConclusionsKept
  <2> QED BY <1>1, <2>1, <2>2 DEF CountedAs
<1>5. CASE role[c] \in {"skipped", "cached"}
  BY <1>1, <1>5 DEF CountedAs
<1> QED BY <1>3, <1>4, <1>5

(* A step counts its task when it completes it, and only then.             *)
LEMMA CompletionCounts ==
  ASSUME LocalInv, Tasks, RowsTell, NEW b \in Block, TaskStep(b)
  PROVE  /\ pc[b] # "done"
         /\ \/ pc'[b] # "done" /\ UNCHANGED stats
            \/ pc'[b] = "done" /\ CountedAs(b)' \in Outcome /\ Count(CountedAs(b)')
<1> USE DEF LocalInv, WellFormed, TypeOK
<1>1. CASE PrecheckSkip(b)
  <2>1. /\ pc[b] = "precheck" /\ pc'[b] = "done" /\ role'[b] = "skipped" /\ Count("skipped")
    BY <1>1 DEF PrecheckSkip, Prechecking, Goto
  <2>2. CountedAs(b)' = "skipped"
    BY <2>1 DEF CountedAs
  <2> QED BY <2>1, <2>2 DEF Outcome
<1>2. CASE PrecheckCached(b)
  <2>1. /\ pc[b] = "precheck" /\ pc'[b] = "done" /\ role'[b] = "cached" /\ Count("cached")
    BY <1>2 DEF PrecheckCached, Prechecking, Goto
  <2>2. CountedAs(b)' = "cached"
    BY <2>1 DEF CountedAs
  <2> QED BY <2>1, <2>2 DEF Outcome
<1>3. CASE PrecheckOwn(b) \/ PrecheckJoin(b)
  BY <1>3 DEF PrecheckOwn, PrecheckJoin, Prechecking, Goto, shared
<1>4. CASE Record(b)
  <2>1. Copies(b) /\ RowFresh(b)
    BY <1>4, RecordCopies DEF RowsTell
  <2>2. /\ role[b] \in {"owner", "waiter"}
        /\ pc[b] = "recordOk" => CallOf(b) = b /\ future[b] = "ok" /\ role[b] = "owner"
        /\ pc[b] = "serveOk" => future[CallOf(b)] = "ok" /\ role[b] = "waiter"
        /\ pc[b] \in {"recordFail", "serveFail"} => future[CallOf(b)] = "failed"
    BY <2>1, RecordWrites
  <2>3. /\ pc'[b] = "done" /\ role' = role /\ future' = future /\ CallOf(b)' = CallOf(b)
    BY <2>1 DEF Copies, Moves, CallOf
  <2>4. CASE pc[b] = "recordOk"
    <3>1. CountedAs(b)' = "translated"
      BY <2>2, <2>3, <2>4 DEF CountedAs
    <3> QED BY <2>1, <2>3, <2>4, <3>1 DEF Copies, Outcome
  <2>5. CASE pc[b] = "serveOk"
    <3>1. CountedAs(b)' = "cached"
      BY <2>2, <2>3, <2>5 DEF CountedAs
    <3> QED BY <2>1, <2>3, <2>5, <3>1 DEF Copies, Outcome
  <2>6. CASE pc[b] \in {"recordFail", "serveFail"}
    <3>1. CountedAs(b)' = "failed"
      BY <2>2, <2>3, <2>6 DEF CountedAs
    <3> QED BY <2>1, <2>3, <2>6, <3>1 DEF Copies, Outcome
  <2> QED BY <2>1, <2>4, <2>5, <2>6 DEF Copies
<1> QED BY <1>1, <1>2, <1>3, <1>4, TaskMoves DEF Moves

(* The counts go on adding up to the tasks that are done.                  *)
LEMMA AccountedStep ==
  ASSUME ~Overlap, LocalInv, Tasks, RowsTell, Accounted, [Next]_vars
  PROVE  Accounted'
<1> USE DEF LocalInv, WellFormed, TypeOK
<1>1. CASE Rebegins
  <2>1. /\ stats'["skipped"] = Cardinality(Done') /\ stats'["failed"] = 0
        /\ stats'["translated"] = 0 /\ stats'["cached"] = 0
    BY <1>1 DEF Rebegins, Outcome, Done
  <2>2. Cardinality(Done') \in Nat
    <3>1. IsFiniteSet(Done')
      BY BlocksFinite, FS_Subset DEF Done
    <3> QED BY <3>1, FS_CardinalityType
  <2>3. \A b \in Block : b \in Done' => CountedAs(b)' = "skipped"
    BY <1>1 DEF Rebegins, Done, CountedAs
  <2>4. Done' \subseteq Block
    BY DEF Done
  <2> QED BY <2>1, <2>2, <2>3, <2>4 DEF Accounted, Total
<1>2. CASE Stays
  BY <1>2 DEF Stays, Accounted, Total, Done, CountedAs, CallOf
<1>3. ASSUME NEW b \in Block, TaskStep(b) PROVE Accounted'
  <2>f. \A c \in Block \ {b} : pc'[c] = pc[c]
    BY <1>3, TaskFrame
  <2>1. pc[b] # "done" /\ \A c \in Done : CountedAs(c)' = CountedAs(c) /\ c # b
    BY <1>3, CompletionCounts, CountsKept DEF Done
  <2>2. CASE pc'[b] # "done" /\ UNCHANGED stats
    <3>1. Done' = Done
      BY <2>f, <2>1, <2>2 DEF Done
    <3> QED BY <2>1, <2>2, <3>1 DEF Accounted, Total
  <2>3. ASSUME pc'[b] = "done", NEW o \in Outcome, o = CountedAs(b)', Count(o)
        PROVE  Accounted'
    <3>1. Done' = Done \cup {b} /\ b \notin Done
      BY <2>f, <2>1, <2>3 DEF Done
    <3>2. Cardinality(Done') = Cardinality(Done) + 1
      BY <3>1, BlocksFinite, FS_AddElement
    <3>3. \A p \in Outcome : stats[p] \in Nat /\ stats'[p] = IF p = o THEN stats[p] + 1
                                                               ELSE stats[p]
      BY <2>3 DEF Count
    <3>4. /\ Total' = Total + 1
          /\ stats'["failed"] > 0 <=> (stats["failed"] > 0 \/ o = "failed")
      BY <3>3 DEF Total, Outcome
    <3>5. (\E c \in Done' : CountedAs(c)' = "failed")
            <=> ((\E c \in Done : CountedAs(c) = "failed") \/ o = "failed")
      BY <2>1, <2>3, <3>1
    <3> QED BY <3>2, <3>4, <3>5 DEF Accounted
  <2> QED BY <1>3, <2>2, <2>3, CompletionCounts
<1> QED BY <1>1, <1>2, <1>3, StepKinds

(* A run that finishes has counted every block once, and the status it     *)
(* gives the document says whether a block it worked on is left failed.    *)
THEOREM RunAccounted == ~Overlap => (Spec => FinishedRunAccounted)
<1> SUFFICES ASSUME ~Overlap
             PROVE  Spec => FinishedRunAccounted
  OBVIOUS
<1>1. Init => Accounted
  <2> SUFFICES ASSUME Init PROVE Accounted
    OBVIOUS
  <2>1. Done = {} /\ Total = 0 /\ stats["failed"] = 0
    BY DEF Init, Done, Total, Outcome
  <2> QED BY <2>1, FS_EmptySet DEF Accounted
<1>2. AnswersInv /\ Accounted /\ [Next]_vars => Accounted'
  BY AccountedStep DEF AnswersInv
<1>3. AnswersInv /\ Accounted /\ [Next]_vars =>
        [phase = "running" /\ phase' = "finished" =>
           /\ stats["translated"] + stats["skipped"] + stats["failed"] + stats["cached"]
                = NBlocks
           /\ docStatus' = "partial_translated" <=>
                \E b \in Block : WorkedOn(b) /\ rows[b].status = "failed"]_vars
  <2> SUFFICES ASSUME AnswersInv, Accounted, Next, phase = "running", phase' = "finished"
               PROVE  /\ Total = NBlocks
                      /\ docStatus' = "partial_translated" <=>
                           \E b \in Block : WorkedOn(b) /\ rows[b].status = "failed"
    BY DEF Total, vars, control
  <2>1. Finalize
    <3>1. \A b \in Block : TaskStep(b) => phase' = phase
      BY TaskFrame DEF AnswersInv, LocalInv, WellFormed
    <3> QED BY <3>1 DEF Next, StartRun, Abort, CommitEnds, AbortEnds, Crash, ManualRetranslate,
                       OtherDocument, control
  <2>2. Done = Block
    BY <2>1 DEF Finalize, Done
  <2>3. Total = NBlocks
    BY <2>2, BlocksFinite DEF Accounted
  <2>4. ASSUME NEW b \in Block
        PROVE  CountedAs(b) = "failed" <=> WorkedOn(b) /\ rows[b].status = "failed"
    <3>1. /\ pc[b] = "done" /\ role[b] \in {"skipped", "cached", "owner", "waiter"}
          /\ RowAnswers(b) /\ ServedFits(b)
      BY <2>1 DEF Finalize, AnswersInv, Tasks, Flights, RoleFits, RowsTell, Served, LocalInv,
                  WellFormed, TypeOK
    <3> QED BY <3>1 DEF CountedAs, WorkedOn, RowAnswers, ServedFits
  <2>5. docStatus' = "partial_translated" <=> stats["failed"] > 0
    BY <2>1 DEF Finalize
  <2> QED BY <2>2, <2>3, <2>4, <2>5 DEF Accounted
<1> QED BY <1>1, <1>2, <1>3, AnswersInvHolds, PTL DEF Spec, FinishedRunAccounted

-------------------------------------------------------------------------------
(* The pipeline implements SingleFlight: an owner leads, its future's      *)
(* conclusion is the call's, and recording a row is taking the answer.     *)

(* The owner of a key, if there is one, is the one CHOOSE finds.           *)
LEMMA Leaders ==
  ASSUME OneCallPerKey, NEW k
  PROVE  /\ \A b \in OwnersOf(k) : OwnersOf(k) = {b} /\ (CHOOSE o \in OwnersOf(k) : TRUE) = b
         /\ OwnersOf(k) # {} => \E b \in Block : OwnersOf(k) = {b}
<1>1. ASSUME NEW b \in OwnersOf(k) PROVE OwnersOf(k) = {b}
  BY <1>1 DEF OneCallPerKey, OwnersOf
<1>2. ASSUME NEW b \in OwnersOf(k) PROVE (CHOOSE o \in OwnersOf(k) : TRUE) = b
  <2>1. OwnersOf(k) = {b}
    BY <1>1, <1>2
  <2> QED BY <2>1
<1> QED BY <1>1, <1>2 DEF OwnersOf

(* The three variables of SingleFlight, as the pipeline has them.          *)
LeadersOf == [k \in Keys |-> OwnersOf(k)]
VerdictOn(k) == IF OwnersOf(k) = {} THEN <<"unset">>
                ELSE Answer(CHOOSE b \in OwnersOf(k) : TRUE)
GotBy(b) == IF ~Answered(b) THEN <<"unset">>
            ELSE IF rows[b].status = "failed" THEN <<"failed">> ELSE rows[b].text

(* What a key's call has concluded is what its owner's future says.        *)
LEMMA Verdicts ==
  ASSUME OneCallPerKey, NEW b \in Block, role[b] = "owner"
  PROVE  VerdictOn(KeyOf[b]) = Answer(b) /\ OwnersOf(KeyOf[b]) = {b}
BY Leaders DEF VerdictOn, OwnersOf

(* The conclusion on an owner's key is its own, after the step too.        *)
LEMMA PrimedVerdicts ==
  ASSUME OneCallPerKey', NEW b \in Block, role'[b] = "owner"
  PROVE  VerdictOn(KeyOf[b])' = Answer(b)' /\ OwnersOf(KeyOf[b])' = {b}
<1>1. OwnersOf(KeyOf[b])' = {b}
  BY DEF OneCallPerKey, OwnersOf
<1> QED BY <1>1 DEF VerdictOn

(* A step seen from the ledger of calls: which variables it changes.       *)
LEMMA SameFlight ==
  ASSUME \A k \in Keys : OwnersOf(k)' = OwnersOf(k) /\ VerdictOn(k)' = VerdictOn(k),
         \A b \in Block : GotBy(b)' = GotBy(b)
  PROVE  UNCHANGED Flight!vars
<1>1. [k \in Keys |-> OwnersOf(k)]' = [k \in Keys |-> OwnersOf(k)]
  OBVIOUS
<1>2. [k \in Keys |-> VerdictOn(k)]' = [k \in Keys |-> VerdictOn(k)]
  OBVIOUS
<1>3. [b \in Block |-> GotBy(b)]' = [b \in Block |-> GotBy(b)]
  OBVIOUS
<1> QED BY <1>1, <1>2, <1>3 DEF Flight!vars, VerdictOn, GotBy

(* Every step of a run is a step of SingleFlight, or changes nothing       *)
(* there.                                                                  *)
LEMMA FlightStep ==
  ASSUME ~Overlap, AnswersInv, AnswersInv', [Next]_vars
  PROVE  [Flight!Next]_(Flight!vars)
<1>i. /\ WellFormed /\ Tasks /\ RowsTell /\ LocalInv /\ CommitPlaced /\ TypeOK /\ OneCallPerKey
      /\ WellFormed' /\ Tasks' /\ RowsTell' /\ OneCallPerKey'
      /\ \A b \in Block : RoleFits(b) /\ PairFits(b) /\ FutureFits(b) /\ RowFresh(b)
      /\ \A b \in Block : role[b] = "owner" => KeyOf[b] \in Keys
      /\ \A b \in Block : role'[b] = "owner" => KeyOf[b] \in Keys
  BY DEF AnswersInv, SingleCallInv, LocalInv, WellFormed, Tasks, Flights, RowsTell, RoleFits
<1>t. /\ future \in [Block -> {"none", "pending", "ok", "failed", "cancelled"}]
      /\ pc \in [Block -> {"idle", "precheck", "slot", "incall", "await", "recordOk",
                           "recordFail", "serveOk", "serveFail", "unwind"} \cup Settled]
      /\ role \in [Block -> {"none", "skipped", "cached", "owner", "waiter"}]
      /\ rows \in [Block -> Row]
  BY <1>i DEF TypeOK
(* Neither who leads, nor what was concluded, nor what was taken changes.  *)
<1>s. ASSUME \A c \in Block : /\ role'[c] = "owner" <=> role[c] = "owner"
                              /\ role[c] = "owner" => Answer(c)' = Answer(c)
                              /\ GotBy(c)' = GotBy(c)
      PROVE  [Flight!Next]_(Flight!vars)
  <2>1. ASSUME NEW k \in Keys
        PROVE  OwnersOf(k)' = OwnersOf(k) /\ VerdictOn(k)' = VerdictOn(k)
    <3>1. OwnersOf(k)' = OwnersOf(k)
      BY <1>s DEF OwnersOf
    <3>2. CASE OwnersOf(k) = {}
      BY <3>1, <3>2 DEF VerdictOn
    <3>3. ASSUME NEW c \in OwnersOf(k) PROVE VerdictOn(k)' = VerdictOn(k)
      <4>1. c \in Block /\ role[c] = "owner" /\ role'[c] = "owner" /\ KeyOf[c] = k
        BY <1>s, <3>3 DEF OwnersOf
      <4> QED BY <1>i, <1>s, <4>1, Verdicts, PrimedVerdicts
    <3> QED BY <3>1, <3>2, <3>3
  <2> QED BY <1>s, <2>1, SameFlight
<1>1. CASE Rebegins
  <2>1. \A c \in Block : role'[c] # "owner" /\ ~Answered(c)'
    BY <1>1 DEF Rebegins, Answered
  <2>2. \A k \in Keys : OwnersOf(k)' = {} /\ VerdictOn(k)' = <<"unset">>
    BY <2>1 DEF OwnersOf, VerdictOn
  <2>3. \A c \in Block : GotBy(c)' = <<"unset">>
    BY <2>1 DEF GotBy
  <2>4. /\ [k \in Keys |-> OwnersOf(k)]' = [k \in Keys |-> {}]
        /\ [k \in Keys |-> VerdictOn(k)]' = [k \in Keys |-> <<"unset">>]
        /\ [c \in Block |-> GotBy(c)]' = [c \in Block |-> <<"unset">>]
    BY <2>2, <2>3
  <2> QED BY <2>4 DEF Flight!Next, Flight!Forget, VerdictOn, GotBy
<1>2. CASE Stays
  <2>1. CASE UNCHANGED <<rows, run>>
    BY <1>2, <1>s, <2>1 DEF Stays, Answer, GotBy, Answered, FreshText
  <2>2. CASE phase \notin InFlight /\ run' = run
    <3>1. \A c \in Block : ~Answered(c) /\ ~Answered(c)'
      BY <1>2, <1>i, <2>2 DEF Stays, Tasks, IdleOutside, Answered
    <3> QED BY <1>2, <1>s, <2>2, <3>1 DEF Stays, Answer, GotBy, FreshText
  <2>3. CASE committing # NoCommit /\ rows' = [rows EXCEPT ![committing.block] = committing.row]
    <3>1. \A c \in Block : Answered(c) => rows'[c] = rows[c]
      BY <1>i, <1>t, <2>3 DEF CommitPlaced, Answered
    <3> QED BY <1>2, <1>s, <3>1 DEF Stays, Answer, GotBy, Answered, FreshText
  <2> QED BY <1>2, <2>1, <2>2, <2>3 DEF Stays
<1>3. ASSUME NEW b \in Block, TaskStep(b) PROVE [Flight!Next]_(Flight!vars)
  <2>f. /\ UNCHANGED <<phase, run>> /\ phase \in InFlight
        /\ \A c \in Block \ {b} : /\ pc'[c] = pc[c] /\ role'[c] = role[c]
                                  /\ rows'[c] = rows[c]
    BY <1>3, <1>i, TaskFrame
  <2>n. /\ pc[b] # "done" /\ run # 0
        /\ \A c \in Block : FreshText(c)' = FreshText(c) /\ FreshText(c) \in Texts
    <3>1. pc[b] # "done"
      BY <1>3, <1>i, CompletionCounts
    <3>2. run # 0
      BY <1>i, <2>f DEF WellFormed, RunNumbered
    <3> QED BY <1>i, <2>f, <3>1, <3>2, TextTypes DEF FreshText
  (* No task but one that records takes an answer.                         *)
  <2>g. ASSUME pc'[b] # "done" \/ role'[b] \notin {"owner", "waiter"}
        PROVE  \A c \in Block : GotBy(c)' = GotBy(c)
    BY <2>f, <2>n, <2>g DEF GotBy, Answered
  <2>a. \A c \in Block : future'[c] = future[c] => Answer(c)' = Answer(c)
    BY <2>n DEF Answer
  <2>1. CASE /\ UNCHANGED future
             /\ role'[b] = "owner" <=> role[b] = "owner"
             /\ pc'[b] # "done" \/ role'[b] \notin {"owner", "waiter"}
    BY <1>s, <2>1, <2>f, <2>g, <2>a
  (* An owner leads.                                                       *)
  <2>2. CASE PrecheckOwn(b)
    <3>1. /\ role[b] = "none" /\ KeyOf[b] \in Keys /\ pc[b] = "precheck"
          /\ role' = [role EXCEPT ![b] = "owner"]
          /\ future' = [future EXCEPT ![b] = "pending"]
          /\ pc' = [pc EXCEPT ![b] = "slot"]
      BY <2>2, <1>i DEF PrecheckOwn, Prechecking, Goto, RoleFits, WellFormed, CandidatesKeyed
    <3>2. role'[b] = "owner" /\ Answer(b)' = <<"unset">>
      BY <1>t, <3>1 DEF Answer
    <3>3. OwnersOf(KeyOf[b])' = {b} /\ VerdictOn(KeyOf[b])' = <<"unset">>
      BY <1>i, <3>2, PrimedVerdicts
    <3>4. OwnersOf(KeyOf[b]) = {}
      <4>1. b \notin OwnersOf(KeyOf[b]) /\ OwnersOf(KeyOf[b]) \subseteq OwnersOf(KeyOf[b])'
        BY <1>t, <3>1 DEF OwnersOf
      <4> QED BY <3>3, <4>1
    <3>5. VerdictOn(KeyOf[b]) = <<"unset">>
      BY <3>4 DEF VerdictOn
    <3>6. ASSUME NEW k \in Keys, k # KeyOf[b]
          PROVE  OwnersOf(k)' = OwnersOf(k) /\ VerdictOn(k)' = VerdictOn(k)
      <4>1. OwnersOf(k)' = OwnersOf(k)
        BY <1>t, <3>1, <3>6 DEF OwnersOf
      <4>2. ASSUME NEW c \in OwnersOf(k) PROVE VerdictOn(k)' = VerdictOn(k)
        <5>1. c \in Block /\ c # b /\ role[c] = "owner" /\ role'[c] = "owner" /\ KeyOf[c] = k
          BY <1>t, <3>1, <4>1, <4>2 DEF OwnersOf
        <5>2. future'[c] = future[c]
          BY <1>t, <3>1, <5>1
        <5> QED BY <1>i, <2>a, <5>1, <5>2, Verdicts, PrimedVerdicts
      <4>3. CASE OwnersOf(k) = {}
        BY <4>1, <4>3 DEF VerdictOn
      <4> QED BY <4>1, <4>2, <4>3
    <3>7. [k \in Keys |-> OwnersOf(k)]' = [[k \in Keys |-> OwnersOf(k)] EXCEPT ![KeyOf[b]] = {b}]
      BY <3>3, <3>6
    <3>8. [k \in Keys |-> VerdictOn(k)]' = [k \in Keys |-> VerdictOn(k)]
      BY <3>3, <3>5, <3>6
    <3>9. [c \in Block |-> GotBy(c)]' = [c \in Block |-> GotBy(c)]
      <4>1. pc'[b] # "done"
        BY <1>t, <3>1
      <4> QED BY <2>g, <4>1
    <3>10. [k \in Keys |-> OwnersOf(k)][KeyOf[b]] = {}
      BY <3>1, <3>4
    <3>11. Flight!Lead(b)
      BY <3>1, <3>7, <3>8, <3>9, <3>10 DEF Flight!Lead, VerdictOn, GotBy
    <3> QED BY <3>11 DEF Flight!Next
  (* A future that was pending is resolved: the call concludes.            *)
  <2>3. ASSUME NEW w \in Block, role[w] = "owner", future[w] = "pending",
               NEW v \in {"ok", "failed", "cancelled"}, future' = [future EXCEPT ![w] = v],
               UNCHANGED role, pc'[b] # "done"
        PROVE  [Flight!Next]_(Flight!vars)
    <3> DEFINE k == KeyOf[w]
    <3>1. /\ Answer(w) = <<"unset">> /\ Answer(w)' # <<"unset">>
          /\ Answer(w)' \in Texts \cup {<<"failed">>, <<"cancelled">>}
      <4>1. future'[w] = v
        BY <1>t, <2>3
      <4>2. Answer(w)' = IF v = "ok" THEN FreshText(w) ELSE <<v>>
        BY <2>n, <4>1 DEF Answer
      <4>3. FreshText(w) # <<"unset">>
        BY DEF FreshText
      <4>4. <<"failed">> # <<"unset">> /\ <<"cancelled">> # <<"unset">>
        OBVIOUS
      <4> QED BY <2>3, <2>n, <4>2, <4>3, <4>4 DEF Answer
    <3>2. /\ k \in Keys /\ VerdictOn(k) = <<"unset">> /\ VerdictOn(k)' = Answer(w)'
          /\ OwnersOf(k) = {w}
      BY <1>i, <2>3, <3>1, Verdicts, PrimedVerdicts
    <3>3. \A j \in Keys : OwnersOf(j)' = OwnersOf(j)
      BY <2>3 DEF OwnersOf
    <3>4. ASSUME NEW j \in Keys, j # k PROVE VerdictOn(j)' = VerdictOn(j)
      <4>1. ASSUME NEW c \in OwnersOf(j) PROVE VerdictOn(j)' = VerdictOn(j)
        <5>1. c \in Block /\ c # w /\ role[c] = "owner" /\ role'[c] = "owner" /\ KeyOf[c] = j
          BY <2>3, <3>4, <4>1 DEF OwnersOf
        <5>2. future'[c] = future[c]
          BY <1>t, <2>3, <5>1
        <5> QED BY <1>i, <2>a, <5>1, <5>2, Verdicts, PrimedVerdicts
      <4>2. CASE OwnersOf(j) = {}
        BY <3>3, <4>2 DEF VerdictOn
      <4> QED BY <4>1, <4>2
    <3>5. [j \in Keys |-> OwnersOf(j)]' = [j \in Keys |-> OwnersOf(j)]
      BY <3>3
    <3>6. [j \in Keys |-> VerdictOn(j)]' =
            [[j \in Keys |-> VerdictOn(j)] EXCEPT ![k] = Answer(w)']
      BY <3>2, <3>4
    <3>7. [c \in Block |-> GotBy(c)]' = [c \in Block |-> GotBy(c)]
      BY <2>3, <2>g
    <3>8. /\ [j \in Keys |-> OwnersOf(j)][k] # {}
          /\ [j \in Keys |-> VerdictOn(j)][k] = <<"unset">>
      BY <3>2
    <3> HIDE DEF k
    <3>9. Flight!Conclude(k)
      BY <3>1, <3>5, <3>6, <3>7, <3>8 DEF Flight!Conclude, VerdictOn, GotBy
    <3> QED BY <3>2, <3>9 DEF Flight!Next
  (* A task that records takes what its call has concluded.                *)
  <2>4. CASE Record(b)
    <3>1. Copies(b)
      BY <2>4, RecordCopies
    <3>2. /\ rows' = [rows EXCEPT ![b] = Recorded(b)]
          /\ role[b] \in {"owner", "waiter"} /\ CallOf(b) \in Block
          /\ future[CallOf(b)] \in {"ok", "failed"}
      BY <1>i, <3>1, RecordWrites
    <3>3. pc'[b] = "done" /\ UNCHANGED <<role, future>>
      BY <1>t, <3>1 DEF Copies, Moves
    <3>4. role[CallOf(b)] = "owner" /\ KeyOf[CallOf(b)] = KeyOf[b] /\ KeyOf[b] \in Keys
      BY <1>i, <3>2 DEF CallOf, PairFits, RoleFits
    <3>5. ASSUME NEW j \in Keys
          PROVE  OwnersOf(j)' = OwnersOf(j) /\ VerdictOn(j)' = VerdictOn(j)
      <4>1. OwnersOf(j)' = OwnersOf(j)
        BY <3>3 DEF OwnersOf
      <4>2. ASSUME NEW c \in OwnersOf(j) PROVE VerdictOn(j)' = VerdictOn(j)
        <5>1. c \in Block /\ role[c] = "owner" /\ role'[c] = "owner" /\ KeyOf[c] = j
          BY <3>3, <4>2 DEF OwnersOf
        <5> QED BY <1>i, <2>a, <3>3, <5>1, Verdicts, PrimedVerdicts
      <4>3. CASE OwnersOf(j) = {}
        BY <4>1, <4>3 DEF VerdictOn
      <4> QED BY <4>1, <4>2, <4>3
    <3>6. VerdictOn(KeyOf[b]) = Answer(CallOf(b))
      BY <1>i, <3>2, <3>4, Verdicts
    <3>7. Answer(CallOf(b)) = IF future[CallOf(b)] = "ok" THEN FreshText(CallOf(b))
                                                          ELSE <<"failed">>
      BY <3>2 DEF Answer
    <3>8. rows'[b] = Recorded(b)
      BY <1>t, <3>2
    <3>9. GotBy(b) = <<"unset">> /\ GotBy(b)' = VerdictOn(KeyOf[b])
      BY <2>n, <3>2, <3>3, <3>6, <3>7, <3>8 DEF GotBy, Answered, Recorded
    <3>10. VerdictOn(KeyOf[b]) # <<"unset">>
      <4>1. FreshText(CallOf(b)) # <<"unset">> /\ <<"failed">> # <<"unset">>
        BY DEF FreshText
      <4> QED BY <3>6, <3>7, <4>1
    <3>11. \A c \in Block \ {b} : GotBy(c)' = GotBy(c)
      BY <2>f DEF GotBy, Answered
    <3>12. [c \in Block |-> GotBy(c)]' =
             [[c \in Block |-> GotBy(c)] EXCEPT ![b] = VerdictOn(KeyOf[b])]
      BY <3>9, <3>11
    <3>13. /\ [j \in Keys |-> OwnersOf(j)]' = [j \in Keys |-> OwnersOf(j)]
           /\ [j \in Keys |-> VerdictOn(j)]' = [j \in Keys |-> VerdictOn(j)]
      BY <3>5
    <3>14. /\ [c \in Block |-> GotBy(c)][b] = <<"unset">>
           /\ [j \in Keys |-> VerdictOn(j)][KeyOf[b]] = VerdictOn(KeyOf[b])
      BY <3>4, <3>9
    <3>15. Flight!Take(b)
      BY <3>4, <3>10, <3>12, <3>13, <3>14 DEF Flight!Take, VerdictOn, GotBy
    <3> QED BY <3>15 DEF Flight!Next
  <2>5. CASE PrecheckJoin(b)
    <3>1. /\ UNCHANGED future /\ role[b] = "none" /\ role'[b] = "waiter" /\ pc'[b] = "await"
      BY <2>5, <1>i, <1>t DEF PrecheckJoin, Prechecking, Goto, shared, RoleFits
    <3> QED BY <2>1, <3>1
  <2>6. CASE /\ pc[b] = "precheck" /\ Moves(b, "done") /\ UNCHANGED future
             /\ \/ role' = [role EXCEPT ![b] = "skipped"]
                \/ role' = [role EXCEPT ![b] = "cached"]
    <3>1. role[b] = "none" /\ role'[b] \in {"skipped", "cached"}
      BY <2>6, <1>i, <1>t DEF RoleFits
    <3> QED BY <2>1, <2>6, <3>1
  <2>7. ASSUME UNCHANGED role, NEW label, Moves(b, label), label # "done"
        PROVE  pc'[b] # "done"
    BY <1>t, <2>7 DEF Moves
  <2>8. CASE /\ pc[b] = "incall" /\ phase = "running"
             /\ \/ Moves(b, "recordOk") /\ future' = [future EXCEPT ![b] = "ok"]
                \/ Moves(b, "recordFail") /\ future' = [future EXCEPT ![b] = "failed"]
             /\ UNCHANGED role
    <3>1. role[b] = "owner" /\ future[b] = "pending" /\ pc'[b] # "done"
      BY <1>i, <2>7, <2>8 DEF RoleFits, FutureFits
    <3> QED BY <2>3, <2>8, <3>1
  <2>9. CASE /\ pc[b] = "await" /\ pc'[b] # "done" /\ UNCHANGED role
             /\ future' = [future EXCEPT ![waitsOn[b]] =
                             IF @ = "pending" THEN "cancelled" ELSE @]
    <3>1. waitsOn[b] \in Block /\ role[waitsOn[b]] = "owner"
      BY <1>i, <2>9 DEF RoleFits, PairFits
    <3>2. CASE future[waitsOn[b]] = "pending"
      BY <2>3, <2>9, <3>1, <3>2
    <3>3. CASE future[waitsOn[b]] # "pending"
      <4>1. future' = future
        BY <1>t, <2>9, <3>1, <3>3
      <4> QED BY <2>1, <2>9, <4>1
    <3> QED BY <3>2, <3>3
  <2>10. CASE UNCHANGED <<role, future>> /\ pc'[b] # "done"
    BY <2>1, <2>10
  <2> QED BY <1>3, <1>i, TaskMoves, <2>2, <2>4, <2>5, <2>6, <2>7, <2>8, <2>9, <2>10
<1> QED BY <1>1, <1>2, <1>3, StepKinds

(* "Each unique cache_key triggers at most one LLM call" as a contract: a  *)
(* run's tasks take their answers from one call under their key, which     *)
(* concludes once, and take them only after that.                          *)
THEOREM Implements == ~Overlap => (Spec => ImplementsSingleFlight)
<1> SUFFICES ASSUME ~Overlap
             PROVE  Spec => ImplementsSingleFlight
  OBVIOUS
<1>1. Init => Flight!Init
  <2> SUFFICES ASSUME Init PROVE Flight!Init
    OBVIOUS
  <2>1. \A b \in Block : role[b] = "none" /\ ~Answered(b)
    BY DEF Init, Answered
  <2>2. \A k \in Keys : OwnersOf(k) = {}
    BY <2>1 DEF OwnersOf
  <2> QED BY <2>1, <2>2 DEF Flight!Init
<1>2. AnswersInv /\ AnswersInv' /\ [Next]_vars => [Flight!Next]_(Flight!vars)
  BY FlightStep
<1> QED BY <1>1, <1>2, AnswersInvHolds, PTL DEF Spec, ImplementsSingleFlight, Flight!Spec

-------------------------------------------------------------------------------
(* Nobody stuck, whatever a reader does.  The lock, the slots and the      *)
(* futures are all a task can wait for, and it holds at most one of the    *)
(* first two and waits for one of them at a time.                          *)

InLine == Queued \cup {"unwind"}

(* Who is in the lock's line is what the task is about to do.              *)
LineFits == \A b \in Block : turn[b] # 0 <=> pc[b] \in InLine

(* A run that is not aborted cancels nobody, and a run has every task.     *)
PhaseFits ==
  \A b \in Block : /\ phase = "running" => pc[b] \notin {"unwind", "cancelled"}
                   /\ phase \in InFlight => pc[b] # "idle"

ProgressInv == WellFormed /\ Tasks /\ LineFits /\ PhaseFits

(* A task's step takes it into the line or out of it as its place says.    *)
LEMMA LineFitsStep ==
  ASSUME WellFormed, LineFits, PhaseFits, NEW b \in Block, TaskStep(b)
  PROVE  LineFits' /\ PhaseFits'
<1> USE DEF WellFormed, TypeOK, LineFits, PhaseFits, InLine, Queued, InFlight, Goto, control
<1>1. CASE Precheck(b)
  BY <1>1 DEF Precheck, PrecheckSkip, PrecheckCached, PrecheckOwn, PrecheckJoin, Prechecking,
              LeaveLine
<1>2. CASE StartCall(b) \/ CallRetries(b)
  BY <1>2 DEF StartCall, CallRetries
<1>3. CASE CallReturns(b) \/ CallFails(b)
  BY <1>3 DEF CallReturns, CallFails, JoinLine
<1>4. CASE Wake(b)
  BY <1>4 DEF Wake, JoinLine
<1>5. CASE Record(b)
  BY <1>5 DEF Record, RecordOk, RecordFail, ServeOk, ServeFail, Recording, LeaveLine
<1>6. CASE CancelOwner(b)
  BY <1>6 DEF CancelOwner, JoinLine
<1>7. CASE Unwind(b) \/ CancelInLine(b)
  BY <1>7 DEF Unwind, CancelInLine, LeaveLine
<1>8. CASE CancelWaiter(b)
  BY <1>8 DEF CancelWaiter
<1> QED BY <1>1, <1>2, <1>3, <1>4, <1>5, <1>6, <1>7, <1>8 DEF TaskStep, Call, Cancel

(* The invariant holds in every run, with or without a reader.             *)
LEMMA ProgressInvHolds == Spec => []ProgressInv
<1>1. Init => ProgressInv
  <2> SUFFICES ASSUME Init PROVE ProgressInv
    OBVIOUS
  <2>1. Tasks
    BY InitTasks
  <2>2. LineFits /\ PhaseFits
    BY DEF Init, LineFits, PhaseFits, InLine, Queued, InFlight
  <2> QED BY <2>1, <2>2, InitWellFormed DEF ProgressInv
<1>2. ProgressInv /\ [Next]_vars => ProgressInv'
  <2> SUFFICES ASSUME ProgressInv, [Next]_vars PROVE LineFits' /\ PhaseFits'
    BY WellFormedStep, TasksStep DEF ProgressInv
  <2> USE DEF LineFits, PhaseFits, InLine, Queued, InFlight
  <2>1. ASSUME NEW rf \in BOOLEAN, StartRun(rf) PROVE LineFits' /\ PhaseFits'
    BY <2>1 DEF StartRun, Block
  <2>2. CASE Finalize \/ AbortEnds \/ Crash
    BY <2>2 DEF Finalize, AbortEnds, Crash, ForgetRun
  <2>3. CASE Abort \/ CommitEnds \/ (\E e \in Elsewhere : OtherDocument(e)) \/ UNCHANGED vars
    BY <2>3 DEF Abort, CommitEnds, OtherDocument, vars, tasks, control, ProgressInv
  <2>4. ASSUME NEW b \in Block, TaskStep(b) PROVE LineFits' /\ PhaseFits'
    BY <2>4, LineFitsStep DEF ProgressInv
  <2>5. ASSUME NEW b \in Reader, ManualRetranslate(b) PROVE LineFits' /\ PhaseFits'
    BY <2>5 DEF ManualRetranslate, control, tasks, ProgressInv
  <2> QED BY <2>1, <2>2, <2>3, <2>4, <2>5 DEF Next
<1> QED BY <1>1, <1>2, PTL DEF Spec

(* A line that is not empty has a head, who holds the lock.                *)
LEMMA LineHasHead ==
  ASSUME TypeOK, NEW c \in Block, turn[c] # 0
  PROVE  \E b \in Block : HoldsLock(b)
<1> DEFINE T == {turn[d] : d \in {e \in Block : turn[e] # 0}}
<1>0. \A d \in Block : turn[d] \in Nat
  BY DEF TypeOK
<1>1. T \subseteq Nat /\ T # {}
  BY <1>0
<1>2. PICK n \in T : \A m \in T : n <= m
  BY <1>1, LeastNatural
<1>3. PICK b \in Block : turn[b] # 0 /\ turn[b] = n
  BY <1>2
<1>4. \A d \in Block : turn[d] # 0 => turn[d] \in T
  OBVIOUS
<1> HIDE DEF T
<1> QED BY <1>2, <1>3, <1>4 DEF HoldsLock

(* Tasks never wait for each other all at once: whatever lock, slots and   *)
(* futures they hold or wait for, one of a run's tasks can go on until all *)
(* of them have ended.                                                     *)
THEOREM OneCanGo == Spec => []NobodyStuck
<1>1. ASSUME ProgressInv PROVE NobodyStuck
  <2> SUFFICES ASSUME phase \in InFlight,
                      NEW c \in Block,
                      ~(pc[c] = "done" \/ (phase = "aborting" /\ pc[c] = "cancelled"))
               PROVE  \E b \in Block : CanGo(b)
    BY DEF NobodyStuck
  <2>t. TypeOK /\ WellFormed
    BY <1>1 DEF ProgressInv, WellFormed
  <2>f. \A b \in Block : RoleFits(b) /\ PairFits(b) /\ FutureFits(b)
    BY <1>1 DEF ProgressInv, Tasks, Flights
  <2>p. \A b \in Block : pc[b] \in InLine \cup {"slot", "incall", "await", "done", "cancelled"}
    BY <1>1, <2>t DEF ProgressInv, PhaseFits, TypeOK, InLine, Queued, Settled
  (* The lock: the head of its line can go on.                             *)
  <2>1. CASE \E d \in Block : turn[d] # 0
    <3>1. PICK b \in Block : HoldsLock(b)
      BY <2>1, <2>t, LineHasHead
    <3>2. pc[b] \in InLine
      BY <1>1, <3>1 DEF HoldsLock, ProgressInv, LineFits
    <3>3. phase = "running" => pc[b] # "unwind"
      BY <1>1 DEF ProgressInv, PhaseFits
    <3>4. CanGo(b)
      BY <3>1, <3>2, <3>3 DEF CanGo, InLine, InFlight
    <3> QED BY <3>4
  (* No line: then everybody calls, waits for a slot or a call, or ended.  *)
  <2>2. CASE \A d \in Block : turn[d] = 0
    <3>1. \A b \in Block : pc[b] \in {"slot", "incall", "await", "done", "cancelled"}
      BY <1>1, <2>2, <2>p DEF ProgressInv, LineFits
    <3>2. CASE phase = "aborting"
      <4>1. pc[c] \in {"slot", "incall", "await"}
        BY <3>1, <3>2
      <4> QED BY <3>2, <4>1 DEF CanGo
    <3>3. CASE phase = "running"
      <4>1. \A b \in Block : pc[b] # "cancelled"
        BY <1>1, <3>3 DEF ProgressInv, PhaseFits
      (* The slots: with nobody in a call they are free.                   *)
      <4>2. CASE \E b \in Block : pc[b] = "incall"
        BY <3>3, <4>2 DEF CanGo
      <4>3. CASE (\A b \in Block : pc[b] # "incall") /\ \E b \in Block : pc[b] = "slot"
        <5>1. InCall = {}
          BY <4>3 DEF InCall
        <5>2. Cardinality(InCall) < Concurrency
          BY <5>1, FS_EmptySet, ConstantsAssumption
        <5> QED BY <3>3, <4>3, <5>2 DEF CanGo
      (* The futures: with no call to come, each has concluded.            *)
      <4>4. CASE \A b \in Block : pc[b] \notin {"slot", "incall"}
        <5>1. pc[c] = "await"
          BY <3>1, <3>3, <4>1, <4>4
        <5>2. waitsOn[c] \in Block /\ role[waitsOn[c]] = "owner"
          BY <2>f, <5>1 DEF RoleFits, PairFits
        <5>3. pc[waitsOn[c]] # "await"
          BY <2>f, <5>2 DEF RoleFits
        <5>4. pc[waitsOn[c]] = "done"
          BY <3>1, <4>1, <4>4, <5>2, <5>3
        <5>5. future[waitsOn[c]] \in {"ok", "failed"}
          BY <2>f, <5>2, <5>4 DEF FutureFits
        <5> QED BY <3>3, <5>1, <5>5 DEF CanGo
      <4> QED BY <4>2, <4>3, <4>4
    <3> QED BY <3>2, <3>3 DEF InFlight
  <2> QED BY <2>1, <2>2
<1> QED BY <1>1, ProgressInvHolds, PTL


-------------------------------------------------------------------------------
(* How far a task is from its end.  A task that is not in a call has left  *)
(* at most the steps of its remaining attempts and those after the last.   *)

Rank(b) ==
  CASE pc[b] \in {"idle", "done", "cancelled"} -> 0
    [] pc[b] = "unwind" -> 1
    [] pc[b] \in {"recordOk", "recordFail", "serveOk", "serveFail"} -> 2
    [] pc[b] = "await" -> 3
    [] pc[b] = "incall" -> 2 * (MaxRetries - attempts[b]) + 3
    [] pc[b] = "slot" -> 2 * (MaxRetries - attempts[b]) + 4
    [] pc[b] = "precheck" -> 2 * MaxRetries + 5

StepsAdvance ==
  [][\A b \in Block : TaskStep(b) =>
       /\ Rank(b) \in 1..(2 * MaxRetries + 5) /\ Rank(b)' \in 0..(Rank(b) - 1)
       /\ \A c \in Block \ {b} : Rank(c)' = Rank(c)]_vars

(* Every step of a task brings it closer to its end and leaves the others  *)
(* where they were: no retry, wake-up or cancellation sends a task round   *)
(* for ever, and the tasks of a run take at most NBlocks * (2 * MaxRetries *)
(* + 5) steps in all, whatever their order.  With OneCanGo this is what    *)
(* RunEnds needs of the code; fairness adds that a step that can be taken  *)
(* is taken.                                                               *)
THEOREM Advance == Spec => StepsAdvance
<1>1. ASSUME TypeOK, NEW b \in Block, TaskStep(b)
      PROVE  /\ Rank(b) \in 1..(2 * MaxRetries + 5) /\ Rank(b)' \in 0..(Rank(b) - 1)
             /\ \A c \in Block \ {b} : Rank(c)' = Rank(c)
  <2>m. MaxRetries \in Nat /\ attempts[b] \in 0..MaxRetries
    BY <1>1, ConstantsAssumption DEF TypeOK
  <2>p. /\ DOMAIN pc = Block /\ DOMAIN attempts = Block
        /\ pc = [c \in Block |-> pc[c]] /\ attempts = [c \in Block |-> attempts[c]]
    BY <1>1 DEF TypeOK
  (* Where the task goes from where it is.                                 *)
  <2>1. /\ \A c \in Block \ {b} : pc'[c] = pc[c] /\ attempts'[c] = attempts[c]
        /\ \/ pc[b] = "precheck" /\ pc'[b] = "done"
           \/ pc[b] = "precheck" /\ pc'[b] = "slot" /\ attempts' = attempts
           \/ pc[b] = "precheck" /\ pc'[b] = "await"
           \/ pc[b] = "slot" /\ pc'[b] = "incall" /\ attempts' = attempts
           \/ /\ pc[b] = "incall" /\ pc'[b] = "slot"
              /\ attempts[b] < MaxRetries /\ attempts'[b] = attempts[b] + 1
           \/ pc[b] = "incall" /\ pc'[b] \in {"recordOk", "recordFail"}
           \/ pc[b] = "await" /\ pc'[b] \in {"serveOk", "serveFail"}
           \/ /\ pc[b] \in {"recordOk", "recordFail", "serveOk", "serveFail"}
              /\ pc'[b] = "done"
           \/ pc[b] \in {"slot", "incall"} /\ pc'[b] = "unwind"
           \/ pc[b] \in Queued \cup {"unwind", "await"} /\ pc'[b] = "cancelled"
    <3> USE <2>p DEF Goto, tasks
    <3>1. CASE Precheck(b)
      BY <3>1 DEF Precheck, PrecheckSkip, PrecheckCached, PrecheckOwn, PrecheckJoin, Prechecking
    <3>2. CASE Call(b)
      BY <3>2 DEF Call, StartCall, CallRetries, CallReturns, CallFails
    <3>3. CASE Wake(b)
      BY <3>3 DEF Wake
    <3>4. CASE Record(b)
      BY <3>4 DEF Record, RecordOk, RecordFail, ServeOk, ServeFail, Recording
    <3>5. CASE Cancel(b)
      BY <3>5 DEF Cancel, CancelOwner, Unwind, CancelWaiter, CancelInLine, Queued
    <3> QED BY <1>1, <3>1, <3>2, <3>3, <3>4, <3>5 DEF TaskStep
  <2>2. \A c \in Block \ {b} : Rank(c)' = Rank(c)
    BY <2>1 DEF Rank
  <2>3. Rank(b) \in 1..(2 * MaxRetries + 5)
    BY <2>1, <2>m DEF Rank, Queued
  <2>4. Rank(b)' \in 0..(Rank(b) - 1)
    BY <2>1, <2>m DEF Rank, Queued
  <2> QED BY <2>2, <2>3, <2>4
<1>2. TypeOK /\ [Next]_vars =>
        [\A b \in Block : TaskStep(b) =>
           /\ Rank(b) \in 1..(2 * MaxRetries + 5) /\ Rank(b)' \in 0..(Rank(b) - 1)
           /\ \A c \in Block \ {b} : Rank(c)' = Rank(c)]_vars
  BY <1>1
<1> QED BY <1>2, TypeCorrect, PTL DEF Spec, StepsAdvance

===============================================================================
