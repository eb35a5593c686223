----------------------- MODULE TranslatePipelineProofs -----------------------
(***************************************************************************)
(* What TranslatePipeline guarantees for every document, every assignment  *)
(* of keys and every bound: its types, and one LLM call per cache key.     *)
(***************************************************************************)
EXTENDS TranslatePipeline, FiniteSetTheorems, TLAPS

(* What the types rest on: a run in progress has a number, a block that is *)
(* looked at has a key, and a waiter knows whom it waits for.              *)
RunNumbered == phase \in InFlight => run # 0
CandidatesKeyed == \A b \in Block : pc[b] = "precheck" => KeyOf[b] \in Keys
WaitersAttached ==
  \A b \in Block : pc[b] \in {"await", "serveOk", "serveFail"} => waitsOn[b] \in Block

WellFormed == TypeOK /\ RunNumbered /\ CandidatesKeyed /\ WaitersAttached

-------------------------------------------------------------------------------

(* A fresh text and an empty one are texts; so is whatever a lookup finds. *)
LEMMA TextTypes ==
  ASSUME TypeOK
  PROVE  /\ NoText \in Texts
         /\ \A b \in Block : run # 0 => FreshText(b) \in Texts
         /\ \A b \in Block : ManualText(b) \in Texts
         /\ \A k \in Keys : KnownTexts(k) \subseteq Texts
  <1>1. NoText \in Texts
    BY DEF Texts
  <1>2. ASSUME NEW b \in Block, run # 0
        PROVE  FreshText(b) \in Texts
    BY <1>2, ConstantsAssumption DEF TypeOK, FreshText, Texts
  <1>3. ASSUME NEW b \in Block
        PROVE  ManualText(b) \in Texts
    BY DEF ManualText, Texts
  <1>4. ASSUME NEW k \in Keys
        PROVE  KnownTexts(k) \subseteq Texts
    <2>1. \A e \in elsewhere : CopiedText(e) \in Texts
      BY DEF CopiedText, Texts, TypeOK
    <2>2. \A b \in Block : rows[b].text \in Texts
      BY DEF TypeOK, Row
    <2>3. DbTexts(k) \subseteq Texts
      BY <2>1, <2>2 DEF DbTexts
    <2>4. QED
      BY <2>3 DEF KnownTexts, TypeOK
  <1>5. QED
    BY <1>1, <1>2, <1>3, <1>4

(* What an upsert leaves is a row,                                         *)
LEMMA RecordedRowType ==
  ASSUME TypeOK, NEW b \in Block, NEW status \in {"failed", "translated"}, NEW text \in Texts
  PROVE  RecordedRow(b, status, text) \in Row
  <1>1. rows[b] \in Row /\ loaded[b] \in Row /\ KeyOf[b] \in Keys \cup {NoKey}
    BY ConstantsAssumption DEF TypeOK
  <1>2. QED
    BY <1>1 DEF RecordedRow, Flush, Row

(* in the table.                                                           *)
LEMMA UpsertType ==
  ASSUME TypeOK, NEW b \in Block, NEW status \in {"failed", "translated"},
         NEW text \in Texts, Upsert(b, status, text)
  PROVE  rows' \in [Block -> Row]
  BY RecordedRowType DEF Upsert, TypeOK

(* What a commit that is under way at an abort may be.                     *)
Commits(b, row) ==
  \/ /\ pc[b] = "precheck" /\ ~AlreadySettled(b)
     /\ \E text \in KnownTexts(KeyOf[b]) : row = CachedRow(b, text)
  \/ pc[b] = "recordOk" /\ row = RecordedRow(b, "translated", FreshText(b))
  \/ pc[b] = "serveOk" /\ row = RecordedRow(b, "translated", FreshText(waitsOn[b]))
  \/ pc[b] \in {"recordFail", "serveFail"} /\ row = RecordedRow(b, "failed", NoText)

(* An abort finds the task that holds the lock in one, or none.            *)
LEMMA CommitKinds ==
  ASSUME Abort, committing' # NoCommit
  PROVE  \E b \in Block : \E row :
           HoldsLock(b) /\ committing' = [block |-> b, row |-> row] /\ Commits(b, row)
  <1>1. PICK b \in Block : \E row \in CommitsOf(b) :
          HoldsLock(b) /\ committing' = [block |-> b, row |-> row]
    BY DEF Abort, CommitsUnderWay
  <1>2. PICK row \in CommitsOf(b) : HoldsLock(b) /\ committing' = [block |-> b, row |-> row]
    BY <1>1
  <1>3. Commits(b, row)
    <2>1. CASE pc[b] = "precheck"
      BY <1>2, <2>1 DEF CommitsOf, Commits
    <2>2. CASE pc[b] # "precheck"
      BY <1>2, <2>2 DEF CommitsOf, Commits
    <2>3. QED
      BY <2>1, <2>2
  <1>4. QED
    BY <1>2, <1>3

(* So it is the commit of a row.                                           *)
LEMMA CommitType ==
  ASSUME WellFormed, Abort
  PROVE  committing' \in [block : Block \cup {0}, row : Row]
  <1> USE DEF WellFormed
  <1>1. CASE committing' = NoCommit
    <2>1. AbsentRow \in Row
      BY DEF Texts, AbsentRow, Row
    <2>2. QED
      BY <1>1, <2>1 DEF NoCommit
  <1>2. CASE committing' # NoCommit
    <2>0. PICK b \in Block : \E row : committing' = [block |-> b, row |-> row] /\ Commits(b, row)
      BY <1>2, CommitKinds
    <2>1. PICK row : committing' = [block |-> b, row |-> row] /\ Commits(b, row)
      BY <2>0
    <2>2. run # 0
      BY DEF Abort, RunNumbered, InFlight
    <2>3. pc[b] = "serveOk" => waitsOn[b] \in Block
      BY DEF WaitersAttached
    <2>4. pc[b] = "precheck" => KeyOf[b] \in Keys
      BY DEF CandidatesKeyed
    <2>5. CASE pc[b] = "precheck"
      BY <2>1, <2>4, <2>5, TextTypes DEF Commits, CachedRow, Row
    <2>6. CASE pc[b] # "precheck"
      BY <2>1, <2>2, <2>3, <2>6, TextTypes, RecordedRowType DEF Commits
    <2>7. QED
      BY <2>1, <2>5, <2>6
  <1>3. QED
    BY <1>1, <1>2

(* Forgetting a run leaves its variables typed.                            *)
LEMMA ForgetRunType ==
  ASSUME ForgetRun
  PROVE  /\ pc' = [b \in Block |-> "idle"]
         /\ role' \in [Block -> {"none", "skipped", "cached", "owner", "waiter"}]
         /\ turn' \in [Block -> Nat]
         /\ arrivals' \in Nat
         /\ loaded' \in [Block -> Row]
         /\ waitsOn' \in [Block -> Block \cup {0}]
         /\ attempts' \in [Block -> 0..MaxRetries]
         /\ future' \in [Block -> {"none", "pending", "ok", "failed", "cancelled"}]
         /\ pendingFutures' \in [Keys -> Block \cup {0}]
         /\ pendingCache' \in [Keys -> Texts]
         /\ stats' \in [Outcome -> Nat]
  <1>1. NoText \in Texts /\ AbsentRow \in Row
    BY DEF Texts, AbsentRow, Row
  <1>2. QED
    BY <1>1, ConstantsAssumption DEF ForgetRun

-------------------------------------------------------------------------------

(* The initial state is well formed.                                       *)
LEMMA InitWellFormed == Init => WellFormed
  <1>1. NoText \in Texts /\ AbsentRow \in Row
    BY DEF Texts, AbsentRow, Row
  <1>2. Init => TypeOK
    <2> SUFFICES ASSUME Init
                 PROVE  TypeOK
      OBVIOUS
    <2>1. /\ run \in 0..MaxRuns
          /\ attempts \in [Block -> 0..MaxRetries]
          /\ stats \in [Outcome -> Nat]
          /\ turn \in [Block -> Nat] /\ arrivals \in Nat
      BY ConstantsAssumption DEF Init
    <2>2. /\ rows \in [Block -> Row] /\ loaded \in [Block -> Row]
          /\ pendingCache \in [Keys -> Texts]
      BY <1>1 DEF Init
    <2>3. committing \in [block : Block \cup {0}, row : Row] /\ elsewhere \subseteq Elsewhere
      BY <1>1 DEF Init, NoCommit
    <2>4. QED
      BY <2>1, <2>2, <2>3 DEF Init, TypeOK
  <1>3. Init => RunNumbered /\ CandidatesKeyed /\ WaitersAttached
    BY DEF Init, RunNumbered, CandidatesKeyed, WaitersAttached, InFlight
  <1>4. QED
    BY <1>2, <1>3 DEF WellFormed

(* Beginning, ending, aborting and crashing keep it well formed.           *)
LEMMA RunStepsWellFormed ==
  ASSUME WellFormed,
         \/ \E rf \in BOOLEAN : StartRun(rf)
         \/ Finalize \/ Abort \/ CommitEnds \/ AbortEnds \/ Crash
         \/ \E b \in Reader : ManualRetranslate(b)
         \/ \E e \in Elsewhere : OtherDocument(e)
  PROVE  WellFormed'
  <1> USE DEF WellFormed, TypeOK, RunNumbered, CandidatesKeyed, WaitersAttached,
              InFlight, Settled
  <1>1. ASSUME NEW rf \in BOOLEAN, StartRun(rf)
        PROVE  WellFormed'
    <2>1. NoText \in Texts /\ AbsentRow \in Row
      BY DEF Texts, AbsentRow, Row
    <2>2. Cardinality({b \in Block : KeyOf[b] = NoKey}) \in Nat
      <3>1. IsFiniteSet(Block)
        BY ConstantsAssumption, FS_Interval DEF Block
      <3>2. IsFiniteSet({b \in Block : KeyOf[b] = NoKey})
        BY <3>1, FS_Subset
      <3>3. QED
        BY <3>2, FS_CardinalityType
    <2>3. stats' \in [Outcome -> Nat]
      BY <1>1, <2>2 DEF StartRun
    <2>4. run' \in 0..MaxRuns /\ run' # 0
      BY <1>1, ConstantsAssumption DEF StartRun
    <2>5. /\ turn' \in [Block -> Nat] /\ arrivals' \in Nat
          /\ attempts' \in [Block -> 0..MaxRetries]
      BY <1>1, ConstantsAssumption DEF StartRun, Block
    <2>6. /\ loaded' \in [Block -> Row]
          /\ pendingCache' \in [Keys -> Texts]
          /\ pendingFutures' \in [Keys -> Block \cup {0}]
          /\ waitsOn' \in [Block -> Block \cup {0}]
      BY <1>1, <2>1 DEF StartRun
    <2>7. CandidatesKeyed' /\ WaitersAttached'
      BY <1>1, ConstantsAssumption DEF StartRun
    <2>8. QED
      BY <1>1, <2>3, <2>4, <2>5, <2>6, <2>7 DEF StartRun, durable
  <1>2. ASSUME Finalize
        PROVE  WellFormed'
    BY <1>2, ForgetRunType DEF Finalize
  <1>3. CASE Abort
    BY <1>3, CommitType DEF Abort, durable, tasks, shared
  <1>4. CASE AbortEnds
    BY <1>4, ForgetRunType DEF AbortEnds, durable
  <1>5. CASE Crash
    <2>1. NoCommit \in [block : Block \cup {0}, row : Row]
      BY DEF NoCommit, AbsentRow, Row, Texts
    <2>2. QED
      BY <1>5, <2>1, ForgetRunType DEF Crash, durable
  <1>6. ASSUME NEW b \in Reader, ManualRetranslate(b)
        PROVE  WellFormed'
    <2>1. b \in Block /\ ManualText(b) \in Texts
      BY TextTypes, ConstantsAssumption
    <2>2. rows' \in [Block -> Row]
      BY <1>6, <2>1 DEF ManualRetranslate, ManualRow, Row
    <2>3. QED
      BY <1>6, <2>2 DEF ManualRetranslate, control, tasks, shared
  <1>7. CASE CommitEnds
    <2>1. NoCommit \in [block : Block \cup {0}, row : Row]
      BY DEF NoCommit, AbsentRow, Row, Texts
    <2>2. rows' \in [Block -> Row]
      BY <1>7 DEF CommitEnds
    <2>3. QED
      BY <1>7, <2>1, <2>2 DEF CommitEnds, tasks, shared
  <1>8. ASSUME NEW e \in Elsewhere, OtherDocument(e)
        PROVE  WellFormed'
    BY <1>8 DEF OtherDocument, control, tasks, shared
  <1>9. QED
    BY <1>1, <1>2, <1>3, <1>4, <1>5, <1>6, <1>7, <1>8

(* Counting keeps the counts natural numbers.                              *)
LEMMA CountType ==
  ASSUME TypeOK, NEW o \in Outcome, Count(o)
  PROVE  stats' \in [Outcome -> Nat]
  BY DEF TypeOK, Count

(* So does a task's precheck,                                              *)
LEMMA PrecheckWellFormed ==
  ASSUME WellFormed, NEW b \in Block, Precheck(b)
  PROVE  WellFormed'
  <1> USE DEF WellFormed, TypeOK, RunNumbered, CandidatesKeyed, WaitersAttached,
              InFlight, Settled, Prechecking, Goto, LeaveLine
  <1>1. CASE PrecheckSkip(b)
    <2>1. stats' \in [Outcome -> Nat]
      BY <1>1, CountType DEF PrecheckSkip, Outcome
    <2>2. QED
      BY <1>1, <2>1 DEF PrecheckSkip, durable, control
  <1>2. CASE PrecheckCached(b)
    <2>1. KeyOf[b] \in Keys
      BY <1>2 DEF PrecheckCached
    <2>2. PICK text \in KnownTexts(KeyOf[b]) :
            /\ pendingCache' = [pendingCache EXCEPT ![KeyOf[b]] = text]
            /\ rows' = [rows EXCEPT ![b] = CachedRow(b, text)]
      BY <1>2 DEF PrecheckCached
    <2>3. text \in Texts
      BY <2>1, <2>2, TextTypes
    <2>4. rows' \in [Block -> Row] /\ pendingCache' \in [Keys -> Texts]
      BY <2>1, <2>2, <2>3 DEF CachedRow, Row
    <2>5. stats' \in [Outcome -> Nat]
      BY <1>2, CountType DEF PrecheckCached, Outcome
    <2>6. QED
      BY <1>2, <2>4, <2>5 DEF PrecheckCached, control
  <1>3. CASE PrecheckOwn(b)
    BY <1>3 DEF PrecheckOwn, durable, control
  <1>4. CASE PrecheckJoin(b)
    <2>1. pendingFutures[KeyOf[b]] \in Block
      BY <1>4 DEF PrecheckJoin
    <2>2. QED
      BY <1>4, <2>1 DEF PrecheckJoin, durable, control, shared
  <1>5. QED
    BY <1>1, <1>2, <1>3, <1>4 DEF Precheck

(* its call, its waiting and its cancellation,                             *)
LEMMA CallWellFormed ==
  ASSUME WellFormed, NEW b \in Block, Call(b) \/ Wake(b) \/ Cancel(b)
  PROVE  WellFormed'
  <1> USE DEF WellFormed, TypeOK, RunNumbered, CandidatesKeyed, WaitersAttached,
              InFlight, Settled, Goto, JoinLine, LeaveLine
  <1>1. CASE StartCall(b)
    BY <1>1 DEF StartCall, durable, control, shared
  <1>2. CASE CallRetries(b)
    <2>1. attempts' \in [Block -> 0..MaxRetries]
      BY <1>2, ConstantsAssumption DEF CallRetries
    <2>2. QED
      BY <1>2, <2>1 DEF CallRetries, durable, control, shared
  <1>3. CASE CallReturns(b)
    BY <1>3 DEF CallReturns, durable, control
  <1>4. CASE CallFails(b)
    BY <1>4 DEF CallFails, durable, control
  <1>5. CASE Wake(b)
    BY <1>5 DEF Wake, durable, control, shared
  <1>6. CASE CancelOwner(b)
    BY <1>6 DEF CancelOwner, durable, control, shared
  <1>7. CASE Unwind(b)
    BY <1>7 DEF Unwind, Unregister, durable, control
  <1>8. CASE CancelWaiter(b)
    BY <1>8 DEF CancelWaiter, durable, control
  <1>9. CASE CancelInLine(b)
    BY <1>9 DEF CancelInLine, durable, control, shared
  <1>10. QED
    BY <1>1, <1>2, <1>3, <1>4, <1>5, <1>6, <1>7, <1>8, <1>9 DEF Call, Cancel

(* and its recording.                                                      *)
LEMMA RecordWellFormed ==
  ASSUME WellFormed, NEW b \in Block, Record(b)
  PROVE  WellFormed'
  <1> USE DEF WellFormed, TypeOK, RunNumbered, CandidatesKeyed, WaitersAttached,
              InFlight, Settled, Recording, Goto, LeaveLine
  <1>1. phase = "running" /\ run # 0
    BY DEF Record, RecordOk, RecordFail, ServeOk, ServeFail
  <1>0. stats' \in [Outcome -> Nat]
    BY CountType DEF Record, RecordOk, RecordFail, ServeOk, ServeFail, Outcome
  <1>2. CASE RecordOk(b)
    <2>1. FreshText(b) \in Texts
      BY <1>1, TextTypes
    <2>2. rows' \in [Block -> Row]
      BY <1>2, <2>1, UpsertType DEF RecordOk
    <2>3. QED
      BY <1>0, <1>2, <2>1, <2>2 DEF RecordOk, Unregister, control
  <1>3. CASE RecordFail(b)
    <2>1. rows' \in [Block -> Row]
      BY <1>3, TextTypes, UpsertType DEF RecordFail
    <2>2. QED
      BY <1>0, <1>3, <2>1 DEF RecordFail, Unregister, control
  <1>4. CASE ServeOk(b)
    <2>1. FreshText(waitsOn[b]) \in Texts
      BY <1>1, <1>4, TextTypes DEF ServeOk
    <2>2. rows' \in [Block -> Row]
      BY <1>4, <2>1, UpsertType DEF ServeOk
    <2>3. QED
      BY <1>0, <1>4, <2>2 DEF ServeOk, control
  <1>5. CASE ServeFail(b)
    <2>1. rows' \in [Block -> Row]
      BY <1>5, TextTypes, UpsertType DEF ServeFail
    <2>2. QED
      BY <1>0, <1>5, <2>1 DEF ServeFail, control
  <1>6. QED
    BY <1>2, <1>3, <1>4, <1>5 DEF Record

(* Hence every step.                                                       *)
LEMMA WellFormedStep == WellFormed /\ [Next]_vars => WellFormed'
  <1> SUFFICES ASSUME WellFormed, [Next]_vars
               PROVE  WellFormed'
    OBVIOUS
  <1>1. ASSUME NEW b \in Block, TaskStep(b)
        PROVE  WellFormed'
    BY <1>1, PrecheckWellFormed, CallWellFormed, RecordWellFormed DEF TaskStep
  <1>2. CASE UNCHANGED vars
    BY <1>2 DEF WellFormed, TypeOK, RunNumbered, CandidatesKeyed, WaitersAttached,
                vars, durable, control, tasks, shared
  <1>3. QED
    BY <1>1, <1>2, RunStepsWellFormed DEF Next

(* And every reachable state is well formed.                               *)
LEMMA AlwaysWellFormed == Spec => []WellFormed
  BY InitWellFormed, WellFormedStep, PTL DEF Spec

(* Type correctness: whatever the document, the keys and the bounds, every *)
(* variable of translate_document's run keeps its type.                    *)
THEOREM TypeCorrect == Spec => []TypeOK
  <1>1. WellFormed => TypeOK
    BY DEF WellFormed
  <1>2. QED
    BY <1>1, AlwaysWellFormed, PTL

-------------------------------------------------------------------------------
(* A commit outlives only the run that was aborted amid it, and the task   *)
(* whose row it is never ends well.                                        *)

CommitPlaced ==
  committing # NoCommit =>
    /\ phase = "aborting"
    /\ committing.block \in Block
    /\ pc[committing.block] \notin {"idle", "done"}

(* An aborted run's tasks only unwind: they write no row and none ends     *)
(* well.                                                                   *)
LEMMA AbortedTasks ==
  ASSUME TypeOK, NEW b \in Block, TaskStep(b), phase # "running"
  PROVE  /\ UNCHANGED <<rows, docStatus, elsewhere, run, role, pendingCache, committing>>
         /\ \E label \in {"unwind", "cancelled"} : pc' = [pc EXCEPT ![b] = label]
         /\ \A c \in Block : future[c] # "pending" => future'[c] = future[c]
  <1>1. Cancel(b)
    BY DEF TaskStep, Precheck, PrecheckSkip, PrecheckCached, PrecheckOwn, PrecheckJoin,
           Prechecking, Call, StartCall, CallRetries, CallReturns, CallFails, Wake, Record,
           RecordOk, RecordFail, ServeOk, ServeFail, Recording
  <1>2. QED
    BY <1>1 DEF Cancel, CancelOwner, Unwind, CancelWaiter, CancelInLine, durable, control, shared,
                Goto, TypeOK

(* No task step touches the commit.                                        *)
LEMMA TasksLeaveCommit ==
  ASSUME NEW b \in Block, TaskStep(b)
  PROVE  UNCHANGED <<phase, committing>>
  BY DEF TaskStep, Precheck, PrecheckSkip, PrecheckCached, PrecheckOwn, PrecheckJoin, Call,
         StartCall, CallRetries, CallReturns, CallFails, Wake, Record, RecordOk, RecordFail,
         ServeOk, ServeFail, Cancel, CancelOwner, Unwind, CancelWaiter, CancelInLine, control

(* The commit stays placed until it ends.                                  *)
LEMMA CommitPlacedStep ==
  ASSUME TypeOK, CommitPlaced, [Next]_vars
  PROVE  CommitPlaced'
  <1>1. ASSUME NEW b \in Block, TaskStep(b)
        PROVE  CommitPlaced'
    <2>1. CASE committing = NoCommit
      BY <1>1, <2>1, TasksLeaveCommit DEF CommitPlaced, NoCommit, AbsentRow, NoText
    <2>2. CASE committing # NoCommit
      <3>1. phase = "aborting" /\ UNCHANGED <<phase, committing>>
        BY <1>1, <2>2, TasksLeaveCommit DEF CommitPlaced
      <3>2. PICK label \in {"unwind", "cancelled"} : pc' = [pc EXCEPT ![b] = label]
        BY <1>1, <3>1, AbortedTasks
      <3>3. QED
        BY <2>2, <3>1, <3>2 DEF CommitPlaced, TypeOK
    <2>3. QED
      BY <2>1, <2>2
  <1>2. CASE Abort
    <2>1. CASE committing' = NoCommit
      BY <2>1 DEF CommitPlaced, NoCommit, AbsentRow, NoText
    <2>2. CASE committing' # NoCommit
      <3>0. PICK b \in Block : \E row : committing' = [block |-> b, row |-> row] /\ Commits(b, row)
        BY <1>2, <2>2, CommitKinds
      <3>1. PICK row : committing' = [block |-> b, row |-> row] /\ Commits(b, row)
        BY <3>0
      <3>2. QED
        BY <1>2, <3>1 DEF Commits, Abort, CommitPlaced, tasks
    <2>3. QED
      BY <2>1, <2>2
  <1>3. ASSUME committing = NoCommit, UNCHANGED committing
        PROVE  CommitPlaced'
    BY <1>3 DEF CommitPlaced, NoCommit, AbsentRow, NoText
  <1>4. ASSUME committing' = NoCommit
        PROVE  CommitPlaced'
    BY <1>4 DEF CommitPlaced, NoCommit, AbsentRow, NoText
  <1>5. CASE \/ \E rf \in BOOLEAN : StartRun(rf)
             \/ Finalize \/ CommitEnds \/ AbortEnds \/ Crash
             \/ \E b \in Reader : ManualRetranslate(b)
             \/ \E e \in Elsewhere : OtherDocument(e)
    BY <1>3, <1>4, <1>5 DEF StartRun, Finalize, CommitEnds, AbortEnds, Crash, ManualRetranslate,
                            OtherDocument, control, CommitPlaced, InFlight
  <1>6. CASE UNCHANGED vars
    BY <1>6 DEF CommitPlaced, NoCommit, AbsentRow, NoText, vars, control, tasks
  <1>7. QED
    BY <1>1, <1>2, <1>5, <1>6 DEF Next

(* So it is in every reachable state.                                      *)
LEMMA AlwaysPlaced == Spec => []CommitPlaced
  <1>1. Init => CommitPlaced
    BY DEF Init, CommitPlaced
  <1>2. TypeOK /\ CommitPlaced /\ [Next]_vars => CommitPlaced'
    BY CommitPlacedStep
  <1>3. QED
    BY <1>1, <1>2, TypeCorrect, PTL DEF Spec

-------------------------------------------------------------------------------
(* One call per cache key.  The lock serves in order of arrival, and every *)
(* task is in its line before the first call returns: so no owner records  *)
(* an outcome, and drops its registration, while a task still has its      *)
(* first look at its block ahead of it.  Until then whoever finds the same *)
(* key finds the registration too.                                         *)

Prechecked == \A b \in Block : pc[b] # "precheck"

LineOrdered ==
  \A b \in Block :
    /\ turn[b] <= arrivals
    /\ pc[b] = "precheck" =>
         /\ turn[b] # 0
         /\ \A c \in Block : pc[c] # "precheck" /\ turn[c] # 0 => turn[b] < turn[c]

RegistrationKept ==
  \A b \in Block :
    role[b] = "owner" => KeyOf[b] \in Keys /\ (Prechecked \/ pendingFutures[KeyOf[b]] = b)

SingleCallInv == WellFormed /\ LineOrdered /\ RegistrationKept /\ OneCallPerKey

(* Who holds the lock after the first look finds no first look pending.    *)
LEMMA PastPrecheck ==
  ASSUME TypeOK, LineOrdered, NEW b \in Block, HoldsLock(b), pc[b] # "precheck"
  PROVE  Prechecked
  BY DEF HoldsLock, LineOrdered, Prechecked, TypeOK

(* Initially nobody is in line, registered or owning.                      *)
LEMMA InitSingleCall == Init => LineOrdered /\ RegistrationKept /\ OneCallPerKey
  BY DEF Init, LineOrdered, RegistrationKept, OneCallPerKey

(* A step that neither adds a first look nor touches the line keeps it in  *)
(* order; so does leaving the line, and joining it at its end.             *)
LEMMA LineStep ==
  ASSUME WellFormed, LineOrdered, NEW b \in Block, TaskStep(b)
  PROVE  LineOrdered'
  <1> USE DEF WellFormed, TypeOK, LineOrdered, Goto
  <1>1. ASSUME LeaveLine(b), NEW label, pc' = [pc EXCEPT ![b] = label], label # "precheck"
        PROVE  LineOrdered'
    BY <1>1 DEF LeaveLine
  <1>2. ASSUME JoinLine(b), NEW label, pc' = [pc EXCEPT ![b] = label], label # "precheck"
        PROVE  LineOrdered'
    BY <1>2 DEF JoinLine
  <1>3. ASSUME UNCHANGED <<turn, arrivals>>, NEW label, pc[b] # "precheck",
               pc' = [pc EXCEPT ![b] = label], label # "precheck"
        PROVE  LineOrdered'
    BY <1>3
  <1>4. CASE Precheck(b)
    BY <1>1, <1>4 DEF Precheck, PrecheckSkip, PrecheckCached, PrecheckOwn, PrecheckJoin
  <1>5. CASE Call(b)
    BY <1>2, <1>3, <1>5 DEF Call, StartCall, CallRetries, CallReturns, CallFails
  <1>6. CASE Wake(b)
    BY <1>2, <1>6 DEF Wake
  <1>7. CASE Record(b)
    BY <1>1, <1>7 DEF Record, RecordOk, RecordFail, ServeOk, ServeFail, Recording
  <1>8. CASE Cancel(b)
    BY <1>1, <1>2, <1>3, <1>8
    DEF Cancel, CancelOwner, Unwind, CancelWaiter, CancelInLine
  <1>9. QED
    BY <1>4, <1>5, <1>6, <1>7, <1>8 DEF TaskStep

(* A task's step keeps a key registered while its owner has not recorded,  *)
(* and gives it no second owner.                                           *)
LEMMA RegistrationStep ==
  ASSUME SingleCallInv, NEW b \in Block, TaskStep(b)
  PROVE  RegistrationKept' /\ OneCallPerKey'
  <1> USE DEF SingleCallInv, WellFormed, TypeOK, Goto
  <1>1. ASSUME UNCHANGED <<role, pendingFutures>>, NEW label,
               pc' = [pc EXCEPT ![b] = label], label # "precheck"
        PROVE  RegistrationKept' /\ OneCallPerKey'
    BY <1>1 DEF RegistrationKept, OneCallPerKey, Prechecked
  <1>2. ASSUME UNCHANGED role, HoldsLock(b), pc[b] # "precheck", NEW label,
               pc' = [pc EXCEPT ![b] = label], label # "precheck"
        PROVE  RegistrationKept' /\ OneCallPerKey'
    <2>1. Prechecked'
      BY <1>2, PastPrecheck DEF Prechecked
    <2>2. QED
      BY <1>2, <2>1 DEF RegistrationKept, OneCallPerKey
  <1>3. ASSUME UNCHANGED pendingFutures, NEW r, role' = [role EXCEPT ![b] = r],
               r # "owner", NEW label, pc' = [pc EXCEPT ![b] = label], label # "precheck"
        PROVE  RegistrationKept' /\ OneCallPerKey'
    BY <1>3 DEF RegistrationKept, OneCallPerKey, Prechecked
  <1>4. CASE PrecheckOwn(b)
    <2>1. KeyOf[b] \in Keys /\ ~Prechecked /\ b # 0
      BY <1>4, ConstantsAssumption
      DEF PrecheckOwn, Prechecking, CandidatesKeyed, Prechecked, Block
    <2>2. \A c \in Block : role[c] = "owner" => KeyOf[c] # KeyOf[b]
      BY <1>4, <2>1, ConstantsAssumption DEF PrecheckOwn, RegistrationKept, Block
    <2>3. pendingFutures' = [pendingFutures EXCEPT ![KeyOf[b]] = b]
          /\ role' = [role EXCEPT ![b] = "owner"] /\ pc' = [pc EXCEPT ![b] = "slot"]
      BY <1>4 DEF PrecheckOwn
    <2>4. RegistrationKept'
      BY <2>1, <2>2, <2>3 DEF RegistrationKept, Prechecked
    <2>5. OneCallPerKey'
      BY <2>2, <2>3 DEF OneCallPerKey
    <2>6. QED
      BY <2>4, <2>5
  <1>5. CASE PrecheckSkip(b) \/ PrecheckCached(b) \/ PrecheckJoin(b)
    BY <1>3, <1>5 DEF PrecheckSkip, PrecheckCached, PrecheckJoin, shared
  <1>6. CASE Call(b) \/ Wake(b) \/ CancelOwner(b) \/ CancelWaiter(b) \/ CancelInLine(b)
    BY <1>1, <1>6 DEF Call, StartCall, CallRetries, CallReturns, CallFails, Wake,
                      CancelOwner, CancelWaiter, CancelInLine, shared
  <1>7. CASE Record(b) \/ Unwind(b)
    BY <1>2, <1>7 DEF Record, RecordOk, RecordFail, ServeOk, ServeFail, Unwind, Recording
  <1>8. QED
    BY <1>4, <1>5, <1>6, <1>7 DEF TaskStep, Precheck, Cancel

(* Every step keeps the invariant.                                         *)
LEMMA SingleCallStep == SingleCallInv /\ [Next]_vars => SingleCallInv'
  <1> SUFFICES ASSUME SingleCallInv, [Next]_vars
               PROVE  SingleCallInv'
    OBVIOUS
  <1>1. WellFormed'
    BY WellFormedStep DEF SingleCallInv
  <1>2. ASSUME NEW b \in Block, TaskStep(b)
        PROVE  SingleCallInv'
    BY <1>1, <1>2, LineStep, RegistrationStep DEF SingleCallInv
  <1>3. ASSUME NEW rf \in BOOLEAN, StartRun(rf)
        PROVE  SingleCallInv'
    <2>1. LineOrdered'
      BY <1>3, ConstantsAssumption DEF StartRun, LineOrdered, Block
    <2>2. RegistrationKept' /\ OneCallPerKey'
      BY <1>3 DEF StartRun, RegistrationKept, OneCallPerKey
    <2>3. QED
      BY <1>1, <2>1, <2>2 DEF SingleCallInv
  <1>4. ASSUME Finalize \/ AbortEnds \/ Crash
        PROVE  SingleCallInv'
    <2>1. ForgetRun
      BY <1>4 DEF Finalize, AbortEnds, Crash
    <2>2. LineOrdered' /\ RegistrationKept' /\ OneCallPerKey'
      BY <2>1 DEF ForgetRun, LineOrdered, RegistrationKept, OneCallPerKey
    <2>3. QED
      BY <1>1, <2>2 DEF SingleCallInv
  <1>5. ASSUME UNCHANGED <<tasks, shared>>
        PROVE  SingleCallInv'
    BY <1>1, <1>5 DEF SingleCallInv, LineOrdered, RegistrationKept, OneCallPerKey,
                      Prechecked, tasks, shared
  <1>6. QED
    BY <1>2, <1>3, <1>4, <1>5
    DEF Next, Abort, CommitEnds, ManualRetranslate, OtherDocument, vars

(* "Each unique cache_key triggers at most one LLM call": for any document *)
(* and any schedule of its tasks, and whatever the calls answer, no two    *)
(* tasks of a run own a call for the same key.                             *)
THEOREM OneCall == Spec => []OneCallPerKey
  <1>1. Init => SingleCallInv
    BY InitWellFormed, InitSingleCall DEF SingleCallInv
  <1>2. SingleCallInv => OneCallPerKey
    BY DEF SingleCallInv
  <1>3. QED
    BY <1>1, <1>2, SingleCallStep, PTL DEF Spec

-------------------------------------------------------------------------------
(* A manual text stays where it is, also when runs and readers overlap.    *)
(* It is never read by a lookup, since its row has no key; and a stale     *)
(* session object does not give that row a key again, since the task that  *)
(* holds it loaded a failed row, which had the same key.                   *)

Working == {"slot", "incall", "await", "recordOk", "recordFail", "serveOk", "serveFail",
            "unwind"}

FailedPlain(r, b) == r.status = "failed" => r.key = KeyOf[b] /\ r.text = NoText

FailedRowsPlain ==
  \A b \in Block :
    /\ FailedPlain(rows[b], b) /\ FailedPlain(loaded[b], b)
    /\ pc[b] \in Working => loaded[b].status # "translated"

ManualUnkeyed ==
  \A b, c \in Block :
    rows[b].text = ManualText(c) => b = c /\ rows[b].key \notin Keys

CacheWithoutManual == \A k \in Keys, c \in Block : pendingCache[k] # ManualText(c)

(* So it is with the row of a commit that is still under way.              *)
CommitLocal ==
  /\ FailedPlain(committing.row, committing.block)
  /\ \A c \in Block :
       committing.row.text = ManualText(c) =>
         committing.block = c /\ committing.row.key \notin Keys

LocalInv ==
  WellFormed /\ FailedRowsPlain /\ ManualUnkeyed /\ CacheWithoutManual /\ CommitLocal

(* Texts of different origin differ.                                       *)
LEMMA TextsDiffer ==
  \A c \in Block :
    /\ NoText # ManualText(c)
    /\ \A b \in Block : FreshText(b) # ManualText(c) /\ FreshText(b) # NoText
    /\ \A e \in Elsewhere : CopiedText(e) # ManualText(c)
  BY DEF NoText, FreshText, ManualText, CopiedText

(* Initially there are no rows and nothing is cached.                      *)
LEMMA InitLocal == Init => FailedRowsPlain /\ ManualUnkeyed /\ CacheWithoutManual /\ CommitLocal
  BY TextsDiffer DEF Init, FailedRowsPlain, FailedPlain, ManualUnkeyed, CommitLocal,
                     CacheWithoutManual, NoCommit, AbsentRow, Working

(* No lookup finds a manual text.                                          *)
LEMMA KnownWithoutManual ==
  ASSUME LocalInv, NEW k \in Keys, NEW c \in Block
  PROVE  ManualText(c) \notin KnownTexts(k)
  BY TextsDiffer
  DEF LocalInv, ManualUnkeyed, CacheWithoutManual, KnownTexts, DbTexts, WellFormed, TypeOK

(* The row a task at work records is as rows should be, and has a manual   *)
(* text only if the block's row has it, under the key it has there.        *)
LEMMA RecordedLocal ==
  ASSUME LocalInv, NEW b \in Block, pc[b] \in Working, NEW status, NEW text,
         \/ status = "translated" /\ \E c \in Block : text = FreshText(c)
         \/ status = "failed" /\ text = NoText
  PROVE  /\ FailedPlain(RecordedRow(b, status, text), b)
         /\ \A c \in Block :
              RecordedRow(b, status, text).text = ManualText(c) =>
                /\ rows[b].text = ManualText(c)
                /\ RecordedRow(b, status, text).key = rows[b].key
  <1> DEFINE r == RecordedRow(b, status, text)
  <1>1. \A c \in Block : text # ManualText(c)
    BY TextsDiffer
  <1>2. loaded[b].status \in {"absent", "failed"} /\ FailedPlain(loaded[b], b)
        /\ FailedPlain(rows[b], b)
    BY DEF LocalInv, FailedRowsPlain, WellFormed, TypeOK, Row
  <1>3. CASE loaded[b].status = "absent"
    <2>1. r = [status |-> status, text |-> text, key |-> KeyOf[b]]
      BY <1>3 DEF RecordedRow
    <2>2. QED
      BY <1>1, <2>1 DEF FailedPlain
  <1>4. CASE loaded[b].status = "failed"
    <2>1. /\ r.status = IF status # "failed" THEN status ELSE rows[b].status
          /\ r.text = IF text # NoText THEN text ELSE rows[b].text
          /\ r.key = rows[b].key
      BY <1>2, <1>4 DEF RecordedRow, Flush, FailedPlain
    <2>2. FailedPlain(r, b)
      BY <1>2, <2>1, TextsDiffer DEF FailedPlain
    <2>3. \A c \in Block : r.text = ManualText(c) => rows[b].text = ManualText(c)
      BY <1>1, <2>1
    <2>4. QED
      BY <2>1, <2>2, <2>3
  <1>5. QED
    BY <1>2, <1>3, <1>4

(* An upsert by a task keeps rows as they should be.                       *)
LEMMA UpsertLocal ==
  ASSUME LocalInv, NEW b \in Block, pc[b] \in Working,
         NEW status, NEW text, Upsert(b, status, text),
         \/ status = "translated" /\ \E c \in Block : text = FreshText(c)
         \/ status = "failed" /\ text = NoText
  PROVE  /\ \A c \in Block : FailedPlain(rows'[c], c)
         /\ ManualUnkeyed'
  <1> DEFINE r == RecordedRow(b, status, text)
  <1>1. rows' = [rows EXCEPT ![b] = r] /\ rows \in [Block -> Row]
    BY DEF Upsert, LocalInv, WellFormed, TypeOK
  <1>2. /\ FailedPlain(r, b)
        /\ \A c \in Block : r.text = ManualText(c) =>
             rows[b].text = ManualText(c) /\ r.key = rows[b].key
    BY RecordedLocal
  <1> HIDE DEF r
  <1>3. \A c \in Block : FailedPlain(rows'[c], c)
    BY <1>1, <1>2 DEF LocalInv, FailedRowsPlain
  <1>4. ManualUnkeyed'
    BY <1>1, <1>2 DEF LocalInv, ManualUnkeyed, ManualText
  <1>5. QED
    BY <1>3, <1>4

(* An abort finds a commit of such a row only.                             *)
LEMMA AbortLocal ==
  ASSUME LocalInv, Abort
  PROVE  CommitLocal'
  <1>1. CASE committing' = NoCommit
    BY <1>1, TextsDiffer DEF CommitLocal, NoCommit, AbsentRow, FailedPlain, ManualText
  <1>2. CASE committing' # NoCommit
    <2>0. PICK b \in Block : \E row : committing' = [block |-> b, row |-> row] /\ Commits(b, row)
      BY <1>2, CommitKinds
    <2>1. PICK row : committing' = [block |-> b, row |-> row] /\ Commits(b, row)
      BY <2>0
    <2>2. CASE pc[b] = "precheck"
      <3>1. PICK text \in KnownTexts(KeyOf[b]) : row = CachedRow(b, text)
        BY <2>1, <2>2 DEF Commits
      <3>2. \A c \in Block : text # ManualText(c)
        BY <2>2, <3>1, KnownWithoutManual DEF LocalInv, WellFormed, CandidatesKeyed
      <3>3. QED
        BY <2>1, <3>1, <3>2 DEF CommitLocal, FailedPlain, CachedRow, ManualText
    <2>3. CASE pc[b] # "precheck"
      <3>1. /\ pc[b] \in Working
            /\ \/ row = RecordedRow(b, "translated", FreshText(b))
               \/ /\ row = RecordedRow(b, "translated", FreshText(waitsOn[b]))
                  /\ waitsOn[b] \in Block
               \/ row = RecordedRow(b, "failed", NoText)
        BY <2>1, <2>3 DEF Commits, Working, LocalInv, WellFormed, WaitersAttached
      <3>2. /\ FailedPlain(row, b)
            /\ \A c \in Block : row.text = ManualText(c) =>
                 rows[b].text = ManualText(c) /\ row.key = rows[b].key
        BY <3>1, RecordedLocal
      <3>3. \A c \in Block : row.text = ManualText(c) => b = c /\ row.key \notin Keys
        BY <3>2 DEF LocalInv, ManualUnkeyed
      <3>4. committing'.row = row /\ committing'.block = b
        BY <2>1
      <3>5. QED
        BY <3>2, <3>3, <3>4 DEF CommitLocal, FailedPlain, ManualText
    <2>4. QED
      BY <2>2, <2>3
  <1>3. QED
    BY <1>1, <1>2

(* A task's step puts no manual text under a key.                          *)
LEMMA TaskLocal ==
  ASSUME LocalInv, NEW b \in Block, TaskStep(b)
  PROVE  FailedRowsPlain' /\ ManualUnkeyed' /\ CacheWithoutManual'
  <1> USE DEF LocalInv, WellFormed, TypeOK, Goto
  <1>1. ASSUME UNCHANGED <<rows, loaded, pendingCache>>,
               NEW label, pc' = [pc EXCEPT ![b] = label],
               label \in Working => pc[b] \in Working
        PROVE  FailedRowsPlain' /\ ManualUnkeyed' /\ CacheWithoutManual'
    BY <1>1 DEF FailedRowsPlain, ManualUnkeyed, CacheWithoutManual, FailedPlain, ManualText
  <1>2. CASE PrecheckSkip(b) \/ PrecheckOwn(b) \/ PrecheckJoin(b)
    <2>1. /\ UNCHANGED <<rows, pendingCache>>
          /\ loaded' = [loaded EXCEPT ![b] = rows[b]]
          /\ \/ pc' = [pc EXCEPT ![b] = "done"]
             \/ pc' = [pc EXCEPT ![b] = "slot"] /\ rows[b].status # "translated"
             \/ pc' = [pc EXCEPT ![b] = "await"] /\ rows[b].status # "translated"
      BY <1>2 DEF PrecheckSkip, PrecheckOwn, PrecheckJoin, AlreadySettled, durable, shared
    <2>2. FailedRowsPlain'
      BY <2>1 DEF FailedRowsPlain, FailedPlain, Working
    <2>3. QED
      BY <2>1, <2>2 DEF ManualUnkeyed, CacheWithoutManual, ManualText
  <1>3. CASE PrecheckCached(b)
    <2>1. KeyOf[b] \in Keys
      BY <1>3 DEF PrecheckCached, Prechecking, CandidatesKeyed
    <2>2. PICK text \in KnownTexts(KeyOf[b]) :
            /\ pendingCache' = [pendingCache EXCEPT ![KeyOf[b]] = text]
            /\ rows' = [rows EXCEPT ![b] = CachedRow(b, text)]
      BY <1>3 DEF PrecheckCached
    <2>3. \A c \in Block : text # ManualText(c)
      BY <2>1, <2>2, KnownWithoutManual
    <2>4. loaded' = [loaded EXCEPT ![b] = rows[b]] /\ pc' = [pc EXCEPT ![b] = "done"]
      BY <1>3 DEF PrecheckCached
    <2>5. FailedRowsPlain'
      BY <2>2, <2>4 DEF FailedRowsPlain, FailedPlain, Working, CachedRow
    <2>6. ManualUnkeyed'
      BY <2>2, <2>3 DEF ManualUnkeyed, ManualText, CachedRow
    <2>7. CacheWithoutManual'
      BY <2>2, <2>3 DEF CacheWithoutManual, ManualText
    <2>8. QED
      BY <2>5, <2>6, <2>7
  <1>4. CASE Call(b) \/ Wake(b) \/ Cancel(b)
    <2>1. UNCHANGED <<rows, loaded, pendingCache>>
      BY <1>4 DEF Call, StartCall, CallRetries, CallReturns, CallFails, Wake, Cancel,
                  CancelOwner, Unwind, CancelWaiter, CancelInLine, durable, shared
    <2>2. \E label : pc' = [pc EXCEPT ![b] = label]
                      /\ (label \in Working => pc[b] \in Working)
      BY <1>4 DEF Call, StartCall, CallRetries, CallReturns, CallFails, Wake, Cancel,
                  CancelOwner, Unwind, CancelWaiter, CancelInLine, Working
    <2>3. QED
      BY <1>1, <2>1, <2>2
  <1>5. CASE Record(b)
    <2>1. /\ pc[b] \in Working /\ pc' = [pc EXCEPT ![b] = "done"]
          /\ UNCHANGED loaded
      BY <1>5 DEF Record, RecordOk, RecordFail, ServeOk, ServeFail, Recording, Working
    <2>2. \/ Upsert(b, "translated", FreshText(b))
          \/ Upsert(b, "translated", FreshText(waitsOn[b])) /\ waitsOn[b] \in Block
          \/ Upsert(b, "failed", NoText)
      BY <1>5 DEF Record, RecordOk, RecordFail, ServeOk, ServeFail, Recording,
                  WaitersAttached
    <2>3. (\A c \in Block : FailedPlain(rows'[c], c)) /\ ManualUnkeyed'
      BY <2>1, <2>2, UpsertLocal
    <2>4. CacheWithoutManual'
      <3>1. \/ UNCHANGED pendingCache
            \/ pendingCache' = [pendingCache EXCEPT ![KeyOf[b]] = FreshText(b)]
        BY <1>5 DEF Record, RecordOk, RecordFail, ServeOk, ServeFail
      <3>2. \A c \in Block : FreshText(b) # ManualText(c)
        BY TextsDiffer
      <3>3. QED
        BY <3>1, <3>2 DEF CacheWithoutManual, ManualText
    <2>5. FailedRowsPlain'
      BY <2>1, <2>3 DEF FailedRowsPlain, FailedPlain, Working
    <2>6. QED
      BY <2>3, <2>4, <2>5
  <1>6. QED
    BY <1>2, <1>3, <1>4, <1>5 DEF TaskStep, Precheck

(* Nor does any other step.                                                *)
LEMMA LocalStep == LocalInv /\ [Next]_vars => LocalInv'
  <1> SUFFICES ASSUME LocalInv, [Next]_vars
               PROVE  LocalInv'
    OBVIOUS
  <1>0. WellFormed'
    BY WellFormedStep DEF LocalInv
  <1>1. ASSUME NEW b \in Block, TaskStep(b)
        PROVE  LocalInv'
    <2>1. CommitLocal'
      BY <1>1, TasksLeaveCommit DEF LocalInv, CommitLocal, FailedPlain, ManualText
    <2>2. QED
      BY <1>0, <1>1, <2>1, TaskLocal DEF LocalInv
  <1>2. ASSUME NEW b \in Reader, ManualRetranslate(b)
        PROVE  LocalInv'
    <2>1. b \in Block /\ NoKey \notin Keys
      BY ConstantsAssumption
    <2>2. /\ rows' = [rows EXCEPT ![b] = ManualRow(b)]
          /\ UNCHANGED <<pc, loaded, pendingCache, committing>> /\ rows \in [Block -> Row]
      BY <1>2 DEF ManualRetranslate, control, tasks, shared, LocalInv, WellFormed, TypeOK
    <2>3. FailedRowsPlain'
      BY <2>1, <2>2 DEF LocalInv, FailedRowsPlain, FailedPlain, ManualRow
    <2>4. \A c \in Block : ManualText(b) = ManualText(c) => b = c
      BY DEF ManualText
    <2>5. ManualUnkeyed'
      BY <2>1, <2>2, <2>4 DEF LocalInv, ManualUnkeyed, ManualText, ManualRow
    <2>6. CacheWithoutManual' /\ CommitLocal'
      BY <2>2 DEF LocalInv, CacheWithoutManual, CommitLocal, FailedPlain, ManualText
    <2>7. QED
      BY <1>0, <2>3, <2>5, <2>6 DEF LocalInv
  <1>3. ASSUME UNCHANGED rows, loaded' = [b \in Block |-> AbsentRow],
               pendingCache' = [k \in Keys |-> NoText],
               UNCHANGED committing \/ committing' = NoCommit
        PROVE  LocalInv'
    <2>1. FailedRowsPlain' /\ ManualUnkeyed'
      BY <1>3 DEF LocalInv, FailedRowsPlain, FailedPlain, ManualUnkeyed, AbsentRow,
                  ManualText
    <2>2. CacheWithoutManual'
      BY <1>3, TextsDiffer DEF CacheWithoutManual, ManualText
    <2>3. CommitLocal'
      BY <1>3, TextsDiffer DEF LocalInv, CommitLocal, FailedPlain, NoCommit, AbsentRow, ManualText
    <2>4. QED
      BY <1>0, <2>1, <2>2, <2>3 DEF LocalInv
  <1>4. CASE \E rf \in BOOLEAN : StartRun(rf)
    BY <1>3, <1>4 DEF StartRun, durable
  <1>5. CASE Finalize \/ AbortEnds \/ Crash
    BY <1>3, <1>5 DEF Finalize, AbortEnds, Crash, ForgetRun, durable
  <1>6. ASSUME UNCHANGED <<rows, tasks, shared>>, CommitLocal'
        PROVE  LocalInv'
    BY <1>0, <1>6 DEF LocalInv, FailedRowsPlain, FailedPlain, ManualUnkeyed, ManualText,
                      CacheWithoutManual, tasks, shared
  <1>7. CASE Abort
    BY <1>6, <1>7, AbortLocal DEF Abort, durable
  <1>8. CASE CommitEnds
    <2>1. /\ rows' = [rows EXCEPT ![committing.block] = committing.row] \/ UNCHANGED rows
          /\ committing' = NoCommit /\ UNCHANGED <<pc, loaded, pendingCache>>
          /\ rows \in [Block -> Row]
      BY <1>8 DEF CommitEnds, tasks, shared, LocalInv, WellFormed, TypeOK
    <2>2. CommitLocal'
      BY <2>1, TextsDiffer DEF CommitLocal, FailedPlain, NoCommit, AbsentRow, ManualText
    <2>3. FailedRowsPlain'
      BY <2>1 DEF LocalInv, FailedRowsPlain, CommitLocal, FailedPlain
    <2>4. ManualUnkeyed'
      BY <2>1 DEF LocalInv, ManualUnkeyed, CommitLocal, ManualText
    <2>5. CacheWithoutManual'
      BY <2>1 DEF LocalInv, CacheWithoutManual, ManualText
    <2>6. QED
      BY <1>0, <2>2, <2>3, <2>4, <2>5 DEF LocalInv
  <1>9. ASSUME UNCHANGED committing
        PROVE  CommitLocal'
    BY <1>9 DEF LocalInv, CommitLocal, FailedPlain, ManualText
  <1>10. CASE (\E e \in Elsewhere : OtherDocument(e)) \/ UNCHANGED vars
    BY <1>6, <1>9, <1>10 DEF OtherDocument, vars, durable, control
  <1>11. QED
    BY <1>1, <1>2, <1>4, <1>5, <1>7, <1>8, <1>10 DEF Next

(* "Manual retranslate must NOT pollute the global cache": however runs    *)
(* and readers interleave, a manual text is on no block but its own.       *)
THEOREM ManualLocal == Spec => []ManualStaysLocal
  <1>1. Init => LocalInv
    BY InitWellFormed, InitLocal DEF LocalInv
  <1>2. LocalInv => ManualStaysLocal
    BY DEF LocalInv, ManualUnkeyed, ManualStaysLocal
  <1>3. QED
    BY <1>1, <1>2, LocalStep, PTL DEF Spec

-------------------------------------------------------------------------------
(* Translated rows are kept, if no reader retranslates during a run: what  *)
(* Phase 1 read of a row still holds when the outcome is recorded, and     *)
(* when a commit lands that was under way at an abort.                     *)

WorkedRowsOpen ==
  /\ phase = "running" =>
       \A b \in Block : pc[b] \in Working => rows[b].status # "translated"
  /\ committing # NoCommit => rows[committing.block].status # "translated"

(* A task past its precheck goes on working on a row that is not           *)
(* translated.                                                             *)
LEMMA OpenStep ==
  ASSUME ~Overlap, WellFormed, CommitPlaced, WorkedRowsOpen, [Next]_vars
  PROVE  WorkedRowsOpen'
  <1> USE DEF WorkedRowsOpen, Working, WellFormed, TypeOK, InFlight
  <1>n. committing' = NoCommit => (committing # NoCommit => rows[committing.block].status # "translated")'
    BY DEF NoCommit, AbsentRow, NoText
  <1>1. ASSUME NEW b \in Block, TaskStep(b), phase = "running"
        PROVE  WorkedRowsOpen'
    <2> USE DEF Goto
    <2>0. committing' = NoCommit
      BY <1>1, TasksLeaveCommit DEF CommitPlaced, NoCommit, AbsentRow, NoText
    <2>1. CASE Precheck(b)
      BY <1>n, <2>0, <2>1 DEF Precheck, PrecheckSkip, PrecheckCached, PrecheckOwn, PrecheckJoin,
                  AlreadySettled, Prechecking, durable, control
    <2>2. CASE Call(b) \/ Wake(b) \/ Cancel(b)
      BY <1>n, <2>0, <2>2 DEF Call, StartCall, CallRetries, CallReturns, CallFails, Wake, Cancel,
                  CancelOwner, Unwind, CancelWaiter, CancelInLine, durable, control
    <2>3. CASE Record(b)
      <3>1. /\ pc' = [pc EXCEPT ![b] = "done"] /\ UNCHANGED phase
            /\ \A c \in Block \ {b} : rows'[c] = rows[c]
        BY <2>3 DEF Record, RecordOk, RecordFail, ServeOk, ServeFail, Recording, Upsert,
                    control
      <3>2. QED
        BY <1>n, <2>0, <3>1, <2>3
        DEF Record, RecordOk, RecordFail, ServeOk, ServeFail, Recording
    <2>4. QED
      BY <1>1, <2>1, <2>2, <2>3 DEF TaskStep
  <1>2. ASSUME NEW b \in Block, TaskStep(b), phase # "running"
        PROVE  WorkedRowsOpen'
    <2>1. UNCHANGED <<phase, committing, rows>>
      BY <1>2, AbortedTasks, TasksLeaveCommit
    <2>2. QED
      BY <1>2, <2>1 DEF NoCommit, AbsentRow, NoText
  <1>3. CASE \E rf \in BOOLEAN : StartRun(rf)
    BY <1>3, <1>n DEF StartRun, CommitPlaced
  <1>4. CASE Finalize \/ AbortEnds \/ Crash
    BY <1>4, <1>n DEF Finalize, AbortEnds, Crash, CommitPlaced
  <1>5. CASE Abort
    <2>1. CASE committing' = NoCommit
      BY <1>5, <1>n, <2>1 DEF Abort
    <2>2. CASE committing' # NoCommit
      <3>0. PICK b \in Block : \E row : committing' = [block |-> b, row |-> row] /\ Commits(b, row)
        BY <1>5, <2>2, CommitKinds
      <3>1. PICK row : committing' = [block |-> b, row |-> row] /\ Commits(b, row)
        BY <3>0
      <3>2. rows[b].status # "translated"
        BY <1>5, <3>1 DEF Commits, AlreadySettled, Abort
      <3>3. QED
        BY <1>5, <3>1, <3>2 DEF Abort, durable
    <2>3. QED
      BY <2>1, <2>2
  <1>6. CASE CommitEnds
    BY <1>6, <1>n DEF CommitEnds, CommitPlaced
  <1>7. CASE (\E b \in Reader : ManualRetranslate(b)) \/ (\E e \in Elsewhere : OtherDocument(e))
    BY <1>7, <1>n DEF ManualRetranslate, OtherDocument, control, tasks
  <1>8. CASE UNCHANGED vars
    BY <1>8 DEF vars, durable, control, tasks, NoCommit, AbsentRow, NoText
  <1>9. QED
    BY <1>1, <1>2, <1>3, <1>4, <1>5, <1>6, <1>7, <1>8 DEF Next

(* A step leaves a translated row as it is, or is a reader's.              *)
LEMMA KeptStep ==
  ASSUME WellFormed, CommitPlaced, WorkedRowsOpen, [Next]_vars, NEW b \in Block,
         rows[b].status = "translated"
  PROVE  rows'[b] \in {rows[b], ManualRow(b)}
  <1>0. rows \in [Block -> Row]
    BY DEF WellFormed, TypeOK
  <1>1. ASSUME NEW c \in Block, TaskStep(c)
        PROVE  rows'[b] = rows[b]
    <2>1. CASE Precheck(c)
      BY <1>0, <2>1 DEF Precheck, PrecheckSkip, PrecheckCached, PrecheckOwn, PrecheckJoin,
                        AlreadySettled, durable
    <2>2. CASE Call(c) \/ Wake(c) \/ Cancel(c)
      BY <2>2 DEF Call, StartCall, CallRetries, CallReturns, CallFails, Wake, Cancel,
                  CancelOwner, Unwind, CancelWaiter, CancelInLine, durable
    <2>3. CASE Record(c)
      <3>1. rows[c].status # "translated"
        BY <2>3 DEF Record, RecordOk, RecordFail, ServeOk, ServeFail, Recording,
                    WorkedRowsOpen, Working
      <3>2. QED
        BY <1>0, <2>3, <3>1 DEF Record, RecordOk, RecordFail, ServeOk, ServeFail, Upsert
    <2>4. QED
      BY <1>1, <2>1, <2>2, <2>3 DEF TaskStep
  <1>2. CASE CommitEnds
    BY <1>0, <1>2 DEF CommitEnds, WorkedRowsOpen, CommitPlaced
  <1>3. ASSUME NEW c \in Reader, ManualRetranslate(c)
        PROVE  rows'[b] \in {rows[b], ManualRow(b)}
    BY <1>3 DEF ManualRetranslate, WellFormed, TypeOK
  <1>4. CASE UNCHANGED rows
    BY <1>4
  <1>5. QED
    BY <1>1, <1>2, <1>3, <1>4 DEF Next, StartRun, Finalize, Abort, AbortEnds, Crash, OtherDocument,
                                  vars, durable

(* "Existing translated rows are skipped", through retries, crashes and    *)
(* aborts amid a commit, provided no reader retranslates a block during a  *)
(* run.                                                                    *)
THEOREM RowsKept == ~Overlap => (Spec => TranslatedRowsKept)
  <1> SUFFICES ASSUME ~Overlap
               PROVE  Spec => TranslatedRowsKept
    OBVIOUS
  <1>1. Init => WorkedRowsOpen
    BY DEF Init, WorkedRowsOpen
  <1>2. WellFormed /\ CommitPlaced /\ WorkedRowsOpen /\ [Next]_vars => WorkedRowsOpen'
    BY OpenStep
  <1>3. WellFormed /\ CommitPlaced /\ WorkedRowsOpen /\ [Next]_vars =>
          [\A b \in Block :
             rows[b].status = "translated" => rows'[b] \in {rows[b], ManualRow(b)}]_vars
    BY KeptStep
  <1>4. QED
    BY <1>1, <1>2, <1>3, AlwaysWellFormed, AlwaysPlaced, PTL DEF Spec, TranslatedRowsKept
===============================================================================
