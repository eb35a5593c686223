--------------------------- MODULE TranslatePipeline ---------------------------
(***************************************************************************)
(* translate/pipeline.py: translate_document and its block tasks.          *)
(*                                                                         *)
(* One run creates a task per block of the document.  A task first looks   *)
(* at the block under db_lock and is then done (skipped, or served from    *)
(* the cache), or owns the one LLM call of its cache key, or waits for the *)
(* task that owns it.  The run can be aborted (a failing on_progress or    *)
(* commit, a cancellation) while one of its commits is under way, the      *)
(* process can die, and the document can be translated again; a reader can *)
(* retranslate a block by hand through POST /blocks/{id}/retranslate, and  *)
(* the runs of other documents commit rows of the same keys at any time.   *)
(***************************************************************************)
EXTENDS Naturals, FiniteSets

CONSTANTS
  NBlocks,       (* blocks of the document, in reading order               *)
  Keys,          (* cache keys: what make_cache_key tells apart            *)
  NoKey,         (* the key of a row without one                           *)
  KeyOf,         (* block -> its key; NoKey for a type not in block_types  *)
  Elsewhere,     (* <<key, n>>: the rows of other documents (a bound)      *)
  Concurrency,   (* slots of the semaphore                                 *)
  MaxRetries,    (* retries after a transient LLM error                    *)
  MaxRuns,       (* bound on the runs of a behaviour                       *)
  Reader,        (* blocks a reader retranslates by hand (a bound)         *)
  Overlap        (* may that happen while a run is in progress?            *)

Block == 1..NBlocks

ASSUME ConstantsAssumption ==
  /\ NBlocks \in Nat
  /\ NoKey \notin Keys
  /\ KeyOf \in [Block -> Keys \cup {NoKey}]
  /\ Elsewhere \subseteq Keys \X Nat
  /\ Concurrency \in Nat \ {0}
  /\ MaxRetries \in Nat
  /\ MaxRuns \in Nat
  /\ Reader \subseteq Block
  /\ Overlap \in BOOLEAN

VARIABLES
  rows,            (* the translations table                               *)
  docStatus,       (* Document.status                                      *)
  elsewhere,       (* rows of other documents that are translated now      *)
  phase,           (* of translate_document                                *)
  run,             (* runs begun so far                                    *)
  retryFailed,     (* the run's retry_failed argument                      *)
  committing,      (* the commit that was under way when the run was       *)
                   (* aborted                                              *)
  pc,              (* where each task is                                   *)
  role,            (* how Phase 1 classified the task's block              *)
  turn,            (* place in db_lock's line; 0 when not in it            *)
  arrivals,        (* places given out in this run                         *)
  loaded,          (* the row as the task's session.get first saw it       *)
  waitsOn,         (* the owner a waiter awaits                            *)
  attempts,        (* transient errors the owner has retried               *)
  future,          (* the future each owner created                        *)
  pendingFutures,  (* key -> owner registered for it, 0 for none           *)
  pendingCache,    (* key -> text this run knows for it                    *)
  stats            (* TranslateStats                                       *)

durable == <<rows, docStatus, elsewhere>>
control == <<phase, run, retryFailed, committing>>
tasks   == <<pc, role, turn, arrivals, loaded, waitsOn, attempts>>
shared  == <<future, pendingFutures, pendingCache, stats>>
vars    == <<durable, control, tasks, shared>>

-------------------------------------------------------------------------------
(* Texts are told apart by where they come from.                           *)

NoText == <<"none">>
FreshText(b) == <<"llm", run, b>>
ManualText(b) == <<"manual", b>>
CopiedText(e) == <<"elsewhere", e>>

Texts ==
  {NoText} \cup ({"llm"} \X (1..MaxRuns) \X Block)
    \cup ({"manual"} \X Block) \cup ({"elsewhere"} \X Elsewhere)

Row == [status : {"absent", "failed", "translated"},
        text : Texts, key : Keys \cup {NoKey}]
AbsentRow == [status |-> "absent", text |-> NoText, key |-> NoKey]
NoCommit == [block |-> 0, row |-> AbsentRow]

Outcome == {"translated", "skipped", "failed", "cached"}
InFlight == {"running", "aborting"}
Settled == {"done", "cancelled"}

TypeOK ==
  /\ rows \in [Block -> Row]
  /\ docStatus \in {"ready_for_translation", "translated", "partial_translated"}
  /\ elsewhere \subseteq Elsewhere
  /\ phase \in {"idle", "running", "aborting", "finished"}
  /\ run \in 0..MaxRuns
  /\ retryFailed \in BOOLEAN
  /\ committing \in [block : Block \cup {0}, row : Row]
  /\ pc \in [Block -> {"idle", "precheck", "slot", "incall", "await", "recordOk",
                       "recordFail", "serveOk", "serveFail", "unwind"} \cup Settled]
  /\ role \in [Block -> {"none", "skipped", "cached", "owner", "waiter"}]
  /\ turn \in [Block -> Nat]
  /\ arrivals \in Nat
  /\ loaded \in [Block -> Row]
  /\ waitsOn \in [Block -> Block \cup {0}]
  /\ attempts \in [Block -> 0..MaxRetries]
  /\ future \in [Block -> {"none", "pending", "ok", "failed", "cancelled"}]
  /\ pendingFutures \in [Keys -> Block \cup {0}]
  /\ pendingCache \in [Keys -> Texts]
  /\ stats \in [Outcome -> Nat]

-------------------------------------------------------------------------------
(* db_lock is an asyncio.Lock: its waiters are served in order of arrival  *)
(* and a newcomer never overtakes one.  What a task does while it holds    *)
(* the lock is one step, as no other task of the run touches the session.  *)

(* Variant: a lock that lets a newcomer barge in.                          *)
HoldsLockBarging(b) == turn[b] # 0

HoldsLock(b) ==
  /\ turn[b] # 0
  /\ \A c \in Block : turn[c] # 0 => turn[b] <= turn[c]

JoinLine(b) ==
  /\ turn' = [turn EXCEPT ![b] = arrivals + 1]
  /\ arrivals' = arrivals + 1

LeaveLine(b) ==
  /\ turn' = [turn EXCEPT ![b] = 0]
  /\ UNCHANGED arrivals

Goto(b, label) == pc' = [pc EXCEPT ![b] = label]
Count(o) == stats' = [stats EXCEPT ![o] = @ + 1]

(* _upsert_translation on the object the session holds for the block.  The *)
(* flush writes the columns that differ from what was loaded; with nothing *)
(* loaded, session.get reads the row afresh and every column is written.   *)
Flush(old, new, current) == IF new # old THEN new ELSE current

RecordedRow(b, status, text) ==
  LET old == loaded[b]
      cur == rows[b]
  IN  IF old.status = "absent"
        THEN [status |-> status, text |-> text, key |-> KeyOf[b]]
        ELSE [status |-> Flush(old.status, status, cur.status),
              text   |-> Flush(old.text, text, cur.text),
              key    |-> Flush(old.key, KeyOf[b], cur.key)]

Upsert(b, status, text) == rows' = [rows EXCEPT ![b] = RecordedRow(b, status, text)]

(* _db_cache_lookup: any translated row with this key, of any document, as *)
(* the table is at this precheck.                                          *)
DbTexts(k) ==
  {rows[c].text : c \in {d \in Block : rows[d].status = "translated"
                                         /\ rows[d].key = k}}
    \cup {CopiedText(e) : e \in {x \in elsewhere : x[1] = k}}

KnownTexts(k) ==
  IF pendingCache[k] # NoText THEN {pendingCache[k]} ELSE DbTexts(k)

-------------------------------------------------------------------------------
(* The run.                                                                *)

(* Nothing of a run survives it in memory.                                 *)
ForgetRun ==
  /\ pc' = [b \in Block |-> "idle"]
  /\ role' = [b \in Block |-> "none"]
  /\ turn' = [b \in Block |-> 0]
  /\ arrivals' = 0
  /\ loaded' = [b \in Block |-> AbsentRow]
  /\ waitsOn' = [b \in Block |-> 0]
  /\ attempts' = [b \in Block |-> 0]
  /\ future' = [b \in Block |-> "none"]
  /\ pendingFutures' = [k \in Keys |-> 0]
  /\ pendingCache' = [k \in Keys |-> NoText]
  /\ stats' = [o \in Outcome |-> 0]

Init ==
  /\ rows = [b \in Block |-> AbsentRow]
  /\ docStatus = "ready_for_translation"
  /\ elsewhere = {}
  /\ phase = "idle"
  /\ run = 0
  /\ retryFailed = FALSE
  /\ committing = NoCommit
  /\ pc = [b \in Block |-> "idle"]
  /\ role = [b \in Block |-> "none"]
  /\ turn = [b \in Block |-> 0]
  /\ arrivals = 0
  /\ loaded = [b \in Block |-> AbsentRow]
  /\ waitsOn = [b \in Block |-> 0]
  /\ attempts = [b \in Block |-> 0]
  /\ future = [b \in Block |-> "none"]
  /\ pendingFutures = [k \in Keys |-> 0]
  /\ pendingCache = [k \in Keys |-> NoText]
  /\ stats = [o \in Outcome |-> 0]

(* translate_document creates every task before any of them runs: in their *)
(* first turn the blocks of another type are skipped without the lock, and *)
(* the others line up for it in block order.                               *)
StartRun(rf) ==
  /\ phase \notin InFlight
  /\ run < MaxRuns
  /\ phase' = "running"
  /\ run' = run + 1
  /\ retryFailed' = rf
  /\ pc' = [b \in Block |-> IF KeyOf[b] = NoKey THEN "done" ELSE "precheck"]
  /\ role' = [b \in Block |-> IF KeyOf[b] = NoKey THEN "skipped" ELSE "none"]
  /\ turn' = [b \in Block |-> IF KeyOf[b] = NoKey THEN 0 ELSE b]
  /\ arrivals' = NBlocks
  /\ loaded' = [b \in Block |-> AbsentRow]
  /\ waitsOn' = [b \in Block |-> 0]
  /\ attempts' = [b \in Block |-> 0]
  /\ future' = [b \in Block |-> "none"]
  /\ pendingFutures' = [k \in Keys |-> 0]
  /\ pendingCache' = [k \in Keys |-> NoText]
  /\ stats' = [o \in Outcome |-> IF o = "skipped"
                 THEN Cardinality({b \in Block : KeyOf[b] = NoKey}) ELSE 0]
  /\ UNCHANGED <<durable, committing>>

(* _finalize_document_status, once every task has completed.               *)
Finalize ==
  /\ phase = "running"
  /\ \A b \in Block : pc[b] = "done"
  /\ phase' = "finished"
  /\ docStatus' = IF stats["failed"] > 0 THEN "partial_translated" ELSE "translated"
  /\ ForgetRun
  /\ UNCHANGED <<rows, elsewhere, run, retryFailed, committing>>

(* The process dies: only the committed rows remain.                       *)
Crash ==
  /\ phase \in InFlight
  /\ phase' = "idle"
  /\ committing' = NoCommit
  /\ ForgetRun
  /\ UNCHANGED <<durable, run, retryFailed>>

-------------------------------------------------------------------------------
(* Phase 1 of _process_block, under db_lock.                               *)

Prechecking(b) ==
  /\ phase = "running"
  /\ pc[b] = "precheck"
  /\ HoldsLock(b)

(* Variant: retry_failed takes up every block again.                       *)
AlreadySettledRetryAll(b) == rows[b].status \in {"translated", "failed"} /\ ~retryFailed

AlreadySettled(b) ==
  \/ rows[b].status = "translated"
  \/ rows[b].status = "failed" /\ ~retryFailed

PrecheckSkip(b) ==
  /\ Prechecking(b)
  /\ AlreadySettled(b)
  /\ Goto(b, "done")
  /\ role' = [role EXCEPT ![b] = "skipped"]
  /\ loaded' = [loaded EXCEPT ![b] = rows[b]]
  /\ Count("skipped")
  /\ LeaveLine(b)
  /\ UNCHANGED <<durable, control, waitsOn, attempts, future, pendingFutures,
                 pendingCache>>

CachedRow(b, text) == [status |-> "translated", text |-> text, key |-> KeyOf[b]]

(* A known text serves the block at once and is remembered for the run.    *)
PrecheckCached(b) ==
  /\ Prechecking(b)
  /\ ~AlreadySettled(b)
  /\ \E text \in KnownTexts(KeyOf[b]) :
       /\ pendingCache' = [pendingCache EXCEPT ![KeyOf[b]] = text]
       /\ rows' = [rows EXCEPT ![b] = CachedRow(b, text)]
  /\ Goto(b, "done")
  /\ role' = [role EXCEPT ![b] = "cached"]
  /\ loaded' = [loaded EXCEPT ![b] = rows[b]]
  /\ Count("cached")
  /\ LeaveLine(b)
  /\ UNCHANGED <<docStatus, elsewhere, control, waitsOn, attempts, future, pendingFutures>>

(* Variant: a call of its own for every block.                             *)
PrecheckOwnAlways(b) ==
  /\ Prechecking(b)
  /\ ~AlreadySettled(b)
  /\ KnownTexts(KeyOf[b]) = {}
  /\ pendingFutures' = [pendingFutures EXCEPT ![KeyOf[b]] = b]
  /\ future' = [future EXCEPT ![b] = "pending"]
  /\ Goto(b, "slot")
  /\ role' = [role EXCEPT ![b] = "owner"]
  /\ loaded' = [loaded EXCEPT ![b] = rows[b]]
  /\ LeaveLine(b)
  /\ UNCHANGED <<durable, control, waitsOn, attempts, pendingCache, stats>>

(* Nobody is calling for this key: register a future and go and call.      *)
PrecheckOwn(b) ==
  /\ Prechecking(b)
  /\ ~AlreadySettled(b)
  /\ KnownTexts(KeyOf[b]) = {}
  /\ pendingFutures[KeyOf[b]] = 0
  /\ pendingFutures' = [pendingFutures EXCEPT ![KeyOf[b]] = b]
  /\ future' = [future EXCEPT ![b] = "pending"]
  /\ Goto(b, "slot")
  /\ role' = [role EXCEPT ![b] = "owner"]
  /\ loaded' = [loaded EXCEPT ![b] = rows[b]]
  /\ LeaveLine(b)
  /\ UNCHANGED <<durable, control, waitsOn, attempts, pendingCache, stats>>

(* Variant: the future is awaited under the lock.                          *)
PrecheckJoinInLine(b) ==
  /\ Prechecking(b)
  /\ ~AlreadySettled(b)
  /\ KnownTexts(KeyOf[b]) = {}
  /\ pendingFutures[KeyOf[b]] # 0
  /\ waitsOn' = [waitsOn EXCEPT ![b] = pendingFutures[KeyOf[b]]]
  /\ Goto(b, "await")
  /\ role' = [role EXCEPT ![b] = "waiter"]
  /\ loaded' = [loaded EXCEPT ![b] = rows[b]]
  /\ UNCHANGED <<durable, control, turn, arrivals, attempts, shared>>

(* Somebody is: await that task's future.                                  *)
PrecheckJoin(b) ==
  /\ Prechecking(b)
  /\ ~AlreadySettled(b)
  /\ KnownTexts(KeyOf[b]) = {}
  /\ pendingFutures[KeyOf[b]] # 0
  /\ waitsOn' = [waitsOn EXCEPT ![b] = pendingFutures[KeyOf[b]]]
  /\ Goto(b, "await")
  /\ role' = [role EXCEPT ![b] = "waiter"]
  /\ loaded' = [loaded EXCEPT ![b] = rows[b]]
  /\ LeaveLine(b)
  /\ UNCHANGED <<durable, control, attempts, shared>>

-------------------------------------------------------------------------------
(* _translate_with_retry: the semaphore is held during a call only.  The   *)
(* backoff sleep of a retry is part of waiting for a slot.                 *)

InCall == {b \in Block : pc[b] = "incall"}

StartCall(b) ==
  /\ phase = "running"
  /\ pc[b] = "slot"
  /\ Cardinality(InCall) < Concurrency
  /\ Goto(b, "incall")
  /\ UNCHANGED <<durable, control, role, turn, arrivals, loaded, waitsOn, attempts,
                 shared>>

(* Variant: one retry too many.                                            *)
CallRetriesOnceMore(b) ==
  /\ phase = "running"
  /\ pc[b] = "incall"
  /\ attempts[b] <= MaxRetries
  /\ attempts' = [attempts EXCEPT ![b] = @ + 1]
  /\ Goto(b, "slot")
  /\ UNCHANGED <<durable, control, role, turn, arrivals, loaded, waitsOn, shared>>

CallRetries(b) ==
  /\ phase = "running"
  /\ pc[b] = "incall"
  /\ attempts[b] < MaxRetries
  /\ attempts' = [attempts EXCEPT ![b] = @ + 1]
  /\ Goto(b, "slot")
  /\ UNCHANGED <<durable, control, role, turn, arrivals, loaded, waitsOn, shared>>

(* The owner resolves its future, then lines up to record the text.        *)
CallReturns(b) ==
  /\ phase = "running"
  /\ pc[b] = "incall"
  /\ future' = [future EXCEPT ![b] = "ok"]
  /\ Goto(b, "recordOk")
  /\ JoinLine(b)
  /\ UNCHANGED <<durable, control, role, loaded, waitsOn, attempts, pendingFutures,
                 pendingCache, stats>>

(* Variant: a failure that does not reach the future.                      *)
CallFailsSilently(b) ==
  /\ phase = "running"
  /\ pc[b] = "incall"
  /\ Goto(b, "recordFail")
  /\ JoinLine(b)
  /\ UNCHANGED <<durable, control, role, loaded, waitsOn, attempts, shared>>

(* Variant: a failing owner drops its registration before it has the lock. *)
CallFailsUnregistering(b) ==
  /\ phase = "running"
  /\ pc[b] = "incall"
  /\ future' = [future EXCEPT ![b] = "failed"]
  /\ pendingFutures' = [pendingFutures EXCEPT ![KeyOf[b]] = 0]
  /\ Goto(b, "recordFail")
  /\ JoinLine(b)
  /\ UNCHANGED <<durable, control, role, loaded, waitsOn, attempts, pendingCache, stats>>

(* A permanent error, an empty answer, or the last transient error.        *)
CallFails(b) ==
  /\ phase = "running"
  /\ pc[b] = "incall"
  /\ future' = [future EXCEPT ![b] = "failed"]
  /\ Goto(b, "recordFail")
  /\ JoinLine(b)
  /\ UNCHANGED <<durable, control, role, loaded, waitsOn, attempts, pendingFutures,
                 pendingCache, stats>>

Recording(b, label) ==
  /\ phase = "running"
  /\ pc[b] = label
  /\ HoldsLock(b)
  /\ Goto(b, "done")
  /\ LeaveLine(b)

Unregister(b) == pendingFutures' = [pendingFutures EXCEPT ![KeyOf[b]] = 0]

RecordOk(b) ==
  /\ Recording(b, "recordOk")
  /\ pendingCache' = [pendingCache EXCEPT ![KeyOf[b]] = FreshText(b)]
  /\ Unregister(b)
  /\ Count("translated")
  /\ Upsert(b, "translated", FreshText(b))
  /\ UNCHANGED <<docStatus, elsewhere, control, role, loaded, waitsOn, attempts, future>>

(* Variant: the failure of an owner is counted as a skipped block.         *)
RecordFailAsSkipped(b) ==
  /\ Recording(b, "recordFail")
  /\ Unregister(b)
  /\ Count("skipped")
  /\ Upsert(b, "failed", NoText)
  /\ UNCHANGED <<docStatus, elsewhere, control, role, loaded, waitsOn, attempts, future,
                 pendingCache>>

RecordFail(b) ==
  /\ Recording(b, "recordFail")
  /\ Unregister(b)
  /\ Count("failed")
  /\ Upsert(b, "failed", NoText)
  /\ UNCHANGED <<docStatus, elsewhere, control, role, loaded, waitsOn, attempts, future,
                 pendingCache>>

-------------------------------------------------------------------------------
(* A waiter wakes after its owner's future has a result or an exception,   *)
(* and lines up to copy it.                                                *)

Wake(b) ==
  /\ phase = "running"
  /\ pc[b] = "await"
  /\ future[waitsOn[b]] \in {"ok", "failed"}
  /\ Goto(b, IF future[waitsOn[b]] = "ok" THEN "serveOk" ELSE "serveFail")
  /\ JoinLine(b)
  /\ UNCHANGED <<durable, control, role, loaded, waitsOn, attempts, shared>>

ServeOk(b) ==
  /\ Recording(b, "serveOk")
  /\ Count("cached")
  /\ Upsert(b, "translated", FreshText(waitsOn[b]))
  /\ UNCHANGED <<docStatus, elsewhere, control, role, loaded, waitsOn, attempts, future,
                 pendingFutures, pendingCache>>

ServeFail(b) ==
  /\ Recording(b, "serveFail")
  /\ Count("failed")
  /\ Upsert(b, "failed", NoText)
  /\ UNCHANGED <<docStatus, elsewhere, control, role, loaded, waitsOn, attempts, future,
                 pendingFutures, pendingCache>>

-------------------------------------------------------------------------------
(* The end of a run that is cut short.                                     *)

(* What the task that holds the lock may be committing at this moment.     *)
CommitsOf(b) ==
  CASE pc[b] = "precheck" ->
         {CachedRow(b, text) : text \in IF AlreadySettled(b) THEN {} ELSE KnownTexts(KeyOf[b])}
    [] pc[b] = "recordOk" -> {RecordedRow(b, "translated", FreshText(b))}
    [] pc[b] = "serveOk"  -> {RecordedRow(b, "translated", FreshText(waitsOn[b]))}
    [] pc[b] \in {"recordFail", "serveFail"} -> {RecordedRow(b, "failed", NoText)}
    [] OTHER -> {}

CommitsUnderWay ==
  UNION {{[block |-> b, row |-> row] : row \in CommitsOf(b)} : b \in {c \in Block : HoldsLock(c)}}

(* An exception reaches the as_completed loop (on_progress or a commit     *)
(* failed, or the run itself was cancelled): the tasks not done are        *)
(* cancelled and Document.status keeps its value.  A commit that one of    *)
(* them awaits is in the hands of the database's thread.                   *)
Abort ==
  /\ phase = "running"
  /\ phase' = "aborting"
  /\ committing' \in {NoCommit} \cup CommitsUnderWay
  /\ UNCHANGED <<durable, run, retryFailed, tasks, shared>>

(* That thread goes on with it whatever becomes of the task: the row lands *)
(* or is lost, after the task has been cancelled or before.                *)
CommitEnds ==
  /\ committing # NoCommit
  /\ \/ rows' = [rows EXCEPT ![committing.block] = committing.row]
     \/ UNCHANGED rows
  /\ committing' = NoCommit
  /\ UNCHANGED <<docStatus, elsewhere, phase, run, retryFailed, tasks, shared>>

(* The session is closed, behind the commit in the thread's queue.         *)
AbortEnds ==
  /\ phase = "aborting"
  /\ committing = NoCommit
  /\ \A b \in Block : pc[b] \in Settled
  /\ phase' = "idle"
  /\ ForgetRun
  /\ UNCHANGED <<durable, run, retryFailed, committing>>

-------------------------------------------------------------------------------
(* Cancellation, delivered to each unfinished task at the await it is in.  *)

(* An owner in its call unwinds through the lock to drop its registration. *)
CancelOwner(b) ==
  /\ phase = "aborting"
  /\ pc[b] \in {"slot", "incall"}
  /\ Goto(b, "unwind")
  /\ JoinLine(b)
  /\ UNCHANGED <<durable, control, role, loaded, waitsOn, attempts, shared>>

(* Variant: a cancellation is recorded like a failure.                     *)
UnwindRecords(b) ==
  /\ phase = "aborting"
  /\ pc[b] = "unwind"
  /\ HoldsLock(b)
  /\ Goto(b, "cancelled")
  /\ Unregister(b)
  /\ Upsert(b, "failed", NoText)
  /\ LeaveLine(b)
  /\ UNCHANGED <<docStatus, elsewhere, control, role, loaded, waitsOn, attempts, future,
                 pendingCache, stats>>

Unwind(b) ==
  /\ phase = "aborting"
  /\ pc[b] = "unwind"
  /\ HoldsLock(b)
  /\ Goto(b, "cancelled")
  /\ Unregister(b)
  /\ LeaveLine(b)
  /\ UNCHANGED <<durable, control, role, loaded, waitsOn, attempts, future,
                 pendingCache, stats>>

(* A waiter's cancellation cancels the bare future it shares.              *)
CancelWaiter(b) ==
  /\ phase = "aborting"
  /\ pc[b] = "await"
  /\ Goto(b, "cancelled")
  /\ future' = [future EXCEPT ![waitsOn[b]] = IF @ = "pending" THEN "cancelled" ELSE @]
  /\ UNCHANGED <<durable, control, role, turn, arrivals, loaded, waitsOn, attempts,
                 pendingFutures, pendingCache, stats>>

(* A task in the lock's line leaves it.                                    *)
CancelInLine(b) ==
  /\ phase = "aborting"
  /\ pc[b] \in {"precheck", "recordOk", "recordFail", "serveOk", "serveFail"}
  /\ Goto(b, "cancelled")
  /\ LeaveLine(b)
  /\ UNCHANGED <<durable, control, role, loaded, waitsOn, attempts, shared>>

-------------------------------------------------------------------------------
(* Other sessions.  SQLite has one writer: none commits amid a commit.     *)

(* POST /blocks/{id}/retranslate: the text is asked for first, then the    *)
(* row is written whole, without a cache key.                              *)
ManualRow(b) == [status |-> "translated", text |-> ManualText(b), key |-> NoKey]

ManualRetranslateKeyed(b) ==   (* variant: the row keeps the cache key *)
  /\ KeyOf[b] # NoKey
  /\ Overlap \/ phase \notin InFlight
  /\ committing = NoCommit
  /\ rows' = [rows EXCEPT ![b] = [ManualRow(b) EXCEPT !.key = KeyOf[b]]]
  /\ UNCHANGED <<docStatus, elsewhere, control, tasks, shared>>

ManualRetranslate(b) ==
  /\ KeyOf[b] # NoKey
  /\ Overlap \/ phase \notin InFlight
  /\ committing = NoCommit
  /\ rows' = [rows EXCEPT ![b] = ManualRow(b)]
  /\ UNCHANGED <<docStatus, elsewhere, control, tasks, shared>>

(* The run of another document translates a block of the same text, or     *)
(* that block is retranslated by hand, fails, or goes with its document.   *)
OtherDocument(e) ==
  /\ committing = NoCommit
  /\ elsewhere' = IF e \in elsewhere THEN elsewhere \ {e} ELSE elsewhere \cup {e}
  /\ UNCHANGED <<rows, docStatus, control, tasks, shared>>

-------------------------------------------------------------------------------

Precheck(b) == PrecheckSkip(b) \/ PrecheckCached(b) \/ PrecheckOwn(b) \/ PrecheckJoin(b)
Call(b) == StartCall(b) \/ CallRetries(b) \/ CallReturns(b) \/ CallFails(b)
Record(b) == RecordOk(b) \/ RecordFail(b) \/ ServeOk(b) \/ ServeFail(b)
Cancel(b) == CancelOwner(b) \/ Unwind(b) \/ CancelWaiter(b) \/ CancelInLine(b)

TaskStep(b) == Precheck(b) \/ Call(b) \/ Wake(b) \/ Record(b) \/ Cancel(b)

Next ==
  \/ \E rf \in BOOLEAN : StartRun(rf)
  \/ \E b \in Block : TaskStep(b)
  \/ Finalize
  \/ Abort
  \/ CommitEnds
  \/ AbortEnds
  \/ Crash
  \/ \E b \in Reader : ManualRetranslate(b)
  \/ \E e \in Elsewhere : OtherDocument(e)

Spec == Init /\ [][Next]_vars

(* The event loop runs every callback that is ready and an LLM call always *)
(* ends (the client has a timeout), as does a commit (SQLite's busy        *)
(* timeout).  Nothing obliges a run to start, to abort or to crash, or     *)
(* anybody else to write anything.                                         *)
Fairness ==
  /\ \A b \in Block : WF_vars(TaskStep(b))
  /\ WF_vars(Finalize)
  /\ WF_vars(CommitEnds)
  /\ WF_vars(AbortEnds)

FairSpec == Spec /\ Fairness

-------------------------------------------------------------------------------
(* Properties.                                                             *)

WorkedOn(b) == pc[b] = "done" /\ role[b] # "skipped"

(* "Each unique cache_key triggers at most one LLM call" in a run, even    *)
(* after the call has failed and its registration is gone.                 *)
OneCallPerKey ==
  \A b, c \in Block :
    role[b] = "owner" /\ role[c] = "owner" /\ KeyOf[b] = KeyOf[c] => b = c

(* Blocks with the same text end a run alike: the blocks of one key that   *)
(* this run worked on hold the same text, or have all failed.  Only the    *)
(* run of another document can part them: a text it commits after a block  *)
(* of ours went to call serves the blocks of the key looked at later.      *)
ServedByAnother(b) ==
  role[b] = "cached" /\ rows[b].text \in {CopiedText(e) : e \in Elsewhere}

SameTextSameOutcome ==
  \A b, c \in Block :
    WorkedOn(b) /\ WorkedOn(c) /\ KeyOf[b] = KeyOf[c] =>
      \/ rows[b].status = rows[c].status /\ rows[b].text = rows[c].text
      \/ ServedByAnother(b) /\ role[c] # "cached"
      \/ ServedByAnother(c) /\ role[b] # "cached"

(* A run that finishes has accounted for every block once, and calls the   *)
(* document translated only if no block it worked on is left failed.       *)
FinishedRunAccounted ==
  [][phase = "running" /\ phase' = "finished" =>
       /\ stats["translated"] + stats["skipped"] + stats["failed"] + stats["cached"]
            = NBlocks
       /\ docStatus' = "partial_translated" <=>
            \E b \in Block : WorkedOn(b) /\ rows[b].status = "failed"]_vars

(* A manual text stays on the block it was made for: no run spreads it to  *)
(* another block with the same source text.                                *)
ManualStaysLocal ==
  \A b, c \in Block : rows[b].text = ManualText(c) => b = c

(* "Existing translated rows are skipped": no step of a run, retry_failed  *)
(* or not, after a crash or not, rewrites a row that is translated; only   *)
(* its reader does.                                                        *)
TranslatedRowsKept ==
  [][\A b \in Block :
       rows[b].status = "translated" => rows'[b] \in {rows[b], ManualRow(b)}]_vars

(* However a run is cut short - between two awaits or amid a commit, which *)
(* may then land on a task already cancelled - what it leaves in a row is  *)
(* an answer: a text of a call of the row's own key that returned or of a  *)
(* row that has one, and a failure only if that call failed.  So a block   *)
(* that was merely cancelled is left for the next run to take up.          *)
CallsOf(b) == {o \in Block : role[o] = "owner" /\ KeyOf[o] = KeyOf[b]}

IsAnswer(row, b) ==
  \/ row.status = "failed" /\ \E o \in CallsOf(b) : future[o] = "failed"
  \/ /\ row.status = "translated"
     /\ row.text \in KnownTexts(KeyOf[b])
                       \cup {FreshText(o) : o \in {p \in CallsOf(b) : future[p] = "ok"}}

OnlyAnswersRecorded ==
  [][\A b \in Block : rows'[b] \in {rows[b], ManualRow(b)} \/ IsAnswer(rows'[b], b)]_vars

(* Where a task can go on: at the head of the lock's line, at a free slot, *)
(* in its call, or behind a future that is resolved; and everywhere but in *)
(* that line once it is cancelled.                                         *)
Queued == {"precheck", "recordOk", "recordFail", "serveOk", "serveFail"}

CanGo(b) ==
  IF phase = "running"
    THEN \/ pc[b] \in Queued /\ HoldsLock(b)
         \/ pc[b] = "slot" /\ Cardinality(InCall) < Concurrency
         \/ pc[b] = "incall"
         \/ pc[b] = "await" /\ future[waitsOn[b]] \in {"ok", "failed"}
    ELSE \/ pc[b] \in Queued \cup {"slot", "incall", "await"}
         \/ pc[b] = "unwind" /\ HoldsLock(b)

(* Tasks never wait for each other all at once: until all of a run's tasks *)
(* have ended, one of them can go on, whatever lock, slots and futures the *)
(* others hold or wait for.                                                *)
NobodyStuck ==
  phase \in InFlight =>
    \/ \A b \in Block : pc[b] = "done" \/ (phase = "aborting" /\ pc[b] = "cancelled")
    \/ \E b \in Block : CanGo(b)

(* A run that has begun ends: no waiter is left on a future nobody         *)
(* resolves, and no task in the lock's line forever.                       *)
RunEnds == phase \in InFlight ~> phase \notin InFlight

(* The pipeline implements the contract of SingleFlight.                   *)
Answered(b) == pc[b] = "done" /\ role[b] \in {"owner", "waiter"}
Answer(b) ==
  IF future[b] = "ok" THEN FreshText(b)
  ELSE IF future[b] \in {"failed", "cancelled"} THEN <<future[b]>> ELSE <<"unset">>
OwnersOf(k) == {b \in Block : role[b] = "owner" /\ KeyOf[b] = k}

Flight == INSTANCE SingleFlight WITH
  Callers <- Block,
  Answers <- Texts \cup {<<"failed">>, <<"cancelled">>},
  Unset   <- <<"unset">>,
  leaders <- [k \in Keys |-> OwnersOf(k)],
  verdict <- [k \in Keys |-> IF OwnersOf(k) = {} THEN <<"unset">>
                              ELSE Answer(CHOOSE b \in OwnersOf(k) : TRUE)],
  got     <- [b \in Block |->
                IF ~Answered(b) THEN <<"unset">>
                ELSE IF rows[b].status = "failed" THEN <<"failed">> ELSE rows[b].text]

ImplementsSingleFlight == Flight!Spec
===============================================================================
