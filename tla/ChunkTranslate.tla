---------------------------- MODULE ChunkTranslate ----------------------------
(***************************************************************************)
(* translate/chunk_pipeline.py (translate_chunks) and                      *)
(* translate/short_retranslate.py (retranslate_short), as the command      *)
(* translate-chunks runs them, one at a time, on one document.             *)
(*                                                                         *)
(* A run has a task per chunk.  A task needs up to two texts, the chunk's  *)
(* body and its caption, one after the other, and then writes one row.     *)
(* Each text is looked up under db_lock by its cache key: it is known, or  *)
(* another task is calling for it, or this task makes the call.            *)
(***************************************************************************)
EXTENDS Naturals, FiniteSets

CONSTANTS
  NChunks,         (* chunks of the document, in reading order             *)
  Keys,            (* cache keys: what make_cache_key tells apart          *)
  NoKey,           (* no key: a blank body or caption, or a row's NULL     *)
  BlankKey,        (* make_cache_key of a blank content                    *)
  BodyOf,          (* chunk -> key of its content, NoKey when blank        *)
  CaptionOf,       (* chunk -> key of its caption, NoKey without one       *)
  Equations,       (* chunks of a passthrough type                         *)
  MathKeys,        (* keys of texts that hold inline math                  *)
  Elsewhere,       (* keys that a row of another document translates       *)
  Short,           (* what --short-only selects among translated chunks    *)
  Explicit,        (* what an operator may name with --chunk-id (a bound)  *)
  Concurrency,     (* slots of the semaphore                               *)
  MaxRetries,      (* retries after a transient error                      *)
  MathLossRetries, (* whole calls repeated after a lost placeholder        *)
  MaxRuns,         (* bound on the runs of a behaviour                     *)
  MaxRepairs       (* bound on its repairs                                 *)

Chunk == 1..NChunks
Part == {"body", "caption"}
Job == Chunk \X Part

ASSUME ConstantsAssumption ==
  /\ NChunks \in Nat
  /\ NoKey \notin Keys
  /\ BlankKey \notin Keys \cup {NoKey}
  /\ BodyOf \in [Chunk -> Keys \cup {NoKey}]
  /\ CaptionOf \in [Chunk -> Keys \cup {NoKey}]
  /\ Equations \subseteq Chunk
  /\ MathKeys \subseteq Keys
  /\ Elsewhere \subseteq Keys
  /\ Short \subseteq {c \in Chunk \ Equations : BodyOf[c] # NoKey /\ CaptionOf[c] = NoKey}
  /\ Explicit \subseteq Chunk
  /\ Concurrency \in Nat \ {0}
  /\ {MaxRetries, MathLossRetries, MaxRuns, MaxRepairs} \subseteq Nat

VARIABLES
  rows,            (* the chunk_translations table                         *)
  docStatus,       (* Document.status                                      *)
  phase,           (* which command is under way                           *)
  runs, repairs,   (* runs and repairs begun                               *)
  retryFailed,     (* the run's retry_failed argument                      *)
  pc,              (* where each task is                                   *)
  part,            (* the part it is translating                           *)
  got,             (* the texts it has so far                              *)
  fresh,           (* did one of its own calls give it a text?             *)
  waitsOn,         (* the call it awaits                                   *)
  retries,         (* transient errors retried in its current attempt      *)
  rerolls,         (* attempts repeated because math was lost              *)
  future,          (* the future of each call                              *)
  pendingFutures,  (* key -> the call registered for it                    *)
  pendingCache,    (* key -> text this run knows for it                    *)
  stats,           (* ChunkTranslateStats                                  *)
  todo,            (* a repair's targets still to be asked for             *)
  staged           (* its new texts, not committed yet                     *)

durable == <<rows, docStatus>>
bounds  == <<runs, repairs>>
task    == <<pc, part, got, fresh, waitsOn, retries, rerolls>>
shared  == <<future, pendingFutures, pendingCache, stats>>
repair  == <<todo, staged>>
vars    == <<durable, phase, bounds, retryFailed, task, shared, repair>>

-------------------------------------------------------------------------------
(* Texts are told apart by where they come from.                           *)

NoText == <<"none">>
FreshText(j) == <<"llm", runs, j>>
SourceText(c) == <<"source", c>>
ContextText(c) == <<"context", c>>
CopiedText(k) == <<"elsewhere", k>>

Texts ==
  {NoText} \cup ({"llm"} \X (1..MaxRuns) \X Job) \cup ({"source", "context"} \X Chunk)
    \cup ({"elsewhere"} \X Keys)

NoJob == <<0, "none">>
KeyOf(j) == IF j[2] = "body" THEN BodyOf[j[1]] ELSE CaptionOf[j[1]]

Row == [status : {"absent", "failed", "translated"},
        body : Texts, caption : Texts, key : Keys \cup {NoKey, BlankKey}]
AbsentRow == [status |-> "absent", body |-> NoText, caption |-> NoText, key |-> NoKey]
FailedRow == [AbsentRow EXCEPT !.status = "failed"]
TranslatedRow(body, caption, key) ==
  [status |-> "translated", body |-> body, caption |-> caption, key |-> key]

Outcome == {"translated", "passthrough", "cached", "skipped", "failed"}

TypeOK ==
  /\ rows \in [Chunk -> Row]
  /\ docStatus \in {"ready_for_translation", "translated", "partial_translated"}
  /\ phase \in {"idle", "running", "repairing"}
  /\ runs \in 0..MaxRuns
  /\ repairs \in 0..MaxRepairs
  /\ retryFailed \in BOOLEAN
  /\ pc \in [Chunk -> {"idle", "precheck", "passthrough", "lookup", "await", "slot",
                       "incall", "publish", "drop", "write", "writeFailed", "done"}]
  /\ part \in [Chunk -> Part]
  /\ got \in [Chunk -> [Part -> Texts]]
  /\ fresh \in [Chunk -> BOOLEAN]
  /\ waitsOn \in [Chunk -> Job \cup {NoJob}]
  /\ retries \in [Chunk -> 0..MaxRetries]
  /\ rerolls \in [Chunk -> 0..MathLossRetries]
  /\ future \in [Job -> {"none", "pending", "ok", "failed"}]
  /\ pendingFutures \in [Keys -> Job \cup {NoJob}]
  /\ pendingCache \in [Keys -> Texts]
  /\ stats \in [Outcome -> Nat]
  /\ todo \subseteq Chunk
  /\ staged \in [Chunk -> Texts]

-------------------------------------------------------------------------------
(* The run.                                                                *)

(* Nothing of a run survives it in memory.                                 *)
Memory(place) ==
  /\ pc' = [c \in Chunk |-> place]
  /\ part' = [c \in Chunk |-> "body"]
  /\ got' = [c \in Chunk |-> [p \in Part |-> NoText]]
  /\ fresh' = [c \in Chunk |-> FALSE]
  /\ waitsOn' = [c \in Chunk |-> NoJob]
  /\ retries' = [c \in Chunk |-> 0]
  /\ rerolls' = [c \in Chunk |-> 0]
  /\ future' = [j \in Job |-> "none"]
  /\ pendingFutures' = [k \in Keys |-> NoJob]
  /\ pendingCache' = [k \in Keys |-> NoText]
  /\ stats' = [o \in Outcome |-> 0]

Init ==
  /\ rows = [c \in Chunk |-> AbsentRow]
  /\ docStatus = "ready_for_translation"
  /\ phase = "idle"
  /\ runs = 0 /\ repairs = 0
  /\ retryFailed = FALSE
  /\ pc = [c \in Chunk |-> "idle"]
  /\ part = [c \in Chunk |-> "body"]
  /\ got = [c \in Chunk |-> [p \in Part |-> NoText]]
  /\ fresh = [c \in Chunk |-> FALSE]
  /\ waitsOn = [c \in Chunk |-> NoJob]
  /\ retries = [c \in Chunk |-> 0]
  /\ rerolls = [c \in Chunk |-> 0]
  /\ future = [j \in Job |-> "none"]
  /\ pendingFutures = [k \in Keys |-> NoJob]
  /\ pendingCache = [k \in Keys |-> NoText]
  /\ stats = [o \in Outcome |-> 0]
  /\ todo = {}
  /\ staged = [c \in Chunk |-> NoText]

StartRun(rf) ==
  /\ phase = "idle"
  /\ runs < MaxRuns
  /\ phase' = "running"
  /\ runs' = runs + 1
  /\ retryFailed' = rf
  /\ Memory("precheck")
  /\ UNCHANGED <<durable, repairs, repair>>

(* _finalize, once every task has completed.                               *)
Finalize ==
  /\ phase = "running"
  /\ \A c \in Chunk : pc[c] = "done"
  /\ phase' = "idle"
  /\ docStatus' = IF stats["failed"] > 0 THEN "partial_translated" ELSE "translated"
  /\ Memory("idle")
  /\ UNCHANGED <<rows, bounds, retryFailed, repair>>

(* A commit fails, the command is interrupted or the process dies.  The    *)
(* tasks are cancelled; what a cancelled owner still does concerns the     *)
(* run's memory only, so that the committed rows are all that is left.     *)
StopRun ==
  /\ phase = "running"
  /\ phase' = "idle"
  /\ Memory("idle")
  /\ UNCHANGED <<durable, bounds, retryFailed, repair>>

-------------------------------------------------------------------------------
(* A task.  db_lock makes each of its critical sections one step.          *)

At(c, label) == phase = "running" /\ pc[c] = label
Goto(c, label) == pc' = [pc EXCEPT ![c] = label]
Count(o) == stats' = [stats EXCEPT ![o] = @ + 1]
Upsert(c, row) == rows' = [rows EXCEPT ![c] = row]

(* Variant: a failed row is never taken up again.                          *)
AlreadySettledForGood(c) == rows[c].status \in {"translated", "failed"}

AlreadySettled(c) ==
  \/ rows[c].status = "translated"
  \/ rows[c].status = "failed" /\ ~retryFailed

Skip(c) ==
  /\ At(c, "precheck")
  /\ AlreadySettled(c)
  /\ Goto(c, "done")
  /\ Count("skipped")
  /\ UNCHANGED <<durable, phase, bounds, retryFailed, part, got, fresh, waitsOn, retries,
                 rerolls, future, pendingFutures, pendingCache, repair>>

(* A blank part needs no text: an image without content goes straight to   *)
(* its caption, or to the write.                                           *)
TakeUp(c) ==
  /\ At(c, "precheck")
  /\ ~AlreadySettled(c)
  /\ Goto(c, IF c \in Equations THEN "passthrough"
             ELSE IF BodyOf[c] = NoKey /\ CaptionOf[c] = NoKey THEN "write" ELSE "lookup")
  /\ part' = [part EXCEPT ![c] = IF BodyOf[c] = NoKey THEN "caption" ELSE "body"]
  /\ UNCHANGED <<durable, phase, bounds, retryFailed, got, fresh, waitsOn, retries, rerolls,
                 shared, repair>>

PassThrough(c) ==
  /\ At(c, "passthrough")
  /\ Upsert(c, TranslatedRow(SourceText(c), NoText, NoKey))
  /\ Goto(c, "done")
  /\ Count("passthrough")
  /\ UNCHANGED <<docStatus, phase, bounds, retryFailed, part, got, fresh, waitsOn, retries,
                 rerolls, future, pendingFutures, pendingCache, repair>>

-------------------------------------------------------------------------------
(* _cached_translate, for the part the task is at.                         *)

Key(c) == KeyOf(<<c, part[c]>>)

(* With a text in hand the task goes on to the caption or to the write.    *)
Receive(c, text) ==
  LET captionNext == part[c] = "body" /\ CaptionOf[c] # NoKey IN
  /\ got' = [got EXCEPT ![c][part[c]] = text]
  /\ part' = [part EXCEPT ![c] = IF captionNext THEN "caption" ELSE @]
  /\ Goto(c, IF captionNext THEN "lookup" ELSE "write")

(* _db_cache_lookup: any translated row of any document with this key.     *)
DbTexts(k) ==
  {rows[c].body : c \in {d \in Chunk : rows[d].status = "translated" /\ rows[d].key = k}}
    \cup (IF k \in Elsewhere THEN {CopiedText(k)} ELSE {})

KnownTexts(k) ==
  IF pendingCache[k] # NoText THEN {pendingCache[k]} ELSE DbTexts(k)

LookupHit(c) ==
  /\ At(c, "lookup")
  /\ \E text \in KnownTexts(Key(c)) :
       /\ pendingCache' = [pendingCache EXCEPT ![Key(c)] = text]
       /\ Receive(c, text)
  /\ UNCHANGED <<durable, phase, bounds, retryFailed, fresh, waitsOn, retries, rerolls,
                 future, pendingFutures, stats, repair>>

LookupJoin(c) ==
  /\ At(c, "lookup")
  /\ KnownTexts(Key(c)) = {}
  /\ pendingFutures[Key(c)] # NoJob
  /\ waitsOn' = [waitsOn EXCEPT ![c] = pendingFutures[Key(c)]]
  /\ Goto(c, "await")
  /\ UNCHANGED <<durable, phase, bounds, retryFailed, part, got, fresh, retries, rerolls,
                 shared, repair>>

(* Variant: a task that calls although another one is calling.             *)
LookupOwnAlways(c) ==
  /\ At(c, "lookup")
  /\ KnownTexts(Key(c)) = {}
  /\ pendingFutures' = [pendingFutures EXCEPT ![Key(c)] = <<c, part[c]>>]
  /\ future' = [future EXCEPT ![<<c, part[c]>>] = "pending"]
  /\ Goto(c, "slot")
  /\ UNCHANGED <<durable, phase, bounds, retryFailed, part, got, fresh, waitsOn, retries,
                 rerolls, pendingCache, stats, repair>>

LookupOwn(c) ==
  /\ At(c, "lookup")
  /\ KnownTexts(Key(c)) = {}
  /\ pendingFutures[Key(c)] = NoJob
  /\ pendingFutures' = [pendingFutures EXCEPT ![Key(c)] = <<c, part[c]>>]
  /\ future' = [future EXCEPT ![<<c, part[c]>>] = "pending"]
  /\ Goto(c, "slot")
  /\ UNCHANGED <<durable, phase, bounds, retryFailed, part, got, fresh, waitsOn, retries,
                 rerolls, pendingCache, stats, repair>>

(* The waiter of a call wakes with its text, or with its exception.        *)
Wake(c) ==
  /\ At(c, "await")
  /\ \/ future[waitsOn[c]] = "ok" /\ Receive(c, FreshText(waitsOn[c]))
     \/ future[waitsOn[c]] = "failed" /\ Goto(c, "writeFailed") /\ UNCHANGED <<part, got>>
  /\ waitsOn' = [waitsOn EXCEPT ![c] = NoJob]
  /\ UNCHANGED <<durable, phase, bounds, retryFailed, fresh, retries, rerolls, shared,
                 repair>>

-------------------------------------------------------------------------------
(* _translate_protected and _retry_translate: the call of the task that    *)
(* owns the key.  The slot is held during a request only; the backoff      *)
(* sleep is part of waiting for one.                                       *)

(* Variant: a task keeps its slot while it waits for another one's call.   *)
InCallOrAwaiting == {c \in Chunk : pc[c] \in {"incall", "await"}}

InCall == {c \in Chunk : pc[c] = "incall"}

StartCall(c) ==
  /\ At(c, "slot")
  /\ Cardinality(InCall) < Concurrency
  /\ Goto(c, "incall")
  /\ UNCHANGED <<durable, phase, bounds, retryFailed, part, got, fresh, waitsOn, retries,
                 rerolls, shared, repair>>

RetryTransient(c) ==
  /\ At(c, "incall")
  /\ retries[c] < MaxRetries
  /\ retries' = [retries EXCEPT ![c] = @ + 1]
  /\ Goto(c, "slot")
  /\ UNCHANGED <<durable, phase, bounds, retryFailed, part, got, fresh, waitsOn, rerolls,
                 shared, repair>>

(* Variant: nothing bounds the attempts repeated for a lost placeholder.   *)
RerollAlways(c) ==
  /\ At(c, "incall")
  /\ Key(c) \in MathKeys
  /\ rerolls' = [rerolls EXCEPT ![c] = @ + 1]
  /\ retries' = [retries EXCEPT ![c] = 0]
  /\ Goto(c, "slot")
  /\ UNCHANGED <<durable, phase, bounds, retryFailed, part, got, fresh, waitsOn, shared,
                 repair>>

(* An answer that lost a math placeholder is asked for again, with a new   *)
(* allowance of transient errors.                                          *)
RerollLostMath(c) ==
  /\ At(c, "incall")
  /\ Key(c) \in MathKeys
  /\ rerolls[c] < MathLossRetries
  /\ rerolls' = [rerolls EXCEPT ![c] = @ + 1]
  /\ retries' = [retries EXCEPT ![c] = 0]
  /\ Goto(c, "slot")
  /\ UNCHANGED <<durable, phase, bounds, retryFailed, part, got, fresh, waitsOn, shared,
                 repair>>

EndCall(c, outcome, label) ==
  /\ At(c, "incall")
  /\ future' = [future EXCEPT ![<<c, part[c]>>] = outcome]
  /\ retries' = [retries EXCEPT ![c] = 0]
  /\ rerolls' = [rerolls EXCEPT ![c] = 0]
  /\ Goto(c, label)
  /\ UNCHANGED <<durable, phase, bounds, retryFailed, part, got, fresh, waitsOn,
                 pendingFutures, pendingCache, stats, repair>>

(* The future is resolved before the owner has the lock to record it.      *)
CallReturns(c) == EndCall(c, "ok", "publish")

(* Variant: the waiters do not learn of a failure.                         *)
CallFailsSilently(c) == EndCall(c, "pending", "drop")

(* A permanent error, the last transient one, or math lost for good.       *)
CallFails(c) == EndCall(c, "failed", "drop")

Unregister(c) == pendingFutures' = [pendingFutures EXCEPT ![Key(c)] = NoJob]

Publish(c) ==
  /\ At(c, "publish")
  /\ pendingCache' = [pendingCache EXCEPT ![Key(c)] = FreshText(<<c, part[c]>>)]
  /\ Unregister(c)
  /\ fresh' = [fresh EXCEPT ![c] = TRUE]
  /\ Receive(c, FreshText(<<c, part[c]>>))
  /\ UNCHANGED <<durable, phase, bounds, retryFailed, waitsOn, retries, rerolls, future,
                 stats, repair>>

(* Variant: a chunk whose caption fails is written with its body.          *)
DropKeepsBody(c) ==
  /\ At(c, "drop")
  /\ Unregister(c)
  /\ Goto(c, IF part[c] = "caption" THEN "write" ELSE "writeFailed")
  /\ UNCHANGED <<durable, phase, bounds, retryFailed, part, got, fresh, waitsOn, retries,
                 rerolls, future, pendingCache, stats, repair>>

Drop(c) ==
  /\ At(c, "drop")
  /\ Unregister(c)
  /\ Goto(c, "writeFailed")
  /\ UNCHANGED <<durable, phase, bounds, retryFailed, part, got, fresh, waitsOn, retries,
                 rerolls, future, pendingCache, stats, repair>>

-------------------------------------------------------------------------------
(* The row.  It carries the key of the body, also of a blank one, which no *)
(* lookup asks for; a caption's text is known to this run only.            *)
ContentKey(c) == IF BodyOf[c] = NoKey THEN BlankKey ELSE BodyOf[c]

Write(c) ==
  /\ At(c, "write")
  /\ Upsert(c, TranslatedRow(got[c]["body"], got[c]["caption"], ContentKey(c)))
  /\ Goto(c, "done")
  /\ Count(IF fresh[c] \/ {BodyOf[c], CaptionOf[c]} = {NoKey} THEN "translated"
           ELSE "cached")
  /\ UNCHANGED <<docStatus, phase, bounds, retryFailed, part, got, fresh, waitsOn, retries,
                 rerolls, future, pendingFutures, pendingCache, repair>>

(* Body and caption fail together.                                         *)
WriteFailed(c) ==
  /\ At(c, "writeFailed")
  /\ Upsert(c, FailedRow)
  /\ Goto(c, "done")
  /\ Count("failed")
  /\ UNCHANGED <<docStatus, phase, bounds, retryFailed, part, got, fresh, waitsOn, retries,
                 rerolls, future, pendingFutures, pendingCache, repair>>

-------------------------------------------------------------------------------
(* retranslate_short: one chunk after the other, the body alone, with its  *)
(* neighbours as context and without the cache; one commit at the end.     *)

Repairing == phase = "repairing" /\ UNCHANGED <<bounds, retryFailed, task, shared>>

StartRepair(targets) ==
  /\ phase = "idle"
  /\ repairs < MaxRepairs
  /\ phase' = "repairing"
  /\ repairs' = repairs + 1
  /\ todo' = targets
  /\ UNCHANGED <<durable, runs, retryFailed, task, shared, staged>>

(* select_short_retranslate: only an existing translation is repaired.     *)
RepairShort == StartRepair({c \in Short : rows[c].status = "translated"})

(* --chunk-id takes a chunk whatever its row.                              *)
RepairExplicit == \E targets \in SUBSET Explicit \ {{}} : StartRepair(targets)

First(c) == c \in todo /\ \A d \in todo : c <= d

(* The LLM is asked whatever the content is, a blank one or an equation.   *)
RepairAnswered(c) ==
  /\ Repairing
  /\ First(c)
  /\ staged' = [staged EXCEPT ![c] = ContextText(c)]
  /\ todo' = todo \ {c}
  /\ UNCHANGED <<durable, phase>>

(* An error, lost math or an empty answer leaves the row as it is.         *)
RepairFailed(c) ==
  /\ Repairing
  /\ First(c)
  /\ todo' = todo \ {c}
  /\ UNCHANGED <<durable, phase, staged>>

(* Variant: the repaired row keeps its cache key.                          *)
RepairedKeepingKey(c) ==
  [rows[c] EXCEPT !.status = "translated", !.body = staged[c]]

(* The caption of the row is left as it is.                                *)
Repaired(c) ==
  [rows[c] EXCEPT !.status = "translated", !.body = staged[c], !.key = NoKey]

CommitRepair ==
  /\ Repairing
  /\ todo = {}
  /\ rows' = [c \in Chunk |-> IF staged[c] = NoText THEN rows[c] ELSE Repaired(c)]
  /\ staged' = [c \in Chunk |-> NoText]
  /\ phase' = "idle"
  /\ UNCHANGED <<docStatus, todo>>

(* Interrupted, or a dry run: everything staged is lost.                   *)
StopRepair ==
  /\ Repairing
  /\ todo' = {}
  /\ staged' = [c \in Chunk |-> NoText]
  /\ phase' = "idle"
  /\ UNCHANGED durable

-------------------------------------------------------------------------------

Lookup(c) == LookupHit(c) \/ LookupJoin(c) \/ LookupOwn(c) \/ Wake(c)
Call(c) ==
  \/ StartCall(c) \/ RetryTransient(c) \/ RerollLostMath(c)
  \/ CallReturns(c) \/ CallFails(c) \/ Publish(c) \/ Drop(c)
TaskStep(c) ==
  \/ Skip(c) \/ TakeUp(c) \/ PassThrough(c)
  \/ Lookup(c) \/ Call(c) \/ Write(c) \/ WriteFailed(c)

RepairStep(c) == RepairAnswered(c) \/ RepairFailed(c)

Next ==
  \/ \E rf \in BOOLEAN : StartRun(rf)
  \/ \E c \in Chunk : TaskStep(c) \/ RepairStep(c)
  \/ Finalize
  \/ StopRun
  \/ RepairShort
  \/ RepairExplicit
  \/ CommitRepair
  \/ StopRepair

Spec == Init /\ [][Next]_vars

(* The event loop runs what is ready, asyncio.Lock and Semaphore are fair, *)
(* and the client's timeout ends every request.                            *)
FairSpec == Spec /\ (\A c \in Chunk : WF_vars(TaskStep(c))) /\ WF_vars(Finalize)

-------------------------------------------------------------------------------
(* Properties.                                                             *)

CallsFor(k) == {c \in Chunk : pc[c] \in {"slot", "incall"} /\ Key(c) = k}

(* Dedup, across the separate critical sections of a task: two tasks never *)
(* call for one key at a time, and none calls once the run knows a text.   *)
OneCallPerKey ==
  \A k \in Keys :
    /\ Cardinality(CallsFor(k)) <= 1
    /\ CallsFor(k) # {} => pendingCache[k] = NoText

(* The persistent cache is a function: whatever runs were stopped or had   *)
(* failures, two rows under one key hold the same text, so it does not     *)
(* matter which of them the LIMIT 1 of _db_cache_lookup returns.           *)
CacheIsAFunction ==
  \A c, d \in Chunk :
    rows[c].key = rows[d].key /\ rows[c].key # NoKey => rows[c].body = rows[d].body

(* "All-or-nothing: body and caption share one chunk status": a row that a *)
(* run has made translated has every text the chunk calls for and no other,*)
(* and a failed row holds nothing that a lookup could serve.  A repair     *)
(* replaces the body alone: it brings no caption where none belongs, and   *)
(* its row is under no cache key.                                          *)
WholeRows ==
  \A c \in Chunk :
    /\ rows[c].status = "translated" /\ rows[c].body # ContextText(c) =>
         IF c \in Equations
         THEN rows[c] = TranslatedRow(SourceText(c), NoText, NoKey)
         ELSE /\ rows[c].body = NoText <=> BodyOf[c] = NoKey
              /\ rows[c].caption = NoText <=> CaptionOf[c] = NoKey
    /\ rows[c].body = ContextText(c) =>
         /\ rows[c].status = "translated"
         /\ rows[c].key = NoKey
         /\ CaptionOf[c] = NoKey \/ c \in Equations => rows[c].caption = NoText
    /\ rows[c].status = "failed" => rows[c] = FailedRow

(* "cache_key=NULL so a context-specific phrase can't poison a future      *)
(* identical-source chunk": no later run gives it to another chunk.        *)
RepairStaysLocal ==
  \A c, d \in Chunk :
    ContextText(c) \in {rows[d].body, rows[d].caption} => c = d

(* A run that ends has counted every chunk once.  One that retried the     *)
(* failed chunks calls the document translated only if every chunk is,     *)
(* whatever was stopped before it; the status of any run counts its own    *)
(* failures.                                                               *)
FinishedRunAccounted ==
  [][Finalize =>
       /\ stats["translated"] + stats["passthrough"] + stats["cached"]
            + stats["skipped"] + stats["failed"] = NChunks
       /\ retryFailed => (docStatus' = "translated"
                            <=> \A c \in Chunk : rows[c].status = "translated")]_vars

(* A task waits for a slot or for the call of another task, and for        *)
(* nothing else: db_lock is free between two steps.                        *)
CanGo(c) ==
  \/ pc[c] \notin {"slot", "await", "done"}
  \/ pc[c] = "slot" /\ Cardinality(InCall) < Concurrency
  \/ pc[c] = "await" /\ future[waitsOn[c]] \in {"ok", "failed"}

(* Tasks never wait for each other in a ring, with bodies and captions of  *)
(* one another under way: until all tasks of a run have ended, one of them *)
(* can go on.                                                              *)
NobodyStuck ==
  phase = "running" =>
    (\A c \in Chunk : pc[c] = "done") \/ \E c \in Chunk : CanGo(c)

(* A run that has begun ends: nobody waits for a call that nobody makes.   *)
RunEnds == phase = "running" ~> phase # "running"
===============================================================================
