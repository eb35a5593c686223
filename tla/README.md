# ht_lens in TLA+

ht_lens translates academic PDFs and lets a reader ask questions about them. It
is an asyncio program (FastAPI, SQLAlchemy on SQLite, a command line) with a
browser front end. Its hard part is not any one function but what happens
between two `await`s: several tasks share a session, several requests share
tables, directories and a semaphore, several processes share a database file and
a directory per document, and each of them may stop at any point. These modules
describe that part, TLC checks them on small instances and TLAPS proves their
safety properties for every instance.

Paths below are relative to `src/src/ht_lens/`.

## 1. The system

### Components

| Component | State | Operations | Talks to |
|---|---|---|---|
| Block translation run (`translate/pipeline.py`) | rows of `translations`, `documents.status`; in memory: `db_lock`, semaphore, `pending_cache`, `pending_futures`, `stats` | `translate_document`, one task per block | LLM client, one session |
| Upload and jobs (`api/routers/uploads.py`, `jobs/pipeline.py`) | `jobs`, `documents`, `data/uploads/{sha}.pdf`, `data/extracts/{sha}/` | `POST /uploads`, `process_upload_job`, `mark_in_flight_jobs_failed` | extraction, ingestion, translation, embedding, summary |
| Lifespan (`api/app.py`) | clients, chat semaphore, background tasks | startup, shutdown | all of the above |
| Extraction 1.x (`extract/`) | the extract directory | `extract_pdf` | a worker thread of a job, the command line |
| Ingestion 1.x (`ingest/`) | `documents`, `pages`, `blocks` | `ingest_extract_dir` | a job's session, the command line |
| Chat on blocks (`routers/threads.py`, `messages.py`) | `threads`, `messages` | create, explain, post | LLM client, shared semaphore |
| Chat on chunks (`routers/chunk_chat.py`) | `chunk_threads`, `chunk_messages`, `chunk_pins` | create, delete, post; pins | LLM client, shared semaphore |
| Chat context (`api/chat_context.py`, `chunk_chat_context.py`) | none | builds the LLM's context | embedding search |
| Manual retranslation (`routers/blocks.py`) | `translations` | `POST /blocks/{id}/retranslate` | LLM client, shared semaphore |
| Chunk translation 2.0 (`translate/chunk_pipeline.py`, `short_retranslate.py`) | `chunk_translations` | a task per chunk; a repair pass | LLM client |
| MinerU ingestion 2.0 (`ingest_mineru/`, `extract_mineru/`) | `documents`, `chunks`, `data/extracts_v2/{id}/` | ingest, overwrite; merge of page ranges | the command line |
| Image repair (`image_repair.py`) | chunk image paths | a batch pass | MinerU output |
| Embeddings (`embedding/`) | `block_embeddings`, `chunk_embeddings` | backfill, search, lookup | a job, chat context |
| Summary (`summarize/`) | `documents.summary` | `summarize_document` | a job, `POST /documents/{id}/summarize` |
| LLM clients (`llm/`) | none | translate, chat, health check | an HTTP server |
| Front end 1.x (`static/js/viewer.js`, `state.js`, `components/`) | the selected page, block, thread; panel token; the jobs poll | clicks, answers of fetches, timers | the API |
| Front end 2.0 (`static/js/reflow.js`, `chat.js`, `sections.js`) | selection, thread | clicks, answers of fetches | the API |
| Database (`db/`) | schema and constraints | sessions, migrations | everything |

### What is hard

* **Interleaving.** Block tasks share one session, a cache and futures; the
  correctness of "one LLM call per text" depends on what is read and written
  under `db_lock` and in which order. Requests are check-then-act over the
  database with awaits in between.
* **Failure.** An LLM call can fail transiently or for good, while others wait
  for its result. Every stage of a job can fail; two of them only warn.
* **Crash and restart.** A job spans several transactions and a directory.
  Startup has to clean up from the database alone.
* **Stale state.** Rows loaded before an LLM call are written after it; row ids
  are SQLite rowids and are used again.
* **Limits and liveness.** Semaphores are shared; whoever waits must be served
  whatever happens to those before.

### What makes each component correct

* Translation: one call per text and run; blocks with equal text end alike, unless
  another document's run answers in between; a translated row is not redone; a
  stopped run leaves answers only and can be resumed; a run ends and its counts add up.
* Jobs: a job ends; its status tells the truth about its document; documents
  that can be read stay readable with their page images; a restart forgets
  nothing.
* Chats: transcripts of whole turns, nothing left over from deleted threads,
  every question answered; a context that begins with what was asked about, stays
  in its section and within its budget.
* Chunk translation: one call per text at a time; a row is all or nothing; two
  rows under one cache key hold one text, whatever failed or was stopped; a
  repaired text stays with its chunk; a run ends and its counts add up.
* MinerU ingestion and image repair: every figure of a readable document can be
  shown, and is its own; chunks stand on the page they come from; documents of
  the other generation are left alone.
* Embeddings: a backfill can be repeated, interrupted and done with another
  encoder; what a search returns is scored by its own vector.
* Front end: a question goes to a thread of what was selected when it was asked.

`PROJECT.json` lists the hazards line by line, with the properties that cover
them and, for those no property covers, the reason.

## 2. Modules

| Module | Models | Abstract specification | Proofs |
|---|---|---|---|
| `TranslatePipeline` | `translate_document`, its block tasks, abort, crash, rerun; manual retranslation | `SingleFlight` | `TranslatePipelineProofs`, `TranslateAnswersProofs` |
| `UploadJobs` | the upload request, the job, stop and restart | `UploadLedger` | `UploadJobsProofs` |
| `Chat` | questions in both chats, threads created and deleted, re-ingestion | | `ChatProofs` |
| `ChunkTranslate` | `translate_chunks` and `retranslate_short` | | `ChunkTranslateProofs` |
| `MineruLibrary` | ingestion and merging of MinerU output, overwriting, image repair, the reading view | | `MineruLibraryProofs` |
| `Retrieval` | both backfills, both searches, the context a chat request builds with them | | `RetrievalProofs` |
| `ReflowChat` | the chat panel of the 2.0 reading view | | |
| `MCTranslatePipeline`, `MCUploadJobs`, `MCChat`, `MCChunkTranslate`, `MCMineruLibrary`, `MCRetrieval` | the instances TLC checks | | |
| `DataLemmas` | | | lemmas on least elements, loops and lists, for the last two |

The modules compose through what they assume of each other: `UploadJobs` takes a
translation run as one step that ends (`RunEnds`), `Chat` takes re-ingestion as
one step (`CommitIngest` of `MineruLibrary`), `Retrieval` takes the same step with
the ids it frees, and `MineruLibrary` takes 1.x documents from the jobs
(`AddLegacy`, `SweepLegacy`). Their variables are disjoint tables but for
`documents`, of which each keeps the columns it reads.

A definition marked "variant" beside another is how that
definition would read with a plausible mistake; it is used by no specification
and serves to show that the properties notice the mistake.

### TranslatePipeline

`pc` follows a block task through `_process_block`: `precheck` (in the line for
`db_lock`), then done, or `slot`/`incall` (an owner in `_translate_with_retry`)
or `await` (a waiter), then `recordOk`, `recordFail`, `serveOk`, `serveFail`
(again in the line) and `done`. What a task does while it holds `db_lock` is one
action, since nothing else of the run touches the session or the shared
dictionaries then; an action ends where the task waits for the lock, the
semaphore, the LLM or a future. `turn`/`arrivals` are the lock's queue: an
`asyncio.Lock` is first come, first served, and the order matters (see the proof
of `OneCall`). A future is a value per owner; `pendingFutures` and `pendingCache`
are the dictionaries of the same names. `loaded` is what `session.get`
found at the precheck. A failed row stays in the session's identity map: after the
LLM call `session.get` returns that object, not the row, and the flush writes the
columns that differ from it. Of a missing row nothing is kept: it is read afresh
and every column is written.

`elsewhere` holds the translated rows of other documents. They come and go at any
time (`OtherDocument`), as the runs of several documents share the table, and each
precheck looks among those there are then (`DbTexts`).

Texts are abstracted to where they come from (the call of a run's block, a
manual retranslation, another document). `Abort` is an exception in the
`as_completed` loop (a failed commit, a failing progress callback, a
cancellation); every task is then cancelled at the await it is in, which is a
different step for owners, waiters and those in line. The task that holds the lock
may then be awaiting a commit, which is in the hands of the database's thread:
`committing` is that commit, and `CommitEnds` lets it land or be lost, before or
after its task has been cancelled; the session is closed behind it (`AbortEnds`).
`Crash` keeps only the rows. Not modelled: `dry_run`, `on_progress` beyond its
ability to fail, the LLM call of the manual route (its text may arrive at any
time), a failing commit other than as `Abort`, and a second run of the same
document beside this one. A precheck's reads and its commit are one step.

`CanGo` says where a task can take its next step, and `NobodyStuck` that some task
of a run always can; in every reachable state with a run `CanGo(b)` is
`ENABLED TaskStep(b)`, written without `ENABLED` so that it can be proved about.
`ChunkTranslate` has the same two.

`SingleFlight` is the contract of the docstring ("each unique `cache_key`
triggers at most one LLM call"): a key has at most one leader, a conclusion is
made once, and callers take that conclusion only after it was made.
`ImplementsSingleFlight` maps owners to leaders, futures to conclusions and
recorded rows to answers.

### UploadJobs

An upload is one thread of control: the request (`check`, `insert`, `spawn`),
then the job (`prepare` ... `finish`), as an action per stretch between two
awaits that other uploads can observe. `docs` and `jobs` are the tables;
`extract` says for each PDF whether its directory is absent, partial or complete;
`wiped` remembers that a directory was removed under a thread that was writing
it. `CommitDocument` and `Link` are two actions, as the code commits the document
and updates the job in two transactions. A failure of any stage, the progress
updates included, goes to `fail`; there the failure is recorded or, if that
update fails too, the job is `stranded`: active in the table, with no task.
`Stop` is a crash or a shutdown at any point. `Restart` is
`mark_in_flight_jobs_failed`. Ids of documents are reused as SQLite does.
`redundant` is an auxiliary variable: the contents for which the race of two
uploads (below) has happened.

`translate_document` is one step here, with the guarantee that it ends taken
from `RunEnds`. Not modelled: `progress_pct` and messages, the size and
magic-byte checks (they end the request before any state), the temporary file.

`UploadLedger` is what a polling client may rely on: active until done or
failed and then for ever so, done only when the PDF is readable, readable for
ever.

### Chat

`threads`, `messages` and `anchors` (blocks and chunks) are tables, with rowids
reused and with the foreign keys' effect on deletion. A question goes through
`found` (thread loaded), `prepared` (context built), `waiting` (transcript read, in
the line of the semaphore), `calling`, `returned` (only the chunk chat looks again),
`checked`, and ends `stored`, `notFound`, `conflict`, `error` or `badGateway`.
Reads are separate steps, as SQLite reads outside a transaction are not a
snapshot. `explain` is a question with a fixed text. Re-ingestion is what
another process does with `--overwrite`. Pins, titles and the choice of context
are left out, and a stop of the server, which ends requests before or after the
one commit they make. What the context holds is the subject of `Retrieval`.

### ChunkTranslate

A task per chunk follows `_process_chunk`: `precheck` (skip, pass an equation
through, or go on), then for the body and after it for the caption `lookup`
(`LookupHit`, `LookupJoin`, `LookupOwn`), `await` or `slot`/`incall`, `publish` or
`drop`, and at the end `write` or `writeFailed`. Unlike `translate_document` it
takes `db_lock` several times and drops a failed key, so a later task may call
for it again; hence `OneCallPerKey` speaks of calls at one time, not per run.
An answer that lost a math placeholder is asked for again (`RerollLostMath`, with
a new allowance of transient errors), a bounded number of times.
The future is resolved before the owner has the lock to publish, which is why
`CallReturns` and `Publish` are two steps. A row carries the key of its body; the
text of a caption is known to the run only. `StopRun` is an interruption, a
failed commit or a kill: the committed rows stay. A chunk without a body gets the
key of the empty text (`BlankKey`), which no lookup asks for.

A repair (`retranslate_short`) asks for bodies one after the other with their
neighbours as context, without the cache, whether or not they have a text of their
own or a caption, and commits them together; `StopRepair`
loses what was staged, which is also what a dry run does. Texts are told apart by origin, as in
`TranslatePipeline`, with `ContextText` for those of a repair. Not modelled: what
makes a chunk "short" (the constant `Short`), which text counts as math
(`MathKeys`), `limit` and the progress callback.

### MineruLibrary

`docs` is the `documents` table with the chunks of each row; `dirs` is
`<extracts>/<id>/`, with images, clipped figures (`fixed`), the override manifest
and the caption overrides. Commands run one at a time; each begins, takes its
steps and commits, fails or is killed. `BeginIngest` is everything up to the
flush that gives the new row its id: merging (`Mergeable`, `OffsetItems`: pages
offset, image names given the number of their part), parsing (`Kept`, `ChunkOf`),
the lookup of an existing document and its deletion in the open transaction, and
the id SQLite gives, which may be the deleted one's. `CopyImage` is one file,
`CommitIngest` the commit, `FailIngest` the `except` branch that removes the
directory, `KillIngest` leaves it. `DetectRepairs` writes a report,
`BeginRepair` takes any part of it, as an editor may leave it (which figures are
allowed, which captions), `ClipFigure` and `SaveOverrides` write the directory. `ChunkImage` and `Reflow` are what the
routes of `reflow.py` serve from database and directory together: the override
that matches page, image and box, nested panels left out.

Bytes are tokens (MinerU's cut, or `Region`, a clip at a place of a file), a
degraded picture is a flag of the item. What the code takes from MinerU is stated
as assumptions that the instances are checked against: the outputs of a PDF are
given in page order and each item carries the page its output counts from
(`OutputsInOrder`, with `first` the page an output begins at), and an images directory
has one file of a name (`OneFilePerName`). Nothing is assumed of the names
themselves: `merge.py` does not take them for hashes, so two files may have the same
name at the same place. `stale` is an auxiliary variable: the ids whose directory
has a manifest that was saved for an earlier document of the id, by an overwrite or
by another file. Not modelled: the text of chunks, section paths, the rendering.

### Retrieval

`Shelf` fixes what does not change about each block and chunk, among it the length of
the text (`chars`, which the backfill and each of the searches compares with a
threshold of its own) and the section `number` of a heading; `text` is the
version of its text (0: the row does not exist), so that a re-ingest with reused
ids (`ReplaceDocument`) gives an id another text. `rows` are the two embedding
tables; a row has the encoder, the item and version its vector was computed from,
and the hash. A backfill reads its candidates (`Begin`), checks each against the
row (`Check`), and encodes and commits in batches (`WriteBatch`, which breaks a
foreign key and ends the backfill if an item has gone). Several run at once, in
the server and from command lines, possibly with different encoders.

A chat request is one reader whose statements interleave with all that: window or
section context (`WindowContext`, `PlainSection`, or `ReadSection`,
`LoadSectionRows` and `TopKSection` for a section over its budget), then the
query vector, stored or computed (`FindQuery`), and the search (`LoadRefRows`,
`ChunkRefs`, `BlockRefs`). What a search may return is the set `Hits` of the lists
that are sorted by score, of at most top-k rows above the threshold, with ties in
any order. `Load` keeps the rows of the dimension most rows have.
`calm` and `settled` are history variables: whether a backfill ran undisturbed,
and the claim of the last that did. `SettledServesAll` has two halves: the
candidates of a settled backfill have vectors of their present texts by its
encoder, and, if it covered all documents, a search reads every one of them while
they outnumber the rows of the kind that are no candidates. Without that bound the
second half is false: the late batch of another backfill with another encoder
leaves rows that are in the majority, and `Load` drops the settled ones. Similarity is a step function given by
`relevance`; sizes are tokens of `size`. Not modelled: the wording of the prompt,
and what the encoder computes.

### ReflowChat

`chat.js` on one page: `Select`, `Submit`, and the answers of the two requests
(`Created`, `Posted`, `Failed`) in any order. The server side is the table of
threads with their anchors and the messages stored. It serves one question: does
a question reach a thread of what was selected when it was asked?

## 3. Runs

| Run | Instance | Shows |
|---|---|---|
| `translate` | 4 blocks: two with one key, one alone, one image; a row of another document with the shared key, coming and going; 2 runs; 1 retry; 1 slot | ten properties of translation hold |
| `translate_overlap` | same, manual retranslation also during a run | **violated**: `TranslatedRowsKept` |
| `upload_jobs` | 3 uploads of 2 PDFs, 2 at a time, 1 stop | seven properties of jobs hold |
| `upload_ghost` | same | **violated**: `RestartLeavesNoGhost` |
| `chat` | 3 questions in 2 chats, 1 slot, 2 threads created, 1 re-ingestion | five properties of the chats hold |
| `chat_reused_id` | same | **violated**: `ReplyStaysInItsThread` |
| `chunk_translate` | 4 chunks: a captioned figure whose caption is another chunk's body and holds math, a repeated body, an equation; 2 runs, 1 repair, 1 retry, 1 reroll, 1 slot | eight properties of the chunk translation hold |
| `mineru_library` | 2 files, 5 requests (merged from parts, whole, with a missing image), 3 ids, 7 commands | four properties of the library hold while no overwrite stops within the old document's directory |
| `mineru_stale` | same | **violated**: `StaleManifestStopsMatching` |
| `mineru_overwrite` | same, 6 commands, with such stops | **violated**: `EveryFigureServed` |
| `retrieval` | 14 items in 5 documents, ten of them one document with nested sections, 2 backfills by 2 processes with 2 encoders, 1 request at a time | four properties of embeddings, search and context hold |
| `reflow_chat` | 2 selections, 2 questions, 2 threads | **violated**: `QuestionInItsContext` |

The violated properties are sentences of the code's own comments; the findings in
`PROJECT.json` quote them. In short: a run overwrites a manual retranslation made
while it was calling the LLM; a stop between two commits leaves a document that
no restart cleans up; an answer can be stored in a
thread that was created, with the same rowid, after its own was deleted; an
overwrite that fails removes the directory of the document it then restores, when
that had the highest id; a repair manifest left by a document of another file matches
a figure of the document that has its id now; a thread whose creation ends after the selection has
changed takes the questions of the new selection.

Further disagreements of code and comments that need no run to be seen are in
`findings` without one, among them the directory that a second job for one PDF
removes under the first: the router concedes the race, so `UploadJobs` has its steps
and the properties except the contents for which it happened (`redundant`).

**Bounds.** The hazards of translation need two blocks of one text (an owner and
a waiter), a third task to stand between them in the lock's line, a block that is
skipped, and a row of another document that may appear or go between any two
prechecks, so that of the two blocks each may be served by it, neither or both; a
second run is needed for rows left by the first. The run has all of these at once. One semaphore slot makes calls queue; the proofs
cover any number. Jobs interact in pairs, through a PDF and through rowids, so two
uploads of one PDF and one of another, two at a time, show every pair; two stops
add nothing, as `Restart` leaves no active job. `Outcomes` has one status because
no guard tells the two readable ones apart. A chat needs a question whose thread
is deleted and created again (2 creations), a second question to the same thread
and one of the other chat for the semaphore. `CHECK_DEADLOCK` is off since each
system may come to rest: all uploads done, all questions answered, all commands spent.

The chunk translation needs a body that is another chunk's caption (both lookups
meet at one key), a repeated body (a joiner), a key with math, a passthrough, a
run after a stopped one and a repair between two runs. `Explicit` has the captioned
figure and the equation, the two that `--chunk-id` treats unlike a run: it writes a
row without the caption (a finding) and an LLM text for an equation. `WholeRows` asks
for all texts of a row only if a run wrote it. A chunk that is blank and no equation
is in the theorems but not in this instance. Retries and rerolls are 1 each, as their only
effect is to call again.

The library needs a document in parts and whole, an overwrite that shrinks it, a
second file whose document has another id, a missing image, and a repair that
outlives the document it was made for: ingest, report, repair, overwrite and one
more are five commands; two more let a legacy document take an id and be swept, so
that the second file can get the id, directory and manifest of the first. That
is the shortest sequence with a stale manifest that matches, and `mineru_stale` shows
it; `EveryFigureServed` excepts the chunks that such a manifest has entries for, and
no others. `StopInPlace = FALSE` keeps from the passing run the one behaviour
`mineru_overwrite` shows wrong: a failure or kill after an overwrite was
given the id of the document it replaces.

Retrieval has a section over its budget with an unnumbered heading and two numbered
subsections in it, a short section with a subsection at the end of the document, a
document before and one after, of which the last may be replaced (its ids are the
last of the table, those SQLite uses again), and two blocks of different documents,
one padded with blanks. The texts' lengths fall between every two thresholds: 25
characters for a chunk that a search reads and no backfill embeds, 40 for a block
that is embedded and not found. Two backfills meet at every pair of
their steps; batches of 2 split the candidates. Workers and encoders are
interchangeable in every definition, so both are symmetry sets; no liveness is
checked there.

**Fairness.** Weak fairness of each task's steps: the event loop runs every ready
callback, queues of asyncio locks and semaphores are served in order, and LLM
calls end because the client has a timeout (`llm/openai_compat.py`). In
`ChunkTranslate` it is a task's whole step that is fair, and `Finalize`, which
follows when all tasks are done; a run's end needs no fairness among the
outcomes of a call, as retries and rerolls are bounded. Starting
a run, uploading, asking, repairing, aborting, stopping and restarting are not fair: nobody
has to do them. Backfills, commands and requests of `Retrieval` and
`MineruLibrary` have no fairness at all; their properties are about safety.

## 4. Proofs

All theorems are about `Spec` without fairness and hold for every value of the
constants that satisfies the module's `ConstantsAssumption` (and, in
`MineruLibrary`, the assumptions about MinerU's output named in section 2). Two
hypotheses go beyond that, and each is the negation of a finding: `~Overlap` and
`StopInPlace = FALSE`.

**TranslatePipelineProofs.** `TypeCorrect` goes through `WellFormed`, which adds
to `TypeOK` that a waiter has an owner to wait for, that a task in its precheck
has a cache key, and that a run at work has a number.

`OneCall` is the most delicate. `OneCallPerKey` is not inductive: after the owner's
call has failed, the key is unregistered and not cached, and a task that did its
precheck then would call again. None can, because all tasks enter the lock's line
at the start, in block order, and an owner gets back into the line only
behind them. The invariant `SingleCallInv` says so: tasks before their precheck
stand in line ahead of every recording one (`LineOrdered`), and a key with an
owner stays registered until the owner has recorded (`RegistrationKept`).

`ManualLocal` needs that a manual row carries no key and that neither
`pendingCache` nor a keyed row holds a manual text. `RowsKept` assumes
`~Overlap` and rests on: a task that has gone beyond its precheck works on a row
that is not translated and is as it was loaded. A commit that outlives its task is a
case of each of these: `CommitPlaced` says whose it can be (a task of the aborted run
that has not ended well, so its row is still open), `CommitLocal` what it can hold.

**UploadJobsProofs.** `IInv` has five parts: what a job's row says follows from
where its task is (`RowFollowsTask`); for a content without a redundant job at
most one job is active (`OneWorker`); for such a
content no upload that is still before its commit finds a document already there
(`NoSecondExtract`); an upload about to commit finds its
directory complete (`CommitReady`); and `PagesOnDisk`. From it follow `PagesKept`,
`ActiveDriven` and `JobsNameTheirDocuments`.

`DoneComplete` needs that what the stages behind a task have left in its document
stays there: `StagesLeave` says for every stage what is already true of the
document its upload works on, and of the documents of jobs that are done without
a warning. No stage takes a translation, an embedding or a summary away; that the
sweep does not, and that an id used again is not meant, follows with
`JobsNameTheirDocuments`.
`KeepsLedger` is the refinement: every step is an acceptance, an outcome, a PDF
becoming readable, or nothing to `UploadLedger` (`StepImplementsLedger`); that a
done job's PDF is readable, and stays so, comes from the same invariants.

**TranslateAnswersProofs.** `AnswersOnly` needs no hypothesis. That a task records what
its call gave is `Tasks` (below); what is left is the commit under way at an abort,
whose row was an answer when the run was aborted and stays one until it lands
(`CommitAnswers`, `AnswerStays`): the cancelled tasks change no call that has ended, and
nobody else writes a row meanwhile.

`SameText`, `RunAccounted` and `Implements` assume
`~Overlap`: a manual retranslation during the run may change a row between
two recordings, as `translate_overlap` shows. `AnswersInv` ties four views of a
call together: where each task is, its role and the call it belongs to
(`RoleFits`, `PairFits`), the future and the registration (`FutureFits`,
`Registrations`), the rows once recorded (`RowFresh`, `RowAnswers`), and what the
cache serves (`Served`). Its heart is `OwnedUnknown`: as long as some task has
not done its precheck, nothing is known for a key that has an owner but what other
documents' rows hold, so no task is served a text of this run from the cache for a key
that is also called for. That holds because owners record behind all prechecks in the
lock's line, the order `OneCall` needs. What it cannot exclude is what
`SameTextSameOutcome` excepts: a row another document's run commits after the owner
has gone to call. `Implements` maps the state to
`SingleFlight` with the owner of a key as leader; `FlightStep` goes through the
kinds of task steps (`TaskMoves`).

`OneCanGo` and `Advance` are the part of `RunEnds` that does not need fairness, and
neither assumes `~Overlap`. `OneCanGo` (`NobodyStuck`): if somebody is in the lock's
line, its head holds the lock (`LineHasHead`, a least element); otherwise nobody
holds it, and if somebody is in a call it can end, else the slots are free; and if
nobody calls or will call, the owner that a waiter awaits has ended, so its future
is resolved. The invariant is `ProgressInv`: what each task is about to do agrees
with the line (`LineFits`), with the phase (`PhaseFits`) and with roles and futures
(`Tasks`, from above). `Advance`: a task's step lowers its `Rank`, at most
`2 * MaxRetries + 5`, and no other task's. What `RunEnds` adds is that a step that can
always be taken is taken at some time.

**ChatProofs.** `TypeCorrect` needs that the calls under way are no more than the
slots (`WellTyped`, with the queue). `NothingOrphaned` follows because each of the
three deletions takes along what hangs on the row. `TurnsWhole` needs that a
question is in a transcript exactly when it is stored, so two questions of a
thread cannot split each other's turn. `HistoryPast` goes through the `births` of
threads: an id may be used again, a birth is not.

**ChunkTranslateProofs.** `Evidence(k)` is the set of texts anything in the state
offers for a key: rows, the run's cache, the texts tasks hold, futures that
succeeded. `Agreed` says it has at most one element and `Unknown` that it is
empty while a task calls for the key; each is needed to keep the other, together
with the registrations (`Registered`, `Published`) and the shape of rows
(`KeyedRows`). From them follow `CallsDeduplicated` and `CacheFunctional`.
`RepairLocal` adds that no context text is evidence for anything (a repaired row
loses its key). `RowsWhole` has no hypothesis: rows a run wrote are told from repaired
ones by the origin of their text, and staged repairs keep to it too. `RunAccounted` counts:
the sum of the counts is the number of tasks that are done, and the failed count
is positive exactly when a done task's row is failed.

`OneCanGo` is less obvious here than for blocks: a task asks for two texts one
after the other, and each may be another task's. `Carried` says why no ring closes:
whoever waits has no call of its own under way, so a pending future is in the hands
of a task at `slot` or `incall`. In `Advance` a reroll gives back the retries and a
caption follows a body; `AttemptsLeft` shows the allowance still shrinks.

**RetrievalProofs.** `Inv == TablesInv /\ AskOK`. `TablesInv` types the tables and the
backfills and says of each that nothing has disturbed (`CalmWorkers`) that it works
on the texts as they are and has each candidate done or still before it (`OnCourse`),
so that what it claims at its end is true (`SettledOK`). `ServesAll` adds that the
encoder of a strict majority is the one `Load` keeps (`MajorityIsMost`). `AskOK` says
what a request holds at each of its stages (`Sound`): a loaded table whose k-th
vector is of its k-th id (`Aligned`), a query of the anchor's text as it was read, a
context that fits. Tables may change between any two statements of a request; it
keeps its promises because it never uses two of its reads as if they were one
(`OthersKeepRequest`). `Fitting` goes through the three ways to build a section's
context (`SectionOfHeading`, `TruncatedFits`, `PackedFits`). Its property speaks of the outline of
section numbers and not of the scan the code makes; that the scan ends a section where
the outline does is `SectionEnds`, with `OpenIsUnder` and `UnderIsInSection`.

**MineruLibraryProofs.** `LegacyCoexists`: an ingest under way has taken neither
the id nor the row of a 1.x document (`IngestAside`). The other three come from
`LibraryInv`: every document is one that was asked for, as parsed and merged; every
file of a directory is MinerU's picture or a clip of a place, one of each name
(`LibraryOK`); what a command under way still has to do and has done (`CommandOK`);
and, when no ingest stops in place, the pictures of a readable document are in its
directory (`FiguresOK`). `Types` and `OnTheirPages` rest on the lemmas about merging
(`OffsetIsFirst`, `MergedFrom`, `ItemsOfRequest`) and parsing (`ChunksOfRequest`), and
on `OutputsInOrder`. `FiguresServed` assumes `StopInPlace = FALSE`, as the run does:
the other value is the violation of `mineru_overwrite`. It rests on `ManifestOK`: a
manifest that is not stale has only entries of chunks of the document (`Sound`), and a
clip under such a chunk's name shows the chunk's box in the document's own file
(`ClipsOf`); the repair under way will save such entries only. A clip left by a repair
that was killed may show another extraction's box; it is served only through an entry,
and a commit over a manifest makes that manifest stale. So a chunk that no stale
manifest matches shows its own picture or a clip of its own place.

**DataLemmas.** What folds, sorting and `CHOOSE` compute for every input. The
library's induction theorems take an operator and cannot be used; the lemmas here
take a set instead. A non-empty set of naturals has a least element
(`LeastNatural`, from the well-foundedness of `<`), so a property that a loop keeps
has no first step at which it fails (`LoopInduction`, `LoopValues`), and the items of
a finite set can be ranked by how many are below them (`RankedList`).

**Not proved, only checked.** Liveness: `RunEnds` twice, `JobsSettle` and
`QuestionsEnd`; the installed provers do not handle fairness and ENABLED. For the two
`RunEnds` the theorems `OneCanGo` and `Advance` prove what is left when fairness is
taken away. Every other property of a passing run is a theorem. The properties of
the violated runs are false, as their runs show; `RowsKept` and `FiguresServed` prove
that two of them hold without the behaviour that violates them.

## 5. Not modelled

* The viewer of 1.x (`viewer.js`, `jobs_panel.js`): its races are hazards in
  `PROJECT.json`, but they concern what is shown until the next click, and no
  text of the repository says what should be shown meanwhile.
* The MinerU runner and the LLM clients: they keep nothing between calls; the
  modules start from their outcomes.
* Inside of extraction 1.x: grouping, reading order and rendering are functions
  of a PDF with no promise stated about them that a small instance would show.
* Encoders, wording of prompts, export formats, migrations, styling: numeric,
  textual or run by an operator.
* Pins of chunks and titles of threads: single statements.
* Two ingests at the same time from two terminals: which of them SQLite lets
  write is SQLite's locking.
* Two runs of one document at once, a job's and one from the command line
  (`translate/pipeline.py:81`): nothing prevents them, and each has a lock, a cache and
  a session of its own, so the promises of a run are kept per run only.
* What a client of `POST /uploads` remembers across a restart: a dedup answer may
  name a document that the sweep then deletes (`routers/uploads.py:125`).
* The 1.x command line's ingest, which looks up by filename and raises when two
  uploads share one (`ingest/pipeline.py:82`); `ingest-mineru-multi` rewriting the
  merged directory before it finds the document ingested (`ingest_mineru/merge.py:148`),
  and the runner's choice among old outputs (`extract_mineru/runner.py:65`).
* What the viewer shows of a second wave of jobs (`components/jobs_panel.js:142`)
  and while a message loads (`viewer.js:571`).

Known limits of what is modelled: `UploadJobs` has translation, embedding and
summary as one step each; `Retrieval` has one request at a time (requests only
read there, so they do not affect each other); `MineruLibrary` identifies
the origin PDF with its name.

## 6. Possible extensions

* An abstract specification for `ChunkTranslate`: `SingleFlight` with calls that may
  be repeated after a failure.
* Progress of jobs and questions as theorems, in the way of `OneCanGo`.
* The viewer, once it is decided what it should show between a click and the
  answer.
