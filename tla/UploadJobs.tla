------------------------------ MODULE UploadJobs ------------------------------
(***************************************************************************)
(* POST /uploads (api/routers/uploads.py), the background job it spawns    *)
(* (jobs/pipeline.py, ingest/pipeline.py) and the restart of the server    *)
(* (api/app.py, mark_in_flight_jobs_failed).                               *)
(*                                                                         *)
(* An upload is one thread of control: the request, then the job it        *)
(* created.  Uploads share the documents and jobs tables and, when they    *)
(* carry the same PDF, the directory data/extracts/{sha256}.  Each action  *)
(* ends at an await, where the event loop may run any other upload; a      *)
(* status report and the stage it announces are one action.                *)
(*                                                                         *)
(* A job is named by the upload that created it (job ids are never         *)
(* reused).  Document ids are SQLite rowids: one more than the highest id  *)
(* in use.  data/uploads/{sha256}.pdf is never removed once it is there    *)
(* and is left out; progress_pct and the messages are left out.            *)
(***************************************************************************)
EXTENDS Naturals, FiniteSets

CONSTANTS
  Upload,       (* requests of a behaviour (a bound)                       *)
  Content,      (* the PDFs, told apart by sha256                          *)
  ContentOf,    (* upload -> the PDF it carries                            *)
  Outcomes,     (* statuses a translation leaves (a bound on Readable)     *)
  HasEmbedder,  (* is app.state.embedding_client set?                      *)
  MaxAtOnce,    (* bound on the uploads in progress at the same time       *)
  MaxStops      (* bound on the crashes and shutdowns of a behaviour       *)

Readable == {"translated", "partial_translated"}

ASSUME ConstantsAssumption ==
  /\ IsFiniteSet(Upload)
  /\ ContentOf \in [Upload -> Content]
  /\ Outcomes \subseteq Readable
  /\ HasEmbedder \in BOOLEAN
  /\ MaxAtOnce \in Nat
  /\ MaxStops \in Nat

VARIABLES
  docs,       (* the documents table                                       *)
  jobs,       (* the jobs table                                            *)
  extract,    (* content -> data/extracts/{sha256}                         *)
  up,         (* does the server serve?                                    *)
  stops,      (* crashes and shutdowns so far                              *)
  pc,         (* where each upload is                                      *)
  wiped,      (* was the directory removed under the extracting thread?    *)
  warned,     (* embed_error or summary_error                              *)
  redundant   (* auxiliary: contents for which a job was created though a  *)
              (* document or an active job of that content existed         *)

durable == <<docs, jobs, extract>>
vars == <<docs, jobs, extract, up, stops, pc, wiped, warned, redundant>>

-------------------------------------------------------------------------------

DocId == 1..Cardinality(Upload)    (* every document comes from an upload  *)

Active == {"pending", "extracting", "ingesting", "translating", "summarizing"}

Document == [id : DocId, sha : Content,
             status : {"ready_for_translation"} \cup Readable,
             embedded : BOOLEAN, summary : BOOLEAN]

(* "absent" is an upload without a row; document 0 is NULL.                *)
Job == [status : {"absent", "done", "failed"} \cup Active,
        document : DocId \cup {0}, error : BOOLEAN]

Handling == {"check", "insert", "spawn"}
Driving == {"prepare", "extract", "extracting", "ingest", "commit", "link",
            "translate", "embed", "summarize", "finish"}

TypeOK ==
  /\ docs \subseteq Document
  /\ jobs \in [Upload -> Job]
  /\ extract \in [Content -> {"absent", "partial", "complete"}]
  /\ up \in BOOLEAN
  /\ stops \in 0..MaxStops
  /\ pc \in [Upload -> {"idle", "fail", "ended", "stranded"} \cup Handling \cup Driving]
  /\ wiped \in [Upload -> BOOLEAN]
  /\ warned \in [Upload -> BOOLEAN]
  /\ redundant \subseteq Content

Init ==
  /\ docs = {}
  /\ jobs = [u \in Upload |-> [status |-> "absent", document |-> 0, error |-> FALSE]]
  /\ extract = [c \in Content |-> "absent"]
  /\ up = TRUE
  /\ stops = 0
  /\ pc = [u \in Upload |-> "idle"]
  /\ wiped = [u \in Upload |-> FALSE]
  /\ warned = [u \in Upload |-> FALSE]
  /\ redundant = {}

-------------------------------------------------------------------------------

DocumentsOf(c) == {d \in docs : d.sha = c}
ActiveJobsOf(c) == {u \in Upload : ContentOf[u] = c /\ jobs[u].status \in Active}

At(u, label) == up /\ pc[u] = label
Goto(u, label) == pc' = [pc EXCEPT ![u] = label]

(* update_job: a short transaction of its own.                             *)
SetStatus(u, status) == jobs' = [jobs EXCEPT ![u].status = status]

-------------------------------------------------------------------------------
(* upload_pdf.                                                             *)

(* The body has been streamed to a temporary file and hashed; a document   *)
(* with this sha256 answers the request.                                   *)
InProgress == {v \in Upload : pc[v] \notin {"idle", "ended", "stranded"}}

CheckDocument(u) ==
  /\ At(u, "idle")
  /\ Cardinality(InProgress) < MaxAtOnce
  /\ Goto(u, IF DocumentsOf(ContentOf[u]) # {} THEN "ended" ELSE "check")
  /\ UNCHANGED <<durable, up, stops, wiped, warned, redundant>>

(* So does an active job of the same content.                              *)
CheckJob(u) ==
  /\ At(u, "check")
  /\ Goto(u, IF ActiveJobsOf(ContentOf[u]) # {} THEN "ended" ELSE "insert")
  /\ UNCHANGED <<durable, up, stops, wiped, warned, redundant>>

InsertJob(u) ==
  /\ At(u, "insert")
  /\ SetStatus(u, "pending")
  /\ redundant' = IF DocumentsOf(ContentOf[u]) # {} \/ ActiveJobsOf(ContentOf[u]) # {}
                    THEN redundant \cup {ContentOf[u]} ELSE redundant
  /\ Goto(u, "spawn")
  /\ UNCHANGED <<docs, extract, up, stops, wiped, warned>>

(* A statement of the request fails.  Past the commit (the refresh of the  *)
(* new row) that leaves a pending job without a task.                      *)
RequestFails(u) ==
  /\ up
  /\ pc[u] \in Handling
  /\ Goto(u, IF pc[u] = "spawn" THEN "stranded" ELSE "ended")
  /\ UNCHANGED <<durable, up, stops, wiped, warned, redundant>>

-------------------------------------------------------------------------------
(* process_upload_job.                                                     *)

(* The task is created and reports that it has begun.                      *)
Begin(u) ==
  /\ At(u, "spawn")
  /\ SetStatus(u, "extracting")
  /\ Goto(u, "prepare")
  /\ UNCHANGED <<docs, extract, up, stops, wiped, warned, redundant>>

(* Another task is writing the directory of this content.                  *)
BeingWritten(c) == \E v \in Upload : pc[v] = "extracting" /\ ContentOf[v] = c

WipeUnder(c) ==
  wiped' = [v \in Upload |-> wiped[v] \/ (pc[v] = "extracting" /\ ContentOf[v] = c)]

(* What an earlier job left of the directory is removed; the file system   *)
(* may refuse while a thread is writing there, which fails this job.       *)
Prepare(u) ==
  LET c == ContentOf[u]
  IN  /\ At(u, "prepare")
      /\ \/ /\ extract[c] = "absent"
            /\ Goto(u, "extract")
            /\ UNCHANGED <<extract, wiped>>
         \/ /\ extract[c] # "absent"
            /\ extract' = [extract EXCEPT ![c] = "absent"]
            /\ WipeUnder(c)
            /\ Goto(u, "extract")
         \/ /\ extract[c] # "absent"
            /\ BeingWritten(c)
            /\ extract' = [extract EXCEPT ![c] = "partial"]
            /\ WipeUnder(c)
            /\ Goto(u, "fail")
      /\ UNCHANGED <<docs, jobs, up, stops, warned, redundant>>

(* extract_pdf starts in a thread: it refuses a directory that has files.  *)
Extract(u) ==
  /\ At(u, "extract")
  /\ IF extract[ContentOf[u]] = "absent"
       THEN /\ extract' = [extract EXCEPT ![ContentOf[u]] = "partial"]
            /\ Goto(u, "extracting")
       ELSE /\ Goto(u, "fail")
            /\ UNCHANGED extract
  /\ UNCHANGED <<docs, jobs, up, stops, wiped, warned, redundant>>

(* The thread ends with doc_meta.json.  If the directory was removed under *)
(* it, its first pages are missing unless another job has written them.    *)
ExtractEnds(u) ==
  LET c == ContentOf[u]
  IN  /\ At(u, "extracting")
      /\ extract' = [extract EXCEPT ![c] =
            IF wiped[u] /\ @ # "complete" THEN "partial" ELSE "complete"]
      /\ wiped' = [wiped EXCEPT ![u] = FALSE]
      /\ Goto(u, "ingest")
      /\ UNCHANGED <<docs, jobs, up, stops, warned, redundant>>

(* ingest_extract_dir reads the manifest and the pages, all of which must  *)
(* be there ...                                                            *)
Ingest(u) ==
  /\ At(u, "ingest")
  /\ SetStatus(u, "ingesting")
  /\ Goto(u, IF extract[ContentOf[u]] = "complete" THEN "commit" ELSE "fail")
  /\ UNCHANGED <<docs, extract, up, stops, wiped, warned, redundant>>

(* ... and inserts the document.  The first INSERT takes SQLite's write    *)
(* lock and meets the UNIQUE index of src_pdf_sha256, so the insertion and *)
(* the commit are one step.                                                *)
NextDocument(i) ==
  /\ \A d \in docs : d.id < i
  /\ i = 1 \/ \E d \in docs : d.id = i - 1

Insertion(u, i) ==
  [id |-> i, sha |-> ContentOf[u], status |-> "ready_for_translation",
   embedded |-> FALSE, summary |-> FALSE]

CommitDocument(u) ==
  /\ At(u, "commit")
  /\ IF DocumentsOf(ContentOf[u]) = {}
       THEN \E i \in {n \in DocId : NextDocument(n)} :
              /\ docs' = docs \cup {Insertion(u, i)}
              /\ Goto(u, "link")
       ELSE /\ Goto(u, "fail")
            /\ UNCHANGED docs
  /\ UNCHANGED <<jobs, extract, up, stops, wiped, warned, redundant>>

(* Only now is the job row given the document's id.  (document_id is a     *)
(* local variable until then: the id of this content's document.)          *)
Link(u) ==
  /\ At(u, "link")
  /\ \E d \in DocumentsOf(ContentOf[u]) :
       jobs' = [jobs EXCEPT ![u].status = "translating", ![u].document = d.id]
  /\ Goto(u, "translate")
  /\ UNCHANGED <<docs, extract, up, stops, wiped, warned, redundant>>

(* translate_document as a whole: see TranslatePipeline.                   *)
Translate(u) ==
  /\ At(u, "translate")
  /\ \E status \in Outcomes :
       docs' = {IF d.id = jobs[u].document THEN [d EXCEPT !.status = status] ELSE d
                 : d \in docs}
  /\ Goto(u, IF HasEmbedder THEN "embed" ELSE "summarize")
  /\ UNCHANGED <<jobs, extract, up, stops, wiped, warned, redundant>>

(* Variant: the stage reports a status that JOB_STATUSES does not have.    *)
EmbedReporting(u) ==
  /\ At(u, "embed")
  /\ SetStatus(u, "embedding")
  /\ Goto(u, "summarize")
  /\ UNCHANGED <<docs, extract, up, stops, wiped, warned, redundant>>

(* backfill of the document's embeddings; its failure is only a warning.   *)
Embed(u) ==
  /\ At(u, "embed")
  /\ \/ /\ docs' = {IF d.id = jobs[u].document THEN [d EXCEPT !.embedded = TRUE] ELSE d
                      : d \in docs}
        /\ UNCHANGED warned
     \/ /\ warned' = [warned EXCEPT ![u] = TRUE]
        /\ UNCHANGED docs
  /\ Goto(u, "summarize")
  /\ UNCHANGED <<jobs, extract, up, stops, wiped, redundant>>

(* Variant: a failed summary is logged and not recorded.                   *)
SummarizeSilently(u) ==
  /\ At(u, "summarize")
  /\ SetStatus(u, "summarizing")
  /\ Goto(u, "finish")
  /\ UNCHANGED <<docs, extract, up, stops, wiped, warned, redundant>>

(* So is a summary that fails or that has nothing to summarize.            *)
Summarize(u) ==
  /\ At(u, "summarize")
  /\ SetStatus(u, "summarizing")
  /\ \/ /\ docs' = {IF d.id = jobs[u].document THEN [d EXCEPT !.summary = TRUE] ELSE d
                      : d \in docs}
        /\ UNCHANGED warned
     \/ /\ warned' = [warned EXCEPT ![u] = TRUE]
        /\ UNCHANGED docs
  /\ Goto(u, "finish")
  /\ UNCHANGED <<extract, up, stops, wiped, redundant>>

Finish(u) ==
  /\ At(u, "finish")
  /\ jobs' = [jobs EXCEPT ![u].status = "done", ![u].error = warned[u]]
  /\ Goto(u, "ended")
  /\ warned' = [warned EXCEPT ![u] = FALSE]
  /\ UNCHANGED <<docs, extract, up, stops, wiped, redundant>>

(* Variant: an exception ends the task without reaching the handler.       *)
StageFailsSilently(u) ==
  /\ up
  /\ pc[u] \in {"spawn"} \cup Driving
  /\ Goto(u, "ended")
  /\ UNCHANGED <<durable, up, stops, wiped, warned, redundant>>

(* An exception in any stage, the status reports included, goes to the     *)
(* handler at the end of process_upload_job ...                            *)
StageFails(u) ==
  /\ up
  /\ pc[u] \in {"spawn"} \cup Driving
  /\ Goto(u, "fail")
  /\ wiped' = [wiped EXCEPT ![u] = FALSE]
  /\ warned' = [warned EXCEPT ![u] = FALSE]
  /\ UNCHANGED <<durable, up, stops, redundant>>

(* Variant: the handler also removes the extract directory.                *)
RecordFailureCleaningUp(u) ==
  /\ At(u, "fail")
  /\ jobs' = [jobs EXCEPT ![u].status = "failed", ![u].error = TRUE]
  /\ extract' = [extract EXCEPT ![ContentOf[u]] = "absent"]
  /\ Goto(u, "ended")
  /\ UNCHANGED <<docs, up, stops, wiped, warned, redundant>>

(* ... which records it ...                                                *)
RecordFailure(u) ==
  /\ At(u, "fail")
  /\ jobs' = [jobs EXCEPT ![u].status = "failed", ![u].error = TRUE]
  /\ Goto(u, "ended")
  /\ UNCHANGED <<docs, extract, up, stops, wiped, warned, redundant>>

(* ... unless that update fails too: the task is gone, the job is active.  *)
LoseFailure(u) ==
  /\ At(u, "fail")
  /\ Goto(u, "stranded")
  /\ UNCHANGED <<durable, up, stops, wiped, warned, redundant>>

-------------------------------------------------------------------------------
(* The server stops: it dies, or its lifespan ends and cancels every task  *)
(* (CancelledError is no Exception, so no handler records anything).  An   *)
(* extracting thread stops as well, or is let run to its end.              *)
Stop ==
  /\ up
  /\ stops < MaxStops
  /\ up' = FALSE
  /\ stops' = stops + 1
  /\ \E ran \in SUBSET {c \in Content : \E v \in Upload :
                          pc[v] = "extracting" /\ ContentOf[v] = c /\ ~wiped[v]} :
       extract' = [c \in Content |-> IF c \in ran THEN "complete" ELSE extract[c]]
  /\ pc' = [u \in Upload |-> IF pc[u] = "idle" THEN "idle" ELSE "ended"]
  /\ wiped' = [u \in Upload |-> FALSE]
  /\ warned' = [u \in Upload |-> FALSE]
  /\ UNCHANGED <<docs, jobs, redundant>>

InFlightStarted ==   (* variant: a pending job is not in flight *)
  {u \in Upload : jobs[u].status \in Active \ {"pending"}}

(* mark_in_flight_jobs_failed, in one transaction before the first request *)
(* is served.  documents.id is referenced ON DELETE SET NULL.              *)
InFlight == {u \in Upload : jobs[u].status \in Active}

HalfIngestedOrNot ==   (* variant: whatever the status of the document *)
  {d \in docs : \E u \in InFlight : jobs[u].document = d.id}

HalfIngested ==
  {d \in docs : d.status \notin Readable /\ \E u \in InFlight : jobs[u].document = d.id}

RestartKeepingPointers ==   (* variant: document_id is not reset *)
  /\ ~up
  /\ up' = TRUE
  /\ docs' = docs \ HalfIngested
  /\ jobs' = [u \in Upload |-> IF u \in InFlight
                  THEN [jobs[u] EXCEPT !.status = "failed", !.error = TRUE] ELSE jobs[u]]
  /\ UNCHANGED <<extract, stops, pc, wiped, warned, redundant>>

Restart ==
  /\ ~up
  /\ up' = TRUE
  /\ docs' = docs \ HalfIngested
  /\ jobs' = [u \in Upload |->
       [status   |-> IF u \in InFlight THEN "failed" ELSE jobs[u].status,
        document |-> IF \E d \in HalfIngested : d.id = jobs[u].document
                       THEN 0 ELSE jobs[u].document,
        error    |-> u \in InFlight \/ jobs[u].error]]
  /\ UNCHANGED <<extract, stops, pc, wiped, warned, redundant>>

-------------------------------------------------------------------------------

Handle(u) == CheckJob(u) \/ InsertJob(u) \/ RequestFails(u)

Drive(u) ==
  \/ Begin(u) \/ Prepare(u) \/ Extract(u) \/ ExtractEnds(u)
  \/ Ingest(u) \/ CommitDocument(u) \/ Link(u)
  \/ Translate(u) \/ Embed(u) \/ Summarize(u) \/ Finish(u)
  \/ StageFails(u) \/ RecordFailure(u) \/ LoseFailure(u)

Step(u) == Handle(u) \/ Drive(u)

Next ==
  \/ \E u \in Upload : CheckDocument(u) \/ Step(u)
  \/ Stop
  \/ Restart

Spec == Init /\ [][Next]_vars

(* The event loop resumes every request and job whose await has completed, *)
(* and every await completes: the thread ends, the LLM client has timeouts *)
(* and translate_document ends (RunEnds of TranslatePipeline).  Nobody has *)
(* to upload anything, and nothing obliges the server to stop or to be     *)
(* started again.                                                          *)
FairSpec == Spec /\ \A u \in Upload : WF_vars(Step(u))

-------------------------------------------------------------------------------
(* Properties.                                                             *)

(* No two documents have the same id or carry the same PDF, and a job that *)
(* names a document names an existing one with the PDF it was given: a     *)
(* restart that deletes documents, whose ids are used again, leaves no job *)
(* pointing at a later document.                                           *)
JobNamesItsDocument ==
  /\ \A d, e \in docs : d.id = e.id \/ d.sha = e.sha => d = e
  /\ \A u \in Upload : jobs[u].document # 0 =>
       \E d \in docs : d.id = jobs[u].document /\ d.sha = ContentOf[u]

(* A document's page images stay on disk (pages.bg_image_path points into  *)
(* data/extracts/{sha256}), through failures, stops and new uploads of the *)
(* same PDF, as long as no redundant job was created for its content.      *)
PagesOnDisk ==
  \A d \in docs : d.sha \notin redundant => extract[d.sha] = "complete"

(* While the server serves, an active job is being worked on, so that what *)
(* a polling client sees will change: the restart sweep forgets none.  The *)
(* exception is a job whose creation or failure could not be recorded.     *)
ActiveJobIsDriven ==
  up => \A u \in Upload : jobs[u].status \in Active =>
          pc[u] \in {"spawn", "fail", "stranded"} \cup Driving

(* A job that is done without a warning has a document with translation,   *)
(* embeddings (if there is an embedder) and summary, for ever after.       *)
DoneWithoutWarningIsComplete ==
  \A u \in Upload : jobs[u].status = "done" /\ ~jobs[u].error =>
    \E d \in docs : /\ d.id = jobs[u].document
                    /\ d.status \in Readable
                    /\ d.summary
                    /\ HasEmbedder => d.embedded

(* A job that exists reaches done or failed, unless the server stops or    *)
(* the job is stranded.                                                    *)
JobsSettle ==
  \A u \in Upload :
    up /\ jobs[u].status \in Active ~> \/ jobs[u].status \in {"done", "failed"}
                                      \/ pc[u] = "stranded"
                                      \/ ~up

(* Jobs, failures and restarts keep the promise of UploadLedger.           *)
Outcome(u) ==
  CASE jobs[u].status = "absent" -> "none"
    [] jobs[u].status \in Active -> "active"
    [] OTHER -> jobs[u].status

Ledger == INSTANCE UploadLedger WITH
  Uploads  <- Upload,
  Contents <- Content,
  Content  <- ContentOf,
  outcome  <- [u \in Upload |-> Outcome(u)],
  readable <- {c \in Content : \E d \in DocumentsOf(c) : d.status \in Readable}

ImplementsLedger == Ledger!Spec

(* What the docstring of mark_in_flight_jobs_failed says of a restart: a   *)
(* document that did not get as far as its translation is deleted with its *)
(* in-flight job, so an unreadable document that survives belongs to a job *)
(* that had failed before.                                                 *)
RestartLeavesNoGhost ==
  [][~up /\ up' =>
       \A d \in docs' : d.status \notin Readable =>
         \E u \in Upload : jobs[u].status = "failed" /\ jobs[u].document = d.id]_vars
===============================================================================
