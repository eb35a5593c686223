--------------------------- MODULE UploadJobsProofs ---------------------------
(***************************************************************************)
(* Proofs about UploadJobs, for any set of uploads and any number of       *)
(* stops.                                                                  *)
(***************************************************************************)
EXTENDS UploadJobs, TLAPS

(* A stage that writes its document leaves a document of the same id and   *)
(* content.                                                                *)
LEMMA WritesKeepDocuments ==
  ASSUME NEW d \in Document, NEW s \in Readable
  PROVE  /\ [d EXCEPT !.status = s] \in Document
         /\ [d EXCEPT !.embedded = TRUE] \in Document
         /\ [d EXCEPT !.summary = TRUE] \in Document
  BY DEF Document

(* The type invariant of the upload service.                               *)
THEOREM TypeCorrect == Spec => []TypeOK
<1>1. Init => TypeOK
  BY ConstantsAssumption DEF Init, TypeOK, Job
<1>2. TypeOK /\ [Next]_vars => TypeOK'
  <2> SUFFICES ASSUME TypeOK, [Next]_vars PROVE TypeOK'
    OBVIOUS
  <2> USE ConstantsAssumption DEF TypeOK
  <2>1. ASSUME NEW u \in Upload, CheckDocument(u) \/ Handle(u) PROVE TypeOK'
    <3>1. CASE CheckDocument(u)
      BY <3>1 DEF CheckDocument, At, Goto, Handling, durable
    <3>2. CASE CheckJob(u)
      BY <3>2 DEF CheckJob, At, Goto, Handling, durable
    <3>3. CASE InsertJob(u)
      BY <3>3 DEF InsertJob, At, Goto, Handling, SetStatus, Job, Active
    <3>4. CASE RequestFails(u)
      BY <3>4 DEF RequestFails, Goto, durable
    <3> QED BY <2>1, <3>1, <3>2, <3>3, <3>4 DEF Handle
  <2>2. ASSUME NEW u \in Upload, Drive(u) PROVE TypeOK'
    <3>1. CASE Begin(u)
      BY <3>1 DEF Begin, At, Goto, SetStatus, Job, Active, Driving
    <3>2. CASE Prepare(u)
      BY <3>2 DEF Prepare, At, Goto, WipeUnder, Driving
    <3>3. CASE Extract(u)
      BY <3>3 DEF Extract, At, Goto, Driving
    <3>4. CASE ExtractEnds(u)
      BY <3>4 DEF ExtractEnds, At, Goto, Driving
    <3>5. CASE Ingest(u)
      BY <3>5 DEF Ingest, At, Goto, SetStatus, Job, Active, Driving
    <3>6. CASE CommitDocument(u)
      <4>1. docs' \subseteq Document
        <5>1. ASSUME NEW i \in DocId PROVE Insertion(u, i) \in Document
          BY DEF Insertion, Document
        <5> HIDE DEF Insertion, Document
        <5> QED BY <3>6, <5>1 DEF CommitDocument
      <4> QED BY <3>6, <4>1 DEF CommitDocument, At, Goto, Driving
    <3>7. CASE Link(u)
      <4>1. PICK d \in docs : jobs' = [jobs EXCEPT ![u].status = "translating",
                                                   ![u].document = d.id]
        BY <3>7 DEF Link, DocumentsOf
      <4>2. jobs' \in [Upload -> Job]
        <5>1. d.id \in DocId
          BY DEF Document
        <5>2. [jobs[u] EXCEPT !.status = "translating", !.document = d.id] \in Job
          BY <5>1 DEF Job, Active
        <5>3. jobs' = [jobs EXCEPT ![u] =
                 [jobs[u] EXCEPT !.status = "translating", !.document = d.id]]
          BY <4>1
        <5> HIDE DEF Job
        <5> QED BY <5>2, <5>3
      <4> QED BY <3>7, <4>2 DEF Link, At, Goto, Driving
    <3>8. CASE Translate(u)
      <4>1. docs' \subseteq Document
        <5>1. PICK s \in Readable :
                docs' = {IF d.id = jobs[u].document THEN [d EXCEPT !.status = s] ELSE d
                          : d \in docs}
          BY <3>8 DEF Translate
        <5>2. \A d \in docs : [d EXCEPT !.status = s] \in Document
          BY WritesKeepDocuments
        <5> QED BY <5>1, <5>2, Zenon
      <4> QED BY <3>8, <4>1 DEF Translate, At, Goto, Driving
    <3>9. CASE Embed(u)
      <4>1. docs' \subseteq Document
        <5>1. CASE UNCHANGED docs
          BY <5>1
        <5>2. CASE docs' = {IF d.id = jobs[u].document THEN [d EXCEPT !.embedded = TRUE]
                               ELSE d : d \in docs}
          <6>1. \A d \in docs : [d EXCEPT !.embedded = TRUE] \in Document
            BY WritesKeepDocuments, "translated" \in Readable DEF Readable
          <6> QED BY <5>2, <6>1, Zenon
        <5> QED BY <3>9, <5>1, <5>2 DEF Embed
      <4> QED BY <3>9, <4>1 DEF Embed, At, Goto, Driving
    <3>10. CASE Summarize(u)
      <4>1. docs' \subseteq Document
        <5>1. CASE UNCHANGED docs
          BY <5>1
        <5>2. CASE docs' = {IF d.id = jobs[u].document THEN [d EXCEPT !.summary = TRUE]
                               ELSE d : d \in docs}
          <6>1. \A d \in docs : [d EXCEPT !.summary = TRUE] \in Document
            BY WritesKeepDocuments, "translated" \in Readable DEF Readable
          <6> QED BY <5>2, <6>1, Zenon
        <5> QED BY <3>10, <5>1, <5>2 DEF Summarize
      <4>2. jobs' \in [Upload -> Job]
        BY <3>10 DEF Summarize, SetStatus, Job, Active
      <4>3. warned' \in [Upload -> BOOLEAN] /\ pc' = [pc EXCEPT ![u] = "finish"]
        BY <3>10 DEF Summarize, Goto
      <4>4. UNCHANGED <<extract, up, stops, wiped, redundant>>
        BY <3>10 DEF Summarize
      <4> QED BY <4>1, <4>2, <4>3, <4>4 DEF Driving
    <3>11. CASE Finish(u)
      BY <3>11 DEF Finish, At, Goto, Job
    <3>12. CASE StageFails(u)
      BY <3>12 DEF StageFails, Goto, durable
    <3>13. CASE RecordFailure(u)
      BY <3>13 DEF RecordFailure, At, Goto, Job
    <3>14. CASE LoseFailure(u)
      BY <3>14 DEF LoseFailure, At, Goto, durable
    <3> QED BY <2>2, <3>1, <3>2, <3>3, <3>4, <3>5, <3>6, <3>7, <3>8, <3>9, <3>10,
               <3>11, <3>12, <3>13, <3>14 DEF Drive
  <2>3. CASE Stop
    <3>1. PICK ran : extract' = [c \in Content |-> IF c \in ran THEN "complete"
                                                     ELSE extract[c]]
      BY <2>3 DEF Stop
    <3>2. extract' \in [Content -> {"absent", "partial", "complete"}]
      BY <3>1
    <3>3. stops' \in 0..MaxStops
      BY <2>3 DEF Stop
    <3> QED BY <2>3, <3>2, <3>3 DEF Stop
  <2>4. CASE Restart
    BY <2>4 DEF Restart, HalfIngested, Job
  <2>5. CASE UNCHANGED vars
    BY <2>5 DEF vars
  <2> QED BY <2>1, <2>2, <2>3, <2>4, <2>5 DEF Next, Step
<1> QED BY <1>1, <1>2, PTL DEF Spec

-------------------------------------------------------------------------------
(* The safety argument.  A job's row follows its task; two active jobs of  *)
(* one content, or a job that has yet to ingest a content that has a       *)
(* document, are redundant; so whoever touches the directory of a document *)
(* is redundant, and whoever is about to commit one found it complete.     *)

BeforeCommit == {"spawn", "prepare", "extract", "extracting", "ingest", "commit"}

RowFollowsTask ==
  \A u \in Upload :
    /\ pc[u] \in {"idle", "check", "insert"} => jobs[u].status = "absent"
    /\ pc[u] \in {"spawn", "fail", "stranded"} \cup Driving =>
         up /\ jobs[u].status \in Active
    /\ pc[u] = "ended" /\ up => jobs[u].status \notin Active
    /\ ~up => pc[u] \in {"idle", "ended"}

OneWorker ==
  \A u, v \in Upload :
    /\ u # v
    /\ ContentOf[u] = ContentOf[v]
    /\ jobs[u].status \in Active
    /\ jobs[v].status \in Active
    => ContentOf[u] \in redundant

NoSecondExtract ==
  \A u \in Upload : pc[u] \in BeforeCommit =>
    \A d \in docs : d.sha = ContentOf[u] => d.sha \in redundant

CommitReady ==
  \A u \in Upload : pc[u] = "commit" =>
    extract[ContentOf[u]] = "complete" \/ ContentOf[u] \in redundant

IInv == RowFollowsTask /\ OneWorker /\ NoSecondExtract /\ CommitReady /\ PagesOnDisk

(* The documents keep their contents when a stage writes one.              *)
LEMMA StagesKeepContents ==
  ASSUME TypeOK, NEW u \in Upload, Translate(u) \/ Embed(u) \/ Summarize(u)
  PROVE  \A d \in docs' : \E e \in docs : e.sha = d.sha /\ e.id = d.id
<1> SUFFICES ASSUME NEW d \in docs'
    PROVE  \E e \in docs : e.sha = d.sha /\ e.id = d.id
  OBVIOUS
<1>0. docs \subseteq Document
  BY DEF TypeOK
<1>1. CASE UNCHANGED docs
  BY <1>1
<1>2. ASSUME NEW s, docs' = {IF e.id = jobs[u].document THEN [e EXCEPT !.status = s]
                               ELSE e : e \in docs}
      PROVE  \E e \in docs : e.sha = d.sha /\ e.id = d.id
  BY <1>0, <1>2 DEF Document
<1>3. CASE docs' = {IF e.id = jobs[u].document THEN [e EXCEPT !.embedded = TRUE]
                      ELSE e : e \in docs}
  BY <1>0, <1>3 DEF Document
<1>4. CASE docs' = {IF e.id = jobs[u].document THEN [e EXCEPT !.summary = TRUE]
                      ELSE e : e \in docs}
  BY <1>0, <1>4 DEF Document
<1> QED BY <1>1, <1>2, <1>3, <1>4 DEF Translate, Embed, Summarize

(* The invariant holds in every reachable state.                           *)
LEMMA InvariantHolds == Spec => [](TypeOK /\ IInv)
<1>1. Init => IInv
  BY DEF Init, IInv, RowFollowsTask, OneWorker, NoSecondExtract, CommitReady, PagesOnDisk,
         BeforeCommit, Active, Driving
<1>2. TypeOK /\ IInv /\ [Next]_vars => IInv'
  <2> SUFFICES ASSUME TypeOK, IInv, [Next]_vars PROVE IInv'
    OBVIOUS
  <2> USE ConstantsAssumption DEF IInv, RowFollowsTask, OneWorker, NoSecondExtract,
          CommitReady, PagesOnDisk, BeforeCommit, Driving
  <2>t. /\ pc \in [Upload -> {"idle", "fail", "ended", "stranded"} \cup Handling \cup Driving]
        /\ jobs \in [Upload -> Job]
        /\ extract \in [Content -> {"absent", "partial", "complete"}]
        /\ docs \subseteq Document
    BY DEF TypeOK
  <2>1. ASSUME NEW u \in Upload, CheckDocument(u) \/ Handle(u) PROVE IInv'
    <3>1. CASE CheckDocument(u)
      BY <2>t, <3>1 DEF CheckDocument, At, Goto, durable, Active
    <3>2. CASE CheckJob(u)
      BY <2>t, <3>2 DEF CheckJob, At, Goto, durable, Active
    <3>3. CASE InsertJob(u)
      BY <2>t, <3>3 DEF InsertJob, At, Goto, SetStatus, Active, DocumentsOf, ActiveJobsOf, Job
    <3>4. CASE RequestFails(u)
      BY <2>t, <3>4 DEF RequestFails, Goto, Handling, durable, Active
    <3> QED BY <2>1, <3>1, <3>2, <3>3, <3>4 DEF Handle
  <2>2. ASSUME NEW u \in Upload, Drive(u) PROVE IInv'
    <3>1. CASE Begin(u)
      BY <2>t, <3>1 DEF Begin, At, Goto, SetStatus, Active, Job
    <3>2. CASE Prepare(u)
      BY <2>t, <3>2 DEF Prepare, At, Goto, Document
    <3>3. CASE Extract(u)
      BY <2>t, <3>3 DEF Extract, At, Goto, Document
    <3>4. CASE ExtractEnds(u)
      BY <2>t, <3>4 DEF ExtractEnds, At, Goto, Document
    <3>5. CASE Ingest(u)
      BY <2>t, <3>5 DEF Ingest, At, Goto, SetStatus, Active, Job
    <3>6. CASE CommitDocument(u)
      BY <2>t, <3>6 DEF CommitDocument, Insertion, At, Goto, DocumentsOf
    <3>7. CASE Link(u)
      BY <2>t, <3>7 DEF Link, At, Goto, Active, Job
    <3>8. CASE Translate(u)
      <4>1. \A d \in docs' : \E e \in docs : e.sha = d.sha
        BY <3>8, StagesKeepContents
      <4>2. /\ up /\ pc[u] = "translate"
            /\ pc' = [pc EXCEPT ![u] = IF HasEmbedder THEN "embed" ELSE "summarize"]
            /\ jobs' = jobs
            /\ UNCHANGED <<extract, up, redundant>>
        BY <3>8 DEF Translate, At, Goto
      <4> QED BY <2>t, <4>1, <4>2 DEF Active, Job
    <3>9. CASE Embed(u)
      <4>1. \A d \in docs' : \E e \in docs : e.sha = d.sha
        BY <3>9, StagesKeepContents
      <4>2. /\ up /\ pc[u] = "embed"
            /\ pc' = [pc EXCEPT ![u] = "summarize"]
            /\ jobs' = jobs
            /\ UNCHANGED <<extract, up, redundant>>
        BY <3>9 DEF Embed, At, Goto
      <4> QED BY <2>t, <4>1, <4>2 DEF Active, Job
    <3>10. CASE Summarize(u)
      <4>1. \A d \in docs' : \E e \in docs : e.sha = d.sha
        BY <3>10, StagesKeepContents
      <4>2. /\ up /\ pc[u] = "summarize"
            /\ pc' = [pc EXCEPT ![u] = "finish"]
            /\ jobs' = [jobs EXCEPT ![u].status = "summarizing"]
            /\ UNCHANGED <<extract, up, redundant>>
        BY <3>10 DEF Summarize, At, Goto, SetStatus
      <4>3. RowFollowsTask' /\ OneWorker'
        <5> HIDE DEF NoSecondExtract, CommitReady, PagesOnDisk
        <5> QED BY <2>t, <4>2 DEF Active, Job
      <4>4. NoSecondExtract' /\ CommitReady' /\ PagesOnDisk'
        <5> HIDE DEF RowFollowsTask, OneWorker
        <5> QED BY <2>t, <4>1, <4>2
      <4> QED BY <4>3, <4>4
    <3>11. CASE Finish(u)
      BY <2>t, <3>11 DEF Finish, At, Goto, Active, Job
    <3>12. CASE StageFails(u)
      BY <2>t, <3>12 DEF StageFails, Goto, durable, Active
    <3>13. CASE RecordFailure(u)
      BY <2>t, <3>13 DEF RecordFailure, At, Goto, Active, Job
    <3>14. CASE LoseFailure(u)
      BY <2>t, <3>14 DEF LoseFailure, At, Goto, durable
    <3> QED BY <2>2, <3>1, <3>2, <3>3, <3>4, <3>5, <3>6, <3>7, <3>8, <3>9, <3>10,
               <3>11, <3>12, <3>13, <3>14 DEF Drive
  <2>3. CASE Stop
    BY <2>t, <2>3 DEF Stop, Document
  <2>4. CASE Restart
    BY <2>t, <2>4 DEF Restart, HalfIngested, InFlight, Active, Job
  <2>5. CASE UNCHANGED vars
    BY <2>5 DEF vars
  <2> QED BY <2>1, <2>2, <2>3, <2>4, <2>5 DEF Next, Step
<1> QED BY <1>1, <1>2, TypeCorrect, PTL DEF Spec

(* Without a redundant job for its content a document keeps its page       *)
(* images: no failure, stop, restart or new upload of the PDF removes them.*)
THEOREM PagesKept == Spec => []PagesOnDisk
<1>1. TypeOK /\ IInv => PagesOnDisk
  BY DEF IInv
<1> QED BY <1>1, InvariantHolds, PTL

(* No job is active without a task while the server serves, but for those  *)
(* whose creation or failure could not be recorded.                        *)
THEOREM ActiveDriven == Spec => []ActiveJobIsDriven
<1>1. TypeOK /\ IInv => ActiveJobIsDriven
  BY DEF IInv, RowFollowsTask, ActiveJobIsDriven, TypeOK, Handling, Active
<1> QED BY <1>1, InvariantHolds, PTL

-------------------------------------------------------------------------------
(* A job that names a document names an existing one with its own PDF,     *)
(* whatever ids a restart frees for later documents.                       *)
THEOREM JobsNameTheirDocuments == Spec => []JobNamesItsDocument
<1>1. Init => JobNamesItsDocument
  BY DEF Init, JobNamesItsDocument
<1>2. TypeOK /\ JobNamesItsDocument /\ [Next]_vars => JobNamesItsDocument'
  <2> SUFFICES ASSUME TypeOK, JobNamesItsDocument, [Next]_vars
               PROVE  JobNamesItsDocument'
    OBVIOUS
  <2> USE ConstantsAssumption
  <2>t. /\ jobs \in [Upload -> Job]
        /\ docs \subseteq Document
    BY DEF TypeOK
  <2>u. ASSUME UNCHANGED docs, \A v \in Upload : jobs'[v].document = jobs[v].document
        PROVE  JobNamesItsDocument'
    BY <2>u DEF JobNamesItsDocument
  <2>w. ASSUME NEW f,
               \A d \in docs : f[d].id = d.id /\ f[d].sha = d.sha,
               docs' = {f[d] : d \in docs},
               \A v \in Upload : jobs'[v].document = jobs[v].document
        PROVE  JobNamesItsDocument'
    BY <2>w DEF JobNamesItsDocument
  <2>1. ASSUME NEW u \in Upload, CheckDocument(u) \/ Handle(u) PROVE JobNamesItsDocument'
    BY <2>t, <2>u, <2>1 DEF Handle, CheckDocument, CheckJob, InsertJob, RequestFails,
       SetStatus, durable, Job
  <2>2. ASSUME NEW u \in Upload, Drive(u) PROVE JobNamesItsDocument'
    <3>1. CASE Begin(u) \/ Ingest(u) \/ Finish(u) \/ RecordFailure(u)
      BY <2>t, <2>u, <3>1 DEF Begin, Ingest, Finish, RecordFailure, SetStatus, Job
    <3>2. CASE Prepare(u) \/ Extract(u) \/ ExtractEnds(u) \/ StageFails(u) \/ LoseFailure(u)
      BY <2>u, <3>2 DEF Prepare, Extract, ExtractEnds, StageFails, LoseFailure, durable
    <3>3. CASE CommitDocument(u)
      <4>1. CASE UNCHANGED docs
        BY <2>u, <3>3, <4>1 DEF CommitDocument
      <4>2. ASSUME NEW i \in DocId, NextDocument(i), DocumentsOf(ContentOf[u]) = {},
                   docs' = docs \cup {Insertion(u, i)}, UNCHANGED jobs
            PROVE  JobNamesItsDocument'
        <5>1. \A d \in docs : d.id # i /\ d.sha # ContentOf[u]
          BY <2>t, <4>2 DEF NextDocument, DocumentsOf, Document, DocId
        <5>2. Insertion(u, i).id = i /\ Insertion(u, i).sha = ContentOf[u]
          BY DEF Insertion
        <5> QED BY <4>2, <5>1, <5>2 DEF JobNamesItsDocument
      <4> QED BY <3>3, <4>1, <4>2 DEF CommitDocument
    <3>4. CASE Link(u)
      <4>1. PICK d \in docs : d.sha = ContentOf[u] /\
              jobs' = [jobs EXCEPT ![u].status = "translating", ![u].document = d.id]
        BY <3>4 DEF Link, DocumentsOf
      <4>2. \A v \in Upload : jobs'[v].document =
                               IF v = u THEN d.id ELSE jobs[v].document
        BY <2>t, <4>1 DEF Job
      <4>3. UNCHANGED docs
        BY <3>4 DEF Link
      <4> QED BY <4>1, <4>2, <4>3 DEF JobNamesItsDocument
    <3>5. CASE Translate(u)
      <4>1. PICK s : docs' = {IF d.id = jobs[u].document THEN [d EXCEPT !.status = s]
                                ELSE d : d \in docs}
        BY <3>5 DEF Translate
      <4> DEFINE f == [d \in docs |-> IF d.id = jobs[u].document THEN [d EXCEPT !.status = s]
                                     ELSE d]
      <4>2. \A d \in docs : f[d].id = d.id /\ f[d].sha = d.sha
        BY <2>t DEF Document
      <4>3. docs' = {f[d] : d \in docs}
        BY <4>1, Zenon
      <4>4. UNCHANGED jobs
        BY <3>5 DEF Translate
      <4> HIDE DEF f
      <4> QED BY <2>w, <4>2, <4>3, <4>4
    <3>6. CASE Embed(u) /\ ~UNCHANGED docs
      <4>1. docs' = {IF d.id = jobs[u].document THEN [d EXCEPT !.embedded = TRUE]
                       ELSE d : d \in docs}
        BY <3>6 DEF Embed
      <4> DEFINE f == [d \in docs |-> IF d.id = jobs[u].document THEN [d EXCEPT !.embedded = TRUE]
                                     ELSE d]
      <4>2. \A d \in docs : f[d].id = d.id /\ f[d].sha = d.sha
        BY <2>t DEF Document
      <4>3. docs' = {f[d] : d \in docs}
        BY <4>1, Zenon
      <4>4. UNCHANGED jobs
        BY <3>6 DEF Embed
      <4> HIDE DEF f
      <4> QED BY <2>w, <4>2, <4>3, <4>4
    <3>7. CASE Summarize(u) /\ ~UNCHANGED docs
      <4>1. docs' = {IF d.id = jobs[u].document THEN [d EXCEPT !.summary = TRUE]
                       ELSE d : d \in docs}
        BY <3>7 DEF Summarize
      <4> DEFINE f == [d \in docs |-> IF d.id = jobs[u].document THEN [d EXCEPT !.summary = TRUE]
                                     ELSE d]
      <4>2. \A d \in docs : f[d].id = d.id /\ f[d].sha = d.sha
        BY <2>t DEF Document
      <4>3. docs' = {f[d] : d \in docs}
        BY <4>1, Zenon
      <4>4. \A v \in Upload : jobs'[v].document = jobs[v].document
        BY <2>t, <3>7 DEF Summarize, SetStatus, Job
      <4> HIDE DEF f
      <4> QED BY <2>w, <4>2, <4>3, <4>4
    <3>8. CASE (Embed(u) \/ Summarize(u)) /\ UNCHANGED docs
      <4>1. \A v \in Upload : jobs'[v].document = jobs[v].document
        BY <2>t, <3>8 DEF Embed, Summarize, SetStatus, Job
      <4> QED BY <2>u, <3>8, <4>1
    <3> QED BY <2>2, <3>1, <3>2, <3>3, <3>4, <3>5, <3>6, <3>7, <3>8 DEF Drive
  (* A pointer survives a restart only if its document does: ids are unique. *)
  <2>3. CASE Restart
    <3>1. docs' = docs \ HalfIngested
      BY <2>3 DEF Restart
    <3>2. \A v \in Upload : jobs'[v].document # 0 =>
            /\ jobs'[v].document = jobs[v].document
            /\ ~\E d \in HalfIngested : d.id = jobs[v].document
      BY <2>3 DEF Restart
    <3> QED BY <3>1, <3>2 DEF JobNamesItsDocument
  <2>4. CASE Stop \/ UNCHANGED vars
    BY <2>u, <2>4 DEF Stop, vars
  <2> QED BY <2>1, <2>2, <2>3, <2>4 DEF Next, Step
<1> QED BY <1>1, <1>2, TypeCorrect, PTL DEF Spec
-------------------------------------------------------------------------------
(* What a finished job may claim.  A stage only adds to a document (a      *)
(* readable status, embeddings, a summary), by whichever job it is run, so *)
(* what the stages behind a task have left stays until the task ends.      *)

Late == {"translate", "embed", "summarize", "finish"}

Unwarned(u) == jobs[u].status = "done" /\ ~jobs[u].error

StagesLeave ==
  \A u \in Upload :
    /\ pc[u] \in Late \/ Unwarned(u) => jobs[u].document # 0
    /\ \A d \in docs : d.id = jobs[u].document =>
         /\ pc[u] \in Late \ {"translate"} \/ Unwarned(u) => d.status \in Readable
         /\ \/ pc[u] \in {"summarize", "finish"} /\ ~warned[u]
            \/ Unwarned(u)
            => (HasEmbedder => d.embedded)
         /\ (pc[u] = "finish" /\ ~warned[u]) \/ Unwarned(u) => d.summary

(* A document that a step changes was there before, under its id, and has  *)
(* lost nothing; a step that says so and moves no task keeps StagesLeave.  *)
Grown ==
  \A d \in docs' : \E e \in docs :
    /\ e.id = d.id
    /\ e.status \in Readable => d.status \in Readable
    /\ e.embedded => d.embedded
    /\ e.summary => d.summary

(* What the three stages write.                                            *)
LEMMA StagesGrow ==
  ASSUME TypeOK, NEW u \in Upload, Translate(u) \/ Embed(u) \/ Summarize(u)
  PROVE  /\ Grown
         /\ Translate(u) => \A d \in docs' : d.id = jobs[u].document => d.status \in Readable
         /\ Embed(u) /\ ~warned'[u] =>
              \A d \in docs' : d.id = jobs[u].document => d.embedded
         /\ Summarize(u) /\ ~warned'[u] =>
              \A d \in docs' : d.id = jobs[u].document => d.summary
<1>0. docs \subseteq Document /\ warned \in [Upload -> BOOLEAN]
  BY DEF TypeOK
<1>1. CASE Translate(u)
  <2>1. PICK s \in Readable :
          docs' = {IF d.id = jobs[u].document THEN [d EXCEPT !.status = s] ELSE d : d \in docs}
    BY <1>1, ConstantsAssumption DEF Translate
  <2>2. Grown /\ \A d \in docs' : d.id = jobs[u].document => d.status \in Readable
    BY <1>0, <2>1 DEF Grown, Document
  <2>3. ~Embed(u) /\ ~Summarize(u)
    BY <1>1 DEF Translate, Embed, Summarize, At
  <2> QED BY <2>2, <2>3
<1>2. CASE Embed(u)
  <2>1. CASE docs' = {IF d.id = jobs[u].document THEN [d EXCEPT !.embedded = TRUE] ELSE d
                        : d \in docs}
    BY <1>0, <1>2, <2>1 DEF Grown, Document, Translate, Embed, Summarize, At
  <2>2. CASE UNCHANGED docs /\ warned' = [warned EXCEPT ![u] = TRUE]
    BY <1>0, <1>2, <2>2 DEF Grown, Translate, Embed, Summarize, At
  <2> QED BY <1>2, <2>1, <2>2 DEF Embed
<1>3. CASE Summarize(u)
  <2>1. CASE docs' = {IF d.id = jobs[u].document THEN [d EXCEPT !.summary = TRUE] ELSE d
                        : d \in docs}
    BY <1>0, <1>3, <2>1 DEF Grown, Document, Translate, Embed, Summarize, At
  <2>2. CASE UNCHANGED docs /\ warned' = [warned EXCEPT ![u] = TRUE]
    BY <1>0, <1>3, <2>2 DEF Grown, Translate, Embed, Summarize, At
  <2> QED BY <1>3, <2>1, <2>2 DEF Summarize
<1> QED BY <1>1, <1>2, <1>3

(* StagesLeave is an invariant.                                            *)
LEMMA StagesLeaveHolds == Spec => []StagesLeave
<1>1. Init => StagesLeave
  BY DEF Init, StagesLeave, Late, Unwarned
<1>2. /\ TypeOK /\ RowFollowsTask /\ JobNamesItsDocument /\ StagesLeave
      /\ [Next]_vars
      => StagesLeave'
  <2> SUFFICES ASSUME TypeOK, RowFollowsTask, JobNamesItsDocument, StagesLeave, [Next]_vars
               PROVE  StagesLeave'
    OBVIOUS
  <2> USE ConstantsAssumption DEF StagesLeave, Late, Unwarned
  <2>t. /\ pc \in [Upload -> {"idle", "fail", "ended", "stranded"} \cup Handling \cup Driving]
        /\ jobs \in [Upload -> Job]
        /\ warned \in [Upload -> BOOLEAN]
        /\ docs \subseteq Document
    BY DEF TypeOK
  <2>1. ASSUME NEW u \in Upload, CheckDocument(u) \/ Handle(u) PROVE StagesLeave'
    <3>1. CASE CheckDocument(u)
      BY <2>t, <3>1 DEF CheckDocument, At, Goto, durable
    <3>2. CASE CheckJob(u)
      BY <2>t, <3>2 DEF CheckJob, At, Goto, durable
    <3>3. CASE InsertJob(u)
      BY <2>t, <3>3 DEF InsertJob, At, Goto, SetStatus, Job
    <3>4. CASE RequestFails(u)
      BY <2>t, <3>4 DEF RequestFails, Goto, Handling, durable
    <3> QED BY <2>1, <3>1, <3>2, <3>3, <3>4 DEF Handle
  <2>2. ASSUME NEW u \in Upload, Drive(u) PROVE StagesLeave'
    <3>1. CASE Begin(u)
      BY <2>t, <3>1 DEF Begin, At, Goto, SetStatus, Job
    <3>2. CASE Prepare(u)
      BY <2>t, <3>2 DEF Prepare, At, Goto
    <3>3. CASE Extract(u)
      BY <2>t, <3>3 DEF Extract, At, Goto
    <3>4. CASE ExtractEnds(u)
      BY <2>t, <3>4 DEF ExtractEnds, At, Goto
    <3>5. CASE Ingest(u)
      BY <2>t, <3>5 DEF Ingest, At, Goto, SetStatus, Job
    (* The id of a new document is one that no job names.                  *)
    <3>6. CASE CommitDocument(u)
      <4>1. /\ UNCHANGED <<jobs, warned>>
            /\ \/ pc' = [pc EXCEPT ![u] = "link"]
               \/ pc' = [pc EXCEPT ![u] = "fail"]
        BY <3>6 DEF CommitDocument, Goto
      <4>2. CASE UNCHANGED docs
        BY <2>t, <4>1, <4>2
      <4>3. ASSUME NEW i \in DocId, NextDocument(i), docs' = docs \cup {Insertion(u, i)}
            PROVE  StagesLeave'
        <5>1. \A d \in docs : d.id # i
          BY <2>t, <4>3 DEF NextDocument, Document, DocId
        <5>2. Insertion(u, i).id = i /\ i # 0
          BY DEF Insertion, DocId
        <5>3. \A v \in Upload : jobs[v].document # i
          BY <5>1, <5>2 DEF JobNamesItsDocument
        <5> QED BY <2>t, <4>1, <4>3, <5>2, <5>3
      <4> QED BY <3>6, <4>2, <4>3 DEF CommitDocument
    <3>7. CASE Link(u)
      <4>1. PICK d \in docs : jobs' = [jobs EXCEPT ![u].status = "translating",
                                                   ![u].document = d.id]
        BY <3>7 DEF Link, DocumentsOf
      <4>2. d.id # 0
        BY <2>t DEF Document, DocId
      <4> QED BY <2>t, <3>7, <4>1, <4>2 DEF Link, At, Goto, Job
    <3>8. CASE Translate(u)
      <4>1. /\ pc[u] = "translate"
            /\ pc' = [pc EXCEPT ![u] = IF HasEmbedder THEN "embed" ELSE "summarize"]
            /\ UNCHANGED <<jobs, warned>>
        BY <3>8 DEF Translate, At, Goto
      <4>2. Grown /\ \A d \in docs' : d.id = jobs[u].document => d.status \in Readable
        BY <3>8, StagesGrow
      <4> QED BY <2>t, <4>1, <4>2 DEF Grown
    <3>9. CASE Embed(u)
      <4>1. /\ pc[u] = "embed"
            /\ pc' = [pc EXCEPT ![u] = "summarize"]
            /\ warned' = warned \/ warned' = [warned EXCEPT ![u] = TRUE]
            /\ UNCHANGED jobs
        BY <3>9 DEF Embed, At, Goto
      <4>2. /\ Grown
            /\ ~warned'[u] => \A d \in docs' : d.id = jobs[u].document => d.embedded
        BY <3>9, StagesGrow
      <4> QED BY <2>t, <4>1, <4>2 DEF Grown
    <3>10. CASE Summarize(u)
      <4>1. /\ pc[u] = "summarize"
            /\ pc' = [pc EXCEPT ![u] = "finish"]
            /\ warned' = warned \/ warned' = [warned EXCEPT ![u] = TRUE]
            /\ \A v \in Upload : /\ jobs'[v].document = jobs[v].document
                                 /\ v # u => jobs'[v] = jobs[v]
            /\ jobs'[u].status = "summarizing"
        BY <2>t, <3>10 DEF Summarize, At, Goto, SetStatus, Job
      <4>2. /\ Grown
            /\ ~warned'[u] => \A d \in docs' : d.id = jobs[u].document => d.summary
        BY <3>10, StagesGrow
      <4> QED BY <2>t, <4>1, <4>2 DEF Grown
    <3>11. CASE Finish(u)
      <4>1. /\ pc[u] = "finish"
            /\ pc' = [pc EXCEPT ![u] = "ended"]
            /\ warned' = [warned EXCEPT ![u] = FALSE]
            /\ UNCHANGED docs
            /\ \A v \in Upload : /\ jobs'[v].document = jobs[v].document
                                 /\ v # u => jobs'[v] = jobs[v]
            /\ jobs'[u].error = warned[u]
        BY <2>t, <3>11 DEF Finish, At, Goto, Job
      <4> QED BY <2>t, <4>1
    <3>12. CASE StageFails(u)
      BY <2>t, <3>12 DEF StageFails, Goto, durable
    <3>13. CASE RecordFailure(u)
      BY <2>t, <3>13 DEF RecordFailure, At, Goto, Job
    <3>14. CASE LoseFailure(u)
      BY <2>t, <3>14 DEF LoseFailure, At, Goto, durable
    <3> QED BY <2>2, <3>1, <3>2, <3>3, <3>4, <3>5, <3>6, <3>7, <3>8, <3>9, <3>10,
               <3>11, <3>12, <3>13, <3>14 DEF Drive
  <2>3. CASE Stop
    BY <2>t, <2>3 DEF Stop
  (* A restart deletes no readable document, and so none of a finished job. *)
  <2>4. CASE Restart
    <3>1. docs' = docs \ HalfIngested /\ UNCHANGED <<pc, warned>>
      BY <2>4 DEF Restart
    <3>2. ASSUME NEW v \in Upload
          PROVE  /\ jobs'[v].document # 0 => jobs'[v].document = jobs[v].document
                 /\ Unwarned(v)' => Unwarned(v)
                 /\ (~\E d \in HalfIngested : d.id = jobs[v].document) =>
                      jobs'[v].document = jobs[v].document
      BY <2>t, <2>4 DEF Restart, InFlight, Active, Job
    <3>3. \A d \in HalfIngested : d \in docs /\ d.status \notin Readable
      BY DEF HalfIngested
    <3>4. \A d \in docs : d.id # 0
      BY <2>t DEF Document, DocId
    <3>5. \A v \in Upload : pc[v] \notin Late
      BY <2>4 DEF Restart, RowFollowsTask
    <3> QED BY <2>t, <3>1, <3>2, <3>3, <3>4, <3>5
  <2>5. CASE UNCHANGED vars
    BY <2>5 DEF vars
  <2> QED BY <2>1, <2>2, <2>3, <2>4, <2>5 DEF Next, Step
<1>3. IInv => RowFollowsTask
  BY DEF IInv
<1> QED BY <1>1, <1>2, <1>3, InvariantHolds, JobsNameTheirDocuments, PTL DEF Spec

(* A job that is done without a warning has a document with translation,   *)
(* embeddings (where there is an embedder) and summary, for ever after:    *)
(* no later job of the content and no restart takes them away.             *)
THEOREM DoneComplete == Spec => []DoneWithoutWarningIsComplete
<1>1. JobNamesItsDocument /\ StagesLeave => DoneWithoutWarningIsComplete
  BY DEF JobNamesItsDocument, StagesLeave, Unwarned, DoneWithoutWarningIsComplete
<1> QED BY <1>1, JobsNameTheirDocuments, StagesLeaveHolds, PTL
-------------------------------------------------------------------------------
(* UploadJobs implements UploadLedger: every step accepts, publishes,      *)
(* finishes or fails, or leaves what a client can learn unchanged.         *)

ReadableOf == {c \in Content : \E d \in DocumentsOf(c) : d.status \in Readable}

(* A job's row decides its outcome.                                        *)
LEMMA OutcomeOfRow ==
  ASSUME NEW u \in Upload
  PROVE  /\ jobs[u].status = "absent" => Outcome(u) = "none"
         /\ jobs[u].status \in Active => Outcome(u) = "active"
         /\ jobs[u].status \in {"done", "failed"} => Outcome(u) = jobs[u].status
  BY DEF Outcome, Active

(* A step after which every row gives the outcome it gave before, and the  *)
(* same contents can be read, is a stutter of the ledger.                  *)
LEMMA LedgerStutters ==
  ASSUME TypeOK,
         \A v \in Upload : \/ jobs'[v].status = jobs[v].status
                           \/ {jobs'[v].status, jobs[v].status} \subseteq Active,
         ReadableOf' = ReadableOf
  PROVE  UNCHANGED Ledger!vars
<1>1. \A v \in Upload : Outcome(v)' = Outcome(v)
  BY DEF Outcome, Active
<1>2. [v \in Upload |-> Outcome(v)]' = [v \in Upload |-> Outcome(v)]
  BY <1>1
<1> QED BY <1>2 DEF Ledger!vars, ReadableOf

(* Each action of the service, against the action of the ledger it is.     *)
LEMMA StepImplementsLedger ==
  ASSUME TypeOK, RowFollowsTask, JobNamesItsDocument, StagesLeave, [Next]_vars
  PROVE  [Ledger!Next]_(Ledger!vars)
<1> USE ConstantsAssumption
<1>t. /\ pc \in [Upload -> {"idle", "fail", "ended", "stranded"} \cup Handling \cup Driving]
      /\ jobs \in [Upload -> Job]
      /\ docs \subseteq Document
  BY DEF TypeOK
<1> DEFINE outcome == [v \in Upload |-> Outcome(v)]
(* A job's row moves as one of the ledger's actions.                       *)
<1>a. ASSUME NEW u \in Upload, NEW job, jobs' = [jobs EXCEPT ![u] = job],
             job.status \in {"done", "failed"} \cup Active
      PROVE  /\ job.status \in Active => outcome' = [outcome EXCEPT ![u] = "active"]
             /\ job.status \notin Active => outcome' = [outcome EXCEPT ![u] = job.status]
  <2>1. \A v \in Upload : Outcome(v)' = IF v = u
                                          THEN IF job.status \in Active THEN "active"
                                               ELSE job.status
                                          ELSE Outcome(v)
    BY <1>t, <1>a DEF Outcome, Active
  <2> QED BY <2>1
<1>s. ASSUME UNCHANGED docs,
             \A v \in Upload : \/ jobs'[v].status = jobs[v].status
                               \/ {jobs'[v].status, jobs[v].status} \subseteq Active
      PROVE  [Ledger!Next]_(Ledger!vars)
  BY <1>s, LedgerStutters DEF ReadableOf, DocumentsOf
<1>1. ASSUME NEW u \in Upload, CheckDocument(u) \/ Handle(u)
      PROVE  [Ledger!Next]_(Ledger!vars)
  <2>1. CASE CheckDocument(u) \/ CheckJob(u) \/ RequestFails(u)
    BY <1>s, <2>1 DEF CheckDocument, CheckJob, RequestFails, durable
  <2>2. CASE InsertJob(u)
    <3>1. /\ jobs' = [jobs EXCEPT ![u] = [jobs[u] EXCEPT !.status = "pending"]]
          /\ [jobs[u] EXCEPT !.status = "pending"].status = "pending"
          /\ UNCHANGED docs
      BY <1>t, <2>2 DEF InsertJob, SetStatus, Job
    <3>2. outcome' = [outcome EXCEPT ![u] = "active"]
      BY <1>a, <3>1 DEF Active
    <3>3. outcome[u] = "none"
      BY <2>2, OutcomeOfRow DEF InsertJob, At, RowFollowsTask
    <3> QED BY <3>1, <3>2, <3>3 DEF Ledger!Next, Ledger!Accept, DocumentsOf
  <2> QED BY <1>1, <2>1, <2>2 DEF Handle
<1>2. ASSUME NEW u \in Upload, Drive(u)
      PROVE  [Ledger!Next]_(Ledger!vars)
  <2>1. CASE Begin(u) \/ Ingest(u)
    BY <1>t, <1>s, <2>1 DEF Begin, Ingest, SetStatus, At, RowFollowsTask, Driving, Active, Job
  <2>2. CASE Prepare(u) \/ Extract(u) \/ ExtractEnds(u) \/ StageFails(u) \/ LoseFailure(u)
    BY <1>s, <2>2 DEF Prepare, Extract, ExtractEnds, StageFails, LoseFailure, durable
  (* The new document cannot be read yet.                                  *)
  <2>3. CASE CommitDocument(u)
    <3>1. \A i \in DocId : Insertion(u, i).status \notin Readable
      BY DEF Insertion, Readable
    <3>2. UNCHANGED jobs
      BY <2>3 DEF CommitDocument
    <3>3. UNCHANGED docs \/ \E i \in DocId : docs' = docs \cup {Insertion(u, i)}
      BY <2>3 DEF CommitDocument
    <3>4. ReadableOf' = ReadableOf
      BY <3>1, <3>3 DEF ReadableOf, DocumentsOf
    <3> QED BY <3>2, <3>4, LedgerStutters
  <2>4. CASE Link(u)
    BY <1>t, <1>s, <2>4 DEF Link, At, RowFollowsTask, Driving, Active, Job
  (* A translation publishes the content of its job's document.            *)
  <2>5. CASE Translate(u)
    <3>1. PICK s \in Readable :
            docs' = {IF d.id = jobs[u].document THEN [d EXCEPT !.status = s] ELSE d
                       : d \in docs}
      BY <2>5 DEF Translate
    <3>2. PICK e \in docs : e.id = jobs[u].document /\ e.sha = ContentOf[u]
      BY <2>5 DEF Translate, At, StagesLeave, Late, JobNamesItsDocument
    <3>3. [e EXCEPT !.status = s] \in docs'
      BY <3>1, <3>2
    <3>4. ReadableOf' = ReadableOf \cup {ContentOf[u]}
      <4>1. /\ [e EXCEPT !.status = s].sha = ContentOf[u]
            /\ [e EXCEPT !.status = s].status \in Readable
        BY <1>t, <3>2 DEF Document
      <4>2. ContentOf[u] \in Content
        OBVIOUS
      <4>3. ASSUME NEW d \in docs, d.id # jobs[u].document PROVE d \in docs'
        BY <3>1, <4>3
      <4>4. \A d \in docs : d.id = jobs[u].document => d.sha = ContentOf[u]
        BY <3>2 DEF JobNamesItsDocument
      <4>5. \A d \in docs' : d \in docs \/ d.sha = ContentOf[u]
        BY <1>t, <3>1, <4>4 DEF Document
      <4> QED BY <3>3, <4>1, <4>2, <4>3, <4>4, <4>5 DEF ReadableOf, DocumentsOf
    <3>5. UNCHANGED outcome
      BY <2>5 DEF Translate, Outcome, Active
    <3> QED BY <3>4, <3>5 DEF Ledger!Next, Ledger!Publish, ReadableOf
  <2>6. CASE Embed(u) \/ Summarize(u)
    <3>1. ReadableOf' = ReadableOf
      <4>1. CASE UNCHANGED docs
        BY <4>1 DEF ReadableOf, DocumentsOf
      <4>2. ASSUME NEW f,
                   \A d \in docs : f[d].sha = d.sha /\ f[d].status = d.status,
                   docs' = {f[d] : d \in docs}
            PROVE  ReadableOf' = ReadableOf
        BY <4>2 DEF ReadableOf, DocumentsOf
      <4>3. CASE Embed(u) /\ ~UNCHANGED docs
        <5> DEFINE f == [d \in docs |-> IF d.id = jobs[u].document
                                         THEN [d EXCEPT !.embedded = TRUE] ELSE d]
        <5>1. docs' = {IF d.id = jobs[u].document THEN [d EXCEPT !.embedded = TRUE]
                         ELSE d : d \in docs}
          BY <4>3 DEF Embed
        <5>2. docs' = {f[d] : d \in docs}
          BY <5>1, Zenon
        <5>3. \A d \in docs : f[d].sha = d.sha /\ f[d].status = d.status
          BY <1>t DEF Document
        <5> HIDE DEF f
        <5> QED BY <4>2, <5>2, <5>3
      <4>4. CASE Summarize(u) /\ ~UNCHANGED docs
        <5> DEFINE f == [d \in docs |-> IF d.id = jobs[u].document
                                         THEN [d EXCEPT !.summary = TRUE] ELSE d]
        <5>1. docs' = {IF d.id = jobs[u].document THEN [d EXCEPT !.summary = TRUE]
                         ELSE d : d \in docs}
          BY <4>4 DEF Summarize
        <5>2. docs' = {f[d] : d \in docs}
          BY <5>1, Zenon
        <5>3. \A d \in docs : f[d].sha = d.sha /\ f[d].status = d.status
          BY <1>t DEF Document
        <5> HIDE DEF f
        <5> QED BY <4>2, <5>2, <5>3
      <4> QED BY <2>6, <4>1, <4>3, <4>4
    <3>2. \A v \in Upload : \/ jobs'[v].status = jobs[v].status
                            \/ {jobs'[v].status, jobs[v].status} \subseteq Active
      BY <1>t, <2>6 DEF Embed, Summarize, SetStatus, At, RowFollowsTask, Driving, Active, Job
    <3> QED BY <3>1, <3>2, LedgerStutters
  (* A job that finishes has a document that can be read.                  *)
  <2>7. CASE Finish(u)
    <3>1. /\ jobs' = [jobs EXCEPT ![u] = [jobs[u] EXCEPT !.status = "done",
                                                         !.error = warned[u]]]
          /\ [jobs[u] EXCEPT !.status = "done", !.error = warned[u]].status = "done"
          /\ UNCHANGED docs
      BY <1>t, <2>7 DEF Finish, Job
    <3>2. outcome' = [outcome EXCEPT ![u] = "done"]
      BY <1>a, <3>1 DEF Active
    <3>3. outcome[u] = "active"
      BY <2>7, OutcomeOfRow DEF Finish, At, RowFollowsTask, Driving
    <3>4. pc[u] = "finish"
      BY <2>7 DEF Finish, At
    <3>5. \E d \in docs : d.sha = ContentOf[u] /\ d.status \in Readable
      BY <3>4 DEF StagesLeave, Late, JobNamesItsDocument
    <3>6. ContentOf[u] \in ReadableOf
      BY <3>5 DEF ReadableOf, DocumentsOf
    <3>7. ReadableOf' = ReadableOf
      BY <3>1 DEF ReadableOf, DocumentsOf
    <3> QED BY <3>2, <3>3, <3>6, <3>7 DEF Ledger!Next, Ledger!Finish, ReadableOf
  <2>8. CASE RecordFailure(u)
    <3>1. /\ jobs' = [jobs EXCEPT ![u] = [jobs[u] EXCEPT !.status = "failed",
                                                         !.error = TRUE]]
          /\ [jobs[u] EXCEPT !.status = "failed", !.error = TRUE].status = "failed"
          /\ UNCHANGED docs
      BY <1>t, <2>8 DEF RecordFailure, Job
    <3>2. outcome' = [outcome EXCEPT ![u] = "failed"]
      BY <1>a, <3>1 DEF Active
    <3>3. outcome[u] = "active"
      BY <2>8, OutcomeOfRow DEF RecordFailure, At, RowFollowsTask
    <3>4. Ledger!Fail({u})
      BY <3>1, <3>2, <3>3 DEF Ledger!Fail, DocumentsOf
    <3> QED BY <3>4 DEF Ledger!Next
  <2> QED BY <1>2, <2>1, <2>2, <2>3, <2>4, <2>5, <2>6, <2>7, <2>8 DEF Drive
<1>3. CASE Stop
  BY <1>s, <1>3 DEF Stop
(* A restart fails the jobs in flight and deletes nothing readable.        *)
<1>4. CASE Restart
  <2>1. \A v \in Upload : Outcome(v)' = IF v \in InFlight THEN "failed" ELSE Outcome(v)
    BY <1>t, <1>4 DEF Restart, Outcome, InFlight, Active
  <2>2. \A v \in InFlight : v \in Upload /\ Outcome(v) = "active"
    BY OutcomeOfRow DEF InFlight
  <2>3. docs' = docs \ HalfIngested
    BY <1>4 DEF Restart
  <2>4. \A d \in HalfIngested : d.status \notin Readable
    BY DEF HalfIngested
  <2>5. ReadableOf' = ReadableOf
    BY <2>3, <2>4 DEF ReadableOf, DocumentsOf
  <2>6. outcome' = [v \in Upload |-> IF v \in InFlight THEN "failed" ELSE outcome[v]]
    BY <2>1
  <2>7. Ledger!Fail(InFlight)
    BY <2>2, <2>5, <2>6 DEF Ledger!Fail, ReadableOf
  <2> QED BY <2>2, <2>7 DEF Ledger!Next
<1>5. CASE UNCHANGED vars
  BY <1>s, <1>5 DEF vars
<1> QED BY <1>1, <1>2, <1>3, <1>4, <1>5 DEF Next, Step

(* The jobs keep the promise of UploadLedger: an outcome once reached is   *)
(* kept, done means readable, and what could be read can be read for ever. *)
THEOREM KeepsLedger == Spec => ImplementsLedger
<1>1. Init => Ledger!Init
  <2> SUFFICES ASSUME Init PROVE Ledger!Init
    OBVIOUS
  <2>1. \A u \in Upload : Outcome(u) = "none"
    BY OutcomeOfRow DEF Init
  <2> QED BY <2>1 DEF Init, Ledger!Init, DocumentsOf
<1>2. IInv => RowFollowsTask
  BY DEF IInv
<1>3. TypeOK /\ RowFollowsTask /\ JobNamesItsDocument /\ StagesLeave /\ [Next]_vars
        => [Ledger!Next]_(Ledger!vars)
  BY StepImplementsLedger
<1> QED BY <1>1, <1>2, <1>3, InvariantHolds, JobsNameTheirDocuments, StagesLeaveHolds,
           PTL DEF Spec, Ledger!Spec, ImplementsLedger
===============================================================================
