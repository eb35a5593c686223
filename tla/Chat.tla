---------------------------------- MODULE Chat ----------------------------------
(***************************************************************************)
(* The two chats: threads on blocks (api/routers/threads.py, messages.py)  *)
(* and threads on chunks (api/routers/chunk_chat.py).  A question is one   *)
(* request: it finds the thread, reads the context and the transcript,     *)
(* waits for a slot of the chat semaphore, which both chats share, calls   *)
(* the LLM, and stores question and answer together.  Meanwhile threads    *)
(* are created and deleted, and a document can be ingested again, which    *)
(* deletes what hangs on its blocks or chunks.  Pins are left out.         *)
(*                                                                         *)
(* Tables are SQLite rowid tables without AUTOINCREMENT: a new row gets    *)
(* one more than the highest id in use.                                    *)
(***************************************************************************)
EXTENDS Naturals, Sequences, FiniteSets

CONSTANTS
  Request,     (* the questions of a behaviour (a bound)                   *)
  Table,       (* "chunk" and "block"                                      *)
  TableOf,     (* request -> the chat it belongs to                        *)
  Library,     (* the anchors there are at first, as <<table, id>>         *)
  MaxAnchor,   (* bound on anchor ids                                      *)
  MaxThreads,  (* bound on the threads created in a behaviour              *)
  MaxReingest, (* bound on the documents ingested again                    *)
  Slots        (* get_chat_concurrency                                     *)

Key == Table \X (1..MaxThreads)       (* of a thread                       *)
Anchor == Table \X (1..MaxAnchor)     (* a block or a chunk                *)
None == <<"none", 0>>

ASSUME ConstantsAssumption ==
  /\ IsFiniteSet(Request)
  /\ Table \subseteq {"chunk", "block"}
  /\ TableOf \in [Request -> Table]
  /\ MaxAnchor \in Nat
  /\ MaxThreads \in Nat
  /\ MaxReingest \in Nat
  /\ Library \subseteq Anchor
  /\ Slots \in Nat \ {0}

VARIABLES
  anchors,    (* the blocks and chunks tables                              *)
  threads,    (* thread -> its anchor; None for an id not in use           *)
  messages,   (* thread -> its rows in the order of their ids              *)
  births,     (* thread -> which creation it comes from; 0 if none (aux.)  *)
  created,    (* threads created so far                                    *)
  reingested, (* documents ingested again so far                           *)
  opening,    (* anchors a creation has checked and not yet used           *)
  pc,         (* where each question is, or how it was answered            *)
  asked,      (* question -> its thread                                    *)
  about,      (* question -> the anchor of that thread when found          *)
  birth,      (* question -> births of that thread when found (auxiliary)  *)
  seen,       (* question -> the history sent to the LLM                   *)
  queue,      (* questions waiting for a slot, in the order they came      *)
  free        (* slots of the semaphore not taken                          *)

store == <<anchors, threads, messages, births>>
world == <<created, reingested, opening>>
asks  == <<asked, about, birth, seen>>
vars  == <<store, world, pc, asks, queue, free>>

Answered == {"stored", "notFound", "conflict", "error", "badGateway"}
Open == {"found", "prepared", "waiting", "calling", "returned", "checked"}

Message == [role : {"user", "assistant"}, of : Request]

TypeOK ==
  /\ anchors \subseteq Anchor
  /\ threads \in [Key -> Anchor \cup {None}]
  /\ messages \in [Key -> Seq(Message)]
  /\ births \in [Key -> 0..MaxThreads]
  /\ created \in 0..MaxThreads
  /\ reingested \in 0..MaxReingest
  /\ opening \subseteq Anchor
  /\ pc \in [Request -> {"idle"} \cup Open \cup Answered]
  /\ asked \in [Request -> Key \cup {None}]
  /\ about \in [Request -> Anchor \cup {None}]
  /\ birth \in [Request -> 0..MaxThreads]
  /\ seen \in [Request -> Seq(Message)]
  /\ queue \in Seq(Request)
  /\ free \in 0..Slots

Init ==
  /\ anchors = Library
  /\ threads = [t \in Key |-> None]
  /\ messages = [t \in Key |-> <<>>]
  /\ births = [t \in Key |-> 0]
  /\ created = 0
  /\ reingested = 0
  /\ opening = {}
  /\ pc = [r \in Request |-> "idle"]
  /\ asked = [r \in Request |-> None]
  /\ about = [r \in Request |-> None]
  /\ birth = [r \in Request |-> 0]
  /\ seen = [r \in Request |-> <<>>]
  /\ queue = <<>>
  /\ free = Slots

-------------------------------------------------------------------------------
(* Threads and what they hang on.                                          *)

Live(t) == threads[t] # None
Goto(r, label) == pc' = [pc EXCEPT ![r] = label]

(* The rowid of a row inserted into table t, given the keys in use.        *)
NextId(used, t, n) ==
  /\ \A k \in used : k[1] = t => k[2] < n
  /\ n = 1 \/ <<t, n - 1>> \in used

LiveThreads == {t \in Key : Live(t)}

(* create_thread reads the anchor ...                                      *)
CheckAnchor(a) ==
  /\ created + Cardinality(opening) < MaxThreads
  /\ a \in anchors \ opening
  /\ opening' = opening \cup {a}
  /\ UNCHANGED <<store, created, reingested, pc, asks, queue, free>>

(* ... and inserts the thread, which the foreign key refuses when the      *)
(* anchor has gone meanwhile.                                              *)
CreateThread(a) ==
  /\ a \in opening
  /\ opening' = opening \ {a}
  /\ IF a \in anchors
       THEN \E n \in {i \in 1..MaxThreads : NextId(LiveThreads, a[1], i)} :
              /\ threads' = [threads EXCEPT ![<<a[1], n>>] = a]
              /\ births' = [births EXCEPT ![<<a[1], n>>] = created + 1]
              /\ created' = created + 1
       ELSE UNCHANGED <<threads, births, created>>
  /\ UNCHANGED <<anchors, messages, reingested, pc, asks, queue, free>>

(* What goes with the threads ts: ON DELETE CASCADE, enabled by PRAGMA     *)
(* foreign_keys on every connection, or bulk deletes from the bottom up.   *)
RemoveWithoutForeignKeys(ts) ==   (* variant: without that PRAGMA *)
  /\ threads' = [t \in Key |-> IF t \in ts THEN None ELSE threads[t]]
  /\ births' = [t \in Key |-> IF t \in ts THEN 0 ELSE births[t]]
  /\ UNCHANGED messages

Remove(ts) ==
  /\ threads' = [t \in Key |-> IF t \in ts THEN None ELSE threads[t]]
  /\ births' = [t \in Key |-> IF t \in ts THEN 0 ELSE births[t]]
  /\ messages' = [t \in Key |-> IF t \in ts THEN <<>> ELSE messages[t]]

(* DELETE /v2/threads/{id}; a thread on a block has no such route.         *)
DeleteThread(t) ==
  /\ t[1] = "chunk"
  /\ Live(t)
  /\ Remove({t})
  /\ UNCHANGED <<anchors, world, pc, asks, queue, free>>

(* `ht-lens ingest --overwrite` or `ingest-mineru --overwrite`, in another *)
(* process: the rows of a document are deleted and inserted anew.          *)
Reingest(a) ==
  /\ reingested < MaxReingest
  /\ a \in anchors
  /\ reingested' = reingested + 1
  /\ \E n \in {i \in 1..MaxAnchor : NextId(anchors \ {a}, a[1], i)} :
       anchors' = (anchors \ {a}) \cup {<<a[1], n>>}
  /\ Remove({t \in Key : threads[t] = a})
  /\ UNCHANGED <<created, opening, pc, asks, queue, free>>

-------------------------------------------------------------------------------
(* A question.                                                             *)

(* The thread is looked up.                                                *)
Find(r, t) ==
  /\ pc[r] = "idle"
  /\ t[1] = TableOf[r]
  /\ IF Live(t)
       THEN /\ asked' = [asked EXCEPT ![r] = t]
            /\ about' = [about EXCEPT ![r] = threads[t]]
            /\ birth' = [birth EXCEPT ![r] = births[t]]
            /\ Goto(r, "found")
       ELSE /\ Goto(r, "notFound")
            /\ UNCHANGED <<asked, about, birth>>
  /\ UNCHANGED <<store, world, seen, queue, free>>

(* The context of its anchor is built, unless the anchor has gone.         *)
BuildContext(r) ==
  /\ pc[r] = "found"
  /\ about[r] \in anchors
  /\ Goto(r, "prepared")
  /\ UNCHANGED <<store, world, asks, queue, free>>

(* The block chat answers 404; nothing handles the chunk chat's exception. *)
ContextFails(r) ==
  /\ pc[r] = "found"
  /\ about[r] \notin anchors
  /\ Goto(r, IF TableOf[r] = "block" THEN "notFound" ELSE "error")
  /\ UNCHANGED <<store, world, asks, queue, free>>

(* The transcript is read, as it is committed by then.                     *)
ReadEverything(r) ==   (* variant: the transcript of every thread *)
  /\ pc[r] = "prepared"
  /\ \E t \in LiveThreads : seen' = [seen EXCEPT ![r] = messages[t]]
  /\ queue' = Append(queue, r)
  /\ Goto(r, "waiting")
  /\ UNCHANGED <<store, world, asked, about, birth, free>>

ReadSavingQuestion(r) ==   (* variant: the question is stored at once *)
  /\ pc[r] = "prepared"
  /\ Live(asked[r])
  /\ messages' = [messages EXCEPT ![asked[r]] = Append(@, [role |-> "user", of |-> r])]
  /\ seen' = [seen EXCEPT ![r] = messages[asked[r]]]
  /\ queue' = Append(queue, r)
  /\ Goto(r, "waiting")
  /\ UNCHANGED <<anchors, threads, births, world, asked, about, birth, free>>

Read(r) ==
  /\ pc[r] = "prepared"
  /\ seen' = [seen EXCEPT ![r] = messages[asked[r]]]
  /\ queue' = Append(queue, r)
  /\ Goto(r, "waiting")
  /\ UNCHANGED <<store, world, asked, about, birth, free>>

(* The semaphore is an asyncio.Semaphore: slots go to those who wait in    *)
(* their order, and a newcomer does not overtake them.                     *)
Acquire(r) ==
  /\ pc[r] = "waiting"
  /\ r = Head(queue)
  /\ free > 0
  /\ free' = free - 1
  /\ queue' = Tail(queue)
  /\ Goto(r, "calling")
  /\ UNCHANGED <<store, world, asks>>

ReleaseTwice == free' = free + 2   (* variant: here and in the handler *)

Release == free' = free + 1

CallReturns(r) ==
  /\ pc[r] = "calling"
  /\ Release
  /\ Goto(r, IF TableOf[r] = "chunk" THEN "returned" ELSE "checked")
  /\ UNCHANGED <<store, world, asks, queue>>

CallFailsKeepingSlot(r) ==   (* variant: the slot is released on success only *)
  /\ pc[r] = "calling"
  /\ Goto(r, "badGateway")
  /\ UNCHANGED <<store, world, asks, queue, free>>

CallFails(r) ==
  /\ pc[r] = "calling"
  /\ Release
  /\ Goto(r, "badGateway")
  /\ UNCHANGED <<store, world, asks, queue>>

(* The chunk chat looks again whether there is a thread of this id.        *)
CheckAgain(r) ==
  /\ pc[r] = "returned"
  /\ Goto(r, IF Live(asked[r]) THEN "checked" ELSE "conflict")
  /\ UNCHANGED <<store, world, asks, queue, free>>

(* Question and answer are committed together; the foreign key refuses     *)
(* them when the thread has gone, which the block chat does not handle.    *)
Turn(r) == <<[role |-> "user", of |-> r], [role |-> "assistant", of |-> r]>>

StoreTurn(r) ==
  LET t == asked[r]
  IN  /\ pc[r] = "checked"
      /\ IF Live(t)
           THEN /\ messages' = [messages EXCEPT ![t] = @ \o Turn(r)]
                /\ Goto(r, "stored")
           ELSE /\ Goto(r, IF TableOf[r] = "chunk" THEN "conflict" ELSE "error")
                /\ UNCHANGED messages
      /\ UNCHANGED <<anchors, threads, births, world, asks, queue, free>>

-------------------------------------------------------------------------------

Ask(r) ==
  \/ BuildContext(r) \/ ContextFails(r) \/ Read(r) \/ Acquire(r)
  \/ CallReturns(r) \/ CallFails(r) \/ CheckAgain(r) \/ StoreTurn(r)

Next ==
  \/ \E a \in Anchor : CheckAnchor(a) \/ CreateThread(a) \/ Reingest(a)
  \/ \E t \in Key : DeleteThread(t)
  \/ \E r \in Request, t \in Key : Find(r, t)
  \/ \E r \in Request : Ask(r)

Spec == Init /\ [][Next]_vars

(* A request under way is carried on by the event loop, and an LLM call    *)
(* ends (the client has a timeout).  Nobody has to ask, create or delete.  *)
FairSpec == Spec /\ \A r \in Request : WF_vars(Ask(r))

-------------------------------------------------------------------------------
(* Properties.                                                             *)

(* No message outlives its thread, so a thread that reuses the id of a     *)
(* deleted one does not start with that one's transcript; no thread        *)
(* outlives its anchor.                                                    *)
NoOrphans ==
  \A t \in Key :
    /\ Live(t) => threads[t] \in anchors
    /\ ~Live(t) => messages[t] = <<>>

(* A transcript consists of whole turns, whatever was asked at the same    *)
(* time, failed or was deleted: the question of a stored request followed  *)
(* by its answer, each once.                                               *)
WholeTurns ==
  \A t \in Key :
    LET m == messages[t]
    IN  /\ \A i \in DOMAIN m : m[i].role = "user" =>
             /\ i + 1 \in DOMAIN m
             /\ m[i + 1] = [role |-> "assistant", of |-> m[i].of]
        /\ \A i \in DOMAIN m : m[i].role = "assistant" => i % 2 = 0
        /\ \A i \in DOMAIN m : pc[m[i].of] = "stored"
        /\ \A i, j \in DOMAIN m : m[i] = m[j] => i = j

IsPrefixOf(s, m) == Len(s) <= Len(m) /\ s = SubSeq(m, 1, Len(s))

(* What the LLM was told of a thread is how that thread still begins: no   *)
(* later turn slips in before what an earlier answer was based on, unless  *)
(* the thread has been replaced by another.                                *)
HistoryIsPast ==
  \A r \in Request :
    pc[r] \in Open \cup {"stored"} /\ births[asked[r]] = birth[r] =>
      IsPrefixOf(seen[r], messages[asked[r]])

(* A question that has found its thread is answered, with a message or an  *)
(* error: failed calls and deleted threads give their slot back.           *)
QuestionsEnd == \A r \in Request : pc[r] \in Open ~> pc[r] \in Answered

(* The comment of post_message: a thread deleted during the LLM call is    *)
(* answered with 409, so no answer is stored in another thread.            *)
ReplyStaysInItsThread ==
  [][\A r \in Request : pc[r] # "stored" /\ pc'[r] = "stored"
       => births[asked[r]] = birth[r]]_vars
===============================================================================
