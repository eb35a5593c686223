------------------------------- MODULE ReflowChat -------------------------------
(***************************************************************************)
(* The chat panel of the 2.0 reading view (static/js/chat.js) against the  *)
(* server's /v2/threads: one browser page, whose handlers run to their     *)
(* next await, and whose requests are answered in any order.               *)
(***************************************************************************)
EXTENDS Naturals, Sequences, FiniteSets

CONSTANTS
  Anchor,      (* paragraphs, figures and sections that can be selected    *)
  Ask,         (* questions the user may send                              *)
  Nothing,     (* no selection, no thread: null                            *)
  MaxThreads   (* bound on the threads of a behaviour                      *)

VARIABLES
  selection,   (* chat.js: selection                                       *)
  threadId,    (* chat.js: threadId                                        *)
  transcript,  (* the bubbles of #chat-messages: whose question or answer  *)
  asked,       (* each question: where it is, under which selection it was *)
               (* asked, the thread it goes to                             *)
  threads,     (* server: the anchor of each thread                        *)
  messages     (* server: the questions stored, with their thread          *)

vars == <<selection, threadId, transcript, asked, threads, messages>>

Init ==
  /\ selection = Nothing
  /\ threadId = Nothing
  /\ transcript = {}
  /\ asked = [q \in Ask |-> [at |-> "unsent", selection |-> Nothing, thread |-> Nothing]]
  /\ threads = <<>>
  /\ messages = {}

(* A click on a chunk, or the sectionselect event.                         *)
Select(a) ==
  /\ selection' = a
  /\ threadId' = Nothing
  /\ transcript' = {}
  /\ UNCHANGED <<asked, threads, messages>>

(* The form is submitted: the question is shown, and ensureThread either   *)
(* has a thread or asks for one, anchored at the present selection.        *)
Submit(q) ==
  /\ asked[q].at = "unsent" /\ selection # Nothing
  /\ transcript' = transcript \cup {q}
  /\ asked' = [asked EXCEPT ![q] =
       [at |-> IF threadId = Nothing THEN "creating" ELSE "posting",
        selection |-> selection, thread |-> threadId]]
  /\ UNCHANGED <<selection, threadId, threads, messages>>

(* POST /v2/threads answers; ensureThread keeps the id in threadId.        *)
Created(q) ==
  /\ asked[q].at = "creating" /\ Len(threads) < MaxThreads
  /\ threads' = Append(threads, asked[q].selection)
  /\ threadId' = Len(threads) + 1
  /\ asked' = [asked EXCEPT ![q].at = "posting", ![q].thread = threadId']
  /\ UNCHANGED <<selection, transcript, messages>>

(* POST .../messages stores the question with its answer, which is         *)
(* rendered into the messages element.                                     *)
Posted(q) ==
  /\ asked[q].at = "posting"
  /\ messages' = messages \cup {[question |-> q, thread |-> asked[q].thread]}
  /\ transcript' = transcript \cup {q}
  /\ asked' = [asked EXCEPT ![q].at = "answered"]
  /\ UNCHANGED <<selection, threadId, threads>>

(* Either request fails: an error bubble, nothing is stored.               *)
Failed(q) ==
  /\ asked[q].at \in {"creating", "posting"}
  /\ transcript' = transcript \cup {q}
  /\ asked' = [asked EXCEPT ![q].at = "failed"]
  /\ UNCHANGED <<selection, threadId, threads, messages>>

Next ==
  \/ \E a \in Anchor : Select(a)
  \/ \E q \in Ask : Submit(q) \/ Created(q) \/ Posted(q) \/ Failed(q)

Spec == Init /\ [][Next]_vars

-------------------------------------------------------------------------------
(* A question is stored in a thread of the selection under which it was    *)
(* asked: threadId is "reset whenever the selection changes" (chat.js:21), *)
(* so that a new selection posts to a fresh thread (chat.js:32-33).        *)
QuestionInItsContext ==
  \A m \in messages : threads[m.thread] = asked[m.question].selection
===============================================================================
