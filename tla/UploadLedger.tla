----------------------------- MODULE UploadLedger -----------------------------
(***************************************************************************)
(* What POST /uploads promises to whoever polls a job, whatever happens to *)
(* the server: a job is active until it is done or failed and then stays   *)
(* so, it is done only when its document can be read, and a document that  *)
(* could be read once can be read for ever.                                *)
(***************************************************************************)

CONSTANTS
  Uploads,     (* requests that may become jobs                            *)
  Contents,    (* the PDFs they carry                                      *)
  Content      (* upload -> its PDF                                        *)

VARIABLES
  outcome,     (* Uploads -> "none", "active", "done" or "failed"          *)
  readable     (* the PDFs with a translated document                      *)

vars == <<outcome, readable>>

Init ==
  /\ outcome = [u \in Uploads |-> "none"]
  /\ readable = {}

Accept(u) ==
  /\ outcome[u] = "none"
  /\ outcome' = [outcome EXCEPT ![u] = "active"]
  /\ UNCHANGED readable

Publish(c) ==
  /\ readable' = readable \cup {c}
  /\ UNCHANGED outcome

Finish(u) ==
  /\ outcome[u] = "active"
  /\ Content[u] \in readable
  /\ outcome' = [outcome EXCEPT ![u] = "done"]
  /\ UNCHANGED readable

(* One job fails, or a restart fails all that were active.                 *)
Fail(us) ==
  /\ \A u \in us : outcome[u] = "active"
  /\ outcome' = [u \in Uploads |-> IF u \in us THEN "failed" ELSE outcome[u]]
  /\ UNCHANGED readable

Next ==
  \/ \E u \in Uploads : Accept(u) \/ Finish(u)
  \/ \E c \in Contents : Publish(c)
  \/ \E us \in SUBSET Uploads : Fail(us)

Spec == Init /\ [][Next]_vars
===============================================================================
