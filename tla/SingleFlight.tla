----------------------------- MODULE SingleFlight -----------------------------
(***************************************************************************)
(* What the translators promise about shared work, without locks, queues   *)
(* or retries: callers that want the same key are all answered by one call *)
(* made under that key, and only after that call has concluded.  It is     *)
(* the contract translate_document's docstring gives for `pending_futures`.*)
(***************************************************************************)

CONSTANTS
  Callers,   (* who may want an answer                                     *)
  Keys,      (* what an answer is wanted for                               *)
  KeyOf,     (* the key each caller wants                                  *)
  Answers,   (* what a call may conclude with                              *)
  Unset      (* no conclusion, no answer                                   *)

VARIABLES
  leaders,   (* Keys -> the callers that made a call under the key         *)
  verdict,   (* Keys -> what the call concluded with                       *)
  got        (* Callers -> the answer the caller has taken                 *)

vars == <<leaders, verdict, got>>

Init ==
  /\ leaders = [k \in Keys |-> {}]
  /\ verdict = [k \in Keys |-> Unset]
  /\ got = [c \in Callers |-> Unset]

(* The first caller of a key makes the call; there is no second.           *)
Lead(c) ==
  /\ KeyOf[c] \in Keys
  /\ leaders[KeyOf[c]] = {}
  /\ leaders' = [leaders EXCEPT ![KeyOf[c]] = {c}]
  /\ UNCHANGED <<verdict, got>>

(* The call concludes, once.                                               *)
Conclude(k) ==
  /\ leaders[k] # {}
  /\ verdict[k] = Unset
  /\ \E a \in Answers : verdict' = [verdict EXCEPT ![k] = a]
  /\ UNCHANGED <<leaders, got>>

(* A caller takes the conclusion of its key's call, once.                  *)
Take(c) ==
  /\ KeyOf[c] \in Keys
  /\ got[c] = Unset
  /\ verdict[KeyOf[c]] # Unset
  /\ got' = [got EXCEPT ![c] = verdict[KeyOf[c]]]
  /\ UNCHANGED <<leaders, verdict>>

(* The run ends, or dies: what it shared is forgotten.                     *)
Forget ==
  /\ leaders' = [k \in Keys |-> {}]
  /\ verdict' = [k \in Keys |-> Unset]
  /\ got' = [c \in Callers |-> Unset]

Next ==
  \/ \E c \in Callers : Lead(c) \/ Take(c)
  \/ \E k \in Keys : Conclude(k)
  \/ Forget

Spec == Init /\ [][Next]_vars
===============================================================================
