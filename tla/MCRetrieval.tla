------------------------------ MODULE MCRetrieval ------------------------------
(***************************************************************************)
(* A 2.0 document with a section 1 that has an unnumbered heading and      *)
(* sections 1.1 and 1.2 in it, and a short section 2 with a 2.1 at its     *)
(* end; a document before it of a single chunk and one after it that may   *)
(* be replaced (its ids are the last of the table); two 1.x documents of   *)
(* one block, the first of them long enough to be embedded and too short   *)
(* to be found.                                                            *)
(***************************************************************************)
EXTENDS Retrieval

CONSTANTS bge, mock, w1, w2, all

Text(kind, doc, chars, size, relevance) ==
  [kind |-> kind, doc |-> doc, page |-> 1, type |-> "text", number |-> <<>>, chars |-> chars,
   size |-> size, relevance |-> relevance, padded |-> FALSE]

Heading(doc, number) ==
  [Text("chunk", doc, 10, 1, 0) EXCEPT !.type = "heading", !.number = number]

Padded(thing) == [thing EXCEPT !.padded = TRUE]

Stock ==
  << Text("chunk", 5, 60, 1, 1),
     Heading(1, <<1>>), Text("chunk", 1, 60, 2, 1), Text("chunk", 1, 60, 1, 1),
     Heading(1, <<>>), Heading(1, <<1, 1>>), Text("chunk", 1, 25, 1, 1),
     Heading(1, <<1, 2>>), Heading(1, <<2>>), Heading(1, <<2, 1>>), Text("chunk", 1, 25, 1, 1),
     Text("chunk", 2, 60, 1, 2),
     Padded(Text("block", 3, 40, 1, 1)), Text("block", 4, 60, 1, 1) >>

(* TLC evaluates Stock once, and the definition given to a constant each time. *)
ShelfMC == Stock

ScopesMC == {<<"block", all>>, <<"chunk", all>>, <<"chunk", 5>>}

AnchorsMC ==
  {<<2, TRUE>>, <<5, TRUE>>, <<6, TRUE>>, <<9, TRUE>>, <<12, FALSE>>, <<13, FALSE>>}

Symmetry == Permutations({w1, w2}) \cup Permutations({bge, mock})
===============================================================================
