--------------------------------- MODULE MCChat ---------------------------------
(***************************************************************************)
(* Two questions to threads on chunks and one to a thread on a block; one  *)
(* document has one chunk, a later one another.                            *)
(***************************************************************************)
EXTENDS Chat

RequestMC == {1, 2, 3}
TableOfMC == <<"chunk", "chunk", "block">>
LibraryMC == {<<"chunk", 1>>, <<"chunk", 2>>, <<"block", 1>>}
===============================================================================
