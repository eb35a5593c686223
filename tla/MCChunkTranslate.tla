--------------------------- MODULE MCChunkTranslate ---------------------------
(***************************************************************************)
(* Chunk 1 is a figure whose caption repeats as the text of chunk 2 and    *)
(* holds math; chunk 3 repeats the body of chunk 1; chunk 4 is an          *)
(* equation.                                                               *)
(***************************************************************************)
EXTENDS ChunkTranslate

CONSTANTS k1, k2, none

KeysMC == {k1, k2}
BodyOfMC == <<k1, k2, k1, none>>
CaptionOfMC == <<k2, none, none, none>>
EquationsMC == {4}
===============================================================================
