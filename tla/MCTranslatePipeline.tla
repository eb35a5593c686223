------------------------- MODULE MCTranslatePipeline -------------------------
(***************************************************************************)
(* A document whose text repeats: blocks 1 and 3 share a key, block 2 has  *)
(* one of its own and block 4 is an image.  Another document has the       *)
(* shared text.                                                            *)
(***************************************************************************)
EXTENDS TranslatePipeline

CONSTANTS k1, k2, none

KeysMC == {k1, k2}
KeyOfMC == <<k1, k2, k1, none>>
ElsewhereMC == {<<k1, 1>>}
===============================================================================
