----------------------------- MODULE MCUploadJobs -----------------------------
(***************************************************************************)
(* Two uploads of one PDF, at once or one after the other, and one of      *)
(* another PDF.                                                            *)
(***************************************************************************)
EXTENDS UploadJobs

CONSTANTS c1, c2

UploadMC == {1, 2, 3}
ContentMC == {c1, c2}
ContentOfMC == <<c1, c1, c2>>
===============================================================================
