------------------------------ MODULE MCMalloc ------------------------------
(* Tiles of two small cells or of one large one, two tiles to an arena. *)
EXTENDS Malloc

MCCellSz == <<1, 2>>
MCBucketMax == <<2, 4, 8, 16, 32, 128>>
=============================================================================
