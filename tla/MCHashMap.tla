----------------------------- MODULE MCHashMap -----------------------------
(* Four names in a table of four buckets: two of them collide, a third one *)
(* starts its probe sequence in the next bucket, and three live names are  *)
(* enough to reach the 70% watermark and rehash into eight buckets.        *)
EXTENDS HashMap, TLC

CONSTANTS a, b, c, d, v1, v2

MCHash == (a :> 4) @@ (b :> 0) @@ (c :> 1) @@ (d :> 7)
=============================================================================
