------------------------------- MODULE MCCpm -------------------------------
(* Two interchangeable files for TLC, and what may have been written       *)
(* before: nothing, a record with padding or without, a file of two        *)
(* extents, and one of three, which no longer fit a module.                *)
EXTENDS CpmFiles

a == 97
Long == << <<a, a>>, <<SUB, a>>, <<a, SUB>>, <<a, a>>, <<SUB, SUB>> >>
Medium == SubSeq(Long, 1, 3)
Files == {<< >>, << <<a, a>> >>, << <<a, SUB>> >>, Medium, Long}
Symmetry == Permutations(Name)
=============================================================================
