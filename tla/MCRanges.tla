------------------------------ MODULE MCRanges ------------------------------
(***************************************************************************)
(* MappedRanges for TLC: four pages of two bytes, so that a mapping may    *)
(* end in the middle of its last page or at its end.                       *)
(***************************************************************************)
EXTENDS MappedRanges

PagesInUse == 1..4

=============================================================================
