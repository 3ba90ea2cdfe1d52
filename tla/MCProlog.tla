------------------------------ MODULE MCProlog ------------------------------
(***************************************************************************)
(* Prolog for TLC: two functions every libc has, and one that is missing.  *)
(***************************************************************************)
EXTENDS Prolog

SomeFunctions == {"open", "close", "mmap64"}

=============================================================================
