------------------------------- MODULE MCList -------------------------------
(***************************************************************************)
(* PanwrapList for TLC.                                                    *)
(***************************************************************************)
EXTENDS PanwrapList

=============================================================================
