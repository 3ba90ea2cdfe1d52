------------------------------- MODULE MCTime -------------------------------
(***************************************************************************)
(* PanwrapTime for TLC, with seconds of NsPerSec nanoseconds.              *)
(***************************************************************************)
EXTENDS PanwrapTime

=============================================================================
