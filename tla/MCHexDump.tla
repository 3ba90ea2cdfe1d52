------------------------------ MODULE MCHexDump -----------------------------
(***************************************************************************)
(* HexDump for TLC.                                                        *)
(***************************************************************************)
EXTENDS HexDump

=============================================================================
