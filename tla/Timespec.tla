------------------------------ MODULE Timespec ------------------------------
(***************************************************************************)
(* The timespec arithmetic of panwrap/panwrap-util.c: a time is a number   *)
(* of seconds and a number of nanoseconds below one second.  The second is *)
(* NsPerSec nanoseconds long (10^9 in the code).                           *)
(***************************************************************************)
EXTENDS Integers

CONSTANT NsPerSec

ASSUME NsAssumption == NsPerSec \in Nat \ {0, 1}

TimespecType == [sec: Int, nsec: 0..NsPerSec - 1]

Zero == [sec |-> 0, nsec |-> 0]

\* What a timespec stands for.
Value(tp) == tp.sec * NsPerSec + tp.nsec

\* A mutant: the carry is forgotten.
AddNoCarry(tp, value) ==
  [sec |-> tp.sec + value.sec, nsec |-> tp.nsec + value.nsec]

Add(tp, value) ==
  LET sec == tp.sec + value.sec
      nsec == tp.nsec + value.nsec
  IN IF nsec >= NsPerSec
     THEN [sec |-> sec + 1, nsec |-> nsec - NsPerSec]
     ELSE [sec |-> sec, nsec |-> nsec]

Subtract(tp, value) ==
  LET sec == tp.sec - value.sec
      nsec == tp.nsec - value.nsec
  IN IF nsec < 0
     THEN [sec |-> sec - 1, nsec |-> NsPerSec + nsec]
     ELSE [sec |-> sec, nsec |-> nsec]

=============================================================================
