----------------------------- MODULE MCSyscall -----------------------------
(***************************************************************************)
(* PanwrapSyscall for TLC: the threads and the addresses are               *)
(* interchangeable, which the runs without a liveness property use.        *)
(***************************************************************************)
EXTENDS PanwrapSyscall, TLC

Symmetry == Permutations(Threads) \cup Permutations(Addrs)

=============================================================================
