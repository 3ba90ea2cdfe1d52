----------------------------- MODULE MCSignals ------------------------------
(***************************************************************************)
(* PanwrapSignals for TLC: two threads, one of which a handler interrupts. *)
(***************************************************************************)
EXTENDS PanwrapSignals, TLC

CONSTANTS t1, h1

OneHandler == h1 :> t1

\* close(), ioctl() and mmap(), on whichever side of their tests.
CheckedCalls == {"close_sys", "close_check", "ioctl_pass", "ioctl_lock",
                 "mmap_pass", "mmap_check"}

\* open() and munmap() take the mutex whatever the call is about.
LockingCalls == {"open_lock", "munmap_lock"}

=============================================================================
