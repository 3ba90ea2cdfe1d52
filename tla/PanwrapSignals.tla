--------------------------- MODULE PanwrapSignals ---------------------------
(***************************************************************************)
(* PanwrapSyscall in a program with signal handlers.  A handler runs on    *)
(* the stack of a thread it interrupts, at any place, and may call the     *)
(* functions panwrap overrides; POSIX has open() and close() among those   *)
(* a handler may call.  The mutex of panwrap is not recursive, so what a   *)
(* handler calls must not wait for it while the thread below holds it.     *)
(*                                                                         *)
(* A handler is one of Threads that has a host: the host stands still      *)
(* until the handler's call has returned.  Every behaviour is one of       *)
(* PanwrapSyscall, so what is proved of that module holds here.            *)
(***************************************************************************)
EXTENDS PanwrapSyscall

CONSTANTS
  Host,     \* the thread each handler interrupts
  Entries   \* where the calls handlers make enter panwrap

Handlers == DOMAIN Host

ASSUME HostAssumption ==
  /\ Handlers \subseteq Threads
  /\ \A h \in Handlers : Host[h] \in Threads \ Handlers

Suspended(t) == \E h \in Handlers : Host[h] = t /\ pc[h] # "app"

\* One handler at a time interrupts a thread, and it calls the functions
\* given, for files of its own or memory, not for the device.
HandlerCall(h) ==
  /\ ~Suspended(Host[h])
  /\ pc'[h] \in Entries
  /\ fd'[h] = NoFd \/ files'[fd'[h]] = "other"

SignalNext ==
  \E t \in Threads :
    /\ ~Suspended(t)
    /\ ThreadNext(t)
    /\ t \in Handlers /\ pc[t] = "app" => HandlerCall(t)

SignalSpec == Init /\ [][SignalNext]_vars

\* As in PanwrapSyscall; a thread that is interrupted again and again gets on
\* in between, and handlers run to their end.
SignalFairness ==
  /\ \A t \in Threads \ Handlers : SF_vars(~Suspended(t) /\ LockedStep(t))
  /\ \A h \in Handlers : WF_vars(UnlockedStep(h) \/ LockedStep(h))

FairSignalSpec == SignalSpec /\ SignalFairness

-----------------------------------------------------------------------------
(* Properties.                                                             *)

(***************************************************************************)
(* A handler never waits for the mutex while the thread it interrupted     *)
(* holds it: close(), ioctl() and mmap() decide without the mutex that a   *)
(* call is not about the device, and the decision cannot be wrong while    *)
(* the handler runs.                                                       *)
(***************************************************************************)
HandlerNotStuck == \A h \in Handlers : pc[h] \in AtLock => l # Host[h]

(***************************************************************************)
(* An interrupted call goes on: every handler's call returns, whoever      *)
(* holds the mutex.                                                        *)
(***************************************************************************)
HandlerReturns == \A h \in Handlers : pc[h] # "app" ~> pc[h] = "app"

=============================================================================
