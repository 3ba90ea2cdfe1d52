------------------------------- MODULE Prolog -------------------------------
(***************************************************************************)
(* How the overridden functions find those of libc.  Each has a static     *)
(* pointer that its first call sets (the macro PROLOG, panwrap/panwrap.h   *)
(* 33) through __rd_dlsym_helper() (panwrap/panwrap-util.c 151), which     *)
(* keeps the handle of libc in a static of its own.  Nothing of this is    *)
(* under the mutex, so first calls of several threads interleave at every  *)
(* access to the statics.  A pointer is read and written whole; where the  *)
(* code names libc_dl again, the build may read it again or use what the   *)
(* thread has in a register, and both are allowed here.                    *)
(*                                                                         *)
(* The dynamic linker is outside: dlopen() and dlsym() do not call back    *)
(* into the overridden functions.                                          *)
(***************************************************************************)
EXTENDS Naturals

CONSTANTS
  Threads,
  Functions,   \* the overridden functions
  Absent,      \* those the system's libc does not have
  Linkers      \* how dlopen() may behave: it "works", "fails" or is "flaky"

Null == "null"
Handle == "libc.so"
Libc(fn) == <<"libc", fn>>
Own(fn) == <<"panwrap", fn>>
NoFunction == <<"null">>

Pointers == {NoFunction} \cup {Libc(fn) : fn \in Functions}
                         \cup {Own(fn) : fn \in Functions}

ASSUME AbsentAssumption == Absent \subseteq Functions
ASSUME LinkersAssumption == Linkers \subseteq {"works", "fails", "flaky"}

VARIABLES
  linker,   \* how dlopen() behaves in this process
  orig,     \* the static pointer of every overridden function
  libc_dl,  \* the static handle of libc
  pc, called, \* where each thread is, and in which function
  handle, func, \* what it read of libc_dl, and what dlsym() gave it
  exited    \* the threads that called exit(): the first ends the process

locals == <<called, handle, func>>
prologVars == <<linker, orig, libc_dl, pc, locals, exited>>

Labels == {"app", "check", "helper", "dlopen", "opened", "dlsym", "found",
           "assign", "call"}

PrologTypeOK ==
  /\ linker \in Linkers
  /\ orig \in [Functions -> Pointers]
  /\ libc_dl \in {Null, Handle}
  /\ pc \in [Threads -> Labels]
  /\ called \in [Threads -> Functions]
  /\ handle \in [Threads -> {Null, Handle}]
  /\ func \in [Threads -> Pointers]
  /\ exited \subseteq Threads

PrologInit ==
  /\ linker \in Linkers
  /\ orig = [fn \in Functions |-> NoFunction]
  /\ libc_dl = Null
  /\ pc = [t \in Threads |-> "app"]
  /\ called \in [Threads -> Functions]
  /\ handle = [t \in Threads |-> Null]
  /\ func = [t \in Threads |-> NoFunction]
  /\ exited = {}

At(t, label) == exited = {} /\ pc[t] = label
Goto(t, label) == pc' = [pc EXCEPT ![t] = label]

\* What a thread may find where the code names libc_dl again.
Seen(t) == {handle[t], libc_dl}

-----------------------------------------------------------------------------

Enter(t, fn) ==
  /\ At(t, "app")
  /\ called' = [called EXCEPT ![t] = fn]
  /\ Goto(t, "check")
  /\ UNCHANGED <<linker, orig, libc_dl, handle, func, exited>>

\* if (!orig_func)
Check(t) ==
  /\ At(t, "check")
  /\ Goto(t, IF orig[called[t]] = NoFunction THEN "helper" ELSE "call")
  /\ UNCHANGED <<linker, orig, libc_dl, locals, exited>>

\* if (!libc_dl)
Helper(t) ==
  /\ At(t, "helper")
  /\ handle' = [handle EXCEPT ![t] = libc_dl]
  /\ Goto(t, IF libc_dl = Null THEN "dlopen" ELSE "opened")
  /\ UNCHANGED <<linker, orig, libc_dl, called, func, exited>>

\* The same handle every time, or a null one.
Dlopen(t) ==
  /\ At(t, "dlopen")
  /\ \E h \in (IF linker = "fails" THEN {} ELSE {Handle})
                \cup (IF linker = "works" THEN {} ELSE {Null}) :
       libc_dl' = h /\ handle' = [handle EXCEPT ![t] = h]
  /\ Goto(t, "opened")
  /\ UNCHANGED <<linker, orig, called, func, exited>>

\* A mutant: nobody looks at what dlopen() returned.
Unchecked(h) == FALSE

\* if (!libc_dl), after dlopen()
NoLibc(h) == h = Null

Opened(t) ==
  /\ At(t, "opened")
  /\ \E h \in Seen(t) :
       \/ NoLibc(h) /\ exited' = {t} /\ UNCHANGED <<pc, handle>>
       \/ /\ ~NoLibc(h) /\ UNCHANGED exited
          /\ handle' = [handle EXCEPT ![t] = h]
          /\ Goto(t, "dlsym")
  /\ UNCHANGED <<linker, orig, libc_dl, called, func>>

\* A null handle means the whole process, where panwrap comes first.
Dlsym(h, fn) ==
  IF h = Null THEN Own(fn) ELSE IF fn \in Absent THEN NoFunction ELSE Libc(fn)

\* A mutant: func is static like libc_dl.
FuncShared(t, p) == func' = [u \in Threads |-> p]

\* func belongs to the call.
SetFunc(t, p) == func' = [func EXCEPT ![t] = p]

LookUp(t) ==
  /\ At(t, "dlsym")
  /\ \E h \in Seen(t) : SetFunc(t, Dlsym(h, called[t]))
  /\ Goto(t, "found")
  /\ UNCHANGED <<linker, orig, libc_dl, called, handle, exited>>

\* if (!func)
Found(t) ==
  /\ At(t, "found")
  /\ \/ func[t] = NoFunction /\ exited' = {t} /\ UNCHANGED pc
     \/ func[t] # NoFunction /\ Goto(t, "assign") /\ UNCHANGED exited
  /\ UNCHANGED <<linker, orig, libc_dl, locals>>

Assign(t) ==
  /\ At(t, "assign")
  /\ orig' = [orig EXCEPT ![called[t]] = func[t]]
  /\ Goto(t, "call")
  /\ UNCHANGED <<linker, libc_dl, locals, exited>>

\* The wrapper calls through its pointer; if that led to the wrapper itself,
\* it would start again.
CallThrough(t) ==
  /\ At(t, "call")
  /\ Goto(t, IF orig[called[t]] = Own(called[t]) THEN "check" ELSE "app")
  /\ handle' = [handle EXCEPT ![t] = Null]
  /\ func' = [func EXCEPT ![t] = NoFunction]
  /\ UNCHANGED <<linker, orig, libc_dl, called, exited>>

-----------------------------------------------------------------------------

Step(t) ==
  \/ Check(t) \/ Helper(t) \/ Dlopen(t) \/ Opened(t) \/ LookUp(t) \/ Found(t)
  \/ Assign(t) \/ CallThrough(t)

PrologNext == \E t \in Threads : Step(t) \/ \E fn \in Functions : Enter(t, fn)

PrologSpec == PrologInit /\ [][PrologNext]_prologVars

\* Threads keep running; no step waits for another thread.
FairPrologSpec == PrologSpec /\ \A t \in Threads : WF_prologVars(Step(t))

-----------------------------------------------------------------------------
(* Properties.                                                             *)

(***************************************************************************)
(* Every overridden function calls the function of libc it replaces, never *)
(* none, another, or itself, however the first calls of several threads    *)
(* interleave.                                                             *)
(***************************************************************************)
OwnFunction ==
  /\ \A fn \in Functions : orig[fn] \in {NoFunction, Libc(fn)}
  /\ \A t \in Threads : pc[t] = "call" => orig[called[t]] = Libc(called[t])

\* The process was ended by a thread whose function cannot be had: libc does
\* not open, or lacks it.
EndedForCause ==
  \E t \in exited : linker = "fails" \/ called[t] \in Absent

(***************************************************************************)
(* Every call reaches libc and returns, or the process ends because a      *)
(* function cannot be had: first calls do not wait for each other, do not  *)
(* start again for ever, and do not end the process for what another       *)
(* thread was doing.                                                       *)
(***************************************************************************)
CallsServed ==
  \A t \in Threads : pc[t] = "check" ~> pc[t] = "app" \/ EndedForCause

=============================================================================
