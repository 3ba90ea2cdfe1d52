---------------------------- MODULE PanwrapTime ----------------------------
(***************************************************************************)
(* The timestamps of panwrap/panwrap-util.c and the places where           *)
(* panwrap-syscall.c freezes and unfreezes time, when                      *)
(* PANWRAP_ENABLE_TIMESTAMPS is set.  Everything here is done by the       *)
(* thread that holds the mutex, so one program counter is enough; the      *)
(* other threads only let time pass.                                       *)
(***************************************************************************)
EXTENDS Timespec

CONSTANT MaxTime   \* bound: nanoseconds the model runs for

VARIABLES
  now,                \* CLOCK_MONOTONIC
  start_time,         \* when the library was loaded
  time_is_frozen, start_freeze_time, total_time_frozen, frozen_timestamp,
  pc,                 \* where the holder of the mutex is, "idle" without one
  stamp,              \* the timestamp of the last line logged
  spent               \* history: nanoseconds passed in each part

frozen == <<time_is_frozen, start_freeze_time, total_time_frozen,
            frozen_timestamp>>
vars == <<now, start_time, frozen, pc, stamp, spent>>

\* The kernel runs in "ioctl_sys" and "map_sys", panwrap in the other places.
Pcs == {"idle", "ioctl_pre", "ioctl_sys", "ioctl_post", "map_sys",
        "map_track", "open_body"}

InPanwrap == {"ioctl_pre", "ioctl_post", "map_track", "open_body"}

\* The part of the program a nanosecond at a place is charged to.
Parts == {"outside", "open_close", "decoding"}

Part(place) ==
  CASE place \notin InPanwrap -> "outside"
    [] place = "open_body" -> "open_close"
    [] OTHER -> "decoding"

TypeOK ==
  /\ now \in TimespecType /\ start_time \in TimespecType
  /\ time_is_frozen \in BOOLEAN
  /\ start_freeze_time \in TimespecType
  /\ total_time_frozen \in TimespecType
  /\ frozen_timestamp \in TimespecType
  /\ pc \in Pcs
  /\ stamp \in TimespecType
  /\ spent \in [Parts -> Nat]

Init ==
  /\ now \in [sec: {0}, nsec: 0..NsPerSec - 1]
  /\ start_time = now
  /\ time_is_frozen = FALSE
  /\ start_freeze_time = Zero /\ total_time_frozen = Zero
  /\ frozen_timestamp = Zero
  /\ pc = "idle" /\ stamp = Zero
  /\ spent = [part \in Parts |-> 0]

\* A nanosecond passes.
Tick ==
  /\ Value(now) < MaxTime
  /\ now' = Add(now, [sec |-> 0, nsec |-> 1])
  /\ spent' = [spent EXCEPT ![Part(pc)] = @ + 1]
  /\ UNCHANGED <<start_time, frozen, pc, stamp>>

-----------------------------------------------------------------------------
(* panwrap_freeze_time(), panwrap_unfreeze_time(), timestamp_get()         *)

\* A mutant: the timestamp shown while frozen keeps the earlier freezes.
FreezeKeepsOverhead ==
  /\ start_freeze_time' = now
  /\ time_is_frozen' = TRUE
  /\ frozen_timestamp' = Subtract(now, start_time)
  /\ UNCHANGED total_time_frozen

Freeze ==
  /\ start_freeze_time' = now
  /\ time_is_frozen' = TRUE
  /\ frozen_timestamp' = Subtract(Subtract(now, start_time), total_time_frozen)
  /\ UNCHANGED total_time_frozen

\* A mutant: the time spent frozen is counted from the start of the program.
UnfreezeSinceStart ==
  /\ time_is_frozen' = FALSE
  /\ total_time_frozen' = Add(total_time_frozen, Subtract(now, start_time))
  /\ UNCHANGED <<start_freeze_time, frozen_timestamp>>

\* It does nothing when time is not frozen.
Unfreeze ==
  \/ /\ time_is_frozen
     /\ time_is_frozen' = FALSE
     /\ total_time_frozen' =
          Add(total_time_frozen, Subtract(now, start_freeze_time))
     /\ UNCHANGED <<start_freeze_time, frozen_timestamp>>
  \/ ~time_is_frozen /\ UNCHANGED frozen

timestamp ==
  IF time_is_frozen THEN frozen_timestamp
  ELSE Subtract(Subtract(now, start_time), total_time_frozen)

-----------------------------------------------------------------------------
(* The locked sections of the overridden functions.                        *)

IoctlStart == pc = "idle" /\ Freeze /\ pc' = "ioctl_pre"
IoctlCall == pc = "ioctl_pre" /\ Unfreeze /\ pc' = "ioctl_sys"
IoctlReturned == pc = "ioctl_sys" /\ Freeze /\ pc' = "ioctl_post"
IoctlEnd == pc = "ioctl_post" /\ Unfreeze /\ pc' = "idle"

\* mmap() and munmap(): time is frozen after the kernel call only.
MapStart == pc = "idle" /\ pc' = "map_sys" /\ UNCHANGED frozen
MapReturned == pc = "map_sys" /\ Freeze /\ pc' = "map_track"
MapEnd == pc = "map_track" /\ Unfreeze /\ pc' = "idle"

\* The locked sections of open() and close() do not freeze time.
OpenStart == pc = "idle" /\ pc' = "open_body" /\ UNCHANGED frozen
OpenEnd == pc = "open_body" /\ pc' = "idle" /\ UNCHANGED frozen

Section ==
  /\ \/ IoctlStart \/ IoctlCall \/ IoctlReturned \/ IoctlEnd
     \/ MapStart \/ MapReturned \/ MapEnd
     \/ OpenStart \/ OpenEnd
  /\ UNCHANGED <<now, start_time, stamp, spent>>

\* panwrap_log(): only panwrap's own code logs.
Log ==
  /\ pc \in InPanwrap
  /\ stamp' = timestamp
  /\ UNCHANGED <<now, start_time, frozen, pc, spent>>

Next == Tick \/ Section \/ Log

Spec == Init /\ [][Next]_vars

-----------------------------------------------------------------------------

(***************************************************************************)
(* "Any time that passes while frozen is removed from timestamps"          *)
(* (panwrap-util.c:219): the clock shown in the log is a stopwatch that    *)
(* stands still while time is frozen and goes on from there, whatever the  *)
(* carries and borrows of the timespecs.                                   *)
(***************************************************************************)
Watch == INSTANCE Stopwatch WITH
  elapsed <- Value(timestamp), running <- ~time_is_frozen,
  shown <- Value(stamp)

WatchSpec == Watch!WatchSpec

(***************************************************************************)
(* The timestamps count the time spent outside panwrap, in the kernel and  *)
(* in the sections of open() and close() that do not freeze time, and      *)
(* nothing else: every path of ioctl(), mmap() and munmap() unfreezes what *)
(* it froze.                                                               *)
(***************************************************************************)
OverheadRemoved ==
  Value(timestamp) = spent["outside"] + spent["open_close"]

(***************************************************************************)
(* "Our timestamps never reflect the amount of time an application spent   *)
(* in panwrap's code" (panwrap-util.c:216).                                *)
(***************************************************************************)
OverheadHidden == Value(timestamp) = spent["outside"]

=============================================================================
