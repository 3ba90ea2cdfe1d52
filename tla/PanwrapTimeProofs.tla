------------------------- MODULE PanwrapTimeProofs -------------------------
(***************************************************************************)
(* Proofs about the timespec arithmetic and the timestamps, for seconds of *)
(* any length and runs of any length.                                      *)
(***************************************************************************)
EXTENDS PanwrapTime, TLAPS

\* A normalised timespec stands for a whole number of nanoseconds.
LEMMA ValueIsInt == ASSUME NEW a \in TimespecType PROVE Value(a) \in Int
BY NsAssumption DEF TimespecType, Value

\* Addition and subtraction are those of the nanoseconds a timespec stands
\* for, and their results are normalised.
LEMMA AddValue ==
  ASSUME NEW a \in TimespecType, NEW b \in TimespecType
  PROVE  /\ Add(a, b) \in TimespecType
         /\ Value(Add(a, b)) = Value(a) + Value(b)
<1>1. /\ NsPerSec \in Int /\ NsPerSec > 1
      /\ a.sec \in Int /\ b.sec \in Int
      /\ a.nsec \in 0..NsPerSec - 1 /\ b.nsec \in 0..NsPerSec - 1
  BY NsAssumption DEF TimespecType
<1>2. Add(a, b) \in TimespecType
  BY <1>1 DEF Add, TimespecType
<1>3. /\ (a.sec + b.sec) * NsPerSec = a.sec * NsPerSec + b.sec * NsPerSec
      /\ (a.sec + b.sec + 1) * NsPerSec
           = a.sec * NsPerSec + b.sec * NsPerSec + NsPerSec
  BY <1>1
<1>4. a.sec * NsPerSec \in Int /\ b.sec * NsPerSec \in Int
  BY <1>1
<1>5. Value(Add(a, b)) = Value(a) + Value(b)
  <2>1. CASE a.nsec + b.nsec >= NsPerSec
    <3>a. Add(a, b) = [sec |-> a.sec + b.sec + 1,
                       nsec |-> a.nsec + b.nsec - NsPerSec]
      BY <1>1, <2>1 DEF Add
    <3>1. Value(Add(a, b)) = (a.sec + b.sec + 1) * NsPerSec
                               + (a.nsec + b.nsec - NsPerSec)
      BY <3>a DEF Value
    <3> QED
      BY ONLY <1>1, <1>3, <1>4, <3>1 DEF Value
  <2>2. CASE ~(a.nsec + b.nsec >= NsPerSec)
    <3>1. Value(Add(a, b)) = (a.sec + b.sec) * NsPerSec + (a.nsec + b.nsec)
      BY <2>2 DEF Add, Value
    <3> QED
      BY ONLY <1>1, <1>3, <1>4, <3>1 DEF Value
  <2> QED
    BY <2>1, <2>2
<1> QED
  BY <1>2, <1>5

\* timespec_subtract() borrows correctly.
LEMMA SubtractValue ==
  ASSUME NEW a \in TimespecType, NEW b \in TimespecType
  PROVE  /\ Subtract(a, b) \in TimespecType
         /\ Value(Subtract(a, b)) = Value(a) - Value(b)
<1>1. /\ NsPerSec \in Int /\ NsPerSec > 1
      /\ a.sec \in Int /\ b.sec \in Int
      /\ a.nsec \in 0..NsPerSec - 1 /\ b.nsec \in 0..NsPerSec - 1
  BY NsAssumption DEF TimespecType
<1>2. Subtract(a, b) \in TimespecType
  BY <1>1 DEF Subtract, TimespecType
<1>3. /\ (a.sec - b.sec) * NsPerSec = a.sec * NsPerSec - b.sec * NsPerSec
      /\ (a.sec - b.sec - 1) * NsPerSec
           = a.sec * NsPerSec - b.sec * NsPerSec - NsPerSec
  BY <1>1
<1>4. a.sec * NsPerSec \in Int /\ b.sec * NsPerSec \in Int
  BY <1>1
<1>5. Value(Subtract(a, b)) = Value(a) - Value(b)
  <2>1. CASE a.nsec - b.nsec < 0
    <3>1. Value(Subtract(a, b)) = (a.sec - b.sec - 1) * NsPerSec
                                    + (NsPerSec + (a.nsec - b.nsec))
      BY <2>1 DEF Subtract, Value
    <3> QED
      BY ONLY <1>1, <1>3, <1>4, <3>1 DEF Value
  <2>2. CASE ~(a.nsec - b.nsec < 0)
    <3>1. Value(Subtract(a, b)) = (a.sec - b.sec) * NsPerSec
                                    + (a.nsec - b.nsec)
      BY <2>2 DEF Subtract, Value
    <3> QED
      BY ONLY <1>1, <1>3, <1>4, <3>1 DEF Value
  <2> QED
    BY <2>1, <2>2
<1> QED
  BY <1>2, <1>5

-----------------------------------------------------------------------------
(* Where time is frozen, and what was recorded when it was.                *)

FrozenInv ==
  /\ time_is_frozen <=> pc \in {"ioctl_pre", "ioctl_post", "map_track"}
  /\ time_is_frozen =>
       Value(frozen_timestamp) = Value(start_freeze_time) - Value(start_time)
                                   - Value(total_time_frozen)

TimeInv == TypeOK /\ FrozenInv /\ OverheadRemoved

\* The timespec the static variables start as.
LEMMA ZeroValue == Zero \in TimespecType /\ Value(Zero) = 0
BY NsAssumption DEF Zero, TimespecType, Value

\* The clock shown while time is not frozen.
LEMMA RunningTimestamp ==
  ASSUME TypeOK
  PROVE  LET shown == Subtract(Subtract(now, start_time), total_time_frozen)
         IN /\ shown \in TimespecType
            /\ Value(shown) = Value(now) - Value(start_time)
                                - Value(total_time_frozen)
<1> DEFINE d == Subtract(now, start_time)
<1>1. d \in TimespecType /\ Value(d) = Value(now) - Value(start_time)
  BY SubtractValue DEF TypeOK
<1> HIDE DEF d
<1>2. /\ Subtract(d, total_time_frozen) \in TimespecType
      /\ Value(Subtract(d, total_time_frozen))
           = Value(d) - Value(total_time_frozen)
  BY <1>1, SubtractValue DEF TypeOK
<1> QED
  BY <1>1, <1>2 DEF d

\* timestamp_get() returns a normalised timespec.
LEMMA TimestampType == TypeOK => timestamp \in TimespecType
BY RunningTimestamp DEF TypeOK, timestamp

\* The invariant holds when the library has been loaded.
LEMMA InitTimeInv == Init => TimeInv
<1> SUFFICES ASSUME Init PROVE TimeInv
  OBVIOUS
<1>1. TypeOK
  <2>1. now \in TimespecType /\ start_time \in TimespecType
    BY DEF Init, TimespecType
  <2>2. pc \in Pcs /\ spent \in [Parts -> Nat]
    BY DEF Init, Pcs
  <2> QED
    BY <2>1, <2>2, ZeroValue DEF Init, TypeOK
<1>2. FrozenInv
  BY DEF Init, FrozenInv
<1>3. Value(timestamp) = Value(now) - Value(start_time) - Value(Zero)
  BY <1>1, RunningTimestamp DEF Init, timestamp
<1>4. Value(timestamp) = 0
  BY <1>1, <1>3, ZeroValue, ValueIsInt DEF TypeOK, Init
<1>5. OverheadRemoved
  BY <1>4 DEF Init, OverheadRemoved, Parts
<1> QED
  BY <1>1, <1>2, <1>5 DEF TimeInv

\* What Freeze and Unfreeze do to the reading of the watch.
LEMMA FreezeStep ==
  ASSUME TypeOK, Freeze, ~time_is_frozen, UNCHANGED <<now, start_time>>
  PROVE  /\ time_is_frozen' = TRUE
         /\ start_freeze_time' \in TimespecType
         /\ total_time_frozen' \in TimespecType
         /\ frozen_timestamp' \in TimespecType
         /\ Value(frozen_timestamp')
              = Value(start_freeze_time') - Value(start_time')
                  - Value(total_time_frozen')
         /\ Value(timestamp') = Value(timestamp)
<1>1. frozen_timestamp' = timestamp
  BY DEF Freeze, timestamp
<1>2. timestamp' = frozen_timestamp'
  BY DEF Freeze, timestamp
<1>3. /\ frozen_timestamp' \in TimespecType
      /\ Value(frozen_timestamp')
           = Value(now) - Value(start_time) - Value(total_time_frozen)
  BY RunningTimestamp DEF Freeze
<1>4. Value(timestamp') = Value(timestamp)
  BY <1>1, <1>2
<1> QED
  BY <1>3, <1>4 DEF Freeze, TypeOK

\* Unfreezing moves the time since the freeze to the time frozen in total.
LEMMA UnfreezeStep ==
  ASSUME TypeOK, FrozenInv, time_is_frozen, Unfreeze,
         UNCHANGED <<now, start_time>>
  PROVE  /\ time_is_frozen' = FALSE
         /\ start_freeze_time' \in TimespecType
         /\ total_time_frozen' \in TimespecType
         /\ frozen_timestamp' \in TimespecType
         /\ Value(timestamp') = Value(timestamp)
<1>1. /\ time_is_frozen' = FALSE
      /\ total_time_frozen' =
           Add(total_time_frozen, Subtract(now, start_freeze_time))
      /\ UNCHANGED <<start_freeze_time, frozen_timestamp>>
  BY DEF Unfreeze
<1> DEFINE spell == Subtract(now, start_freeze_time)
<1>2. spell \in TimespecType /\ Value(spell) = Value(now) - Value(start_freeze_time)
  BY SubtractValue DEF TypeOK
<1> HIDE DEF spell
<1>3. /\ total_time_frozen' \in TimespecType
      /\ Value(total_time_frozen') = Value(total_time_frozen) + Value(spell)
  BY <1>1, <1>2, AddValue DEF TypeOK, spell
<1> DEFINE d == Subtract(now, start_time)
<1>4. d \in TimespecType /\ Value(d) = Value(now) - Value(start_time)
  BY SubtractValue DEF TypeOK
<1>5. timestamp' = Subtract(d, total_time_frozen')
  BY <1>1 DEF timestamp
<1> HIDE DEF d
<1>6. Value(timestamp') = Value(d) - Value(total_time_frozen')
  BY <1>3, <1>4, <1>5, SubtractValue
<1>7. Value(timestamp) = Value(start_freeze_time) - Value(start_time)
                           - Value(total_time_frozen)
  BY DEF FrozenInv, timestamp
<1>8. /\ Value(now) \in Int /\ Value(start_time) \in Int
      /\ Value(start_freeze_time) \in Int /\ Value(total_time_frozen) \in Int
  BY ValueIsInt DEF TypeOK
<1>9. Value(timestamp') = Value(timestamp)
  BY <1>2, <1>3, <1>4, <1>6, <1>7, <1>8
<1> QED
  BY <1>1, <1>3, <1>9 DEF TypeOK

\* A nanosecond passes on the watch exactly when time is not frozen.
LEMMA TickStep ==
  ASSUME TypeOK, Tick
  PROVE  /\ now' \in TimespecType
         /\ Value(timestamp')
              = Value(timestamp) + (IF time_is_frozen THEN 0 ELSE 1)
<1> DEFINE ns == [sec |-> 0, nsec |-> 1]
<1>1. ns \in TimespecType /\ Value(ns) = 1
  BY NsAssumption DEF TimespecType, Value
<1>2. now' = Add(now, ns)
  BY DEF Tick
<1> HIDE DEF ns
<1>3. now' \in TimespecType /\ Value(now') = Value(now) + 1
  BY <1>1, <1>2, AddValue DEF TypeOK
<1>4. UNCHANGED frozen /\ UNCHANGED start_time
  BY DEF Tick
<1>5. CASE time_is_frozen
  <2>1. timestamp' = timestamp
    BY <1>4, <1>5 DEF timestamp, frozen
  <2>2. Value(timestamp) \in Int
    BY TimestampType, ValueIsInt
  <2> QED
    BY <1>3, <1>5, <2>1, <2>2
<1>6. CASE ~time_is_frozen
  <2> DEFINE d == Subtract(now', start_time)
  <2>1. d \in TimespecType /\ Value(d) = Value(now') - Value(start_time)
    <3>1. start_time \in TimespecType
      BY DEF TypeOK
    <3> QED
      BY <1>3, <3>1, SubtractValue
  <2>2. timestamp' = Subtract(d, total_time_frozen)
    BY <1>4, <1>6 DEF timestamp, frozen
  <2> HIDE DEF d
  <2>3. Value(timestamp') = Value(d) - Value(total_time_frozen)
    BY <2>1, <2>2, SubtractValue DEF TypeOK
  <2>4. Value(timestamp) = Value(now) - Value(start_time)
                             - Value(total_time_frozen)
    BY <1>6, RunningTimestamp DEF timestamp
  <2>5. /\ Value(now) \in Int /\ Value(start_time) \in Int
        /\ Value(total_time_frozen) \in Int
    BY ValueIsInt DEF TypeOK
  <2> QED
    BY <1>3, <1>6, <2>1, <2>3, <2>4, <2>5, ValueIsInt
<1> QED
  BY <1>5, <1>6

-----------------------------------------------------------------------------

\* Every step keeps the invariant.
LEMMA NextTimeInv == TimeInv /\ [Next]_vars => TimeInv'
<1> SUFFICES ASSUME TimeInv, [Next]_vars PROVE TimeInv'
  OBVIOUS
<1> USE DEF TimeInv
<1> DEFINE total == spent["outside"] + spent["open_close"]
<1>1. CASE Tick
  <2>1. spent' = [spent EXCEPT ![Part(pc)] = @ + 1]
    BY <1>1 DEF Tick
  <2>2. Part(pc) \in Parts
    BY DEF Part, Parts
  <2>3. Part(pc) = "decoding" <=> time_is_frozen
    BY DEF Part, FrozenInv, InPanwrap, TypeOK, Pcs
  <2>4. spent' \in [Parts -> Nat]
    BY <2>1, <2>2 DEF TypeOK
  <2>5. total' = total + (IF time_is_frozen THEN 0 ELSE 1)
    BY <2>1, <2>2, <2>3 DEF TypeOK, Parts
  <2>6. now' \in TimespecType
    BY <1>1, TickStep
  <2>7. TypeOK'
    BY <1>1, <2>4, <2>6 DEF TypeOK, Tick, frozen
  <2>8. FrozenInv'
    BY <1>1 DEF FrozenInv, Tick, frozen, Value
  <2>9. OverheadRemoved'
    BY <1>1, <2>5, TickStep DEF OverheadRemoved
  <2> QED
    BY <2>7, <2>8, <2>9
<1>2. CASE Section
  <2>1. UNCHANGED <<now, start_time, stamp, spent>>
    BY <1>2 DEF Section
  <2>2. CASE IoctlStart \/ IoctlReturned \/ MapReturned
    <3>1. Freeze /\ ~time_is_frozen
      BY <2>2 DEF FrozenInv, IoctlStart, IoctlReturned, MapReturned
    <3>2. pc' \in Pcs /\ pc' \in {"ioctl_pre", "ioctl_post", "map_track"}
      BY <2>2 DEF IoctlStart, IoctlReturned, MapReturned, Pcs
    <3> QED
      BY <2>1, <3>1, <3>2, FreezeStep DEF TypeOK, FrozenInv, OverheadRemoved
  <2>3. CASE IoctlCall \/ IoctlEnd \/ MapEnd
    <3>1. Unfreeze /\ time_is_frozen
      BY <2>3 DEF FrozenInv, IoctlCall, IoctlEnd, MapEnd
    <3>2. pc' \in Pcs /\ pc' \notin {"ioctl_pre", "ioctl_post", "map_track"}
      BY <2>3 DEF IoctlCall, IoctlEnd, MapEnd, Pcs
    <3> QED
      BY <2>1, <3>1, <3>2, UnfreezeStep DEF TypeOK, FrozenInv, OverheadRemoved
  <2>4. CASE MapStart \/ OpenStart \/ OpenEnd
    <3>1. UNCHANGED frozen
      BY <2>4 DEF MapStart, OpenStart, OpenEnd
    <3>2. /\ pc' \in Pcs /\ pc' \notin {"ioctl_pre", "ioctl_post", "map_track"}
          /\ ~time_is_frozen
      BY <2>4 DEF MapStart, OpenStart, OpenEnd, Pcs, FrozenInv
    <3>3. timestamp' = timestamp
      BY <2>1, <3>1 DEF timestamp, frozen
    <3> QED
      BY <2>1, <3>1, <3>2, <3>3
         DEF TypeOK, FrozenInv, OverheadRemoved, frozen
  <2> QED
    BY <1>2, <2>2, <2>3, <2>4 DEF Section
<1>3. CASE Log
  <2>1. timestamp' = timestamp
    BY <1>3 DEF Log, timestamp, frozen
  <2>2. TypeOK'
    BY <1>3, TimestampType DEF Log, TypeOK, frozen
  <2>3. FrozenInv'
    BY <1>3 DEF Log, FrozenInv, frozen, Value
  <2> QED
    BY <1>3, <2>1, <2>2, <2>3 DEF Log, OverheadRemoved
<1>4. CASE UNCHANGED vars
  <2>1. timestamp' = timestamp
    BY <1>4 DEF vars, timestamp, frozen
  <2> QED
    BY <1>4, <2>1 DEF vars, frozen, TypeOK, FrozenInv, OverheadRemoved, Value
<1> QED
  BY <1>1, <1>2, <1>3, <1>4 DEF Next

\* Every timespec kept or shown is normalised: no carry or borrow is lost.
THEOREM TimesNormalised == Spec => []TypeOK
<1>1. TimeInv => TypeOK
  BY DEF TimeInv
<1> QED
  BY <1>1, InitTimeInv, NextTimeInv, PTL DEF Spec

\* The timestamps leave out exactly the time spent decoding.
THEOREM DecodingNotCounted == Spec => []OverheadRemoved
<1>1. TimeInv => OverheadRemoved
  BY DEF TimeInv
<1> QED
  BY <1>1, InitTimeInv, NextTimeInv, PTL DEF Spec

\* Every step is one of the stopwatch, or leaves it alone.
LEMMA WatchStep ==
  TimeInv /\ [Next]_vars =>
    [Watch!Pass \/ Watch!Stop \/ Watch!Start \/ Watch!Show]_(Watch!watch)
<1> SUFFICES ASSUME TimeInv, [Next]_vars
             PROVE  [Watch!Pass \/ Watch!Stop \/ Watch!Start \/ Watch!Show]_
                      (Watch!watch)
  OBVIOUS
<1> USE DEF TimeInv
<1>1. CASE Tick
  <2>1. UNCHANGED <<time_is_frozen, stamp>>
    BY <1>1 DEF Tick, frozen
  <2>2. Value(timestamp) \in Int /\ Value(stamp') = Value(stamp)
    BY <2>1, TimestampType, ValueIsInt
  <2>3. CASE time_is_frozen
    BY <1>1, <2>1, <2>2, <2>3, TickStep DEF Watch!watch
  <2>4. CASE ~time_is_frozen
    <3>1. Value(timestamp') = Value(timestamp) + 1
      BY <1>1, <2>4, TickStep
    <3>2. Watch!Pass
      BY <2>1, <2>2, <2>4, <3>1 DEF Watch!Pass
    <3> QED
      BY <3>2
  <2> QED
    BY <2>3, <2>4
<1>2. CASE Section
  <2>1. UNCHANGED <<now, start_time, stamp>> /\ Value(stamp') = Value(stamp)
    BY <1>2 DEF Section
  <2>2. CASE IoctlStart \/ IoctlReturned \/ MapReturned
    <3>1. Freeze /\ ~time_is_frozen
      BY <2>2 DEF FrozenInv, IoctlStart, IoctlReturned, MapReturned
    <3>2. Watch!Stop
      BY <2>1, <3>1, FreezeStep DEF Watch!Stop
    <3> QED
      BY <3>2
  <2>3. CASE IoctlCall \/ IoctlEnd \/ MapEnd
    <3>1. Unfreeze /\ time_is_frozen
      BY <2>3 DEF FrozenInv, IoctlCall, IoctlEnd, MapEnd
    <3>2. Watch!Start
      BY <2>1, <3>1, UnfreezeStep DEF Watch!Start
    <3> QED
      BY <3>2
  <2>4. CASE MapStart \/ OpenStart \/ OpenEnd
    <3>1. UNCHANGED frozen
      BY <2>4 DEF MapStart, OpenStart, OpenEnd
    <3>2. timestamp' = timestamp
      BY <2>1, <3>1 DEF timestamp, frozen
    <3> QED
      BY <2>1, <3>1, <3>2 DEF Watch!watch, frozen
  <2> QED
    BY <1>2, <2>2, <2>3, <2>4 DEF Section
<1>3. CASE Log
  <2>1. timestamp' = timestamp
    BY <1>3 DEF Log, timestamp, frozen
  <2> QED
    BY <1>3, <2>1 DEF Log, frozen, Watch!Show
<1>4. CASE UNCHANGED vars
  <2>1. timestamp' = timestamp /\ UNCHANGED <<stamp, time_is_frozen>>
    BY <1>4 DEF vars, timestamp, frozen
  <2> QED
    BY <2>1 DEF Watch!watch
<1> QED
  BY <1>1, <1>2, <1>3, <1>4 DEF Next

\* The clock of the log is the stopwatch the comments promise.
THEOREM LogClockIsStopwatch == Spec => WatchSpec
<1>1. Init => Watch!WatchInit
  <2> SUFFICES ASSUME Init PROVE Watch!WatchInit
    OBVIOUS
  <2>1. Value(timestamp) = 0
    BY InitTimeInv DEF TimeInv, OverheadRemoved, Init, Parts
  <2> QED
    BY <2>1, ZeroValue DEF Init, Watch!WatchInit
<1> QED
  BY <1>1, InitTimeInv, NextTimeInv, WatchStep, PTL
     DEF Spec, WatchSpec, Watch!WatchSpec

=============================================================================
