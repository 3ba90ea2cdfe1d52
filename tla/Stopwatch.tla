----------------------------- MODULE Stopwatch -----------------------------
(***************************************************************************)
(* What the timestamps of panwrap promise: "any time that passes while     *)
(* frozen is removed from timestamps".  A watch that runs or stands still, *)
(* and the reading shown last.                                             *)
(***************************************************************************)
EXTENDS Naturals

VARIABLES elapsed, running, shown

watch == <<elapsed, running, shown>>

WatchInit == elapsed = 0 /\ running = TRUE /\ shown = 0

Pass == running /\ elapsed' = elapsed + 1 /\ UNCHANGED <<running, shown>>

Stop == running' = FALSE /\ UNCHANGED <<elapsed, shown>>

Start == running' = TRUE /\ UNCHANGED <<elapsed, shown>>

Show == shown' = elapsed /\ UNCHANGED <<elapsed, running>>

WatchSpec == WatchInit /\ [][Pass \/ Stop \/ Start \/ Show]_watch

=============================================================================
