------------------------------ MODULE LogFlags ------------------------------
(***************************************************************************)
(* panwrap_log_decoded_flags() of panwrap/panwrap-util.c: a word of flags  *)
(* is shown as its value, the names of a table of flags that are set in    *)
(* it, and what is left.  A word is the set of its bits, and so is a flag  *)
(* of a table, which may have several bits or none.  One step is one       *)
(* iteration of the loop.                                                  *)
(***************************************************************************)
EXTENDS Integers, Sequences, FiniteSets

CONSTANTS
  Bits,     \* the bits of a word
  Tables,   \* the tables of flags, without the empty entry that ends them
  Words     \* the words to show

Entry == [name: STRING, flag: SUBSET Bits]

ASSUME TableAssumption == Tables \subseteq Seq(Entry)
ASSUME WordAssumption == Words \subseteq SUBSET Bits

VARIABLES
  flag_info, i, flags,      \* the arguments and the loop variable
  decodable_flags_found,
  shown,                    \* the indices of the names shown
  rest,                     \* the value shown after them, {} when none is
  done,
  word                      \* history: the word as it was passed

vars == <<flag_info, i, flags, decodable_flags_found, shown, rest, done, word>>

TypeOK ==
  /\ flag_info \in Tables
  /\ i \in 1..Len(flag_info) + 1
  /\ flags \in SUBSET Bits /\ word \in SUBSET Bits /\ rest \in SUBSET Bits
  /\ decodable_flags_found \in BOOLEAN /\ done \in BOOLEAN
  /\ shown \subseteq 1..i - 1

Init ==
  /\ flag_info \in Tables /\ word \in Words
  /\ flags = word /\ i = 1
  /\ decodable_flags_found = FALSE
  /\ shown = {} /\ rest = {} /\ done = FALSE

Flag(k) == flag_info[k].flag

\* (flags & flag_info[i].flag) == flag_info[i].flag
IsSet(k) == Flag(k) \subseteq flags

NextEntry == i + 1

Skip ==
  /\ i <= Len(flag_info) /\ ~IsSet(i)
  /\ i' = NextEntry
  /\ UNCHANGED <<flag_info, flags, decodable_flags_found, shown, rest, done,
                 word>>

\* A mutant: the bits of a flag stay in the word.
Keep(k) == flags

\* flags &= ~flag_info[i].flag
Clear(k) == flags \ Flag(k)

Show ==
  /\ i <= Len(flag_info) /\ IsSet(i)
  /\ decodable_flags_found' = TRUE
  /\ shown' = shown \cup {i}
  /\ flags' = Clear(i)
  /\ i' = NextEntry
  /\ UNCHANGED <<flag_info, rest, done, word>>

\* A mutant: what is left is not shown.
ShowNoRest == {}

\* The value after the names; without names there is nothing in parentheses.
ShowRest == IF decodable_flags_found THEN flags ELSE {}

Finish ==
  /\ i > Len(flag_info) /\ ~done
  /\ rest' = ShowRest
  /\ done' = TRUE
  /\ UNCHANGED <<flag_info, i, flags, decodable_flags_found, shown, word>>

Next == Skip \/ Show \/ Finish

Spec == Init /\ [][Next]_vars

-----------------------------------------------------------------------------
(* Properties.                                                             *)

Named == UNION {Flag(k) : k \in shown}

(***************************************************************************)
(* Every bit of the word is accounted for once: the flags shown so far and *)
(* what is left make up the word, and no bit is in two of them.            *)
(***************************************************************************)
BitsOnce ==
  /\ Named \cup flags = word
  /\ Named \cap flags = {}
  /\ \A j, k \in shown : j # k => Flag(j) \cap Flag(k) = {}

(***************************************************************************)
(* What has been written names the whole word: the names and the value     *)
(* after them, or the value alone when no flag of the table is set.  In    *)
(* that value there is no flag the table could have named.                 *)
(***************************************************************************)
Complete ==
  done => /\ shown # {} => Named \cup rest = word
          /\ \A k \in 1..Len(flag_info) :
               Flag(k) \subseteq flags => Flag(k) = {}

(***************************************************************************)
(* Only flags that are set are named.                                      *)
(***************************************************************************)
OnlySetNamed == \A k \in shown : Flag(k) \cap word # {}

=============================================================================
