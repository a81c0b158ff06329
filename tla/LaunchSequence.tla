--------------------------- MODULE LaunchSequence ---------------------------
(***************************************************************************)
(* charge_only_mode/main.c: the key sequence in front of the memory test.  *)
(*                                                                         *)
(* The static counter of launch_sequence() is never reset once the         *)
(* sequence is complete, so the next key is compared with sequence[9], one *)
(* past the array: the comparison may then go either way.  Beyond stands   *)
(* for every counter above nine.                                           *)
(***************************************************************************)
EXTENDS Integers, Sequences

sequence == <<"up", "up", "down", "down", "up", "up", "down", "down", "power">>
Complete == Len(sequence)
Beyond == Complete + 1

\* The values the counter can have after one of the three keys.
counter_after(counter, key) ==
  IF counter < Complete
  THEN {IF sequence[counter + 1] = key THEN counter + 1 ELSE 0}
  ELSE {0, Beyond}

\* launch_sequence(): the new counter and whether it answers 1.
launch_sequence(counter, key) ==
  IF key \in {"up", "down", "power"}
  THEN {[counter |-> c, launched |-> c = Complete] : c \in counter_after(counter, key)}
  ELSE {[counter |-> counter, launched |-> FALSE]}
=============================================================================
