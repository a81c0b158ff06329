------------------------------- MODULE LogSink -------------------------------
(***************************************************************************)
(* What a log daemon promises: a record it has taken is first in memory and *)
(* then either on a storage or given up, once and for ever.                 *)
(***************************************************************************)
EXTENDS Naturals

CONSTANT Records

VARIABLES ram,   \* records taken and not written yet
          disk,  \* records on some storage, backups included
          gone   \* records given up

vars == <<ram, disk, gone>>

Init == ram = {} /\ disk = {} /\ gone = {}

(* Takes the records A; of those in memory, S are stored and D given up. *)
Step(A, S, D) ==
  /\ A \cap (ram \cup disk \cup gone) = {}
  /\ S \cup D \subseteq ram \cup A
  /\ S \cap D = {}
  /\ ram' = (ram \cup A) \ (S \cup D)
  /\ disk' = disk \cup S
  /\ gone' = gone \cup D

Next == \E A \in SUBSET Records : \E S, D \in SUBSET (ram \cup A) : Step(A, S, D)

Spec == Init /\ [][Next]_vars
=============================================================================
