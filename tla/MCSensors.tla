----------------------------- MODULE MCSensors -----------------------------
(***************************************************************************)
(* The circular reader with its array, and the sensors library over readers *)
(* that are the queues it promises. The half is chosen once.                *)
(***************************************************************************)
EXTENDS InputEventReader, Sensors

VARIABLE half

\* Two sensors at a time: of one chip, of two, of one input device.
MCMixes == {{"A", "O"}, {"A", "P"}, {"M", "O"}, {"P", "L"}}

MCInit == half \in {"reader", "library"} /\ ReaderInit /\ Init
            /\ (half = "reader" => used = {"A", "O"} /\ ~kxtf9.chip)
            /\ (half = "library" => mBuffer = [o \in Offsets |-> CHOOSE e \in Event : TRUE])
MCNext ==
  /\ UNCHANGED half
  /\ \/ half = "reader" /\ ReaderNext /\ UNCHANGED vars
     \/ half = "library" /\ Next /\ UNCHANGED readerVars

\* Fairness for the thread that calls poll(), as in FairSpec.
MCSpec == /\ MCInit /\ [][MCNext]_<<half, vars, readerVars>>
          /\ WF_vars(half = "library" /\ pollEvents)
=============================================================================
