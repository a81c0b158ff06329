------------------------------- MODULE MCUsbd -------------------------------
(***************************************************************************)
(* The daemon of a phone started in normal mode, with the constants of the  *)
(* configuration, and of one started as a tablet, with those given here.    *)
(* Both share the variables; usbd_mode tells them apart.                    *)
(***************************************************************************)
EXTENDS Usbd

Quiet == [pc |-> "none", adb |-> -1, tether |-> -1, enum |-> "none"]

MCAdbProperty == {-1, 0, 1}

\* Driver messages for a phone in normal mode: enumeration.
DevMsgNormal ==
  {[Quiet EXCEPT !.enum = "get_desc"], [Quiet EXCEPT !.enum = "enumerated"]}

\* Driver messages for the alternate modes, with the end of the enumeration, a
\* switch the daemon makes by itself and one it makes from a CDROM mode only.
DevMsgAlt ==
  {[Quiet EXCEPT !.enum = "enumerated"], [Quiet EXCEPT !.pc = "CDROM2"]} \cup
  {[Quiet EXCEPT !.adb = a] : a \in {0, 1}} \cup
  {[Quiet EXCEPT !.tether = t] : t \in {0, 1}} \cup
  {[Quiet EXCEPT !.pc = "NGP"]}

Tablet == INSTANCE Usbd WITH
  HasBlockDevice <- FALSE, StartupMode <- {"TABLET"},
  AdbProperty <- {0, 1}, DevMsg <- DevMsgAlt, AppReq <- {"MIN"}, MaxPending <- 2

MCInit == Init \/ Tablet!Init
MCNext == \/ usbd_mode = "NORMAL" /\ Next
          \/ usbd_mode = "TABLET" /\ Tablet!Next
MCSpec == MCInit /\ [][MCNext]_vars
=============================================================================
