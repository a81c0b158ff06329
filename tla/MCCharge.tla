------------------------------ MODULE MCCharge ------------------------------
(***************************************************************************)
(* One session of charge_only_mode with all that may happen to it, and what *)
(* carries over boots: the mode that mot_boot_mode chooses, by way of       *)
(* shorter sessions, and the panics that modemlog reports. The question is  *)
(* chosen once.                                                             *)
(***************************************************************************)
EXTENDS ChargeOnly, ModemLog

VARIABLES question,
          phone, reset, previous, written, dirty   \* of ChargeBoot

\* The power key is on a device of its own, behind the other keys.
MCPowerLast == <<{"up", "other"}, {"power", "release"}>>

\* Every change of supply goes through none.
MCReplug == {<<"ac", "none">>, <<"usb", "none">>, <<"none", "ac">>, <<"none", "usb">>}

Boots == INSTANCE ChargeBoot WITH
  KeyDevice <- <<{"power", "release"}>>, SupplySteps <- {<<"ac", "none">>, <<"usb", "none">>},
  OtherUevents <- FALSE, VoltageChanges <- FALSE, RebootMayFail <- FALSE

bootvars == <<phone, reset, previous, written, dirty>>
allvars == <<question, vars, bootvars, panicvars>>

MCInit ==
  /\ question \in {"session", "boots", "panics"}
  /\ IF question = "boots" THEN Boots!BInit
     ELSE Init /\ phone = "com" /\ reset = FALSE /\ previous = "normal" /\ written = FALSE /\ dirty = FALSE
  /\ PanicInit
  /\ IF question = "panics" THEN supply = "usb" /\ voltage ELSE enabled = {"wdt"}

MCNext ==
  /\ UNCHANGED question
  /\ \/ question = "session" /\ Next /\ UNCHANGED <<bootvars, panicvars>>
     \/ question = "boots" /\ Boots!BNext /\ UNCHANGED panicvars
     \/ question = "panics" /\ PanicNext /\ UNCHANGED <<vars, bootvars>>

\* The process is scheduled and time passes.
MCSpec ==
  /\ MCInit /\ [][MCNext]_allvars
  /\ WF_vars(question = "session" /\ Process) /\ WF_vars(question = "session" /\ Tick)
-----------------------------------------------------------------------------
(* The properties that are not those of the modules as they stand. *)

\* After a reset mot_boot_mode returns to charge-only mode.
ResetReturnsToCom == Boots!ResetReturnsToCom

\* A reset leads into charge-only mode only after a session that was cut off.
NoResetIntoCom == Boots!NoResetIntoCom

\* The uevent of an unplugged charger is acted on, where the process is scheduled.
SessionNoticesUnplug == question = "session" => UnplugNoticed

\* A lit display goes dark once the keys are left alone, where time passes.
SessionGoesDark == question = "session" => DisplayGoesDark
=============================================================================
