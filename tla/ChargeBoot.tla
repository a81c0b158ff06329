----------------------------- MODULE ChargeBoot -----------------------------
(***************************************************************************)
(* charge_only_mode and mot_boot_mode over several boots: the mark in      *)
(* /data/chargeonlymode carries over resets, crashes and power cuts.       *)
(***************************************************************************)
EXTENDS ChargeOnly, BootMode

VARIABLES
  phone,     \* "off" or the mode the phone is in
  reset,     \* the last mode ended in a panic or a watchdog reset
  previous,  \* the mode before the last boot
  written,   \* history: the mark of this session has reached the flash
  dirty      \* history: a session has ended without clear_mode() since the last
             \* one that ended with it

bootvars == <<phone, reset, previous, written, dirty>>
allvars == <<vars, bootvars>>

BInit ==
  /\ Init
  /\ phone = "off" /\ reset = FALSE /\ previous = "normal"
  /\ written = FALSE /\ dirty = FALSE

\* charge_only_mode runs.
Session ==
  /\ phone = "com" /\ Next
  /\ written' = (com.phase # "down" /\ (written \/ com'.flash = "charging"))
  /\ UNCHANGED <<phone, reset, previous, dirty>>

\* It has left charge-only mode by itself.
SessionEnds ==
  /\ phone = "com" /\ com.phase \in {"off", "outofcharge"}
  /\ phone' = "off" /\ reset' = FALSE /\ previous' = "com" /\ dirty' = FALSE
  /\ UNCHANGED <<vars, written>>

\* The phone goes down under a running mode: a reset (panic) or the battery is
\* taken out.  What was not on the flash yet may be lost.
GoesDown(panic) ==
  /\ phone # "off" /\ com.phase \notin {"off", "outofcharge"}
  /\ phone' = "off" /\ reset' = panic /\ previous' = phone
  /\ \E m \in {com.file, com.flash} : com' = [Down EXCEPT !.file = m, !.flash = m]
  /\ dirty' = (dirty \/ phone = "com")
  /\ UNCHANGED <<counter, launched, keys, held, lastPower, uevent, supply, voltage, written>>

\* The user switches a phone in normal mode off.
SwitchedOff ==
  /\ phone \in {"normal", "recovery"}
  /\ phone' = "off" /\ reset' = FALSE /\ previous' = phone
  /\ com' = [com EXCEPT !.flash = com.file]
  /\ UNCHANGED <<counter, launched, keys, held, lastPower, uevent, supply, voltage, written, dirty>>

\* What the boot loader reports after the last mode ended as it did.
Reports(b) ==
  /\ check_abnormal_reboot(b) <=> reset
  /\ charge_only_reason(b) => ~reset

\* The boot loader starts the phone and mot_boot_mode chooses its mode.
Boot ==
  /\ phone = "off"
  /\ supply' \in Supply
  /\ \E b \in BootInfo :
       /\ Reports(b) /\ (charge_only_reason(b) => supply' # "none")
       /\ phone' = boot_mode(b, com.file)
  /\ com' = [Down EXCEPT !.file = com.file, !.flash = com.flash]
  /\ written' = FALSE
  /\ UNCHANGED <<reset, previous, dirty, counter, launched, keys, held,
                 lastPower, uevent, voltage>>

BNext ==
  \/ Session \/ SessionEnds \/ SwitchedOff \/ Boot
  \/ \E panic \in BOOLEAN : GoesDown(panic)

BSpec == BInit /\ [][BNext]_allvars

\* "used to handle kpanic and wdreset case in COM": a reset of charge-only mode
\* after its mark has reached the flash leads back to charge-only mode, unless
\* the boot loader asks for recovery.
ResetReturnsToCom ==
  [][phone = "off" /\ phone' # "off" /\ reset /\ previous = "com" /\ written
       => phone' \in {"com", "recovery"}]_allvars

\* A reset never leads into charge-only mode when every session before it was
\* left through clear_mode().
NoResetIntoCom ==
  [][phone = "off" /\ phone' = "com" /\ reset => dirty]_allvars
=============================================================================
