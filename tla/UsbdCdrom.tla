------------------------------ MODULE UsbdCdrom ------------------------------
(***************************************************************************)
(* usbd/usb_app.c: exporting the driver CD image through a loop device.    *)
(*                                                                         *)
(* cd = [mounted, cur, bound, leak]: the static cdrom_mounted, the device  *)
(* curr_loop_dev names (0: none), the loop devices bound to the image, and *)
(* the one the start-up version query could not release.  Every operator   *)
(* gives the set of outcomes; each system call on the way may fail.  What  *)
(* is written to the LUN's file is left out.                               *)
(***************************************************************************)
EXTENDS Integers, FiniteSets

CONSTANTS HasBlockDevice,  \* access(CDROM_BLOCK_DEVICE) == 0
          LOOP_MAX         \* bound: loop devices

ASSUME LoopAssumption == HasBlockDevice \in BOOLEAN /\ LOOP_MAX \in Nat

LoopDev == 1 .. LOOP_MAX

\* loop_create(): the first free device is named before it is bound.
loop_create(cd) ==
  LET free == LoopDev \ cd.bound
      d    == CHOOSE x \in free : \A y \in free : x <= y
  IN  IF free = {} THEN [ok |-> {}, fail |-> {cd}]
      ELSE [ok   |-> {[cd EXCEPT !.cur = d, !.bound = @ \cup {d}]},
            fail |-> {cd, [cd EXCEPT !.cur = d]}]

\* A slip: the flag is dropped although LOOP_CLR_FD failed.
cdrom_partition_mount_drops_flag(cd, mount) ==
  {[cd EXCEPT !.mounted = FALSE]} \cup
  IF mount THEN {[c EXCEPT !.mounted = TRUE] : c \in loop_create(cd).ok} ELSE {}

\* cdrom_partition_mount(): without a block device an image that is mounted is
\* released first, and a failure to release it ends the call.
cdrom_partition_mount(cd, mount) ==
  LET released == IF cd.mounted
                  THEN [cd EXCEPT !.mounted = FALSE, !.bound = @ \ {cd.cur}]
                  ELSE cd
      created  == loop_create(released)
  IN  CASE HasBlockDevice -> {cd}
        [] ~HasBlockDevice /\ ~mount -> {cd, released}
        [] ~HasBlockDevice /\ mount ->
             {cd} \cup created.fail
                  \cup {[c EXCEPT !.mounted = TRUE] : c \in created.ok}

\* cdrom_smart_version_mount(1), cdrom_read_version_key() and
\* cdrom_smart_version_mount(0) at start-up: the device is bound, the image
\* read and the device released, unless a call fails.
cdrom_smart_version(cd) ==
  LET made == loop_create(cd)
  IN  IF HasBlockDevice THEN {cd}
      ELSE made.fail \cup {[c EXCEPT !.bound = cd.bound] : c \in made.ok}
                     \cup {[c EXCEPT !.leak = c.bound] : c \in made.ok}
=============================================================================
