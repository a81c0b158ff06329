------------------------------ MODULE BootMode ------------------------------
(***************************************************************************)
(* mot_boot_mode: at boot it decides from the boot loader's information    *)
(* and the mark of charge-only mode what the phone becomes.                *)
(*                                                                         *)
(* b = [bootmode, reason, cid] stands for the property ro.bootmode, the    *)
(* field POWERUPREASON and the field CID_RECOVER_BOOT of /proc/bootinfo;   *)
(* the parsing of that file is left out.                                   *)
(***************************************************************************)
EXTENDS Integers

Bootmode == {"unknown", "charger", "kpanic", "wdreset", "wdcpcap", "cidtcmd"}
PowerupReason == {"other", "CHARGE_ONLY", "KPANIC", "WDRESET", "CPCAP_RESET"}
BootInfo == [bootmode : Bootmode, reason : PowerupReason, cid : BOOLEAN]

check_abnormal_reboot(b) ==
  \/ b.bootmode \in {"kpanic", "wdreset", "wdcpcap"}
  \/ b.reason \in {"KPANIC", "WDRESET", "CPCAP_RESET"}

\* check_com_reset(): every path returns before the ftruncate() at its end, so
\* the mark is left as it was found.
check_com_reset(mark) == mark = "charging"

charge_only_reason(b) == b.bootmode = "charger" \/ b.reason = "CHARGE_ONLY"

\* A slip: any abnormal reset looks like one of charge-only mode.
boot_reason_charge_only_unchecked(b, mark) ==
  charge_only_reason(b) \/ check_abnormal_reboot(b)

\* A slip: the mark is not consulted.
boot_reason_charge_only_no_reset(b, mark) == charge_only_reason(b)

boot_reason_charge_only(b, mark) ==
  charge_only_reason(b) \/ (check_abnormal_reboot(b) /\ check_com_reset(mark))

check_cid_recover_boot(b) == b.bootmode = "cidtcmd" \/ b.cid

\* main(); check_data_12m() always answers 0.
boot_mode(b, mark) ==
  CASE check_cid_recover_boot(b)         -> "recovery"
    [] boot_reason_charge_only(b, mark)  -> "com"
    [] OTHER                             -> "normal"
=============================================================================
