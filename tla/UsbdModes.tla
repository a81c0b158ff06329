------------------------------ MODULE UsbdModes ------------------------------
(***************************************************************************)
(* usbd/usb_app.c: the table usb_mode_list and the two choices made from   *)
(* tables.  A mode is named by its enumerator without USB_MODE_; its name, *)
(* the strings of its messages and its empty hooks are abstracted away.    *)
(***************************************************************************)
CONSTANT MSD_CDROM_ENABLED   \* compile flag of Android.mk

ASSUME FlagAssumption == MSD_CDROM_ENABLED \in BOOLEAN

BptoolsModes == {"BPTOOLS_ETH", "BPTOOLS_ETH_ADB",
                 "RNDIS_BPTOOLS_ETH", "RNDIS_BPTOOLS_ETH_ADB"}
RndisModes == {"RNDIS", "RNDIS_ADB", "RNDIS_BPTOOLS_ETH", "RNDIS_BPTOOLS_ETH_ADB"}
MscModes == {"MSC", "MSC_ONLY", "MSC_ADB"}
FactoryModes == {"NETWORK", "NETWORK_ADB"}
TabletModes == {"TABLET_NETWORK_MTP", "TABLET_NETWORK_MTP_ADB"}

Mode == {"MIN", "NGP", "CDROM", "CDROM2", "MTP", "HID", "NGP_ADB", "MTP_ADB",
         "ADB", "MODEM", "MODEM_ADB", "CHARGE_ONLY", "CHARGE_ADB"}
        \cup BptoolsModes \cup RndisModes \cup MscModes
        \cup FactoryModes \cup TabletModes

\* Entries whose pre_enable/disable_done set and clear the driver's cdrom
\* parameter and whose enable_done/pre_disable mount and unmount the image.
CdromModes == {"CDROM", "CDROM2"} \cup (IF MSD_CDROM_ENABLED THEN {"MSC"} ELSE {})

\* Entries with a mode_done and a switch_req string.
mode_done == {"NGP", "NGP_ADB", "MTP", "MTP_ADB"} \cup MscModes
switch_req == Mode \ ({"MIN", "CDROM", "CDROM2", "MSC_ONLY"}
                      \cup FactoryModes \cup TabletModes)

\* usb_alt_mode_tlb[mode][adb][tethering].
usb_alt_mode_tlb(mode, adb, tether) ==
  CASE mode = "BPTOOLS" /\ adb = 0 ->
         IF tether = 1 THEN "RNDIS_BPTOOLS_ETH" ELSE "BPTOOLS_ETH"
    [] mode = "BPTOOLS" /\ adb = 1 ->
         IF tether = 1 THEN "RNDIS_BPTOOLS_ETH_ADB" ELSE "BPTOOLS_ETH_ADB"
    [] mode = "TABLET" /\ adb = 0 -> "CDROM"
    [] mode = "TABLET" /\ adb = 1 ->
         IF tether = 1 THEN "RNDIS_ADB" ELSE "TABLET_NETWORK_MTP_ADB"

\* usbd_enumerate_default_mode(): any non-zero adb value counts as enabled.
default_mode(mode, adb) ==
  CASE mode = "DEBUG"   -> IF adb # 0 THEN "MSC_ADB" ELSE "MSC"
    [] mode = "BPTOOLS" -> IF adb # 0 THEN "BPTOOLS_ETH_ADB" ELSE "BPTOOLS_ETH"
    [] mode = "TABLET"  -> IF adb # 0 THEN "TABLET_NETWORK_MTP_ADB" ELSE "CDROM"

\* The mode usb_req_mode_switch() leaves a CDROM mode for; a slip that
\* overlooks tethering.
leave_cdrom_mode_untethered(mode, adb, tether) ==
  IF mode = "TABLET"
  THEN IF adb = 1 THEN "TABLET_NETWORK_MTP_ADB" ELSE "TABLET_NETWORK_MTP"
  ELSE IF adb = 1 THEN "NGP_ADB" ELSE "NGP"

\* The mode usb_req_mode_switch() leaves a CDROM mode for.
leave_cdrom_mode(mode, adb, tether) ==
  CASE mode = "TABLET" /\ tether = 1 -> IF adb = 1 THEN "RNDIS_ADB" ELSE "RNDIS"
    [] mode = "TABLET" /\ tether = 0 ->
         IF adb = 1 THEN "TABLET_NETWORK_MTP_ADB" ELSE "TABLET_NETWORK_MTP"
    [] OTHER -> IF adb = 1 THEN "NGP_ADB" ELSE "NGP"
=============================================================================
