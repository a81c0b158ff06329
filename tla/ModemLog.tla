------------------------------ MODULE ModemLog ------------------------------
(***************************************************************************)
(* modemlog, which init runs once at every boot: a kernel panic whose       *)
(* console was saved becomes a report in /data/kernelpanics, a watchdog     *)
(* reset becomes one if no panic did, a power cut is counted, and the       *)
(* folder is kept below a size. The phone may go down between any two       *)
(* steps; files survive.                                                    *)
(*                                                                          *)
(* The clock is the number of the boot: a panic is named by the boot that   *)
(* saved its console, which stands for size and time stamp of that file.    *)
(* Every report counts as one unit of size.                                 *)
(***************************************************************************)
EXTENDS Naturals, Sequences

CONSTANTS MAXTOTALSIZE,   \* the size the folder is kept below
          MaxBoots        \* a bound

Reasons == {"wdt", "kwdt", "powercut", "other"}   \* POWERUPREASON of /proc/bootinfo

VARIABLES step,         \* the step of main(), "off" while the phone is down
          console,      \* the panic in /data/dontpanic/apanic_console, 0 if none
          state,        \* what APANIC_STATE_FILE holds, 0 if nothing
          folder,       \* reports in /data/kernelpanics, oldest first
          powercuts,    \* the property PERSIST_POWERCUTS
          enabled,      \* the kinds of reports that are enabled
          Report_Flag,
          boots,
          reported,     \* history: the panics of which a report was written
          cut           \* history: panics whose report a fall of the phone prevented

panicvars == <<step, console, state, folder, powercuts, enabled, Report_Flag, boots, reported, cut>>
files == <<console, state, folder, powercuts>>
history == <<enabled, boots, reported, cut>>

PanicInit ==
  /\ step = "off" /\ console = 0 /\ state = 0 /\ folder = <<>>
  /\ powercuts = 0 /\ enabled \in {{"kpanic", "wdt", "kwdt", "powercut"}, {"wdt"}}
  /\ Report_Flag = FALSE /\ boots = 0 /\ reported = <<>> /\ cut = {}

(* The phone boots, possibly after a panic whose console init has copied. *)
PhoneBoots ==
  /\ step = "off" /\ boots < MaxBoots
  /\ boots' = boots + 1
  /\ console' \in {console, boots + 1}
  /\ step' = "open"
  /\ Report_Flag' = FALSE
  /\ UNCHANGED <<state, folder, powercuts, enabled, reported, cut>>

(* main() up to the fopen() that truncates the state file. *)
OpenState ==
  /\ step = "open"
  /\ \/ console \in {0, state} /\ step' = "bootinfo" /\ UNCHANGED state
     \/ console \notin {0, state} /\ step' = "save" /\ state' = 0
  /\ UNCHANGED <<console, folder, powercuts, Report_Flag, history>>

(* A slip: the state file is left as fopen() made it. *)
SaveStateSlip ==
  /\ step = "save"
  /\ step' = "report"
  /\ UNCHANGED <<files, Report_Flag, history>>

SaveState ==
  /\ step = "save"
  /\ state' = console
  /\ step' = "report"
  /\ UNCHANGED <<console, folder, powercuts, Report_Flag, history>>

(* A slip: any report counts as the report of this panic. *)
KnownSlip == folder # <<>>

(* access() of the file that is named after the panic. *)
Known == \E i \in DOMAIN folder : folder[i] = <<"kpanic", console>>

(* The test for a report, and the call of readFile(), after which main() ends. *)
Report ==
  /\ step = "report"
  /\ Report_Flag' = ~Known
  /\ IF ~Known /\ "kpanic" \in enabled
     THEN /\ folder' = Append(folder, <<"kpanic", console>>)
          /\ reported' = Append(reported, console)
          /\ step' = "done"
     ELSE step' = "bootinfo" /\ UNCHANGED <<folder, reported>>
  /\ UNCHANGED <<console, state, powercuts, enabled, boots, cut>>

(* writePanicData(). Without a /proc/last_kmsg, what to do about the kernel's *)
(* watchdog is left to the configuration.                                     *)
WritePanicData ==
  /\ step = "bootinfo"
  /\ \E reason \in Reasons, last_kmsg \in BOOLEAN :
       LET wdt == \/ reason = "wdt" /\ reason \in enabled
                  \/ reason = "kwdt" /\ ~Report_Flag /\ (last_kmsg \/ reason \in enabled)
       IN  /\ folder' = IF wdt THEN Append(folder, <<"wdt", boots>>) ELSE folder
           /\ powercuts' = IF reason = "powercut" /\ reason \in enabled THEN powercuts + 1 ELSE powercuts
  /\ step' = "checkdir"
  /\ UNCHANGED <<console, state, Report_Flag, history>>

(* A round of the second loop of checkdir(): the oldest report goes. *)
CheckDir ==
  /\ step = "checkdir"
  /\ \/ Len(folder) > MAXTOTALSIZE /\ folder' = Tail(folder) /\ UNCHANGED step
     \/ Len(folder) <= MAXTOTALSIZE /\ step' = "done" /\ UNCHANGED folder
  /\ UNCHANGED <<console, state, powercuts, Report_Flag, history>>

(* The phone is switched off, panics or loses power, at any moment. What fopen() *)
(* did to the state file and what fclose() wrote stays.                          *)
GoDown ==
  /\ step # "off"
  /\ step' = "off"
  /\ cut' = IF step = "report" THEN cut \cup {console} ELSE cut
  /\ UNCHANGED <<files, enabled, Report_Flag, boots, reported>>

Main == OpenState \/ SaveState \/ Report \/ WritePanicData \/ CheckDir

PanicNext == PhoneBoots \/ Main \/ GoDown

PanicSpec == PanicInit /\ [][PanicNext]_panicvars /\ WF_panicvars(Main)
-----------------------------------------------------------------------------
Reported == {reported[i] : i \in DOMAIN reported}

(* "keep the original time stamp to avoid redundant panic report": no panic is  *)
(* reported twice, even when its report is no longer in the folder, whatever    *)
(* the phone was doing when it went down.                                       *)
OncePerPanic == \A i, j \in DOMAIN reported : reported[i] = reported[j] => i = j

(* When modemlog has looked at a saved console and panics are to be reported,   *)
(* the panic has its report, unless the phone went down between the update of   *)
(* the state file and the report.                                               *)
PanicReported ==
  step \in {"bootinfo", "checkdir", "done"} /\ console # 0 /\ "kpanic" \in enabled
    => console \in Reported \cup cut

(* Why no panic is reported twice: the state file names a panic from before its *)
(* report on, and only a panic it does not name is taken up.                    *)
IInv ==
  /\ console \in Nat /\ boots \in Nat /\ console <= boots
  /\ step \in {"off", "open", "save", "report", "bootinfo", "checkdir", "done"}
  /\ reported \in Seq(Nat)
  /\ \A i \in DOMAIN reported : reported[i] <= console
  /\ console \in Reported => state = console
  /\ step \in {"save", "report"} => console \notin Reported
  /\ step = "report" => state = console
  /\ OncePerPanic

(* Why every panic is reported: a panic that the state file names has its       *)
(* report, or is about to get it, or lost it to a fall of the phone; and a      *)
(* report in the folder is one that was written.                                *)
PInv ==
  /\ state \in Nat /\ state <= boots
  /\ folder \in Seq({"kpanic", "wdt"} \X Nat)
  /\ \A i \in DOMAIN folder : folder[i][1] = "kpanic" => folder[i][2] \in Reported
  /\ step \in {"bootinfo", "checkdir", "done"} => console \in {0, state}
  /\ console # 0 /\ state = console /\ step # "report" /\ "kpanic" \in enabled
       => console \in Reported \cup cut
=============================================================================
