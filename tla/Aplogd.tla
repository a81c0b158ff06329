------------------------------- MODULE Aplogd -------------------------------
(***************************************************************************)
(* The log daemon (aplogd): one thread in poll() over the log devices and   *)
(* the socket of the volume daemon, a RAM buffer per stream, and output     *)
(* files on the storage that is preferred at the moment.                    *)
(*                                                                          *)
(* A record counts as one unit of bytes. What the functions of the daemon   *)
(* change is the record d; each function is an operator from d to the set   *)
(* of its outcomes, nested as in the code. External: log devices, storages, *)
(* the volume daemon and whoever sends signals.                             *)
(***************************************************************************)
EXTENDS Naturals, Sequences, FiniteSetsExt

CONSTANTS InputLast,    \* APLOGD_INPUT_LAST, the index of the kernel's stream
          BufSize,      \* aplogd_ram_buff_size
          Buffering,    \* aplogd_output_buffering
          MaxUserdata,  \* CONFIG_LOGFILE_MAX_VALUE_USERDATA
          MaxExternal,  \* the configured size of a log set
          Flaky,        \* storages on which a single open() may fail
          UsedCards,    \* cards with the log directory of an earlier session
          Inserted,     \* the sets of cards that may be in when the phone boots
          Garbled,      \* records the log library cannot parse
          Faults,       \* what may go wrong, see FaultKinds
          MaxRecords, MaxChanges   \* bounds on records and on events outside

ASSUME SizesAssumption ==
  /\ InputLast \in Nat \ {0} /\ BufSize \in Nat /\ Buffering \in Nat \ {0}
  /\ 2 <= BufSize /\ MaxUserdata \in Nat \ {0} /\ MaxExternal \in Nat \ {0}
  /\ MaxRecords \in Nat

(* "no space": a storage runs full at a flush; "short write": write() takes a  *)
(* part of the buffer; "full move": the new storage runs full while logs are   *)
(* moved there; "late report": a mount is reported after the daemon saw the    *)
(* storage; "stale buffer": the uninitialised buffer of a read() that returned *)
(* nothing still holds the message before.                                     *)
FaultKinds == {"no space", "short write", "full move", "late report", "stale buffer"}

ASSUME FaultsAssumption == Faults \subseteq FaultKinds /\ UNION ({Flaky, UsedCards} \cup Inserted) \subseteq {"external", "secondary"}

Streams == 0 .. InputLast
Vold == InputLast + 1     \* APLOGD_VOLD_STATUS_POLL_INDEX
Hangup == InputLast + 2   \* POLLHUP of the same descriptor
NULL == "NULL"
STORAGE_USERDATA == "userdata"
STORAGE_EXTERNAL == "external"
STORAGE_SECONDARY == "secondary"
Cards == {STORAGE_EXTERNAL, STORAGE_SECONDARY}
Storages == Cards \cup {STORAGE_USERDATA}
Records == 1 .. MaxRecords
NoMessage == <<"none", NULL>>

VARIABLES d,              \* memory and files of the daemon
          usr_cfg_seq, usr_cfg_ext,
          pc,             \* where the loop of aplogd_log_io() is
          revents,        \* poll indices still to be handled
          config_changed,
          vfd,            \* the socket to vold: "none", "polled" or "stale"
          vbuf,           \* what the stack buffer for vold's messages holds
          vq,             \* messages sent by vold and not read
          vold,           \* whether vold runs
          mounted,        \* storages that can be accessed
          dev,            \* unread records of each log device
          made,           \* number of records logged so far
          changes,        \* number of events outside so far
          leaving,        \* storages that vold is about to unmount
          unreported,     \* mounts that vold has still to report
          reloaded        \* whether the configuration was loaded again

envVars == <<vold, mounted, leaving, unreported, made, changes>>
vars == <<d, usr_cfg_seq, usr_cfg_ext, pc, revents, config_changed, vfd, vbuf,
          vq, dev, envVars, reloaded>>

NoFiles == [s \in Streams |-> <<>>]

-----------------------------------------------------------------------------
(* Outputs and storages. *)

FileRecords(x, st) == UNION {Range(x.file[st][s]) : s \in Streams}

(* aplogd_get_filesize(). *)
FileSize(st) == IF st = STORAGE_USERDATA THEN MaxUserdata ELSE MaxExternal

(* aplogd_calc_storage_pref(). *)
StoragePref == IF usr_cfg_ext THEN STORAGE_SECONDARY ELSE STORAGE_USERDATA

(* aplogd_close_output(). *)
CloseOutput(x) == [x EXCEPT !.out = [s \in Streams |-> NULL]]

(* aplogd_output_setup(): the outcomes with their return values. *)
OutputSetup(x, st) ==
  IF st \notin mounted
  THEN {<<x, FALSE>>}
  ELSE {<<[x EXCEPT !.out = [s \in Streams |-> IF s \in opened THEN st ELSE NULL],
                    !.dir = @ \cup {st},
                    !.half = @ \/ opened # Streams],
          opened = Streams>> :
          opened \in IF st \in Flaky THEN SUBSET Streams ELSE {Streams}}

(* switch_storage(), the assignment of its result to g_current_storage included. *)
SwitchStorage(x, old, new) ==
  LET closed == CloseOutput([x EXCEPT !.max = FileSize(new)])
  IN  UNION {IF o[2]
             THEN {[o[1] EXCEPT !.cur = new]}
             ELSE {[p[1] EXCEPT !.cur = old] : p \in OutputSetup(o[1], old)} :
             o \in OutputSetup(closed, new)}

(* aplogd_move_logs(). It ignores what write() returns, and a file that is    *)
(* appended to itself grows until the storage is full; both end in unlink().  *)
MoveLogs(x, old, new) ==
  LET left == [x EXCEPT !.file[old] = NoFiles]
  IN  IF {old, new} \subseteq mounted /\ new \in x.dir
      THEN {[left EXCEPT !.file[new] = [s \in Streams |-> @[s] \o x.file[old][s]]] : o \in {old} \ {new}}
           \cup {[left EXCEPT !.destroyed = @ \cup FileRecords(x, old)] :
                   o \in {q \in {old} : "full move" \in Faults \/ old = new}}
      ELSE {x}

(* aplogd_log_save(): what the last session left is packed and put into a folder *)
(* of its own on a card, and on userdata into the folder "last", over the files  *)
(* of an earlier session that have the same names.                               *)
LogSave(x, st) ==
  IF st \in x.backup_flag \/ st \notin mounted \cap x.dir
  THEN {x}
  ELSE {[x EXCEPT !.last[st] = (@ \ over) \cup x.kept[st] \cup FileRecords(x, st),
                  !.kept[st] = {},
                  !.file[st] = NoFiles,
                  !.replaced = @ \cup over,
                  !.backup_flag = @ \cup ({st} \cap Cards)] :
          over \in SUBSET (IF st = STORAGE_USERDATA THEN x.last[st] ELSE {})}

(* aplogd_io_backupall(): every output file is renamed and packed. *)
BackupAll(x, st) ==
  IF st \notin mounted
  THEN x
  ELSE [x EXCEPT !.kept[st] = @ \cup FileRecords(x, st),
                 !.file[st] = NoFiles]

(* aplogd_config_load(). *)
ConfigLoad(x) == [x EXCEPT !.cur = StoragePref, !.max = FileSize(StoragePref)]

-----------------------------------------------------------------------------
(* RAM buffers. *)

BufRecords(x) == UNION {Range(x.buf[s]) : s \in Streams}

(* A slip: the buffer is not emptied after a short write. *)
WrittenSlip(x, s, k) ==
  LET b == x.buf[s]
  IN  [x EXCEPT !.file[x.out[s]][s] = @ \o SubSeq(b, 1, k),
                !.total = @ + k,
                !.buf[s] = IF k = Len(b) THEN <<>> ELSE b]

(* write() in the loop of aplogd_rambuf_output() took k of the records first:   *)
(* the loop goes on with the start of the buffer and the remaining length.      *)
Written(x, s, k) ==
  LET b == x.buf[s]
      out == SubSeq(b, 1, k) \o SubSeq(b, 1, Len(b) - k)
  IN  [x EXCEPT !.file[x.out[s]][s] = @ \o out,
                !.gone = @ \cup (Range(b) \ Range(out)),
                !.total = @ + Len(b),
                !.buf[s] = <<>>]

(* The end of aplogd_rambuf_output(): a log set that is full is put aside. *)
Rotate(x) ==
  IF x.total >= x.max
  THEN {[o[1] EXCEPT !.total = 0] : o \in OutputSetup(BackupAll(CloseOutput(x), x.cur), x.cur)}
  ELSE {x}

(* aplogd_rambuf_output(). *)
RambufOutput(x, s) ==
  CASE x.buf[s] = <<>> -> {x}
    [] x.buf[s] # <<>> /\ x.out[s] = NULL ->
         {[x EXCEPT !.gone = @ \cup Range(x.buf[s]), !.buf[s] = <<>>]}
    [] x.buf[s] # <<>> /\ x.out[s] # NULL /\ x.out[s] \notin mounted ->
         {[x EXCEPT !.failed = TRUE]}
    [] OTHER ->
         (UNION {Rotate(Written(x, s, k)) :
                   k \in IF "short write" \in Faults THEN 1 .. Len(x.buf[s]) ELSE {Len(x.buf[s])}})
         \cup (IF "no space" \in Faults
               THEN {[CloseOutput(x) EXCEPT !.failed = TRUE]} ELSE {})

(* aplogd_rambuf_outputall() and the two assignments that follow every call. *)
RambufOutputAll(x) ==
  LET after[n \in 0 .. InputLast + 1] ==
        IF n = 0 THEN {x} ELSE UNION {RambufOutput(y, n - 1) : y \in after[n - 1]}
  IN  {[y EXCEPT !.unwritten = 0, !.timed = FALSE] : y \in after[InputLast + 1]}

(* The test for space: of LogfilterAndBuffering(), and of the kernel's stream. *)
Room(x, s) ==
  LET space == BufSize - Len(x.buf[s])
  IN  IF s = InputLast THEN space >= 1 ELSE space > 1

(* A slip: records below the limit set no timeout. *)
BufferSlip(x, s, r) ==
  LET y == [x EXCEPT !.buf[s] = Append(@, r), !.unwritten = @ + 1]
  IN  IF y.unwritten >= Buffering THEN RambufOutputAll(y) ELSE {y}

(* A record read by aplogd_io_read_data() goes to the RAM buffer. *)
Buffer(x, s, r) ==
  LET y == [x EXCEPT !.buf[s] = Append(@, r), !.unwritten = @ + 1]
  IN  IF y.unwritten >= Buffering THEN RambufOutputAll(y)
                                  ELSE {[y EXCEPT !.timed = TRUE]}

-----------------------------------------------------------------------------
(* Start of the daemon. *)

Fresh == [out |-> [s \in Streams |-> NULL], buf |-> NoFiles, cur |-> STORAGE_USERDATA,
          max |-> MaxUserdata, total |-> 0, unwritten |-> 0, timed |-> FALSE,
          backup_flag |-> {}, failed |-> FALSE, half |-> FALSE,
          file |-> [st \in Storages |-> NoFiles], kept |-> [st \in Storages |-> {}],
          last |-> [st \in Storages |-> {}],
          dir |-> {}, gone |-> {}, destroyed |-> {}, replaced |-> {}]

(* The part of aplogd_io_boot_finish() for one card: save, open, or go on to   *)
(* the next storage. Nothing changes aplogd_logfile_max any more.              *)
TryCard(x, st, next) ==
  IF x.cur # st THEN {x}
  ELSE {IF o[2] THEN o[1] ELSE [o[1] EXCEPT !.cur = next] :
          o \in UNION {OutputSetup(y, st) : y \in LogSave(x, st)}}

(* aplogd_log_io() up to the loop, aplogd_io_boot_finish() included. *)
BootFinish(x) ==
  LET saved == UNION {LogSave(y, STORAGE_USERDATA) : y \in LogSave(x, STORAGE_SECONDARY)}
      secondary == UNION {TryCard(ConfigLoad(y), STORAGE_SECONDARY, STORAGE_EXTERNAL) : y \in saved}
      external == UNION {TryCard(y, STORAGE_EXTERNAL, STORAGE_USERDATA) : y \in secondary}
  IN  UNION {IF y.cur = STORAGE_USERDATA
             THEN {o[1] : o \in OutputSetup(y, STORAGE_USERDATA)} ELSE {y} : y \in external}

Start ==
  /\ pc = "start"
  /\ d' \in BootFinish(d)
  /\ vfd' = IF vold THEN "polled" ELSE "none"
  /\ pc' = "poll"
  /\ UNCHANGED <<usr_cfg_seq, usr_cfg_ext, revents, config_changed, vbuf, vq, dev,
                 envVars, reloaded>>

-----------------------------------------------------------------------------
(* The loop of aplogd_log_io(). *)

(* The end of a round, which connects to vold if there is no descriptor, and   *)
(* the start of the next, which swaps config_changed.                           *)
Again ==
  /\ pc = "again"
  /\ pc' = "poll"
  /\ vfd' = IF vfd = "none" /\ vold THEN "polled" ELSE vfd
  /\ config_changed' = FALSE
  /\ IF config_changed
     THEN /\ \E x \in IF d.cur # StoragePref THEN SwitchStorage(d, d.cur, StoragePref) ELSE {d} :
               d' = ConfigLoad(x)
          /\ reloaded' = TRUE
     ELSE UNCHANGED <<d, reloaded>>
  /\ UNCHANGED <<usr_cfg_seq, usr_cfg_ext, revents, vbuf, vq, dev, envVars>>

Ready ==
  {s \in Streams : dev[s] # <<>>}
  \cup {i \in {Vold} : vfd = "polled" /\ (vq # <<>> \/ ~vold)}
  \cup {i \in {Hangup} : vfd = "polled" /\ ~vold}

(* poll() returns the descriptors that are ready. *)
Poll ==
  /\ pc = "poll"
  /\ Ready # {}
  /\ revents' = Ready
  /\ pc' = "handle"
  /\ UNCHANGED <<d, usr_cfg_seq, usr_cfg_ext, config_changed, vfd, vbuf, vq, dev,
                 envVars, reloaded>>

(* poll() returns 0 after aplogd_poll_timeout. *)
PollTimeout ==
  /\ pc = "poll"
  /\ Ready = {}
  /\ d.timed
  /\ d' \in RambufOutputAll(d)
  /\ pc' = "again"
  /\ UNCHANGED <<usr_cfg_seq, usr_cfg_ext, revents, config_changed, vfd, vbuf, vq, dev,
                 envVars, reloaded>>

(* The descriptor i has been handled. *)
Handled(i) ==
  /\ revents' = revents \ {i}
  /\ pc' = IF revents = {i} THEN "again" ELSE "handle"

(* A round of the loops in aplogd_io_read_data() for a log device. The logger's *)
(* loop may end before the device is empty: it subtracts the length of the      *)
(* formatted line from the number of bytes that were readable.                  *)
ReadRecord(s) ==
  /\ pc = "handle" /\ revents # {} /\ s = Min(revents) /\ s \in Streams
  /\ dev[s] # <<>>
  /\ dev' = [dev EXCEPT ![s] = Tail(@)]
  /\ LET r == Head(dev[s])
         taken == Room(d, s) /\ ~(s # InputLast /\ r \in Garbled)
     IN  /\ d' \in IF taken THEN Buffer(d, s, r) ELSE {[d EXCEPT !.gone = @ \cup {r}]}
         /\ \/ Handled(s) /\ (taken => s # InputLast \/ Len(dev[s]) = 1)
            \/ UNCHANGED <<revents, pc>> /\ taken /\ Len(dev[s]) > 1
  /\ UNCHANGED <<usr_cfg_seq, usr_cfg_ext, config_changed, vfd, vbuf, vq, envVars, reloaded>>

(* What the daemon does when a card comes and when it goes. *)
SecondaryMounted(x) ==
  UNION {IF StoragePref # STORAGE_SECONDARY THEN {y}
         ELSE UNION {SwitchStorage(z, z.cur, STORAGE_SECONDARY) :
                z \in IF usr_cfg_seq THEN MoveLogs(y, y.cur, STORAGE_SECONDARY) ELSE {y}} :
         y \in LogSave(x, STORAGE_SECONDARY)}

SecondaryGone(x) ==
  IF x.cur # STORAGE_SECONDARY THEN {x}
  ELSE UNION {IF y.cur = STORAGE_SECONDARY
              THEN SwitchStorage(y, STORAGE_SECONDARY, STORAGE_USERDATA) ELSE {y} :
                y \in SwitchStorage(x, STORAGE_SECONDARY, STORAGE_EXTERNAL)}

ExternalMounted(x) ==
  UNION {IF StoragePref = STORAGE_USERDATA \/ y.cur # STORAGE_USERDATA THEN {y}
         ELSE UNION {SwitchStorage(z, z.cur, STORAGE_EXTERNAL) :
                z \in IF usr_cfg_seq THEN MoveLogs(y, STORAGE_USERDATA, STORAGE_EXTERNAL) ELSE {y}} :
         y \in LogSave(x, STORAGE_EXTERNAL)}

ExternalGone(x) ==
  IF x.cur # STORAGE_EXTERNAL THEN {x} ELSE SwitchStorage(x, STORAGE_EXTERNAL, STORAGE_USERDATA)

(* A slip: without an external storage the outputs stay on the card that goes. *)
HandleMessageSlip(x, m) ==
  IF m[1] # "mounted" /\ x.cur = STORAGE_SECONDARY /\ m[2] = STORAGE_SECONDARY
  THEN SwitchStorage(x, STORAGE_SECONDARY, STORAGE_EXTERNAL) ELSE {x}

(* The four tests of a message from vold, in their order. *)
HandleMessage(x, m) ==
  CASE m = <<"mounted", STORAGE_SECONDARY>> -> SecondaryMounted(x)
    [] m[2] = STORAGE_SECONDARY /\ m[1] # "mounted" -> SecondaryGone(x)
    [] m = <<"mounted", STORAGE_EXTERNAL>> -> ExternalMounted(x)
    [] m[2] = STORAGE_EXTERNAL /\ m[1] # "mounted" -> ExternalGone(x)
    [] OTHER -> {x}

(* read() of the socket may take several messages; the text the tests look at *)
(* ends with the first. At a hangup it takes none.                            *)
ReadVold ==
  /\ pc = "handle" /\ revents # {} /\ Min(revents) = Vold
  /\ \E m \in IF vq # <<>> THEN {Head(vq)}
              ELSE {NoMessage} \cup (IF "stale buffer" \in Faults THEN {vbuf} ELSE {}) :
       /\ d' \in HandleMessage(d, m)
       /\ vbuf' = m
  /\ \E n \in IF vq = <<>> THEN {0} ELSE 1 .. Len(vq) : vq' = SubSeq(vq, n + 1, Len(vq))
  /\ Handled(Vold)
  /\ UNCHANGED <<usr_cfg_seq, usr_cfg_ext, config_changed, vfd, dev, envVars, reloaded>>

(* aplogd_io_handle_pollerr(): input_fd keeps the number of the closed socket. *)
HandlePollerr ==
  /\ pc = "handle" /\ revents # {} /\ Min(revents) = Hangup
  /\ vfd' = "stale"
  /\ Handled(Hangup)
  /\ UNCHANGED <<d, usr_cfg_seq, usr_cfg_ext, config_changed, vbuf, vq, dev, envVars, reloaded>>

-----------------------------------------------------------------------------
(* The outside. *)

daemonVars == <<d, pc, revents, config_changed, vfd, vbuf, reloaded>>
cfgVars == <<usr_cfg_seq, usr_cfg_ext>>

Change == changes < MaxChanges /\ changes' = changes + 1
Say(m) == vq' = IF vfd = "polled" /\ vold THEN Append(vq, m) ELSE vq

(* A process or the kernel logs a record. *)
Log(s) ==
  /\ made < MaxRecords
  /\ made' = made + 1
  /\ dev' = [dev EXCEPT ![s] = Append(@, made + 1)]
  /\ UNCHANGED <<daemonVars, cfgVars, vq, vold, mounted, leaving, unreported, changes>>

(* vold unmounts a card only when no file on it is open; it kills a process that *)
(* keeps one (Exit).                                                             *)
Busy(st) == \E s \in Streams : d.out[s] = st

Mount(st) ==
  /\ Change
  /\ st \notin mounted /\ ~Busy(st)
  /\ mounted' = mounted \cup {st}
  /\ Say(<<"mounted", st>>)
  /\ unreported' = IF "late report" \in Faults /\ vfd # "polled" THEN unreported \cup {st} ELSE unreported
  /\ UNCHANGED <<daemonVars, cfgVars, vold, leaving, dev, made>>

(* vold mounted a storage before the daemon connected and reports it now. *)
ReportLate(st) ==
  /\ st \in unreported /\ vfd = "polled" /\ vold
  /\ unreported' = unreported \ {st}
  /\ Say(<<"mounted", st>>)
  /\ UNCHANGED <<daemonVars, cfgVars, vold, mounted, leaving, dev, made, changes>>

Unmounting(st) ==
  /\ Change
  /\ st \in mounted \ (leaving \cup unreported)
  /\ leaving' = leaving \cup {st}
  /\ Say(<<"unmounting", st>>)
  /\ UNCHANGED <<daemonVars, cfgVars, vold, mounted, unreported, dev, made>>

Unmounted(st) ==
  /\ st \in leaving /\ ~Busy(st)
  /\ leaving' = leaving \ {st}
  /\ mounted' = mounted \ {st}
  /\ UNCHANGED <<daemonVars, cfgVars, vq, vold, unreported, dev, made, changes>>

BadRemoval(st) ==
  /\ Change
  /\ st \in mounted \ (leaving \cup unreported)
  /\ mounted' = mounted \ {st}
  /\ Say(<<"bad removal", st>>)
  /\ UNCHANGED <<daemonVars, cfgVars, vold, leaving, unreported, dev, made>>

VoldExits ==
  /\ Change
  /\ vold
  /\ vold' = FALSE
  /\ UNCHANGED <<daemonVars, cfgVars, vq, mounted, leaving, unreported, dev, made>>

VoldStarts ==
  /\ Change
  /\ ~vold /\ vfd # "polled"
  /\ vold' = TRUE
  /\ UNCHANGED <<daemonVars, cfgVars, vq, mounted, leaving, unreported, dev, made>>

(* SIGUSR1, which ends a poll() that is under way. *)
Signal ==
  /\ pc # "start"
  /\ Change
  /\ config_changed' = TRUE
  /\ \/ UNCHANGED pc
     \/ pc = "poll" /\ pc' = "again"
  /\ UNCHANGED <<d, revents, vfd, vbuf, reloaded, cfgVars, vq, vold, mounted, leaving,
                 unreported, dev, made>>

(* SIGTERM, or exit() at an error of read(); init starts the daemon again. *)
Exit ==
  /\ pc # "start"
  /\ Change
  /\ d' = [Fresh EXCEPT !.file = d.file, !.kept = d.kept, !.last = d.last, !.dir = d.dir,
                        !.destroyed = d.destroyed, !.replaced = d.replaced,
                        !.gone = d.gone \cup BufRecords(d)]
  /\ pc' = "start"
  /\ revents' = {}
  /\ config_changed' = FALSE
  /\ vfd' = "none"
  /\ vbuf' = NoMessage
  /\ vq' = <<>>
  /\ reloaded' = FALSE
  /\ UNCHANGED <<cfgVars, vold, mounted, leaving, unreported, dev, made>>

Init ==
  /\ d = [Fresh EXCEPT !.dir = {STORAGE_USERDATA} \cup UsedCards]
  /\ usr_cfg_ext \in BOOLEAN
  /\ usr_cfg_seq \in {FALSE, usr_cfg_ext}   \* without cards nothing is moved
  /\ pc = "start" /\ revents = {} /\ config_changed = FALSE
  /\ vfd = "none" /\ vbuf = NoMessage /\ vq = <<>> /\ vold = TRUE
  /\ mounted \in {{STORAGE_USERDATA} \cup c : c \in Inserted}
  /\ leaving = {} /\ unreported = {}
  /\ dev = NoFiles /\ made = 0
  /\ changes = 0
  /\ reloaded = FALSE

Daemon ==
  \/ Start \/ Again \/ Poll \/ PollTimeout \/ ReadVold \/ HandlePollerr
  \/ \E s \in Streams : ReadRecord(s)

Outside ==
  \/ \E s \in Streams : Log(s)
  \/ \E st \in Cards : Mount(st) \/ ReportLate(st) \/ Unmounting(st) \/ Unmounted(st) \/ BadRemoval(st)
  \/ VoldExits \/ VoldStarts \/ Signal \/ Exit

Next == Daemon \/ Outside

Spec == Init /\ [][Next]_vars

(* The daemon is scheduled and poll() returns when a descriptor is ready or its *)
(* time is over.                                                                *)
FairSpec == Spec /\ WF_vars(Daemon)
-----------------------------------------------------------------------------
DiskRecords(x) ==
  (UNION {x.kept[st] \cup x.last[st] : st \in Storages})
  \cup (UNION {FileRecords(x, st) : st \in Storages})

Sink == INSTANCE LogSink WITH ram <- BufRecords(d), disk <- DiskRecords(d) \cup d.destroyed \cup d.replaced, gone <- d.gone

(* A record taken from a log device is in RAM until it is written to a file or  *)
(* given up, and a record on a storage stays on one: flushes, rotation, moves,  *)
(* switches and restarts lose and resurrect nothing, apart from what a later    *)
(* session replaces in "last" and what aplogd_move_logs() deletes uncopied.     *)
RefinesSink == Sink!Spec

(* Moving logs to another storage keeps them. The code does not, see the README: *)
(* a second "mounted" message moves a storage onto itself. No run checks it.     *)
MovesKeep == d.destroyed = {}

(* As long as the configuration was not loaded again and no storage (half) let   *)
(* some of its files be opened and some not: the storage the daemon believes     *)
(* it writes to is the one its files are on, and until the next message it is    *)
(* not the card of which the last one said that it is being unmounted or was     *)
(* removed.                                                                      *)
StorageTracked ==
  ~reloaded /\ ~d.half /\ pc # "start" =>
    /\ \A s \in Streams : d.out[s] \in {d.cur, NULL}
    /\ vbuf[1] # "mounted" => d.cur \notin {vbuf[2]} \cap Cards

(* Records in RAM leave it in the end, unless a write failed. *)
Flushed == \A r \in Records : r \in BufRecords(d) ~> (r \notin BufRecords(d) \/ d.failed)
=============================================================================
