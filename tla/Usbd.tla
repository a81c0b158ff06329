-------------------------------- MODULE Usbd --------------------------------
(***************************************************************************)
(* usbd/usb_app.c: the USB mode daemon.                                    *)
(*                                                                         *)
(* One thread sits in select() and then serves, in this order and from the *)
(* set of descriptors select() returned: the uevent socket, the gadget     *)
(* driver's device node, the listening socket and the one application      *)
(* socket.  Between two of these handlers the cable, the driver and the    *)
(* application go on.                                                      *)
(*                                                                         *)
(* gadget gathers what usbd_set_usb_mode() drives: the current mode, the   *)
(* driver's cdrom parameter, the mass storage enable file, the last mode   *)
(* written to the driver, and the CD image.                                *)
(*                                                                         *)
(* The cable, the driver and the application are external.  uevents other  *)
(* than the cable's, which change nothing the daemon keeps, are left out.  *)
(***************************************************************************)
EXTENDS Integers, Sequences, UsbdModes, UsbdCdrom

CONSTANTS StartupMode,    \* what usbd_get_startup_mode() may return
          AdbProperty,    \* what usbd_get_adb_property() may return
          DevMsg,         \* messages the driver may post
          AppReq,         \* requests the application may send
          MaxConn,        \* bound: connections the application makes
          MaxPending      \* bound: uevents, driver messages, requests queued

ASSUME ModeAssumption == StartupMode \subseteq {"NORMAL", "DEBUG", "BPTOOLS", "TABLET"}
ASSUME PropertyAssumption == AdbProperty \subseteq {-1, 0, 1}
ASSUME MessageAssumption ==
  /\ DevMsg \subseteq [pc : Mode \cup {"none"}, adb : {-1, 0, 1}, tether : {-1, 0, 1},
                      enum : {"none", "get_desc", "enumerated"}]
  /\ AppReq \subseteq Mode
ASSUME BoundAssumption == MaxConn \in Nat

VARIABLES usbd_mode, gadget, usbd_current_state, usbd_app_fd, usb_get_des_count,
          current_usb_online, tethering_enabled, usbd_curr_cable_status,
          rset,           \* descriptors of this round still to be served ...
          rset_apps,      \* ... and those of them that are connections
          switch,         \* the cable, as /sys/class/switch reports it
          uevents,        \* cable uevents in the socket
          devq,           \* messages in the driver
          conns,          \* connections the application has made
          backlog,        \* connections waiting for accept()
          alive,          \* connections the application holds open
          requests,       \* [connection -> requests not yet read]
          told,           \* [connection -> last cable status its holder was told]
          missed          \* the last attempt to read the cable switch failed

daemon == <<gadget, usbd_current_state, usbd_app_fd, usb_get_des_count,
            current_usb_online, tethering_enabled, usbd_curr_cable_status>>
world == <<switch, uevents, devq, conns, backlog, alive, requests>>
round == <<rset, rset_apps>>
history == <<told, missed>>
vars == <<usbd_mode, daemon, round, world, history>>

Conn == 1 .. MaxConn
Cable == {"USB", "FACTORY", "UNKNOWN"}
usb_alt_mode == usbd_mode # "NORMAL"

-----------------------------------------------------------------------------
\* usbd_set_usb_mode(): the hooks of the old mode, the new mode, the hook of
\* the new mode, and the write to the driver.  The outcomes differ in what
\* became of the CD image.
usbd_set_usb_mode_no_disable(g, new) ==
  {[g EXCEPT !.mode = new, !.cdrom = new \in CdromModes, !.driver = new]}

usbd_set_usb_mode(g, new) ==
  {[mode   |-> new,
    cdrom  |-> new \in CdromModes \/ (g.cdrom /\ g.mode \notin CdromModes),
    msc    |-> g.msc /\ g.mode \notin MscModes,
    driver |-> IF new = "MIN" THEN g.driver ELSE new,
    cd     |-> c] :
   c \in IF g.mode \in CdromModes THEN cdrom_partition_mount(g.cd, FALSE)
                                  ELSE {g.cd}}

\* The enable_done hook, run by usbd_enum_process().
enable_done(g) ==
  {[g EXCEPT !.msc = @ \/ g.mode \in MscModes, !.cd = c] :
   c \in IF g.mode \in CdromModes THEN cdrom_partition_mount(g.cd, TRUE)
                                  ELSE {g.cd}}

\* Start-up: the sockets, the startup mode, the cable, the CD version query and,
\* with a cable already in, the factory or the default mode.
Init ==
  /\ usbd_mode \in StartupMode
  /\ switch \in Cable
  /\ usbd_curr_cable_status = switch
  /\ current_usb_online = (switch # "UNKNOWN")
  /\ usbd_current_state = IF switch # "UNKNOWN" THEN "ATTACHED" ELSE "DEFAULT"
  /\ \E c \in cdrom_smart_version([mounted |-> FALSE, cur |-> 0, bound |-> {}, leak |-> {}]),
        adb \in AdbProperty, m \in FactoryModes :
       LET g == [mode |-> "MIN", cdrom |-> FALSE, msc |-> FALSE,
                 driver |-> "MIN", cd |-> c]
       IN  gadget \in CASE switch = "FACTORY" -> usbd_set_usb_mode(g, m)
                        [] switch = "USB" /\ usb_alt_mode ->
                             usbd_set_usb_mode(g, default_mode(usbd_mode, adb))
                        [] OTHER -> {g}
  /\ usbd_app_fd = -1 /\ usb_get_des_count = 0 /\ tethering_enabled = 0
  /\ rset = {} /\ rset_apps = {} /\ uevents \in 0 .. 1 /\ devq = <<>>
  /\ conns = 0 /\ backlog = {} /\ alive = {}
  /\ requests = [c \in Conn |-> <<>>]
  /\ told = [c \in Conn |-> "DEFAULT"] /\ missed = FALSE

-----------------------------------------------------------------------------
\* The world outside.  One cable is pulled before the next is plugged in.  The
\* application holds one connection at a time; it may die and come back.
CableChanges(s) ==
  /\ s # switch /\ "UNKNOWN" \in {s, switch} /\ uevents < MaxPending
  /\ switch' = s /\ uevents' = uevents + 1
  /\ UNCHANGED <<daemon, round, history, devq, conns, backlog, alive, requests>>

DriverPosts(m) ==
  /\ Len(devq) < MaxPending
  /\ m.enum # "none" => switch # "UNKNOWN"
  /\ devq' = Append(devq, m)
  /\ UNCHANGED <<daemon, round, history, switch, uevents, conns, backlog, alive, requests>>

AppConnects ==
  /\ ~usb_alt_mode /\ alive = {} /\ conns < MaxConn
  /\ conns' = conns + 1
  /\ alive' = {conns + 1} /\ backlog' = backlog \cup {conns + 1}
  /\ UNCHANGED <<daemon, round, history, switch, uevents, devq, requests>>

AppRequests(c, m) ==
  /\ c \in alive /\ Len(requests[c]) < MaxPending
  /\ requests' = [requests EXCEPT ![c] = Append(@, m)]
  /\ UNCHANGED <<daemon, round, history, switch, uevents, devq, conns, backlog, alive>>

AppDies ==
  /\ alive # {} /\ alive' = {}
  /\ told' = [c \in Conn |-> "DEFAULT"]
  /\ UNCHANGED <<daemon, round, missed, switch, uevents, devq, conns, backlog, requests>>

-----------------------------------------------------------------------------
\* A write to the application fails when the application has gone.  A handler
\* that checks it forgets the descriptor without closing it.  (Definitions with
\* a suffix, here and below, are slips the properties have to notice.)
AfterWrite == IF usbd_app_fd \in alive THEN usbd_app_fd ELSE -1

Tell_attach_only(c, s) ==
  IF c \in alive /\ s \notin {"DEFAULT", "DETACHED"} THEN [told EXCEPT ![c] = s] ELSE told
Tell(c, s) == IF c \in alive /\ s # "DEFAULT" THEN [told EXCEPT ![c] = s] ELSE told

\* select(): the descriptors that are ready.
Select ==
  /\ rset = {} /\ rset_apps = {}
  /\ rset' = {f \in {"uevent", "device", "server"} :
                 \/ f = "uevent" /\ uevents > 0
                 \/ f = "device" /\ devq # <<>>
                 \/ f = "server" /\ ~usb_alt_mode /\ backlog # {}}
  /\ rset_apps' = {c \in Conn : c = usbd_app_fd /\ (requests[c] # <<>> \/ c \notin alive)}
  /\ rset' # {} \/ rset_apps' # {}
  /\ UNCHANGED <<daemon, world, history>>

\* usbd_handle_cable_status_change() for the cable status and the state that
\* process_usb_uevent_message() has just stored.
usbd_handle_cable_status_change(g, cable, state) ==
  CASE cable = "FACTORY" ->
         /\ \E m \in FactoryModes : gadget' \in usbd_set_usb_mode(g, m)
         /\ UNCHANGED <<usbd_app_fd, told, tethering_enabled>>
    [] cable # "FACTORY" /\ ~usb_alt_mode ->
         /\ gadget' = g
         /\ told' = IF usbd_app_fd = -1 THEN told ELSE Tell(usbd_app_fd, state)
         /\ usbd_app_fd' = AfterWrite
         /\ UNCHANGED tethering_enabled
    [] cable = "USB" /\ usb_alt_mode ->
         /\ tethering_enabled' = 0
         /\ \E adb \in AdbProperty :
              gadget' \in usbd_set_usb_mode(g, default_mode(usbd_mode, adb))
         /\ UNCHANGED <<usbd_app_fd, told>>
    [] cable = "UNKNOWN" /\ usb_alt_mode ->
         gadget' = g /\ UNCHANGED <<usbd_app_fd, told, tethering_enabled>>

\* readUsbSwitchState(), when the file can be read.
readUsbSwitchState_two_states == IF switch = "FACTORY" THEN "USB" ELSE switch
readUsbSwitchState == switch

\* process_usb_uevent_message() on a cable uevent: the message only says that
\* the cable changed; the status is what the switch reports now.
UeventRead ==
  /\ usbd_curr_cable_status' = readUsbSwitchState
  /\ current_usb_online' = (readUsbSwitchState # "UNKNOWN")
  /\ IF readUsbSwitchState # "UNKNOWN"
     THEN /\ usbd_current_state' = "ATTACHED"
          /\ UNCHANGED usb_get_des_count
          /\ usbd_handle_cable_status_change(gadget, readUsbSwitchState, "ATTACHED")
     ELSE /\ usbd_current_state' = "DETACHED"
          /\ usb_get_des_count' = 0
          /\ usbd_handle_cable_status_change([gadget EXCEPT !.driver = "detach"],
                                             readUsbSwitchState, "DETACHED")

Uevent ==
  /\ "uevent" \in rset
  /\ rset' = rset \ {"uevent"} /\ uevents' = uevents - 1
  /\ \/ UeventRead /\ missed' = FALSE
     \/ UNCHANGED <<daemon, told>> /\ missed' = TRUE
  /\ UNCHANGED <<rset_apps, switch, devq, conns, backlog, alive, requests>>

-----------------------------------------------------------------------------
\* usbd_alt_mode_set() for the message m, with tethering_enabled already set
\* to tether.
alt_tethering(m) ==
  IF usb_alt_mode /\ current_usb_online /\ m.tether >= 0
  THEN m.tether ELSE tethering_enabled

usbd_alt_mode_set(g, m, prop, tether) ==
  LET adb == IF m.adb < 0 THEN prop ELSE m.adb
  IN  CASE m.adb < 0 /\ m.tether < 0 -> {g}
        [] usbd_mode = "DEBUG" /\ (m.adb >= 0 \/ m.tether >= 0) ->
             usbd_set_usb_mode(g, IF m.adb = 1 \/ m.tether = 1 THEN "MSC_ADB" ELSE "MSC")
        [] OTHER -> IF adb < 0 THEN {g}
                    ELSE usbd_set_usb_mode(g, usb_alt_mode_tlb(usbd_mode, adb, tether))

\* usb_req_mode_switch(): the PC asked for another mode.  In a CDROM mode the
\* daemon switches by itself, otherwise it asks the application.
usb_req_mode_switch(g, tag, prop, tether) ==
  CASE prop < 0 -> {g}
    [] prop >= 0 /\ tag \notin switch_req ->
         IF tag = "CDROM2" THEN usbd_set_usb_mode(g, "CDROM2") ELSE {g}
    [] prop >= 0 /\ tag \in switch_req ->
         IF g.mode \in {"CDROM", "CDROM2"}
         THEN usbd_set_usb_mode(g, leave_cdrom_mode(usbd_mode, prop, tether))
         ELSE {g}

AsksApplication(g, tag, prop) ==
  prop >= 0 /\ tag \in switch_req /\ g.mode \notin {"CDROM", "CDROM2"}

\* The device node's branch of main() with a factory cable: adb only.
FactoryDeviceEvent(m) ==
  /\ \E allow_adb \in BOOLEAN :
       gadget' \in CASE allow_adb /\ m.adb = 1 -> usbd_set_usb_mode(gadget, "NETWORK_ADB")
                     [] m.adb = 0 -> usbd_set_usb_mode(gadget, "NETWORK")
                     [] OTHER -> {gadget}
  /\ UNCHANGED <<usbd_current_state, usbd_app_fd, usb_get_des_count,
                 tethering_enabled, told>>

\* Enumeration and switch messages count only under a USB cable.
HostPresent_any == TRUE
HostPresent == usbd_curr_cable_status = "USB" /\ current_usb_online

\* The device node's branch of main() otherwise.  Two stands for every larger
\* value of usb_get_des_count.
NormalDeviceEvent(m) ==
  LET first    == HostPresent /\ m.enum = "get_desc" /\ usb_get_des_count = 0
      done     == HostPresent /\ m.enum = "enumerated"
      switches == HostPresent /\ m.pc # "none"
  IN  \E prop \in AdbProperty :
      /\ tethering_enabled' = alt_tethering(m)
      /\ \E g1 \in IF usb_alt_mode /\ current_usb_online
                   THEN usbd_alt_mode_set(gadget, m, prop, alt_tethering(m))
                   ELSE {gadget} :
         \E g2 \in IF switches
                   THEN usb_req_mode_switch(g1, m.pc, prop, alt_tethering(m))
                   ELSE {g1} :
           /\ gadget' \in IF done THEN enable_done(g2) ELSE {g2}
           /\ usbd_app_fd' = IF \/ switches /\ AsksApplication(g1, m.pc, prop)
                                \/ first
                                \/ done /\ g2.mode \in mode_done
                             THEN AfterWrite ELSE usbd_app_fd
      /\ usbd_current_state' = CASE first -> "ENUM_IN_PROGRESS"
                                 [] done  -> "ENUMERATED"
                                 [] OTHER -> usbd_current_state
      /\ usb_get_des_count' = IF HostPresent /\ m.enum = "get_desc" /\ usb_get_des_count < 2
                              THEN usb_get_des_count + 1 ELSE usb_get_des_count
      /\ told' = IF first /\ usbd_app_fd # -1
                 THEN Tell(usbd_app_fd, "ENUM_IN_PROGRESS") ELSE told

DeviceEvent ==
  /\ "device" \in rset /\ "uevent" \notin rset
  /\ rset' = rset \ {"device"} /\ devq' = Tail(devq)
  /\ IF usbd_curr_cable_status = "FACTORY" THEN FactoryDeviceEvent(Head(devq))
                                           ELSE NormalDeviceEvent(Head(devq))
  /\ UNCHANGED <<rset_apps, current_usb_online, usbd_curr_cable_status, missed,
                 switch, uevents, conns, backlog, alive, requests>>

\* The listening socket's branch of main(): accept(), usbd_save_socket_fd(),
\* the adb status and, unless the cable is a factory cable, the cable status.
\* A second connection is answered but not saved.
Accept ==
  /\ rset = {"server"}
  /\ rset' = {}
  /\ LET c == CHOOSE x \in backlog : \A y \in backlog : x <= y
     IN  /\ backlog' = backlog \ {c}
         /\ usbd_app_fd' = IF usbd_app_fd = -1 THEN c ELSE usbd_app_fd
         /\ told' = IF usbd_curr_cable_status # "FACTORY"
                    THEN Tell(c, usbd_current_state) ELSE told
  /\ UNCHANGED <<rset_apps, gadget, usbd_current_state, usb_get_des_count, current_usb_online,
                 tethering_enabled, usbd_curr_cable_status, missed,
                 switch, uevents, devq, conns, alive, requests>>

\* "Read and Ignore the Application message if it is a Factory Cable".
IgnoresApplication == usbd_curr_cable_status = "FACTORY"

\* usbd_socket_event() when read() returned data: only the first of the
\* requests read together is looked at, and ":ok" is sent before the mode is set.
ServeRequest(c, m) ==
  /\ requests' = [requests EXCEPT ![c] = <<>>]
  /\ CASE IgnoresApplication -> UNCHANGED <<gadget, usbd_app_fd>>
       [] ~IgnoresApplication /\ m = "MIN" ->
            gadget' \in usbd_set_usb_mode(gadget, "MIN") /\ UNCHANGED usbd_app_fd
       [] ~IgnoresApplication /\ m # "MIN" ->
            /\ usbd_app_fd' = AfterWrite
            /\ gadget' \in IF c \in alive /\ gadget.mode # m /\ current_usb_online
                           THEN usbd_set_usb_mode(gadget, m) ELSE {gadget}

\* The application socket's branch of main().  FD_ISSET is asked of the
\* current usbd_app_fd, which may be younger than rset.
SocketEvent ==
  /\ rset = {} /\ rset_apps # {}
  /\ rset_apps' = {}
  /\ IF usbd_app_fd \in rset_apps
     THEN IF requests[usbd_app_fd] # <<>>
          THEN ServeRequest(usbd_app_fd, Head(requests[usbd_app_fd]))
          ELSE usbd_app_fd' = -1 /\ UNCHANGED <<gadget, requests>>
     ELSE UNCHANGED <<gadget, usbd_app_fd, requests>>
  /\ UNCHANGED <<rset, usbd_current_state, usb_get_des_count, current_usb_online,
                 tethering_enabled, usbd_curr_cable_status, history,
                 switch, uevents, devq, conns, backlog, alive>>

Daemon == Select \/ Uevent \/ DeviceEvent \/ Accept \/ SocketEvent

World ==
  \/ \E s \in Cable : CableChanges(s)
  \/ \E m \in DevMsg : DriverPosts(m)
  \/ AppConnects
  \/ \E c \in Conn, m \in AppReq : AppRequests(c, m)
  \/ AppDies

Next == UNCHANGED usbd_mode /\ (Daemon \/ World)

Spec == Init /\ [][Next]_vars

-----------------------------------------------------------------------------
\* The cable flags agree, and enumeration states exist only under a USB cable:
\* a late "get_desc" or "enumerated" of the driver, read after the detach,
\* leaves the state of process_usb_uevent_message() alone. Under a factory cable
\* the phone is in a factory mode, whatever the application, the PC or the
\* driver asked for ("Just set the Factory Mode right away", "Read and Ignore
\* the Application message").
StateMatchesCable ==
  /\ current_usb_online <=> usbd_curr_cable_status # "UNKNOWN"
  /\ ~current_usb_online <=> usbd_current_state \in {"DEFAULT", "DETACHED"}
  /\ usbd_current_state \in {"ENUM_IN_PROGRESS", "ENUMERATED"} =>
       usbd_curr_cable_status = "USB"
  /\ usbd_curr_cable_status = "FACTORY" => gadget.mode \in FactoryModes

\* What the hooks of the modes switch on is on only in a mode that has them:
\* the driver's cdrom parameter and the mass storage function never survive
\* the mode that set them, whichever of the callers of usbd_set_usb_mode()
\* left it.
GadgetMatchesMode ==
  /\ gadget.cdrom <=> gadget.mode \in CdromModes
  /\ gadget.msc => gadget.mode \in MscModes
  /\ gadget.driver \in {gadget.mode, "detach"} \/ gadget.mode = "MIN"

\* In the alternate modes an RNDIS mode is selected exactly while tethering is
\* enabled, across messages of the driver, switches asked by the PC and new
\* cables, which reset the flag.
TetheringMatchesMode ==
  usbd_mode \in {"BPTOOLS", "TABLET"} =>
    /\ gadget.mode \in RndisModes => tethering_enabled = 1
    /\ gadget.mode \in (BptoolsModes \ RndisModes) \cup TabletModes =>
         tethering_enabled = 0

\* Every loop device bound to the CD image is the one cdrom_partition_mount()
\* will release, except one the start-up query could not release; failures on
\* the way lose none.
LoopDeviceTracked ==
  gadget.cd.bound = gadget.cd.leak \cup
                    (IF gadget.cd.mounted THEN {gadget.cd.cur} ELSE {})

\* The application usbd serves has been told the present state of the cable
\* last: attached, detached or descriptors being read, whenever it connected.
\* Under a factory cable it is told nothing.
AppTold ==
  usbd_app_fd \in alive /\ usbd_curr_cable_status # "FACTORY" =>
    CASE usbd_current_state = "ENUMERATED" ->
           told[usbd_app_fd] \in {"ATTACHED", "ENUM_IN_PROGRESS", "ENUMERATED"}
      [] OTHER -> told[usbd_app_fd] = usbd_current_state

\* A cable change is never missed: with no uevent left to read the daemon
\* holds the present status, although a uevent may be read after the cable has
\* changed again, unless its last attempt to read the switch failed.
CableSeen == uevents = 0 /\ ~missed => usbd_curr_cable_status = switch

\* "V1.2 - Handle quick connect/disconnects": a new connection starts with no
\* descriptor request counted, so that its first one is announced.
FreshConnection == usbd_current_state = "ATTACHED" => usb_get_des_count = 0
=============================================================================
