----------------------------- MODULE UsbdProofs -----------------------------
(***************************************************************************)
(* Proofs about Usbd, for every start-up mode, message set and number of    *)
(* connections and loop devices.                                           *)
(*                                                                         *)
(* The properties are inductive together with the types, with what is known *)
(* of connections that have not been accepted (Connections) and of a ready  *)
(* descriptor (Ready).                                                      *)
(***************************************************************************)
EXTENDS Usbd, WellFoundedInduction, TLAPS

State == {"DEFAULT", "ATTACHED", "DETACHED", "ENUM_IN_PROGRESS", "ENUMERATED"}

Image == [mounted : BOOLEAN, cur : Nat, bound : SUBSET LoopDev, leak : SUBSET LoopDev]
Gadget == [mode : Mode, cdrom : BOOLEAN, msc : BOOLEAN,
           driver : Mode \cup {"detach"}, cd : Image]

\* The loop devices bound to the image are the one that will be released and,
\* perhaps, the one of the version query; the two differ.
Tracked(cd) ==
  /\ cd.bound = cd.leak \cup (IF cd.mounted THEN {cd.cur} ELSE {})
  /\ cd.mounted => cd.cur \notin cd.leak

Consistent(g) ==
  /\ g.cdrom <=> g.mode \in CdromModes
  /\ g.msc => g.mode \in MscModes
  /\ g.driver \in {g.mode, "detach"} \/ g.mode = "MIN"

Good(g) == g \in Gadget /\ Consistent(g) /\ Tracked(g.cd)

TypeOK ==
  /\ usbd_mode \in StartupMode
  /\ usbd_current_state \in State
  /\ usbd_app_fd \in Conn \cup {-1}
  /\ current_usb_online \in BOOLEAN
  /\ tethering_enabled \in {0, 1}
  /\ usbd_curr_cable_status \in Cable /\ switch \in Cable
  /\ rset \subseteq {"uevent", "device", "server"} /\ rset_apps \subseteq Conn
  /\ uevents \in Nat
  /\ devq \in Seq(DevMsg)
  /\ conns \in 0 .. MaxConn /\ backlog \subseteq Conn /\ alive \subseteq Conn
  /\ requests \in [Conn -> Seq(AppReq)]
  /\ told \in [Conn -> State]
  /\ missed \in BOOLEAN

\* What select() has found ready is there when it is served.
Ready ==
  /\ "uevent" \in rset => uevents > 0
  /\ "device" \in rset => devq # <<>>
  /\ "server" \in rset => backlog # {}

\* A connection the daemon has not accepted has been told nothing, and there
\* are none in the alternate modes.
Connections ==
  /\ usbd_app_fd <= conns
  /\ \A c \in backlog : c <= conns /\ c # usbd_app_fd /\ told[c] = "DEFAULT"
  /\ \A c \in Conn : c > conns => told[c] = "DEFAULT"
  /\ usb_alt_mode => alive = {} /\ backlog = {} /\ usbd_app_fd = -1

IInv ==
  /\ TypeOK /\ Ready /\ Connections /\ Good(gadget)
  /\ StateMatchesCable /\ AppTold /\ CableSeen

-----------------------------------------------------------------------------
(* The CD image *)

\* A non-empty set of naturals has a least element: what the CHOOSE of
\* loop_create() and of accept() take is a member.
LEMMA Least ==
  ASSUME NEW T, T \subseteq Nat, T # {}
  PROVE  \E n \in T : \A m \in T : n <= m
<1>1. PICK x \in T : \A y \in T : <<y, x>> \notin OpToRel(<, Nat)
  BY NatLessThanWellFounded, WFMin, Zenon
<1>2. ASSUME NEW y \in T PROVE x <= y
  <2>1. <<y, x>> \notin OpToRel(<, Nat)
    BY <1>1, Zenon
  <2> QED BY <2>1, SMT DEF OpToRel
<1> QED BY <1>2

\* loop_create() on an image that is not mounted: success binds a device no one
\* else holds, failure binds none.
LEMMA LoopCreate ==
  ASSUME NEW cd \in Image, Tracked(cd), ~cd.mounted
  PROVE  /\ \A c \in loop_create(cd).ok :
              /\ c \in Image /\ ~c.mounted /\ c.cur \notin c.leak /\ c.leak = cd.leak
              /\ c.bound = c.leak \cup {c.cur}
         /\ \A c \in loop_create(cd).fail : c \in Image /\ ~c.mounted /\ Tracked(c)
<1> DEFINE free == LoopDev \ cd.bound
           d == CHOOSE x \in free : \A y \in free : x <= y
<1>1. CASE free = {}
  BY <1>1 DEF loop_create
<1>2. CASE free # {}
  <2>1. free \subseteq Nat
    BY LoopAssumption DEF LoopDev
  <2>2. d \in free
    BY <2>1, <1>2, Least, Zenon
  <2> HIDE DEF d
  <2>3. /\ [cd EXCEPT !.cur = d] \in Image
        /\ [cd EXCEPT !.cur = d, !.bound = @ \cup {d}] \in Image
    BY <2>1, <2>2, Zenon DEF Image
  <2>4. loop_create(cd) = [ok   |-> {[cd EXCEPT !.cur = d, !.bound = @ \cup {d}]},
                           fail |-> {cd, [cd EXCEPT !.cur = d]}]
    BY <1>2, Zenon DEF loop_create, d
  <2>5. ASSUME NEW c \in loop_create(cd).ok
        PROVE  /\ c \in Image /\ ~c.mounted /\ c.cur \notin c.leak /\ c.leak = cd.leak
               /\ c.bound = c.leak \cup {c.cur}
    <3>1. c = [cd EXCEPT !.cur = d, !.bound = @ \cup {d}]
      BY <2>4
    <3> QED BY <2>2, <2>3, <3>1 DEF Tracked, Image
  <2>6. ASSUME NEW c \in loop_create(cd).fail
        PROVE  c \in Image /\ ~c.mounted /\ Tracked(c)
    <3>1. c = cd \/ c = [cd EXCEPT !.cur = d]
      BY <2>4
    <3> QED BY <2>2, <2>3, <3>1 DEF Tracked, Image
  <2> QED BY <2>5, <2>6
<1> QED BY <1>1, <1>2

\* Whatever call of cdrom_partition_mount() fails, the image stays tracked.
LEMMA PartitionMount ==
  ASSUME NEW cd \in Image, Tracked(cd), NEW mount \in BOOLEAN,
         NEW c \in cdrom_partition_mount(cd, mount)
  PROVE  c \in Image /\ Tracked(c)
<1> DEFINE released == IF cd.mounted
                       THEN [cd EXCEPT !.mounted = FALSE, !.bound = @ \ {cd.cur}]
                       ELSE cd
<1>1. released \in Image /\ Tracked(released) /\ ~released.mounted
  BY Zenon DEF Image, Tracked
<1> HIDE DEF released
<1>2. \/ c \in {cd, released}
      \/ c \in loop_create(released).fail
      \/ \E e \in loop_create(released).ok : c = [e EXCEPT !.mounted = TRUE]
  BY LoopAssumption, Zenon DEF cdrom_partition_mount, released
<1>3. CASE \E e \in loop_create(released).ok : c = [e EXCEPT !.mounted = TRUE]
  <2>1. PICK e \in loop_create(released).ok : c = [e EXCEPT !.mounted = TRUE]
    BY <1>3, Zenon
  <2>2. /\ e \in Image /\ e.cur \notin e.leak
        /\ e.bound = e.leak \cup {e.cur}
    BY <1>1, LoopCreate
  <2> QED BY <2>1, <2>2, Zenon DEF Image, Tracked
<1> QED BY <1>1, <1>2, <1>3, LoopCreate

\* The version query of the start-up.
LEMMA SmartVersion ==
  ASSUME NEW c \in cdrom_smart_version([mounted |-> FALSE, cur |-> 0, bound |-> {}, leak |-> {}])
  PROVE  c \in Image /\ Tracked(c)
<1> DEFINE none == [mounted |-> FALSE, cur |-> 0, bound |-> {}, leak |-> {}]
<1>1. none \in Image /\ Tracked(none) /\ ~none.mounted /\ none.bound = {} /\ none.leak = {}
  BY DEF Image, Tracked
<1> HIDE DEF none
<1>2. c \in cdrom_smart_version(none)
  BY DEF none
<1>3. \/ c = none
      \/ c \in loop_create(none).fail
      \/ \E e \in loop_create(none).ok :
           c \in {[e EXCEPT !.bound = none.bound], [e EXCEPT !.leak = e.bound]}
  BY <1>2, Zenon DEF cdrom_smart_version
<1>4. CASE \E e \in loop_create(none).ok :
             c \in {[e EXCEPT !.bound = none.bound], [e EXCEPT !.leak = e.bound]}
  <2>1. PICK e \in loop_create(none).ok :
               c \in {[e EXCEPT !.bound = none.bound], [e EXCEPT !.leak = e.bound]}
    BY <1>4
  <2>2. /\ e \in Image /\ ~e.mounted /\ e.leak = {}
        /\ e.bound = e.leak \cup {e.cur}
    BY <1>1, LoopCreate
  <2> QED BY <1>1, <2>1, <2>2 DEF Image, Tracked
<1> QED BY <1>1, <1>3, <1>4, LoopCreate

-----------------------------------------------------------------------------
(* The gadget *)

\* usbd_set_usb_mode() leaves behind nothing of the mode it leaves.
LEMMA SetMode ==
  ASSUME NEW g, Good(g), NEW new \in Mode, NEW h \in usbd_set_usb_mode(g, new)
  PROVE  Good(h) /\ h.mode = new
<1>1. PICK c \in (IF g.mode \in CdromModes THEN cdrom_partition_mount(g.cd, FALSE) ELSE {g.cd}) :
        h = [mode   |-> new,
             cdrom  |-> new \in CdromModes \/ (g.cdrom /\ g.mode \notin CdromModes),
             msc    |-> g.msc /\ g.mode \notin MscModes,
             driver |-> IF new = "MIN" THEN g.driver ELSE new,
             cd     |-> c]
  BY Zenon DEF usbd_set_usb_mode
<1>2. c \in Image /\ Tracked(c)
  BY PartitionMount, Zenon DEF Good, Gadget
<1> QED BY <1>1, <1>2, Zenon DEF Good, Gadget, Consistent

\* The hook of an enumerated mode.
LEMMA EnableDone ==
  ASSUME NEW g, Good(g), NEW h \in enable_done(g)
  PROVE  Good(h) /\ h.mode = g.mode
<1>1. PICK c \in (IF g.mode \in CdromModes THEN cdrom_partition_mount(g.cd, TRUE) ELSE {g.cd}) :
        h = [g EXCEPT !.msc = @ \/ g.mode \in MscModes, !.cd = c]
  BY Zenon DEF enable_done
<1>2. c \in Image /\ Tracked(c)
  BY PartitionMount, Zenon DEF Good, Gadget
<1> QED BY <1>1, <1>2, Zenon DEF Good, Gadget, Consistent

\* "detach" written to the driver.
LEMMA Detached ==
  ASSUME NEW g, Good(g)
  PROVE  Good([g EXCEPT !.driver = "detach"]) /\ [g EXCEPT !.driver = "detach"].mode = g.mode
BY DEF Good, Gadget, Consistent

\* In an alternate mode the mode follows the tethering flag.
Follows(mode, tether) ==
  usbd_mode \in {"BPTOOLS", "TABLET"} =>
    /\ mode \in RndisModes => tether = 1
    /\ mode \in (BptoolsModes \ RndisModes) \cup TabletModes => tether = 0

\* The tables name modes that exist.
LEMMA DefaultMode ==
  ASSUME usbd_mode \in StartupMode, usb_alt_mode, NEW adb \in AdbProperty
  PROVE  default_mode(usbd_mode, adb) \in Mode /\ Follows(default_mode(usbd_mode, adb), 0)
<1>1. default_mode(usbd_mode, adb) \in
        {"MSC_ADB", "MSC", "BPTOOLS_ETH_ADB", "BPTOOLS_ETH", "TABLET_NETWORK_MTP_ADB", "CDROM"}
  <2>1. usbd_mode = "DEBUG" \/ usbd_mode = "BPTOOLS" \/ usbd_mode = "TABLET"
    BY ModeAssumption DEF usb_alt_mode
  <2> QED BY <2>1 DEF default_mode
<1> QED BY <1>1 DEF Follows, Mode, MscModes, BptoolsModes, TabletModes, RndisModes

\* usb_alt_mode_tlb has the RNDIS modes in the column of tethering.
LEMMA AltModeTable ==
  ASSUME usbd_mode \in {"BPTOOLS", "TABLET"}, NEW adb \in {0, 1}, NEW tether \in {0, 1}
  PROVE  /\ usb_alt_mode_tlb(usbd_mode, adb, tether) \in Mode
         /\ Follows(usb_alt_mode_tlb(usbd_mode, adb, tether), tether)
BY DEF usb_alt_mode_tlb, Follows, Mode, BptoolsModes, TabletModes, RndisModes

\* So has the mode that follows the CD image.
LEMMA LeaveCdrom ==
  ASSUME NEW adb \in {0, 1}, NEW tether \in {0, 1}
  PROVE  /\ leave_cdrom_mode(usbd_mode, adb, tether) \in Mode
         /\ Follows(leave_cdrom_mode(usbd_mode, adb, tether), tether)
BY DEF leave_cdrom_mode, Follows, Mode, BptoolsModes, TabletModes, RndisModes

\* usbd_alt_mode_set() makes the mode follow the flag, unless the message does
\* not touch the flag or the adb property cannot be read.
LEMMA AltModeSet ==
  ASSUME usbd_mode \in StartupMode, usb_alt_mode, NEW g, Good(g), NEW m \in DevMsg,
         NEW prop \in AdbProperty, NEW tether \in {0, 1},
         NEW h \in usbd_alt_mode_set(g, m, prop, tether)
  PROVE  /\ Good(h)
         /\ Follows(h.mode, tether) \/ (h = g /\ (m.tether < 0 \/ prop < 0))
<1> DEFINE adb == IF m.adb < 0 THEN prop ELSE m.adb
<1>1. m.adb \in {-1, 0, 1} /\ m.tether \in {-1, 0, 1} /\ prop \in {-1, 0, 1}
  BY MessageAssumption, PropertyAssumption
<1>2. CASE m.adb < 0 /\ m.tether < 0
  <2>1. h = g
    BY <1>1, <1>2 DEF usbd_alt_mode_set
  <2> QED BY <1>2, <2>1
<1>3. CASE ~(m.adb < 0 /\ m.tether < 0) /\ usbd_mode = "DEBUG"
  <2>1. m.adb >= 0 \/ m.tether >= 0
    BY <1>1, <1>3
  <2>2. \E new \in {"MSC_ADB", "MSC"} : h \in usbd_set_usb_mode(g, new)
    BY <1>3, <2>1 DEF usbd_alt_mode_set
  <2>3. Good(h)
    BY <2>2, SetMode DEF Mode, MscModes
  <2> QED BY <1>3, <2>3 DEF Follows
<1>4. CASE ~(m.adb < 0 /\ m.tether < 0) /\ usbd_mode # "DEBUG" /\ adb < 0
  <2>1. usbd_alt_mode_set(g, m, prop, tether) =
          IF adb < 0 THEN {g} ELSE usbd_set_usb_mode(g, usb_alt_mode_tlb(usbd_mode, adb, tether))
    BY <1>4 DEF usbd_alt_mode_set
  <2> QED BY <1>1, <1>4, <2>1
<1>5. CASE ~(m.adb < 0 /\ m.tether < 0) /\ usbd_mode # "DEBUG" /\ ~(adb < 0)
  <2>1. h \in usbd_set_usb_mode(g, usb_alt_mode_tlb(usbd_mode, adb, tether))
    BY <1>5 DEF usbd_alt_mode_set
  <2>2. usbd_mode \in {"BPTOOLS", "TABLET"} /\ adb \in {0, 1}
    BY <1>1, <1>5, ModeAssumption DEF usb_alt_mode
  <2> HIDE DEF adb
  <2> QED BY <2>1, <2>2, AltModeTable, SetMode
<1> QED BY <1>2, <1>3, <1>4, <1>5

\* usb_req_mode_switch() keeps the mode, or enters one that fits the flag.
LEMMA ReqModeSwitch ==
  ASSUME NEW g, Good(g), NEW tag, NEW prop \in AdbProperty, NEW tether \in {0, 1},
         NEW h \in usb_req_mode_switch(g, tag, prop, tether)
  PROVE  Good(h) /\ (h = g \/ Follows(h.mode, tether))
<1>1. \/ h = g
      \/ h \in usbd_set_usb_mode(g, "CDROM2")
      \/ prop >= 0 /\ h \in usbd_set_usb_mode(g, leave_cdrom_mode(usbd_mode, prop, tether))
  <2>1. prop < 0 \/ prop >= 0
    BY PropertyAssumption
  <2>2. CASE prop < 0
    BY <2>2 DEF usb_req_mode_switch
  <2>3. CASE ~(prop < 0) /\ prop >= 0 /\ tag \notin switch_req
    BY <2>3 DEF usb_req_mode_switch
  <2>4. CASE ~(prop < 0) /\ prop >= 0 /\ tag \in switch_req
    BY <2>4 DEF usb_req_mode_switch
  <2> QED BY <2>1, <2>2, <2>3, <2>4, PropertyAssumption
<1>2. CASE h = g
  BY <1>2
<1>3. CASE h \in usbd_set_usb_mode(g, "CDROM2")
  <2>1. "CDROM2" \in Mode /\ Follows("CDROM2", tether)
    BY DEF Mode, Follows, BptoolsModes, RndisModes, TabletModes
  <2> QED BY <1>3, <2>1, SetMode
<1>4. CASE prop >= 0 /\ h \in usbd_set_usb_mode(g, leave_cdrom_mode(usbd_mode, prop, tether))
  <2>1. prop \in {0, 1}
    BY <1>4, PropertyAssumption
  <2> QED BY <1>4, <2>1, LeaveCdrom, SetMode
<1> QED BY <1>1, <1>2, <1>3, <1>4

-----------------------------------------------------------------------------
(* The handlers *)

\* The factory modes exist and are outside the rule on tethering.
LEMMA FactoryMode == FactoryModes \subseteq Mode /\ \A m \in FactoryModes : \A t : Follows(m, t)
BY DEF FactoryModes, Mode, Follows, RndisModes, BptoolsModes, TabletModes

\* usbd_handle_cable_status_change(): a factory mode, a word to the application,
\* or the default mode with the tethering flag reset.
LEMMA CableHandler ==
  ASSUME TypeOK, NEW g, Good(g), NEW cable \in Cable, NEW state,
         usbd_handle_cable_status_change(g, cable, state)
  PROVE  /\ Good(gadget')
         /\ cable = "FACTORY" => gadget'.mode \in FactoryModes
         /\ tethering_enabled' \in {0, 1}
         /\ \/ (cable = "FACTORY" \/ usb_alt_mode) /\ UNCHANGED <<usbd_app_fd, told>>
            \/ /\ ~usb_alt_mode /\ usbd_app_fd' = AfterWrite
               /\ told' = IF usbd_app_fd = -1 THEN told ELSE Tell(usbd_app_fd, state)
         /\ Follows(g.mode, tethering_enabled) => Follows(gadget'.mode, tethering_enabled')
<1>1. CASE cable = "FACTORY"
  <2>1. /\ \E m \in FactoryModes : gadget' \in usbd_set_usb_mode(g, m)
        /\ UNCHANGED <<usbd_app_fd, told, tethering_enabled>>
    BY <1>1 DEF usbd_handle_cable_status_change
  <2> QED BY <1>1, <2>1, SetMode, FactoryMode DEF TypeOK
<1>2. CASE cable # "FACTORY" /\ ~usb_alt_mode
  <2>1. /\ gadget' = g /\ UNCHANGED tethering_enabled
        /\ told' = IF usbd_app_fd = -1 THEN told ELSE Tell(usbd_app_fd, state)
        /\ usbd_app_fd' = AfterWrite
    BY <1>2, Zenon DEF usbd_handle_cable_status_change
  <2> QED BY <1>2, <2>1 DEF TypeOK
<1>3. CASE cable = "USB" /\ usb_alt_mode
  <2>1. /\ tethering_enabled' = 0 /\ UNCHANGED <<usbd_app_fd, told>>
        /\ \E adb \in AdbProperty :
             gadget' \in usbd_set_usb_mode(g, default_mode(usbd_mode, adb))
    BY <1>3 DEF usbd_handle_cable_status_change
  <2>2. PICK adb \in AdbProperty :
               gadget' \in usbd_set_usb_mode(g, default_mode(usbd_mode, adb))
    BY <2>1
  <2>3. Good(gadget') /\ Follows(gadget'.mode, 0)
    BY <1>3, <2>2, DefaultMode, SetMode DEF TypeOK
  <2> QED BY <1>3, <2>1, <2>3
<1>4. CASE cable = "UNKNOWN" /\ usb_alt_mode
  <2>1. gadget' = g /\ UNCHANGED <<usbd_app_fd, told, tethering_enabled>>
    BY <1>4 DEF usbd_handle_cable_status_change
  <2> QED BY <1>4, <2>1 DEF TypeOK
<1> QED BY <1>1, <1>2, <1>3, <1>4 DEF Cable

\* A message of the driver under a factory cable.
LEMMA FactoryDevice ==
  ASSUME Good(gadget), NEW m, FactoryDeviceEvent(m)
  PROVE  Good(gadget') /\ (gadget'.mode \in FactoryModes \/ gadget' = gadget)
<1>1. PICK allow_adb \in BOOLEAN :
        gadget' \in CASE allow_adb /\ m.adb = 1 -> usbd_set_usb_mode(gadget, "NETWORK_ADB")
                      [] m.adb = 0 -> usbd_set_usb_mode(gadget, "NETWORK")
                      [] OTHER -> {gadget}
  BY DEF FactoryDeviceEvent
<1>2. \/ gadget' = gadget
      \/ gadget' \in usbd_set_usb_mode(gadget, "NETWORK_ADB")
      \/ gadget' \in usbd_set_usb_mode(gadget, "NETWORK")
  BY <1>1
<1>3. {"NETWORK_ADB", "NETWORK"} \subseteq Mode \cap FactoryModes
  BY DEF Mode, FactoryModes
<1> QED BY <1>2, <1>3, SetMode

\* Only a message on tethering changes the flag, and only in the alternate modes.
LEMMA AltTethering ==
  ASSUME TypeOK, NEW m \in DevMsg
  PROVE  /\ alt_tethering(m) \in {0, 1}
         /\ m.tether < 0 \/ ~(usb_alt_mode /\ current_usb_online) =>
              alt_tethering(m) = tethering_enabled
BY MessageAssumption DEF alt_tethering, TypeOK

\* A message of the driver otherwise.
LEMMA NormalDevice ==
  ASSUME TypeOK, Good(gadget), NEW m \in DevMsg, NormalDeviceEvent(m)
  PROVE  /\ Good(gadget')
         /\ tethering_enabled' \in {0, 1}
         /\ (-1 \notin AdbProperty /\ Follows(gadget.mode, tethering_enabled)) =>
              Follows(gadget'.mode, tethering_enabled')
         /\ usbd_app_fd' \in {usbd_app_fd, AfterWrite}
<1> DEFINE tether == alt_tethering(m)
           alt == usb_alt_mode /\ current_usb_online
           switches == HostPresent /\ m.pc # "none"
           done == HostPresent /\ m.enum = "enumerated"
<1>1. PICK prop \in AdbProperty :
        /\ tethering_enabled' = tether
        /\ \E g1 \in IF alt THEN usbd_alt_mode_set(gadget, m, prop, tether) ELSE {gadget} :
           \E g2 \in IF switches THEN usb_req_mode_switch(g1, m.pc, prop, tether) ELSE {g1} :
             /\ gadget' \in IF done THEN enable_done(g2) ELSE {g2}
             /\ usbd_app_fd' \in {usbd_app_fd, AfterWrite}
  BY Zenon DEF NormalDeviceEvent
<1>2. tether \in {0, 1} /\ (m.tether < 0 \/ ~alt => tether = tethering_enabled)
  BY AltTethering
<1> HIDE DEF tether, alt, switches, done
<1>3. PICK g1 \in IF alt THEN usbd_alt_mode_set(gadget, m, prop, tether) ELSE {gadget} :
           \E g2 \in IF switches THEN usb_req_mode_switch(g1, m.pc, prop, tether) ELSE {g1} :
             /\ gadget' \in IF done THEN enable_done(g2) ELSE {g2}
             /\ usbd_app_fd' \in {usbd_app_fd, AfterWrite}
  BY <1>1
<1>4. PICK g2 \in IF switches THEN usb_req_mode_switch(g1, m.pc, prop, tether) ELSE {g1} :
             /\ gadget' \in IF done THEN enable_done(g2) ELSE {g2}
             /\ usbd_app_fd' \in {usbd_app_fd, AfterWrite}
  BY <1>3
<1>5. Good(g1) /\ (Follows(g1.mode, tether) \/ (g1 = gadget /\ (tether = tethering_enabled \/ prop < 0)))
  <2>1. CASE alt
    <3>1. usb_alt_mode /\ usbd_mode \in StartupMode
      BY <2>1 DEF alt, TypeOK
    <3>2. g1 \in usbd_alt_mode_set(gadget, m, prop, tether)
      BY <1>3, <2>1
    <3> QED BY <1>2, <3>1, <3>2, AltModeSet
  <2>2. CASE ~alt
    BY <1>2, <1>3, <2>2
  <2> QED BY <2>1, <2>2
<1>6. Good(g2) /\ (g2 = g1 \/ Follows(g2.mode, tether))
  BY <1>2, <1>4, <1>5, ReqModeSwitch
<1>7. Good(gadget') /\ gadget'.mode = g2.mode
  BY <1>4, <1>6, EnableDone
<1>8. ASSUME -1 \notin AdbProperty, Follows(gadget.mode, tethering_enabled)
      PROVE  Follows(gadget'.mode, tethering_enabled')
  <2>1. ~(prop < 0)
    BY <1>8, PropertyAssumption
  <2>2. Follows(g1.mode, tether)
    BY <1>5, <1>8, <2>1
  <2>3. Follows(g2.mode, tether)
    BY <1>6, <2>2
  <2> QED BY <1>1, <1>7, <2>3
<1> QED BY <1>1, <1>2, <1>4, <1>7, <1>8

-----------------------------------------------------------------------------
(* The invariant *)

\* What a uevent does: the status is what the switch reports, the gadget is in
\* order and the application, if one is served, has heard of it.
UeventDone ==
  /\ usbd_curr_cable_status' = switch
  /\ current_usb_online' = (switch # "UNKNOWN")
  /\ usbd_current_state' = IF switch # "UNKNOWN" THEN "ATTACHED" ELSE "DETACHED"
  /\ Good(gadget')
  /\ switch = "FACTORY" => gadget'.mode \in FactoryModes
  /\ tethering_enabled' \in {0, 1}
  /\ \/ (switch = "FACTORY" \/ usb_alt_mode) /\ UNCHANGED <<usbd_app_fd, told>>
     \/ /\ ~usb_alt_mode /\ usbd_app_fd' = AfterWrite
        /\ told' = IF usbd_app_fd = -1 THEN told ELSE Tell(usbd_app_fd, usbd_current_state')
  /\ Follows(gadget.mode, tethering_enabled) => Follows(gadget'.mode, tethering_enabled')

\* usbd_handle_uevent(), whatever the cable, brings all of that about.
LEMMA UeventStep == TypeOK /\ Good(gadget) /\ UeventRead => UeventDone
<1> SUFFICES ASSUME TypeOK, Good(gadget), UeventRead PROVE UeventDone
  OBVIOUS
<1>1. CASE switch # "UNKNOWN"
  <2>1. /\ usbd_current_state' = "ATTACHED"
        /\ usbd_handle_cable_status_change(gadget, switch, "ATTACHED")
    BY <1>1 DEF UeventRead, readUsbSwitchState
  <2> QED BY <1>1, <2>1, CableHandler DEF UeventDone, UeventRead, readUsbSwitchState, TypeOK
<1>2. CASE switch = "UNKNOWN"
  <2> DEFINE g == [gadget EXCEPT !.driver = "detach"]
  <2>1. /\ usbd_current_state' = "DETACHED"
        /\ usbd_handle_cable_status_change(g, switch, "DETACHED")
    BY <1>2 DEF UeventRead, readUsbSwitchState
  <2>2. Good(g) /\ g.mode = gadget.mode
    BY Detached
  <2> HIDE DEF g
  <2> QED BY <1>2, <2>1, <2>2, CableHandler DEF UeventDone, UeventRead, readUsbSwitchState, TypeOK
<1> QED BY <1>1, <1>2

\* accept() takes one of the waiting connections.
LEMMA AcceptStep ==
  ASSUME TypeOK, Ready, Accept
  PROVE  \E c \in backlog :
           /\ backlog' = backlog \ {c}
           /\ usbd_app_fd' = IF usbd_app_fd = -1 THEN c ELSE usbd_app_fd
           /\ told' = IF usbd_curr_cable_status # "FACTORY"
                      THEN Tell(c, usbd_current_state) ELSE told
<1> DEFINE c == CHOOSE x \in backlog : \A y \in backlog : x <= y
<1>1. backlog \subseteq Nat /\ backlog # {}
  BY BoundAssumption DEF TypeOK, Ready, Accept, Conn
<1>2. c \in backlog
  BY <1>1, Least, Zenon
<1>3. /\ backlog' = backlog \ {c}
      /\ usbd_app_fd' = IF usbd_app_fd = -1 THEN c ELSE usbd_app_fd
      /\ told' = IF usbd_curr_cable_status # "FACTORY"
                 THEN Tell(c, usbd_current_state) ELSE told
  BY DEF Accept
<1> HIDE DEF c
<1> QED BY <1>2, <1>3

\* The message the daemon reads is one the driver may post.
LEMMA DeviceStep ==
  ASSUME TypeOK, Ready, Good(gadget), DeviceEvent
  PROVE  /\ Head(devq) \in DevMsg /\ devq' \in Seq(DevMsg)
         /\ Good(gadget') /\ tethering_enabled' \in {0, 1}
         /\ usbd_app_fd' \in {usbd_app_fd, AfterWrite}
         /\ usbd_curr_cable_status = "FACTORY" /\ gadget.mode \in FactoryModes =>
              gadget'.mode \in FactoryModes
         /\ -1 \notin AdbProperty /\ Follows(gadget.mode, tethering_enabled) =>
              Follows(gadget'.mode, tethering_enabled')
<1>1. Head(devq) \in DevMsg /\ devq' \in Seq(DevMsg)
  BY DEF TypeOK, Ready, DeviceEvent
<1>2. CASE usbd_curr_cable_status = "FACTORY"
  <2>1. FactoryDeviceEvent(Head(devq))
    BY <1>2 DEF DeviceEvent
  <2>2. UNCHANGED <<usbd_app_fd, tethering_enabled>>
    BY <2>1 DEF FactoryDeviceEvent
  <2> QED BY <1>1, <2>1, <2>2, FactoryDevice, FactoryMode DEF TypeOK
<1>3. CASE usbd_curr_cable_status # "FACTORY"
  <2>1. NormalDeviceEvent(Head(devq))
    BY <1>3 DEF DeviceEvent
  <2> QED BY <1>1, <1>3, <2>1, NormalDevice
<1> QED BY <1>2, <1>3

\* The request the daemon serves names a mode.
LEMMA SocketStep ==
  ASSUME TypeOK, Good(gadget), SocketEvent
  PROVE  /\ requests' \in [Conn -> Seq(AppReq)]
         /\ usbd_app_fd' \in {usbd_app_fd, AfterWrite, -1}
         /\ Good(gadget')
         /\ usbd_curr_cable_status = "FACTORY" => gadget' = gadget
         /\ usbd_app_fd = -1 => UNCHANGED <<gadget, usbd_app_fd>>
<1>0. -1 \notin Conn
  BY BoundAssumption DEF Conn
<1>1. CASE usbd_app_fd \notin rset_apps
  BY <1>1 DEF SocketEvent, TypeOK
<1>2. CASE usbd_app_fd \in rset_apps /\ requests[usbd_app_fd] = <<>>
  BY <1>0, <1>2 DEF SocketEvent, TypeOK
<1>3. CASE usbd_app_fd \in rset_apps /\ requests[usbd_app_fd] # <<>>
  <2> DEFINE m == Head(requests[usbd_app_fd])
  <2>1. ServeRequest(usbd_app_fd, m)
    BY <1>3 DEF SocketEvent
  <2>2. usbd_app_fd \in Conn /\ m \in Mode
    BY <1>3, MessageAssumption DEF TypeOK
  <2> HIDE DEF m
  <2>3. requests' \in [Conn -> Seq(AppReq)]
    BY <2>1, <2>2 DEF ServeRequest, TypeOK
  <2>4. CASE IgnoresApplication
    <3>1. UNCHANGED <<gadget, usbd_app_fd>>
      BY <2>1, <2>4 DEF ServeRequest
    <3> QED BY <2>3, <3>1
  <2>5. CASE ~IgnoresApplication /\ m = "MIN"
    <3>1. gadget' \in usbd_set_usb_mode(gadget, "MIN") /\ UNCHANGED usbd_app_fd
      BY <2>1, <2>5 DEF ServeRequest
    <3> QED BY <1>0, <2>2, <2>3, <2>5, <3>1, SetMode DEF IgnoresApplication
  <2>6. CASE ~IgnoresApplication /\ m # "MIN"
    <3>1. /\ usbd_app_fd' = AfterWrite
          /\ gadget' = gadget \/ gadget' \in usbd_set_usb_mode(gadget, m)
      BY <2>1, <2>6 DEF ServeRequest
    <3> QED BY <1>0, <2>2, <2>3, <2>6, <3>1, SetMode DEF IgnoresApplication
  <2> QED BY <2>4, <2>5, <2>6
<1> QED BY <1>1, <1>2, <1>3

\* The steps of the world outside, the daemon's own included in Next.
LEMMA Steps ==
  ASSUME [Next]_vars
  PROVE  \/ UNCHANGED usbd_mode /\ (Select \/ Uevent \/ DeviceEvent \/ Accept \/ SocketEvent)
         \/ /\ UNCHANGED usbd_mode
            /\ \/ \E s \in Cable : CableChanges(s)
               \/ \E m \in DevMsg : DriverPosts(m)
               \/ AppConnects
               \/ \E c \in Conn, m \in AppReq : AppRequests(c, m)
               \/ AppDies
         \/ UNCHANGED vars
BY DEF Next, Daemon, World

\* What Tell and AfterWrite return.
LEMMA TellType ==
  ASSUME TypeOK, NEW c, NEW s \in State
  PROVE  /\ Tell(c, s) \in [Conn -> State]
         /\ \A d \in Conn : d # c => Tell(c, s)[d] = told[d]
         /\ c \in alive => Tell(c, s)[c] = IF s # "DEFAULT" THEN s ELSE told[c]
         /\ AfterWrite \in Conn \cup {-1}
         /\ AfterWrite \in {usbd_app_fd, -1}
BY DEF Tell, AfterWrite, TypeOK

\* The state and the notice of a driver message that is not ignored.
LEMMA DeviceState ==
  ASSUME DeviceEvent
  PROVE  \/ UNCHANGED <<usbd_current_state, told>>
         \/ /\ usbd_curr_cable_status = "USB" /\ current_usb_online
            /\ usbd_current_state' = "ENUM_IN_PROGRESS"
            /\ told' = IF usbd_app_fd # -1 THEN Tell(usbd_app_fd, "ENUM_IN_PROGRESS") ELSE told
         \/ /\ usbd_curr_cable_status = "USB" /\ current_usb_online
            /\ usbd_current_state' = "ENUMERATED" /\ UNCHANGED told
<1> DEFINE m == Head(devq)
           first == HostPresent /\ m.enum = "get_desc" /\ usb_get_des_count = 0
           done == HostPresent /\ m.enum = "enumerated"
<1>1. CASE usbd_curr_cable_status = "FACTORY"
  BY <1>1 DEF DeviceEvent, FactoryDeviceEvent
<1>2. CASE usbd_curr_cable_status # "FACTORY"
  <2>1. NormalDeviceEvent(m)
    BY <1>2 DEF DeviceEvent
  <2>2. /\ usbd_current_state' = (CASE first -> "ENUM_IN_PROGRESS"
                                    [] done  -> "ENUMERATED"
                                    [] OTHER -> usbd_current_state)
        /\ told' = IF first /\ usbd_app_fd # -1
                   THEN Tell(usbd_app_fd, "ENUM_IN_PROGRESS") ELSE told
    BY <2>1, Zenon DEF NormalDeviceEvent
  <2>3. ~(first /\ done)
    OBVIOUS
  <2>4. first \/ done => usbd_curr_cable_status = "USB" /\ current_usb_online
    BY DEF HostPresent
  <2> HIDE DEF first, done
  <2> QED BY <2>2, <2>3, <2>4
<1> QED BY <1>1, <1>2

\* Every step keeps the types.
LEMMA TypeStep == IInv /\ [Next]_vars => TypeOK'
<1> SUFFICES ASSUME IInv, [Next]_vars PROVE TypeOK'
  OBVIOUS
<1> USE DEF IInv
<1>0. TypeOK /\ -1 \notin Conn
  BY BoundAssumption DEF Conn
<1>1. CASE UNCHANGED usbd_mode /\ Select
  BY <1>0, <1>1 DEF TypeOK, Select, daemon, world, history
<1>2. CASE UNCHANGED usbd_mode /\ Uevent
  <2>0. uevents' \in Nat
    BY <1>2 DEF Uevent, TypeOK, Ready
  <2>1. CASE UeventRead
    <3>1. UeventDone
      BY <2>1, UeventStep
    <3>2. usbd_current_state' \in State /\ current_usb_online' \in BOOLEAN
      BY <3>1 DEF UeventDone, State
    <3>3. usbd_app_fd' \in Conn \cup {-1} /\ told' \in [Conn -> State]
      <4>1. \A s \in State : Tell(usbd_app_fd, s) \in [Conn -> State]
        BY <1>0, TellType
      <4>2. AfterWrite \in Conn \cup {-1}
        BY <1>0 DEF AfterWrite, TypeOK
      <4> QED BY <1>0, <3>1, <3>2, <4>1, <4>2 DEF UeventDone, TypeOK
    <3> QED BY <1>0, <1>2, <2>0, <2>1, <3>1, <3>2, <3>3, Zenon DEF TypeOK, UeventDone, Uevent
  <2>2. CASE UNCHANGED <<daemon, told>> /\ missed' = TRUE
    BY <1>0, <1>2, <2>0, <2>2 DEF TypeOK, Uevent, daemon
  <2> QED BY <1>2, <2>1, <2>2, Zenon DEF Uevent
<1>3. CASE UNCHANGED usbd_mode /\ DeviceEvent
  <2>1. usbd_current_state' \in State /\ told' \in [Conn -> State]
    BY <1>0, <1>3, DeviceState, TellType DEF TypeOK, State
  <2>2. usbd_app_fd' \in Conn \cup {-1}
    BY <1>0, <1>3, DeviceStep, TellType DEF TypeOK, State
  <2> QED BY <1>0, <1>3, <2>1, <2>2, DeviceStep DEF TypeOK, DeviceEvent
<1>4. CASE UNCHANGED usbd_mode /\ Accept
  <2>1. /\ backlog' \subseteq Conn /\ usbd_app_fd' \in Conn \cup {-1}
        /\ told' \in [Conn -> State]
    BY <1>0, <1>4, AcceptStep, TellType DEF TypeOK
  <2> QED BY <1>0, <1>4, <2>1 DEF TypeOK, Accept
<1>5. CASE UNCHANGED usbd_mode /\ SocketEvent
  <2>1. usbd_app_fd' \in Conn \cup {-1} /\ requests' \in [Conn -> Seq(AppReq)]
    BY <1>0, <1>5, SocketStep, TellType DEF TypeOK, State
  <2> QED BY <1>0, <1>5, <2>1 DEF TypeOK, SocketEvent, history
<1>6. ASSUME UNCHANGED usbd_mode, NEW s \in Cable, CableChanges(s) PROVE TypeOK'
  BY <1>0, <1>6 DEF TypeOK, CableChanges, daemon, round, history
<1>7. ASSUME UNCHANGED usbd_mode, NEW m \in DevMsg, DriverPosts(m) PROVE TypeOK'
  BY <1>0, <1>7 DEF TypeOK, DriverPosts, daemon, round, history
<1>8. CASE UNCHANGED usbd_mode /\ AppConnects
  BY <1>0, <1>8, BoundAssumption DEF TypeOK, AppConnects, daemon, round, history, Conn
<1>9. ASSUME UNCHANGED usbd_mode, NEW c \in Conn, NEW m \in AppReq, AppRequests(c, m) PROVE TypeOK'
  BY <1>0, <1>9 DEF TypeOK, AppRequests, daemon, round, history
<1>10. CASE UNCHANGED usbd_mode /\ AppDies
  BY <1>0, <1>10 DEF TypeOK, AppDies, daemon, round, State
<1>11. CASE UNCHANGED vars
  BY <1>0, <1>11 DEF TypeOK, vars, daemon, round, world, history
<1> QED BY <1>1, <1>2, <1>3, <1>4, <1>5, <1>6, <1>7, <1>8, <1>9, <1>10, <1>11, Steps

\* Nothing is taken from a descriptor but by the branch that serves it.
LEMMA ReadyStep == IInv /\ [Next]_vars => Ready'
<1> SUFFICES ASSUME IInv, [Next]_vars PROVE Ready'
  OBVIOUS
<1> USE DEF IInv, Ready
<1>0. uevents \in Nat /\ devq \in Seq(DevMsg) /\ rset \subseteq {"uevent", "device", "server"}
  BY DEF TypeOK
<1>1. CASE Select
  BY <1>0, <1>1 DEF Select, world
<1>2. CASE Uevent
  BY <1>0, <1>2 DEF Uevent
<1>3. CASE DeviceEvent
  BY <1>0, <1>3 DEF DeviceEvent
<1>4. CASE Accept
  BY <1>0, <1>4 DEF Accept
<1>5. CASE SocketEvent
  BY <1>0, <1>5 DEF SocketEvent
<1>6. ASSUME NEW s \in Cable, CableChanges(s) PROVE Ready'
  BY <1>0, <1>6 DEF CableChanges, round
<1>7. ASSUME NEW m \in DevMsg, DriverPosts(m) PROVE Ready'
  BY <1>0, <1>7 DEF DriverPosts, round
<1>8. CASE AppConnects
  BY <1>0, <1>8 DEF AppConnects, round
<1>9. ASSUME NEW c \in Conn, NEW m \in AppReq, AppRequests(c, m) PROVE Ready'
  BY <1>0, <1>9 DEF AppRequests, round
<1>10. CASE AppDies
  BY <1>0, <1>10 DEF AppDies, round
<1>11. CASE UNCHANGED vars
  BY <1>0, <1>11 DEF vars, round, world
<1> QED BY <1>1, <1>2, <1>3, <1>4, <1>5, <1>6, <1>7, <1>8, <1>9, <1>10, <1>11, Steps

\* Every step keeps the gadget and its loop devices in order.
LEMMA GadgetStep == IInv /\ [Next]_vars => Good(gadget')
<1> SUFFICES ASSUME IInv, [Next]_vars PROVE Good(gadget')
  OBVIOUS
<1> USE DEF IInv
<1>1. CASE Uevent
  BY <1>1, UeventStep DEF Uevent, UeventDone, daemon
<1>2. CASE DeviceEvent
  BY <1>2, DeviceStep
<1>3. CASE SocketEvent
  BY <1>3, SocketStep
<1>4. CASE UNCHANGED gadget
  BY <1>4
<1> QED BY <1>1, <1>2, <1>3, <1>4, Steps, Zenon
         DEF Select, Accept, CableChanges, DriverPosts, AppConnects, AppRequests, AppDies, vars, daemon

\* Every step keeps the state of usbd and the factory mode in line with the cable.
LEMMA StateStep == IInv /\ [Next]_vars => StateMatchesCable'
<1> SUFFICES ASSUME IInv, [Next]_vars PROVE StateMatchesCable'
  OBVIOUS
<1> USE DEF IInv
<1>1. CASE Uevent
  <2>1. CASE UeventRead
    <3>1. UeventDone
      BY <2>1, UeventStep
    <3> QED BY <3>1, Zenon DEF UeventDone, StateMatchesCable
  <2>2. CASE UNCHANGED daemon
    BY <2>2 DEF StateMatchesCable, daemon
  <2> QED BY <1>1, <2>1, <2>2 DEF Uevent
<1>2. CASE DeviceEvent
  <2>1. UNCHANGED <<current_usb_online, usbd_curr_cable_status>>
    BY <1>2 DEF DeviceEvent
  <2>2. usbd_curr_cable_status = "FACTORY" => gadget'.mode \in FactoryModes
    BY <1>2, DeviceStep DEF StateMatchesCable
  <2> QED BY <1>2, <2>1, <2>2, DeviceState DEF StateMatchesCable
<1>3. CASE SocketEvent
  BY <1>3, SocketStep DEF SocketEvent, StateMatchesCable
<1>4. CASE UNCHANGED <<gadget, current_usb_online, usbd_curr_cable_status, usbd_current_state>>
  BY <1>4 DEF StateMatchesCable
<1> QED BY <1>1, <1>2, <1>3, <1>4, Steps, Zenon
         DEF Select, Accept, CableChanges, DriverPosts, AppConnects, AppRequests, AppDies, vars, daemon

\* After every step a cable the daemon has not seen has a uevent waiting.
LEMMA CableStep == IInv /\ [Next]_vars => CableSeen'
<1> SUFFICES ASSUME IInv, [Next]_vars PROVE CableSeen'
  OBVIOUS
<1> USE DEF IInv, CableSeen
<1>0. uevents \in Nat /\ missed \in BOOLEAN
  BY DEF TypeOK
<1>1. CASE Uevent
  <2>1. CASE UeventRead
    BY <1>1, <2>1 DEF Uevent, UeventRead, readUsbSwitchState
  <2>2. CASE missed' = TRUE
    BY <2>2
  <2> QED BY <1>1, <2>1, <2>2, Zenon DEF Uevent
<1>2. ASSUME NEW s \in Cable, CableChanges(s) PROVE CableSeen'
  BY <1>0, <1>2 DEF CableChanges
<1>3. CASE UNCHANGED <<uevents, usbd_curr_cable_status, switch, missed>>
  BY <1>3
<1> QED BY <1>1, <1>2, <1>3, Steps, Zenon
         DEF Select, DeviceEvent, Accept, SocketEvent, DriverPosts, AppConnects, AppRequests, AppDies,
             vars, daemon, world, history

\* A notice goes to the connection that is served and to no other.
Notices ==
  /\ usbd_app_fd' \in {usbd_app_fd, -1}
  /\ \A c \in Conn : c # usbd_app_fd => told'[c] = told[c]

\* The branches of the loop tell only the application that is served.
LEMMA NoticeStep ==
  IInv /\ (Uevent \/ DeviceEvent \/ SocketEvent) => Notices
<1> SUFFICES ASSUME IInv, Uevent \/ DeviceEvent \/ SocketEvent PROVE Notices
  OBVIOUS
<1> USE DEF IInv
<1>1. AfterWrite \in {usbd_app_fd, -1}
  BY DEF AfterWrite
<1>2. \A s : \A c \in Conn : c # usbd_app_fd => Tell(usbd_app_fd, s)[c] = told[c]
  BY DEF Tell, TypeOK
<1>3. CASE Uevent
  <2>1. CASE UeventRead
    <3>1. UeventDone
      BY <2>1, UeventStep
    <3>2. CASE UNCHANGED <<usbd_app_fd, told>>
      BY <3>2 DEF Notices
    <3>3. CASE /\ usbd_app_fd' = AfterWrite
               /\ told' = IF usbd_app_fd = -1 THEN told ELSE Tell(usbd_app_fd, usbd_current_state')
      BY <1>1, <1>2, <3>3 DEF Notices
    <3> QED BY <3>1, <3>2, <3>3 DEF UeventDone
  <2>2. CASE UNCHANGED <<daemon, told>>
    BY <2>2 DEF Notices, daemon
  <2> QED BY <1>3, <2>1, <2>2 DEF Uevent
<1>4. CASE DeviceEvent
  <2>1. usbd_app_fd' \in {usbd_app_fd, -1}
    BY <1>1, <1>4, DeviceStep
  <2>2. told' = told \/ told' = Tell(usbd_app_fd, "ENUM_IN_PROGRESS")
    BY <1>4, DeviceState
  <2> QED BY <1>2, <2>1, <2>2 DEF Notices
<1>5. CASE SocketEvent
  BY <1>1, <1>5, SocketStep DEF Notices, SocketEvent, history
<1> QED BY <1>3, <1>4, <1>5

\* Every step keeps what is known of connections.
LEMMA ConnectionsStep == IInv /\ [Next]_vars => Connections'
<1> SUFFICES ASSUME IInv, [Next]_vars PROVE Connections'
  OBVIOUS
<1> USE DEF IInv
<1>0. /\ usbd_app_fd \in Conn \cup {-1} /\ conns \in 0 .. MaxConn
      /\ backlog \subseteq Conn /\ alive \subseteq Conn /\ Conn \subseteq Nat /\ -1 \notin Conn
      /\ told \in [Conn -> State]
  BY BoundAssumption DEF TypeOK, Conn
<1>1. CASE /\ Uevent \/ DeviceEvent \/ SocketEvent
           /\ UNCHANGED usbd_mode
  <2>1. Notices /\ UNCHANGED <<conns, backlog, alive>>
    BY <1>1, NoticeStep, Zenon DEF Uevent, DeviceEvent, SocketEvent
  <2>2. usbd_app_fd' <= conns'
    BY <1>0, <2>1 DEF Notices, Connections
  <2>3. \A c \in backlog' : c <= conns' /\ c # usbd_app_fd' /\ told'[c] = "DEFAULT"
    BY <1>0, <2>1 DEF Notices, Connections
  <2>4. \A c \in Conn : c > conns' => told'[c] = "DEFAULT"
    BY <1>0, <2>1 DEF Notices, Connections
  <2>5. usb_alt_mode' => alive' = {} /\ backlog' = {} /\ usbd_app_fd' = -1
    BY <1>1, <2>1 DEF Notices, Connections, usb_alt_mode
  <2> QED BY <2>2, <2>3, <2>4, <2>5 DEF Connections
<1>2. CASE Accept /\ UNCHANGED usbd_mode
  <2>1. PICK c \in backlog :
           /\ backlog' = backlog \ {c}
           /\ usbd_app_fd' = IF usbd_app_fd = -1 THEN c ELSE usbd_app_fd
           /\ told' = IF usbd_curr_cable_status # "FACTORY"
                      THEN Tell(c, usbd_current_state) ELSE told
    BY <1>2, AcceptStep
  <2>2. UNCHANGED <<conns, alive>>
    BY <1>2 DEF Accept
  <2>3. \A d \in Conn : d # c => told'[d] = told[d]
    BY <1>0, <2>1 DEF Tell
  <2>4. ~usb_alt_mode /\ ~usb_alt_mode'
    BY <1>2, <2>1 DEF Connections, usb_alt_mode
  <2> QED BY <1>0, <2>1, <2>2, <2>3, <2>4 DEF Connections
<1>3. CASE AppConnects /\ UNCHANGED usbd_mode
  <2>1. /\ conns' = conns + 1 /\ backlog' = backlog \cup {conns + 1} /\ conns < MaxConn
        /\ UNCHANGED <<usbd_app_fd, told>> /\ ~usb_alt_mode /\ ~usb_alt_mode'
    BY <1>3 DEF AppConnects, daemon, history, usb_alt_mode
  <2>2. conns + 1 \in Conn
    BY <1>0, <2>1, BoundAssumption DEF Conn
  <2> QED BY <1>0, <2>1, <2>2 DEF Connections
<1>4. CASE AppDies /\ UNCHANGED usbd_mode
  BY <1>0, <1>4 DEF AppDies, daemon, Connections, usb_alt_mode
<1>5. CASE UNCHANGED <<usbd_mode, usbd_app_fd, conns, backlog, alive, told>>
  BY <1>5 DEF Connections, usb_alt_mode
<1> QED BY <1>1, <1>2, <1>3, <1>4, <1>5, Steps, Zenon
         DEF Select, CableChanges, DriverPosts, AppRequests, vars, daemon, world, history

\* After every step the application that is served knows the state.
LEMMA ToldStep == IInv /\ [Next]_vars => AppTold'
<1> SUFFICES ASSUME IInv, [Next]_vars PROVE AppTold'
  OBVIOUS
<1> USE DEF IInv
<1>0. /\ usbd_app_fd \in Conn \cup {-1} /\ alive \subseteq Conn
      /\ -1 \notin alive /\ told \in [Conn -> State]
  BY BoundAssumption DEF TypeOK, Conn
<1>1. AfterWrite \in alive => AfterWrite = usbd_app_fd
  BY <1>0 DEF AfterWrite
<1>2. CASE Uevent
  <2>1. CASE UeventRead
    <3>1. UeventDone /\ alive' = alive
      BY <1>2, <2>1, UeventStep DEF Uevent
    <3>2. CASE switch = "FACTORY"
      BY <3>1, <3>2 DEF UeventDone, AppTold
    <3>3. CASE usb_alt_mode
      BY <3>1, <3>3 DEF AppTold, Connections
    <3>4. CASE ~usb_alt_mode /\ switch # "FACTORY"
      <4>1. /\ usbd_app_fd' = AfterWrite
            /\ told' = IF usbd_app_fd = -1 THEN told ELSE Tell(usbd_app_fd, usbd_current_state')
            /\ usbd_current_state' \in {"ATTACHED", "DETACHED"}
        BY <3>1, <3>4 DEF UeventDone
      <4>2. usbd_app_fd' \in alive => told'[usbd_app_fd'] = usbd_current_state'
        BY <1>0, <1>1, <4>1 DEF Tell
      <4> QED BY <3>1, <4>1, <4>2 DEF AppTold
    <3> QED BY <3>2, <3>3, <3>4
  <2>2. CASE UNCHANGED <<daemon, told>>
    BY <1>2, <2>2 DEF Uevent, daemon, AppTold
  <2> QED BY <1>2, <2>1, <2>2 DEF Uevent
<1>3. CASE DeviceEvent
  <2>1. usbd_app_fd' \in alive' => usbd_app_fd' = usbd_app_fd /\ usbd_app_fd \in alive
    BY <1>1, <1>3, DeviceStep DEF DeviceEvent
  <2>2. UNCHANGED usbd_curr_cable_status
    BY <1>3 DEF DeviceEvent
  <2>3. CASE UNCHANGED <<usbd_current_state, told>>
    BY <2>1, <2>2, <2>3 DEF AppTold
  <2>4. CASE /\ usbd_current_state' = "ENUM_IN_PROGRESS"
             /\ told' = IF usbd_app_fd # -1 THEN Tell(usbd_app_fd, "ENUM_IN_PROGRESS") ELSE told
    <3>1. usbd_app_fd \in alive => told'[usbd_app_fd] = "ENUM_IN_PROGRESS"
      BY <1>0, <2>4 DEF Tell
    <3> QED BY <2>1, <2>4, <3>1 DEF AppTold
  <2>5. CASE /\ usbd_curr_cable_status = "USB" /\ current_usb_online
             /\ usbd_current_state' = "ENUMERATED" /\ UNCHANGED told
    <3>1. usbd_current_state \in {"ATTACHED", "ENUM_IN_PROGRESS", "ENUMERATED"}
      BY <2>5 DEF StateMatchesCable, TypeOK, State
    <3> QED BY <2>1, <2>5, <3>1 DEF AppTold
  <2> QED BY <1>3, <2>3, <2>4, <2>5, DeviceState
<1>4. CASE Accept
  <2>1. PICK c \in backlog :
           /\ backlog' = backlog \ {c}
           /\ usbd_app_fd' = IF usbd_app_fd = -1 THEN c ELSE usbd_app_fd
           /\ told' = IF usbd_curr_cable_status # "FACTORY"
                      THEN Tell(c, usbd_current_state) ELSE told
    BY <1>4, AcceptStep
  <2>2. UNCHANGED <<usbd_curr_cable_status, usbd_current_state, alive>>
    BY <1>4 DEF Accept
  <2>3. c \in Conn /\ c # usbd_app_fd /\ told[c] = "DEFAULT"
    BY <2>1 DEF Connections, TypeOK
  <2>4. CASE usbd_app_fd = -1 /\ usbd_curr_cable_status # "FACTORY"
    <3>1. c \in alive => told'[c] = usbd_current_state
      BY <1>0, <2>1, <2>3, <2>4 DEF Tell
    <3> QED BY <2>1, <2>2, <2>4, <3>1 DEF AppTold
  <2>5. CASE usbd_app_fd # -1
    <3>1. usbd_app_fd' = usbd_app_fd /\ told'[usbd_app_fd] = told[usbd_app_fd]
      BY <1>0, <2>1, <2>3, <2>5 DEF Tell
    <3> QED BY <2>2, <3>1 DEF AppTold
  <2> QED BY <2>2, <2>4, <2>5 DEF AppTold
<1>5. CASE SocketEvent
  <2>1. usbd_app_fd' \in alive' => usbd_app_fd' = usbd_app_fd /\ usbd_app_fd \in alive
    BY <1>0, <1>1, <1>5, SocketStep DEF SocketEvent
  <2> QED BY <1>5, <2>1 DEF SocketEvent, history, AppTold
<1>6. CASE AppConnects
  <2>1. alive' = {conns + 1} /\ UNCHANGED usbd_app_fd
    BY <1>6 DEF AppConnects, daemon
  <2>2. usbd_app_fd # conns + 1
    BY BoundAssumption DEF Connections, TypeOK, Conn
  <2> QED BY <2>1, <2>2 DEF AppTold
<1>7. CASE AppDies
  BY <1>7 DEF AppDies, AppTold
<1>8. CASE UNCHANGED <<usbd_app_fd, usbd_curr_cable_status, usbd_current_state, alive, told>>
  BY <1>8 DEF AppTold
<1> QED BY <1>2, <1>3, <1>4, <1>5, <1>6, <1>7, <1>8, Steps, Zenon
         DEF Select, CableChanges, DriverPosts, AppRequests, vars, daemon, world, history

\* The start-up establishes the invariant.
LEMMA InitInv == Init => IInv /\ Follows(gadget.mode, tethering_enabled)
<1> SUFFICES ASSUME Init PROVE IInv /\ Follows(gadget.mode, tethering_enabled)
  OBVIOUS
<1>1. TypeOK
  <2>1. /\ usbd_mode \in StartupMode /\ switch \in Cable
        /\ usbd_curr_cable_status = switch /\ current_usb_online = (switch # "UNKNOWN")
        /\ usbd_current_state = IF switch # "UNKNOWN" THEN "ATTACHED" ELSE "DEFAULT"
        /\ usbd_app_fd = -1 /\ tethering_enabled = 0
        /\ rset = {} /\ rset_apps = {} /\ uevents \in 0 .. 1 /\ devq = <<>>
        /\ conns = 0 /\ backlog = {} /\ alive = {}
        /\ requests = [c \in Conn |-> <<>>]
        /\ told = [c \in Conn |-> "DEFAULT"] /\ missed = FALSE
    BY Zenon DEF Init
  <2>2. requests \in [Conn -> Seq(AppReq)] /\ devq \in Seq(DevMsg)
    BY <2>1
  <2>3. current_usb_online \in BOOLEAN /\ usbd_current_state \in State
    BY <2>1 DEF State
  <2>4. told \in [Conn -> State]
    BY <2>1 DEF State
  <2>5. missed \in BOOLEAN /\ usbd_app_fd \in Conn \cup {-1} /\ tethering_enabled \in {0, 1}
    BY <2>1, Zenon
  <2>6. uevents \in Nat /\ conns \in 0 .. MaxConn
    BY <2>1, BoundAssumption
  <2>7. /\ rset \subseteq {"uevent", "device", "server"} /\ rset_apps \subseteq Conn
        /\ backlog \subseteq Conn /\ alive \subseteq Conn
    BY <2>1, Zenon
  <2> QED BY <2>1, <2>2, <2>3, <2>4, <2>5, <2>6, <2>7, Zenon DEF TypeOK
<1>2. Ready
  BY DEF Init, Ready
<1>3. Connections
  BY BoundAssumption DEF Init, Connections, Conn
<1>4. /\ Good(gadget) /\ Follows(gadget.mode, tethering_enabled)
      /\ switch = "FACTORY" => gadget.mode \in FactoryModes
  <2>1. PICK c \in cdrom_smart_version([mounted |-> FALSE, cur |-> 0, bound |-> {}, leak |-> {}]),
             adb \in AdbProperty, m \in FactoryModes :
       LET g == [mode |-> "MIN", cdrom |-> FALSE, msc |-> FALSE, driver |-> "MIN", cd |-> c]
       IN  gadget \in CASE switch = "FACTORY" -> usbd_set_usb_mode(g, m)
                        [] switch = "USB" /\ usb_alt_mode ->
                             usbd_set_usb_mode(g, default_mode(usbd_mode, adb))
                        [] OTHER -> {g}
    BY Zenon DEF Init
  <2> DEFINE g == [mode |-> "MIN", cdrom |-> FALSE, msc |-> FALSE, driver |-> "MIN", cd |-> c]
  <2>2. c \in Image /\ Tracked(c)
    BY SmartVersion, Zenon
  <2>3. Good(g)
    BY <2>2 DEF Good, Gadget, Consistent, Mode, CdromModes, MscModes
  <2>4. Follows(g.mode, 0)
    BY DEF Follows, RndisModes, BptoolsModes, TabletModes
  <2>5. /\ switch = "FACTORY" => gadget \in usbd_set_usb_mode(g, m)
        /\ switch = "USB" /\ usb_alt_mode =>
             gadget \in usbd_set_usb_mode(g, default_mode(usbd_mode, adb))
        /\ switch # "FACTORY" /\ ~(switch = "USB" /\ usb_alt_mode) => gadget = g
    BY <2>1
  <2> HIDE DEF g
  <2>6. usbd_mode \in StartupMode /\ tethering_enabled = 0
    BY DEF Init
  <2>7. CASE switch = "FACTORY"
    BY <2>3, <2>5, <2>7, SetMode, FactoryMode
  <2>8. CASE switch = "USB" /\ usb_alt_mode
    BY <2>3, <2>5, <2>6, <2>8, SetMode, DefaultMode
  <2>9. CASE switch # "FACTORY" /\ ~(switch = "USB" /\ usb_alt_mode)
    BY <2>3, <2>4, <2>5, <2>6, <2>9
  <2> QED BY <2>7, <2>8, <2>9
<1>5. StateMatchesCable
  BY <1>4, Zenon DEF Init, StateMatchesCable
<1>6. AppTold /\ CableSeen
  BY DEF Init, AppTold, CableSeen
<1> QED BY <1>1, <1>2, <1>3, <1>4, <1>5, <1>6 DEF IInv

\* The inductive invariant: the select() loop, whatever order its four handlers
\* run in and whatever the cable, the driver and the application do between
\* them, keeps the daemon's picture of all three.
THEOREM DaemonInvariant == Spec => []IInv
<1>1. IInv /\ [Next]_vars => IInv'
  <2> SUFFICES ASSUME IInv, [Next]_vars PROVE IInv'
    OBVIOUS
  <2>1. TypeOK' /\ Ready' /\ Connections'
    BY TypeStep, ReadyStep, ConnectionsStep
  <2>2. Good(gadget)'
    BY GadgetStep DEF Good, Gadget, Image, Consistent, Tracked
  <2>3. StateMatchesCable' /\ AppTold' /\ CableSeen'
    BY StateStep, ToldStep, CableStep
  <2> QED BY <2>1, <2>2, <2>3 DEF IInv
<1> QED BY InitInv, <1>1, PTL DEF Spec

\* process_usb_uevent_message() and the device node's branch of main() agree on
\* the cable: enumeration states exist only under a USB cable, and a factory
\* cable means a factory mode.
THEOREM CableState == Spec => []StateMatchesCable
<1>1. IInv => StateMatchesCable
  BY DEF IInv
<1> QED BY <1>1, DaemonInvariant, PTL

\* No caller of usbd_set_usb_mode() leaves a cdrom parameter or the mass storage
\* function of an earlier mode behind.
THEOREM GadgetHooks == Spec => []GadgetMatchesMode
<1>1. IInv => GadgetMatchesMode
  BY DEF IInv, Good, Consistent, GadgetMatchesMode
<1> QED BY <1>1, DaemonInvariant, PTL

\* Whatever calls of cdrom_partition_mount() fail, and in whatever order modes
\* are entered and left, every loop device bound to the image will be released.
THEOREM LoopDevices == Spec => []LoopDeviceTracked
<1>1. IInv => LoopDeviceTracked
  BY DEF IInv, Good, Tracked, LoopDeviceTracked
<1> QED BY <1>1, DaemonInvariant, PTL

\* The application that is served, however often it died and connected again,
\* has been told the present state of the cable.
THEOREM ApplicationTold == Spec => []AppTold
<1>1. IInv => AppTold
  BY DEF IInv
<1> QED BY <1>1, DaemonInvariant, PTL

\* No change of the cable is missed but by a failure to read the switch.
THEOREM CableNeverMissed == Spec => []CableSeen
<1>1. IInv => CableSeen
  BY DEF IInv
<1> QED BY <1>1, DaemonInvariant, PTL

\* As long as the adb property can be read (usbd_get_adb_property() does not
\* return -1), an alternate mode is an RNDIS mode exactly while tethering is
\* enabled.
THEOREM TetheringFollowed ==
  ASSUME -1 \notin AdbProperty
  PROVE  Spec => []TetheringMatchesMode
<1> DEFINE F == Follows(gadget.mode, tethering_enabled)
<1>1. Init => F
  BY InitInv
<1>2. IInv /\ F /\ [Next]_vars => F'
  <2> SUFFICES ASSUME IInv, F, [Next]_vars PROVE F'
    OBVIOUS
  <2>0. UNCHANGED usbd_mode
    BY Steps DEF vars
  <2> SUFFICES Follows(gadget'.mode, tethering_enabled')
    BY <2>0 DEF Follows
  <2>1. CASE Uevent
    BY <2>1, UeventStep DEF Uevent, UeventDone, IInv, daemon
  <2>2. CASE DeviceEvent
    BY <2>2, DeviceStep DEF IInv
  <2>3. CASE SocketEvent
    <3>1. UNCHANGED tethering_enabled
      BY <2>3, Zenon DEF SocketEvent
    <3>2. CASE usb_alt_mode
      BY <2>3, <3>1, <3>2, SocketStep DEF IInv, Connections
    <3>3. CASE ~usb_alt_mode
      BY <3>3 DEF usb_alt_mode, Follows
    <3> QED BY <3>2, <3>3
  <2>4. CASE UNCHANGED <<gadget, tethering_enabled>>
    BY <2>4
  <2> QED BY <2>1, <2>2, <2>3, <2>4, Steps, Zenon
           DEF Select, Accept, CableChanges, DriverPosts, AppConnects, AppRequests, AppDies, vars, daemon
<1>3. F => TetheringMatchesMode
  BY DEF Follows, TetheringMatchesMode
<1> HIDE DEF F
<1> QED BY <1>1, <1>2, <1>3, DaemonInvariant, PTL DEF Spec
=============================================================================
