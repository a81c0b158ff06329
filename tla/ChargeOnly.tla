----------------------------- MODULE ChargeOnly -----------------------------
(***************************************************************************)
(* charge_only_mode: what the phone runs when it was switched on by a      *)
(* charger.  One loop serves a sorted list of alarms and, when none is     *)
(* due, one key or the pending uevents.                                    *)
(*                                                                         *)
(* The functions of main.c that change the list of alarms, the display,    *)
(* the mode file and the power state work on the record com and are        *)
(* operators from com to the set of its outcomes; their calls nest as in   *)
(* the code.  Times are what is left until an alarm is due, in units of    *)
(* the animation's half second; the drawing is left out, and with it the   *)
(* percentage that powerup_latch holds back.                               *)
(***************************************************************************)
EXTENDS LaunchSequence

CONSTANTS ANIMATION_TIMEOUT, FirstAnimation, PowerKeyHold, BrightTime, DimTime,
          KeyDevice,      \* the keys of /dev/input/event0, event1, ...
          SupplySteps,    \* the changes of supply the charger hardware makes
          OtherUevents,   \* the kernel also reports other devices
          VoltageChanges, \* the battery crosses POWERUP_VOLTAGE
          RebootMayFail,  \* reboot() may return
          ScreenMayFail,  \* screen_init() may fail
          MaxKeys         \* bound: key events a device has pending

ASSUME TimesAscend ==
  /\ ANIMATION_TIMEOUT \in Nat \ {0} /\ PowerKeyHold \in Nat /\ FirstAnimation \in Nat
  /\ BrightTime \in Nat /\ DimTime \in Nat
  /\ ANIMATION_TIMEOUT < PowerKeyHold /\ PowerKeyHold <= FirstAnimation
  /\ FirstAnimation < BrightTime /\ BrightTime < DimTime

\* A key that is released is released on the device it was pressed on.
ASSUME OnePowerKey ==
  /\ KeyDevice \in Seq(SUBSET {"power", "release", "up", "down", "other"})
  /\ \A d, e \in DOMAIN KeyDevice :
       KeyDevice[d] \cap {"power", "release"} # {} /\ KeyDevice[e] \cap {"power", "release"} # {} => d = e

\* The phone has one connector: a supply is taken off before another is put on.
ASSUME OneConnector == \A p \in SupplySteps : "none" \in {p[1], p[2]}

VARIABLES
  com,       \* the process and what it controls: see Down below
  counter, launched,       \* the statics of launch_sequence() and main()
  keys,      \* per input device: the key events not read yet
  held,      \* the power key is down
  lastPower, \* history: the last event of the power key that was read
  uevent,    \* the last uevent in the socket: its sender, or "none"
  supply,    \* what charges the phone: "none", "ac" or "usb"
  voltage    \* voltage_level() >= POWERUP_VOLTAGE

vars == <<com, counter, launched, keys, held, lastPower, uevent, supply, voltage>>
user == <<counter, launched, keys, held, lastPower>>

Supply == {"none", "ac", "usb"}

\* The process is not started, in uev_get(10000), in the loop ("down", "starting",
\* "running"), or has switched the phone off or restarted it ("off",
\* "outofcharge").  alarms are pairs of a callback f and a time t, the next one
\* first.  brightness is "off", "dim" or "bright".  file and flash are the mode
\* file /data/chargeonlymode as programs read it and on the flash: "" or
\* "charging".
Down == [phase |-> "down", alarms |-> <<>>, brightness |-> "bright",
         blank |-> FALSE, shutdown |-> FALSE, powerup |-> FALSE,
         file |-> "", flash |-> ""]

-----------------------------------------------------------------------------
(* alarm.c *)

\* The loop of alarm_set_relative(): in front of the first alarm that is due later.
With(alarms, e) ==
  LET later == {k \in 1 .. Len(alarms) + 1 : k = Len(alarms) + 1 \/ alarms[k].t > e.t}
      n == (CHOOSE k \in later : \A j \in later : k <= j) - 1
  IN  SubSeq(alarms, 1, n) \o <<e>> \o SubSeq(alarms, n + 1, Len(alarms))

alarm_set_relative(c, f, t) == [c EXCEPT !.alarms = With(@, [f |-> f, t |-> t])]

\* The loop of alarm_cancel(): what it leaves of the first n alarms.
Without(alarms, f) ==
  LET kept[n \in 0 .. Len(alarms)] ==
        IF n = 0 THEN <<>>
        ELSE IF alarms[n].f = f THEN kept[n - 1] ELSE Append(kept[n - 1], alarms[n])
  IN  kept[Len(alarms)]

\* alarm_cancel(): every alarm with this function.
alarm_cancel(c, f) == [c EXCEPT !.alarms = Without(@, f)]

Pending(c, f) == \E i \in DOMAIN c.alarms : c.alarms[i].f = f
Due(c) == c.alarms # <<>> /\ c.alarms[1].t = 0

\* The three screen alarms are cancelled together in two places.
cancel_screen_alarms(c) ==
  alarm_cancel(alarm_cancel(alarm_cancel(c, "screen_brightness_animation_alarm2"),
                            "screen_brightness_animation_alarm1"), "animation_alarm")

-----------------------------------------------------------------------------
(* main.c: mode file and display *)

\* save_mode(): written, not yet on the flash.
save_mode(c) == [c EXCEPT !.file = "charging"]

\* clear_mode(): truncate() and sync().
clear_mode(c) == [c EXCEPT !.file = "", !.flash = ""]

display_blank(c) == [c EXCEPT !.blank = TRUE]
display_unblank(c) == [c EXCEPT !.blank = FALSE]

\* reboot(): it does not return unless it fails.
reboot(c, how) ==
  {[c EXCEPT !.phase = how]} \cup IF RebootMayFail THEN {c} ELSE {}

\* screen_brightness_animation_alarm2(): the display goes dark; a shutdown that
\* was asked for happens here.
screen_brightness_animation_alarm2(c) ==
  LET dark == alarm_cancel([c EXCEPT !.brightness = "off"], "animation_alarm")
  IN  IF dark.shutdown
      THEN {IF r.phase = "off" THEN r ELSE display_blank(r) :
              r \in reboot(clear_mode(dark), "off")}
      ELSE {display_blank(dark)}

\* A slip: the display is kept bright for another period.
alarm1_stays_bright(c) ==
  {alarm_set_relative(c, "screen_brightness_animation_alarm1", BrightTime)}

screen_brightness_animation_alarm1(c) ==
  {alarm_set_relative([c EXCEPT !.brightness = "dim"],
                      "screen_brightness_animation_alarm2", DimTime)}

screen_brightness_animation_start(c, t) ==
  LET lit == [display_unblank(c) EXCEPT !.brightness = "bright"]
  IN  alarm_set_relative(
        alarm_set_relative(lit, "screen_brightness_animation_alarm1", BrightTime),
        "animation_alarm", t)

\* power_key_alarm(): with a failed reboot the loop goes on, without alarms.
power_key_alarm(c) == reboot(clear_mode(cancel_screen_alarms(c)), "outofcharge")

\* power_event() for the supplies that ac/online and usb/online were read from,
\* one after the other.
power_event(c, first, second) ==
  LET seen == [c EXCEPT !.powerup = voltage]
      quit == [seen EXCEPT !.shutdown = TRUE]
  IN  IF ~c.shutdown /\ first # "ac" /\ second # "usb"
      THEN screen_brightness_animation_alarm2(
             alarm_cancel(alarm_cancel(quit, "screen_brightness_animation_alarm2"),
                          "screen_brightness_animation_alarm1"))
      ELSE {seen}

\* animation_alarm(): it arms itself again before it looks at the supply.
animation_alarm(c, first, second) ==
  power_event(alarm_set_relative(c, "animation_alarm", ANIMATION_TIMEOUT), first, second)

\* A slip: the running animation is not cancelled before a new one starts.
update_screen_on_wakeup_key_twice(c) ==
  LET rest == alarm_cancel(c, "screen_brightness_animation_alarm2")
      dark == alarm_cancel(rest, "screen_brightness_animation_alarm1")
  IN  IF Pending(c, "screen_brightness_animation_alarm1")
      THEN screen_brightness_animation_alarm2(dark)
      ELSE {screen_brightness_animation_start(dark, ANIMATION_TIMEOUT)}

\* update_screen_on_wakeup_key(): the power key darkens a bright display and
\* lights any other.
update_screen_on_wakeup_key(c) ==
  IF Pending(c, "screen_brightness_animation_alarm1")
  THEN screen_brightness_animation_alarm2(cancel_screen_alarms(c))
  ELSE {screen_brightness_animation_start(cancel_screen_alarms(c), ANIMATION_TIMEOUT)}

update_screen_on_wakeup_key2(c) ==
  {screen_brightness_animation_start(cancel_screen_alarms(c), ANIMATION_TIMEOUT)}

-----------------------------------------------------------------------------
(* The phone and its user. *)

\* The changes of supply that can fall between two reads.
Nearby(s) == {s} \cup {d \in Supply : <<s, d>> \in SupplySteps}

\* power_supply_changed() in the charger driver.
SupplyChanges ==
  /\ com.phase \notin {"off", "outofcharge"}
  /\ supply' \in Nearby(supply) \ {supply}
  /\ uevent' = "charger"
  /\ UNCHANGED <<com, voltage>> /\ UNCHANGED user

\* Another driver reports; ev_get() only looks at the last message.
OtherUevent ==
  /\ OtherUevents /\ uevent # "other"
  /\ uevent' = "other"
  /\ UNCHANGED <<com, supply, voltage>> /\ UNCHANGED user

VoltageMoves ==
  /\ VoltageChanges
  /\ voltage' = ~voltage
  /\ UNCHANGED <<com, uevent, supply>> /\ UNCHANGED user

\* Keys reach the process once it has opened the devices.
KeyMoves ==
  \E d \in DOMAIN KeyDevice : \E k \in KeyDevice[d] :
    /\ com.phase \in {"starting", "running"}
    /\ Len(keys[d]) < MaxKeys
    /\ k = "power" => ~held
    /\ k = "release" => held
    /\ held' = IF k = "power" THEN TRUE ELSE IF k = "release" THEN FALSE ELSE held
    /\ keys' = [keys EXCEPT ![d] = Append(@, k)]
    /\ UNCHANGED <<com, counter, launched, lastPower, uevent, supply, voltage>>

\* Half a second passes.  An alarm that is overdue stays where it is in the list.
Tick ==
  /\ \E i \in DOMAIN com.alarms : com.alarms[i].t > 0
  /\ com' = [com EXCEPT !.alarms =
                [i \in DOMAIN com.alarms |->
                   [f |-> com.alarms[i].f, t |-> IF com.alarms[i].t > 0 THEN com.alarms[i].t - 1 ELSE 0]]]
  /\ UNCHANGED <<uevent, supply, voltage>> /\ UNCHANGED user

\* The kernel writes the mode file back.
WriteBack ==
  /\ com.flash # com.file
  /\ com' = [com EXCEPT !.flash = com.file]
  /\ UNCHANGED <<uevent, supply, voltage>> /\ UNCHANGED user

-----------------------------------------------------------------------------
(* main() *)

Init ==
  /\ com = Down
  /\ counter = 0 /\ launched = FALSE
  /\ keys = [d \in DOMAIN KeyDevice |-> <<>>]
  /\ held = FALSE /\ lastPower = "release"
  /\ uevent = "none"
  /\ supply \in {"ac", "usb"}
  /\ voltage \in BOOLEAN

\* Up to ev_init().  When screen_init() fails main() returns, and init starts
\* the service again.
Start ==
  /\ com.phase = "down"
  /\ \E ok \in {TRUE} \cup IF ScreenMayFail THEN {FALSE} ELSE {} :
       com' = IF ok THEN [save_mode(com) EXCEPT !.phase = "starting"]
              ELSE clear_mode(com)
  /\ counter' = 0 /\ launched' = FALSE
  /\ keys' = [d \in DOMAIN KeyDevice |-> <<>>]
  /\ lastPower' = "release" /\ uevent' = "none"
  /\ UNCHANGED <<held, supply, voltage>>

\* uev_get(10000) empties the socket; then the display is lit.
EnterLoop ==
  /\ com.phase = "starting"
  /\ uevent' = "none"
  /\ com' = [screen_brightness_animation_start(com, FirstAnimation)
               EXCEPT !.phase = "running"]
  /\ UNCHANGED <<supply, voltage>> /\ UNCHANGED user

\* get_device_state() reads the two supplies one after the other; left is the
\* uevent that is still unread.
LooksAtSupply(left) ==
  /\ supply' \in Nearby(supply)
  /\ uevent' = IF supply' = supply THEN left ELSE "charger"

\* alarm_process(): one alarm that is due.
alarm_process ==
  /\ com.phase = "running" /\ Due(com)
  /\ LET f == com.alarms[1].f
         c == [com EXCEPT !.alarms = Tail(@)]
     IN  \/ /\ f = "animation_alarm"
            /\ LooksAtSupply(uevent)
            /\ com' \in animation_alarm(c, supply, supply')
         \/ /\ f = "screen_brightness_animation_alarm1"
            /\ com' \in screen_brightness_animation_alarm1(c)
            /\ UNCHANGED <<uevent, supply>>
         \/ /\ f = "screen_brightness_animation_alarm2"
            /\ com' \in screen_brightness_animation_alarm2(c)
            /\ UNCHANGED <<uevent, supply>>
         \/ /\ f = "power_key_alarm"
            /\ com' \in power_key_alarm(c)
            /\ UNCHANGED <<uevent, supply>>
  /\ UNCHANGED voltage /\ UNCHANGED user

\* A slip: releasing the power key leaves its alarm armed.
HandleKey_keeps_alarm(c, k) ==
  CASE k = "power"   -> {IF c.powerup /\ ~Pending(c, "power_key_alarm")
                         THEN alarm_set_relative(c, "power_key_alarm", PowerKeyHold) ELSE c}
    [] k = "release" -> update_screen_on_wakeup_key(c)
    [] k = "other"   -> {c}
    [] OTHER         -> update_screen_on_wakeup_key2(c)

\* The switch of main() on a key.
HandleKey(c, k) ==
  CASE k = "power"   -> {IF c.powerup THEN alarm_set_relative(c, "power_key_alarm", PowerKeyHold)
                         ELSE c}
    [] k = "release" -> update_screen_on_wakeup_key(alarm_cancel(c, "power_key_alarm"))
    [] k = "other"   -> {c}
    [] OTHER         -> update_screen_on_wakeup_key2(c)

Quiet == com.phase = "running" /\ ~Due(com)

\* ev_get() and the switch: one event of the first device that has any.
ReadKey ==
  \E d \in DOMAIN keys :
    /\ Quiet /\ keys[d] # <<>>
    /\ \A e \in 1 .. d - 1 : keys[e] = <<>>
    /\ LET k == Head(keys[d])
       IN  /\ com' \in HandleKey(com, k)
           /\ \E l \in launch_sequence(counter, k) :
                counter' = l.counter /\ launched' = (launched \/ l.launched)
           /\ lastPower' = IF k \in {"power", "release"} THEN k ELSE lastPower
    /\ keys' = [keys EXCEPT ![d] = Tail(@)]
    /\ UNCHANGED <<held, uevent, supply, voltage>>

\* A slip: nothing is done on EVENT_BATTERY.
BatteryEvent_ignored ==
  uevent' = "none" /\ UNCHANGED <<com, supply>>

\* EVENT_BATTERY.
BatteryEvent ==
  /\ LooksAtSupply("none")
  /\ com' \in power_event(com, supply, supply')

\* ev_get() drains the socket and compares the last message with CHARGER_DRIVER.
ReadUevents ==
  /\ Quiet /\ uevent # "none"
  /\ \A d \in DOMAIN keys : keys[d] = <<>>
  /\ \/ uevent = "charger" /\ BatteryEvent
     \/ uevent = "other" /\ uevent' = "none" /\ UNCHANGED <<com, supply>>
  /\ UNCHANGED voltage /\ UNCHANGED user

Process == Start \/ EnterLoop \/ alarm_process \/ ReadKey \/ ReadUevents
World == SupplyChanges \/ OtherUevent \/ VoltageMoves \/ KeyMoves \/ WriteBack
Next == Process \/ World \/ Tick

Spec == Init /\ [][Next]_vars

\* The process is scheduled and time passes; the user, the charger and the
\* writeback owe nothing.
FairSpec == Spec /\ WF_vars(Process) /\ WF_vars(Tick)

-----------------------------------------------------------------------------
(* Properties *)

\* The list never holds an alarm twice, so the animation never runs at double
\* speed: the callbacks re-arm themselves and each other, and every key restarts
\* them.
NoAlarmTwice ==
  \A i, j \in DOMAIN com.alarms : com.alarms[i].f = com.alarms[j].f => i = j

\* Charge-only mode is left for the two reasons the code has. The phone restarts
\* only if the process has seen the power key go down and not come up again. It
\* decides to power the phone off only if the charger was gone at one of the two
\* moments at which it looked, and powers it off for no other reason.
LeftForAReason ==
  [][/\ com'.phase = "outofcharge" /\ com.phase # "outofcharge" => lastPower = "power"
     /\ com'.shutdown /\ ~com.shutdown => "none" \in {supply, supply'}
     /\ com'.phase = "off" => com'.shutdown]_vars

\* "When the charger is unplugged the device shall shutdown at once": a phone
\* that stays unplugged in the loop is powered off.
UnpluggedShutsDown ==
  (com.phase = "running" /\ supply = "none") ~>
    (supply # "none" \/ com.phase \in {"off", "outofcharge"})

\* The user is at the keys.
KeysUsed == held \/ \E d \in DOMAIN keys : keys[d] # <<>>

\* The uevent of an unplugged charger is acted on, whatever the display does,
\* unless a key or the uevent of another device comes after it.
UnplugNoticed ==
  (com.phase = "running" /\ supply = "none" /\ uevent = "charger") ~>
    (supply # "none" \/ com.shutdown \/ com.phase = "outofcharge" \/ KeysUsed
     \/ uevent = "other")

\* A display that is lit goes dark again once the keys are left alone.
DisplayGoesDark ==
  (com.phase = "running") ~>
    (com.brightness = "off" \/ com.phase # "running" \/ KeysUsed)
=============================================================================
