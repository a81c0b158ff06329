------------------------------ MODULE Sensors ------------------------------
(***************************************************************************)
(* libsensors: the calls activate() and poll() of the sensors library over *)
(* its four drivers. The framework makes one call of activate() at a time  *)
(* and another of its threads calls poll() for ever; no lock of the        *)
(* library keeps them apart.                                               *)
(*                                                                         *)
(* A sample is the records of one report up to its EV_SYN, numbered as     *)
(* they come, with the sensors it is for. Every driver has a queue of its  *)
(* own in the kernel, the proximity and the light driver both of the same  *)
(* device. The reader of a driver is the queue that EventFifo promises.    *)
(* The values, the delays and the accelerations that are passed on to the  *)
(* compass are left out, and so is a read() that fails.                    *)
(***************************************************************************)
EXTENDS Naturals, Sequences, FiniteSetsExt

CONSTANTS Count,        \* events the caller of poll() has room for
          Room,         \* samples that fit into a reader
          Mixes,        \* the sets of sensors that may be in use together
          MaxSamples,   \* a bound
          MaxCalls      \* a bound on the calls of activate()

ASSUME BoundsAssumption == Count \in Nat \ {0} /\ Room \in Nat \ {0}
ASSUME HistoryAssumption == MaxSamples \in Nat /\ MaxCalls \in Nat

Driver == <<"KXTF9", "Akm", "ISL29030P", "ISL29030L">>
Drivers == {Driver[j] : j \in DOMAIN Driver}
Sensor == {"A", "M", "O", "P", "L"}
Compass == {"M", "O"}

VARIABLES
  kxtf9,      \* [mEnabled, mOrientationEnabled, open, chip, asked]: chip is whether
              \* the chip runs, asked whether the constructor could ask for that
  akm,        \* [mEnabled, mPendingMask, flags]: flags are those of the driver
  isl,        \* for P and L: [mEnabled, open, chip]
  revents,    \* drivers with POLLIN in mPollFds
  wake,       \* messages in the pipe
  pc, i, count, nb,                \* of pollEvents() and the readEvents() it is in
  device, reader,                  \* samples of each driver in the kernel and in its reader
  used,                            \* the sensors in use
  calls, samples,                  \* history: their numbers
  made, off,  \* history: samples of each sensor, and those that saw it disabled
  out         \* history: the samples each sensor has returned

polling == <<revents, pc, i, count, nb>>
enabling == <<kxtf9, akm, isl, calls, used>>
history == <<samples, made, off>>
vars == <<polling, enabling, history, wake, device, reader, out>>

\* The drivers of a sensor's input device, and whether readEvents() returns
\* samples of it: those of the ISL29030 do not ask mEnabled.
DriverOf(s) == CASE s = "A" -> "KXTF9" [] s \in Compass -> "Akm"
                 [] s = "P" -> "ISL29030P" [] s = "L" -> "ISL29030L"
Returns(k, a, s) == CASE s = "A" -> k.mEnabled [] s \in Compass -> s \in a.mEnabled
                      [] OTHER -> TRUE

\* The samples driver d has not read yet, and those of sensor s among them.
Queue(d) == reader[d] \o device[d]
Unread(s) == LET q == Queue(DriverOf(s))
             IN  {q[j].n : j \in {j \in DOMAIN q : s \in q[j].has}}

\* The constructors find their chips on or off. One that cannot ask takes its chip
\* to be off. For the orientation the controller of the compass asks for the flag
\* of the accelerometer, which nobody sets.
NewKXTF9(on, asked) ==
  [mEnabled |-> on /\ asked, mOrientationEnabled |-> FALSE, open |-> on /\ asked,
   chip |-> on, asked |-> asked]
NewAkm(on, asked) ==
  [mEnabled |-> IF on /\ asked THEN {"M"} ELSE {}, mPendingMask |-> {},
   flags |-> IF on THEN Compass ELSE {}]
NewISL29030(on, asked) == [mEnabled |-> on /\ asked, open |-> on /\ asked, chip |-> on]

\* The first start, or one after the framework died with everything on.
Init ==
  /\ used \in Mixes
  /\ \E on \in BOOLEAN : \E asked \in {TRUE, ~on} :
       /\ kxtf9 = NewKXTF9(on, asked) /\ akm = NewAkm(on, asked)
       /\ isl = [s \in {"P", "L"} |-> NewISL29030(on, asked)]
  /\ revents = {} /\ wake = 0
  /\ pc = "idle" /\ i = 1 /\ count = 0 /\ nb = 0
  /\ device = [d \in Drivers |-> <<>>] /\ reader = [d \in Drivers |-> <<>>]
  /\ calls = 0 /\ samples = 0
  /\ made = [s \in Sensor |-> {}] /\ off = [s \in Sensor |-> {}]
  /\ out = [s \in Sensor |-> <<>>]
-----------------------------------------------------------------------------
(* activate(): the outcomes <<state, success>> of enable() of the drivers, whose *)
(* open() and ioctl() may fail. *)

\* A slip: the other user of the accelerometer is forgotten.
KeepsOnSlip(k, other) == FALSE
\* "don't turn the accelerometer off, if the orientation sensor is enabled", and
\* the other way round.
KeepsOn(k, other) == k[other]

\* open_device() may fail, which shows in the ioctl() after it.
Opened(open) == {open, TRUE}

\* KXTF9Sensor::enable() and enableOrientation(), which differ in whose flag they set.
Share(k, mine, other, en) ==
  CASE k[mine] = en -> {<<k, TRUE>>}
    [] ~k[mine] /\ en ->
         {<<[k EXCEPT ![mine] = TRUE, !.open = TRUE, !.chip = TRUE], TRUE>>}
           \cup {<<[k EXCEPT !.open = o], FALSE>> : o \in Opened(k.open)}
    [] k[mine] /\ ~en /\ KeepsOn(k, other) -> {<<[k EXCEPT ![mine] = FALSE], TRUE>>}
    [] OTHER ->
         {<<[k EXCEPT !.open = FALSE], FALSE>>} \cup
         IF k.open THEN {<<[k EXCEPT ![mine] = FALSE, !.open = FALSE, !.chip = FALSE], TRUE>>}
                   ELSE {}

\* AkmAotController::setEnabled() tells nobody that its ioctl() failed.
With(set, s, en) == IF en THEN set \cup {s} ELSE set \ {s}
setEnabled(flags, s, en) == {flags, With(flags, s, en)}

\* AkmSensor::enable()
AkmEnable(a, s, en) ==
  IF (s \in a.mEnabled) = en THEN {a}
  ELSE {[a EXCEPT !.mEnabled = With(@, s, en), !.flags = f] : f \in setEnabled(a.flags, s, en)}

\* ISL29030SensorP::enable(), for which a proximity sensor that cannot be
\* switched off is off; ISL29030SensorL::enable() keeps what it was asked for
\* even if that failed.
EnableP(p, en) ==
  IF p.mEnabled = en THEN {<<p, TRUE>>}
  ELSE {<<[p EXCEPT !.mEnabled = FALSE, !.open = FALSE], FALSE>>} \cup
       IF en \/ p.open THEN {<<[p EXCEPT !.mEnabled = en, !.open = en, !.chip = en], TRUE>>}
                       ELSE {}
EnableL(p, en) == {<<[r[1] EXCEPT !.mEnabled = en], r[2]>> : r \in EnableP(p, en)}

\* sensors_poll_context_t::activate(): a call that succeeds in switching
\* something on writes a message into the pipe.
activate(s, en) ==
  /\ s \in used /\ calls < MaxCalls /\ calls' = calls + 1
  /\ \E ok \in BOOLEAN :
       /\ wake' = IF en /\ ok THEN wake + 1 ELSE wake
       /\ \/ /\ s = "A"
             /\ \E r \in Share(kxtf9, "mEnabled", "mOrientationEnabled", en) : kxtf9' = r[1] /\ ok = r[2]
             /\ UNCHANGED <<akm, isl>>
          \/ /\ s = "O"
             /\ akm' \in AkmEnable(akm, s, en)
             /\ \E r \in Share(kxtf9, "mOrientationEnabled", "mEnabled", en) : kxtf9' = r[1] /\ ok = r[2]
             /\ UNCHANGED isl
          \/ /\ s = "M"
             /\ akm' \in AkmEnable(akm, s, en) /\ ok
             /\ UNCHANGED <<kxtf9, isl>>
          \/ /\ s \in {"P", "L"}
             /\ \E r \in IF s = "P" THEN EnableP(isl[s], en) ELSE EnableL(isl[s], en) :
                  isl' = [isl EXCEPT ![s] = r[1]] /\ ok = r[2]
             /\ UNCHANGED <<kxtf9, akm>>
  /\ off' = [t \in Sensor |-> IF Returns(kxtf9', akm', t) THEN off[t] ELSE off[t] \cup Unread(t)]
  /\ UNCHANGED <<polling, used, samples, made, device, reader, out>>

\* The sensors a report may be for, and the drivers that get it (external).
Report == {{"A"}, {"M"}, {"O"}, {"M", "O"}, {"P"}, {"L"}}
Into(has) == CASE has = {"A"} -> {"KXTF9"} [] has \subseteq Compass -> {"Akm"}
               [] OTHER -> {"ISL29030P", "ISL29030L"}

\* A chip that runs takes a sample (external).
Sample(has) ==
  LET x == [n |-> samples + 1, has |-> has]
  IN  /\ has \subseteq used /\ samples < MaxSamples /\ samples' = x.n
      /\ \/ has = {"A"} /\ kxtf9.chip
         \/ has \subseteq akm.flags
         \/ \E s \in {"P", "L"} : has = {s} /\ isl[s].chip
      /\ device' = [d \in Drivers |-> IF d \in Into(has) THEN Append(device[d], x) ELSE device[d]]
      /\ made' = [s \in Sensor |-> IF s \in has THEN made[s] \cup {x.n} ELSE made[s]]
      /\ off' = [s \in Sensor |-> IF s \in has /\ ~Returns(kxtf9, akm, s) THEN off[s] \cup {x.n} ELSE off[s]]
      /\ UNCHANGED <<polling, enabling, wake, reader, out>>
-----------------------------------------------------------------------------
(* pollEvents(), from one system call or sample to the next *)

driver == Driver[i]

\* The loop over the drivers goes on to the next one from j on with POLLIN, behind
\* the last one to poll(); without room left it ends, and the call with it.
Onward(j, c, r) ==
  LET ready == {k \in j .. Len(Driver) : Driver[k] \in r}
  IN  CASE c = 0 -> <<"idle", 1>>
        [] c > 0 /\ ready # {} -> <<"fill", Min(ready)>>
        [] OTHER -> <<"poll", 1>>
Goto(j, c, r) == pc' = Onward(j, c, r)[1] /\ i' = Onward(j, c, r)[2]

\* The framework calls poll().
Call ==
  /\ pc = "idle"
  /\ count' = Count
  /\ Goto(1, Count, revents)
  /\ UNCHANGED <<revents, nb, enabling, history, wake, device, reader, out>>

\* fill() waits in read() if there is nothing to read, unless the reader is full.
Stuck == pc = "fill" /\ Len(reader[driver]) < Room /\ device[driver] = <<>>
Fill ==
  LET n == Min({Room - Len(reader[driver]), Len(device[driver])})
  IN  /\ pc = "fill" /\ ~Stuck /\ pc' = "read" /\ nb' = 0
      /\ reader' = [reader EXCEPT ![driver] = @ \o SubSeq(device[driver], 1, n)]
      /\ device' = [device EXCEPT ![driver] = SubSeq(@, n + 1, Len(@))]
      /\ UNCHANGED <<revents, i, count, enabling, history, wake, out>>

\* A slip: the sample is passed although one of its events did not fit.
LeftSlip(mask, room) == {}
\* The bits of mPendingMask that the loop of AkmSensor::readEvents() over the
\* sensors leaves at an EV_SYN: it ends when the room does.
Left(mask, room) == IF mask = Compass /\ "M" \in akm.mEnabled /\ room = 1 THEN {"O"} ELSE {}

\* The sensors of a sample that processEvent() has found values for.
Mask(x) == IF akm.mPendingMask = {} THEN x.has ELSE akm.mPendingMask

\* readEvents() of the four drivers at an EV_SYN: the sensors that return an
\* event. The accelerometer does while it is enabled, those of the compass that
\* are enabled do while there is room, those of the ISL29030 always, also for a
\* sample of the other.
ReadKXTF9 == IF kxtf9.mEnabled THEN {"A"} ELSE {}
ReadAkm(x, room) ==
  LET due == Mask(x) \cap akm.mEnabled
  IN  IF due = Compass /\ room = 1 THEN {"M"} ELSE due
ReadISL29030P == {"P"}
ReadISL29030L == {"L"}

\* One sample is read. The reader goes on to the next unless something is left.
Read ==
  LET x    == Head(reader[driver])
      left == IF driver = "Akm" THEN Left(Mask(x), count - nb) ELSE {}
      from == CASE driver = "KXTF9" -> ReadKXTF9 [] driver = "Akm" -> ReadAkm(x, count - nb)
                [] driver = "ISL29030P" -> ReadISL29030P [] driver = "ISL29030L" -> ReadISL29030L
  IN  /\ pc = "read" /\ reader[driver] # <<>> /\ nb < count
      /\ nb' = nb + Cardinality(from)
      /\ out' = [s \in Sensor |-> IF s \in x.has \cap from THEN Append(out[s], x.n) ELSE out[s]]
      /\ akm' = IF driver = "Akm" THEN [akm EXCEPT !.mPendingMask = left] ELSE akm
      /\ reader' = IF left = {} THEN [reader EXCEPT ![driver] = Tail(@)] ELSE reader
      /\ UNCHANGED <<revents, pc, i, count, kxtf9, isl, calls, used, history, wake, device>>

\* A slip: no more data for this sensor, although the room was used up.
NoMoreSlip == TRUE
\* "no more data for this sensor"
NoMore == nb < count
ReadDone ==
  /\ pc = "read" /\ (reader[driver] = <<>> \/ nb = count)
  /\ revents' = IF NoMore THEN revents \ {driver} ELSE revents
  /\ count' = count - nb /\ nb' = 0
  /\ Goto(i + 1, count - nb, revents')
  /\ UNCHANGED <<enabling, history, wake, device, reader, out>>

\* poll() waits only if there is nothing to return, and looks again if there was
\* something to read.
Poll ==
  LET ready == {e \in Drivers : device[e] # <<>>}
  IN  /\ pc = "poll" /\ (ready # {} \/ wake > 0)
      /\ revents' = ready
      /\ Goto(1, count, ready)
      /\ wake' = IF wake > 0 THEN wake - 1 ELSE 0
      /\ UNCHANGED <<count, nb, enabling, history, device, reader, out>>

\* There is nothing more: the call returns what it has. If that is nothing it
\* waits, and a signal may end that.
Return ==
  /\ pc = "poll" /\ wake = 0 /\ \A e \in Drivers : device[e] = <<>>
  /\ pc' = "idle" /\ count' = 0
  /\ UNCHANGED <<revents, i, nb, enabling, history, wake, device, reader, out>>

pollEvents == Call \/ Fill \/ Read \/ ReadDone \/ Poll \/ Return

Next ==
  \/ \E s \in Sensor, en \in BOOLEAN : activate(s, en)
  \/ \E has \in Report : Sample(has)
  \/ pollEvents

Spec == Init /\ [][Next]_vars

\* The framework calls poll() again and again, and its thread is scheduled.
FairSpec == Spec /\ WF_vars(pollEvents)
-----------------------------------------------------------------------------
Returned(s) == {out[s][j] : j \in DOMAIN out[s]}
Due(s) == made[s] \ (off[s] \cup Returned(s))

\* Every sample that is read while its sensor is enabled is returned, once and
\* in order: also one whose events do not all fit into what is left of the
\* caller's buffer, and while activate() changes what readEvents() looks at.
SamplesOnce ==
  \A s \in Sensor :
    /\ \A j, k \in DOMAIN out[s] : j < k => out[s][j] < out[s][k]
    /\ Due(s) \subseteq Unread(s)

\* The accelerometer runs exactly while it has a user, the application or the
\* orientation sensor, whichever calls fail; only a constructor that could not
\* ask may have left it on.
AccelerometerShared ==
  /\ kxtf9.mEnabled \/ kxtf9.mOrientationEnabled => kxtf9.chip
  /\ kxtf9.chip => kxtf9.mEnabled \/ kxtf9.mOrientationEnabled \/ ~kxtf9.asked

\* What the chips deliver is returned in the end, unless poll() hangs for good in
\* the read() of a device that has nothing.
SamplesReturned == <>[]Stuck \/ \A s \in Sensor : []<>(Due(s) = {})
=============================================================================
