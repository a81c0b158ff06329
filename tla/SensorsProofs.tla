--------------------------- MODULE SensorsProofs ---------------------------
(***************************************************************************)
(* libsensors: the circular reader of InputEventReader implements a FIFO,  *)
(* for every capacity and every set of records; what the steps of Sensors  *)
(* that take no sample from a reader, and put none into a device, leave of *)
(* the samples that wait in both; the accelerometer and its two users, and *)
(* the way of a sample from its chip to the caller of poll(), for every    *)
(* bound of Sensors.                                                       *)
(***************************************************************************)
EXTENDS InputEventReader, Sensors, SequenceTheorems, TLAPS

(* The samples in the queues of the drivers. *)

SampleType == [n : Nat, has : SUBSET Sensor]

QueuesType ==
  /\ i \in 1 .. 4 /\ samples \in Nat
  /\ reader \in [Drivers -> Seq(SampleType)] /\ device \in [Drivers -> Seq(SampleType)]
  /\ \A d \in Drivers : Len(reader[d]) <= Room
  /\ akm \in [mEnabled : SUBSET Compass, mPendingMask : {{}, {"O"}}, flags : SUBSET Compass]
  /\ out \in [Sensor -> Seq(Nat)]
  /\ made \in [Sensor -> SUBSET Nat] /\ off \in [Sensor -> SUBSET Nat]

\* Every driver has its samples in the order they were taken.
Ordered ==
  \A d \in Drivers : \A j \in DOMAIN Queue(d) :
    /\ Queue(d)[j].n <= samples /\ (d = "Akm" => Queue(d)[j].has \subseteq Compass)
    /\ \A k \in DOMAIN Queue(d) : j < k => Queue(d)[j].n < Queue(d)[k].n

\* A sample of the compass stays in its reader while its orientation is to come;
\* its other half has been returned.
Pending ==
  akm.mPendingMask # {} =>
    /\ reader["Akm"] # <<>> /\ Queue("Akm")[1].has = Compass
    /\ Queue("Akm")[1].n \in Returned("M")

\* What has been returned is older than what is unread, but for that half.
Older ==
  \A s \in Sensor : \A j \in DOMAIN out[s] :
    /\ out[s][j] <= samples
    /\ \A k \in DOMAIN Queue(DriverOf(s)) :
         \/ out[s][j] < Queue(DriverOf(s))[k].n
         \/ s = "M" /\ akm.mPendingMask # {} /\ k = 1 /\ out[s][j] <= Queue(DriverOf(s))[k].n

\* A sensor that is disabled knows so for all its unread samples.
Disabled == \A s \in Sensor : Returns(kxtf9, akm, s) \/ Unread(s) \subseteq off[s]

QueuesInv == QueuesType /\ Ordered /\ Pending /\ Older /\ Disabled /\ SamplesOnce

\* The drivers, and the driver of each sensor.
LEMMA Names ==
  /\ Drivers = {"KXTF9", "Akm", "ISL29030P", "ISL29030L"}
  /\ Len(Driver) = 4 /\ \A j \in 1 .. 4 : Driver[j] \in Drivers
  /\ DriverOf("A") = "KXTF9" /\ DriverOf("M") = "Akm" /\ DriverOf("O") = "Akm"
  /\ DriverOf("P") = "ISL29030P" /\ DriverOf("L") = "ISL29030L"
  /\ \A s \in Sensor : DriverOf(s) \in Drivers
<1>1. Len(Driver) = 4 /\ DOMAIN Driver = 1 .. 4
  BY DEF Driver
<1>2. Driver[1] = "KXTF9" /\ Driver[2] = "Akm" /\ Driver[3] = "ISL29030P" /\ Driver[4] = "ISL29030L"
  BY DEF Driver
<1>3. Drivers = {"KXTF9", "Akm", "ISL29030P", "ISL29030L"}
  BY <1>1, <1>2 DEF Drivers
<1>4. /\ DriverOf("A") = "KXTF9" /\ DriverOf("M") = "Akm" /\ DriverOf("O") = "Akm"
      /\ DriverOf("P") = "ISL29030P" /\ DriverOf("L") = "ISL29030L"
  BY DEF DriverOf, Compass
<1> QED BY <1>1, <1>2, <1>3, <1>4 DEF Sensor, Drivers

\* The least of some of the drivers' numbers is one of them.
LEMMA LeastReady ==
  ASSUME NEW S, S \subseteq 1 .. 4, S # {}
  PROVE  Min(S) \in 1 .. 4
<1>1. \E x \in S : \A y \in S : x <= y
  <2>1. CASE 1 \in S
    BY <2>1
  <2>2. CASE 1 \notin S /\ 2 \in S
    BY <2>2
  <2>3. CASE 1 \notin S /\ 2 \notin S /\ 3 \in S
    BY <2>3
  <2>4. CASE 1 \notin S /\ 2 \notin S /\ 3 \notin S
    <3>1. \A y \in S : y = 4
      BY <2>4
    <3>2. PICK x \in S : TRUE
      BY Zenon
    <3> QED BY <3>1, <3>2
  <2> QED BY <2>1, <2>2, <2>3, <2>4
<1> QED BY <1>1, Zenon DEF Min

\* The loop over the drivers stays within them.
LEMMA OnwardDriver ==
  ASSUME NEW j \in Nat \ {0}, NEW c, NEW r
  PROVE  Onward(j, c, r)[2] \in 1 .. 4
<1> DEFINE ready == {k \in j .. Len(Driver) : Driver[k] \in r}
<1>1. ready \subseteq 1 .. 4
  BY Names
<1>2. ready # {} => Min(ready) \in 1 .. 4
  BY <1>1, LeastReady, Zenon
<1> HIDE DEF ready
<1>3. Onward(j, c, r) = CASE c = 0 -> <<"idle", 1>>
                          [] c > 0 /\ ready # {} -> <<"fill", Min(ready)>>
                          [] OTHER -> <<"poll", 1>>
  BY Zenon DEF Onward, ready
<1>4. \/ Onward(j, c, r) = <<"idle", 1>> \/ Onward(j, c, r) = <<"poll", 1>>
      \/ ready # {} /\ Onward(j, c, r) = <<"fill", Min(ready)>>
  BY <1>3
<1> QED BY <1>2, <1>4

\* A sequence that is not empty loses its first element with its first part.
LEMMA ConcatTail ==
  ASSUME NEW S, NEW q \in Seq(S), NEW r \in Seq(S), q # <<>>
  PROVE  Tail(q) \o r = Tail(q \o r)
<1>1. Len(q) \in Nat /\ Len(q) >= 1 /\ Len(r) \in Nat
  OBVIOUS
<1>2. Tail(q) \in Seq(S) /\ Len(Tail(q)) = Len(q) - 1 /\ q \o r \in Seq(S)
  BY <1>1
<1>3. /\ Len(Tail(q) \o r) = Len(q) + Len(r) - 1 /\ Len(Tail(q \o r)) = Len(q) + Len(r) - 1
      /\ Tail(q) \o r \in Seq(S) /\ Tail(q \o r) \in Seq(S)
  BY <1>1, <1>2
<1>4. ASSUME NEW j \in 1 .. Len(q) + Len(r) - 1 PROVE (Tail(q) \o r)[j] = Tail(q \o r)[j]
  BY <1>1, <1>2, <1>3
<1> QED BY <1>3, <1>4, SeqEqual

\* Its first element is that of its first part.
LEMMA ConcatHead ==
  ASSUME NEW S, NEW q \in Seq(S), NEW r \in Seq(S), q # <<>>
  PROVE  q \o r # <<>> /\ Head(q) = (q \o r)[1] /\ 1 \in DOMAIN (q \o r)
<1>1. Len(q) \in Nat /\ Len(q) >= 1 /\ Len(r) \in Nat /\ Head(q) = q[1]
  OBVIOUS
<1>2. q \o r \in Seq(S) /\ Len(q \o r) = Len(q) + Len(r)
  OBVIOUS
<1>3. (q \o r)[1] = q[1]
  BY <1>1
<1>4. Len(q \o r) >= 1
  BY <1>1, <1>2
<1> QED BY <1>1, <1>2, <1>3, <1>4

\* The queue of a driver starts with its reader.
LEMMA QueueFirst ==
  ASSUME QueuesType, NEW d \in Drivers
  PROVE  /\ Queue(d) \in Seq(SampleType)
         /\ reader[d] # <<>> => /\ Queue(d) # <<>> /\ Head(reader[d]) = Queue(d)[1]
                               /\ 1 \in DOMAIN Queue(d)
                               /\ Tail(reader[d]) \o device[d] = Tail(Queue(d))
<1>1. reader[d] \in Seq(SampleType) /\ device[d] \in Seq(SampleType)
  BY DEF QueuesType
<1>2. Queue(d) \in Seq(SampleType)
  BY <1>1 DEF Queue
<1>3. ASSUME reader[d] # <<>>
      PROVE  Queue(d) # <<>> /\ Head(reader[d]) = Queue(d)[1] /\ 1 \in DOMAIN Queue(d)
  BY <1>1, <1>3, ConcatHead, Zenon DEF Queue
<1>4. ASSUME reader[d] # <<>> PROVE Tail(reader[d]) \o device[d] = Tail(Queue(d))
  BY <1>1, <1>4, ConcatTail, Zenon DEF Queue
<1> QED BY <1>2, <1>3, <1>4, Zenon

\* Sequences: what is left of one, and what an element is appended to.
LEMMA Tails ==
  ASSUME NEW S, NEW q \in Seq(S), q # <<>>
  PROVE  /\ Tail(q) \in Seq(S) /\ Len(Tail(q)) = Len(q) - 1
         /\ \A j \in DOMAIN Tail(q) : j \in Nat /\ j + 1 \in DOMAIN q /\ Tail(q)[j] = q[j + 1] /\ 1 < j + 1
         /\ \A j \in DOMAIN q : j = 1 \/ (j - 1 \in DOMAIN Tail(q) /\ Tail(q)[j - 1] = q[j])
  OBVIOUS

\* Append adds one element, behind all others.
LEMMA Appends ==
  ASSUME NEW S, NEW q \in Seq(S), NEW x \in S
  PROVE  /\ Append(q, x) \in Seq(S) /\ DOMAIN Append(q, x) = DOMAIN q \cup {Len(q) + 1}
         /\ Append(q, x)[Len(q) + 1] = x /\ Len(q) + 1 \notin DOMAIN q
         /\ \A j \in DOMAIN q : j \in Nat /\ j < Len(q) + 1 /\ Append(q, x)[j] = q[j]
  OBVIOUS

\* An element appended to the second part is appended to the whole.
LEMMA ConcatAppend ==
  ASSUME NEW S, NEW q \in Seq(S), NEW r \in Seq(S), NEW x \in S
  PROVE  q \o Append(r, x) = Append(q \o r, x)
<1>1. Len(q) \in Nat /\ Len(r) \in Nat /\ q \o r \in Seq(S) /\ Len(q \o r) = Len(q) + Len(r)
  OBVIOUS
<1>2. Append(r, x) \in Seq(S) /\ Len(Append(r, x)) = Len(r) + 1
  OBVIOUS
<1>3. /\ q \o Append(r, x) \in Seq(S) /\ Append(q \o r, x) \in Seq(S)
      /\ Len(q \o Append(r, x)) = Len(q) + Len(r) + 1 /\ Len(Append(q \o r, x)) = Len(q) + Len(r) + 1
  BY <1>1, <1>2
<1>4. ASSUME NEW j \in 1 .. Len(q) + Len(r) + 1 PROVE (q \o Append(r, x))[j] = Append(q \o r, x)[j]
  BY <1>1, <1>2, <1>3
<1> QED BY <1>3, <1>4, SeqEqual

\* Where the sequence is cut makes no difference.
LEMMA ConcatMove ==
  ASSUME NEW S, NEW q \in Seq(S), NEW r \in Seq(S), NEW m \in 0 .. Len(r)
  PROVE  /\ q \o SubSeq(r, 1, m) \in Seq(S) /\ Len(q \o SubSeq(r, 1, m)) = Len(q) + m
         /\ SubSeq(r, m + 1, Len(r)) \in Seq(S)
         /\ (q \o SubSeq(r, 1, m)) \o SubSeq(r, m + 1, Len(r)) = q \o r
<1> DEFINE a == SubSeq(r, 1, m)  b == SubSeq(r, m + 1, Len(r))
<1>1. Len(q) \in Nat /\ Len(r) \in Nat /\ m \in Nat /\ m <= Len(r)
  OBVIOUS
<1>2. a \in Seq(S) /\ Len(a) = m /\ \A j \in 1 .. m : a[j] = r[j]
  BY <1>1
<1>3. b \in Seq(S) /\ Len(b) = Len(r) - m /\ \A j \in 1 .. Len(r) - m : b[j] = r[m + j]
  BY <1>1
<1> HIDE DEF a, b
<1>4. q \o a \in Seq(S) /\ Len(q \o a) = Len(q) + m
  BY <1>2, ConcatProperties, Zenon
<1>5. /\ (q \o a) \o b \in Seq(S) /\ q \o r \in Seq(S)
      /\ Len((q \o a) \o b) = Len(q) + Len(r) /\ Len(q \o r) = Len(q) + Len(r)
  <2>1. (q \o a) \o b \in Seq(S) /\ Len((q \o a) \o b) = Len(q \o a) + Len(b)
    BY <1>3, <1>4, ConcatProperties, Zenon
  <2>2. Len(q \o a) + Len(b) = Len(q) + Len(r)
    BY <1>1, <1>3, <1>4
  <2> QED BY <2>1, <2>2, ConcatProperties
<1>6. ASSUME NEW j \in 1 .. Len(q) + Len(r) PROVE ((q \o a) \o b)[j] = (q \o r)[j]
  <2>1. CASE j <= Len(q)
    <3>1. ((q \o a) \o b)[j] = (q \o a)[j]
      BY <1>1, <1>3, <1>4, <2>1
    <3> QED BY <1>1, <1>2, <2>1, <3>1
  <2>2. CASE j > Len(q) /\ j <= Len(q) + m
    <3>1. ((q \o a) \o b)[j] = (q \o a)[j]
      BY <1>1, <1>3, <1>4, <2>2
    <3>2. (q \o a)[j] = a[j - Len(q)] /\ j - Len(q) \in 1 .. m
      BY <1>1, <1>2, <2>2
    <3>3. (q \o r)[j] = r[j - Len(q)]
      BY <1>1, <2>2
    <3> QED BY <1>2, <3>1, <3>2, <3>3
  <2>3. CASE j > Len(q) + m
    <3>1. ((q \o a) \o b)[j] = b[j - (Len(q) + m)] /\ j - (Len(q) + m) \in 1 .. Len(r) - m
      <4>1. j \in 1 .. Len(q \o a) + Len(b) /\ ~(j <= Len(q \o a))
        BY <1>1, <1>3, <1>4, <2>3
      <4>2. ((q \o a) \o b)[j] = b[j - Len(q \o a)]
        <5>1. \A x, y \in Seq(S) : \A l \in 1 .. Len(x) + Len(y) :
                ~(l <= Len(x)) => (x \o y)[l] = y[l - Len(x)]
          BY ConcatProperties
        <5> QED BY <1>3, <1>4, <4>1, <5>1, Zenon
      <4> QED BY <1>1, <1>4, <2>3, <4>2
    <3>2. b[j - (Len(q) + m)] = r[m + (j - (Len(q) + m))]
      BY <1>3, <3>1, Zenon
    <3>3. (q \o r)[j] = r[j - Len(q)] /\ m + (j - (Len(q) + m)) = j - Len(q)
      BY <1>1, <2>3
    <3> QED BY <3>1, <3>2, <3>3
  <2>4. j <= Len(q) \/ (j > Len(q) /\ j <= Len(q) + m) \/ j > Len(q) + m
    BY <1>1
  <2> QED BY <2>1, <2>2, <2>3, <2>4, Zenon
<1>7. (q \o a) \o b = q \o r
  BY <1>5, <1>6, SeqEqual, Zenon
<1> QED BY <1>3, <1>4, <1>7, Zenon DEF a, b

\* Whoever leaves the queues, the pending half and the history alone, but for
\* sensors that see more samples disabled, keeps most of the invariant.
LEMMA QueuesKept ==
  ASSUME QueuesInv, UNCHANGED <<samples, made, out>>, akm'.mPendingMask = akm.mPendingMask,
         \A d \in Drivers : Queue(d)' = Queue(d),
         reader["Akm"] # <<>> => reader'["Akm"] # <<>>,
         \A s \in Sensor : off[s] \subseteq off'[s]
  PROVE  /\ Ordered' /\ Pending' /\ Older' /\ SamplesOnce'
         /\ \A s \in Sensor : Unread(s)' = Unread(s)
<1>1. \A s \in Sensor : Queue(DriverOf(s))' = Queue(DriverOf(s)) /\ Unread(s)' = Unread(s)
  BY Names DEF Unread
<1>2. Ordered' /\ Older'
  BY <1>1 DEF QueuesInv, Ordered, Older
<1>3. Pending'
  <2>1. Queue("Akm")' = Queue("Akm") /\ Returned("M")' = Returned("M")
    BY Names DEF Returned
  <2> QED BY <2>1 DEF QueuesInv, Pending
<1>4. SamplesOnce'
  <2>1. \A s \in Sensor : Due(s)' \subseteq Due(s)
    BY DEF Due, Returned
  <2> QED BY <1>1, <2>1 DEF QueuesInv, SamplesOnce
<1> QED BY <1>1, <1>2, <1>3, <1>4

\* Nothing is unread or returned at the start.
LEMMA SamplesInit == Init => QueuesInv
<1> SUFFICES ASSUME Init PROVE QueuesInv
  OBVIOUS
<1>1. /\ i = 1 /\ samples = 0
      /\ device = [d \in Drivers |-> <<>>] /\ reader = [d \in Drivers |-> <<>>]
      /\ made = [s \in Sensor |-> {}] /\ off = [s \in Sensor |-> {}] /\ out = [s \in Sensor |-> <<>>]
  BY DEF Init
<1>2. PICK on \in BOOLEAN, asked \in BOOLEAN : akm = NewAkm(on, asked)
  BY Zenon DEF Init
<1>3. akm \in [mEnabled : SUBSET Compass, mPendingMask : {{}, {"O"}}, flags : SUBSET Compass] /\ akm.mPendingMask = {}
  BY <1>2 DEF NewAkm, Compass
<1>4. <<>> \in Seq(SampleType) /\ <<>> \in Seq(Nat) /\ Len(<<>>) = 0 /\ DOMAIN <<>> = {} /\ <<>> \o <<>> = <<>>
  OBVIOUS
<1>5. QueuesType
  <2>1. reader \in [Drivers -> Seq(SampleType)] /\ device \in [Drivers -> Seq(SampleType)]
    BY <1>1, <1>4
  <2>2. \A d \in Drivers : Len(reader[d]) <= Room
    BY <1>1, <1>4, BoundsAssumption
  <2>3. out \in [Sensor -> Seq(Nat)] /\ made \in [Sensor -> SUBSET Nat] /\ off \in [Sensor -> SUBSET Nat]
    BY <1>1, <1>4
  <2> QED BY <1>1, <1>3, <2>1, <2>2, <2>3 DEF QueuesType
<1>6. \A d \in Drivers : Queue(d) = <<>>
  BY <1>1, <1>4 DEF Queue
<1>7. \A s \in Sensor : Unread(s) = {} /\ Due(s) = {} /\ out[s] = <<>>
  <2>1. \A s \in Sensor : Unread(s) = {}
    BY <1>4, <1>6, Names DEF Unread
  <2> QED BY <1>1, <2>1 DEF Due
<1>8. Ordered /\ Pending /\ Older /\ Disabled /\ SamplesOnce
  BY <1>3, <1>4, <1>6, <1>7 DEF Ordered, Pending, Older, Disabled, SamplesOnce
<1> QED BY <1>5, <1>8 DEF QueuesInv

\* activate() may disable a sensor, which then sees its unread samples disabled.
LEMMA ActivateStep ==
  ASSUME QueuesInv, NEW s \in Sensor, NEW en \in BOOLEAN, activate(s, en)
  PROVE  QueuesInv'
<1> DEFINE A == [mEnabled : SUBSET Compass, mPendingMask : {{}, {"O"}}, flags : SUBSET Compass]
<1>1. UNCHANGED <<i, samples, made, device, reader, out>>
  BY DEF activate, polling
<1>2. off' = [t \in Sensor |-> IF Returns(kxtf9', akm', t) THEN off[t] ELSE off[t] \cup Unread(t)]
  BY DEF activate
<1>3. akm' \in A /\ akm'.mPendingMask = akm.mPendingMask
  <2>1. akm \in A
    BY DEF QueuesInv, QueuesType
  <2>2. akm' = akm \/ (s \in Compass /\ akm' \in AkmEnable(akm, s, en))
    <3>1. akm' = akm \/ ((s = "M" \/ s = "O") /\ akm' \in AkmEnable(akm, s, en))
      BY DEF activate
    <3> QED BY <3>1 DEF Compass
  <2>3. CASE s \in Compass /\ akm' \in AkmEnable(akm, s, en) /\ akm' # akm
    <3>1. PICK f \in setEnabled(akm.flags, s, en) :
            akm' = [akm EXCEPT !.mEnabled = With(@, s, en), !.flags = f]
      BY <2>3, Zenon DEF AkmEnable
    <3>2. f \in SUBSET Compass /\ With(akm.mEnabled, s, en) \in SUBSET Compass
      BY <2>1, <2>3, <3>1 DEF setEnabled, With
    <3> QED BY <2>1, <3>1, <3>2, Zenon
  <2> QED BY <2>1, <2>2, <2>3
<1>4. \A d \in Drivers : Queue(d)' = Queue(d)
  BY <1>1 DEF Queue
<1>5. ASSUME NEW t \in Sensor
      PROVE  Unread(t) \subseteq Nat
  <2>1. Queue(DriverOf(t)) \in Seq(SampleType)
    BY QueueFirst, Names DEF QueuesInv
  <2>2. \A j \in DOMAIN Queue(DriverOf(t)) : Queue(DriverOf(t))[j] \in SampleType
    BY <2>1
  <2> QED BY <2>2 DEF Unread, SampleType
<1>6. QueuesType'
  <2>1. off' \in [Sensor -> SUBSET Nat]
    BY <1>2, <1>5 DEF QueuesInv, QueuesType
  <2> QED BY <1>1, <1>3, <2>1 DEF QueuesInv, QueuesType
<1>7. /\ Ordered' /\ Pending' /\ Older' /\ SamplesOnce'
      /\ \A t \in Sensor : Unread(t)' = Unread(t)
  <2>1. \A t \in Sensor : off[t] \subseteq off'[t]
    BY <1>2
  <2> QED BY <1>1, <1>3, <1>4, <2>1, QueuesKept
<1>8. Disabled'
  BY <1>2, <1>7 DEF Disabled
<1> QED BY <1>6, <1>7, <1>8 DEF QueuesInv

\* A step of pollEvents() between two reads.
LEMMA PollSteps ==
  ASSUME QueuesInv, i' \in 1 .. 4, UNCHANGED <<enabling, history, device, reader, out>>
  PROVE  QueuesInv'
<1>1. UNCHANGED <<samples, made, off, out, device, reader, kxtf9, akm>>
  BY DEF enabling, history
<1>2. QueuesType'
  BY <1>1 DEF QueuesInv, QueuesType
<1>3. /\ Ordered' /\ Pending' /\ Older' /\ SamplesOnce'
      /\ \A t \in Sensor : Unread(t)' = Unread(t)
  <2>1. \A d \in Drivers : Queue(d)' = Queue(d)
    BY <1>1 DEF Queue
  <2> QED BY <1>1, <2>1, QueuesKept
<1>4. Disabled'
  BY <1>1, <1>3 DEF QueuesInv, Disabled
<1> QED BY <1>2, <1>3, <1>4 DEF QueuesInv

\* fill() takes samples over from the kernel, as many as fit.
LEMMA RefillStep == QueuesInv /\ Fill => QueuesInv'
<1> SUFFICES ASSUME QueuesInv, Fill PROVE QueuesInv'
  OBVIOUS
<1> DEFINE r == reader[driver]  v == device[driver]  m == Min({Room - Len(r), Len(v)})
<1>1. driver \in Drivers
  BY Names DEF driver, QueuesInv, QueuesType
<1>2. r \in Seq(SampleType) /\ v \in Seq(SampleType) /\ Len(r) <= Room
  BY <1>1 DEF QueuesInv, QueuesType
<1>3. m \in 0 .. Len(v) /\ Len(r) + m <= Room
  <2>1. Room - Len(r) \in Nat /\ Len(v) \in Nat
    BY <1>2, BoundsAssumption
  <2>2. m \in {Room - Len(r), Len(v)} /\ m <= Room - Len(r) /\ m <= Len(v)
    BY <2>1 DEF Min
  <2> QED BY <1>2, <2>1, <2>2, BoundsAssumption
<1>4. /\ reader' = [reader EXCEPT ![driver] = r \o SubSeq(v, 1, m)]
      /\ device' = [device EXCEPT ![driver] = SubSeq(v, m + 1, Len(v))]
      /\ UNCHANGED <<i, samples, made, off, out, kxtf9, akm>>
  BY DEF Fill, enabling, history
<1>5. /\ r \o SubSeq(v, 1, m) \in Seq(SampleType) /\ Len(r \o SubSeq(v, 1, m)) = Len(r) + m
      /\ SubSeq(v, m + 1, Len(v)) \in Seq(SampleType)
      /\ (r \o SubSeq(v, 1, m)) \o SubSeq(v, m + 1, Len(v)) = r \o v
  <2> HIDE DEF r, v, m
  <2>1. \A a, b \in Seq(SampleType) : \A k \in 0 .. Len(b) :
          /\ a \o SubSeq(b, 1, k) \in Seq(SampleType) /\ Len(a \o SubSeq(b, 1, k)) = Len(a) + k
          /\ SubSeq(b, k + 1, Len(b)) \in Seq(SampleType)
          /\ (a \o SubSeq(b, 1, k)) \o SubSeq(b, k + 1, Len(b)) = a \o b
    BY ConcatMove, Zenon
  <2> QED BY <1>2, <1>3, <2>1, Zenon
<1> HIDE DEF m
<1>6. QueuesType'
  <2>1. reader' \in [Drivers -> Seq(SampleType)] /\ device' \in [Drivers -> Seq(SampleType)]
    BY <1>4, <1>5, Zenon DEF QueuesInv, QueuesType
  <2>2. \A d \in Drivers : Len(reader'[d]) <= Room
    BY <1>3, <1>4, <1>5, Zenon DEF QueuesInv, QueuesType
  <2> QED BY <1>4, <2>1, <2>2 DEF QueuesInv, QueuesType
<1>7. \A d \in Drivers : Queue(d)' = Queue(d)
  BY <1>1, <1>4, <1>5, Zenon DEF Queue, QueuesInv, QueuesType
<1>8. reader["Akm"] # <<>> => reader'["Akm"] # <<>>
  <2>1. ASSUME driver = "Akm", r # <<>> PROVE r \o SubSeq(v, 1, m) # <<>>
    <3>1. Len(r) >= 1
      BY <1>2, <2>1
    <3> QED BY <1>3, <1>5, <3>1
  <2> QED BY <1>1, <1>4, <2>1, Names DEF QueuesInv, QueuesType
<1>9. /\ Ordered' /\ Pending' /\ Older' /\ SamplesOnce'
      /\ \A t \in Sensor : Unread(t)' = Unread(t)
  BY <1>4, <1>7, <1>8, QueuesKept
<1>10. Disabled'
  BY <1>4, <1>9 DEF QueuesInv, Disabled
<1> QED BY <1>6, <1>9, <1>10 DEF QueuesInv

-----------------------------------------------------------------------------
(* The accelerometer *)

Kxtf9Type == [mEnabled : BOOLEAN, mOrientationEnabled : BOOLEAN, open : BOOLEAN,
              chip : BOOLEAN, asked : BOOLEAN]

\* A user of a running accelerometer has it to itself or shares it; k stands for
\* the driver.
Shared(k) ==
  /\ k.mEnabled \/ k.mOrientationEnabled => k.chip
  /\ k.chip => k.mEnabled \/ k.mOrientationEnabled \/ ~k.asked

\* What enable() and enableOrientation() can make of the driver k: nothing, switch
\* the chip on, fail at it, leave it to the other user, switch it off, fail at it.
Outcome(k, mine, other, x) ==
  \/ x = k
  \/ x = [k EXCEPT ![mine] = TRUE, !.open = TRUE, !.chip = TRUE]
  \/ x = [k EXCEPT !.open = TRUE]
  \/ x = [k EXCEPT !.open = k.open]
  \/ x = [k EXCEPT ![mine] = FALSE] /\ k[other]
  \/ x = [k EXCEPT ![mine] = FALSE, !.open = FALSE, !.chip = FALSE] /\ ~k[other]
  \/ x = [k EXCEPT !.open = FALSE]

\* They do nothing else, by the cases of their conditions.
LEMMA ShareOutcomes ==
  ASSUME NEW k, NEW mine, NEW other, NEW en \in BOOLEAN, k[mine] \in BOOLEAN,
         NEW r \in Share(k, mine, other, en)
  PROVE  Outcome(k, mine, other, r[1])
<1>1. CASE k[mine] = en
  <2>1. r = <<k, TRUE>>
    BY <1>1, Zenon DEF Share
  <2> QED BY <2>1, Zenon DEF Outcome
<1>2. CASE k[mine] # en /\ ~k[mine] /\ en
  <2>1. r \in {<<[k EXCEPT ![mine] = TRUE, !.open = TRUE, !.chip = TRUE], TRUE>>}
                \cup {<<[k EXCEPT !.open = o], FALSE>> : o \in {k.open, TRUE}}
    BY <1>2, Zenon DEF Share, Opened
  <2>2. CASE r = <<[k EXCEPT ![mine] = TRUE, !.open = TRUE, !.chip = TRUE], TRUE>>
    BY <2>2, Zenon DEF Outcome
  <2>3. CASE r = <<[k EXCEPT !.open = k.open], FALSE>>
    BY <2>3 DEF Outcome
  <2>4. CASE r = <<[k EXCEPT !.open = TRUE], FALSE>>
    BY <2>4 DEF Outcome
  <2> QED BY <2>1, <2>2, <2>3, <2>4, Zenon
<1>3. CASE k[mine] # en /\ k[mine] /\ ~en /\ k[other]
  <2>1. r = <<[k EXCEPT ![mine] = FALSE], TRUE>>
    BY <1>3, Zenon DEF Share, KeepsOn
  <2> QED BY <1>3, <2>1 DEF Outcome
<1>4. CASE k[mine] # en /\ k[mine] /\ ~en /\ ~k[other]
  <2>1. r \in {<<[k EXCEPT !.open = FALSE], FALSE>>} \cup
              IF k.open THEN {<<[k EXCEPT ![mine] = FALSE, !.open = FALSE, !.chip = FALSE], TRUE>>}
                        ELSE {}
    BY <1>4, Zenon DEF Share, KeepsOn
  <2>2. CASE r = <<[k EXCEPT !.open = FALSE], FALSE>>
    BY <2>2 DEF Outcome
  <2>3. CASE r = <<[k EXCEPT ![mine] = FALSE, !.open = FALSE, !.chip = FALSE], TRUE>>
    BY <1>4, <2>3, Zenon DEF Outcome
  <2> QED BY <2>1, <2>2, <2>3, Zenon
<1> QED BY <1>1, <1>2, <1>3, <1>4

\* Neither enable() nor enableOrientation() takes the accelerometer from the
\* other user or leaves it on for nobody, whichever system call fails.
LEMMA ShareKeeps ==
  ASSUME NEW k \in Kxtf9Type, Shared(k), NEW en \in BOOLEAN, NEW mine, NEW other,
         \/ mine = "mEnabled" /\ other = "mOrientationEnabled"
         \/ mine = "mOrientationEnabled" /\ other = "mEnabled",
         NEW r \in Share(k, mine, other, en)
  PROVE  r[1] \in Kxtf9Type /\ Shared(r[1])
<1>1. CASE mine = "mEnabled" /\ other = "mOrientationEnabled"
  <2>1. k[mine] \in BOOLEAN
    BY <1>1 DEF Kxtf9Type
  <2>2. Outcome(k, mine, other, r[1])
    BY <2>1, ShareOutcomes
  <2> QED BY <1>1, <2>2, Zenon DEF Outcome, Shared, Kxtf9Type
<1>2. CASE mine = "mOrientationEnabled" /\ other = "mEnabled"
  <2>1. k[mine] \in BOOLEAN
    BY <1>2 DEF Kxtf9Type
  <2>2. Outcome(k, mine, other, r[1])
    BY <2>1, ShareOutcomes
  <2> QED BY <1>2, <2>2, Zenon DEF Outcome, Shared, Kxtf9Type
<1> QED BY <1>1, <1>2

\* The accelerometer runs exactly while it has a user, for every number of calls,
\* samples and events and every set of sensors in use (KXTF9Sensor, activate()).
THEOREM SharedAlways == Spec => []AccelerometerShared
<1> DEFINE I == kxtf9 \in Kxtf9Type /\ Shared(kxtf9)
<1>1. Init => I
  <2> SUFFICES ASSUME Init PROVE I
    OBVIOUS
  <2>1. PICK on \in BOOLEAN, asked \in BOOLEAN :
          kxtf9 = [mEnabled |-> on /\ asked, mOrientationEnabled |-> FALSE,
                   open |-> on /\ asked, chip |-> on, asked |-> asked]
    BY Zenon DEF Init, NewKXTF9
  <2> QED BY <2>1 DEF Shared, Kxtf9Type
<1>2. I /\ [Next]_vars => I'
  <2> SUFFICES ASSUME I, [Next]_vars PROVE I'
    OBVIOUS
  <2>1. ASSUME NEW s \in Sensor, NEW en \in BOOLEAN, activate(s, en) PROVE I'
    <3>1. \/ kxtf9' = kxtf9
          \/ \E r \in Share(kxtf9, "mEnabled", "mOrientationEnabled", en) : kxtf9' = r[1]
          \/ \E r \in Share(kxtf9, "mOrientationEnabled", "mEnabled", en) : kxtf9' = r[1]
      BY <2>1, Zenon DEF activate
    <3> QED BY <3>1, ShareKeeps
  <2>2. CASE \E has \in Report : Sample(has)
    BY <2>2 DEF Sample, enabling
  <2>3. CASE pollEvents
    BY <2>3 DEF pollEvents, Call, Fill, Read, ReadDone, Poll, Return, enabling
  <2>4. CASE UNCHANGED vars
    BY <2>4 DEF vars, enabling
  <2> QED BY <2>1, <2>2, <2>3, <2>4 DEF Next
<1>3. I => AccelerometerShared
  BY DEF AccelerometerShared, Shared
<1> QED BY <1>1, <1>2, <1>3, PTL DEF Spec

-----------------------------------------------------------------------------
(* What happens to the samples. *)

\* Where a report goes.
LEMMA Reports ==
  ASSUME NEW has \in Report
  PROVE  /\ has \subseteq Sensor
         /\ \A s \in has : DriverOf(s) \in Into(has)
         /\ "Akm" \in Into(has) => has \subseteq Compass
<1>1. has \subseteq Sensor
  BY DEF Report, Sensor
<1>2. CASE has = {"A"}
  <2>1. ~(has \subseteq Compass)
    BY <1>2 DEF Compass
  <2>2. Into(has) = {"KXTF9"}
    BY <1>2, <2>1 DEF Into
  <2> QED BY <1>1, <1>2, <2>2, Names
<1>3. CASE has \in {{"M"}, {"O"}, {"M", "O"}}
  <2>1. has # {"A"} /\ has \subseteq Compass
    BY <1>3 DEF Compass
  <2>2. Into(has) = {"Akm"}
    BY <2>1 DEF Into
  <2> QED BY <1>1, <2>1, <2>2, Names DEF Compass
<1>4. CASE has \in {{"P"}, {"L"}}
  <2>1. has # {"A"} /\ ~(has \subseteq Compass)
    BY <1>4 DEF Compass
  <2>2. Into(has) = {"ISL29030P", "ISL29030L"}
    BY <2>1 DEF Into
  <2> QED BY <1>1, <1>4, <2>2, Names
<1> QED BY <1>2, <1>3, <1>4 DEF Report

\* A sample is younger than all the others, and goes to the ends of its queues.
LEMMA SampleStep ==
  ASSUME QueuesInv, NEW has \in Report, Sample(has)
  PROVE  QueuesInv'
<1> DEFINE x == [n |-> samples + 1, has |-> has]
<1>1. /\ samples' = samples + 1
      /\ device' = [d \in Drivers |-> IF d \in Into(has) THEN Append(device[d], x) ELSE device[d]]
      /\ made' = [s \in Sensor |-> IF s \in has THEN made[s] \cup {samples + 1} ELSE made[s]]
      /\ off' = [s \in Sensor |-> IF s \in has /\ ~Returns(kxtf9, akm, s)
                                  THEN off[s] \cup {samples + 1} ELSE off[s]]
      /\ UNCHANGED <<i, kxtf9, akm, reader, out>>
  BY DEF Sample, polling, enabling
<1>2. samples \in Nat /\ samples + 1 \in Nat /\ samples < samples + 1
  BY DEF QueuesInv, QueuesType
<1>3. x \in SampleType /\ x.n = samples + 1 /\ x.has = has
  BY <1>2, Reports DEF SampleType
<1> HIDE DEF x
<1>4. ASSUME NEW d \in Drivers
      PROVE  /\ reader[d] \in Seq(SampleType) /\ device[d] \in Seq(SampleType)
             /\ Queue(d) \in Seq(SampleType)
             /\ d \in Into(has) => Queue(d)' = Append(Queue(d), x)
             /\ d \notin Into(has) => Queue(d)' = Queue(d)
  <2>1. reader[d] \in Seq(SampleType) /\ device[d] \in Seq(SampleType)
    BY DEF QueuesInv, QueuesType
  <2>2. reader[d] \o Append(device[d], x) = Append(reader[d] \o device[d], x)
    <3>1. \A q, r \in Seq(SampleType) : \A y \in SampleType : q \o Append(r, y) = Append(q \o r, y)
      BY ConcatAppend
    <3> QED BY <1>3, <2>1, <3>1, Zenon
  <2>3. Queue(d)' = reader[d] \o device'[d]
    BY <1>1, Zenon DEF Queue
  <2> QED BY <1>1, <2>1, <2>2, <2>3, QueueFirst, Zenon DEF Queue, QueuesInv
<1>5. ASSUME NEW d \in Drivers, NEW j \in DOMAIN Queue(d)'
      PROVE  \/ j \in DOMAIN Queue(d) /\ Queue(d)'[j] = Queue(d)[j]
             \/ /\ d \in Into(has) /\ Queue(d)'[j] = x /\ j \notin DOMAIN Queue(d)
                /\ \A k \in DOMAIN Queue(d) : k < j
                /\ \A k \in DOMAIN Queue(d)' : k <= j
  <2>1. CASE d \notin Into(has)
    <3>1. Queue(d)' = Queue(d)
      BY <1>4, <2>1, Zenon
    <3> QED BY <1>5, <3>1, Zenon
  <2>2. CASE d \in Into(has)
    <3> DEFINE q == Queue(d)
               l == Len(q) + 1
    <3>1. q \in Seq(SampleType) /\ Queue(d)' = Append(q, x)
      BY <1>4, <2>2, Zenon
    <3> HIDE DEF q
    <3>2. /\ DOMAIN Append(q, x) = DOMAIN q \cup {l} /\ Append(q, x)[l] = x /\ l \notin DOMAIN q
          /\ \A k \in DOMAIN q : k \in Nat /\ k < l /\ Append(q, x)[k] = q[k]
      BY <1>3, <3>1
    <3>3. l \in Nat
      BY <3>1
    <3> HIDE DEF l
    <3>4. CASE j \in DOMAIN q
      <4>1. Queue(d)'[j] = q[j]
        BY <3>1, <3>2, <3>4, Zenon
      <4> QED BY <3>4, <4>1, Zenon DEF q
    <3>5. CASE j \notin DOMAIN q
      <4>1. j = l /\ Queue(d)'[j] = x
        BY <1>5, <3>1, <3>2, <3>5, Zenon
      <4>2. \A k \in DOMAIN q \cup {l} : k <= l
        BY <3>2, <3>3
      <4> QED BY <2>2, <3>1, <3>2, <3>5, <4>1, <4>2, Zenon DEF q
    <3> QED BY <3>4, <3>5, Zenon
  <2> QED BY <2>1, <2>2, Zenon
<1>6. ASSUME NEW d \in Drivers, NEW j \in DOMAIN Queue(d)
      PROVE  j \in DOMAIN Queue(d)' /\ Queue(d)'[j] = Queue(d)[j]
  <2>1. CASE d \notin Into(has)
    BY <1>4, <1>6, <2>1, Zenon
  <2>2. CASE d \in Into(has)
    <3> DEFINE q == Queue(d)
    <3>1. q \in Seq(SampleType) /\ Queue(d)' = Append(q, x)
      BY <1>4, <2>2, Zenon
    <3>2. j \in DOMAIN q
      BY <1>6
    <3> HIDE DEF q
    <3>3. j \in DOMAIN Append(q, x) /\ Append(q, x)[j] = q[j]
      BY <1>3, <3>1, <3>2
    <3> QED BY <3>1, <3>3, Zenon DEF q
  <2> QED BY <2>1, <2>2, Zenon
<1>7. QueuesType'
  <2>1. device' \in [Drivers -> Seq(SampleType)]
    <3>1. ASSUME NEW d \in Drivers
          PROVE  (IF d \in Into(has) THEN Append(device[d], x) ELSE device[d]) \in Seq(SampleType)
      <4>1. device[d] \in Seq(SampleType)
        BY <1>4, Zenon
      <4>2. Append(device[d], x) \in Seq(SampleType)
        BY <1>3, <4>1, Appends, Zenon
      <4> QED BY <4>1, <4>2, Zenon
    <3> QED BY <1>1, <3>1, Zenon
  <2>2. made' \in [Sensor -> SUBSET Nat] /\ off' \in [Sensor -> SUBSET Nat]
    BY <1>1, <1>2 DEF QueuesInv, QueuesType
  <2> QED BY <1>1, <1>2, <2>1, <2>2 DEF QueuesInv, QueuesType
<1>8. Ordered'
  <2> SUFFICES ASSUME NEW d \in Drivers, NEW j \in DOMAIN Queue(d)'
               PROVE  /\ Queue(d)'[j].n <= samples + 1 /\ (d = "Akm" => Queue(d)'[j].has \subseteq Compass)
                      /\ \A k \in DOMAIN Queue(d)' : j < k => Queue(d)'[j].n < Queue(d)'[k].n
    BY <1>1, Zenon DEF Ordered
  <2>0. Queue(d)' \in Seq(SampleType) /\ j \in Nat
    <3>1. Queue(d)' \in Seq(SampleType)
      BY <1>3, <1>4
    <3> QED BY <3>1
  <2>1. CASE j \in DOMAIN Queue(d) /\ Queue(d)'[j] = Queue(d)[j]
    <3>1. /\ Queue(d)[j].n \in Nat /\ Queue(d)[j].n <= samples
          /\ (d = "Akm" => Queue(d)[j].has \subseteq Compass)
          /\ \A k \in DOMAIN Queue(d) : j < k => Queue(d)[j].n < Queue(d)[k].n
      <4>1. Queue(d)[j] \in SampleType
        BY <1>4, <2>1
      <4> QED BY <2>1, <4>1 DEF QueuesInv, Ordered, SampleType
    <3>2. ASSUME NEW k \in DOMAIN Queue(d)', j < k PROVE Queue(d)'[j].n < Queue(d)'[k].n
      <4>1. CASE k \in DOMAIN Queue(d) /\ Queue(d)'[k] = Queue(d)[k]
        BY <2>1, <3>1, <3>2, <4>1
      <4>2. CASE Queue(d)'[k] = x
        BY <1>2, <1>3, <2>1, <3>1, <4>2
      <4> QED BY <1>5, <4>1, <4>2
    <3> QED BY <1>2, <2>1, <3>1, <3>2
  <2>2. CASE d \in Into(has) /\ Queue(d)'[j] = x /\ \A k \in DOMAIN Queue(d)' : k <= j
    <3>1. \A k \in DOMAIN Queue(d)' : ~(j < k)
      BY <2>0, <2>2
    <3>2. d = "Akm" => has \subseteq Compass
      BY <2>2, Reports
    <3> QED BY <1>2, <1>3, <2>2, <3>1, <3>2
  <2> QED BY <1>5, <2>1, <2>2, Zenon
<1>9. Pending'
  <2>1. ASSUME akm.mPendingMask # {}
        PROVE  Queue("Akm")'[1] = Queue("Akm")[1]
    <3>1. reader["Akm"] # <<>>
      BY <2>1 DEF QueuesInv, Pending
    <3>2. 1 \in DOMAIN Queue("Akm")
      BY <3>1, QueueFirst, Names, Zenon DEF QueuesInv
    <3> QED BY <1>6, <3>2, Names
  <2> QED BY <1>1, <2>1, Zenon DEF QueuesInv, Pending, Returned
<1>10. Older'
  <2> SUFFICES ASSUME NEW s \in Sensor, NEW j \in DOMAIN out[s]
               PROVE  /\ out[s][j] <= samples + 1
                      /\ \A k \in DOMAIN Queue(DriverOf(s))' :
                           \/ out[s][j] < Queue(DriverOf(s))'[k].n
                           \/ /\ s = "M" /\ akm.mPendingMask # {} /\ k = 1
                              /\ out[s][j] <= Queue(DriverOf(s))'[k].n
    BY <1>1, Zenon DEF Older
  <2>1. DriverOf(s) \in Drivers
    BY Names
  <2>2. out[s][j] \in Nat /\ out[s][j] <= samples
    <3>1. out[s] \in Seq(Nat)
      BY DEF QueuesInv, QueuesType
    <3> QED BY <3>1 DEF QueuesInv, Older
  <2>3. ASSUME NEW k \in DOMAIN Queue(DriverOf(s))'
        PROVE  \/ out[s][j] < Queue(DriverOf(s))'[k].n
               \/ /\ s = "M" /\ akm.mPendingMask # {} /\ k = 1
                  /\ out[s][j] <= Queue(DriverOf(s))'[k].n
    <3>1. CASE k \in DOMAIN Queue(DriverOf(s)) /\ Queue(DriverOf(s))'[k] = Queue(DriverOf(s))[k]
      BY <3>1 DEF QueuesInv, Older
    <3>2. CASE Queue(DriverOf(s))'[k] = x
      BY <1>2, <1>3, <2>2, <3>2
    <3> QED BY <1>5, <2>1, <3>1, <3>2, Zenon
  <2> QED BY <1>2, <2>2, <2>3
<1>11. ASSUME NEW s \in Sensor
       PROVE  /\ Unread(s) \subseteq Unread(s)'
              /\ s \in has => samples + 1 \in Unread(s)'
              /\ Unread(s)' \subseteq Unread(s) \cup (IF s \in has THEN {samples + 1} ELSE {})
  <2>1. DriverOf(s) \in Drivers
    BY Names
  <2>2. Unread(s) \subseteq Unread(s)'
    BY <1>6, <2>1 DEF Unread
  <2>3. ASSUME s \in has PROVE samples + 1 \in Unread(s)'
    <3>1. DriverOf(s) \in Into(has)
      BY <2>3, Reports
    <3>2. PICK j \in DOMAIN Queue(DriverOf(s))' : Queue(DriverOf(s))'[j] = x
      BY <1>3, <1>4, <2>1, <3>1, Appends
    <3> QED BY <1>3, <2>3, <3>2 DEF Unread
  <2>4. ASSUME NEW m \in Unread(s)' PROVE m \in Unread(s) \/ (s \in has /\ m = samples + 1)
    <3>1. PICK j \in DOMAIN Queue(DriverOf(s))' :
            s \in Queue(DriverOf(s))'[j].has /\ m = Queue(DriverOf(s))'[j].n
      BY DEF Unread
    <3>2. CASE j \in DOMAIN Queue(DriverOf(s)) /\ Queue(DriverOf(s))'[j] = Queue(DriverOf(s))[j]
      BY <3>1, <3>2 DEF Unread
    <3>3. CASE Queue(DriverOf(s))'[j] = x
      BY <1>3, <3>1, <3>3
    <3> QED BY <1>5, <2>1, <3>2, <3>3, Zenon
  <2> QED BY <2>2, <2>3, <2>4
<1>12. Disabled'
  BY <1>1, <1>11, Zenon DEF QueuesInv, Disabled
<1>13. SamplesOnce'
  <2>1. \A s \in Sensor : Due(s)' \subseteq Due(s) \cup (IF s \in has THEN {samples + 1} ELSE {})
    BY <1>1, Zenon DEF Due, Returned
  <2> QED BY <1>1, <1>11, <2>1, Zenon DEF QueuesInv, SamplesOnce
<1> QED BY <1>7, <1>8, <1>9, <1>10, <1>12, <1>13 DEF QueuesInv

\* The sample readEvents() looks at, what it leaves of it and what it returns.
First == Head(reader[driver])
LeftNow == IF driver = "Akm" THEN Left(Mask(First), count - nb) ELSE {}
From ==
  CASE driver = "KXTF9" -> ReadKXTF9 [] driver = "Akm" -> ReadAkm(First, count - nb)
    [] driver = "ISL29030P" -> ReadISL29030P [] driver = "ISL29030L" -> ReadISL29030L

\* The driver of a sensor that returns an event, for a sample not returned yet; what
\* becomes of a sample that is passed; and when one is not passed.
LEMMA ReadFacts ==
  ASSUME QueuesInv, driver \in Drivers, reader[driver] # <<>>
  PROVE  /\ \A s \in From : s \in Sensor /\ DriverOf(s) = driver /\ ~(s = "M" /\ akm.mPendingMask # {})
         /\ \A s \in Sensor : LeftNow = {} /\ DriverOf(s) = driver /\ s \in First.has =>
              First.n \in off[s] \/ s \in From \/ First.n \in Returned(s)
         /\ LeftNow # {} => /\ driver = "Akm" /\ akm.mPendingMask = {} /\ LeftNow = {"O"}
                            /\ First.has = Compass /\ From = {"M"}
<1> DEFINE x == First
<1>1. /\ Queue(driver) \in Seq(SampleType) /\ 1 \in DOMAIN Queue(driver)
      /\ x = Queue(driver)[1]
  BY QueueFirst, Zenon DEF QueuesInv, First
<1>2. x \in SampleType /\ (driver = "Akm" => x.has \subseteq Compass)
  BY <1>1 DEF QueuesInv, Ordered
<1>3. ASSUME NEW s \in Sensor, DriverOf(s) = driver, s \in x.has, ~Returns(kxtf9, akm, s)
      PROVE  x.n \in off[s]
  <2>1. x.n \in Unread(s)
    BY <1>1, <1>3 DEF Unread
  <2> QED BY <1>3, <2>1 DEF QueuesInv, Disabled
<1> HIDE DEF x
<1>4. /\ \A s \in Sensor : DriverOf(s) = "KXTF9" <=> s = "A"
      /\ \A s \in Sensor : DriverOf(s) = "Akm" <=> s \in Compass
      /\ \A s \in Sensor : DriverOf(s) = "ISL29030P" <=> s = "P"
      /\ \A s \in Sensor : DriverOf(s) = "ISL29030L" <=> s = "L"
      /\ Compass = {"M", "O"} /\ Compass \subseteq Sensor
  BY Names DEF Sensor, Compass
<1>5. CASE driver = "KXTF9"
  <2>1. LeftNow = {} /\ From = IF kxtf9.mEnabled THEN {"A"} ELSE {}
    BY <1>5 DEF LeftNow, From, ReadKXTF9
  <2>2. Returns(kxtf9, akm, "A") = kxtf9.mEnabled
    BY DEF Returns, Compass
  <2>3. "A" \in Sensor
    BY DEF Sensor
  <2> QED BY <1>3, <1>4, <1>5, <2>1, <2>2, <2>3, Names, Zenon DEF x
<1>6. CASE driver = "ISL29030P"
  <2>1. LeftNow = {} /\ From = {"P"}
    BY <1>6 DEF LeftNow, From, ReadISL29030P
  <2> QED BY <1>4, <1>6, <2>1, Names DEF Sensor
<1>7. CASE driver = "ISL29030L"
  <2>1. LeftNow = {} /\ From = {"L"}
    BY <1>7 DEF LeftNow, From, ReadISL29030L
  <2> QED BY <1>4, <1>7, <2>1, Names DEF Sensor
<1>8. CASE driver = "Akm"
  <2> DEFINE due == Mask(x) \cap akm.mEnabled  room == count - nb
  <2>1. /\ LeftNow = IF Mask(x) = Compass /\ "M" \in akm.mEnabled /\ room = 1 THEN {"O"} ELSE {}
        /\ From = IF due = Compass /\ room = 1 THEN {"M"} ELSE due
    BY <1>8 DEF LeftNow, From, Left, ReadAkm, x
  <2>2. /\ akm.mEnabled \subseteq Compass /\ akm.mPendingMask \in {{}, {"O"}}
        /\ Mask(x) = IF akm.mPendingMask = {} THEN x.has ELSE {"O"}
    BY Zenon DEF QueuesInv, QueuesType, Mask
  <2>3. akm.mPendingMask # {} => x.has = Compass /\ x.n \in Returned("M")
    BY <1>1, <1>8 DEF QueuesInv, Pending
  <2>4. \A s \in Compass : Returns(kxtf9, akm, s) <=> s \in akm.mEnabled
    BY DEF Returns, Compass
  <2> HIDE DEF room
  <2>5. \A s \in From : s \in Sensor /\ DriverOf(s) = driver /\ ~(s = "M" /\ akm.mPendingMask # {})
    BY <1>4, <1>8, <2>1, <2>2
  <2>6. ASSUME NEW s \in Compass, LeftNow = {}, s \in x.has, s \in akm.mEnabled
        PROVE  s \in From \/ x.n \in Returned(s)
    BY <1>2, <1>4, <1>8, <2>1, <2>2, <2>3, <2>6
  <2>7. LeftNow # {} => akm.mPendingMask = {} /\ LeftNow = {"O"} /\ x.has = Compass /\ From = {"M"}
    BY <1>4, <2>1, <2>2
  <2> QED BY <1>3, <1>4, <1>8, <2>4, <2>5, <2>6, <2>7 DEF x
<1> QED BY <1>5, <1>6, <1>7, <1>8, Names, Zenon

\* A sample is returned to those of its sensors that are due, and passed unless one
\* of them is left.
LEMMA ReadStep == QueuesInv /\ Read => QueuesInv'
<1> SUFFICES ASSUME QueuesInv, Read PROVE QueuesInv'
  OBVIOUS
<1>0. PICK d \in Drivers : driver = d
  BY Names DEF driver, QueuesInv, QueuesType
<1> DEFINE x == First
<1>1. /\ reader[d] # <<>>
      /\ out' = [s \in Sensor |-> IF s \in x.has \cap From THEN Append(out[s], x.n) ELSE out[s]]
      /\ akm' = IF d = "Akm" THEN [akm EXCEPT !.mPendingMask = LeftNow] ELSE akm
      /\ reader' = IF LeftNow = {} THEN [reader EXCEPT ![d] = Tail(@)] ELSE reader
      /\ UNCHANGED <<i, kxtf9, samples, made, off, device>>
  BY <1>0, Zenon DEF Read, First, LeftNow, From, history
<1>2. /\ \A s \in From : s \in Sensor /\ DriverOf(s) = d /\ ~(s = "M" /\ akm.mPendingMask # {})
      /\ \A s \in Sensor : LeftNow = {} /\ DriverOf(s) = d /\ s \in x.has =>
           x.n \in off[s] \/ s \in From \/ x.n \in Returned(s)
      /\ LeftNow # {} => /\ d = "Akm" /\ akm.mPendingMask = {} /\ LeftNow = {"O"}
                         /\ x.has = Compass /\ From = {"M"}
  BY <1>0, <1>1, ReadFacts
<1>3. /\ Queue(d) \in Seq(SampleType) /\ Queue(d) # <<>> /\ 1 \in DOMAIN Queue(d)
      /\ x = Queue(d)[1] /\ Tail(reader[d]) \o device[d] = Tail(Queue(d))
  BY <1>0, <1>1, QueueFirst, Zenon DEF QueuesInv, First
<1>4. x \in SampleType /\ x.n \in Nat /\ x.n <= samples
  <2>1. x \in SampleType
    BY <1>3
  <2> QED BY <1>0, <1>3, <2>1 DEF SampleType, QueuesInv, Ordered
<1> HIDE DEF x
<1>5. /\ LeftNow = {} => Queue(d)' = Tail(Queue(d))
      /\ LeftNow # {} => Queue(d)' = Queue(d)
      /\ \A e \in Drivers : e # d => Queue(e)' = Queue(e)
  BY <1>0, <1>1, <1>3, Zenon DEF Queue, QueuesInv, QueuesType
<1>6. /\ akm'.mEnabled = akm.mEnabled
      /\ akm'.mPendingMask = IF d = "Akm" THEN LeftNow ELSE akm.mPendingMask
      /\ akm' \in [mEnabled : SUBSET Compass, mPendingMask : {{}, {"O"}}, flags : SUBSET Compass]
  BY <1>1, <1>2, Zenon DEF QueuesInv, QueuesType
<1>7. ASSUME NEW s \in Sensor
      PROVE  /\ out[s] \in Seq(Nat) /\ DriverOf(s) \in Drivers
             /\ s \in x.has \cap From => out'[s] = Append(out[s], x.n)
             /\ s \notin x.has \cap From => out'[s] = out[s]
  BY <1>1, Names, Zenon DEF QueuesInv, QueuesType
<1>8. QueuesType'
  <2>1. reader[d] \in Seq(SampleType) /\ Len(reader[d]) <= Room
    BY <1>0 DEF QueuesInv, QueuesType
  <2>2. Tail(reader[d]) \in Seq(SampleType) /\ Len(Tail(reader[d])) <= Room
    BY <1>1, <2>1, Tails, BoundsAssumption
  <2>3. reader' \in [Drivers -> Seq(SampleType)] /\ \A e \in Drivers : Len(reader'[e]) <= Room
    BY <1>1, <2>2 DEF QueuesInv, QueuesType
  <2>4. out' \in [Sensor -> Seq(Nat)]
    BY <1>1, <1>4, <1>7
  <2> QED BY <1>1, <1>6, <2>3, <2>4, Zenon DEF QueuesInv, QueuesType
\* What is unread afterwards was unread, at the next place if the sample has passed.
<1>9. ASSUME NEW e \in Drivers, NEW k \in DOMAIN Queue(e)'
      PROVE  \E l \in DOMAIN Queue(e) :
               /\ k \in Nat /\ Queue(e)'[k] = Queue(e)[l]
               /\ IF e = d /\ LeftNow = {} THEN l = k + 1 /\ 1 < l ELSE l = k
  <2>1. CASE e = d /\ LeftNow = {}
    <3>1. Queue(e)' = Tail(Queue(e)) /\ k \in DOMAIN Tail(Queue(e))
      BY <1>5, <2>1, Zenon
    <3>2. k \in Nat /\ k + 1 \in DOMAIN Queue(e) /\ Tail(Queue(e))[k] = Queue(e)[k + 1] /\ 1 < k + 1
      BY <1>3, <2>1, <3>1, Tails
    <3> QED BY <2>1, <3>1, <3>2
  <2>2. CASE e # d \/ LeftNow # {}
    <3>1. Queue(e)' = Queue(e)
      BY <1>5, <2>2
    <3>2. k \in Nat
      BY <3>1, QueueFirst DEF QueuesInv
    <3> QED BY <2>2, <3>1, <3>2
  <2> QED BY <2>1, <2>2
\* The sample goes behind older ones.
<1>10. ASSUME NEW s \in x.has \cap From, NEW j \in DOMAIN out[s]
       PROVE  out[s][j] < x.n
  BY <1>2, <1>3, <1>10 DEF QueuesInv, Older
<1>11. ASSUME NEW s \in Sensor, NEW j \in DOMAIN out'[s]
       PROVE  /\ j \in Nat
              /\ \/ j \in DOMAIN out[s] /\ out'[s][j] = out[s][j]
                 \/ s \in x.has \cap From /\ out'[s][j] = x.n /\ \A k \in DOMAIN out'[s] : k <= j
  <2>1. CASE s \in x.has \cap From
    <3>1. /\ DOMAIN out'[s] = DOMAIN out[s] \cup {Len(out[s]) + 1}
          /\ out'[s][Len(out[s]) + 1] = x.n
          /\ \A k \in DOMAIN out[s] : k \in Nat /\ k < Len(out[s]) + 1 /\ out'[s][k] = out[s][k]
      <4> DEFINE q == out[s]
                 n == x.n
      <4>1. q \in Seq(Nat) /\ n \in Nat /\ out'[s] = Append(q, n)
        BY <1>4, <1>7, <2>1, Zenon
      <4> HIDE DEF q, n
      <4>2. /\ DOMAIN Append(q, n) = DOMAIN q \cup {Len(q) + 1}
            /\ Append(q, n)[Len(q) + 1] = n
            /\ \A k \in DOMAIN q : k \in Nat /\ k < Len(q) + 1 /\ Append(q, n)[k] = q[k]
        BY <4>1
      <4> QED BY <4>1, <4>2, Zenon DEF q, n
    <3>2. Len(out[s]) + 1 \in Nat
      BY <1>7
    <3> QED BY <2>1, <3>1, <3>2
  <2>2. CASE s \notin x.has \cap From
    BY <1>7, <2>2
  <2> QED BY <2>1, <2>2
<1>12. Ordered'
  <2> SUFFICES ASSUME NEW e \in Drivers, NEW j \in DOMAIN Queue(e)'
               PROVE  /\ Queue(e)'[j].n <= samples /\ (e = "Akm" => Queue(e)'[j].has \subseteq Compass)
                      /\ \A k \in DOMAIN Queue(e)' : j < k => Queue(e)'[j].n < Queue(e)'[k].n
    BY <1>1 DEF Ordered
  <2>1. PICK l \in DOMAIN Queue(e) :
          /\ j \in Nat /\ Queue(e)'[j] = Queue(e)[l]
          /\ IF e = d /\ LeftNow = {} THEN l = j + 1 /\ 1 < l ELSE l = j
    BY <1>9, Zenon
  <2>2. ASSUME NEW k \in DOMAIN Queue(e)', j < k PROVE Queue(e)'[j].n < Queue(e)'[k].n
    <3>1. PICK h \in DOMAIN Queue(e) :
            /\ k \in Nat /\ Queue(e)'[k] = Queue(e)[h]
            /\ IF e = d /\ LeftNow = {} THEN h = k + 1 /\ 1 < h ELSE h = k
      BY <1>9
    <3>2. l < h
      BY <2>1, <2>2, <3>1
    <3> QED BY <2>1, <3>1, <3>2 DEF QueuesInv, Ordered
  <2> QED BY <2>1, <2>2 DEF QueuesInv, Ordered
<1>13. ASSUME NEW s \in Sensor PROVE Returned(s) \subseteq Returned(s)'
  <2>1. \A k \in DOMAIN out[s] : k \in DOMAIN out'[s] /\ out'[s][k] = out[s][k]
    BY <1>4, <1>7, Appends
  <2> QED BY <2>1 DEF Returned
<1>14. ASSUME NEW s \in x.has \cap From PROVE s \in Sensor /\ x.n \in Returned(s)'
  BY <1>2, <1>4, <1>7, Appends DEF Returned
<1>15. Pending'
  <2>1. CASE d = "Akm" /\ LeftNow # {}
    <3>1. "M" \in x.has \cap From /\ reader' = reader /\ Queue("Akm")' = Queue("Akm")
      BY <1>1, <1>2, <1>5, <2>1 DEF Compass
    <3> QED BY <1>1, <1>2, <1>3, <1>14, <2>1, <3>1 DEF Pending
  <2>2. CASE d = "Akm" /\ LeftNow = {}
    BY <1>6, <2>2 DEF Pending
  <2>3. CASE d # "Akm"
    <3>1. /\ reader'["Akm"] = reader["Akm"] /\ Queue("Akm")' = Queue("Akm")
          /\ akm' = akm /\ Returned("M") \subseteq Returned("M")'
      BY <1>1, <1>5, <1>13, <2>3, Names DEF QueuesInv, QueuesType, Sensor
    <3> QED BY <3>1 DEF QueuesInv, Pending
  <2> QED BY <2>1, <2>2, <2>3
<1>16. Older'
  <2> SUFFICES ASSUME NEW s \in Sensor, NEW j \in DOMAIN out'[s]
               PROVE  /\ out'[s][j] <= samples
                      /\ \A k \in DOMAIN Queue(DriverOf(s))' :
                           \/ out'[s][j] < Queue(DriverOf(s))'[k].n
                           \/ /\ s = "M" /\ akm'.mPendingMask # {} /\ k = 1
                              /\ out'[s][j] <= Queue(DriverOf(s))'[k].n
    BY <1>1 DEF Older
  <2>1. out'[s][j] <= samples
    BY <1>4, <1>11, Zenon DEF QueuesInv, Older
  <2>2. ASSUME NEW k \in DOMAIN Queue(DriverOf(s))'
        PROVE  \/ out'[s][j] < Queue(DriverOf(s))'[k].n
               \/ /\ s = "M" /\ akm'.mPendingMask # {} /\ k = 1
                  /\ out'[s][j] <= Queue(DriverOf(s))'[k].n
    <3>1. PICK l \in DOMAIN Queue(DriverOf(s)) :
            /\ k \in Nat /\ Queue(DriverOf(s))'[k] = Queue(DriverOf(s))[l]
            /\ IF DriverOf(s) = d /\ LeftNow = {} THEN l = k + 1 /\ 1 < l ELSE l = k
      BY <1>7, <1>9, Zenon
    <3>2. CASE j \in DOMAIN out[s] /\ out'[s][j] = out[s][j]
      <4>1. \/ out[s][j] < Queue(DriverOf(s))[l].n
            \/ s = "M" /\ akm.mPendingMask # {} /\ l = 1 /\ out[s][j] <= Queue(DriverOf(s))[l].n
        BY <3>1, <3>2, Zenon DEF QueuesInv, Older
      <4>2. ASSUME s = "M", akm.mPendingMask # {}, l = 1 PROVE akm'.mPendingMask # {} /\ k = 1
        <5>1. ~(d = "Akm" /\ LeftNow = {}) /\ k = 1
          BY <3>1, <4>2, Names
        <5> QED BY <1>2, <1>6, <4>2, <5>1
      <4> QED BY <3>1, <3>2, <4>1, <4>2, Zenon
    <3>3. CASE s \in x.has \cap From /\ out'[s][j] = x.n
      <4>1. DriverOf(s) = d
        BY <1>2, <3>3, Zenon
      <4>2. l # 1 => x.n < Queue(d)[l].n
        <5>1. Queue(d) \in Seq(SampleType) /\ l \in DOMAIN Queue(d)
          BY <1>3, <3>1, <4>1
        <5>2. l # 1 => 1 < l
          BY <5>1
        <5> QED BY <1>0, <1>3, <5>1, <5>2 DEF QueuesInv, Ordered
      <4>3. CASE LeftNow = {}
        BY <3>1, <3>3, <4>1, <4>2, <4>3
      <4>4. CASE LeftNow # {}
        <5>1. k = l /\ Queue(DriverOf(s))'[k] = Queue(d)[l]
          BY <3>1, <4>1, <4>4, Zenon
        <5>2. CASE l # 1
          BY <3>3, <4>2, <5>1, <5>2, Zenon
        <5>3. CASE l = 1
          <6>1. s = "M" /\ akm'.mPendingMask # {}
            BY <1>2, <1>6, <3>3, <4>4, Zenon
          <6>2. Queue(DriverOf(s))'[k].n = x.n /\ x.n <= x.n
            BY <1>3, <1>4, <5>1, <5>3
          <6> QED BY <3>3, <5>1, <5>3, <6>1, <6>2, Zenon
        <5> QED BY <5>2, <5>3, Zenon
      <4> QED BY <4>3, <4>4, Zenon
    <3> QED BY <1>11, <3>2, <3>3, Zenon
  <2> QED BY <2>1, <2>2
<1>17. ASSUME NEW s \in Sensor PROVE Unread(s)' \subseteq Unread(s)
  <2> DEFINE e == DriverOf(s)
  <2>1. \A n : n \in Unread(s)' <=>
                \E k \in DOMAIN Queue(e)' : s \in Queue(e)'[k].has /\ n = Queue(e)'[k].n
    BY Zenon DEF Unread
  <2>2. \A n : n \in Unread(s) <=> \E l \in DOMAIN Queue(e) : s \in Queue(e)[l].has /\ n = Queue(e)[l].n
    BY Zenon DEF Unread
  <2>3. \A k \in DOMAIN Queue(e)' : \E l \in DOMAIN Queue(e) : Queue(e)'[k] = Queue(e)[l]
    BY <1>7, <1>9, Zenon
  <2> QED BY <2>1, <2>2, <2>3, Zenon
<1>18. Disabled'
  <2>1. ASSUME NEW s \in Sensor, Returns(kxtf9, akm, s) PROVE Returns(kxtf9', akm', s)
    BY <1>1, <1>6, <2>1 DEF Returns
  <2> QED BY <1>1, <1>17, <2>1 DEF QueuesInv, Disabled
<1>19. SamplesOnce'
  <2> SUFFICES ASSUME NEW s \in Sensor
               PROVE  /\ \A j, k \in DOMAIN out'[s] : j < k => out'[s][j] < out'[s][k]
                      /\ Due(s)' \subseteq Unread(s)'
    BY DEF SamplesOnce
  <2>1. ASSUME NEW j \in DOMAIN out'[s], NEW k \in DOMAIN out'[s], j < k
        PROVE  out'[s][j] < out'[s][k]
    <3>1. j \in DOMAIN out[s] /\ out'[s][j] = out[s][j]
      BY <1>11, <2>1
    <3>2. CASE k \in DOMAIN out[s] /\ out'[s][k] = out[s][k]
      BY <2>1, <3>1, <3>2 DEF QueuesInv, SamplesOnce
    <3>3. CASE s \in x.has \cap From /\ out'[s][k] = x.n
      BY <1>10, <3>1, <3>3
    <3> QED BY <1>11, <3>2, <3>3
  <2>2. ASSUME NEW m \in Due(s)' PROVE m \in Unread(s)'
    <3>1. m \in Due(s) /\ m \notin off[s] /\ m \notin Returned(s) /\ m \notin Returned(s)'
      BY <1>1, <1>13, <2>2 DEF Due
    <3>2. PICK l \in DOMAIN Queue(DriverOf(s)) :
            s \in Queue(DriverOf(s))[l].has /\ m = Queue(DriverOf(s))[l].n
      BY <3>1, Zenon DEF QueuesInv, SamplesOnce, Unread
    <3>3. CASE DriverOf(s) = d /\ LeftNow = {}
      <4>1. l # 1
        BY <1>2, <1>3, <1>14, <3>1, <3>2, <3>3, Zenon
      <4>2. l - 1 \in DOMAIN Tail(Queue(d)) /\ Tail(Queue(d))[l - 1] = Queue(d)[l]
        BY <1>3, <3>2, <3>3, <4>1, Tails, Zenon
      <4> QED BY <1>5, <3>2, <3>3, <4>2, Zenon DEF Unread
    <3>4. CASE DriverOf(s) # d \/ LeftNow # {}
      BY <1>5, <1>7, <3>2, <3>4, Zenon DEF Unread
    <3> QED BY <3>3, <3>4
  <2> QED BY <2>1, <2>2
<1> QED BY <1>8, <1>12, <1>15, <1>16, <1>18, <1>19 DEF QueuesInv

\* Every sample that is read while its sensor is enabled is returned, once and in
\* order, for every size of the caller's buffer and of the readers, every set of
\* sensors in use and however activate() and the chips interleave with pollEvents().
THEOREM SamplesOnceAlways == Spec => []SamplesOnce
<1>1. Init => QueuesInv
  BY SamplesInit
<1>2. QueuesInv /\ [Next]_vars => QueuesInv'
  <2> SUFFICES ASSUME QueuesInv, [Next]_vars PROVE QueuesInv'
    OBVIOUS
  <2>0. i \in 1 .. 4 /\ i + 1 \in Nat \ {0} /\ 1 \in Nat \ {0}
    BY DEF QueuesInv, QueuesType
  <2>1. ASSUME NEW s \in Sensor, NEW en \in BOOLEAN, activate(s, en) PROVE QueuesInv'
    BY <2>1, ActivateStep
  <2>2. ASSUME NEW has \in Report, Sample(has) PROVE QueuesInv'
    BY <2>2, SampleStep
  <2>3. CASE Call
    <3>1. i' \in 1 .. 4
      BY <2>0, <2>3, OnwardDriver DEF Call, Goto
    <3> QED BY <2>3, <3>1, PollSteps DEF Call
  <2>4. CASE Fill
    BY <2>4, RefillStep
  <2>5. CASE Read
    BY <2>5, ReadStep
  <2>6. CASE ReadDone
    <3>1. i' \in 1 .. 4
      BY <2>0, <2>6, OnwardDriver DEF ReadDone, Goto
    <3> QED BY <2>6, <3>1, PollSteps DEF ReadDone
  <2>7. CASE Poll
    <3>1. i' \in 1 .. 4
      BY <2>0, <2>7, OnwardDriver, Zenon DEF Poll, Goto
    <3> QED BY <2>7, <3>1, PollSteps DEF Poll
  <2>8. CASE Return
    BY <2>0, <2>8, PollSteps DEF Return
  <2>9. CASE UNCHANGED vars
    BY <2>0, <2>9, PollSteps DEF vars, polling
  <2> QED BY <2>1, <2>2, <2>3, <2>4, <2>5, <2>6, <2>7, <2>8, <2>9 DEF Next, pollEvents
<1>3. QueuesInv => SamplesOnce
  BY DEF QueuesInv
<1> QED BY <1>1, <1>2, <1>3, PTL DEF Spec

-----------------------------------------------------------------------------
(* The circular reader. *)

USE NumEventsAssumption, BacklogAssumption

\* fill() keeps the array, mHead and mFreeSpace in range: read() and the
\* memcpy stay inside the 2 * numEvents records.
LEMMA FillType ==
  ASSUME TypeOK, NEW n \in 1 .. numEvents, fill(n)
  PROVE  TypeOK'
<1>1. AfterRead(n) \in [Offsets -> Event]
  BY DEF TypeOK, fill, AfterRead, Offsets, mBufferEnd
<1>2. ASSUME NEW b \in [Offsets -> Event], NEW s \in 0 .. numEvents
      PROVE  CopyBack(b, s) \in [Offsets -> Event]
  BY DEF CopyBack, Offsets, mBufferEnd
<1>3. backlog' \in Seq(Event)
  BY DEF TypeOK, fill
<1>4. mHead + n > numEvents => mHead + n - numEvents \in 0 .. numEvents
  BY DEF TypeOK, mBufferEnd
<1>5. mBuffer' \in [Offsets -> Event]
  BY <1>1, <1>2, <1>4, Zenon DEF fill, mBufferEnd
<1> QED
  BY <1>3, <1>5 DEF TypeOK, fill, mBufferEnd, Offsets

\* The offsets of the reader stay in range under every step.
LEMMA TypeCorrect == ReaderSpec => []TypeOK
<1>1. ReaderInit => TypeOK
  BY DEF ReaderInit, TypeOK, mBufferEnd
<1>2. TypeOK /\ [ReaderNext]_readerVars => TypeOK'
  <2> SUFFICES ASSUME TypeOK, [ReaderNext]_readerVars PROVE TypeOK'
    OBVIOUS
  <2>1. ASSUME NEW e \in Event, Arrive(e) PROVE TypeOK'
    BY <2>1 DEF TypeOK, Arrive, mBufferEnd, Offsets
  <2>2. ASSUME NEW n \in 1 .. numEvents, fill(n) PROVE TypeOK'
    BY <2>2, FillType
  <2>3. CASE NextEvent
    BY <2>3 DEF TypeOK, NextEvent, Available, mBufferEnd, Offsets
  <2>4. CASE UNCHANGED readerVars
    BY <2>4 DEF TypeOK, readerVars, mBufferEnd, Offsets
  <2> QED
    BY <2>1, <2>2, <2>3, <2>4 DEF ReaderNext
<1> QED
  BY <1>1, <1>2, PTL DEF ReaderSpec

-----------------------------------------------------------------------------
\* Between fill() and next() mHead stays Available records after mCurr modulo
\* numEvents; the three disjuncts are the positions of the two pointers
\* relative to mBufferEnd.
LEMMA Inductive == ReaderSpec => []IInv
<1>1. ReaderInit => IInv
  BY DEF ReaderInit, IInv, TypeOK, Available, mBufferEnd
<1>2. IInv /\ TypeOK' /\ [ReaderNext]_readerVars => IInv'
  <2> SUFFICES ASSUME IInv, TypeOK', [ReaderNext]_readerVars PROVE IInv'
    OBVIOUS
  <2> USE DEF IInv, TypeOK, Available, mBufferEnd
  <2>1. ASSUME NEW e \in Event, Arrive(e) PROVE IInv'
    BY <2>1 DEF Arrive
  <2>2. ASSUME NEW n \in 1 .. numEvents, fill(n) PROVE IInv'
    BY <2>2 DEF fill
  <2>3. CASE NextEvent
    BY <2>3 DEF NextEvent
  <2>4. CASE UNCHANGED readerVars
    BY <2>4 DEF readerVars
  <2> QED
    BY <2>1, <2>2, <2>3, <2>4, Zenon DEF ReaderNext
<1> QED
  BY <1>1, <1>2, TypeCorrect, PTL DEF ReaderSpec

\* fill() leaves every unread record where next() will find it and puts the
\* records it read behind them, in the order read() delivered them.
LEMMA FillAppends ==
  ASSUME IInv, NEW n \in 1 .. numEvents, fill(n)
  PROVE  /\ \A p \in 1 .. Available : UnreadAt(p)' = UnreadAt(p)
         /\ \A p \in Available + 1 .. Available + n :
              UnreadAt(p)' = backlog[p - Available]
<1> DEFINE Wrap(o) == IF o < numEvents THEN o ELSE o - numEvents
           excess == mHead + n - numEvents
<1>0. /\ numEvents \in Nat /\ numEvents > 0 /\ n \in 1 .. numEvents
      /\ mHead \in 0 .. numEvents /\ mCurr \in 0 .. numEvents - 1
      /\ mFreeSpace \in 0 .. numEvents /\ n <= mFreeSpace
      /\ Available = numEvents - mFreeSpace
      /\ mCurr' = mCurr
      /\ \/ mHead = mCurr + Available
         \/ mHead = mCurr + Available - numEvents
         \/ mHead = mCurr + Available + numEvents /\ Available = 0
  BY DEF IInv, TypeOK, Available, mBufferEnd, fill
<1>1. mBuffer' = IF mHead + n > numEvents THEN CopyBack(AfterRead(n), excess)
                                          ELSE AfterRead(n)
  BY DEF fill, mBufferEnd
<1>2. ASSUME NEW o \in 0 .. numEvents - 1
      PROVE  mBuffer'[o] = IF mHead + n > numEvents /\ o < excess
                           THEN AfterRead(n)[numEvents + o] ELSE AfterRead(n)[o]
  <2>1. o \in Offsets
    BY <1>0, <1>2 DEF Offsets
  <2>2. CopyBack(AfterRead(n), excess)[o] = IF o \in 0 .. excess - 1
          THEN AfterRead(n)[numEvents + o] ELSE AfterRead(n)[o]
    BY <2>1 DEF CopyBack, mBufferEnd
  <2>3. o \in 0 .. excess - 1 <=> o < excess
    BY <1>0, <1>2
  <2> QED
    BY <1>1, <2>2, <2>3
<1>3. ASSUME NEW o \in Offsets
      PROVE  AfterRead(n)[o] = IF o \in mHead .. mHead + n - 1
                               THEN backlog[o - mHead + 1] ELSE mBuffer[o]
  BY <1>3 DEF AfterRead
<1>4. ASSUME NEW o \in Int
      PROVE  /\ o \in 0 .. numEvents - 1 => o \in Offsets
             /\ o \in 0 .. numEvents - 1 => numEvents + o \in Offsets
  BY <1>0 DEF Offsets
<1>5. ASSUME NEW p \in 1 .. Available PROVE UnreadAt(p)' = UnreadAt(p)
  <2> DEFINE w == Wrap(mCurr + p - 1)
  <2>1. /\ w \in 0 .. numEvents - 1
        /\ w \notin mHead .. mHead + n - 1
        /\ mHead + n > numEvents => ~(w < excess)
    BY <1>0, <1>5
  <2> HIDE DEF w
  <2>2. mBuffer'[w] = AfterRead(n)[w]
    BY <1>2, <2>1
  <2>3. AfterRead(n)[w] = mBuffer[w]
    BY <1>3, <1>4, <2>1
  <2>4. mBuffer'[w] = mBuffer[w]
    BY <2>2, <2>3
  <2>5. UnreadAt(p) = mBuffer[w] /\ UnreadAt(p)' = mBuffer'[w]
    BY <1>0 DEF UnreadAt, mBufferEnd, w
  <2> QED
    BY <2>4, <2>5
<1>6. ASSUME NEW p \in Available + 1 .. Available + n
      PROVE  UnreadAt(p)' = backlog[p - Available]
  <2> DEFINE w == Wrap(mCurr + p - 1)
             k == p - Available
  <2>0. k \in 1 .. n /\ p \in Int /\ p = Available + k
    BY <1>0, <1>6
  <2>1. /\ w \in 0 .. numEvents - 1
        /\ \/ /\ mHead + n > numEvents /\ w < excess
              /\ numEvents + w = mHead + k - 1
           \/ /\ ~(mHead + n > numEvents /\ w < excess)
              /\ w = mHead + k - 1
    BY <1>0, <2>0
  <2> HIDE DEF w, k
  <2>2. mBuffer'[w] = AfterRead(n)[mHead + k - 1] /\ mHead + k - 1 \in Offsets
    BY <1>2, <1>4, <2>1
  <2>3. /\ mHead + k - 1 \in mHead .. mHead + n - 1
        /\ (mHead + k - 1) - mHead + 1 = k
    BY <1>0, <2>0
  <2>4. AfterRead(n)[mHead + k - 1] = backlog[k]
    BY <1>3, <2>2, <2>3, Zenon
  <2>5. UnreadAt(p)' = mBuffer'[w]
    BY <1>0 DEF UnreadAt, mBufferEnd, w
  <2> QED
    BY <2>2, <2>4, <2>5 DEF k
<1> QED
  BY <1>5, <1>6

-----------------------------------------------------------------------------
\* The queue of unread records is a sequence of length Available.
LEMMA QueueType == ASSUME TypeOK
                   PROVE  queue \in Seq(Event) /\ Len(queue) = Available
<1>1. Available \in Nat
  BY DEF TypeOK, Available, mBufferEnd
<1>2. ASSUME NEW p \in 1 .. Available PROVE UnreadAt(p) \in Event
  BY <1>2 DEF TypeOK, UnreadAt, Available, mBufferEnd, Offsets
<1> QED
  BY <1>1, <1>2 DEF queue

\* fill() appends to the queue of unread records what read() took.
LEMMA FillStep ==
  ASSUME IInv, TypeOK', NEW n \in 1 .. numEvents, fill(n)
  PROVE  Fifo!Fill(n)
<1>0. TypeOK /\ backlog \in Seq(Event) /\ n <= Len(backlog)
  BY DEF IInv, TypeOK, fill
<1>1. /\ Available \in Nat /\ Available' = Available + n
      /\ Available + n <= numEvents
  BY <1>0 DEF TypeOK, Available, fill, mBufferEnd
<1>2. queue \in Seq(Event) /\ Len(queue) = Available
  BY <1>0, QueueType
<1>3. /\ SubSeq(backlog, 1, n) \in Seq(Event) /\ Len(SubSeq(backlog, 1, n)) = n
      /\ \A k \in 1 .. n : SubSeq(backlog, 1, n)[k] = backlog[k]
  BY <1>0
<1>4. queue' = [p \in 1 .. Available + n |-> UnreadAt(p)']
  BY <1>1 DEF queue
<1>5. queue \o SubSeq(backlog, 1, n) =
        [p \in 1 .. Available + n |->
           IF p <= Available THEN queue[p] ELSE SubSeq(backlog, 1, n)[p - Available]]
  BY <1>1, <1>2, <1>3
<1>6. ASSUME NEW p \in 1 .. Available + n
      PROVE  UnreadAt(p)' = IF p <= Available THEN queue[p]
                          ELSE SubSeq(backlog, 1, n)[p - Available]
  <2>1. CASE p <= Available
    BY <1>1, <2>1, FillAppends DEF queue
  <2>2. CASE ~(p <= Available)
    <3>1. p \in Available + 1 .. Available + n /\ p - Available \in 1 .. n
      BY <1>1, <2>2
    <3> QED
      BY <1>3, <2>2, <3>1, FillAppends
  <2> QED
    BY <2>1, <2>2, Zenon
<1>7. queue' = queue \o SubSeq(backlog, 1, n)
  BY <1>4, <1>5, <1>6, Zenon
<1> QED
  BY <1>0, <1>1, <1>2, <1>7 DEF fill, Fifo!Fill

\* Tail written as a function, for the pointwise comparison below.
LEMMA TailIs ==
  ASSUME NEW S, NEW s \in Seq(S), Len(s) > 0
  PROVE  Tail(s) = [p \in 1 .. Len(s) - 1 |-> s[p + 1]]
<1>1. /\ Tail(s) \in Seq(S) /\ Len(Tail(s)) = Len(s) - 1
      /\ \A p \in 1 .. Len(s) - 1 : Tail(s)[p] = s[p + 1]
  BY SMT
<1>2. Tail(s) \in [1 .. Len(s) - 1 -> S]
  BY <1>1, LenProperties, Zenon
<1> QED
  BY <1>1, <1>2, Zenon

\* next() removes the oldest unread record and nothing else.
LEMMA NextEventStep == ASSUME TypeOK, TypeOK', NextEvent
                       PROVE  Fifo!NextEvent
<1>1. /\ Available \in Nat \ {0} /\ Available' = Available - 1
      /\ numEvents \in Nat /\ Available <= numEvents /\ mCurr \in 0 .. numEvents - 1
  BY DEF TypeOK, Available, NextEvent, mBufferEnd
<1>2. queue \in Seq(Event) /\ Len(queue) = Available
  BY QueueType
<1>3. Tail(queue) = [p \in 1 .. Available - 1 |-> queue[p + 1]]
  BY <1>1, <1>2, TailIs
<1>4. ASSUME NEW p \in 1 .. Available - 1 PROVE UnreadAt(p)' = queue[p + 1]
  <2>1. queue[p + 1] = UnreadAt(p + 1)
    BY <1>1 DEF queue
  <2>2. UnreadAt(p)' = UnreadAt(p + 1)
    BY <1>1 DEF UnreadAt, NextEvent, mBufferEnd
  <2> QED
    BY <2>1, <2>2
<1>5. queue' = [p \in 1 .. Available - 1 |-> UnreadAt(p)']
  BY <1>1 DEF queue
<1>6. queue' = Tail(queue)
  BY <1>3, <1>4, <1>5
<1> QED
  BY <1>1, <1>2, <1>6 DEF NextEvent, Fifo!NextEvent

\* The circular reader implements the FIFO of EventFifo for every capacity: no
\* record handed over by read() is lost, duplicated, reordered or overwritten.
THEOREM ReaderIsFifo == ReaderSpec => RefinesFifo
<1>1. ReaderInit => Fifo!Init
  <2> SUFFICES ASSUME ReaderInit PROVE Fifo!Init
    OBVIOUS
  <2>1. TypeOK /\ Available = 0
    BY DEF ReaderInit, TypeOK, Available, mBufferEnd
  <2>2. queue \in Seq(Event) /\ Len(queue) = 0
    BY <2>1, QueueType
  <2> QED
    BY <2>2 DEF ReaderInit, Fifo!Init
<1>2. IInv /\ TypeOK' /\ [ReaderNext]_readerVars => [Fifo!Next]_(Fifo!vars)
  <2> SUFFICES ASSUME IInv, TypeOK', [ReaderNext]_readerVars
               PROVE  [Fifo!Next]_(Fifo!vars)
    OBVIOUS
  <2>0. TypeOK
    BY DEF IInv
  <2>1. ASSUME NEW e \in Event, Arrive(e) PROVE Fifo!Next
    BY <2>1 DEF Arrive, Fifo!Next, Fifo!Arrive, queue, UnreadAt, Available, mBufferEnd
  <2>2. ASSUME NEW n \in 1 .. numEvents, fill(n) PROVE Fifo!Next
    BY <2>2, FillStep DEF Fifo!Next
  <2>3. CASE NextEvent
    BY <2>0, <2>3, NextEventStep DEF Fifo!Next
  <2>4. CASE UNCHANGED readerVars
    BY <2>4 DEF readerVars, Fifo!vars, queue, UnreadAt, Available, mBufferEnd
  <2> QED
    BY <2>1, <2>2, <2>3, <2>4 DEF ReaderNext
<1> QED
  BY <1>1, <1>2, TypeCorrect, Inductive, PTL DEF ReaderSpec, Fifo!Spec, RefinesFifo
============================================================================
