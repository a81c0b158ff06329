---------------------------- MODULE AplogdProofs ----------------------------
(***************************************************************************)
(* Proofs about Aplogd, for every number of streams, records, events and    *)
(* every set of faults: the daemon writes where it believes it writes, and  *)
(* it implements LogSink.                                                   *)
(*                                                                          *)
(* Each function of the daemon is shown to stay on its storage (Stays) or   *)
(* to end on a known one, and to move records only from memory to a storage *)
(* or out (Sinks); both compose along the calls.                            *)
(***************************************************************************)
EXTENDS Aplogd, WellFoundedInduction, TLAPS

Daemons ==
  [out : [Streams -> Storages \cup {NULL}], buf : [Streams -> Seq(Records)], cur : Storages,
   max : Nat, total : Nat, unwritten : Nat, timed : BOOLEAN,
   backup_flag : SUBSET Cards, failed : BOOLEAN, half : BOOLEAN,
   file : [Storages -> [Streams -> Seq(Records)]], kept : [Storages -> SUBSET Records],
   last : [Storages -> SUBSET Records], dir : SUBSET Storages,
   gone : SUBSET Records, destroyed : SUBSET Records, replaced : SUBSET Records]

Ram(x) == BufRecords(x)
Disk(x) == DiskRecords(x) \cup x.destroyed \cup x.replaced

\* From x to y records leave memory, S for a storage and D for good, and no
\* stream gets records of another.
Sinks(x, y) ==
  /\ \A s \in Streams : Range(y.buf[s]) \subseteq Range(x.buf[s])
  /\ \E S, D \in SUBSET Ram(x) :
       /\ S \cap D = {} /\ Ram(y) = Ram(x) \ (S \cup D)
       /\ Disk(y) = Disk(x) \cup S /\ y.gone = x.gone \cup D

\* A record is in the buffer of one stream.
Apart(x) ==
  \A s, t \in Streams : s # t => Range(x.buf[s]) \cap Range(x.buf[t]) = {}

\* The files are on the storage the daemon believes in.
Tracked(x) == ~x.half => \A s \in Streams : x.out[s] \in {x.cur, NULL}

\* From x to y the storage stays, and no file is opened elsewhere.
Stays(x, y) ==
  /\ y.cur = x.cur
  /\ ~y.half => ~x.half /\ \A s \in Streams : y.out[s] \in {x.out[s], x.cur, NULL}

-----------------------------------------------------------------------------
(* Records *)

\* What the range of a queue is made of.
LEMMA Ranges ==
  /\ \A a, b \in Seq(Records) : a \o b \in Seq(Records) /\ Range(a \o b) = Range(a) \cup Range(b)
  /\ \A a \in Seq(Records) : \A k \in 0 .. Len(a) :
       SubSeq(a, 1, k) \in Seq(Records) /\ Range(SubSeq(a, 1, k)) \subseteq Range(a)
  /\ \A a \in Seq(Records) : \A r \in Records :
       Append(a, r) \in Seq(Records) /\ Range(Append(a, r)) = Range(a) \cup {r}
  /\ \A a \in Seq(Records) : Range(a) \subseteq Records /\ SubSeq(a, 1, Len(a)) = a
  /\ <<>> \in Seq(Records) /\ Range(<<>>) = {}
<1>1. ASSUME NEW a \in Seq(Records), NEW b \in Seq(Records)
      PROVE  a \o b \in Seq(Records) /\ Range(a \o b) = Range(a) \cup Range(b)
  <2>1. /\ a \o b \in Seq(Records) /\ DOMAIN (a \o b) = 1 .. Len(a) + Len(b)
        /\ \A i \in 1 .. Len(a) : (a \o b)[i] = a[i]
        /\ \A i \in 1 .. Len(b) : (a \o b)[Len(a) + i] = b[i]
        /\ Len(a) \in Nat /\ Len(b) \in Nat /\ DOMAIN a = 1 .. Len(a) /\ DOMAIN b = 1 .. Len(b)
    OBVIOUS
  <2>2. Range(a) \subseteq Range(a \o b)
    BY <2>1 DEF Range
  <2>3. Range(b) \subseteq Range(a \o b)
    <3>1. \A i \in 1 .. Len(b) : Len(a) + i \in 1 .. Len(a) + Len(b)
      BY <2>1
    <3> QED BY <2>1, <3>1, Zenon DEF Range
  <2>4. ASSUME NEW i \in 1 .. Len(a) + Len(b) PROVE (a \o b)[i] \in Range(a) \cup Range(b)
    <3>1. CASE i \in 1 .. Len(a)
      BY <3>1, <2>1 DEF Range
    <3>2. CASE i \notin 1 .. Len(a)
      <4>1. i - Len(a) \in 1 .. Len(b) /\ i = Len(a) + (i - Len(a))
        BY <3>2, <2>1
      <4> QED BY <4>1, <2>1 DEF Range
    <3> QED BY <3>1, <3>2
  <2> QED BY <2>1, <2>2, <2>3, <2>4, Zenon DEF Range
<1>2. ASSUME NEW a \in Seq(Records), NEW k \in 0 .. Len(a)
      PROVE  SubSeq(a, 1, k) \in Seq(Records) /\ Range(SubSeq(a, 1, k)) \subseteq Range(a)
  BY DEF Range
<1>3. ASSUME NEW a \in Seq(Records), NEW r \in Records
      PROVE  Append(a, r) \in Seq(Records) /\ Range(Append(a, r)) = Range(a) \cup {r}
  <2>1. /\ Append(a, r) \in Seq(Records) /\ DOMAIN Append(a, r) = DOMAIN a \cup {Len(a) + 1}
        /\ \A i \in DOMAIN a : Append(a, r)[i] = a[i]
        /\ Append(a, r)[Len(a) + 1] = r
    OBVIOUS
  <2> QED BY <2>1, Zenon DEF Range
<1>4. ASSUME NEW a \in Seq(Records)
      PROVE  Range(a) \subseteq Records /\ SubSeq(a, 1, Len(a)) = a
  BY DEF Range
<1>5. <<>> \in Seq(Records) /\ Range(<<>>) = {}
  BY DEF Range
<1> QED BY <1>1, <1>2, <1>3, <1>4, <1>5

\* The records of a storage.
On(x, st) == x.kept[st] \cup x.last[st] \cup FileRecords(x, st)

\* Where a record is.
LEMMA Members ==
  ASSUME NEW x \in Daemons
  PROVE  /\ Ram(x) \subseteq Records /\ Disk(x) \subseteq Records /\ x.gone \subseteq Records
         /\ \A r : r \in Ram(x) <=> \E s \in Streams : r \in Range(x.buf[s])
         /\ \A r : r \in Disk(x) <=>
              r \in x.destroyed \/ r \in x.replaced \/ \E st \in Storages : r \in On(x, st)
<1>1. \A r : r \in Ram(x) <=> \E s \in Streams : r \in Range(x.buf[s])
  BY Zenon DEF Ram, BufRecords
<1>2. \A r : r \in Disk(x) <=>
        r \in x.destroyed \/ r \in x.replaced \/ \E st \in Storages : r \in On(x, st)
  <2> DEFINE K == UNION {x.kept[st] \cup x.last[st] : st \in Storages}
             F == UNION {FileRecords(x, st) : st \in Storages}
  <2>1. /\ \A r : r \in K <=> \E st \in Storages : r \in x.kept[st] \/ r \in x.last[st]
        /\ \A r : r \in F <=> \E st \in Storages : r \in FileRecords(x, st)
    OBVIOUS
  <2>2. Disk(x) = ((K \cup F) \cup x.destroyed) \cup x.replaced
    BY Zenon DEF Disk, DiskRecords
  <2> HIDE DEF K, F
  <2>3. \A st : \A r : r \in On(x, st) <=> r \in x.kept[st] \/ r \in x.last[st] \/ r \in FileRecords(x, st)
    BY DEF On
  <2>4. \A r : r \in Disk(x) <=> r \in K \/ r \in F \/ r \in x.destroyed \/ r \in x.replaced
    BY <2>2
  <2> QED BY <2>1, <2>3, <2>4, Zenon
<1>3. \A st \in Storages : FileRecords(x, st) \subseteq Records
  <2>1. \A st \in Storages : \A s \in Streams : Range(x.file[st][s]) \subseteq Records
    BY Ranges DEF Daemons
  <2> QED BY <2>1 DEF FileRecords
<1>4. /\ x.destroyed \subseteq Records /\ x.replaced \subseteq Records /\ x.gone \subseteq Records
      /\ \A st \in Storages : x.kept[st] \subseteq Records /\ x.last[st] \subseteq Records
  BY DEF Daemons
<1>5. \A s \in Streams : Range(x.buf[s]) \subseteq Records
  BY Ranges DEF Daemons
<1> QED BY <1>1, <1>2, <1>3, <1>4, <1>5 DEF On

\* A function that touches no files.
LEMMA SameDisk ==
  ASSUME NEW x \in Daemons, NEW y \in Daemons, y.file = x.file, y.kept = x.kept, y.last = x.last,
         y.destroyed = x.destroyed, y.replaced = x.replaced
  PROVE  Disk(y) = Disk(x)
<1>1. \A r : r \in Disk(x) <=> r \in Disk(y)
  <2>1. \A st \in Storages : On(x, st) = On(y, st)
    BY Zenon DEF On, FileRecords
  <2> QED BY <2>1, Members
<1> QED BY <1>1

\* What a function that touches neither buffers nor files does with records.
LEMMA Untouched ==
  ASSUME NEW x \in Daemons, NEW y \in Daemons,
         y.buf = x.buf, y.file = x.file, y.kept = x.kept, y.last = x.last,
         y.gone = x.gone, y.destroyed = x.destroyed, y.replaced = x.replaced
  PROVE  Sinks(x, y) /\ Ram(y) = Ram(x) /\ Disk(y) = Disk(x)
<1>1. Ram(y) = Ram(x)
  BY DEF Ram, BufRecords
<1>2. Disk(y) = Disk(x)
  BY SameDisk
<1>3. {} \in SUBSET Ram(x) /\ {} \cap {} = {} /\ Ram(x) = Ram(x) \ ({} \cup {})
      /\ Disk(x) = Disk(x) \cup {} /\ x.gone = x.gone \cup {}
  OBVIOUS
<1> QED BY <1>1, <1>2, <1>3, Zenon DEF Sinks

\* Moves follow each other.
LEMMA SinksOn ==
  ASSUME NEW x, NEW y, NEW z, Sinks(x, y), Sinks(y, z)
  PROVE  Sinks(x, z)
<1>1. PICK S, D \in SUBSET Ram(x) :
        /\ S \cap D = {} /\ Ram(y) = Ram(x) \ (S \cup D)
        /\ Disk(y) = Disk(x) \cup S /\ y.gone = x.gone \cup D
  BY DEF Sinks
<1>2. PICK S2, D2 \in SUBSET Ram(y) :
        /\ S2 \cap D2 = {} /\ Ram(z) = Ram(y) \ (S2 \cup D2)
        /\ Disk(z) = Disk(y) \cup S2 /\ z.gone = y.gone \cup D2
  BY DEF Sinks
<1>3. /\ S \cup S2 \in SUBSET Ram(x) /\ D \cup D2 \in SUBSET Ram(x)
      /\ (S \cup S2) \cap (D \cup D2) = {}
      /\ Ram(z) = Ram(x) \ ((S \cup S2) \cup (D \cup D2))
      /\ Disk(z) = Disk(x) \cup (S \cup S2) /\ z.gone = x.gone \cup (D \cup D2)
  BY <1>1, <1>2
<1>4. \A s \in Streams : Range(z.buf[s]) \subseteq Range(x.buf[s])
  BY DEF Sinks
<1> QED BY <1>3, <1>4, Zenon DEF Sinks

\* And keep the streams apart.
LEMMA SinksApart ==
  ASSUME NEW x, NEW y, Sinks(x, y), Apart(x)
  PROVE  Apart(y)
BY DEF Sinks, Apart

\* So does staying.
LEMMA StaysOn ==
  ASSUME NEW x, NEW y, NEW z, Stays(x, y), Stays(y, z)
  PROVE  Stays(x, z)
BY DEF Stays

-----------------------------------------------------------------------------
(* Outputs and storages *)

\* aplogd_close_output().
LEMMA CloseFacts ==
  ASSUME NEW x \in Daemons
  PROVE  /\ CloseOutput(x) \in Daemons /\ Sinks(x, CloseOutput(x)) /\ Stays(x, CloseOutput(x))
         /\ CloseOutput(x).buf = x.buf /\ CloseOutput(x).cur = x.cur /\ CloseOutput(x).half = x.half
         /\ \A s \in Streams : CloseOutput(x).out[s] = NULL
<1> DEFINE y == CloseOutput(x)
<1>1. y \in Daemons
  BY Zenon DEF CloseOutput, Daemons
<1>2. /\ y.buf = x.buf /\ y.file = x.file /\ y.kept = x.kept /\ y.last = x.last
      /\ y.gone = x.gone /\ y.destroyed = x.destroyed /\ y.replaced = x.replaced
      /\ y.cur = x.cur /\ y.half = x.half /\ \A s \in Streams : y.out[s] = NULL
  BY DEF CloseOutput, Daemons
<1>3. Sinks(x, y)
  BY <1>1, <1>2, Untouched
<1> QED BY <1>1, <1>2, <1>3 DEF Stays

\* aplogd_output_setup() fails on a storage that is not there, opens every file,
\* or leaves the storage half open.
LEMMA SetupFacts ==
  ASSUME NEW x \in Daemons, NEW st \in Storages, NEW o \in OutputSetup(x, st)
  PROVE  /\ o[1] \in Daemons /\ o[2] \in BOOLEAN /\ Sinks(x, o[1])
         /\ o[1].buf = x.buf /\ o[1].cur = x.cur
         /\ \/ ~o[2] /\ st \notin mounted /\ o[1] = x
            \/ o[2] /\ o[1].half = x.half /\ \A s \in Streams : o[1].out[s] = st
            \/ ~o[2] /\ o[1].half /\ st \in Flaky
<1>1. CASE st \notin mounted
  <2>1. o = <<x, FALSE>>
    BY <1>1, Zenon DEF OutputSetup
  <2>2. Sinks(x, x)
    BY Untouched
  <2> QED BY <1>1, <2>1, <2>2
<1>2. CASE st \in mounted
  <2> DEFINE y(opened) == [x EXCEPT !.out = [s \in Streams |-> IF s \in opened THEN st ELSE NULL],
                                    !.dir = @ \cup {st},
                                    !.half = @ \/ opened # Streams]
  <2>1. PICK opened \in IF st \in Flaky THEN SUBSET Streams ELSE {Streams} :
               o = <<y(opened), opened = Streams>>
    BY <1>2, Zenon DEF OutputSetup
  <2>2. /\ y(opened) \in Daemons
        /\ y(opened).buf = x.buf /\ y(opened).file = x.file /\ y(opened).kept = x.kept
        /\ y(opened).last = x.last /\ y(opened).gone = x.gone /\ y(opened).cur = x.cur
        /\ y(opened).destroyed = x.destroyed /\ y(opened).replaced = x.replaced
        /\ y(opened).out = [s \in Streams |-> IF s \in opened THEN st ELSE NULL]
        /\ y(opened).half = (x.half \/ opened # Streams) /\ x.half \in BOOLEAN
    BY Zenon DEF Daemons
  <2>3. o[1] = y(opened) /\ o[2] = (opened = Streams)
    BY <2>1
  <2> HIDE DEF y
  <2>4. Sinks(x, o[1])
    BY <2>2, <2>3, Untouched
  <2>5. CASE opened = Streams
    <3>1. o[2] /\ o[1].half = x.half /\ \A s \in Streams : o[1].out[s] = st
      BY <2>2, <2>3, <2>5, Zenon
    <3> QED BY <3>1, <2>2, <2>3, <2>4
  <2>6. CASE opened # Streams
    <3>1. ~o[2] /\ o[1].half /\ st \in Flaky
      BY <2>1, <2>2, <2>3, <2>6, Zenon
    <3> QED BY <3>1, <2>2, <2>3, <2>4, Zenon
  <2> QED BY <2>5, <2>6
<1> QED BY <1>1, <1>2

\* switch_storage() ends on one of the two storages, and its files are there; it
\* reaches a storage that is there and opens every file.
LEMMA SwitchFacts ==
  ASSUME NEW x \in Daemons, NEW old \in Storages, NEW new \in Storages,
         NEW y \in SwitchStorage(x, old, new)
  PROVE  /\ y \in Daemons /\ Sinks(x, y) /\ Tracked(y) /\ y.cur \in {old, new}
         /\ new \in mounted \ Flaky => y.cur = new
<1> DEFINE m == [x EXCEPT !.max = FileSize(new)]
           closed == CloseOutput(m)
<1>1. m \in Daemons /\ m.buf = x.buf /\ Sinks(x, m)
  <2>1. FileSize(new) \in Nat
    BY SizesAssumption DEF FileSize
  <2>2. /\ m \in Daemons
        /\ m.buf = x.buf /\ m.file = x.file /\ m.kept = x.kept /\ m.last = x.last
        /\ m.gone = x.gone /\ m.destroyed = x.destroyed /\ m.replaced = x.replaced
    BY <2>1, Zenon DEF Daemons
  <2> QED BY <2>2, Untouched, Zenon
<1>2. /\ closed \in Daemons /\ Sinks(x, closed)
      /\ \A s \in Streams : closed.out[s] = NULL
  BY <1>1, CloseFacts, SinksOn
<1>3. PICK o \in OutputSetup(closed, new) :
        y \in IF o[2] THEN {[o[1] EXCEPT !.cur = new]}
              ELSE {[p[1] EXCEPT !.cur = old] : p \in OutputSetup(o[1], old)}
  BY Zenon DEF SwitchStorage
<1> HIDE DEF closed, m
<1>4. /\ o[1] \in Daemons /\ o[2] \in BOOLEAN /\ Sinks(closed, o[1])
      /\ \/ ~o[2] /\ new \notin mounted /\ o[1] = closed
         \/ o[2] /\ o[1].half = closed.half /\ \A s \in Streams : o[1].out[s] = new
         \/ ~o[2] /\ o[1].half /\ new \in Flaky
  BY <1>2, SetupFacts
<1>5. ASSUME NEW z \in Daemons, NEW st \in Storages, y = [z EXCEPT !.cur = st]
      PROVE  /\ y \in Daemons /\ Sinks(z, y) /\ y.cur = st /\ y.half = z.half /\ y.out = z.out
  <2>1. /\ y \in Daemons /\ y.cur = st /\ y.half = z.half /\ y.out = z.out
        /\ y.buf = z.buf /\ y.file = z.file /\ y.kept = z.kept /\ y.last = z.last
        /\ y.gone = z.gone /\ y.destroyed = z.destroyed /\ y.replaced = z.replaced
    BY <1>5, Zenon DEF Daemons
  <2> QED BY <2>1, Untouched
<1>6. CASE o[2]
  <2>1. y = [o[1] EXCEPT !.cur = new]
    BY <1>3, <1>6
  <2>2. y \in Daemons /\ Sinks(o[1], y) /\ y.cur = new /\ y.out = o[1].out
    BY <2>1, <1>4, <1>5
  <2>3. Sinks(x, y)
    BY <2>2, <1>2, <1>4, SinksOn
  <2>4. \A s \in Streams : y.out[s] = new
    BY <1>4, <1>6, <2>2
  <2> QED BY <2>2, <2>3, <2>4 DEF Tracked
<1>7. CASE ~o[2]
  <2>1. PICK p \in OutputSetup(o[1], old) : y = [p[1] EXCEPT !.cur = old]
    BY <1>3, <1>7
  <2>2. /\ p[1] \in Daemons /\ Sinks(o[1], p[1])
        /\ \/ p[1] = o[1]
           \/ p[1].half = o[1].half /\ \A s \in Streams : p[1].out[s] = old
           \/ p[1].half
    BY <1>4, SetupFacts
  <2>3. y \in Daemons /\ Sinks(p[1], y) /\ y.cur = old /\ y.half = p[1].half /\ y.out = p[1].out
    BY <2>1, <2>2, <1>5
  <2>4. Sinks(x, y)
    BY <2>2, <2>3, <1>2, <1>4, SinksOn
  <2>5. Tracked(y)
    BY <2>2, <2>3, <1>2, <1>4, <1>7 DEF Tracked
  <2> QED BY <2>3, <2>4, <2>5, <1>4, <1>7
<1> QED BY <1>4, <1>6, <1>7

\* Records that only change their place on the storages.
Rearranged(x, y) ==
  /\ y \in Daemons /\ Sinks(x, y)
  /\ y.out = x.out /\ y.cur = x.cur /\ y.half = x.half /\ y.buf = x.buf

\* Such a function is recognised by where each record is.
LEMMA SamePlaces ==
  ASSUME NEW x \in Daemons, NEW y \in Daemons,
         y.out = x.out, y.cur = x.cur, y.half = x.half, y.buf = x.buf, y.gone = x.gone,
         \A r : r \in Disk(x) <=> r \in Disk(y)
  PROVE  Rearranged(x, y)
<1>1. Ram(y) = Ram(x)
  BY DEF Ram, BufRecords
<1>2. Disk(y) = Disk(x)
  BY Zenon
<1>3. {} \in SUBSET Ram(x) /\ {} \cap {} = {} /\ Ram(x) = Ram(x) \ ({} \cup {})
      /\ Disk(x) = Disk(x) \cup {} /\ x.gone = x.gone \cup {}
  OBVIOUS
<1>4. Sinks(x, y)
  BY <1>1, <1>2, <1>3, Zenon DEF Sinks
<1> QED BY <1>4 DEF Rearranged

\* The records of the files on a storage, of no files, and of a storage that is
\* left alone.
LEMMA Files ==
  ASSUME NEW x \in Daemons, NEW st \in Storages
  PROVE  /\ FileRecords(x, st) \subseteq Records
         /\ x.file[st] = NoFiles => FileRecords(x, st) = {}
         /\ NoFiles \in [Streams -> Seq(Records)]
         /\ \A y \in Daemons : y.file[st] = x.file[st] => FileRecords(y, st) = FileRecords(x, st)
<1>1. \A s \in Streams : Range(x.file[st][s]) \subseteq Records
  BY Ranges DEF Daemons
<1>2. NoFiles \in [Streams -> Seq(Records)] /\ \A s \in Streams : Range(NoFiles[s]) = {}
  BY Ranges DEF NoFiles
<1>3. \A y \in Daemons : y.file[st] = x.file[st] => FileRecords(y, st) = FileRecords(x, st)
  BY Zenon DEF FileRecords
<1>4. x.file[st] = NoFiles => FileRecords(x, st) = {}
  BY <1>2 DEF FileRecords
<1> QED BY <1>1, <1>2, <1>3, <1>4 DEF FileRecords

\* aplogd_io_backupall() loses nothing.
LEMMA BackupFacts ==
  ASSUME NEW x \in Daemons, NEW st \in Storages
  PROVE  Rearranged(x, BackupAll(x, st))
<1> DEFINE y == [x EXCEPT !.kept[st] = @ \cup FileRecords(x, st), !.file[st] = NoFiles]
<1>1. /\ y \in Daemons /\ y.out = x.out /\ y.cur = x.cur /\ y.half = x.half /\ y.buf = x.buf
      /\ y.gone = x.gone /\ y.destroyed = x.destroyed /\ y.replaced = x.replaced /\ y.last = x.last
      /\ \A t \in Storages : /\ y.kept[t] = IF t = st THEN x.kept[st] \cup FileRecords(x, st) ELSE x.kept[t]
                             /\ y.file[t] = IF t = st THEN NoFiles ELSE x.file[t]
  BY Files, Zenon DEF Daemons
<1> HIDE DEF y
<1>2. \A r : r \in Disk(x) <=> r \in Disk(y)
  <2>1. \A t \in Storages : On(y, t) = On(x, t)
    BY <1>1, Files DEF On
  <2> QED BY <1>1, <2>1, Members
<1>3. Rearranged(x, y) /\ Rearranged(x, x)
  BY <1>1, <1>2, SamePlaces
<1> QED BY <1>3 DEF BackupAll, y

\* aplogd_log_save() loses nothing but what it replaces in "last".
LEMMA SaveFacts ==
  ASSUME NEW x \in Daemons, NEW st \in Storages, NEW y \in LogSave(x, st)
  PROVE  Rearranged(x, y)
<1>1. CASE st \in x.backup_flag \/ st \notin mounted \cap x.dir
  <2>1. y = x
    BY <1>1, Zenon DEF LogSave
  <2> QED BY <2>1, SamePlaces
<1>2. CASE ~(st \in x.backup_flag \/ st \notin mounted \cap x.dir)
  <2>1. PICK over \in SUBSET (IF st = STORAGE_USERDATA THEN x.last[st] ELSE {}) :
          y = [x EXCEPT !.last[st] = (@ \ over) \cup x.kept[st] \cup FileRecords(x, st),
                  !.kept[st] = {},
                  !.file[st] = NoFiles,
                  !.replaced = @ \cup over,
                  !.backup_flag = @ \cup ({st} \cap Cards)]
    BY <1>2, Zenon DEF LogSave
  <2>2. over \subseteq x.last[st] /\ over \subseteq Records
    BY DEF Daemons
  <2>3. /\ y \in Daemons /\ y.out = x.out /\ y.cur = x.cur /\ y.half = x.half /\ y.buf = x.buf
        /\ y.gone = x.gone /\ y.destroyed = x.destroyed /\ y.replaced = x.replaced \cup over
        /\ \A t \in Storages :
             /\ y.last[t] = IF t = st THEN (x.last[st] \ over) \cup x.kept[st] \cup FileRecords(x, st)
                            ELSE x.last[t]
             /\ y.kept[t] = IF t = st THEN {} ELSE x.kept[t]
             /\ y.file[t] = IF t = st THEN NoFiles ELSE x.file[t]
    BY <2>1, <2>2, Files, Zenon DEF Daemons
  <2>4. \A r : r \in Disk(x) <=> r \in Disk(y)
    <3>1. \A t \in Storages : t # st => On(y, t) = On(x, t)
      BY <2>3, Files DEF On
    <3>2. On(y, st) \cup over = On(x, st)
      BY <2>2, <2>3, Files DEF On
    <3>3. over \subseteq On(x, st)
      BY <2>2 DEF On
    <3> QED BY <2>3, <3>1, <3>2, <3>3, Members
  <2> QED BY <2>3, <2>4, SamePlaces
<1> QED BY <1>1, <1>2

\* aplogd_move_logs() loses nothing but what it counts as destroyed.
LEMMA MoveFacts ==
  ASSUME NEW x \in Daemons, NEW old \in Storages, NEW new \in Storages,
         NEW y \in MoveLogs(x, old, new)
  PROVE  Rearranged(x, y)
<1> DEFINE left == [x EXCEPT !.file[old] = NoFiles]
<1>1. \/ y = x
      \/ old # new /\ y = [left EXCEPT !.file[new] = [s \in Streams |-> @[s] \o x.file[old][s]]]
      \/ y = [left EXCEPT !.destroyed = @ \cup FileRecords(x, old)]
  BY Zenon DEF MoveLogs
<1>2. /\ left \in Daemons
      /\ left.out = x.out /\ left.cur = x.cur /\ left.half = x.half /\ left.buf = x.buf
      /\ left.gone = x.gone /\ left.destroyed = x.destroyed /\ left.replaced = x.replaced
      /\ left.last = x.last /\ left.kept = x.kept
      /\ \A t \in Storages : left.file[t] = IF t = old THEN NoFiles ELSE x.file[t]
  BY Files, Zenon DEF Daemons
<1> HIDE DEF left
<1>3. CASE old # new /\ y = [left EXCEPT !.file[new] = [s \in Streams |-> @[s] \o x.file[old][s]]]
  <2>1. /\ \A s \in Streams : x.file[new][s] \in Seq(Records) /\ x.file[old][s] \in Seq(Records)
    BY DEF Daemons
  <2>2. \A s \in Streams : /\ x.file[new][s] \o x.file[old][s] \in Seq(Records)
                           /\ Range(x.file[new][s] \o x.file[old][s]) =
                                Range(x.file[new][s]) \cup Range(x.file[old][s])
    BY <2>1, Ranges
  <2> DEFINE joint == [s \in Streams |-> x.file[new][s] \o x.file[old][s]]
  <2>3. /\ joint \in [Streams -> Seq(Records)]
        /\ \A s \in Streams : Range(joint[s]) = Range(x.file[new][s]) \cup Range(x.file[old][s])
    BY <2>2
  <2>4. y = [left EXCEPT !.file[new] = joint]
    BY <1>2, <1>3, Zenon
  <2> HIDE DEF joint
  <2>5. /\ y \in Daemons /\ y.out = x.out /\ y.cur = x.cur /\ y.half = x.half /\ y.buf = x.buf
        /\ y.gone = x.gone /\ y.destroyed = x.destroyed /\ y.replaced = x.replaced
        /\ y.last = x.last /\ y.kept = x.kept
        /\ \A t \in Storages : y.file[t] = IF t = new THEN joint ELSE IF t = old THEN NoFiles ELSE x.file[t]
    BY <1>2, <2>3, <2>4, Zenon DEF Daemons
  <2>6. FileRecords(y, new) = FileRecords(x, new) \cup FileRecords(x, old) /\ FileRecords(y, old) = {}
    <3>1. FileRecords(y, new) = UNION {Range(joint[s]) : s \in Streams}
      BY <2>5 DEF FileRecords
    <3>2. \A r : r \in FileRecords(y, new) <=> \E s \in Streams : r \in Range(joint[s])
      BY <3>1
    <3>3. /\ \A r : r \in FileRecords(x, new) <=> \E s \in Streams : r \in Range(x.file[new][s])
          /\ \A r : r \in FileRecords(x, old) <=> \E s \in Streams : r \in Range(x.file[old][s])
      BY DEF FileRecords
    <3>4. FileRecords(y, new) = FileRecords(x, new) \cup FileRecords(x, old)
      BY <2>3, <3>2, <3>3
    <3> QED BY <1>3, <2>5, <3>4, Files
  <2>7. \A r : r \in Disk(x) <=> r \in Disk(y)
    <3>1. \A t \in Storages : t # new /\ t # old => On(y, t) = On(x, t)
      BY <2>5, Files DEF On
    <3>2. On(y, new) \cup On(y, old) = On(x, new) \cup On(x, old)
      BY <2>5, <2>6 DEF On
    <3> QED BY <2>5, <3>1, <3>2, Members
  <2> QED BY <2>5, <2>7, SamePlaces
<1>4. CASE y = [left EXCEPT !.destroyed = @ \cup FileRecords(x, old)]
  <2>1. /\ y \in Daemons /\ y.out = x.out /\ y.cur = x.cur /\ y.half = x.half /\ y.buf = x.buf
        /\ y.gone = x.gone /\ y.destroyed = x.destroyed \cup FileRecords(x, old)
        /\ y.replaced = x.replaced /\ y.last = x.last /\ y.kept = x.kept
        /\ \A t \in Storages : y.file[t] = IF t = old THEN NoFiles ELSE x.file[t]
    BY <1>2, <1>4, Files, Zenon DEF Daemons
  <2>2. \A r : r \in Disk(x) <=> r \in Disk(y)
    <3>1. \A t \in Storages : t # old => On(y, t) = On(x, t)
      BY <2>1, Files DEF On
    <3>2. On(y, old) \cup FileRecords(x, old) = On(x, old)
      BY <2>1, Files DEF On
    <3> QED BY <2>1, <3>1, <3>2, Members
  <2> QED BY <2>1, <2>2, SamePlaces
<1>5. CASE y = x
  BY <1>5, SamePlaces
<1> QED BY <1>1, <1>3, <1>4, <1>5, Zenon

-----------------------------------------------------------------------------
(* RAM buffers *)

\* write() in the loop of aplogd_rambuf_output(): the buffer of the stream is
\* emptied, and each of its records is in the file or given up.
LEMMA WrittenFacts ==
  ASSUME NEW x \in Daemons, Apart(x), NEW s \in Streams, x.out[s] # NULL,
         NEW k \in 1 .. Len(x.buf[s])
  PROVE  /\ Written(x, s, k) \in Daemons /\ Sinks(x, Written(x, s, k))
         /\ Stays(x, Written(x, s, k))
<1> DEFINE b == x.buf[s]
           out == SubSeq(b, 1, k) \o SubSeq(b, 1, Len(b) - k)
           st == x.out[s]
           y == Written(x, s, k)
<1>1. b \in Seq(Records) /\ st \in Storages /\ x.file[st][s] \in Seq(Records)
  BY DEF Daemons
<1>2. k \in 0 .. Len(b) /\ Len(b) - k \in 0 .. Len(b) /\ Len(b) \in Nat
  BY <1>1
<1>3. out \in Seq(Records) /\ Range(out) \subseteq Range(b) /\ Range(b) \subseteq Records
  <2>1. /\ SubSeq(b, 1, k) \in Seq(Records) /\ Range(SubSeq(b, 1, k)) \subseteq Range(b)
        /\ SubSeq(b, 1, Len(b) - k) \in Seq(Records)
        /\ Range(SubSeq(b, 1, Len(b) - k)) \subseteq Range(b)
    BY <1>1, <1>2, Ranges, Zenon
  <2>2. out \in Seq(Records)
        /\ Range(out) = Range(SubSeq(b, 1, k)) \cup Range(SubSeq(b, 1, Len(b) - k))
    BY <2>1, Ranges, Zenon
  <2> QED BY <1>1, <2>1, <2>2, Ranges
<1>4. /\ x.file[st][s] \o out \in Seq(Records)
      /\ Range(x.file[st][s] \o out) = Range(x.file[st][s]) \cup Range(out)
      /\ <<>> \in Seq(Records) /\ Range(<<>>) = {}
  BY <1>1, <1>3, Ranges, Zenon
<1>5. y = [x EXCEPT !.file[st][s] = x.file[st][s] \o out,
                    !.gone = x.gone \cup (Range(b) \ Range(out)),
                    !.total = x.total + Len(b),
                    !.buf[s] = <<>>]
  BY DEF Written, Daemons
<1> HIDE DEF out, b, st
<1>6. /\ y \in Daemons
      /\ y.gone = x.gone \cup (Range(b) \ Range(out)) /\ y.out = x.out /\ y.cur = x.cur
      /\ y.half = x.half /\ y.destroyed = x.destroyed /\ y.replaced = x.replaced
      /\ y.last = x.last /\ y.kept = x.kept
      /\ \A t \in Streams : y.buf[t] = IF t = s THEN <<>> ELSE x.buf[t]
      /\ \A t \in Storages : \A u \in Streams :
           y.file[t][u] = IF t = st /\ u = s THEN x.file[st][s] \o out ELSE x.file[t][u]
  <2> DEFINE q == x.file[st][s] \o out
             F == [x.file EXCEPT ![st][s] = q]
             B == [x.buf EXCEPT ![s] = <<>>]
             G == x.gone \cup (Range(b) \ Range(out))
  <2>1. /\ F \in [Storages -> [Streams -> Seq(Records)]]
        /\ \A t \in Storages : \A u \in Streams : F[t][u] = IF t = st /\ u = s THEN q ELSE x.file[t][u]
    <3> HIDE DEF q
    <3>1. x.file \in [Storages -> [Streams -> Seq(Records)]] /\ q \in Seq(Records)
      BY <1>4 DEF Daemons, q
    <3> QED BY <1>1, <3>1
  <2>2. /\ B \in [Streams -> Seq(Records)]
        /\ \A t \in Streams : B[t] = IF t = s THEN <<>> ELSE x.buf[t]
    BY <1>4 DEF Daemons
  <2>3. G \subseteq Records /\ x.total + Len(b) \in Nat
    BY <1>2, <1>3 DEF Daemons
  <2>4. y = [x EXCEPT !.file = F, !.gone = G, !.total = x.total + Len(b), !.buf = B]
    BY <1>5 DEF Daemons
  <2> HIDE DEF q, F, B, G
  <2>5. /\ y \in Daemons /\ y.gone = G /\ y.out = x.out /\ y.cur = x.cur
        /\ y.half = x.half /\ y.destroyed = x.destroyed /\ y.replaced = x.replaced
        /\ y.last = x.last /\ y.kept = x.kept /\ y.buf = B /\ y.file = F
    <3> DEFINE n == x.total + Len(b)
    <3>1. y = [x EXCEPT !.file = F, !.gone = G, !.total = n, !.buf = B] /\ n \in Nat
      BY <2>3, <2>4
    <3> HIDE DEF y, n
    <3> QED BY <2>1, <2>2, <2>3, <3>1, Zenon DEF Daemons
  <2> QED BY <2>1, <2>2, <2>5 DEF q, G
<1> HIDE DEF y
<1>7. \A r : r \in Disk(y) <=> r \in Disk(x) \/ r \in Range(out)
  <2>1. \A t \in Storages : \A r : /\ r \in FileRecords(y, t) <=> \E u \in Streams : r \in Range(y.file[t][u])
                                   /\ r \in FileRecords(x, t) <=> \E u \in Streams : r \in Range(x.file[t][u])
    BY DEF FileRecords
  <2>2. \A t \in Storages : t # st => FileRecords(y, t) = FileRecords(x, t)
    BY <1>6, <2>1, Zenon
  <2>3. FileRecords(y, st) = FileRecords(x, st) \cup Range(out)
    BY <1>1, <1>4, <1>6, <2>1
  <2>4. \A t \in Storages : t # st => On(y, t) = On(x, t)
    BY <1>6, <2>2 DEF On
  <2>5. On(y, st) = On(x, st) \cup Range(out)
    BY <1>6, <2>3 DEF On
  <2> QED BY <1>1, <1>6, <2>4, <2>5, Members
<1>8. Ram(y) = Ram(x) \ Range(b) /\ Range(b) \subseteq Ram(x)
  <2>1. Range(b) = Range(x.buf[s])
    BY DEF b
  <2>2. /\ \A r : r \in Ram(x) <=> \E u \in Streams : r \in Range(x.buf[u])
        /\ \A r : r \in Ram(y) <=> \E u \in Streams : r \in Range(y.buf[u])
    BY <1>6, Members
  <2>3. \A u \in Streams : Range(y.buf[u]) = IF u = s THEN {} ELSE Range(x.buf[u])
    BY <1>4, <1>6, Zenon
  <2>4. \A u \in Streams : u # s => Range(x.buf[u]) \cap Range(b) = {}
    BY <2>1 DEF Apart
  <2> QED BY <2>1, <2>2, <2>3, <2>4
<1>9. Sinks(x, y)
  <2> DEFINE S == Range(out)
             D == Range(b) \ Range(out)
  <2>1. /\ S \in SUBSET Ram(x) /\ D \in SUBSET Ram(x) /\ S \cap D = {}
        /\ Ram(y) = Ram(x) \ (S \cup D) /\ Disk(y) = Disk(x) \cup S /\ y.gone = x.gone \cup D
    BY <1>3, <1>6, <1>7, <1>8
  <2>2. \A t \in Streams : Range(y.buf[t]) \subseteq Range(x.buf[t])
    BY <1>4, <1>6
  <2> HIDE DEF S, D
  <2> QED BY <2>1, <2>2, Zenon DEF Sinks
<1> QED BY <1>6, <1>9 DEF y, Stays

\* A log set that is full is put aside and opened again on the same storage.
LEMMA RotateFacts ==
  ASSUME NEW x \in Daemons, NEW y \in Rotate(x)
  PROVE  y \in Daemons /\ Sinks(x, y) /\ Stays(x, y)
<1> DEFINE c == CloseOutput(x)
           k == BackupAll(c, x.cur)
<1>0. x.cur \in Storages
  BY DEF Daemons
<1>1. /\ c \in Daemons /\ Sinks(x, c) /\ c.cur = x.cur /\ c.half = x.half
      /\ \A s \in Streams : c.out[s] = NULL
  BY CloseFacts
<1>2. Rearranged(c, k)
  BY <1>0, <1>1, BackupFacts
<1>3. /\ k \in Daemons /\ Sinks(x, k) /\ k.cur = x.cur /\ k.half = x.half
      /\ \A s \in Streams : k.out[s] = NULL
  BY <1>1, <1>2, SinksOn DEF Rearranged
<1>4. y = x \/ \E o \in OutputSetup(k, x.cur) : y = [o[1] EXCEPT !.total = 0]
  BY Zenon DEF Rotate
<1> HIDE DEF c, k
<1>5. CASE y = x
  BY <1>5, Untouched DEF Stays
<1>6. CASE \E o \in OutputSetup(k, x.cur) : y = [o[1] EXCEPT !.total = 0]
  <2>1. PICK o \in OutputSetup(k, x.cur) : y = [o[1] EXCEPT !.total = 0]
    BY <1>6
  <2>2. /\ o[1] \in Daemons /\ Sinks(k, o[1]) /\ o[1].cur = x.cur
        /\ \/ o[1] = k
           \/ o[1].half = k.half /\ \A s \in Streams : o[1].out[s] = x.cur
           \/ o[1].half
    BY <1>0, <1>3, SetupFacts
  <2>3. /\ y \in Daemons /\ y.cur = o[1].cur /\ y.half = o[1].half /\ y.out = o[1].out
        /\ y.buf = o[1].buf /\ y.file = o[1].file /\ y.kept = o[1].kept /\ y.last = o[1].last
        /\ y.gone = o[1].gone /\ y.destroyed = o[1].destroyed /\ y.replaced = o[1].replaced
    BY <2>1, <2>2, Zenon DEF Daemons
  <2>4. Sinks(o[1], y)
    BY <2>2, <2>3, Untouched
  <2>5. Sinks(x, y)
    BY <1>3, <2>2, <2>4, SinksOn
  <2> QED BY <1>3, <2>2, <2>3, <2>5 DEF Stays
<1> QED BY <1>4, <1>5, <1>6

\* aplogd_rambuf_output(), whatever write() does.
LEMMA OutputFacts ==
  ASSUME NEW x \in Daemons, Apart(x), NEW s \in Streams, NEW y \in RambufOutput(x, s)
  PROVE  y \in Daemons /\ Sinks(x, y) /\ Stays(x, y)
<1>1. CASE x.buf[s] = <<>>
  <2>1. y = x
    BY <1>1, Zenon DEF RambufOutput
  <2> QED BY <2>1, Untouched DEF Stays
<1>2. CASE x.buf[s] # <<>> /\ x.out[s] = NULL
  <2> DEFINE b == x.buf[s]
  <2>1. y = [x EXCEPT !.gone = @ \cup Range(b), !.buf[s] = <<>>]
    BY <1>2, Zenon DEF RambufOutput
  <2>2. b \in Seq(Records)
    BY DEF Daemons
  <2>3. Range(b) \subseteq Records /\ <<>> \in Seq(Records) /\ Range(<<>>) = {}
    BY <2>2, Ranges, Zenon
  <2>4. Range(b) = Range(x.buf[s])
    OBVIOUS
  <2> HIDE DEF b
  <2>5. /\ y \in Daemons /\ y.gone = x.gone \cup Range(b)
        /\ y.out = x.out /\ y.cur = x.cur /\ y.half = x.half /\ y.file = x.file
        /\ y.kept = x.kept /\ y.last = x.last /\ y.destroyed = x.destroyed /\ y.replaced = x.replaced
        /\ \A t \in Streams : y.buf[t] = IF t = s THEN <<>> ELSE x.buf[t]
    BY <2>1, <2>3, Zenon DEF Daemons
  <2>6. Disk(y) = Disk(x)
    <3>1. \A t \in Storages : On(y, t) = On(x, t)
      BY <2>5, Files DEF On
    <3> QED BY <2>5, <3>1, Members, Zenon
  <2>7. Ram(y) = Ram(x) \ Range(b) /\ Range(b) \subseteq Ram(x)
    <3>1. \A u \in Streams : u # s => Range(x.buf[u]) \cap Range(b) = {}
      BY <2>4 DEF Apart
    <3>2. \A u \in Streams : Range(y.buf[u]) = IF u = s THEN {} ELSE Range(x.buf[u])
      BY <2>3, <2>5, Zenon
    <3> QED BY <2>4, <2>5, <3>1, <3>2, Members
  <2>8. /\ {} \in SUBSET Ram(x) /\ Range(b) \in SUBSET Ram(x) /\ {} \cap Range(b) = {}
        /\ Ram(y) = Ram(x) \ ({} \cup Range(b)) /\ Disk(y) = Disk(x) \cup {}
        /\ y.gone = x.gone \cup Range(b)
    BY <2>5, <2>6, <2>7
  <2>9. \A t \in Streams : Range(y.buf[t]) \subseteq Range(x.buf[t])
    BY <2>3, <2>5
  <2>10. Sinks(x, y)
    BY <2>8, <2>9, Zenon DEF Sinks
  <2> QED BY <2>5, <2>10 DEF Stays
<1>3. ASSUME NEW z \in Daemons, Sinks(x, z), Stays(x, z), y = [z EXCEPT !.failed = TRUE]
      PROVE  y \in Daemons /\ Sinks(x, y) /\ Stays(x, y)
  <2>1. /\ y \in Daemons /\ y.cur = z.cur /\ y.half = z.half /\ y.out = z.out
        /\ y.buf = z.buf /\ y.file = z.file /\ y.kept = z.kept /\ y.last = z.last
        /\ y.gone = z.gone /\ y.destroyed = z.destroyed /\ y.replaced = z.replaced
    BY <1>3, Zenon DEF Daemons
  <2>2. Sinks(x, y)
    BY <1>3, <2>1, Untouched, SinksOn, Zenon
  <2> QED BY <1>3, <2>1, <2>2 DEF Stays
<1>4. CASE x.buf[s] # <<>> /\ x.out[s] # NULL /\ x.out[s] \notin mounted
  <2>1. y = [x EXCEPT !.failed = TRUE]
    BY <1>4, Zenon DEF RambufOutput
  <2>2. Sinks(x, x) /\ Stays(x, x)
    BY Untouched DEF Stays
  <2> QED BY <2>1, <2>2, <1>3, Zenon
<1>5. CASE x.buf[s] # <<>> /\ x.out[s] # NULL /\ x.out[s] \in mounted
  <2> DEFINE n == Len(x.buf[s])
             K == IF "short write" \in Faults THEN 1 .. n ELSE {n}
  <2>1. \/ \E k \in K : y \in Rotate(Written(x, s, k))
        \/ y = [CloseOutput(x) EXCEPT !.failed = TRUE]
    BY <1>5, Zenon DEF RambufOutput
  <2>2. n \in Nat /\ n # 0
    <3>1. x.buf[s] \in Seq(Records)
      BY DEF Daemons
    <3> QED BY <1>5, <3>1
  <2> HIDE DEF n
  <2> HIDE DEF K
  <2>3. K \subseteq 1 .. n
    <3>1. \A k \in K : k \in 1 .. n \/ k = n
      BY Zenon DEF K
    <3> QED BY <2>2, <3>1
  <2>4. ASSUME NEW k \in 1 .. n, y \in Rotate(Written(x, s, k))
        PROVE  y \in Daemons /\ Sinks(x, y) /\ Stays(x, y)
    <3>1. /\ Written(x, s, k) \in Daemons /\ Sinks(x, Written(x, s, k))
          /\ Stays(x, Written(x, s, k))
      BY <1>5, WrittenFacts, Zenon DEF n
    <3>2. y \in Daemons /\ Sinks(Written(x, s, k), y) /\ Stays(Written(x, s, k), y)
      BY <2>4, <3>1, RotateFacts
    <3> QED BY <3>1, <3>2, SinksOn, StaysOn
  <2>5. CASE y = [CloseOutput(x) EXCEPT !.failed = TRUE]
    BY <2>5, <1>3, CloseFacts, Zenon
  <2> QED BY <2>1, <2>3, <2>4, <2>5, Zenon
<1> QED BY <1>1, <1>2, <1>4, <1>5

\* A non-empty set of naturals has a least element.
LEMMA Least ==
  ASSUME NEW T, T \subseteq Nat, T # {}
  PROVE  \E n \in T : \A m \in T : n <= m
<1>1. PICK x \in T : \A y \in T : <<y, x>> \notin OpToRel(<, Nat)
  BY NatLessThanWellFounded, WFMin, Zenon
<1>2. ASSUME NEW y \in T PROVE x <= y
  <2>1. <<y, x>> \notin OpToRel(<, Nat)
    BY <1>1, Zenon
  <2> QED BY <2>1, SMT DEF OpToRel
<1> QED BY <1>2

\* What a round of the loop of aplogd_rambuf_outputall() may make of a member of Y.
Outputs(Y, s) == UNION {RambufOutput(y, s) : y \in Y}

\* What the loop has made of x after n streams; n goes up to N.
IsLoop(g, x, N) ==
  g = [n \in 0 .. N |-> IF n = 0 THEN {x} ELSE Outputs(g[n - 1], n - 1)]

\* Such a function exists: one that ends at n - 1 is continued to n.
LEMMA LoopExists ==
  ASSUME NEW x, NEW N \in Nat
  PROVE  \E g : IsLoop(g, x, N)
<1> DEFINE T == {n \in Nat : ~\E g : IsLoop(g, x, n)}
<1>1. ASSUME T # {} PROVE FALSE
  <2>1. PICK n \in T : \A m \in T : n <= m
    BY <1>1, Least, Zenon
  <2>2. CASE n = 0
    <3> DEFINE g == [i \in 0 .. 0 |-> {x}]
    <3>1. IsLoop(g, x, 0)
      BY DEF IsLoop
    <3> HIDE DEF g
    <3> QED BY <2>2, <3>1, <2>1
  <2>3. CASE n # 0
    <3>1. n - 1 \in Nat /\ n - 1 \notin T
      BY <2>1, <2>3
    <3>2. PICK h : IsLoop(h, x, n - 1)
      BY <3>1
    <3> DEFINE top == Outputs(h[n - 1], n - 1)
               g == [i \in 0 .. n |-> IF i = n THEN top ELSE h[i]]
    <3>3. ASSUME NEW i \in 0 .. n
          PROVE  g[i] = IF i = 0 THEN {x} ELSE Outputs(g[i - 1], i - 1)
      <4>0. n \in Nat /\ i \in Nat
        OBVIOUS
      <4>1. CASE i = n
        <5>1. n - 1 \in 0 .. n /\ n - 1 # n
          BY <2>3, <4>0
        <5>2. g[n] = top /\ g[n - 1] = h[n - 1]
          BY <5>1, <4>0
        <5> QED BY <2>3, <4>1, <5>2
      <4>2. CASE i # n /\ i # 0
        <5>1. i \in 0 .. n - 1 /\ i - 1 \in 0 .. n /\ i - 1 # n
          BY <4>0, <4>2
        <5>2. g[i] = h[i] /\ g[i - 1] = h[i - 1]
          BY <4>2, <5>1
        <5>3. h[i] = Outputs(h[i - 1], i - 1)
          BY <3>2, <4>2, <5>1, Zenon DEF IsLoop
        <5> QED BY <4>2, <5>2, <5>3
      <4>3. CASE i # n /\ i = 0
        <5>1. 0 \in 0 .. n - 1
          BY <3>1
        <5>2. h[0] = {x}
          BY <3>2, <5>1, Zenon DEF IsLoop
        <5> QED BY <4>3, <5>2
      <4> QED BY <4>1, <4>2, <4>3
    <3>4. g = [i \in 0 .. n |-> g[i]]
      OBVIOUS
    <3> HIDE DEF g
    <3>5. IsLoop(g, x, n)
      BY <3>3, <3>4, Zenon DEF IsLoop
    <3> QED BY <3>5, <2>1
  <2> QED BY <2>2, <2>3
<1> QED BY <1>1

\* aplogd_rambuf_outputall(): by induction over the streams.
LEMMA OutputAllFacts ==
  ASSUME NEW x \in Daemons, Apart(x), NEW y \in RambufOutputAll(x)
  PROVE  y \in Daemons /\ Sinks(x, y) /\ Stays(x, y)
<1> DEFINE N == InputLast + 1
           after[n \in 0 .. InputLast + 1] ==
             IF n = 0 THEN {x} ELSE UNION {RambufOutput(z, n - 1) : z \in after[n - 1]}
           Good(z) == z \in Daemons /\ Sinks(x, z) /\ Stays(x, z)
           T == {n \in 0 .. N : \E z \in after[n] : ~Good(z)}
<1>0. N \in Nat /\ Streams = 0 .. N - 1
  BY SizesAssumption DEF Streams
<1>1. IsLoop(after, x, N)
  <2>1. \E g : IsLoop(g, x, N)
    BY <1>0, LoopExists, Zenon
  <2>2. \E g : g = [n \in 0 .. InputLast + 1 |->
                     IF n = 0 THEN {x} ELSE UNION {RambufOutput(z, n - 1) : z \in g[n - 1]}]
    BY <2>1, Zenon DEF IsLoop, Outputs
  <2>3. after = [n \in 0 .. InputLast + 1 |->
                   IF n = 0 THEN {x} ELSE UNION {RambufOutput(z, n - 1) : z \in after[n - 1]}]
    BY <2>2, Zenon
  <2> HIDE DEF after
  <2> QED BY <2>3, Zenon DEF IsLoop, Outputs
<1>2. RambufOutputAll(x) = {[z EXCEPT !.unwritten = 0, !.timed = FALSE] : z \in after[N]}
  BY Zenon DEF RambufOutputAll
<1> HIDE DEF after
<1>3. ASSUME NEW n \in 0 .. N
      PROVE  after[n] = IF n = 0 THEN {x} ELSE Outputs(after[n - 1], n - 1)
  BY <1>1, Zenon DEF IsLoop
<1>4. ASSUME T # {} PROVE FALSE
  <2>1. PICK n \in T : \A m \in T : n <= m
    <3>1. T \subseteq Nat
      BY <1>0
    <3> HIDE DEF T
    <3> QED BY <1>4, <3>1, Least, Zenon
  <2>2. PICK z \in after[n] : ~Good(z)
    OBVIOUS
  <2>3. Good(x)
    BY Untouched DEF Stays
  <2>4. n # 0
    BY <1>3, <2>2, <2>3
  <2>5. n - 1 \in 0 .. N /\ n - 1 \notin T /\ n - 1 \in Streams
    BY <1>0, <2>1, <2>4
  <2>6. PICK w \in after[n - 1] : z \in RambufOutput(w, n - 1)
    <3>1. after[n] = Outputs(after[n - 1], n - 1)
      BY <1>3, <2>4
    <3> QED BY <2>2, <3>1, Zenon DEF Outputs
  <2>7. Good(w)
    BY <2>5, <2>6
  <2>8. Apart(w)
    BY <2>7, SinksApart
  <2>9. z \in Daemons /\ Sinks(w, z) /\ Stays(w, z)
    BY <2>5, <2>6, <2>7, <2>8, OutputFacts
  <2>10. Good(z)
    BY <2>7, <2>9, SinksOn, StaysOn
  <2> QED BY <2>2, <2>10
<1>5. PICK z \in after[N] : y = [z EXCEPT !.unwritten = 0, !.timed = FALSE]
  BY <1>2, Zenon
<1>6. Good(z)
  BY <1>0, <1>4, <1>5
<1>7. /\ y \in Daemons /\ y.cur = z.cur /\ y.half = z.half /\ y.out = z.out
      /\ y.buf = z.buf /\ y.file = z.file /\ y.kept = z.kept /\ y.last = z.last
      /\ y.gone = z.gone /\ y.destroyed = z.destroyed /\ y.replaced = z.replaced
  BY <1>5, <1>6, Zenon DEF Daemons
<1>8. Sinks(x, y)
  BY <1>6, <1>7, Untouched, SinksOn
<1> QED BY <1>6, <1>7, <1>8 DEF Stays

\* A record that is taken into the buffer of s, before anything is written.
Taken(x, s, r) == [x EXCEPT !.buf[s] = Append(@, r), !.unwritten = @ + 1]

\* A record in no buffer yet goes to memory, and the streams stay apart.
LEMMA TakenFacts ==
  ASSUME NEW x \in Daemons, Apart(x), NEW s \in Streams, NEW r \in Records, r \notin Ram(x)
  PROVE  /\ Taken(x, s, r) \in Daemons /\ Apart(Taken(x, s, r)) /\ Stays(x, Taken(x, s, r))
         /\ Ram(Taken(x, s, r)) = Ram(x) \cup {r} /\ Disk(Taken(x, s, r)) = Disk(x)
         /\ Taken(x, s, r).gone = x.gone
<1> DEFINE y == Taken(x, s, r)
<1>1. x.buf[s] \in Seq(Records)
  BY DEF Daemons
<1>2. Append(x.buf[s], r) \in Seq(Records) /\ Range(Append(x.buf[s], r)) = Range(x.buf[s]) \cup {r}
  BY <1>1, Ranges, Zenon
<1>3. /\ y \in Daemons /\ y.gone = x.gone
      /\ y.out = x.out /\ y.cur = x.cur /\ y.half = x.half /\ y.file = x.file
      /\ y.kept = x.kept /\ y.last = x.last /\ y.destroyed = x.destroyed /\ y.replaced = x.replaced
      /\ \A t \in Streams : y.buf[t] = IF t = s THEN Append(x.buf[s], r) ELSE x.buf[t]
  <2> DEFINE B == [x.buf EXCEPT ![s] = Append(x.buf[s], r)]
             u == x.unwritten + 1
  <2>1. /\ B \in [Streams -> Seq(Records)] /\ u \in Nat
        /\ \A t \in Streams : B[t] = IF t = s THEN Append(x.buf[s], r) ELSE x.buf[t]
    BY <1>2 DEF Daemons
  <2>2. y = [x EXCEPT !.buf = B, !.unwritten = u]
    BY DEF Taken, Daemons
  <2> HIDE DEF y, B, u
  <2> QED BY <2>1, <2>2, Zenon DEF Daemons
<1> HIDE DEF y
<1>4. Disk(y) = Disk(x)
  <2>1. \A t \in Storages : On(y, t) = On(x, t)
    BY <1>3, Files DEF On
  <2>2. \A q : q \in Disk(y) <=> q \in Disk(x)
    BY <1>3, <2>1, Members
  <2> QED BY <2>2, Zenon
<1>5. \A t \in Streams : Range(y.buf[t]) = IF t = s THEN Range(x.buf[s]) \cup {r} ELSE Range(x.buf[t])
  BY <1>2, <1>3, Zenon
<1>6. \A q : q \in Ram(y) <=> q \in Ram(x) \/ q = r
  BY <1>3, <1>5, Members
<1>7. \A t \in Streams : r \notin Range(x.buf[t])
  BY Members
<1>8. Apart(y)
  BY <1>5, <1>7 DEF Apart
<1> QED BY <1>3, <1>4, <1>6, <1>8 DEF y, Stays

\* A record that has been read goes to memory and may be written at once.
LEMMA BufferFacts ==
  ASSUME NEW x \in Daemons, Apart(x), NEW s \in Streams, NEW r \in Records, r \notin Ram(x),
         NEW y \in Buffer(x, s, r)
  PROVE  y \in Daemons /\ Sinks(Taken(x, s, r), y) /\ Stays(x, y) /\ Apart(y)
<1> DEFINE t == Taken(x, s, r)
<1>1. t \in Daemons /\ Apart(t) /\ Stays(x, t)
  BY TakenFacts
<1>2. y \in RambufOutputAll(t) \/ y = [t EXCEPT !.timed = TRUE]
  BY Zenon DEF Buffer, Taken
<1> HIDE DEF t
<1>3. CASE y \in RambufOutputAll(t)
  <2>1. y \in Daemons /\ Sinks(t, y) /\ Stays(t, y)
    BY <1>1, <1>3, OutputAllFacts
  <2> QED BY <1>1, <2>1, StaysOn, SinksApart DEF t
<1>4. CASE y = [t EXCEPT !.timed = TRUE]
  <2>1. /\ y \in Daemons /\ y.cur = t.cur /\ y.half = t.half /\ y.out = t.out
        /\ y.buf = t.buf /\ y.file = t.file /\ y.kept = t.kept /\ y.last = t.last
        /\ y.gone = t.gone /\ y.destroyed = t.destroyed /\ y.replaced = t.replaced
    BY <1>1, <1>4, Zenon DEF Daemons
  <2>2. Sinks(t, y) /\ Stays(t, y)
    BY <1>1, <2>1, Untouched DEF Stays
  <2> QED BY <1>1, <2>1, <2>2, StaysOn, SinksApart DEF t
<1> QED BY <1>2, <1>3, <1>4


-----------------------------------------------------------------------------
(* Storages that come and go *)

\* What the daemon may hold in the buffer for vold's messages.
Changes == {"mounted", "unmounting", "bad removal"}
Reports == Changes \X Cards
Messages == Reports \cup {NoMessage}

\* The parts of a report.
LEMMA ReportParts ==
  ASSUME NEW m \in Reports
  PROVE  m = <<m[1], m[2]>> /\ m[2] \in Cards
BY DEF Reports

\* userdata is always there, and its files can be opened.
LEMMA Userdata ==
  ASSUME STORAGE_USERDATA \in mounted
  PROVE  STORAGE_USERDATA \in mounted \ Flaky
<1>1. Flaky \subseteq UNION ({Flaky, UsedCards} \cup Inserted)
  OBVIOUS
<1>2. Flaky \subseteq {"external", "secondary"}
  BY <1>1, FaultsAssumption, Zenon
<1> QED BY <1>2 DEF STORAGE_USERDATA

\* What a function that saves, moves or switches comes to.
Ends(x, y) == y \in Daemons /\ Sinks(x, y) /\ (Tracked(x) => Tracked(y))

\* Such functions may follow each other.
LEMMA EndsOn ==
  ASSUME NEW x, NEW y, NEW z, Ends(x, y), Ends(y, z)
  PROVE  Ends(x, z)
BY SinksOn, Zenon DEF Ends

\* Nothing, aplogd_log_save(), aplogd_move_logs() and switch_storage() are such
\* functions.
LEMMA EndsSame ==
  ASSUME NEW x \in Daemons
  PROVE  Ends(x, x)
BY Untouched DEF Ends

LEMMA EndsSave ==
  ASSUME NEW x \in Daemons, NEW st \in Storages, NEW y \in LogSave(x, st)
  PROVE  Ends(x, y) /\ y.cur = x.cur
<1>1. Rearranged(x, y)
  BY SaveFacts, Zenon
<1> QED BY <1>1, Zenon DEF Rearranged, Ends, Tracked

LEMMA EndsMove ==
  ASSUME NEW x \in Daemons, NEW old \in Storages, NEW new \in Storages,
         NEW y \in MoveLogs(x, old, new)
  PROVE  Ends(x, y) /\ y.cur = x.cur
<1>1. Rearranged(x, y)
  BY MoveFacts, Zenon
<1> QED BY <1>1, Zenon DEF Rearranged, Ends, Tracked

LEMMA EndsSwitch ==
  ASSUME NEW x \in Daemons, NEW old \in Storages, NEW new \in Storages,
         NEW y \in SwitchStorage(x, old, new)
  PROVE  Ends(x, y) /\ y.cur \in {old, new} /\ (new \in mounted \ Flaky => y.cur = new)
BY SwitchFacts, Zenon DEF Ends

\* The four tests of a message: after one that says that a card goes the daemon is
\* on another storage.
LEMMA MessageFacts ==
  ASSUME NEW x \in Daemons, STORAGE_USERDATA \in mounted, NEW m \in Messages,
         NEW y \in HandleMessage(x, m)
  PROVE  Ends(x, y) /\ (m[1] # "mounted" => y.cur \notin {m[2]} \cap Cards)
<1>1. /\ Storages = {"external", "secondary", "userdata"} /\ Cards = {"external", "secondary"}
      /\ STORAGE_EXTERNAL = "external" /\ STORAGE_SECONDARY = "secondary"
      /\ STORAGE_USERDATA = "userdata" /\ NULL = "NULL"
  BY DEF Storages, Cards, STORAGE_EXTERNAL, STORAGE_SECONDARY, STORAGE_USERDATA, NULL
<1>2. \/ m = <<"mounted", "secondary">> \/ m = <<"mounted", "external">>
      \/ (m[1] # "mounted" /\ m[2] = "secondary")
      \/ (m[1] # "mounted" /\ m[2] = "external")
      \/ m = <<"none", "NULL">>
  <2>1. CASE m = NoMessage
    BY <1>1, <2>1, Zenon DEF NoMessage
  <2>2. CASE m # NoMessage
    <3>1. m \in Reports
      BY <2>2, Zenon DEF Messages
    <3>2. m = <<m[1], m[2]>> /\ m[2] \in Cards
      BY <3>1, ReportParts, Zenon
    <3>3. m[2] = "external" \/ m[2] = "secondary"
      BY <1>1, <3>2
    <3> QED BY <3>2, <3>3, Zenon
  <2> QED BY <2>1, <2>2
<1>3. x.cur \in Storages /\ Ends(x, x)
  BY EndsSame, Zenon DEF Daemons
<1>4. \A z \in Daemons : z.cur \in Storages
  BY DEF Daemons
<1>5. CASE m = <<"mounted", "secondary">>
  <2>1. /\ m = <<"mounted", STORAGE_SECONDARY>> /\ m # <<"mounted", STORAGE_EXTERNAL>>
        /\ m[1] = "mounted"
    BY <1>1, <1>5
  <2>2. y \in SecondaryMounted(x)
    BY <2>1, Zenon DEF HandleMessage
  <2>3. PICK z \in LogSave(x, STORAGE_SECONDARY) :
          y = z \/ \E v : /\ v = z \/ v \in MoveLogs(z, z.cur, STORAGE_SECONDARY)
                          /\ y \in SwitchStorage(v, v.cur, STORAGE_SECONDARY)
    <3>1. PICK z \in LogSave(x, STORAGE_SECONDARY) :
            y \in IF StoragePref # STORAGE_SECONDARY THEN {z}
                  ELSE UNION {SwitchStorage(v, v.cur, STORAGE_SECONDARY) :
                         v \in IF usr_cfg_seq THEN MoveLogs(z, z.cur, STORAGE_SECONDARY) ELSE {z}}
      BY <2>2, Zenon DEF SecondaryMounted
    <3> QED BY <3>1, Zenon
  <2>4. Ends(x, z) /\ z \in Daemons /\ z.cur \in Storages /\ STORAGE_SECONDARY \in Storages
    <3>1. STORAGE_SECONDARY \in Storages
      BY <1>1
    <3> QED BY <1>4, <3>1, EndsSave, Zenon DEF Ends
  <2>5. ASSUME NEW v, v = z \/ v \in MoveLogs(z, z.cur, STORAGE_SECONDARY),
               y \in SwitchStorage(v, v.cur, STORAGE_SECONDARY)
        PROVE  Ends(x, y)
    <3>1. Ends(z, v) /\ v \in Daemons /\ v.cur \in Storages
      BY <1>4, <2>4, <2>5, EndsSame, EndsMove, Zenon DEF Ends
    <3>2. Ends(v, y)
      BY <2>4, <2>5, <3>1, EndsSwitch, Zenon
    <3> QED BY <2>4, <3>1, <3>2, EndsOn, Zenon
  <2> QED BY <2>1, <2>3, <2>4, <2>5, Zenon
<1>6. CASE m = <<"mounted", "external">>
  <2>1. /\ m = <<"mounted", STORAGE_EXTERNAL>> /\ m # <<"mounted", STORAGE_SECONDARY>>
        /\ m[1] = "mounted"
    BY <1>1, <1>6
  <2>2. y \in ExternalMounted(x)
    BY <2>1, Zenon DEF HandleMessage
  <2>3. PICK z \in LogSave(x, STORAGE_EXTERNAL) :
          y = z \/ \E v : /\ v = z \/ v \in MoveLogs(z, STORAGE_USERDATA, STORAGE_EXTERNAL)
                          /\ y \in SwitchStorage(v, v.cur, STORAGE_EXTERNAL)
    <3>1. PICK z \in LogSave(x, STORAGE_EXTERNAL) :
            y \in IF StoragePref = STORAGE_USERDATA \/ z.cur # STORAGE_USERDATA THEN {z}
                  ELSE UNION {SwitchStorage(v, v.cur, STORAGE_EXTERNAL) :
                         v \in IF usr_cfg_seq THEN MoveLogs(z, STORAGE_USERDATA, STORAGE_EXTERNAL) ELSE {z}}
      BY <2>2, Zenon DEF ExternalMounted
    <3> QED BY <3>1, Zenon
  <2>4. /\ Ends(x, z) /\ z \in Daemons /\ z.cur \in Storages
        /\ STORAGE_EXTERNAL \in Storages /\ STORAGE_USERDATA \in Storages
    <3>1. STORAGE_EXTERNAL \in Storages /\ STORAGE_USERDATA \in Storages
      BY <1>1
    <3> QED BY <1>4, <3>1, EndsSave, Zenon DEF Ends
  <2>5. ASSUME NEW v, v = z \/ v \in MoveLogs(z, STORAGE_USERDATA, STORAGE_EXTERNAL),
               y \in SwitchStorage(v, v.cur, STORAGE_EXTERNAL)
        PROVE  Ends(x, y)
    <3>1. Ends(z, v) /\ v \in Daemons /\ v.cur \in Storages
      BY <1>4, <2>4, <2>5, EndsSame, EndsMove, Zenon DEF Ends
    <3>2. Ends(v, y)
      BY <2>4, <2>5, <3>1, EndsSwitch, Zenon
    <3> QED BY <2>4, <3>1, <3>2, EndsOn, Zenon
  <2> QED BY <2>1, <2>3, <2>4, <2>5, Zenon
<1>7. CASE m[1] # "mounted" /\ m[2] = "secondary"
  <2>1. /\ m # <<"mounted", STORAGE_SECONDARY>> /\ m # <<"mounted", STORAGE_EXTERNAL>>
        /\ m[2] = STORAGE_SECONDARY /\ m[2] # STORAGE_EXTERNAL /\ m[1] # "mounted"
    BY <1>1, <1>7
  <2>2. y \in SecondaryGone(x)
    BY <2>1, Zenon DEF HandleMessage
  <2>3. Ends(x, y) /\ y.cur # STORAGE_SECONDARY
    <3>1. CASE x.cur # STORAGE_SECONDARY
      BY <1>3, <2>2, <3>1, Zenon DEF SecondaryGone
    <3>2. CASE x.cur = STORAGE_SECONDARY
      <4>1. PICK z \in SwitchStorage(x, STORAGE_SECONDARY, STORAGE_EXTERNAL) :
              IF z.cur = STORAGE_SECONDARY
              THEN y \in SwitchStorage(z, STORAGE_SECONDARY, STORAGE_USERDATA) ELSE y = z
        BY <2>2, <3>2, Zenon DEF SecondaryGone
      <4>2. /\ STORAGE_SECONDARY \in Storages /\ STORAGE_EXTERNAL \in Storages
            /\ STORAGE_USERDATA \in Storages /\ STORAGE_USERDATA # STORAGE_SECONDARY
        BY <1>1
      <4>3. Ends(x, z) /\ z \in Daemons
        BY <4>2, EndsSwitch, Zenon DEF Ends
      <4>4. CASE z.cur = STORAGE_SECONDARY
        <5>1. y \in SwitchStorage(z, STORAGE_SECONDARY, STORAGE_USERDATA)
          BY <4>1, <4>4, Zenon
        <5>2. Ends(z, y) /\ y.cur = STORAGE_USERDATA
          BY <4>2, <4>3, <5>1, EndsSwitch, Userdata, Zenon
        <5> QED BY <4>2, <4>3, <5>2, EndsOn, Zenon
      <4>5. CASE z.cur # STORAGE_SECONDARY
        BY <4>1, <4>3, <4>5, Zenon
      <4> QED BY <4>4, <4>5, Zenon
    <3> QED BY <3>1, <3>2, Zenon
  <2> QED BY <2>1, <2>3
<1>8. CASE m[1] # "mounted" /\ m[2] = "external"
  <2>1. /\ m # <<"mounted", STORAGE_SECONDARY>> /\ m[2] # STORAGE_SECONDARY
        /\ m # <<"mounted", STORAGE_EXTERNAL>> /\ m[2] = STORAGE_EXTERNAL /\ m[1] # "mounted"
    BY <1>1, <1>8
  <2>2. y \in ExternalGone(x)
    BY <2>1, Zenon DEF HandleMessage
  <2>3. Ends(x, y) /\ y.cur # STORAGE_EXTERNAL
    <3>1. CASE x.cur # STORAGE_EXTERNAL
      BY <1>3, <2>2, <3>1, Zenon DEF ExternalGone
    <3>2. CASE x.cur = STORAGE_EXTERNAL
      <4>1. /\ STORAGE_EXTERNAL \in Storages /\ STORAGE_USERDATA \in Storages
            /\ STORAGE_USERDATA # STORAGE_EXTERNAL
        BY <1>1
      <4>2. y \in SwitchStorage(x, STORAGE_EXTERNAL, STORAGE_USERDATA)
        BY <2>2, <3>2, Zenon DEF ExternalGone
      <4>3. Ends(x, y) /\ y.cur = STORAGE_USERDATA
        BY <4>1, <4>2, EndsSwitch, Userdata, Zenon
      <4> QED BY <4>1, <4>3, Zenon
    <3> QED BY <3>1, <3>2, Zenon
  <2> QED BY <2>1, <2>3
<1>9. CASE m = <<"none", "NULL">>
  <2>1. /\ m # <<"mounted", STORAGE_SECONDARY>> /\ m[2] # STORAGE_SECONDARY
        /\ m # <<"mounted", STORAGE_EXTERNAL>> /\ m[2] # STORAGE_EXTERNAL /\ m[2] \notin Cards
    BY <1>1, <1>9
  <2>2. y = x
    BY <2>1, Zenon DEF HandleMessage
  <2> QED BY <1>3, <2>1, <2>2
<1> QED BY <1>2, <1>5, <1>6, <1>7, <1>8, <1>9, Zenon


-----------------------------------------------------------------------------
(* The start *)

\* No file is open, or a storage is half open.
Closed(x) == x.half \/ \A s \in Streams : x.out[s] = NULL

\* On the way to the first storage that can be used: on one that is still to be
\* tried no file is open.
Booting(x, C) == Tracked(x) /\ (x.cur \in C => Closed(x))

\* A card that was tried needs no further look.
LEMMA TryFacts ==
  ASSUME NEW x \in Daemons, NEW st \in Storages, NEW next \in Storages, NEW C, st \notin C,
         Booting(x, C \cup {st}), NEW y \in TryCard(x, st, next)
  PROVE  y \in Daemons /\ Sinks(x, y) /\ Booting(y, C)
<1>1. CASE x.cur # st
  <2>1. y = x
    BY <1>1, Zenon DEF TryCard
  <2>2. Sinks(x, x)
    BY Untouched
  <2> QED BY <2>1, <2>2 DEF Booting
<1>2. CASE x.cur = st
  <2> DEFINE Y(o) == IF o[2] THEN o[1] ELSE [o[1] EXCEPT !.cur = next]
  <2>1. PICK z \in LogSave(x, st) : \E o \in OutputSetup(z, st) : y = Y(o)
    <3>1. TryCard(x, st, next) = {Y(o) : o \in UNION {OutputSetup(z, st) : z \in LogSave(x, st)}}
      BY <1>2, Zenon DEF TryCard
    <3> HIDE DEF Y
    <3> QED BY <3>1, Zenon
  <2>2. PICK o \in OutputSetup(z, st) : y = Y(o)
    BY <2>1, Zenon
  <2>3. /\ z \in Daemons /\ Sinks(x, z)
        /\ z.out = x.out /\ z.cur = st /\ z.half = x.half
    BY <1>2, SaveFacts, Zenon DEF Rearranged
  <2>4. Closed(x) /\ Closed(z)
    <3>1. Closed(x)
      BY <1>2 DEF Booting
    <3> QED BY <2>3, <3>1, Zenon DEF Closed
  <2>5. /\ o[1] \in Daemons /\ Sinks(z, o[1]) /\ o[1].cur = st
        /\ \/ ~o[2] /\ o[1] = z
           \/ o[2] /\ \A s \in Streams : o[1].out[s] = st
           \/ ~o[2] /\ o[1].half
    BY <2>3, SetupFacts
  <2>6. Sinks(x, o[1])
    BY <2>3, <2>5, SinksOn, Zenon
  <2>7. CASE o[2]
    <3>1. y = o[1] /\ \A s \in Streams : y.out[s] = st
      BY <2>2, <2>5, <2>7, Zenon
    <3>2. Tracked(y) /\ y.cur = st
      BY <2>5, <3>1, Zenon DEF Tracked
    <3> QED BY <2>5, <2>6, <3>1, <3>2, Zenon DEF Booting
  <2>8. CASE ~o[2]
    <3>1. y = [o[1] EXCEPT !.cur = next] /\ Closed(o[1])
      BY <2>2, <2>4, <2>5, <2>8, Zenon DEF Closed
    <3> DEFINE p == o[1]
    <3> HIDE DEF p
    <3>2. /\ y \in Daemons /\ y.out = p.out /\ y.half = p.half
          /\ y.buf = p.buf /\ y.file = p.file /\ y.kept = p.kept /\ y.last = p.last
          /\ y.gone = p.gone /\ y.destroyed = p.destroyed /\ y.replaced = p.replaced
      <4>1. p \in Daemons /\ y = [p EXCEPT !.cur = next]
        BY <2>5, <3>1, Zenon DEF p
      <4> QED BY <4>1, Zenon DEF Daemons
    <3>3. Sinks(p, y)
      <4>1. p \in Daemons
        BY <2>5, Zenon DEF p
      <4> QED BY <3>2, <4>1, Untouched
    <3>4. Sinks(x, y)
      BY <2>6, <3>3, SinksOn, Zenon DEF p
    <3>5. Closed(y)
      BY <3>1, <3>2, Zenon DEF Closed, p
    <3>6. Tracked(y)
      BY <3>5, Zenon DEF Closed, Tracked
    <3> QED BY <3>2, <3>4, <3>5, <3>6, Zenon DEF Booting
  <2> QED BY <2>7, <2>8, Zenon
<1> QED BY <1>1, <1>2, Zenon

\* After aplogd_io_boot_finish() the files are on the storage the daemon believes in.
LEMMA BootFacts ==
  ASSUME NEW x \in Daemons, \A s \in Streams : x.out[s] = NULL, NEW y \in BootFinish(x)
  PROVE  y \in Daemons /\ Sinks(x, y) /\ Tracked(y)
<1> DEFINE saved == UNION {LogSave(v, STORAGE_USERDATA) : v \in LogSave(x, STORAGE_SECONDARY)}
           secondary == UNION {TryCard(ConfigLoad(v), STORAGE_SECONDARY, STORAGE_EXTERNAL) : v \in saved}
           external == UNION {TryCard(v, STORAGE_EXTERNAL, STORAGE_USERDATA) : v \in secondary}
<1>1. /\ STORAGE_EXTERNAL \in Storages /\ STORAGE_SECONDARY \in Storages /\ STORAGE_USERDATA \in Storages
      /\ STORAGE_SECONDARY \notin {STORAGE_EXTERNAL, STORAGE_USERDATA}
      /\ STORAGE_EXTERNAL \notin {STORAGE_USERDATA}
      /\ Storages = {STORAGE_EXTERNAL, STORAGE_USERDATA} \cup {STORAGE_SECONDARY}
      /\ {STORAGE_EXTERNAL, STORAGE_USERDATA} = {STORAGE_USERDATA} \cup {STORAGE_EXTERNAL}
  BY DEF Storages, Cards, STORAGE_EXTERNAL, STORAGE_SECONDARY, STORAGE_USERDATA
<1>2. ASSUME NEW v \in saved
      PROVE  v \in Daemons /\ Sinks(x, v) /\ \A s \in Streams : v.out[s] = NULL
  <2>1. PICK u \in LogSave(x, STORAGE_SECONDARY) : v \in LogSave(u, STORAGE_USERDATA)
    BY <1>2, Zenon
  <2>2. u \in Daemons /\ Sinks(x, u) /\ u.out = x.out
    BY <1>1, SaveFacts, Zenon DEF Rearranged
  <2>3. v \in Daemons /\ Sinks(u, v) /\ v.out = u.out
    BY <1>1, <2>1, <2>2, SaveFacts, Zenon DEF Rearranged
  <2> QED BY <2>2, <2>3, SinksOn, Zenon
<1> HIDE DEF saved
<1>3. ASSUME NEW v \in secondary
      PROVE  v \in Daemons /\ Sinks(x, v) /\ Booting(v, {STORAGE_EXTERNAL, STORAGE_USERDATA})
  <2>1. PICK u \in saved : v \in TryCard(ConfigLoad(u), STORAGE_SECONDARY, STORAGE_EXTERNAL)
    BY <1>3, Zenon
  <2>2. u \in Daemons /\ Sinks(x, u) /\ \A s \in Streams : u.out[s] = NULL
    BY <1>2, <2>1, Zenon
  <2> DEFINE c == ConfigLoad(u)
  <2>3. /\ c \in Daemons /\ c.out = u.out
        /\ c.buf = u.buf /\ c.file = u.file /\ c.kept = u.kept /\ c.last = u.last
        /\ c.gone = u.gone /\ c.destroyed = u.destroyed /\ c.replaced = u.replaced
    <3>1. StoragePref \in Storages /\ FileSize(StoragePref) \in Nat
      BY <1>1, SizesAssumption DEF StoragePref, FileSize
    <3> QED BY <2>2, <3>1, Zenon DEF ConfigLoad, Daemons
  <2> HIDE DEF c
  <2>4. Sinks(u, c)
    BY <2>2, <2>3, Untouched
  <2>5. Sinks(x, c)
    BY <2>2, <2>4, SinksOn, Zenon
  <2>6. Closed(c) /\ Tracked(c)
    BY <2>2, <2>3, Zenon DEF Closed, Tracked
  <2>7. Booting(c, {STORAGE_EXTERNAL, STORAGE_USERDATA} \cup {STORAGE_SECONDARY})
    BY <2>6, Zenon DEF Booting
  <2>8. v \in TryCard(c, STORAGE_SECONDARY, STORAGE_EXTERNAL)
    BY <2>1, Zenon DEF c
  <2>9. v \in Daemons /\ Sinks(c, v) /\ Booting(v, {STORAGE_EXTERNAL, STORAGE_USERDATA})
    BY <1>1, <2>3, <2>7, <2>8, TryFacts, Zenon
  <2> QED BY <2>5, <2>9, SinksOn, Zenon
<1> HIDE DEF secondary
<1>4. ASSUME NEW v \in external
      PROVE  v \in Daemons /\ Sinks(x, v) /\ Booting(v, {STORAGE_USERDATA})
  <2>1. PICK u \in secondary : v \in TryCard(u, STORAGE_EXTERNAL, STORAGE_USERDATA)
    BY <1>4, Zenon
  <2>2. u \in Daemons /\ Sinks(x, u) /\ Booting(u, {STORAGE_USERDATA} \cup {STORAGE_EXTERNAL})
    BY <1>1, <1>3, <2>1, Zenon
  <2>3. v \in Daemons /\ Sinks(u, v) /\ Booting(v, {STORAGE_USERDATA})
    BY <1>1, <2>1, <2>2, TryFacts, Zenon
  <2> QED BY <2>2, <2>3, SinksOn, Zenon
<1>5. PICK v \in external :
        y \in IF v.cur = STORAGE_USERDATA THEN {o[1] : o \in OutputSetup(v, STORAGE_USERDATA)} ELSE {v}
  BY Zenon DEF BootFinish, saved, secondary
<1> HIDE DEF external
<1>6. v \in Daemons /\ Sinks(x, v) /\ Tracked(v)
  BY <1>4, <1>5, Zenon DEF Booting
<1>7. CASE v.cur # STORAGE_USERDATA
  BY <1>5, <1>6, <1>7, Zenon
<1>8. CASE v.cur = STORAGE_USERDATA
  <2>1. PICK o \in OutputSetup(v, STORAGE_USERDATA) : y = o[1]
    BY <1>5, <1>8, Zenon
  <2>2. /\ y \in Daemons /\ Sinks(v, y) /\ y.cur = STORAGE_USERDATA
        /\ \/ y = v
           \/ \A s \in Streams : y.out[s] = STORAGE_USERDATA
           \/ y.half
    BY <1>1, <1>6, <1>8, <2>1, SetupFacts
  <2>3. Tracked(y)
    BY <1>6, <2>2, Zenon DEF Tracked
  <2> QED BY <1>6, <2>2, <2>3, SinksOn, Zenon
<1> QED BY <1>7, <1>8, Zenon


-----------------------------------------------------------------------------
(* The invariant *)

\* Records the daemon has or had.
Known(x) == Ram(x) \cup Disk(x) \cup x.gone

\* What is in the log devices is one of the n records made so far, was not taken
\* yet, and is there once.
Unread(q, x, n) ==
  /\ q \in [Streams -> Seq(Records)]
  /\ n \in Nat /\ Known(x) \subseteq 1 .. n
  /\ \A s \in Streams : \A i \in 1 .. Len(q[s]) : q[s][i] \in 1 .. n /\ q[s][i] \notin Known(x)
  /\ \A s, t \in Streams : \A i \in 1 .. Len(q[s]) : \A j \in 1 .. Len(q[t]) :
       q[s][i] = q[t][j] => s = t /\ i = j

\* The daemon is not on a card that goes.
Away(x, m) == m[1] # "mounted" => x.cur \notin {m[2]} \cap Cards

\* The inductive invariant: StorageTracked for every state, and what it takes to
\* know that a record is taken once.
AInv ==
  /\ d \in Daemons /\ Apart(d)
  /\ Unread(dev, d, made)
  /\ STORAGE_USERDATA \in mounted
  /\ vbuf \in Messages /\ vq \in Seq(Messages)
  /\ pc = "start" => vbuf = NoMessage /\ \A s \in Streams : d.out[s] = NULL
  /\ pc # "start" /\ ~reloaded => Tracked(d) /\ Away(d, vbuf)


-----------------------------------------------------------------------------
(* Records from the devices to the storages *)

\* From x to y the daemon takes the records A; of those in memory, S are stored
\* and D given up.
Absorbs(x, y, A) ==
  /\ A \cap Known(x) = {}
  /\ \E S, D \in SUBSET (Ram(x) \cup A) :
       /\ S \cap D = {} /\ Ram(y) = (Ram(x) \cup A) \ (S \cup D)
       /\ Disk(y) = Disk(x) \cup S /\ y.gone = x.gone \cup D

\* A record is known from when it is taken.
LEMMA AbsorbsKnown ==
  ASSUME NEW x, NEW y, NEW A, Absorbs(x, y, A)
  PROVE  Known(y) = Known(x) \cup A
<1>1. PICK S, D \in SUBSET (Ram(x) \cup A) :
        /\ S \cap D = {} /\ Ram(y) = (Ram(x) \cup A) \ (S \cup D)
        /\ Disk(y) = Disk(x) \cup S /\ y.gone = x.gone \cup D
  BY DEF Absorbs
<1> QED BY <1>1 DEF Known

\* A function that takes none.
LEMMA SinksAbsorb ==
  ASSUME NEW x, NEW y, Sinks(x, y)
  PROVE  Absorbs(x, y, {}) /\ Known(y) = Known(x)
<1>1. PICK S, D \in SUBSET Ram(x) :
        /\ S \cap D = {} /\ Ram(y) = Ram(x) \ (S \cup D)
        /\ Disk(y) = Disk(x) \cup S /\ y.gone = x.gone \cup D
  BY DEF Sinks
<1>2. Ram(x) \cup {} = Ram(x) /\ {} \cap Known(x) = {}
  OBVIOUS
<1>3. Absorbs(x, y, {})
  BY <1>1, <1>2, Zenon DEF Absorbs
<1>4. Known(x) \cup {} = Known(x)
  OBVIOUS
<1> QED BY <1>3, <1>4, AbsorbsKnown, Zenon

\* A record that is read and buffered.
LEMMA BufferAbsorbs ==
  ASSUME NEW x \in Daemons, Apart(x), NEW s \in Streams, NEW r \in Records, r \notin Known(x),
         NEW y \in Buffer(x, s, r)
  PROVE  Absorbs(x, y, {r})
<1>1. r \notin Ram(x) /\ {r} \cap Known(x) = {}
  BY DEF Known
<1> DEFINE t == Taken(x, s, r)
<1>2. /\ Sinks(t, y) /\ Ram(t) = Ram(x) \cup {r} /\ Disk(t) = Disk(x) /\ t.gone = x.gone
  BY <1>1, BufferFacts, TakenFacts, Zenon
<1> HIDE DEF t
<1>3. PICK S, D \in SUBSET Ram(t) :
        /\ S \cap D = {} /\ Ram(y) = Ram(t) \ (S \cup D)
        /\ Disk(y) = Disk(t) \cup S /\ y.gone = t.gone \cup D
  BY <1>2 DEF Sinks
<1> QED BY <1>1, <1>2, <1>3, Zenon DEF Absorbs

\* A record for which there is no room, or which cannot be parsed.
LEMMA DropAbsorbs ==
  ASSUME NEW x \in Daemons, NEW r \in Records, r \notin Known(x),
         NEW y, y = [x EXCEPT !.gone = @ \cup {r}]
  PROVE  /\ y \in Daemons /\ Absorbs(x, y, {r}) /\ Stays(x, y)
         /\ \A s \in Streams : Range(y.buf[s]) = Range(x.buf[s])
<1>1. /\ y \in Daemons /\ y.buf = x.buf /\ y.gone = x.gone \cup {r}
      /\ y.file = x.file /\ y.kept = x.kept /\ y.last = x.last
      /\ y.destroyed = x.destroyed /\ y.replaced = x.replaced
      /\ y.cur = x.cur /\ y.half = x.half /\ y.out = x.out
  BY Zenon DEF Daemons
<1>2. Ram(y) = Ram(x)
  BY <1>1, Zenon DEF Ram, BufRecords
<1>3. Disk(y) = Disk(x)
  BY <1>1, SameDisk, Zenon
<1>4. {} \in SUBSET (Ram(x) \cup {r}) /\ {r} \in SUBSET (Ram(x) \cup {r}) /\ {} \cap {r} = {}
  OBVIOUS
<1>5. Ram(x) = (Ram(x) \cup {r}) \ ({} \cup {r}) /\ {r} \cap Known(x) = {}
  BY DEF Known
<1>6. Disk(x) = Disk(x) \cup {}
  OBVIOUS
<1>7. Absorbs(x, y, {r})
  BY <1>1, <1>2, <1>3, <1>4, <1>5, <1>6, Zenon DEF Absorbs
<1>8. Stays(x, y)
  BY <1>1 DEF Stays
<1> QED BY <1>1, <1>7, <1>8

\* The devices while nothing is read or logged.
LEMMA UnreadSame ==
  ASSUME NEW q, NEW x, NEW y, NEW n, Unread(q, x, n), Known(y) = Known(x)
  PROVE  Unread(q, y, n)
BY Zenon DEF Unread

\* A record is logged.
LEMMA UnreadLog ==
  ASSUME NEW q, NEW x, NEW n, Unread(q, x, n), n < MaxRecords, NEW s \in Streams
  PROVE  Unread([q EXCEPT ![s] = Append(@, n + 1)], x, n + 1)
<1> DEFINE p == [q EXCEPT ![s] = Append(@, n + 1)]
<1>1. q \in [Streams -> Seq(Records)] /\ n \in Nat /\ n + 1 \in Records
  BY SizesAssumption DEF Unread, Records
<1>2. p \in [Streams -> Seq(Records)]
  BY <1>1
<1>3. /\ p[s] = Append(q[s], n + 1) /\ Len(p[s]) = Len(q[s]) + 1 /\ Len(q[s]) \in Nat
      /\ p[s][Len(q[s]) + 1] = n + 1 /\ \A i \in 1 .. Len(q[s]) : p[s][i] = q[s][i]
      /\ \A t \in Streams \ {s} : p[t] = q[t]
  BY <1>1
<1> HIDE DEF p
<1>4. ASSUME NEW t \in Streams, NEW i \in 1 .. Len(p[t])
      PROVE  (i \in 1 .. Len(q[t]) /\ p[t][i] = q[t][i]) \/ (t = s /\ i = Len(q[s]) + 1 /\ p[t][i] = n + 1)
  <2>1. CASE t = s
    <3>1. i \in 1 .. Len(q[s]) \/ i = Len(q[s]) + 1
      BY <1>3, <2>1
    <3> QED BY <1>3, <2>1, <3>1, Zenon
  <2>2. CASE t # s
    BY <1>3, <2>2, Zenon
  <2> QED BY <2>1, <2>2
<1>5. /\ Known(x) \subseteq 1 .. n + 1 /\ n + 1 \in Nat /\ n + 1 \in 1 .. n + 1
      /\ n + 1 \notin Known(x) /\ n + 1 \notin 1 .. n /\ \A k \in 1 .. n : k \in 1 .. n + 1
  BY <1>1 DEF Unread
<1>6. /\ \A t \in Streams : \A i \in 1 .. Len(q[t]) : q[t][i] \in 1 .. n /\ q[t][i] \notin Known(x)
      /\ \A t, u \in Streams : \A i \in 1 .. Len(q[t]) : \A j \in 1 .. Len(q[u]) :
           q[t][i] = q[u][j] => t = u /\ i = j
  BY DEF Unread
<1>7. \A t \in Streams : \A i \in 1 .. Len(p[t]) : p[t][i] \in 1 .. n + 1 /\ p[t][i] \notin Known(x)
  BY <1>4, <1>5, <1>6, Zenon
<1>8. ASSUME NEW t \in Streams, NEW u \in Streams, NEW i \in 1 .. Len(p[t]), NEW j \in 1 .. Len(p[u]),
             p[t][i] = p[u][j]
      PROVE  t = u /\ i = j
  <2>1. CASE i \in 1 .. Len(q[t]) /\ p[t][i] = q[t][i] /\ j \in 1 .. Len(q[u]) /\ p[u][j] = q[u][j]
    <3>1. q[t][i] = q[u][j] /\ i \in 1 .. Len(q[t]) /\ j \in 1 .. Len(q[u])
      BY <1>8, <2>1, Zenon
    <3> QED BY <1>6, <3>1
  <2>2. CASE /\ t = s /\ i = Len(q[s]) + 1 /\ p[t][i] = n + 1
             /\ u = s /\ j = Len(q[s]) + 1
    BY <2>2, Zenon
  <2>3. CASE p[t][i] = n + 1 /\ j \in 1 .. Len(q[u]) /\ p[u][j] = q[u][j]
    <3>1. n + 1 = q[u][j] /\ q[u][j] \in 1 .. n
      BY <1>6, <1>8, <2>3, Zenon
    <3> QED BY <1>5, <3>1, Zenon
  <2>4. CASE i \in 1 .. Len(q[t]) /\ p[t][i] = q[t][i] /\ p[u][j] = n + 1
    <3>1. n + 1 = q[t][i] /\ q[t][i] \in 1 .. n
      BY <1>6, <1>8, <2>4, Zenon
    <3> QED BY <1>5, <3>1, Zenon
  <2> QED BY <1>4, <2>1, <2>2, <2>3, <2>4, Zenon
<1> QED BY <1>2, <1>5, <1>7, <1>8 DEF Unread, p

\* A record is read.
LEMMA UnreadTail ==
  ASSUME NEW q, NEW x, NEW y, NEW n, Unread(q, x, n), NEW s \in Streams, q[s] # <<>>,
         Known(y) = Known(x) \cup {Head(q[s])}
  PROVE  /\ Unread([q EXCEPT ![s] = Tail(@)], y, n)
         /\ Head(q[s]) \in Records /\ Head(q[s]) \notin Known(x)
<1> DEFINE p == [q EXCEPT ![s] = Tail(@)]
<1>1. q \in [Streams -> Seq(Records)] /\ q[s] \in Seq(Records) /\ n \in Nat
  BY DEF Unread
<1>2. /\ Len(q[s]) \in Nat /\ 1 \in 1 .. Len(q[s]) /\ Head(q[s]) = q[s][1] /\ Head(q[s]) \in Records
      /\ Tail(q[s]) \in Seq(Records) /\ Len(Tail(q[s])) = Len(q[s]) - 1
      /\ \A i \in 1 .. Len(q[s]) - 1 : Tail(q[s])[i] = q[s][i + 1]
  BY <1>1
<1>3. p \in [Streams -> Seq(Records)] /\ p[s] = Tail(q[s]) /\ \A t \in Streams \ {s} : p[t] = q[t]
  BY <1>1, <1>2
<1> DEFINE h == Head(q[s])
<1> HIDE DEF p, h
<1>4. /\ \A t \in Streams : \A i \in 1 .. Len(q[t]) : q[t][i] \in 1 .. n /\ q[t][i] \notin Known(x)
      /\ \A t, u \in Streams : \A i \in 1 .. Len(q[t]) : \A j \in 1 .. Len(q[u]) :
           q[t][i] = q[u][j] => t = u /\ i = j
      /\ Known(x) \subseteq 1 .. n
  BY DEF Unread
<1>5. h \in 1 .. n /\ h \notin Known(x) /\ h = q[s][1] /\ Known(y) = Known(x) \cup {h}
  <2>1. h = q[s][1] /\ Known(y) = Known(x) \cup {h}
    BY <1>2, Zenon DEF h
  <2>2. q[s][1] \in 1 .. n /\ q[s][1] \notin Known(x)
    BY <1>2, <1>4, Zenon
  <2> QED BY <2>1, <2>2, Zenon
<1> DEFINE at(t, i) == IF t = s THEN i + 1 ELSE i
<1>6. ASSUME NEW t \in Streams, NEW i \in 1 .. Len(p[t])
      PROVE  /\ at(t, i) \in 1 .. Len(q[t]) /\ p[t][i] = q[t][at(t, i)]
             /\ ~(t = s /\ at(t, i) = 1)
  <2>1. CASE t = s
    <3>1. i \in 1 .. Len(q[s]) - 1 /\ i + 1 \in 1 .. Len(q[s]) /\ i + 1 # 1
      BY <1>2, <1>3, <2>1
    <3>2. p[t][i] = q[t][i + 1]
      BY <1>2, <1>3, <2>1, <3>1, Zenon
    <3> QED BY <2>1, <3>1, <3>2, Zenon
  <2>2. CASE t # s
    BY <1>3, <2>2, Zenon
  <2> QED BY <2>1, <2>2
<1>7. ASSUME NEW i \in Int, NEW j \in Int, NEW t, at(t, i) = at(t, j)
      PROVE  i = j
  BY <1>7
<1> HIDE DEF at
<1>8. ASSUME NEW t \in Streams, NEW i \in 1 .. Len(p[t])
      PROVE  p[t][i] \in 1 .. n /\ p[t][i] \notin Known(y)
  <2>1. q[t][at(t, i)] \in 1 .. n /\ q[t][at(t, i)] \notin Known(x) /\ p[t][i] = q[t][at(t, i)]
    BY <1>4, <1>6, Zenon
  <2>2. q[t][at(t, i)] # q[s][1]
    BY <1>2, <1>4, <1>6
  <2> QED BY <1>5, <2>1, <2>2
<1>10. ASSUME NEW t \in Streams, NEW u \in Streams, NEW i \in 1 .. Len(p[t]), NEW j \in 1 .. Len(p[u]),
              p[t][i] = p[u][j]
       PROVE  t = u /\ i = j
  <2>1. q[t][at(t, i)] = q[u][at(u, j)] /\ at(t, i) \in 1 .. Len(q[t]) /\ at(u, j) \in 1 .. Len(q[u])
    BY <1>6, <1>10, Zenon
  <2>2. t = u /\ at(t, i) = at(t, j)
    BY <1>4, <2>1
  <2>3. i \in Int /\ j \in Int
    OBVIOUS
  <2> QED BY <1>7, <2>2, <2>3, Zenon
<1>9. Known(y) \subseteq 1 .. n
  BY <1>4, <1>5
<1> QED BY <1>1, <1>2, <1>3, <1>5, <1>8, <1>9, <1>10, Zenon DEF Unread, p, h


-----------------------------------------------------------------------------
(* The steps *)

\* A step takes records and moves them as LogSink says.
Takes == \E A \in SUBSET Records : Absorbs(d, d', A)

\* While files are opened nowhere else the daemon knows where they are.
LEMMA StaysTracked ==
  ASSUME NEW x, NEW y, NEW m, Stays(x, y), Tracked(x) /\ Away(x, m)
  PROVE  Tracked(y) /\ Away(y, m)
BY DEF Stays, Tracked, Away

\* At the start no message has come.
LEMMA NoneAway ==
  ASSUME NEW x
  PROVE  Away(x, NoMessage)
BY DEF Away, NoMessage, NULL, Cards, STORAGE_EXTERNAL, STORAGE_SECONDARY

\* Outside the daemon: nothing the invariant is about changes, except the messages
\* and the cards.
LEMMA QuietStep ==
  ASSUME AInv, d' = d, dev' = dev, made' = made, vbuf' = vbuf, reloaded' = reloaded,
         pc' = "start" <=> pc = "start", STORAGE_USERDATA \in mounted', vq' \in Seq(Messages)
  PROVE  AInv' /\ Takes
<1>1. d \in Daemons
  BY DEF AInv
<1>2. Sinks(d, d)
  BY <1>1, Untouched
<1>3. Absorbs(d, d, {})
  BY <1>2, SinksAbsorb, Zenon
<1>4. Takes
  BY <1>3 DEF Takes
<1>5. AInv'
  BY DEF AInv
<1> QED BY <1>4, <1>5

\* A function of the daemon that takes no record.
LEMMA SinksStep ==
  ASSUME AInv, Sinks(d, d'), dev' = dev, made' = made
  PROVE  Takes /\ Apart(d') /\ Unread(dev', d', made')
<1>1. Absorbs(d, d', {}) /\ Known(d') = Known(d)
  BY SinksAbsorb, Zenon
<1>2. Takes
  BY <1>1 DEF Takes
<1>3. Apart(d) /\ Unread(dev, d, made)
  BY DEF AInv
<1>4. Apart(d')
  BY <1>3, SinksApart, Zenon
<1>5. Unread(dev, d', made)
  BY <1>1, <1>3, UnreadSame, Zenon
<1> QED BY <1>2, <1>4, <1>5

\* The start, aplogd_io_boot_finish() included.
LEMMA StartStep ==
  ASSUME AInv, Start
  PROVE  AInv' /\ Takes
<1>1. /\ d \in Daemons /\ vbuf = NoMessage /\ \A s \in Streams : d.out[s] = NULL
      /\ STORAGE_USERDATA \in mounted /\ vbuf \in Messages /\ vq \in Seq(Messages)
  BY DEF AInv, Start
<1>2. /\ d' \in BootFinish(d) /\ dev' = dev /\ made' = made /\ vbuf' = vbuf /\ vq' = vq
      /\ mounted' = mounted /\ pc' = "poll"
  BY DEF Start, envVars
<1>3. d' \in Daemons /\ Sinks(d, d') /\ Tracked(d')
  BY <1>1, <1>2, BootFacts, Zenon
<1>4. Takes /\ Apart(d') /\ Unread(dev', d', made')
  BY <1>2, <1>3, SinksStep
<1>5. Away(d', vbuf')
  BY <1>1, <1>2, NoneAway, Zenon
<1> QED BY <1>1, <1>2, <1>3, <1>4, <1>5 DEF AInv

\* The end of a round of aplogd_log_io(), which may load the configuration again.
LEMMA AgainStep ==
  ASSUME AInv, Again
  PROVE  AInv' /\ Takes
<1>1. /\ d \in Daemons /\ d.cur \in Storages
      /\ STORAGE_USERDATA \in mounted /\ vbuf \in Messages /\ vq \in Seq(Messages)
  BY Zenon DEF AInv, Daemons
<1>2. /\ dev' = dev /\ made' = made /\ vbuf' = vbuf /\ vq' = vq
      /\ mounted' = mounted /\ pc = "again" /\ pc' = "poll"
  BY DEF Again, envVars
<1>3. CASE config_changed
  <2>1. /\ reloaded' = TRUE
        /\ \E x \in IF d.cur # StoragePref THEN SwitchStorage(d, d.cur, StoragePref) ELSE {d} :
             d' = ConfigLoad(x)
    BY <1>3, Zenon DEF Again
  <2>2. StoragePref \in Storages /\ FileSize(StoragePref) \in Nat
    BY SizesAssumption DEF StoragePref, FileSize, Storages, Cards
  <2>3. PICK x : (x = d \/ x \in SwitchStorage(d, d.cur, StoragePref)) /\ d' = ConfigLoad(x)
    BY <2>1, Zenon
  <2>4. x \in Daemons /\ Sinks(d, x)
    <3>1. CASE x = d
      BY <1>1, <3>1, Untouched
    <3>2. CASE x \in SwitchStorage(d, d.cur, StoragePref)
      BY <1>1, <2>2, <3>2, SwitchFacts, Zenon
    <3> QED BY <2>3, <3>1, <3>2, Zenon
  <2>5. d' \in Daemons /\ Sinks(x, d')
    <3> DEFINE c == ConfigLoad(x)
    <3>1. /\ c \in Daemons
          /\ c.buf = x.buf /\ c.file = x.file /\ c.kept = x.kept /\ c.last = x.last
          /\ c.gone = x.gone /\ c.destroyed = x.destroyed /\ c.replaced = x.replaced
      BY <2>2, <2>4, Zenon DEF ConfigLoad, Daemons
    <3>2. c = d'
      BY <2>3, Zenon
    <3> HIDE DEF c
    <3>3. Sinks(x, c)
      BY <2>4, <3>1, Untouched
    <3> QED BY <3>1, <3>2, <3>3, Zenon
  <2>6. Sinks(d, d')
    BY <2>4, <2>5, SinksOn, Zenon
  <2>7. Takes /\ Apart(d') /\ Unread(dev', d', made')
    BY <1>2, <2>6, SinksStep
  <2> QED BY <1>1, <1>2, <2>1, <2>5, <2>7 DEF AInv
<1>4. CASE ~config_changed
  <2>1. d' = d /\ reloaded' = reloaded
    BY <1>4 DEF Again
  <2> QED BY <1>1, <1>2, <2>1, QuietStep
<1> QED BY <1>3, <1>4

\* poll() times out and the buffers are written.
LEMMA PollTimeoutStep ==
  ASSUME AInv, PollTimeout
  PROVE  AInv' /\ Takes
<1>1. /\ d \in Daemons /\ Apart(d)
      /\ STORAGE_USERDATA \in mounted /\ vbuf \in Messages /\ vq \in Seq(Messages)
      /\ pc # "start" /\ ~reloaded => Tracked(d) /\ Away(d, vbuf)
  BY DEF AInv
<1>2. /\ d' \in RambufOutputAll(d) /\ dev' = dev /\ made' = made /\ vbuf' = vbuf /\ vq' = vq
      /\ mounted' = mounted /\ reloaded' = reloaded /\ pc = "poll" /\ pc' = "again"
  BY DEF PollTimeout, envVars
<1>3. d' \in Daemons /\ Sinks(d, d') /\ Stays(d, d')
  BY <1>1, <1>2, OutputAllFacts, Zenon
<1>4. Takes /\ Apart(d') /\ Unread(dev', d', made')
  BY <1>2, <1>3, SinksStep
<1>5. ~reloaded' => Tracked(d') /\ Away(d', vbuf')
  <2> SUFFICES ASSUME ~reloaded' PROVE Tracked(d') /\ Away(d', vbuf')
    OBVIOUS
  <2>1. Tracked(d) /\ Away(d, vbuf)
    BY <1>1, <1>2
  <2>2. Tracked(d') /\ Away(d', vbuf)
    BY <1>3, <2>1, StaysTracked, Zenon
  <2> QED BY <1>2, <2>2
<1> QED BY <1>1, <1>2, <1>3, <1>4, <1>5 DEF AInv


\* aplogd_io_read_data() takes the first record of a device.
LEMMA ReadRecordStep ==
  ASSUME AInv, NEW s \in Streams, ReadRecord(s)
  PROVE  AInv' /\ Takes
<1> DEFINE r == Head(dev[s])
           taken == Room(d, s) /\ ~(s # InputLast /\ r \in Garbled)
<1>1. /\ d \in Daemons /\ Apart(d) /\ Unread(dev, d, made)
      /\ STORAGE_USERDATA \in mounted /\ vbuf \in Messages /\ vq \in Seq(Messages)
      /\ pc # "start" /\ ~reloaded => Tracked(d) /\ Away(d, vbuf)
  BY DEF AInv
<1>2. /\ dev[s] # <<>> /\ dev' = [dev EXCEPT ![s] = Tail(@)] /\ made' = made /\ vbuf' = vbuf /\ vq' = vq
      /\ mounted' = mounted /\ reloaded' = reloaded /\ pc = "handle"
  BY DEF ReadRecord, envVars
<1>3. pc' # "start"
  BY DEF ReadRecord, Handled
<1>4. d' \in IF taken THEN Buffer(d, s, r) ELSE {[d EXCEPT !.gone = @ \cup {r}]}
  BY Zenon DEF ReadRecord
<1>5. d' \in Buffer(d, s, r) \/ d' = [d EXCEPT !.gone = @ \cup {r}]
  <2> HIDE DEF taken
  <2> QED BY <1>4, Zenon
<1> HIDE DEF taken
<1>6. r \in Records /\ r \notin Known(d)
  <2>1. dev[s] \in Seq(Records) /\ 1 \in 1 .. Len(dev[s]) /\ r = dev[s][1] /\ r \in Records
    BY <1>1, <1>2 DEF Unread
  <2> QED BY <1>1, <2>1 DEF Unread
<1> HIDE DEF r
<1>7. d' \in Daemons /\ Absorbs(d, d', {r}) /\ Stays(d, d') /\ Apart(d')
  <2>1. CASE d' \in Buffer(d, s, r)
    <3>1. r \notin Ram(d)
      BY <1>6 DEF Known
    <3>2. d' \in Daemons /\ Stays(d, d') /\ Apart(d')
      BY <1>1, <1>6, <2>1, <3>1, BufferFacts, Zenon
    <3>3. Absorbs(d, d', {r})
      BY <1>1, <1>6, <2>1, BufferAbsorbs, Zenon
    <3> QED BY <3>2, <3>3
  <2>2. CASE d' = [d EXCEPT !.gone = @ \cup {r}]
    <3>1. /\ d' \in Daemons /\ Absorbs(d, d', {r}) /\ Stays(d, d')
          /\ \A t \in Streams : Range(d'.buf[t]) = Range(d.buf[t])
      BY <1>1, <1>6, <2>2, DropAbsorbs, Zenon
    <3>2. Apart(d')
      BY <1>1, <3>1, Zenon DEF Apart
    <3> QED BY <3>1, <3>2
  <2> QED BY <1>5, <2>1, <2>2, Zenon
<1>8. Takes
  <2>1. {r} \in SUBSET Records
    BY <1>6
  <2> QED BY <1>7, <2>1, Zenon DEF Takes
<1>9. Unread(dev', d', made')
  <2>1. Known(d') = Known(d) \cup {Head(dev[s])}
    BY <1>7, AbsorbsKnown, Zenon DEF r
  <2>2. Unread([dev EXCEPT ![s] = Tail(@)], d', made)
    BY <1>1, <1>2, <2>1, UnreadTail, Zenon
  <2> QED BY <1>2, <2>2
<1>10. ~reloaded' => Tracked(d') /\ Away(d', vbuf')
  <2> SUFFICES ASSUME ~reloaded' PROVE Tracked(d') /\ Away(d', vbuf')
    OBVIOUS
  <2>1. Tracked(d) /\ Away(d, vbuf)
    BY <1>1, <1>2
  <2>2. Tracked(d') /\ Away(d', vbuf)
    BY <1>7, <2>1, StaysTracked, Zenon
  <2> QED BY <1>2, <2>2
<1> QED BY <1>1, <1>2, <1>3, <1>7, <1>8, <1>9, <1>10 DEF AInv

\* A message of vold.
LEMMA ReadVoldStep ==
  ASSUME AInv, ReadVold
  PROVE  AInv' /\ Takes
<1>1. /\ d \in Daemons /\ STORAGE_USERDATA \in mounted /\ vbuf \in Messages /\ vq \in Seq(Messages)
      /\ pc # "start" /\ ~reloaded => Tracked(d) /\ Away(d, vbuf)
  BY DEF AInv
<1>2. /\ dev' = dev /\ made' = made /\ mounted' = mounted /\ reloaded' = reloaded /\ pc = "handle"
  BY Zenon DEF ReadVold, envVars
<1>3. pc' # "start"
  BY Zenon DEF ReadVold, Handled
<1>4. PICK m : /\ (vq # <<>> /\ m = Head(vq)) \/ m = NoMessage \/ m = vbuf
               /\ d' \in HandleMessage(d, m) /\ vbuf' = m
  BY Zenon DEF ReadVold
<1>5. m \in Messages
  <2>1. vq # <<>> => Head(vq) \in Messages
    BY <1>1
  <2>2. NoMessage \in Messages
    BY DEF Messages
  <2> QED BY <1>1, <1>4, <2>1, <2>2, Zenon
<1>6. vq' \in Seq(Messages)
  <2>1. PICK n \in IF vq = <<>> THEN {0} ELSE 1 .. Len(vq) : vq' = SubSeq(vq, n + 1, Len(vq))
    BY Zenon DEF ReadVold
  <2>2. n \in Nat
    BY <1>1, <2>1
  <2> QED BY <1>1, <2>1, <2>2
<1>7. Ends(d, d') /\ (m[1] # "mounted" => d'.cur \notin {m[2]} \cap Cards)
  BY <1>1, <1>4, <1>5, MessageFacts, Zenon
<1>8. Takes /\ Apart(d') /\ Unread(dev', d', made')
  BY <1>2, <1>7, SinksStep DEF Ends
<1>9. ~reloaded' => Tracked(d') /\ Away(d', vbuf')
  BY <1>1, <1>2, <1>4, <1>7, Zenon DEF Ends, Away
<1> QED BY <1>1, <1>2, <1>3, <1>4, <1>5, <1>6, <1>7, <1>8, <1>9 DEF AInv, Ends

\* The memory of a daemon that starts.
LEMMA FreshFacts ==
  /\ Fresh \in Daemons /\ Fresh.out = [s \in Streams |-> NULL] /\ Fresh.buf = NoFiles
  /\ Fresh.file = [st \in Storages |-> NoFiles] /\ Fresh.kept = [st \in Storages |-> {}]
  /\ Fresh.last = [st \in Storages |-> {}]
  /\ Fresh.gone = {} /\ Fresh.destroyed = {} /\ Fresh.replaced = {}
<1>1. MaxUserdata \in Nat
  BY SizesAssumption
<1>2. STORAGE_USERDATA \in Storages /\ [s \in Streams |-> NULL] \in [Streams -> Storages \cup {NULL}]
  BY DEF Storages
<1>3. NoFiles \in [Streams -> Seq(Records)]
  BY DEF NoFiles
<1>4. /\ [st \in Storages |-> NoFiles] \in [Storages -> [Streams -> Seq(Records)]]
      /\ [st \in Storages |-> {}] \in [Storages -> SUBSET Records]
  BY <1>3
<1> QED BY <1>1, <1>2, <1>3, <1>4, Zenon DEF Fresh, Daemons

\* The daemon ends, what is in memory is gone, and init starts it again.
LEMMA ExitStep ==
  ASSUME AInv, Exit
  PROVE  AInv' /\ Takes
<1>1. /\ d \in Daemons /\ Unread(dev, d, made)
      /\ STORAGE_USERDATA \in mounted /\ vbuf \in Messages /\ vq \in Seq(Messages)
  BY DEF AInv
<1>2. /\ dev' = dev /\ made' = made /\ mounted' = mounted /\ pc' = "start" /\ vbuf' = NoMessage
      /\ vq' = <<>>
  BY DEF Exit
<1> DEFINE y == [Fresh EXCEPT !.file = d.file, !.kept = d.kept, !.last = d.last, !.dir = d.dir,
                              !.destroyed = d.destroyed, !.replaced = d.replaced,
                              !.gone = d.gone \cup BufRecords(d)]
<1>3. d' = y
  BY Zenon DEF Exit
<1>4. Ram(d) \subseteq Records /\ Ram(d) = BufRecords(d)
  BY <1>1, Members, Zenon DEF Ram
<1>5. /\ y \in Daemons /\ y.file = d.file /\ y.kept = d.kept /\ y.last = d.last
      /\ y.destroyed = d.destroyed /\ y.replaced = d.replaced /\ y.gone = d.gone \cup BufRecords(d)
      /\ y.out = [s \in Streams |-> NULL] /\ y.buf = NoFiles
  <2>1. Fresh \in Daemons /\ Fresh.out = [s \in Streams |-> NULL] /\ Fresh.buf = NoFiles
    BY FreshFacts, Zenon
  <2>2. /\ d.file \in [Storages -> [Streams -> Seq(Records)]] /\ d.kept \in [Storages -> SUBSET Records]
        /\ d.last \in [Storages -> SUBSET Records] /\ d.dir \in SUBSET Storages
        /\ d.destroyed \in SUBSET Records /\ d.replaced \in SUBSET Records
        /\ d.gone \cup BufRecords(d) \in SUBSET Records
    BY <1>1, <1>4 DEF Daemons
  <2> QED BY <2>1, <2>2, Zenon DEF Daemons
<1> HIDE DEF y
<1>6. \A s \in Streams : y.out[s] = NULL /\ Range(y.buf[s]) = {}
  BY <1>5, Ranges DEF NoFiles
<1>7. Apart(y)
  BY <1>6, Zenon DEF Apart
<1>8. Ram(y) = {}
  BY <1>5, <1>6, Members, Zenon
<1>9. Disk(y) = Disk(d)
  BY <1>1, <1>5, SameDisk, Zenon
<1>10. Absorbs(d, y, {})
  <2>1. /\ {} \cap Known(d) = {} /\ {} \in SUBSET (Ram(d) \cup {}) /\ Ram(d) \in SUBSET (Ram(d) \cup {})
        /\ {} \cap Ram(d) = {} /\ {} = (Ram(d) \cup {}) \ ({} \cup Ram(d)) /\ Disk(d) = Disk(d) \cup {}
    OBVIOUS
  <2>2. y.gone = d.gone \cup Ram(d)
    BY <1>4, <1>5, Zenon
  <2> QED BY <1>8, <1>9, <2>1, <2>2, Zenon DEF Absorbs
<1>11. Takes
  BY <1>3, <1>10 DEF Takes
<1>12. Unread(dev, y, made)
  <2>1. Known(d) \cup {} = Known(d)
    OBVIOUS
  <2>2. Known(y) = Known(d)
    BY <1>10, <2>1, AbsorbsKnown, Zenon
  <2> QED BY <1>1, <2>2, UnreadSame, Zenon
<1>13. NoMessage \in Messages /\ <<>> \in Seq(Messages)
  BY DEF Messages
<1> QED BY <1>1, <1>2, <1>3, <1>5, <1>6, <1>7, <1>11, <1>12, <1>13, Zenon DEF AInv


\* A record is logged.
LEMMA LogStep ==
  ASSUME AInv, NEW s \in Streams, Log(s)
  PROVE  AInv' /\ Takes
<1>1. /\ d \in Daemons /\ Unread(dev, d, made)
  BY DEF AInv
<1>2. /\ d' = d /\ dev' = [dev EXCEPT ![s] = Append(@, made + 1)] /\ made' = made + 1 /\ made < MaxRecords
      /\ vbuf' = vbuf /\ vq' = vq /\ mounted' = mounted /\ reloaded' = reloaded /\ pc' = pc
  BY DEF Log, daemonVars
<1>3. Unread(dev', d, made')
  BY <1>1, <1>2, UnreadLog, Zenon
<1>4. Absorbs(d, d, {})
  BY <1>1, Untouched, SinksAbsorb
<1>5. Takes
  BY <1>2, <1>4 DEF Takes
<1> QED BY <1>2, <1>3, <1>5 DEF AInv

\* A report of vold, which is lost when nobody listens.
LEMMA SayFacts ==
  ASSUME vq \in Seq(Messages), NEW what \in Changes, NEW st \in Cards, Say(<<what, st>>)
  PROVE  vq' \in Seq(Messages)
<1>1. <<what, st>> \in Messages
  BY DEF Messages, Reports
<1>2. Append(vq, <<what, st>>) \in Seq(Messages)
  BY <1>1
<1> QED BY <1>2 DEF Say

\* vold, the cards and signals.
LEMMA OutsideStep ==
  ASSUME AInv, Outside
  PROVE  AInv' /\ Takes
<1>1. STORAGE_USERDATA \in mounted /\ vq \in Seq(Messages)
  BY DEF AInv
<1>2. STORAGE_USERDATA \notin Cards
  BY DEF Cards, STORAGE_EXTERNAL, STORAGE_SECONDARY, STORAGE_USERDATA
<1>3. "mounted" \in Changes /\ "unmounting" \in Changes /\ "bad removal" \in Changes
  BY DEF Changes
<1>4. ASSUME NEW s \in Streams, Log(s) PROVE AInv' /\ Takes
  BY <1>4, LogStep
<1>5. ASSUME NEW st \in Cards, Mount(st) PROVE AInv' /\ Takes
  <2>1. /\ d' = d /\ dev' = dev /\ made' = made /\ vbuf' = vbuf /\ reloaded' = reloaded /\ pc' = pc
        /\ mounted' = mounted \cup {st} /\ Say(<<"mounted", st>>)
    BY <1>5, Zenon DEF Mount, daemonVars
  <2>2. vq' \in Seq(Messages)
    BY <1>1, <1>3, <2>1, SayFacts, Zenon
  <2> QED BY <1>1, <2>1, <2>2, QuietStep
<1>6. ASSUME NEW st \in Cards, ReportLate(st) PROVE AInv' /\ Takes
  <2>1. /\ d' = d /\ dev' = dev /\ made' = made /\ vbuf' = vbuf /\ reloaded' = reloaded /\ pc' = pc
        /\ mounted' = mounted /\ Say(<<"mounted", st>>)
    BY <1>6 DEF ReportLate, daemonVars
  <2>2. vq' \in Seq(Messages)
    BY <1>1, <1>3, <2>1, SayFacts, Zenon
  <2> QED BY <1>1, <2>1, <2>2, QuietStep
<1>7. ASSUME NEW st \in Cards, Unmounting(st) PROVE AInv' /\ Takes
  <2>1. /\ d' = d /\ dev' = dev /\ made' = made /\ vbuf' = vbuf /\ reloaded' = reloaded /\ pc' = pc
        /\ mounted' = mounted /\ Say(<<"unmounting", st>>)
    BY <1>7 DEF Unmounting, daemonVars
  <2>2. vq' \in Seq(Messages)
    BY <1>1, <1>3, <2>1, SayFacts, Zenon
  <2> QED BY <1>1, <2>1, <2>2, QuietStep
<1>8. ASSUME NEW st \in Cards, Unmounted(st) PROVE AInv' /\ Takes
  <2>1. /\ d' = d /\ dev' = dev /\ made' = made /\ vbuf' = vbuf /\ reloaded' = reloaded /\ pc' = pc
        /\ mounted' = mounted \ {st} /\ vq' = vq
    BY <1>8 DEF Unmounted, daemonVars
  <2>2. STORAGE_USERDATA \in mounted'
    BY <1>1, <1>2, <2>1
  <2> QED BY <1>1, <2>1, <2>2, QuietStep
<1>9. ASSUME NEW st \in Cards, BadRemoval(st) PROVE AInv' /\ Takes
  <2>1. /\ d' = d /\ dev' = dev /\ made' = made /\ vbuf' = vbuf /\ reloaded' = reloaded /\ pc' = pc
        /\ mounted' = mounted \ {st} /\ Say(<<"bad removal", st>>)
    BY <1>9, Zenon DEF BadRemoval, daemonVars
  <2>2. vq' \in Seq(Messages)
    BY <1>1, <1>3, <2>1, SayFacts, Zenon
  <2>3. STORAGE_USERDATA \in mounted'
    BY <1>1, <1>2, <2>1, Zenon
  <2> QED BY <2>1, <2>2, <2>3, QuietStep, Zenon
<1>10. CASE VoldExits \/ VoldStarts
  <2>1. /\ d' = d /\ dev' = dev /\ made' = made /\ vbuf' = vbuf /\ reloaded' = reloaded /\ pc' = pc
        /\ mounted' = mounted /\ vq' = vq
    BY <1>10 DEF VoldExits, VoldStarts, daemonVars
  <2> QED BY <1>1, <2>1, QuietStep
<1>11. CASE Signal
  <2>1. /\ d' = d /\ dev' = dev /\ made' = made /\ vbuf' = vbuf /\ reloaded' = reloaded
        /\ mounted' = mounted /\ vq' = vq /\ pc # "start" /\ pc' # "start"
    BY <1>11 DEF Signal
  <2> QED BY <1>1, <2>1, QuietStep
<1>12. CASE Exit
  BY <1>12, ExitStep
<1> QED BY <1>4, <1>5, <1>6, <1>7, <1>8, <1>9, <1>10, <1>11, <1>12 DEF Outside

\* At first nothing was logged.
LEMMA InitInv ==
  ASSUME Init
  PROVE  AInv /\ Ram(d) = {} /\ Disk(d) = {} /\ d.gone = {}
<1> DEFINE x == [Fresh EXCEPT !.dir = {STORAGE_USERDATA} \cup UsedCards]
<1>1. d = x
  BY Zenon DEF Init
<1>2. {STORAGE_USERDATA} \cup UsedCards \in SUBSET Storages
  BY FaultsAssumption DEF Storages, Cards, STORAGE_EXTERNAL, STORAGE_SECONDARY
<1>3. /\ x \in Daemons /\ x.out = [s \in Streams |-> NULL] /\ x.buf = NoFiles
      /\ x.file = [st \in Storages |-> NoFiles] /\ x.kept = [st \in Storages |-> {}]
      /\ x.last = [st \in Storages |-> {}]
      /\ x.gone = {} /\ x.destroyed = {} /\ x.replaced = {}
  <2> HIDE DEF x
  <2>1. x = [Fresh EXCEPT !.dir = {STORAGE_USERDATA} \cup UsedCards]
    BY DEF x
  <2> QED BY <1>2, <2>1, FreshFacts, Zenon DEF Daemons
<1> HIDE DEF x
<1>4. \A s \in Streams : NoFiles[s] = <<>> /\ Range(NoFiles[s]) = {}
  BY Ranges DEF NoFiles
<1>5. \A s \in Streams : x.out[s] = NULL /\ Range(x.buf[s]) = {}
  BY <1>3, <1>4, Zenon
<1>6. Ram(x) = {}
  BY <1>3, <1>5, Members, Zenon
<1>7. Disk(x) = {}
  <2>1. \A st \in Storages : x.file[st] = NoFiles /\ x.kept[st] = {} /\ x.last[st] = {}
    BY <1>3
  <2>2. ASSUME NEW st \in Storages PROVE On(x, st) = {}
    <3>1. FileRecords(x, st) = {}
      BY <1>4, <2>1, Zenon DEF FileRecords
    <3> QED BY <2>1, <3>1 DEF On
  <2>3. \A r : r \notin Disk(x)
    BY <1>3, <2>2, Members, Zenon
  <2> QED BY <2>3
<1>8. Apart(x)
  BY <1>5, Zenon DEF Apart
<1>9. Unread(dev, x, made)
  <2>1. dev = NoFiles /\ made = 0
    BY DEF Init
  <2>2. dev \in [Streams -> Seq(Records)] /\ \A s \in Streams : Len(dev[s]) = 0
    BY <2>1 DEF NoFiles
  <2>3. Known(x) = {}
    BY <1>3, <1>6, <1>7 DEF Known
  <2>4. \A i : i \notin 1 .. 0
    OBVIOUS
  <2> QED BY <2>1, <2>2, <2>3, <2>4 DEF Unread
<1>10. /\ STORAGE_USERDATA \in mounted /\ pc = "start" /\ vbuf = NoMessage /\ vq = <<>>
  BY DEF Init
<1>11. NoMessage \in Messages /\ <<>> \in Seq(Messages)
  BY DEF Messages
<1>12. AInv
  BY <1>1, <1>3, <1>5, <1>8, <1>9, <1>10, <1>11, Zenon DEF AInv
<1> QED BY <1>1, <1>3, <1>6, <1>7, <1>12

\* Every step keeps the invariant and moves records as LogSink says.
LEMMA NextInv ==
  ASSUME AInv, Next
  PROVE  AInv' /\ Takes
<1>1. STORAGE_USERDATA \in mounted /\ vq \in Seq(Messages)
  BY DEF AInv
<1>2. CASE Start
  BY <1>2, StartStep
<1>3. CASE Again
  BY <1>3, AgainStep
<1>4. CASE Poll
  <2>1. /\ d' = d /\ dev' = dev /\ made' = made /\ vbuf' = vbuf /\ reloaded' = reloaded
        /\ mounted' = mounted /\ vq' = vq /\ pc = "poll" /\ pc' = "handle"
    BY <1>4 DEF Poll, envVars
  <2> QED BY <1>1, <2>1, QuietStep
<1>5. CASE PollTimeout
  BY <1>5, PollTimeoutStep
<1>6. CASE ReadVold
  BY <1>6, ReadVoldStep
<1>7. CASE HandlePollerr
  <2>1. /\ d' = d /\ dev' = dev /\ made' = made /\ vbuf' = vbuf /\ reloaded' = reloaded
        /\ mounted' = mounted /\ vq' = vq /\ pc = "handle" /\ pc' # "start"
    BY <1>7 DEF HandlePollerr, Handled, envVars
  <2> QED BY <1>1, <2>1, QuietStep
<1>8. ASSUME NEW s \in Streams, ReadRecord(s) PROVE AInv' /\ Takes
  BY <1>8, ReadRecordStep
<1>9. CASE Outside
  BY <1>9, OutsideStep
<1> QED BY <1>2, <1>3, <1>4, <1>5, <1>6, <1>7, <1>8, <1>9 DEF Next, Daemon

\* What the invariant says of the variables it keeps.
LEMMA Invariant == Spec => []AInv
<1>1. Init => AInv
  BY InitInv
<1>2. AInv /\ [Next]_vars => AInv'
  <2> SUFFICES ASSUME AInv, [Next]_vars PROVE AInv'
    OBVIOUS
  <2>1. CASE Next
    BY <2>1, NextInv
  <2>2. CASE UNCHANGED vars
    BY <2>2 DEF vars, envVars, AInv
  <2> QED BY <2>1, <2>2
<1> QED BY <1>1, <1>2, PTL DEF Spec

\* The files of the daemon are on the storage it believes in, and that is not a card
\* vold is about to take away: for every number of streams and events, any set of
\* faults, and any order of reports, reads and restarts.
THEOREM StorageIsTracked == Spec => []StorageTracked
<1>1. AInv => StorageTracked
  BY Zenon DEF AInv, Tracked, Away, StorageTracked
<1> QED BY <1>1, Invariant, PTL

\* The daemon implements LogSink: a record it took is in memory, then on a storage or
\* given up, whatever is flushed, rotated, moved, switched or restarted meanwhile.
THEOREM ImplementsSink == Spec => RefinesSink
<1>1. Init => Sink!Init
  BY InitInv, Zenon DEF Sink!Init, Ram, Disk
<1>2. AInv /\ [Next]_vars => [Sink!Next]_(Sink!vars)
  <2> SUFFICES ASSUME AInv, [Next]_vars PROVE [Sink!Next]_(Sink!vars)
    OBVIOUS
  <2>1. CASE Next
    <3>1. PICK A \in SUBSET Records : Absorbs(d, d', A)
      BY <2>1, NextInv DEF Takes
    <3>2. PICK S, D \in SUBSET (Ram(d) \cup A) :
            /\ A \cap Known(d) = {}
            /\ S \cap D = {} /\ Ram(d') = (Ram(d) \cup A) \ (S \cup D)
            /\ Disk(d') = Disk(d) \cup S /\ d'.gone = d.gone \cup D
      BY <3>1 DEF Absorbs
    <3>3. Sink!Step(A, S, D)
      BY <3>2 DEF Sink!Step, Known, Ram, Disk
    <3> QED BY <3>1, <3>2, <3>3, Zenon DEF Sink!Next, Ram
  <2>2. CASE UNCHANGED vars
    <3>1. d' = d
      BY <2>2 DEF vars
    <3> QED BY <3>1 DEF Sink!vars, BufRecords, DiskRecords, FileRecords
  <2> QED BY <2>1, <2>2
<1> QED BY <1>1, <1>2, Invariant, PTL DEF Spec, RefinesSink, Sink!Spec
=============================================================================
