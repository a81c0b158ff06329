---------------------------- MODULE ChargeProofs ----------------------------
(***************************************************************************)
(* The programs of a phone that starts in order to charge: the alarms of   *)
(* charge_only_mode and the reasons for which it ends, the boots it leads  *)
(* to, and the reports modemlog makes of a panic of the kernel, for all    *)
(* times, keys and supplies, any number of boots and whenever the phone    *)
(* goes down.                                                              *)
(***************************************************************************)
EXTENDS ChargeBoot, ModemLog, WellFoundedInduction, TLAPS

Callback == {"animation_alarm", "screen_brightness_animation_alarm1",
             "screen_brightness_animation_alarm2", "power_key_alarm"}
Alarm == [f : Callback, t : Nat]

Has(q, f) == \E j \in DOMAIN q : q[j].f = f
Once(q) == \A j, k \in DOMAIN q : q[j].f = q[k].f => j = k

-----------------------------------------------------------------------------
(* Loops over a list. *)

\* A set of naturals that is not empty has a least element.
LEMMA Least ==
  ASSUME NEW T, T \subseteq Nat, T # {}
  PROVE  \E n \in T : \A m \in T : n <= m
<1>1. PICK x \in T : \A y \in T : <<y, x>> \notin OpToRel(<, Nat)
  BY NatLessThanWellFounded, WFMin, Zenon
<1>2. ASSUME NEW y \in T PROVE x <= y
  <2>1. <<y, x>> \notin OpToRel(<, Nat)
    BY <1>1, Zenon
  <2> QED BY <2>1, SMT DEF OpToRel
<1> QED BY <1>2

\* What holds before the first round of a loop and is kept by every round holds
\* after the last one.
LEMMA Rounds ==
  ASSUME NEW n \in Nat, NEW T, 0 \in T, \A m \in 1 .. n : m - 1 \in T => m \in T
  PROVE  \A m \in 0 .. n : m \in T
<1> DEFINE Bad == {m \in 0 .. n : m \notin T}
<1> SUFFICES ASSUME Bad # {} PROVE FALSE
  OBVIOUS
<1>1. PICK m \in Bad : \A k \in Bad : m <= k
  <2>1. Bad \subseteq Nat
    OBVIOUS
  <2> QED BY <2>1, Least, Zenon
<1>2. m \in 0 .. n /\ m \notin T /\ m # 0
  BY <1>1
<1>3. m \in 1 .. n /\ m - 1 \in 0 .. n /\ ~(m <= m - 1)
  BY <1>2
<1>4. m - 1 \in T
  BY <1>1, <1>3
<1> QED BY <1>2, <1>3, <1>4

\* r are the states of a loop of n rounds that starts with a; round m is G[m].
IsRun(r, P, a, n, G) ==
  r \in [0 .. n -> P] /\ r[0] = a /\ \A m \in 1 .. n : r[m] = G[m][r[m - 1]]

\* A loop whose rounds are functions on a set of states has states to go through.
LEMMA Runs ==
  ASSUME NEW P, NEW a \in P, NEW n \in Nat, NEW G \in [1 .. n -> [P -> P]]
  PROVE  \E r : IsRun(r, P, a, n, G)
<1> DEFINE Run(r, m) == r[0] = a /\ \A k \in 1 .. m : r[k] = G[k][r[k - 1]]
           T == {m \in 0 .. n : \E r \in [0 .. m -> P] : Run(r, m)}
<1>1. 0 \in T
  <2>1. [k \in 0 .. 0 |-> a] \in [0 .. 0 -> P] /\ Run([k \in 0 .. 0 |-> a], 0)
    OBVIOUS
  <2> HIDE DEF Run
  <2>2. \E r \in [0 .. 0 -> P] : Run(r, 0)
    BY <2>1
  <2> QED BY <2>2
<1>2. ASSUME NEW m \in 1 .. n, m - 1 \in T PROVE m \in T
  <2>1. PICK r \in [0 .. m - 1 -> P] : Run(r, m - 1)
    BY <1>2
  <2> DEFINE s == [k \in 0 .. m |-> IF k = m THEN G[m][r[m - 1]] ELSE r[k]]
  <2>2. s \in [0 .. m -> P]
    OBVIOUS
  <2>3. s[0] = a
    BY <2>1
  <2>4. ASSUME NEW k \in 1 .. m PROVE s[k] = G[k][s[k - 1]]
    <3>1. s[k - 1] = r[k - 1]
      OBVIOUS
    <3>2. CASE k = m
      BY <3>1, <3>2
    <3>3. CASE k # m
      BY <2>1, <3>1, <3>3
    <3> QED BY <3>2, <3>3
  <2>5. Run(s, m)
    BY <2>3, <2>4, Zenon
  <2> HIDE DEF Run, s
  <2> QED BY <2>2, <2>5
<1>3. n \in T
  <2> HIDE DEF T
  <2>1. \A m \in 0 .. n : m \in T
    BY <1>1, <1>2, Rounds, Zenon
  <2> QED BY <2>1
<1> QED BY <1>3 DEF IsRun

-----------------------------------------------------------------------------
(* alarm.c *)

\* kept holds what is left of q after each round of the loop of alarm_cancel().
KeptBy(kept, q, f) ==
  /\ kept \in [0 .. Len(q) -> Seq(Alarm)]
  /\ Without(q, f) = kept[Len(q)] /\ kept[0] = <<>>
  /\ \A n \in 1 .. Len(q) :
       kept[n] = IF q[n].f = f THEN kept[n - 1] ELSE Append(kept[n - 1], q[n])

\* The loop of alarm_cancel() goes through its states one by one.
LEMMA WithoutIs ==
  ASSUME NEW q \in Seq(Alarm), NEW f
  PROVE  \E kept : KeptBy(kept, q, f)
<1> DEFINE P == Seq(Alarm)
           Loop(k) == [n \in 0 .. Len(q) |->
             IF n = 0 THEN <<>>
             ELSE IF q[n].f = f THEN k[n - 1] ELSE Append(k[n - 1], q[n])]
           K == CHOOSE k : k = Loop(k)
           G == [n \in 1 .. Len(q) |-> [p \in P |-> IF q[n].f = f THEN p ELSE Append(p, q[n])]]
<1>1. Without(q, f) = K[Len(q)]
  BY DEF Without
<1>2. G \in [1 .. Len(q) -> [P -> P]]
  <2>1. ASSUME NEW n \in 1 .. Len(q), NEW p \in P
        PROVE  (IF q[n].f = f THEN p ELSE Append(p, q[n])) \in P
    OBVIOUS
  <2> HIDE DEF P
  <2> QED BY <2>1
<1>3. <<>> \in P /\ Len(q) \in Nat
  OBVIOUS
<1>4. PICK r : IsRun(r, P, <<>>, Len(q), G)
  <2> HIDE DEF P, G
  <2> QED BY <1>2, <1>3, Runs, Zenon
<1>5. r \in [0 .. Len(q) -> P] /\ r[0] = <<>> /\ \A n \in 1 .. Len(q) : r[n] = G[n][r[n - 1]]
  <2> HIDE DEF P, G
  <2> QED BY <1>4 DEF IsRun
<1>6. r = Loop(r)
  <2>1. ASSUME NEW n \in 0 .. Len(q) PROVE r[n] = Loop(r)[n]
    <3>1. CASE n = 0
      BY <1>5, <3>1
    <3>2. CASE n # 0
      <4>1. n \in 1 .. Len(q) /\ r[n - 1] \in P
        BY <1>3, <1>5, <3>2
      <4>2. r[n] = G[n][r[n - 1]]
        BY <1>5, <4>1, Zenon
      <4> HIDE DEF P
      <4> QED BY <3>2, <4>1, <4>2
    <3> QED BY <3>1, <3>2
  <2>2. Loop(r) = [n \in 0 .. Len(q) |-> Loop(r)[n]] /\ r = [n \in 0 .. Len(q) |-> r[n]]
    BY <1>5
  <2> HIDE DEF Loop
  <2> QED BY <2>1, <2>2, Zenon
<1>7. K = Loop(K)
  <2> HIDE DEF Loop
  <2> QED BY <1>6, Zenon
<1>8. ASSUME NEW k, k = Loop(k)
      PROVE  /\ k[0] = <<>>
             /\ \A n \in 1 .. Len(q) : k[n] = IF q[n].f = f THEN k[n - 1] ELSE Append(k[n - 1], q[n])
  <2>1. \A n \in 0 .. Len(q) : k[n] = IF n = 0 THEN <<>>
             ELSE IF q[n].f = f THEN k[n - 1] ELSE Append(k[n - 1], q[n])
    BY <1>8, Zenon
  <2> QED BY <1>3, <2>1
<1>9. K[Len(q)] = r[Len(q)]
  <2> DEFINE T == {n \in 0 .. Len(q) : K[n] = r[n]}
  <2>1. /\ K[0] = <<>> /\ r[0] = <<>>
        /\ \A n \in 1 .. Len(q) : K[n] = IF q[n].f = f THEN K[n - 1] ELSE Append(K[n - 1], q[n])
        /\ \A n \in 1 .. Len(q) : r[n] = IF q[n].f = f THEN r[n - 1] ELSE Append(r[n - 1], q[n])
    <3> HIDE DEF K, Loop
    <3> QED BY <1>6, <1>7, <1>8, Zenon
  <2> HIDE DEF K, P, G
  <2>2. 0 \in T
    BY <1>3, <2>1
  <2>3. \A n \in 1 .. Len(q) : n - 1 \in T => n \in T
    BY <1>3, <2>1
  <2>4. \A n \in 0 .. Len(q) : n \in T
    <3> HIDE DEF T
    <3> QED BY <1>3, <2>2, <2>3, Rounds, Zenon
  <2> QED BY <1>3, <2>4
<1> HIDE DEF K, Loop
<1>10. KeptBy(r, q, f)
  BY <1>1, <1>5, <1>6, <1>8, <1>9, Zenon DEF KeptBy
<1> QED BY <1>10

\* alarm_cancel() leaves the alarms of other functions, each as often as before.
LEMMA Cancel ==
  ASSUME NEW q \in Seq(Alarm), Once(q), NEW f
  PROVE  /\ Without(q, f) \in Seq(Alarm) /\ Once(Without(q, f))
         /\ \A g : Has(Without(q, f), g) <=> Has(q, g) /\ g # f
<1>0. PICK kept : KeptBy(kept, q, f)
  BY WithoutIs, Zenon
<1>1. /\ kept \in [0 .. Len(q) -> Seq(Alarm)]
      /\ Without(q, f) = kept[Len(q)] /\ kept[0] = <<>>
      /\ \A n \in 1 .. Len(q) :
           kept[n] = IF q[n].f = f THEN kept[n - 1] ELSE Append(kept[n - 1], q[n])
  BY <1>0, Zenon DEF KeptBy
<1> DEFINE From(r, n) == \A j \in DOMAIN r : \E k \in 1 .. n : r[j] = q[k] /\ q[k].f # f
           All(r, n) == \A k \in 1 .. n : q[k].f # f => \E j \in DOMAIN r : r[j] = q[k]
           T == {n \in 0 .. Len(q) : From(kept[n], n) /\ All(kept[n], n) /\ Once(kept[n])}
<1>2. Len(q) \in Nat /\ \A k \in 1 .. Len(q) : q[k] \in Alarm
  OBVIOUS
<1>3. 0 \in T
  BY <1>1, <1>2 DEF Once
<1>4. ASSUME NEW n \in 1 .. Len(q), n - 1 \in T PROVE n \in T
  <2> DEFINE r == kept[n - 1]
  <2>1. n - 1 \in 0 .. Len(q) /\ n \in 0 .. Len(q) /\ n - 1 \in Nat
    BY <1>2
  <2>2. r \in Seq(Alarm) /\ From(r, n - 1) /\ All(r, n - 1) /\ Once(r)
    BY <1>1, <1>4, <2>1
  <2>3. \A k \in 1 .. n : k = n \/ k \in 1 .. n - 1
    BY <2>1
  <2>4. CASE q[n].f = f
    <3>1. kept[n] = r
      BY <1>1, <2>4
    <3>2. From(r, n) /\ All(r, n)
      <4> HIDE DEF r
      <4>1. \A k \in 1 .. n - 1 : k \in 1 .. n
        BY <2>1
      <4>2. From(r, n)
        BY <2>2, <4>1, Zenon
      <4>3. All(r, n)
        BY <2>2, <2>3, <2>4, Zenon
      <4> QED BY <4>2, <4>3
    <3>3. Once(r)
      BY <2>2
    <3> HIDE DEF From, All, r
    <3> QED BY <2>1, <3>1, <3>2, <3>3
  <2>5. CASE q[n].f # f
    <3> DEFINE s == Append(r, q[n])
    <3> HIDE DEF r
    <3>1. /\ s \in Seq(Alarm) /\ DOMAIN s = DOMAIN r \cup {Len(r) + 1} /\ s[Len(r) + 1] = q[n]
          /\ Len(r) + 1 \notin DOMAIN r /\ \A j \in DOMAIN r : s[j] = r[j]
      BY <1>2, <2>2
    <3> HIDE DEF s
    <3>2. From(s, n)
      <4>1. \A k \in 1 .. n - 1 : k \in 1 .. n
        BY <2>1
      <4>2. ASSUME NEW j \in DOMAIN r PROVE \E k \in 1 .. n : s[j] = q[k] /\ q[k].f # f
        <5>1. PICK k \in 1 .. n - 1 : r[j] = q[k] /\ q[k].f # f
          BY <2>2
        <5> QED BY <3>1, <4>1, <5>1
      <4>3. n \in 1 .. n
        BY <2>1
      <4> QED BY <2>5, <3>1, <4>2, <4>3, Zenon
    <3>3. All(s, n)
      BY <2>2, <2>3, <3>1
    <3>4. Once(s)
      <4>1. \A j \in DOMAIN r : r[j].f # q[n].f
        <5>1. SUFFICES ASSUME NEW j \in DOMAIN r, r[j].f = q[n].f PROVE FALSE
          OBVIOUS
        <5>2. PICK k \in 1 .. n - 1 : r[j] = q[k]
          BY <2>2
        <5>3. k \in DOMAIN q /\ n \in DOMAIN q /\ k # n
          BY <1>2, <2>1
        <5> QED BY <5>1, <5>2, <5>3 DEF Once
      <4> QED BY <2>2, <3>1, <4>1 DEF Once
    <3>5. kept[n] = s
      BY <1>1, <2>5, Zenon DEF r, s
    <3> QED BY <2>1, <3>2, <3>3, <3>4, <3>5
  <2> QED BY <2>4, <2>5, Zenon
<1>5. Len(q) \in T
  <2> HIDE DEF T
  <2>1. \A n \in 0 .. Len(q) : n \in T
    BY <1>2, <1>3, <1>4, Rounds, Zenon
  <2> QED BY <1>2, <2>1
<1> DEFINE w == Without(q, f)
<1>6. w \in Seq(Alarm) /\ From(w, Len(q)) /\ All(w, Len(q)) /\ Once(w)
  BY <1>1, <1>2, <1>5
<1> HIDE DEF w
<1>7. ASSUME NEW g PROVE Has(w, g) <=> Has(q, g) /\ g # f
  <2>1. DOMAIN q = 1 .. Len(q)
    OBVIOUS
  <2>2. Has(w, g) => Has(q, g) /\ g # f
    <3> SUFFICES ASSUME NEW j \in DOMAIN w, w[j].f = g PROVE Has(q, g) /\ g # f
      BY DEF Has
    <3>1. PICK k \in 1 .. Len(q) : w[j] = q[k] /\ q[k].f # f
      BY <1>6
    <3> QED BY <2>1, <3>1 DEF Has
  <2>3. Has(q, g) /\ g # f => Has(w, g)
    BY <1>6, <2>1, Zenon DEF Has
  <2> QED BY <2>2, <2>3
<1> QED BY <1>6, <1>7 DEF w

\* r is q with e behind its first n elements.
Inserted(r, q, n, e) ==
  /\ DOMAIN r = 1 .. Len(q) + 1 /\ r[n + 1] = e
  /\ \A j \in 1 .. Len(q) + 1 : r[j] = IF j <= n THEN q[j] ELSE IF j = n + 1 THEN e ELSE q[j - 1]

\* An element put behind the first n of a list.
LEMMA Insert ==
  ASSUME NEW S, NEW q \in Seq(S), NEW e \in S, NEW n \in 0 .. Len(q)
  PROVE  LET r == SubSeq(q, 1, n) \o <<e>> \o SubSeq(q, n + 1, Len(q))
         IN  r \in Seq(S) /\ Inserted(r, q, n, e)
<1> DEFINE a == SubSeq(q, 1, n)
           b == SubSeq(q, n + 1, Len(q))
           h == a \o <<e>>
           r == h \o b
<1>1. Len(q) \in Nat /\ n \in Nat /\ n <= Len(q)
  OBVIOUS
<1>2. a \in Seq(S) /\ Len(a) = n /\ \A j \in 1 .. n : a[j] = q[j]
  BY <1>1
<1>3. b \in Seq(S) /\ Len(b) = Len(q) - n /\ \A j \in 1 .. Len(q) - n : b[j] = q[n + j]
  BY <1>1
<1> HIDE DEF a, b
<1>4. h \in Seq(S) /\ Len(h) = n + 1 /\ h[n + 1] = e /\ \A j \in 1 .. n : h[j] = q[j]
  BY <1>1, <1>2
<1> HIDE DEF h
<1>5. /\ r \in Seq(S) /\ Len(r) = Len(q) + 1 /\ \A j \in 1 .. n + 1 : r[j] = h[j]
  <2>1. r \in Seq(S) /\ Len(r) = Len(q) + 1
    BY <1>1, <1>3, <1>4
  <2>2. ASSUME NEW j \in 1 .. n + 1 PROVE r[j] = h[j]
    BY <1>1, <1>3, <1>4
  <2> QED BY <2>1, <2>2, Zenon
<1>6. \A j \in n + 2 .. Len(q) + 1 : r[j] = q[j - 1]
  <2> SUFFICES ASSUME NEW j \in n + 2 .. Len(q) + 1 PROVE r[j] = q[j - 1]
    BY Zenon
  <2> DEFINE i == j - (n + 1)
  <2>1. r[j] = b[i] /\ i \in 1 .. Len(q) - n
    BY <1>1, <1>3, <1>4
  <2>2. n + i = j - 1
    BY <1>1
  <2> HIDE DEF i, r
  <2>3. b[i] = q[n + i]
    BY <1>3, <2>1
  <2> QED BY <2>1, <2>2, <2>3
<1> HIDE DEF r
<1>7. r \in Seq(S) /\ Inserted(r, q, n, e)
  <2>1. DOMAIN r = 1 .. Len(q) + 1
    BY <1>1, <1>5
  <2>2. r[n + 1] = e
    BY <1>1, <1>4, <1>5
  <2>3. ASSUME NEW j \in 1 .. Len(q) + 1
        PROVE  r[j] = IF j <= n THEN q[j] ELSE IF j = n + 1 THEN e ELSE q[j - 1]
    <3>1. CASE j <= n
      <4>1. j \in 1 .. n /\ j \in 1 .. n + 1
        BY <1>1, <3>1
      <4> QED BY <1>4, <1>5, <3>1, <4>1
    <3>2. CASE j = n + 1
      BY <1>1, <2>2, <3>2
    <3>3. CASE ~(j <= n) /\ j # n + 1
      <4>1. j \in n + 2 .. Len(q) + 1
        BY <1>1, <3>3
      <4> QED BY <1>6, <3>3, <4>1
    <3> QED BY <3>1, <3>2, <3>3
  <2> QED BY <1>5, <2>1, <2>2, <2>3, Zenon DEF Inserted
<1> QED BY <1>7 DEF a, b, h, r

\* alarm_set_relative() adds one alarm; if its function had none, it has one.
LEMMA Arm ==
  ASSUME NEW c, c.alarms \in Seq(Alarm), Once(c.alarms), NEW f \in Callback, ~Has(c.alarms, f),
         NEW t \in Nat
  PROVE  \E r \in Seq(Alarm) :
           /\ alarm_set_relative(c, f, t) = [c EXCEPT !.alarms = r]
           /\ Once(r) /\ \A g : Has(r, g) <=> Has(c.alarms, g) \/ g = f
<1> DEFINE q == c.alarms
           e == [f |-> f, t |-> t]
           later == {k \in 1 .. Len(q) + 1 : k = Len(q) + 1 \/ q[k].t > t}
           first == CHOOSE k \in later : \A j \in later : k <= j
           n == first - 1
           r == SubSeq(q, 1, n) \o <<e>> \o SubSeq(q, n + 1, Len(q))
<1>1. alarm_set_relative(c, f, t) = [c EXCEPT !.alarms = r]
  <2>1. e.t = t
    OBVIOUS
  <2>2. With(q, e) = r
    BY <2>1, Zenon DEF With
  <2> QED BY <2>2, Zenon DEF alarm_set_relative
<1>2. n \in 0 .. Len(q)
  <2>1. Len(q) \in Nat
    OBVIOUS
  <2> HIDE DEF q
  <2>2. later \subseteq 1 .. Len(q) + 1 /\ Len(q) + 1 \in later
    BY <2>1
  <2> HIDE DEF later
  <2>3. later \subseteq Nat /\ later # {}
    BY <2>1, <2>2
  <2>4. \E k \in later : \A j \in later : k <= j
    BY <2>3, Least, Zenon
  <2>5. first \in later
    BY <2>4
  <2> HIDE DEF first
  <2> QED BY <2>1, <2>2, <2>5
<1> HIDE DEF n
<1>3. q \in Seq(Alarm) /\ Len(q) \in Nat /\ DOMAIN q = 1 .. Len(q) /\ e \in Alarm
  BY DEF Alarm
<1> HIDE DEF q, e
<1>4. r \in Seq(Alarm) /\ Inserted(r, q, n, e)
  BY <1>2, <1>3, Insert, Zenon
<1> HIDE DEF r
<1>5. /\ r \in Seq(Alarm) /\ DOMAIN r = 1 .. Len(q) + 1 /\ r[n + 1] = e
      /\ \A j \in 1 .. Len(q) + 1 : r[j] = IF j <= n THEN q[j] ELSE IF j = n + 1 THEN e ELSE q[j - 1]
  BY <1>4 DEF Inserted
<1>6. e.f = f /\ \A j \in DOMAIN q : q[j].f # f
  BY DEF e, q, Has
<1>7. Once(r)
  <2>1. Once(q)
    BY DEF q
  <2> SUFFICES ASSUME NEW j \in 1 .. Len(q) + 1, NEW k \in 1 .. Len(q) + 1, r[j].f = r[k].f
               PROVE  j = k
    BY <1>5 DEF Once
  <2>2. j = n + 1 \/ (j <= n /\ j \in DOMAIN q) \/ (j > n + 1 /\ j - 1 \in DOMAIN q)
    BY <1>2, <1>3
  <2>3. k = n + 1 \/ (k <= n /\ k \in DOMAIN q) \/ (k > n + 1 /\ k - 1 \in DOMAIN q)
    BY <1>2, <1>3
  <2>4. ASSUME NEW x \in DOMAIN q, NEW y \in DOMAIN q, q[x].f = q[y].f PROVE x = y
    BY <2>1, <2>4 DEF Once
  <2>5. \/ j = n + 1 /\ r[j].f = f
        \/ (j <= n /\ j \in DOMAIN q /\ r[j] = q[j])
        \/ (j > n + 1 /\ j - 1 \in DOMAIN q /\ r[j] = q[j - 1])
    BY <1>2, <1>5, <1>6, <2>2
  <2>6. \/ k = n + 1 /\ r[k].f = f
        \/ (k <= n /\ k \in DOMAIN q /\ r[k] = q[k])
        \/ (k > n + 1 /\ k - 1 \in DOMAIN q /\ r[k] = q[k - 1])
    BY <1>2, <1>5, <1>6, <2>3
  <2>7. (r[j].f = f) <=> (j = n + 1)
    BY <1>2, <1>6, <2>5
  <2>8. (r[k].f = f) <=> (k = n + 1)
    BY <1>2, <1>6, <2>6
  <2>9. CASE j = n + 1
    BY <2>7, <2>8, <2>9
  <2>10. CASE j <= n
    <3>1. k <= n => j = k
      BY <1>2, <2>4, <2>5, <2>6, <2>10
    <3>2. k > n + 1 => j = k - 1
      BY <1>2, <2>4, <2>5, <2>6, <2>10
    <3> QED BY <1>2, <2>6, <2>7, <2>8, <2>10, <3>1, <3>2
  <2>11. CASE j > n + 1
    <3>1. k <= n => j - 1 = k
      BY <1>2, <2>4, <2>5, <2>6, <2>11
    <3>2. k > n + 1 => j - 1 = k - 1
      BY <1>2, <2>4, <2>5, <2>6, <2>11
    <3> QED BY <1>2, <2>6, <2>7, <2>8, <2>11, <3>1, <3>2
  <2> QED BY <1>2, <2>9, <2>10, <2>11
<1>8. ASSUME NEW g PROVE Has(r, g) <=> Has(q, g) \/ g = f
  <2>1. ASSUME NEW j \in DOMAIN q PROVE \E k \in DOMAIN r : r[k] = q[j]
    <3>1. CASE j <= n
      BY <1>2, <1>3, <1>5, <3>1
    <3>2. CASE j > n
      <4>1. j + 1 \in DOMAIN r /\ r[j + 1] = q[j]
        BY <1>2, <1>3, <1>5, <3>2
      <4> QED BY <4>1
    <3> QED BY <1>2, <1>3, <3>1, <3>2
  <2>2. ASSUME NEW k \in DOMAIN r PROVE r[k] = e \/ \E j \in DOMAIN q : r[k] = q[j]
    <3>1. CASE k <= n
      BY <1>2, <1>3, <1>5, <3>1
    <3>2. CASE k > n + 1
      <4>1. k - 1 \in DOMAIN q /\ r[k] = q[k - 1]
        BY <1>2, <1>3, <1>5, <3>2
      <4> QED BY <4>1
    <3> QED BY <1>2, <1>3, <1>5, <3>1, <3>2
  <2>3. n + 1 \in DOMAIN r
    BY <1>2, <1>3, <1>5
  <2> QED BY <1>5, <1>6, <2>1, <2>2, <2>3 DEF Has
<1> QED BY <1>1, <1>5, <1>7, <1>8 DEF q

-----------------------------------------------------------------------------
(* The functions of main.c: what they leave armed, and the mode they leave. *)

Com == [phase : {"down", "starting", "running", "off", "outofcharge"}, alarms : Seq(Alarm),
        brightness : {"off", "dim", "bright"}, blank : BOOLEAN, shutdown : BOOLEAN,
        powerup : BOOLEAN, file : {"", "charging"}, flash : {"", "charging"}]

\* A state of the process in which no function has two alarms.
Good(c) == c \in Com /\ Once(c.alarms)

\* The functions that have an alarm.
Armed(c) == {f \in Callback : Has(c.alarms, f)}

\* The mode is the same.
SameMode(c, d) == /\ d.phase = c.phase /\ d.shutdown = c.shutdown
                  /\ d.file = c.file /\ d.flash = c.flash

\* A change of another field than the alarms arms nothing.
LEMMA OtherFields ==
  ASSUME NEW c, NEW d \in Com, Good(c), d.alarms = c.alarms
  PROVE  Good(d) /\ Armed(d) = Armed(c)
  BY DEF Good, Armed

\* alarm_cancel() disarms the one function.
LEMMA CancelArmed ==
  ASSUME NEW c, Good(c), NEW f
  PROVE  /\ Good(alarm_cancel(c, f)) /\ Armed(alarm_cancel(c, f)) = Armed(c) \ {f}
         /\ SameMode(c, alarm_cancel(c, f))
<1> DEFINE r == Without(c.alarms, f)
<1>1. c \in Com /\ c.alarms \in Seq(Alarm) /\ Once(c.alarms)
  BY Zenon DEF Good, Com
<1>2. r \in Seq(Alarm) /\ Once(r) /\ \A g : Has(r, g) <=> Has(c.alarms, g) /\ g # f
  BY <1>1, Cancel
<1> HIDE DEF r
<1>3. alarm_cancel(c, f) = [c EXCEPT !.alarms = r]
  BY DEF alarm_cancel, r
<1>4. [c EXCEPT !.alarms = r] \in Com /\ [c EXCEPT !.alarms = r].alarms = r
      /\ SameMode(c, [c EXCEPT !.alarms = r])
  BY <1>1, <1>2, Zenon DEF Com, SameMode
<1>5. Armed(alarm_cancel(c, f)) = Armed(c) \ {f}
  BY <1>2, <1>3, <1>4, Zenon DEF Armed
<1> QED BY <1>2, <1>3, <1>4, <1>5 DEF Good

\* alarm_set_relative() arms a function that was not armed.
LEMMA SetArmed ==
  ASSUME NEW c, Good(c), NEW f \in Callback, f \notin Armed(c), NEW t \in Nat
  PROVE  /\ Good(alarm_set_relative(c, f, t))
         /\ Armed(alarm_set_relative(c, f, t)) = Armed(c) \cup {f}
         /\ SameMode(c, alarm_set_relative(c, f, t))
<1>1. c \in Com /\ c.alarms \in Seq(Alarm) /\ Once(c.alarms) /\ ~Has(c.alarms, f)
  BY Zenon DEF Good, Com, Armed
<1>2. PICK r \in Seq(Alarm) :
        /\ alarm_set_relative(c, f, t) = [c EXCEPT !.alarms = r]
        /\ Once(r) /\ \A g : Has(r, g) <=> Has(c.alarms, g) \/ g = f
  BY <1>1, Arm, Zenon
<1>4. [c EXCEPT !.alarms = r] \in Com /\ [c EXCEPT !.alarms = r].alarms = r
      /\ SameMode(c, [c EXCEPT !.alarms = r])
  BY <1>1, <1>2, Zenon DEF Com, SameMode
<1>5. Armed(alarm_set_relative(c, f, t)) = Armed(c) \cup {f}
  <2>1. \A g \in Callback : Has([c EXCEPT !.alarms = r].alarms, g) <=> Has(c.alarms, g) \/ g = f
    BY <1>2, <1>4
  <2> QED BY <1>2, <2>1 DEF Armed
<1> QED BY <1>2, <1>4, <1>5 DEF Good

Screen == {"animation_alarm", "screen_brightness_animation_alarm1",
           "screen_brightness_animation_alarm2"}

\* The three screen alarms are disarmed together.
LEMMA CancelScreen ==
  ASSUME NEW c, Good(c)
  PROVE  /\ Good(cancel_screen_alarms(c)) /\ Armed(cancel_screen_alarms(c)) = Armed(c) \ Screen
         /\ SameMode(c, cancel_screen_alarms(c))
<1> DEFINE c1 == alarm_cancel(c, "screen_brightness_animation_alarm2")
           c2 == alarm_cancel(c1, "screen_brightness_animation_alarm1")
           c3 == alarm_cancel(c2, "animation_alarm")
<1>1. Good(c1) /\ Armed(c1) = Armed(c) \ {"screen_brightness_animation_alarm2"} /\ SameMode(c, c1)
  BY CancelArmed
<1> HIDE DEF c1
<1>2. Good(c2) /\ Armed(c2) = Armed(c1) \ {"screen_brightness_animation_alarm1"} /\ SameMode(c1, c2)
  BY <1>1, CancelArmed
<1> HIDE DEF c2
<1>3. Good(c3) /\ Armed(c3) = Armed(c2) \ {"animation_alarm"} /\ SameMode(c2, c3)
  BY <1>2, CancelArmed
<1> HIDE DEF c3
<1>4. Armed(c3) = Armed(c) \ Screen /\ SameMode(c, c3)
  BY <1>1, <1>2, <1>3 DEF Screen, SameMode
<1>5. cancel_screen_alarms(c) = c3
  BY DEF cancel_screen_alarms, c1, c2, c3
<1> QED BY <1>3, <1>4, <1>5

\* The display is lit: two alarms are armed.
LEMMA StartScreen ==
  ASSUME NEW c, Good(c), NEW t \in Nat,
         "screen_brightness_animation_alarm1" \notin Armed(c), "animation_alarm" \notin Armed(c)
  PROVE  LET d == screen_brightness_animation_start(c, t) IN
         /\ Good(d) /\ SameMode(c, d)
         /\ Armed(d) = Armed(c) \cup {"screen_brightness_animation_alarm1", "animation_alarm"}
<1> DEFINE lit == [display_unblank(c) EXCEPT !.brightness = "bright"]
           c1 == alarm_set_relative(lit, "screen_brightness_animation_alarm1", BrightTime)
           c2 == alarm_set_relative(c1, "animation_alarm", t)
<1>1. lit \in Com /\ lit.alarms = c.alarms /\ SameMode(c, lit)
  BY Zenon DEF Good, Com, SameMode, display_unblank
<1> HIDE DEF lit
<1>2. Good(lit) /\ Armed(lit) = Armed(c)
  BY <1>1, OtherFields
<1>3. /\ "screen_brightness_animation_alarm1" \in Callback /\ "animation_alarm" \in Callback
      /\ BrightTime \in Nat
  BY TimesAscend DEF Callback
<1>4. /\ Good(c1) /\ Armed(c1) = Armed(lit) \cup {"screen_brightness_animation_alarm1"}
      /\ SameMode(lit, c1)
  BY <1>2, <1>3, SetArmed
<1> HIDE DEF c1
<1>5. "animation_alarm" \notin Armed(c1)
  BY <1>2, <1>4
<1>6. Good(c2) /\ Armed(c2) = Armed(c1) \cup {"animation_alarm"} /\ SameMode(c1, c2)
  BY <1>3, <1>4, <1>5, SetArmed
<1> HIDE DEF c2
<1>7. /\ Armed(c2) = Armed(c) \cup {"screen_brightness_animation_alarm1", "animation_alarm"}
      /\ SameMode(c, c2)
  BY <1>1, <1>2, <1>4, <1>6 DEF SameMode
<1>8. screen_brightness_animation_start(c, t) = c2
  BY DEF screen_brightness_animation_start, lit, c1, c2
<1> QED BY <1>6, <1>7, <1>8

\* The mode goes on and its mark is as it was, or the mark is gone and the mode
\* has ended, unless a reboot has failed.
Marked(c, d) ==
  \/ d.phase = c.phase /\ d.file = c.file /\ d.flash = c.flash
  \/ /\ d.phase \in {"off", "outofcharge"} \/ (RebootMayFail /\ d.phase = c.phase)
     /\ d.file = "" /\ d.flash = ""

\* The mode is the same, or the phone has been powered off as was asked for.
LeavesOff(c, d) ==
  /\ d.shutdown = c.shutdown /\ (d.phase = c.phase \/ (d.phase = "off" /\ c.shutdown))
  /\ Marked(c, d)

\* The display goes dark: the animation is disarmed.
LEMMA GoDark ==
  ASSUME NEW c, Good(c), NEW d \in screen_brightness_animation_alarm2(c)
  PROVE  Good(d) /\ Armed(d) = Armed(c) \ {"animation_alarm"} /\ LeavesOff(c, d)
<1> DEFINE o == [c EXCEPT !.brightness = "off"]
           dark == alarm_cancel(o, "animation_alarm")
<1>1. o \in Com /\ o.alarms = c.alarms /\ SameMode(c, o)
  BY Zenon DEF Good, Com, SameMode
<1> HIDE DEF o
<1>2. Good(o) /\ Armed(o) = Armed(c)
  BY <1>1, OtherFields
<1>3. Good(dark) /\ Armed(dark) = Armed(o) \ {"animation_alarm"} /\ SameMode(o, dark)
  BY <1>2, CancelArmed
<1> HIDE DEF dark
<1>4. ASSUME NEW r, r \in Com, r.alarms = dark.alarms, LeavesOff(dark, r)
      PROVE  Good(r) /\ Armed(r) = Armed(c) \ {"animation_alarm"} /\ LeavesOff(c, r)
  <2>1. Good(r) /\ Armed(r) = Armed(dark)
    BY <1>3, <1>4, OtherFields
  <2> QED BY <1>1, <1>2, <1>3, <1>4, <2>1, Zenon DEF SameMode, LeavesOff, Marked
<1>5. d \in (IF dark.shutdown
             THEN {IF r.phase = "off" THEN r ELSE display_blank(r) :
                     r \in reboot(clear_mode(dark), "off")}
             ELSE {display_blank(dark)})
  BY DEF screen_brightness_animation_alarm2, dark, o
<1>6. CASE dark.shutdown
  <2>1. PICK r \in reboot(clear_mode(dark), "off") : d = IF r.phase = "off" THEN r ELSE display_blank(r)
    BY <1>5, <1>6
  <2> DEFINE k == clear_mode(dark)
  <2>2. r = [k EXCEPT !.phase = "off"] \/ (r = k /\ RebootMayFail)
    BY <2>1 DEF reboot
  <2>3. /\ k \in Com /\ k.alarms = dark.alarms /\ k.phase = dark.phase /\ k.shutdown = dark.shutdown
        /\ k.file = "" /\ k.flash = ""
    BY <1>3, Zenon DEF Good, Com, clear_mode
  <2> HIDE DEF k
  <2>4. r \in Com /\ r.alarms = dark.alarms /\ LeavesOff(dark, r)
    <3>1. CASE r = [k EXCEPT !.phase = "off"]
      BY <1>6, <2>3, <3>1, Zenon DEF Com, LeavesOff, Marked
    <3>2. CASE r = k /\ RebootMayFail
      BY <2>3, <3>2, Zenon DEF LeavesOff, Marked
    <3> QED BY <2>2, <3>1, <3>2
  <2>5. d \in Com /\ d.alarms = dark.alarms /\ LeavesOff(dark, d)
    <3>1. CASE d = r
      BY <2>4, <3>1
    <3>2. CASE d = display_blank(r)
      BY <2>4, <3>2, Zenon DEF Com, display_blank, LeavesOff, Marked
    <3> QED BY <2>1, <3>1, <3>2
  <2> QED BY <1>4, <2>5
<1>7. CASE ~dark.shutdown
  <2>1. d = display_blank(dark)
    BY <1>5, <1>7
  <2>2. d \in Com /\ d.alarms = dark.alarms /\ LeavesOff(dark, d)
    BY <1>3, <2>1, Zenon DEF Good, Com, display_blank, LeavesOff, Marked
  <2> QED BY <1>4, <2>2
<1> QED BY <1>6, <1>7

\* power_event(): nothing is armed, and a shutdown is decided on only if neither
\* supply was seen.
LEMMA PowerEvent ==
  ASSUME NEW c, Good(c), voltage \in BOOLEAN, NEW first, NEW second,
         NEW d \in power_event(c, first, second)
  PROVE  /\ Good(d) /\ Armed(d) \subseteq Armed(c)
         /\ d.shutdown /\ ~c.shutdown => first # "ac" /\ second # "usb"
         /\ d.phase = c.phase \/ (d.phase = "off" /\ d.shutdown)
         /\ Marked(c, d)
<1> DEFINE seen == [c EXCEPT !.powerup = voltage]
           quit == [seen EXCEPT !.shutdown = TRUE]
           c1 == alarm_cancel(quit, "screen_brightness_animation_alarm2")
           c2 == alarm_cancel(c1, "screen_brightness_animation_alarm1")
<1>1. seen \in Com /\ seen.alarms = c.alarms /\ SameMode(c, seen)
  BY Zenon DEF Good, Com, SameMode
<1> HIDE DEF seen
<1>2. /\ quit \in Com /\ quit.alarms = c.alarms /\ quit.phase = c.phase /\ quit.shutdown
      /\ quit.file = c.file /\ quit.flash = c.flash
  BY <1>1, Zenon DEF Com, SameMode
<1> HIDE DEF quit
<1>3. Good(seen) /\ Armed(seen) = Armed(c) /\ Good(quit) /\ Armed(quit) = Armed(c)
  BY <1>1, <1>2, OtherFields
<1>4. Good(c1) /\ Armed(c1) \subseteq Armed(c) /\ SameMode(quit, c1)
  BY <1>3, CancelArmed
<1> HIDE DEF c1
<1>5. Good(c2) /\ Armed(c2) \subseteq Armed(c) /\ SameMode(quit, c2)
  BY <1>4, CancelArmed DEF SameMode
<1> HIDE DEF c2
<1>6. CASE ~c.shutdown /\ first # "ac" /\ second # "usb"
  <2>1. d \in screen_brightness_animation_alarm2(c2)
    BY <1>6 DEF power_event, c2, c1, quit, seen
  <2>2. Good(d) /\ Armed(d) = Armed(c2) \ {"animation_alarm"} /\ LeavesOff(c2, d)
    BY <1>5, <2>1, GoDark
  <2> QED BY <1>2, <1>5, <1>6, <2>2, Zenon DEF LeavesOff, SameMode, Marked
<1>7. CASE ~(~c.shutdown /\ first # "ac" /\ second # "usb")
  <2>1. d = seen
    BY <1>7 DEF power_event, seen
  <2> QED BY <1>1, <1>3, <2>1, Zenon DEF SameMode, Marked
<1> QED BY <1>6, <1>7

\* No screen alarm but the bright period and the animation, or only the dim one.
LEMMA WakeupKey ==
  ASSUME NEW c, Good(c), NEW d \in update_screen_on_wakeup_key(c)
  PROVE  /\ Good(d) /\ LeavesOff(c, d)
         /\ Armed(d) \in {Armed(c) \ Screen, (Armed(c) \ Screen) \cup
                            {"screen_brightness_animation_alarm1", "animation_alarm"}}
<1> DEFINE k == cancel_screen_alarms(c)
<1>1. Good(k) /\ Armed(k) = Armed(c) \ Screen /\ SameMode(c, k)
  BY CancelScreen
<1> HIDE DEF k
<1>2. CASE d \in screen_brightness_animation_alarm2(k)
  <2>1. Good(d) /\ Armed(d) = Armed(k) \ {"animation_alarm"} /\ LeavesOff(k, d)
    BY <1>1, <1>2, GoDark
  <2> QED BY <1>1, <2>1, Zenon DEF Screen, LeavesOff, SameMode, Marked
<1>3. CASE d = screen_brightness_animation_start(k, ANIMATION_TIMEOUT)
  <2>1. /\ "screen_brightness_animation_alarm1" \notin Armed(k) /\ "animation_alarm" \notin Armed(k)
        /\ ANIMATION_TIMEOUT \in Nat
    BY <1>1, TimesAscend DEF Screen
  <2>2. /\ Good(d) /\ SameMode(k, d)
        /\ Armed(d) = Armed(k) \cup {"screen_brightness_animation_alarm1", "animation_alarm"}
    BY <1>1, <1>3, <2>1, StartScreen
  <2> QED BY <1>1, <2>2 DEF LeavesOff, SameMode, Marked
<1> QED BY <1>2, <1>3 DEF update_screen_on_wakeup_key, k

\* A key of the volume rocker lights the display.
LEMMA WakeupKey2 ==
  ASSUME NEW c, Good(c), NEW d \in update_screen_on_wakeup_key2(c)
  PROVE  /\ Good(d) /\ SameMode(c, d)
         /\ Armed(d) = (Armed(c) \ Screen) \cup {"screen_brightness_animation_alarm1", "animation_alarm"}
<1> DEFINE k == cancel_screen_alarms(c)
<1>1. Good(k) /\ Armed(k) = Armed(c) \ Screen /\ SameMode(c, k)
  BY CancelScreen
<1> HIDE DEF k
<1>2. d = screen_brightness_animation_start(k, ANIMATION_TIMEOUT)
  BY DEF update_screen_on_wakeup_key2, k
<1>3. /\ "screen_brightness_animation_alarm1" \notin Armed(k) /\ "animation_alarm" \notin Armed(k)
      /\ ANIMATION_TIMEOUT \in Nat
  BY <1>1, TimesAscend DEF Screen
<1>4. /\ Good(d) /\ SameMode(k, d)
      /\ Armed(d) = Armed(k) \cup {"screen_brightness_animation_alarm1", "animation_alarm"}
  BY <1>1, <1>2, <1>3, StartScreen
<1> QED BY <1>1, <1>4 DEF SameMode

-----------------------------------------------------------------------------
(* The list of alarms and the mode. *)

Key == {"power", "release", "up", "down", "other"}

\* What holds of the process when last is the last event of the power key it read.
ComInv(c, last) ==
  /\ Good(c)
  /\ "screen_brightness_animation_alarm1" \in Armed(c)
       => "screen_brightness_animation_alarm2" \notin Armed(c)
  /\ "power_key_alarm" \in Armed(c) => last = "power"
  /\ c.phase \in {"down", "starting"} => c.alarms = <<>>
  /\ c.phase = "off" => c.shutdown

\* The list of a process that is not running.
LEMMA EmptyAlarms == <<>> \in Seq(Alarm)
  OBVIOUS

\* Nothing is armed in an empty list.
LEMMA EmptyList ==
  ASSUME NEW c, c.alarms = <<>>
  PROVE  Armed(c) = {} /\ Once(c.alarms)
  BY DEF Armed, Has, Once

\* A key: the alarm of the power key is armed only while the key is down.
LEMMA KeyHandled ==
  ASSUME NEW last, NEW c, ComInv(c, last), c.phase = "running", NEW k \in Key,
         k = "power" => last = "release", NEW d \in HandleKey(c, k)
  PROVE  /\ ComInv(d, IF k \in {"power", "release"} THEN k ELSE last)
         /\ LeavesOff(c, d)
<1>1. Good(c) /\ PowerKeyHold \in Nat /\ "power_key_alarm" \in Callback
  BY TimesAscend DEF ComInv, Callback
<1>2. CASE k = "power"
  <2>1. d = IF c.powerup THEN alarm_set_relative(c, "power_key_alarm", PowerKeyHold) ELSE c
    BY <1>2 DEF HandleKey
  <2>2. "power_key_alarm" \notin Armed(c)
    BY <1>2 DEF ComInv
  <2>3. CASE d = c
    BY <1>2, <2>3, Zenon DEF ComInv, LeavesOff, Marked
  <2>4. CASE d = alarm_set_relative(c, "power_key_alarm", PowerKeyHold)
    <3>1. Good(d) /\ Armed(d) = Armed(c) \cup {"power_key_alarm"} /\ SameMode(c, d)
      BY <1>1, <2>2, <2>4, SetArmed
    <3> QED BY <1>2, <3>1 DEF ComInv, LeavesOff, SameMode, Marked
  <2> QED BY <2>1, <2>3, <2>4
<1>3. CASE k = "release"
  <2> DEFINE r == alarm_cancel(c, "power_key_alarm")
  <2>1. d \in update_screen_on_wakeup_key(r)
    BY <1>3 DEF HandleKey
  <2>2. Good(r) /\ Armed(r) = Armed(c) \ {"power_key_alarm"} /\ SameMode(c, r)
    BY <1>1, CancelArmed
  <2> HIDE DEF r
  <2>3. /\ Good(d) /\ LeavesOff(r, d)
        /\ Armed(d) \in {Armed(r) \ Screen, (Armed(r) \ Screen) \cup
                           {"screen_brightness_animation_alarm1", "animation_alarm"}}
    BY <2>1, <2>2, WakeupKey
  <2>4. "power_key_alarm" \notin Armed(d) /\ "screen_brightness_animation_alarm2" \notin Armed(d)
    BY <2>2, <2>3 DEF Screen
  <2> QED BY <1>3, <2>2, <2>3, <2>4, Zenon DEF ComInv, LeavesOff, SameMode, Marked
<1>4. CASE k = "other"
  <2>1. d = c
    BY <1>4 DEF HandleKey
  <2> QED BY <1>4, <2>1, Zenon DEF ComInv, LeavesOff, Marked
<1>5. CASE k \in {"up", "down"}
  <2>1. d \in update_screen_on_wakeup_key2(c)
    BY <1>5 DEF HandleKey
  <2>2. /\ Good(d) /\ SameMode(c, d)
        /\ Armed(d) = (Armed(c) \ Screen) \cup {"screen_brightness_animation_alarm1", "animation_alarm"}
    BY <1>1, <2>1, WakeupKey2
  <2>3. /\ "power_key_alarm" \in Armed(d) => "power_key_alarm" \in Armed(c)
        /\ "screen_brightness_animation_alarm2" \notin Armed(d)
    BY <2>2 DEF Screen
  <2> QED BY <1>5, <2>2, <2>3 DEF ComInv, LeavesOff, SameMode, Marked
<1> QED BY <1>2, <1>3, <1>4, <1>5 DEF Key

\* The alarm that alarm_process() serves is taken off the list.
LEMMA Served ==
  ASSUME NEW c, Good(c), c.alarms # <<>>
  PROVE  LET d == [c EXCEPT !.alarms = Tail(@)] IN
         /\ c.alarms[1].f \in Armed(c)
         /\ Good(d) /\ Armed(d) = Armed(c) \ {c.alarms[1].f} /\ SameMode(c, d)
<1> DEFINE q == c.alarms
           r == Tail(q)
           d == [c EXCEPT !.alarms = Tail(@)]
<1>1. c \in Com /\ q \in Seq(Alarm) /\ Once(q) /\ q # <<>>
  BY Zenon DEF Good, Com
<1>2. d \in Com /\ d.alarms = r /\ SameMode(c, d)
  <2>1. r \in Seq(Alarm)
    BY <1>1
  <2>2. d = [c EXCEPT !.alarms = r]
    OBVIOUS
  <2> HIDE DEF r, d
  <2> QED BY <1>1, <2>1, <2>2, Zenon DEF Com, SameMode
<1> HIDE DEF d, q
<1>3. /\ Len(q) \in Nat /\ DOMAIN q = 1 .. Len(q) /\ Len(q) >= 1 /\ r \in Seq(Alarm)
      /\ DOMAIN r = 1 .. Len(q) - 1 /\ \A j \in 1 .. Len(q) - 1 : r[j] = q[j + 1]
  BY <1>1
<1> HIDE DEF r
<1>4. q[1].f \in Callback /\ Has(q, q[1].f)
  <2>1. 1 \in DOMAIN q /\ q[1] \in Alarm
    BY <1>1, <1>3
  <2> QED BY <2>1 DEF Has, Alarm
<1>5. Once(r)
  <2> SUFFICES ASSUME NEW j \in DOMAIN r, NEW k \in DOMAIN r, r[j].f = r[k].f PROVE j = k
    BY DEF Once
  <2>1. /\ j + 1 \in DOMAIN q /\ k + 1 \in DOMAIN q /\ r[j] = q[j + 1] /\ r[k] = q[k + 1]
        /\ j \in Int /\ k \in Int
    BY <1>3
  <2>2. j + 1 = k + 1
    BY <1>1, <2>1 DEF Once
  <2> QED BY <2>1, <2>2
<1>6. ASSUME NEW g PROVE Has(r, g) <=> Has(q, g) /\ g # q[1].f
  <2>1. ASSUME NEW j \in DOMAIN r, r[j].f = g PROVE Has(q, g) /\ g # q[1].f
    <3>1. j + 1 \in DOMAIN q /\ r[j] = q[j + 1] /\ j + 1 # 1 /\ 1 \in DOMAIN q
      BY <1>3
    <3>2. q[j + 1].f # q[1].f
      <4>1. \A x \in DOMAIN q : q[x].f = q[1].f => x = 1
        BY <1>1, <3>1, Zenon DEF Once
      <4> QED BY <3>1, <4>1
    <3> QED BY <2>1, <3>1, <3>2 DEF Has
  <2>2. ASSUME NEW j \in DOMAIN q, q[j].f = g, g # q[1].f PROVE Has(r, g)
    <3>1. j - 1 \in DOMAIN r /\ r[j - 1] = q[j]
      BY <1>3, <2>2
    <3> QED BY <2>2, <3>1 DEF Has
  <2> QED BY <2>1, <2>2 DEF Has
<1>7. Armed(d) = Armed(c) \ {q[1].f} /\ q[1].f \in Armed(c)
  BY <1>2, <1>4, <1>6 DEF Armed, q
<1>8. Good(d)
  BY <1>2, <1>5 DEF Good
<1> QED BY <1>2, <1>7, <1>8, Zenon DEF d, q

\* Whoever looks at the mains before and at USB after a change of supply misses
\* both only if there was none before or there is none after.
LEMMA LooksTwice ==
  ASSUME supply \in Supply, supply' \in Nearby(supply)
  PROVE  supply' \in Supply /\ (supply # "ac" /\ supply' # "usb" => "none" \in {supply, supply'})
<1>1. supply' = supply \/ (supply' \in Supply /\ <<supply, supply'>> \in SupplySteps)
  BY DEF Nearby
<1>2. <<supply, supply'>> \in SupplySteps => "none" \in {supply, supply'}
  <2>1. <<supply, supply'>>[1] = supply /\ <<supply, supply'>>[2] = supply'
    OBVIOUS
  <2> QED BY <2>1, OneConnector
<1> QED BY <1>1, <1>2 DEF Supply

\* alarm_process(): every callback leaves no alarm twice, and only the alarm of
\* the power key restarts the phone.
LEMMA AlarmProcess ==
  ASSUME ComInv(com, lastPower), supply \in Supply, voltage \in BOOLEAN, alarm_process
  PROVE  /\ ComInv(com', lastPower) /\ supply' \in Supply
         /\ com'.phase = "outofcharge" => lastPower = "power"
         /\ com'.shutdown /\ ~com.shutdown => "none" \in {supply, supply'}
         /\ Marked(com, com')
<1> DEFINE f == com.alarms[1].f
           c == [com EXCEPT !.alarms = Tail(@)]
<1>1. Good(com) /\ com.alarms # <<>> /\ com.phase = "running"
  BY DEF ComInv, alarm_process, Due
<1>2. f \in Armed(com) /\ Good(c) /\ Armed(c) = Armed(com) \ {f} /\ SameMode(com, c)
  BY <1>1, Served, Zenon
<1>3. \/ f = "animation_alarm" /\ LooksAtSupply(uevent) /\ com' \in animation_alarm(c, supply, supply')
      \/ f = "screen_brightness_animation_alarm1" /\ com' \in screen_brightness_animation_alarm1(c) /\ supply' = supply
      \/ f = "screen_brightness_animation_alarm2" /\ com' \in screen_brightness_animation_alarm2(c) /\ supply' = supply
      \/ f = "power_key_alarm" /\ com' \in power_key_alarm(c) /\ supply' = supply
  BY DEF alarm_process
<1> HIDE DEF c, f
<1>4. CASE f = "animation_alarm" /\ LooksAtSupply(uevent) /\ com' \in animation_alarm(c, supply, supply')
  <2> DEFINE a == alarm_set_relative(c, "animation_alarm", ANIMATION_TIMEOUT)
  <2>1. "animation_alarm" \in Callback /\ ANIMATION_TIMEOUT \in Nat /\ "animation_alarm" \notin Armed(c)
    BY <1>2, <1>4, TimesAscend DEF Callback
  <2>2. Good(a) /\ Armed(a) = Armed(c) \cup {"animation_alarm"} /\ SameMode(c, a)
    BY <1>2, <2>1, SetArmed
  <2>3. com' \in power_event(a, supply, supply')
    BY <1>4 DEF animation_alarm
  <2> HIDE DEF a
  <2>4. /\ Good(com') /\ Armed(com') \subseteq Armed(a)
        /\ com'.shutdown /\ ~a.shutdown => supply # "ac" /\ supply' # "usb"
        /\ com'.phase = a.phase \/ (com'.phase = "off" /\ com'.shutdown)
        /\ Marked(a, com')
    BY <2>2, <2>3, PowerEvent
  <2>5. supply' \in Supply /\ (supply # "ac" /\ supply' # "usb" => "none" \in {supply, supply'})
    BY <1>4, LooksTwice DEF LooksAtSupply
  <2>6. Armed(com') \subseteq Armed(com)
    BY <1>2, <1>4, <2>2, <2>4
  <2> QED BY <1>1, <1>2, <2>2, <2>4, <2>5, <2>6, Zenon DEF ComInv, SameMode, Marked
<1>5. CASE f = "screen_brightness_animation_alarm1" /\ com' \in screen_brightness_animation_alarm1(c) /\ supply' = supply
  <2> DEFINE d == [c EXCEPT !.brightness = "dim"]
             a == alarm_set_relative(d, "screen_brightness_animation_alarm2", DimTime)
  <2>1. d \in Com /\ d.alarms = c.alarms /\ SameMode(c, d)
    BY <1>2, Zenon DEF Good, Com, SameMode
  <2> HIDE DEF d
  <2>2. Good(d) /\ Armed(d) = Armed(c)
    BY <1>2, <2>1, OtherFields
  <2>3. /\ "screen_brightness_animation_alarm2" \in Callback /\ DimTime \in Nat
        /\ "screen_brightness_animation_alarm2" \notin Armed(d)
    BY <1>2, <1>5, <2>2, TimesAscend DEF Callback, ComInv
  <2>4. Good(a) /\ Armed(a) = Armed(d) \cup {"screen_brightness_animation_alarm2"} /\ SameMode(d, a)
    BY <2>2, <2>3, SetArmed
  <2>5. com' = a
    BY <1>5 DEF screen_brightness_animation_alarm1, d
  <2> HIDE DEF a
  <2>6. /\ "screen_brightness_animation_alarm1" \notin Armed(a)
        /\ "power_key_alarm" \in Armed(a) => "power_key_alarm" \in Armed(com)
    BY <1>2, <1>5, <2>2, <2>4
  <2> QED BY <1>1, <1>2, <1>5, <2>1, <2>4, <2>5, <2>6, Zenon DEF ComInv, SameMode, Marked
<1>6. CASE f = "screen_brightness_animation_alarm2" /\ com' \in screen_brightness_animation_alarm2(c) /\ supply' = supply
  <2>1. Good(com') /\ Armed(com') = Armed(c) \ {"animation_alarm"} /\ LeavesOff(c, com')
    BY <1>2, <1>6, GoDark
  <2>2. Armed(com') \subseteq Armed(com)
    BY <1>2, <2>1
  <2> QED BY <1>1, <1>2, <1>6, <2>1, <2>2, Zenon DEF ComInv, SameMode, LeavesOff, Marked
<1>7. CASE f = "power_key_alarm" /\ com' \in power_key_alarm(c) /\ supply' = supply
  <2> DEFINE k == cancel_screen_alarms(c)
             m == clear_mode(k)
  <2>1. Good(k) /\ Armed(k) = Armed(c) \ Screen /\ SameMode(c, k)
    BY <1>2, CancelScreen
  <2>2. com' \in reboot(m, "outofcharge")
    BY <1>7 DEF power_key_alarm
  <2> HIDE DEF k
  <2>3. /\ m \in Com /\ m.alarms = k.alarms /\ m.phase = k.phase /\ m.shutdown = k.shutdown
        /\ m.file = "" /\ m.flash = ""
    BY <2>1, Zenon DEF Good, Com, clear_mode
  <2> HIDE DEF m
  <2>4. com' = [m EXCEPT !.phase = "outofcharge"] \/ (com' = m /\ RebootMayFail)
    BY <2>2 DEF reboot
  <2>5. /\ com' \in Com /\ com'.alarms = k.alarms /\ com'.shutdown = m.shutdown
        /\ com'.phase \in {"outofcharge", m.phase} /\ Marked(m, com')
        /\ com'.file = "" /\ com'.flash = "" /\ (com'.phase = "outofcharge" \/ RebootMayFail)
    BY <2>3, <2>4, Zenon DEF Com, Marked
  <2>6. Good(com') /\ Armed(com') = Armed(k)
    BY <2>1, <2>5, OtherFields, Zenon
  <2>7. lastPower = "power"
    BY <1>2, <1>7 DEF ComInv
  <2>8. Armed(com') \subseteq Armed(com)
    BY <1>2, <2>1, <2>6
  <2> QED BY <1>1, <1>2, <1>7, <2>1, <2>3, <2>5, <2>6, <2>7, <2>8, Zenon DEF ComInv, SameMode, Marked
<1> QED BY <1>3, <1>4, <1>5, <1>6, <1>7

-----------------------------------------------------------------------------
(* The events of the power key. *)

\* In the unread events q of a device the power key goes down and up in turns,
\* beginning after last, the event read before, and ending as the key is now.
Alternate(q, last, down) ==
  /\ \A j \in DOMAIN q :
       q[j] = "power" /\ (\A i \in 1 .. j - 1 : q[i] # "release") => last = "release"
  /\ \A i, j \in DOMAIN q :
       i < j /\ q[i] = "power" /\ q[j] = "power" => \E k \in i + 1 .. j - 1 : q[k] = "release"
  /\ \A j \in DOMAIN q : q[j] = "power" => down \/ \E k \in j + 1 .. Len(q) : q[k] = "release"

Releases(q) == \E j \in DOMAIN q : q[j] = "release"

\* Without the power key there is nothing to say.
LEMMA NoPowerKey ==
  ASSUME NEW q, NEW last, NEW down, \A j \in DOMAIN q : q[j] # "power"
  PROVE  Alternate(q, last, down)
  BY DEF Alternate

\* An event arrives.
LEMMA Arrives ==
  ASSUME NEW q \in Seq(Key), NEW last, NEW down \in BOOLEAN, Alternate(q, last, down), NEW k \in Key,
         k = "power" => ~down, k = "power" /\ ~Releases(q) => last = "release"
  PROVE  Alternate(Append(q, k), last,
                   IF k = "power" THEN TRUE ELSE IF k = "release" THEN FALSE ELSE down)
<1> DEFINE r == Append(q, k)
           n == Len(q)
           now == IF k = "power" THEN TRUE ELSE IF k = "release" THEN FALSE ELSE down
<1>1. /\ n \in Nat /\ DOMAIN q = 1 .. n /\ DOMAIN r = 1 .. n + 1 /\ Len(r) = n + 1
      /\ r[n + 1] = k /\ \A j \in 1 .. n : r[j] = q[j]
  OBVIOUS
<1> HIDE DEF r, n
<1>2. ASSUME NEW j \in DOMAIN r, r[j] = "power", \A i \in 1 .. j - 1 : r[i] # "release"
      PROVE  last = "release"
  <2>1. CASE j = n + 1
    <3>1. \A i \in 1 .. n : q[i] # "release"
      BY <1>1, <1>2, <2>1
    <3> QED BY <1>1, <1>2, <2>1, <3>1 DEF Releases
  <2>2. CASE j \in 1 .. n
    <3>1. q[j] = "power" /\ \A i \in 1 .. j - 1 : q[i] # "release"
      BY <1>1, <1>2, <2>2
    <3> QED BY <1>1, <2>2, <3>1 DEF Alternate
  <2> QED BY <1>1, <2>1, <2>2
<1>3. ASSUME NEW i \in DOMAIN r, NEW j \in DOMAIN r, i < j, r[i] = "power", r[j] = "power"
      PROVE  \E m \in i + 1 .. j - 1 : r[m] = "release"
  <2>1. i \in 1 .. n /\ q[i] = "power"
    BY <1>1, <1>3
  <2>2. CASE j = n + 1
    <3>1. ~down
      BY <1>1, <1>3, <2>2
    <3>2. PICK m \in i + 1 .. n : q[m] = "release"
      BY <1>1, <2>1, <3>1 DEF Alternate, n
    <3> QED BY <1>1, <2>1, <2>2, <3>2
  <2>3. CASE j \in 1 .. n
    <3>1. q[j] = "power"
      BY <1>1, <1>3, <2>3
    <3>2. PICK m \in i + 1 .. j - 1 : q[m] = "release"
      BY <1>1, <1>3, <2>1, <2>3, <3>1 DEF Alternate
    <3> QED BY <1>1, <2>1, <2>3, <3>2
  <2> QED BY <1>1, <2>2, <2>3
<1>4. ASSUME NEW j \in DOMAIN r, r[j] = "power", ~now
      PROVE  \E m \in j + 1 .. n + 1 : r[m] = "release"
  <2>1. k # "power" /\ j \in 1 .. n /\ q[j] = "power"
    BY <1>1, <1>4
  <2>2. CASE k = "release"
    BY <1>1, <2>1, <2>2
  <2>3. CASE k # "release"
    <3>1. ~down
      BY <1>4, <2>1, <2>3
    <3>2. PICK m \in j + 1 .. n : q[m] = "release"
      BY <1>1, <2>1, <3>1 DEF Alternate, n
    <3> QED BY <1>1, <2>1, <3>2
  <2> QED BY <2>2, <2>3
<1> HIDE DEF now
<1>5. Alternate(r, last, now)
  BY <1>1, <1>2, <1>3, <1>4 DEF Alternate
<1> QED BY <1>5, Zenon DEF r, now

\* An event is read.
LEMMA Reads ==
  ASSUME NEW q \in Seq(Key), q # <<>>, NEW last, NEW down \in BOOLEAN, Alternate(q, last, down)
  PROVE  /\ Alternate(Tail(q), IF Head(q) \in {"power", "release"} THEN Head(q) ELSE last, down)
         /\ Head(q) = "power" => last = "release" /\ (down \/ Releases(Tail(q)))
         /\ Head(q) # "release" /\ Releases(q) => Releases(Tail(q))
<1> DEFINE r == Tail(q)
           n == Len(q)
           k == Head(q)
           then == IF k \in {"power", "release"} THEN k ELSE last
<1>1. /\ n \in Nat /\ n >= 1 /\ DOMAIN q = 1 .. n /\ DOMAIN r = 1 .. n - 1 /\ Len(r) = n - 1
      /\ k = q[1] /\ \A j \in 1 .. n - 1 : r[j] = q[j + 1]
  OBVIOUS
<1> HIDE DEF r, n, k
<1>2. \A m \in 2 .. n : m - 1 \in DOMAIN r /\ r[m - 1] = q[m]
  BY <1>1
<1>3. k # "release" /\ Releases(q) => Releases(r)
  <2> SUFFICES ASSUME k # "release", NEW j \in DOMAIN q, q[j] = "release" PROVE Releases(r)
    BY DEF Releases
  <2>1. j \in 2 .. n
    BY <1>1
  <2> QED BY <1>2, <2>1 DEF Releases
<1>4. ASSUME k = "power" PROVE last = "release" /\ (down \/ Releases(r))
  <2>1. 1 \in DOMAIN q /\ q[1] = "power" /\ \A i \in 1 .. 1 - 1 : q[i] # "release"
    BY <1>1, <1>4
  <2>2. last = "release"
    BY <2>1 DEF Alternate
  <2>3. down \/ \E m \in 1 + 1 .. Len(q) : q[m] = "release"
    BY <2>1 DEF Alternate
  <2> QED BY <1>1, <1>2, <2>2, <2>3 DEF Releases, n
<1>5. ASSUME NEW j \in DOMAIN r, r[j] = "power", \A i \in 1 .. j - 1 : r[i] # "release"
      PROVE  then = "release"
  <2>1. j \in 1 .. n - 1 /\ j + 1 \in DOMAIN q /\ q[j + 1] = "power"
    BY <1>1, <1>5
  <2>2. \A i \in 2 .. j : q[i] # "release"
    BY <1>1, <1>2, <1>5, <2>1
  <2>3. k # "power"
    <3> SUFFICES ASSUME k = "power" PROVE FALSE
      OBVIOUS
    <3>1. 1 \in DOMAIN q /\ 1 < j + 1 /\ q[1] = "power"
      BY <1>1, <2>1
    <3>2. PICK m \in 1 + 1 .. (j + 1) - 1 : q[m] = "release"
      BY <2>1, <3>1 DEF Alternate
    <3> QED BY <2>1, <2>2, <3>2
  <2>4. CASE k = "release"
    BY <2>4
  <2>5. CASE k # "release"
    <3>1. \A i \in 1 .. (j + 1) - 1 : q[i] # "release"
      BY <1>1, <2>1, <2>2, <2>5
    <3>2. last = "release"
      BY <2>1, <3>1 DEF Alternate
    <3> QED BY <2>3, <2>5, <3>2
  <2> QED BY <2>4, <2>5
<1>6. ASSUME NEW i \in DOMAIN r, NEW j \in DOMAIN r, i < j, r[i] = "power", r[j] = "power"
      PROVE  \E m \in i + 1 .. j - 1 : r[m] = "release"
  <2>1. /\ i + 1 \in DOMAIN q /\ j + 1 \in DOMAIN q /\ i + 1 < j + 1
        /\ q[i + 1] = "power" /\ q[j + 1] = "power"
    BY <1>1, <1>6
  <2>2. PICK m \in (i + 1) + 1 .. (j + 1) - 1 : q[m] = "release"
    BY <2>1 DEF Alternate
  <2>3. m - 1 \in i + 1 .. j - 1 /\ r[m - 1] = "release"
    <3>1. i \in 1 .. n - 1 /\ j \in 1 .. n - 1
      BY <1>1
    <3>2. m - 1 \in i + 1 .. j - 1 /\ m \in 2 .. n
      BY <1>1, <2>2, <3>1
    <3> QED BY <1>2, <2>2, <3>2
  <2> QED BY <2>3
<1>7. ASSUME NEW j \in DOMAIN r, r[j] = "power", ~down
      PROVE  \E m \in j + 1 .. Len(r) : r[m] = "release"
  <2>1. j + 1 \in DOMAIN q /\ q[j + 1] = "power"
    BY <1>1, <1>7
  <2>2. PICK m \in (j + 1) + 1 .. Len(q) : q[m] = "release"
    BY <1>7, <2>1 DEF Alternate
  <2>3. m - 1 \in j + 1 .. Len(r) /\ r[m - 1] = "release"
    <3>1. Len(q) = n /\ Len(r) = n - 1 /\ j \in 1 .. n - 1
      BY <1>1 DEF n
    <3>2. m \in j + 2 .. n
      BY <2>2, <3>1
    <3>3. m - 1 \in j + 1 .. n - 1 /\ m \in 2 .. n
      BY <3>1, <3>2
    <3> QED BY <1>2, <2>2, <3>1, <3>3
  <2> QED BY <2>3
<1> HIDE DEF then
<1>8. Alternate(r, then, down)
  BY <1>5, <1>6, <1>7 DEF Alternate
<1> QED BY <1>3, <1>4, <1>8 DEF r, then, k

\* The power key, what was read of it and what was not.
KeyInv ==
  /\ held \in BOOLEAN /\ lastPower \in {"power", "release"}
  /\ keys \in [DOMAIN KeyDevice -> Seq(Key)]
  /\ \A d \in DOMAIN KeyDevice : \A j \in DOMAIN keys[d] : keys[d][j] \in KeyDevice[d]
  /\ \A d \in DOMAIN KeyDevice : Alternate(keys[d], lastPower, held)
  /\ lastPower = "power" => held \/ \E d \in DOMAIN KeyDevice : Releases(keys[d])

\* Two devices with events of the power key are one.
LEMMA SameDevice ==
  ASSUME NEW d \in DOMAIN KeyDevice, NEW e \in DOMAIN KeyDevice,
         NEW j \in KeyDevice[d], NEW k \in KeyDevice[e],
         j \in {"power", "release"}, k \in {"power", "release"}
  PROVE  d = e
<1>1. KeyDevice[d] \cap {"power", "release"} # {} /\ KeyDevice[e] \cap {"power", "release"} # {}
  OBVIOUS
<1> QED BY <1>1, OnePowerKey, Zenon

\* A key moves.
LEMMA KeyMovesKeeps ==
  ASSUME KeyInv, KeyMoves
  PROVE  KeyInv'
<1>0. PICK d \in DOMAIN KeyDevice : \E k \in KeyDevice[d] :
        /\ k = "power" => ~held
        /\ held' = IF k = "power" THEN TRUE ELSE IF k = "release" THEN FALSE ELSE held
        /\ keys' = [keys EXCEPT ![d] = Append(@, k)]
        /\ lastPower' = lastPower
  BY Zenon DEF KeyMoves
<1>1. PICK k \in KeyDevice[d] :
        /\ k = "power" => ~held
        /\ held' = IF k = "power" THEN TRUE ELSE IF k = "release" THEN FALSE ELSE held
        /\ keys' = [keys EXCEPT ![d] = Append(@, k)]
        /\ lastPower' = lastPower
  BY <1>0, Zenon
<1>2. k \in Key
  BY OnePowerKey DEF Key
<1>3. /\ keys[d] \in Seq(Key) /\ Append(keys[d], k) \in Seq(Key)
      /\ keys'[d] = Append(keys[d], k)
      /\ \A e \in DOMAIN KeyDevice : e # d => keys'[e] = keys[e]
      /\ keys' \in [DOMAIN KeyDevice -> Seq(Key)]
  BY <1>1, <1>2 DEF KeyInv
<1>4. ASSUME NEW j \in DOMAIN keys'[d] PROVE keys'[d][j] \in KeyDevice[d]
  BY <1>1, <1>3 DEF KeyInv
<1>5. ASSUME k \in {"power", "release"}, NEW e \in DOMAIN KeyDevice, e # d, NEW j \in DOMAIN keys[e]
      PROVE  keys[e][j] \notin {"power", "release"}
  BY <1>1, <1>5, SameDevice, Zenon DEF KeyInv
<1>6. k = "power" /\ ~Releases(keys[d]) => lastPower = "release"
  BY <1>1, <1>5, Zenon DEF KeyInv, Releases
<1>7. held' \in BOOLEAN /\ Alternate(keys'[d], lastPower', held')
  <2>1. held \in BOOLEAN /\ Alternate(keys[d], lastPower, held)
    BY Zenon DEF KeyInv
  <2> QED BY <1>1, <1>2, <1>3, <1>6, <2>1, Arrives, Zenon
<1>8. ASSUME NEW e \in DOMAIN KeyDevice, e # d PROVE Alternate(keys'[e], lastPower', held')
  <2>1. CASE k \in {"power", "release"}
    <3>1. \A j \in DOMAIN keys'[e] : keys'[e][j] # "power"
      BY <1>3, <1>5, <1>8, <2>1, Zenon
    <3> QED BY <3>1, NoPowerKey, Zenon
  <2>2. CASE k \notin {"power", "release"}
    BY <1>1, <1>3, <1>8, <2>2, Zenon DEF KeyInv
  <2> QED BY <2>1, <2>2
<1>9. lastPower' = "power" => held' \/ \E e \in DOMAIN KeyDevice : Releases(keys'[e])
  <2>1. CASE k = "release"
    <3>1. Len(keys[d]) + 1 \in DOMAIN keys'[d] /\ keys'[d][Len(keys[d]) + 1] = "release"
      BY <1>3, <2>1
    <3> QED BY <3>1 DEF Releases
  <2>2. CASE k # "release"
    <3>1. ASSUME NEW e \in DOMAIN KeyDevice, Releases(keys[e]) PROVE Releases(keys'[e])
      <4>1. CASE e = d
        <5>1. PICK j \in DOMAIN keys[d] : keys[d][j] = "release"
          BY <3>1, <4>1 DEF Releases
        <5>2. j \in DOMAIN keys'[d] /\ keys'[d][j] = keys[d][j]
          BY <1>3
        <5> QED BY <4>1, <5>1, <5>2 DEF Releases
      <4>2. CASE e # d
        BY <1>3, <3>1, <4>2
      <4> QED BY <4>1, <4>2
    <3> QED BY <1>1, <2>2, <3>1 DEF KeyInv
  <2> QED BY <2>1, <2>2
<1>10. ASSUME NEW e \in DOMAIN KeyDevice, NEW j \in DOMAIN keys'[e] PROVE keys'[e][j] \in KeyDevice[e]
  <2>1. CASE e = d
    BY <1>4, <1>10, <2>1
  <2>2. CASE e # d
    BY <1>3, <1>10, <2>2, Zenon DEF KeyInv
  <2> QED BY <2>1, <2>2
<1>11. \A e \in DOMAIN KeyDevice : Alternate(keys'[e], lastPower', held')
  BY <1>7, <1>8
<1> QED BY <1>1, <1>3, <1>7, <1>9, <1>10, <1>11, Zenon DEF KeyInv

\* A key is read.
LEMMA ReadKeyKeeps ==
  ASSUME KeyInv, NEW d \in DOMAIN KeyDevice, keys[d] # <<>>, held' = held,
         lastPower' = IF Head(keys[d]) \in {"power", "release"} THEN Head(keys[d]) ELSE lastPower,
         keys' = [keys EXCEPT ![d] = Tail(@)]
  PROVE  KeyInv' /\ Head(keys[d]) \in Key /\ (Head(keys[d]) = "power" => lastPower = "release")
<1> DEFINE q == keys[d]
           k == Head(q)
<1>1. q \in Seq(Key) /\ q # <<>> /\ held \in BOOLEAN /\ Alternate(q, lastPower, held)
  BY DEF KeyInv
<1>2. /\ keys'[d] = Tail(q) /\ keys' \in [DOMAIN KeyDevice -> Seq(Key)]
      /\ \A e \in DOMAIN KeyDevice : e # d => keys'[e] = keys[e]
  BY <1>1 DEF KeyInv
<1> HIDE DEF q
<1>3. k \in Key /\ k = q[1] /\ 1 \in DOMAIN q
  BY <1>1
<1>4. k \in KeyDevice[d]
  BY <1>3 DEF KeyInv, q
<1> HIDE DEF k
<1>5. /\ Alternate(Tail(q), lastPower', held)
      /\ k = "power" => lastPower = "release" /\ (held \/ Releases(Tail(q)))
      /\ k # "release" /\ Releases(q) => Releases(Tail(q))
  BY <1>1, Reads DEF k, q
<1>6. lastPower' = IF k \in {"power", "release"} THEN k ELSE lastPower
  BY DEF k, q
<1>7. ASSUME NEW e \in DOMAIN KeyDevice, e # d PROVE Alternate(keys'[e], lastPower', held')
  <2>1. CASE k \in {"power", "release"}
    <3>1. \A j \in DOMAIN keys[e] : keys[e][j] \notin {"power", "release"}
      BY <1>4, <1>7, <2>1, SameDevice DEF KeyInv
    <3> QED BY <1>2, <1>7, <3>1, NoPowerKey
  <2>2. CASE k \notin {"power", "release"}
    BY <1>2, <1>6, <1>7, <2>2 DEF KeyInv
  <2> QED BY <2>1, <2>2
<1>8. \A e \in DOMAIN KeyDevice : Alternate(keys'[e], lastPower', held')
  BY <1>2, <1>5, <1>7, Zenon
<1>9. lastPower' = "power" => held' \/ \E e \in DOMAIN KeyDevice : Releases(keys'[e])
  <2>1. CASE k = "power"
    BY <1>2, <1>5, <2>1, Zenon
  <2>2. CASE k # "power" /\ k # "release"
    <3>1. ASSUME NEW e \in DOMAIN KeyDevice, Releases(keys[e]) PROVE Releases(keys'[e])
      BY <1>2, <1>5, <2>2, <3>1 DEF q
    <3> QED BY <1>6, <2>2, <3>1 DEF KeyInv
  <2> QED BY <1>6, <2>1, <2>2
<1>10. ASSUME NEW e \in DOMAIN KeyDevice, NEW j \in DOMAIN keys'[e] PROVE keys'[e][j] \in KeyDevice[e]
  <2>1. CASE e = d
    <3>1. j + 1 \in DOMAIN q /\ keys'[e][j] = q[j + 1]
      BY <1>1, <1>2, <2>1
    <3> QED BY <2>1, <3>1 DEF KeyInv, q
  <2>2. CASE e # d
    BY <1>2, <2>2, Zenon DEF KeyInv
  <2> QED BY <2>1, <2>2
<1>11. lastPower' \in {"power", "release"}
  BY <1>6, Zenon DEF KeyInv
<1> QED BY <1>1, <1>2, <1>3, <1>5, <1>8, <1>9, <1>10, <1>11, Zenon DEF KeyInv, k, q

-----------------------------------------------------------------------------
(* The theorems. *)

CInv ==
  /\ ComInv(com, lastPower) /\ KeyInv
  /\ supply \in Supply /\ voltage \in BOOLEAN

\* What charge_only_mode may do in one step.
Reason ==
  /\ com'.phase = "outofcharge" /\ com.phase # "outofcharge" => lastPower = "power"
  /\ com'.shutdown /\ ~com.shutdown => "none" \in {supply, supply'}
  /\ com'.phase = "off" => com'.shutdown

\* What a step does with the mark of the mode.
MarkStep ==
  \/ com.phase = "down" /\ com'.phase = "starting" /\ com'.file = "charging"
  \/ com.phase = "down" /\ com'.phase = "down" /\ com'.file = "" /\ com'.flash = ""
  \/ com.phase = "starting" /\ com'.phase = "running" /\ com'.file = com.file /\ com'.flash = com.flash
  \/ com'.phase = com.phase /\ com'.file = com.file /\ com'.flash = com.file
  \/ Marked(com, com')

\* The process is not started and no key was pressed.
LEMMA InitCInv == Init => CInv
<1> SUFFICES ASSUME Init PROVE CInv
  OBVIOUS
<1>1. com \in Com /\ com.alarms = <<>> /\ com.phase = "down"
  <2>1. com = Down
    BY DEF Init
  <2> QED BY <2>1, EmptyAlarms, Zenon DEF Down, Com
<1>2. ComInv(com, lastPower)
  BY <1>1, EmptyList DEF ComInv, Good
<1>3. KeyInv
  <2>1. keys = [d \in DOMAIN KeyDevice |-> <<>>] /\ held = FALSE /\ lastPower = "release"
    BY DEF Init
  <2>2. keys \in [DOMAIN KeyDevice -> Seq(Key)] /\ \A d \in DOMAIN KeyDevice : DOMAIN keys[d] = {}
    BY <2>1
  <2> QED BY <2>1, <2>2, NoPowerKey, Zenon DEF KeyInv
<1> QED BY <1>2, <1>3 DEF Init, CInv, Supply

\* Every step of the process, the user, the charger and the clock keeps the
\* invariant and has a reason to end the mode.
LEMMA NextCInv == CInv /\ [Next]_vars => CInv' /\ Reason /\ MarkStep
<1> SUFFICES ASSUME CInv, [Next]_vars PROVE CInv' /\ Reason /\ MarkStep
  OBVIOUS
<1>0. ComInv(com, lastPower) /\ Good(com) /\ com \in Com /\ KeyInv /\ supply \in Supply /\ voltage \in BOOLEAN
  BY DEF CInv, ComInv, Good
<1>1. CASE Start
  <2>1. com.phase = "down" /\ com.alarms = <<>> /\ supply' = supply /\ voltage' = voltage
        /\ held' = held /\ lastPower' = "release" /\ keys' = [d \in DOMAIN KeyDevice |-> <<>>]
    BY <1>0, <1>1 DEF Start, ComInv
  <2>2. com' = [save_mode(com) EXCEPT !.phase = "starting"] \/ com' = clear_mode(com)
    BY <1>1 DEF Start
  <2>3. com' \in Com /\ com'.alarms = <<>> /\ com'.phase \in {"starting", "down"}
        /\ com'.shutdown = com.shutdown /\ MarkStep
    BY <1>0, <2>1, <2>2, Zenon DEF save_mode, clear_mode, Com, MarkStep
  <2>4. ComInv(com', lastPower')
    BY <2>3, EmptyList DEF ComInv, Good
  <2>5. KeyInv'
    <3>1. keys' \in [DOMAIN KeyDevice -> Seq(Key)] /\ \A d \in DOMAIN KeyDevice : DOMAIN keys'[d] = {}
      BY <2>1
    <3> QED BY <1>0, <2>1, <3>1, NoPowerKey, Zenon DEF KeyInv
  <2> QED BY <1>0, <2>1, <2>3, <2>4, <2>5, Zenon DEF CInv, Reason
<1>2. CASE EnterLoop
  <2> DEFINE a == screen_brightness_animation_start(com, FirstAnimation)
  <2>1. com.phase = "starting" /\ com.alarms = <<>> /\ FirstAnimation \in Nat /\ Armed(com) = {}
    BY <1>0, <1>2, EmptyList, TimesAscend DEF EnterLoop, ComInv
  <2>2. /\ Good(a) /\ SameMode(com, a)
        /\ Armed(a) = Armed(com) \cup {"screen_brightness_animation_alarm1", "animation_alarm"}
    BY <1>0, <2>1, StartScreen, Zenon
  <2>3. com' = [a EXCEPT !.phase = "running"]
    BY <1>2 DEF EnterLoop
  <2> HIDE DEF a
  <2>4. com' \in Com /\ com'.alarms = a.alarms /\ com'.phase = "running" /\ com'.shutdown = com.shutdown /\ MarkStep
    BY <2>1, <2>2, <2>3, Zenon DEF Good, Com, SameMode, MarkStep
  <2>5. Good(com') /\ Armed(com') = {"screen_brightness_animation_alarm1", "animation_alarm"}
    BY <2>1, <2>2, <2>4, OtherFields
  <2>6. KeyInv' /\ lastPower' = lastPower /\ supply' = supply /\ voltage' = voltage
    BY <1>0, <1>2 DEF EnterLoop, user, KeyInv
  <2> QED BY <1>0, <2>4, <2>5, <2>6, Zenon DEF CInv, Reason, ComInv
<1>3. CASE alarm_process
  <2>1. KeyInv' /\ lastPower' = lastPower /\ voltage' = voltage
    BY <1>0, <1>3 DEF alarm_process, user, KeyInv
  <2> QED BY <1>0, <1>3, <2>1, AlarmProcess, Zenon DEF CInv, Reason, ComInv, MarkStep
<1>4. CASE ReadKey
  <2>1. PICK d \in DOMAIN keys :
          /\ com.phase = "running" /\ keys[d] # <<>> /\ com' \in HandleKey(com, Head(keys[d]))
          /\ lastPower' = IF Head(keys[d]) \in {"power", "release"} THEN Head(keys[d]) ELSE lastPower
          /\ keys' = [keys EXCEPT ![d] = Tail(@)]
          /\ held' = held /\ supply' = supply /\ voltage' = voltage
    BY <1>4, Zenon DEF ReadKey, Quiet
  <2>2. d \in DOMAIN KeyDevice
    BY <1>0 DEF KeyInv
  <2>3. KeyInv' /\ Head(keys[d]) \in Key /\ (Head(keys[d]) = "power" => lastPower = "release")
    BY <1>0, <2>1, <2>2, ReadKeyKeeps, Zenon
  <2>4. ComInv(com', lastPower') /\ LeavesOff(com, com')
    BY <1>0, <2>1, <2>3, KeyHandled
  <2> QED BY <1>0, <2>1, <2>3, <2>4 DEF CInv, Reason, LeavesOff, MarkStep
<1>5. CASE ReadUevents
  <2>1. KeyInv' /\ lastPower' = lastPower /\ voltage' = voltage /\ com.phase = "running"
    BY <1>0, <1>5, Zenon DEF ReadUevents, Quiet, user, KeyInv
  <2>2. CASE BatteryEvent
    <3>1. supply' \in Supply /\ (supply # "ac" /\ supply' # "usb" => "none" \in {supply, supply'})
      BY <1>0, <2>2, LooksTwice DEF BatteryEvent, LooksAtSupply
    <3>2. com' \in power_event(com, supply, supply')
      BY <2>2 DEF BatteryEvent
    <3>3. /\ Good(com') /\ Armed(com') \subseteq Armed(com)
          /\ com'.shutdown /\ ~com.shutdown => supply # "ac" /\ supply' # "usb"
          /\ com'.phase = com.phase \/ (com'.phase = "off" /\ com'.shutdown)
          /\ Marked(com, com')
      BY <1>0, <3>2, PowerEvent
    <3> QED BY <1>0, <2>1, <3>1, <3>3, Zenon DEF CInv, Reason, ComInv, MarkStep
  <2>3. CASE com' = com /\ supply' = supply
    BY <1>0, <2>1, <2>3, Zenon DEF CInv, Reason, ComInv, MarkStep, Marked
  <2> QED BY <1>5, <2>2, <2>3 DEF ReadUevents
<1>6. CASE SupplyChanges \/ OtherUevent \/ VoltageMoves
  <2>1. KeyInv' /\ lastPower' = lastPower /\ com' = com
    BY <1>0, <1>6, Zenon DEF SupplyChanges, OtherUevent, VoltageMoves, user, KeyInv
  <2>2. supply' \in Supply /\ voltage' \in BOOLEAN
    BY <1>0, <1>6, Zenon DEF SupplyChanges, OtherUevent, VoltageMoves, Nearby
  <2> QED BY <1>0, <2>1, <2>2, Zenon DEF CInv, Reason, ComInv, MarkStep, Marked
<1>7. CASE KeyMoves
  <2>1. com' = com /\ lastPower' = lastPower /\ supply' = supply /\ voltage' = voltage
    BY <1>7, Zenon DEF KeyMoves
  <2>2. KeyInv'
    BY <1>0, <1>7, KeyMovesKeeps
  <2> QED BY <1>0, <2>1, <2>2, Zenon DEF CInv, Reason, ComInv, MarkStep, Marked
<1>8. CASE WriteBack
  <2>1. /\ KeyInv' /\ lastPower' = lastPower /\ supply' = supply /\ voltage' = voltage
        /\ com' = [com EXCEPT !.flash = com.file]
    BY <1>0, <1>8 DEF WriteBack, user, KeyInv
  <2>2. /\ com' \in Com /\ com'.alarms = com.alarms /\ com'.phase = com.phase
        /\ com'.shutdown = com.shutdown /\ com'.file = com.file /\ com'.flash = com.file
    BY <1>0, <2>1, Zenon DEF Com
  <2>3. Good(com') /\ Armed(com') = Armed(com)
    BY <1>0, <2>2, OtherFields, Zenon
  <2> QED BY <1>0, <2>1, <2>2, <2>3 DEF CInv, Reason, ComInv, MarkStep
<1>9. CASE Tick
  <2> DEFINE q == com.alarms
             r == [i \in DOMAIN q |-> [f |-> q[i].f, t |-> IF q[i].t > 0 THEN q[i].t - 1 ELSE 0]]
  <2>1. /\ KeyInv' /\ lastPower' = lastPower /\ supply' = supply /\ voltage' = voltage
        /\ com' = [com EXCEPT !.alarms = r] /\ q # <<>>
    <3>1. KeyInv' /\ lastPower' = lastPower /\ supply' = supply /\ voltage' = voltage
      BY <1>0, <1>9 DEF Tick, user, KeyInv
    <3>2. com' = [com EXCEPT !.alarms = r]
      BY <1>9, Zenon DEF Tick
    <3>3. q # <<>>
      BY <1>9 DEF Tick
    <3> QED BY <3>1, <3>2, <3>3
  <2>2. q \in Seq(Alarm) /\ Once(q)
    BY <1>0, Zenon DEF Good, Com
  <2> HIDE DEF q
  <2>3. /\ r \in Seq(Alarm) /\ DOMAIN r = DOMAIN q
        /\ \A i \in DOMAIN q : r[i].f = q[i].f
    <3>1. ASSUME NEW i \in DOMAIN q PROVE r[i] \in Alarm /\ r[i].f = q[i].f
      <4>1. q[i].f \in Callback /\ q[i].t \in Nat
        <5> HIDE DEF r
        <5>1. q[i] \in Alarm
          BY <2>2
        <5> QED BY <5>1 DEF Alarm
      <4>2. r[i] = [f |-> q[i].f, t |-> IF q[i].t > 0 THEN q[i].t - 1 ELSE 0]
        BY Zenon
      <4> HIDE DEF r
      <4> QED BY <4>1, <4>2 DEF Alarm
    <3>2. Len(q) \in Nat /\ DOMAIN q = 1 .. Len(q) /\ r = [i \in 1 .. Len(q) |-> r[i]]
      BY <2>2
    <3> HIDE DEF r
    <3>3. r \in [1 .. Len(q) -> Alarm]
      BY <3>1, <3>2
    <3>4. r \in Seq(Alarm)
      BY <3>2, <3>3
    <3> QED BY <3>1, <3>2, <3>3, <3>4
  <2> HIDE DEF r
  <2>4. com' \in Com /\ com'.alarms = r /\ SameMode(com, com')
    BY <1>0, <2>1, <2>3, Zenon DEF Com, SameMode
  <2>5. Once(r) /\ \A g : Has(r, g) <=> Has(q, g)
    BY <2>2, <2>3 DEF Once, Has
  <2>6. Good(com') /\ Armed(com') = Armed(com)
    BY <2>4, <2>5 DEF Good, Armed, q
  <2> QED BY <1>0, <2>1, <2>4, <2>6 DEF CInv, Reason, ComInv, SameMode, MarkStep, Marked, q
<1>10. CASE UNCHANGED vars
  BY <1>0, <1>10, Zenon DEF vars, CInv, KeyInv, Reason, ComInv, MarkStep, Marked
<1> QED BY <1>1, <1>2, <1>3, <1>4, <1>5, <1>6, <1>7, <1>8, <1>9, <1>10 DEF Next, Process, World

\* The list never holds an alarm twice, however the callbacks, which arm
\* themselves and each other, the keys and the uevents follow each other.
THEOREM AlarmsOnce == Spec => []NoAlarmTwice
<1>1. CInv => NoAlarmTwice
  BY DEF CInv, ComInv, Good, Once, NoAlarmTwice
<1> QED BY <1>1, InitCInv, NextCInv, PTL DEF Spec

\* Charge-only mode is left only with the power key held down, as far as the
\* process has read its events, or with the charger gone when it was looked for.
THEOREM LeavesForAReason == Spec => LeftForAReason
<1>1. CInv /\ [Next]_vars => [Reason]_vars
  BY NextCInv
<1> QED BY <1>1, InitCInv, NextCInv, PTL DEF Spec, LeftForAReason, Reason

-----------------------------------------------------------------------------
(* Over several boots: the mark of the mode. *)

Ended == {"off", "outofcharge"}

\* The mark is gone when the mode has ended, and a phone outside the mode has it
\* only after a session that was cut off.
MarkInv ==
  /\ phone \in {"off", "com", "normal", "recovery"}
  /\ com.phase \in Ended => com.file = "" /\ com.flash = ""
  /\ phone # "com" /\ "charging" \in {com.file, com.flash} => dirty

\* Where no reboot() fails, the mark stays as long as the session lasts.
WrittenInv ==
  /\ com.phase \in {"starting", "running"} => com.file = "charging"
  /\ phone = "com" /\ written /\ com.phase \notin Ended
       => com.phase # "down" /\ com.file = "charging" /\ com.flash = "charging"
  /\ phone = "off" /\ reset /\ previous = "com" /\ written => com.file = "charging"

BInv == CInv /\ MarkInv /\ (~RebootMayFail => WrittenInv)

\* The mode of a phone that boots.
LEMMA BootModes ==
  ASSUME NEW b, NEW mark
  PROVE  boot_mode(b, mark) \in {"com", "normal", "recovery"}
  BY DEF boot_mode

\* The phone is off and has no mark.
LEMMA InitBInv == BInit => BInv
<1> SUFFICES ASSUME BInit PROVE BInv
  OBVIOUS
<1>1. com.phase = "down" /\ com.file = "" /\ com.flash = ""
  BY Zenon DEF BInit, Init, Down
<1>2. CInv
  BY InitCInv DEF BInit
<1> QED BY <1>1, <1>2, Zenon DEF BInit, BInv, MarkInv, WrittenInv, Ended

\* A process that is not running, with a mark, breaks nothing that holds of it.
LEMMA DownCInv ==
  ASSUME CInv, NEW m \in {"", "charging"}, NEW n \in {"", "charging"},
         com' = [Down EXCEPT !.file = m, !.flash = n], supply' \in Supply,
         UNCHANGED <<keys, held, lastPower, voltage>>
  PROVE  CInv' /\ com'.phase = "down" /\ com'.file = m /\ com'.flash = n
<1>2. com' \in Com /\ com'.alarms = <<>> /\ com'.phase = "down" /\ com'.file = m /\ com'.flash = n
  BY EmptyAlarms, Zenon DEF Down, Com
<1>3. ComInv(com', lastPower')
  BY <1>2, EmptyList, Zenon DEF ComInv, Good
<1>4. KeyInv'
  BY Zenon DEF CInv, KeyInv
<1> QED BY <1>2, <1>3, <1>4, Zenon DEF CInv

\* Every step of a session, every end of one, every fall of the phone and every
\* boot keeps the invariant.
LEMMA NextBInv == BInv /\ [BNext]_allvars => BInv'
<1> SUFFICES ASSUME BInv, [BNext]_allvars PROVE BInv'
  OBVIOUS
<1>0. CInv /\ MarkInv /\ com.file \in {"", "charging"} /\ com.flash \in {"", "charging"}
      /\ com \in Com
  BY Zenon DEF BInv, CInv, ComInv, Good, Com
<1>1. CASE Session
  <2>1. /\ phone = "com" /\ phone' = phone /\ reset' = reset /\ previous' = previous /\ dirty' = dirty
        /\ written' = (com.phase # "down" /\ (written \/ com'.flash = "charging"))
    BY <1>1 DEF Session
  <2>2. CInv' /\ MarkStep
    BY <1>0, <1>1, NextCInv, Zenon DEF Session
  <2>3. MarkInv'
    BY <1>0, <2>1, <2>2, Zenon DEF MarkInv, MarkStep, Marked, Ended
  <2>4. ASSUME ~RebootMayFail, WrittenInv PROVE WrittenInv'
    <3>1. com'.phase \in {"starting", "running"} => com'.file = "charging"
      BY <2>2, <2>4, Zenon DEF WrittenInv, MarkStep, Marked, Ended
    <3>2. ASSUME written', com'.phase \notin Ended
          PROVE  com'.phase # "down" /\ com'.file = "charging" /\ com'.flash = "charging"
      <4>1. com.phase # "down" /\ (written \/ com'.flash = "charging")
        BY <2>1, <3>2, Zenon
      <4>2. com'.phase # "down" /\ com.phase \notin Ended
        BY <2>2, <3>2, <4>1, Zenon DEF MarkStep, Marked, Ended
      <4>3. com.phase \in {"starting", "running"} /\ com.file = "charging"
        BY <1>0, <2>4, <4>1, <4>2, Zenon DEF Com, Ended, WrittenInv
      <4>4. com'.file = "charging"
        BY <2>2, <2>4, <3>2, <4>1, <4>3, Zenon DEF MarkStep, Marked, Ended
      <4>5. written => com.flash = "charging"
        BY <2>1, <2>4, <4>2 DEF WrittenInv
      <4>6. com'.flash = "charging"
        BY <2>2, <2>4, <3>2, <4>1, <4>3, <4>5, Zenon DEF MarkStep, Marked, Ended
      <4> QED BY <4>2, <4>4, <4>6
    <3> QED BY <2>1, <3>1, <3>2 DEF WrittenInv
  <2> QED BY <2>2, <2>3, <2>4 DEF BInv
<1>2. CASE SessionEnds
  <2>1. CInv'
    BY <1>0, <1>2, Zenon DEF SessionEnds, vars, CInv, ComInv, KeyInv
  <2>2. com' = com /\ com.phase \in Ended /\ phone' = "off" /\ reset' = FALSE
    BY <1>2 DEF SessionEnds, vars, Ended
  <2> QED BY <1>0, <2>1, <2>2, Zenon DEF BInv, MarkInv, WrittenInv, Ended
<1>3. CASE SwitchedOff
  <2>1. /\ phone # "com" /\ phone' = "off" /\ reset' = FALSE /\ dirty' = dirty
        /\ com' = [com EXCEPT !.flash = com.file]
        /\ UNCHANGED <<keys, held, lastPower, supply, voltage>>
    BY <1>3 DEF SwitchedOff
  <2>2. /\ com' \in Com /\ com'.alarms = com.alarms /\ com'.phase = com.phase
        /\ com'.shutdown = com.shutdown /\ com'.file = com.file /\ com'.flash = com.file
    BY <1>0, <2>1, Zenon DEF Com
  <2>3. Good(com') /\ Armed(com') = Armed(com)
    BY <1>0, <2>2, OtherFields, Zenon DEF CInv, ComInv
  <2>4. CInv'
    BY <1>0, <2>1, <2>2, <2>3, Zenon DEF CInv, ComInv, KeyInv
  <2> QED BY <1>0, <2>1, <2>2, <2>4, Zenon DEF BInv, MarkInv, WrittenInv, Ended
<1>4. CASE Boot
  <2>1. /\ phone = "off" /\ supply' \in Supply /\ dirty' = dirty /\ written' = FALSE
        /\ com' = [Down EXCEPT !.file = com.file, !.flash = com.flash]
        /\ UNCHANGED <<keys, held, lastPower, voltage>>
    BY <1>4 DEF Boot
  <2>2. phone' \in {"com", "normal", "recovery"}
    BY <1>4, BootModes DEF Boot
  <2>3. CInv' /\ com'.phase = "down" /\ com'.file = com.file /\ com'.flash = com.flash
    BY <1>0, <2>1, DownCInv, Zenon
  <2> QED BY <1>0, <2>1, <2>2, <2>3, Zenon DEF BInv, MarkInv, WrittenInv, Ended
<1>5. CASE \E panic \in BOOLEAN : GoesDown(panic)
  <2>1. PICK panic \in BOOLEAN : GoesDown(panic)
    BY <1>5
  <2>2. PICK m \in {com.file, com.flash} : com' = [Down EXCEPT !.file = m, !.flash = m]
    BY <2>1, Zenon DEF GoesDown
  <2>3. /\ com.phase \notin Ended /\ phone' = "off" /\ previous' = phone
        /\ dirty' = (dirty \/ phone = "com") /\ written' = written
        /\ UNCHANGED <<keys, held, lastPower, supply, voltage>>
    BY <2>1 DEF GoesDown, Ended
  <2>4. CInv' /\ com'.phase = "down" /\ com'.file = m /\ com'.flash = m
    <3>1. m \in {"", "charging"} /\ supply' \in Supply
      BY <1>0, <2>2, <2>3, Zenon DEF CInv
    <3> QED BY <1>0, <2>2, <2>3, <3>1, DownCInv, Zenon
  <2> QED BY <1>0, <2>2, <2>3, <2>4, Zenon DEF BInv, MarkInv, WrittenInv, Ended
<1>6. CASE UNCHANGED allvars
  <2>1. CInv'
    BY <1>0, <1>6, Zenon DEF allvars, vars, CInv, KeyInv, ComInv
  <2>2. UNCHANGED <<com, phone, reset, previous, written, dirty>>
    BY <1>6 DEF allvars, bootvars, vars
  <2> QED BY <1>0, <2>1, <2>2, Zenon DEF BInv, MarkInv, WrittenInv
<1> QED BY <1>1, <1>2, <1>3, <1>4, <1>5, <1>6 DEF BNext

\* A boot after a reset enters charge-only mode only if the last sessions include
\* one that was cut off: check_com_reset() finds no other mark.
THEOREM ResetsIntoCom == BSpec => NoResetIntoCom
<1>1. BInv /\ [BNext]_allvars => [phone = "off" /\ phone' = "com" /\ reset => dirty]_allvars
  <2> SUFFICES ASSUME BInv, BNext, phone = "off", phone' = "com", reset PROVE dirty
    OBVIOUS
  <2>1. Boot
    BY DEF BNext, Session, SessionEnds, SwitchedOff, GoesDown
  <2>2. PICK b : Reports(b) /\ phone' = boot_mode(b, com.file)
    BY <2>1 DEF Boot
  <2>3. com.file = "charging"
    BY <2>2 DEF Reports, boot_mode, boot_reason_charge_only, check_com_reset
  <2> QED BY <2>3 DEF BInv, MarkInv
<1> QED BY <1>1, InitBInv, NextBInv, PTL DEF BSpec, NoResetIntoCom

\* "used to handle kpanic and wdreset case in COM": where reboot() does not fail,
\* a session whose mark has reached the flash is taken up again after a reset.
THEOREM ResetsReturn ==
  ASSUME ~RebootMayFail
  PROVE  BSpec => ResetReturnsToCom
<1> DEFINE Returns == phone = "off" /\ phone' # "off" /\ reset /\ previous = "com" /\ written
                        => phone' \in {"com", "recovery"}
<1>1. BInv /\ [BNext]_allvars => [Returns]_allvars
  <2> SUFFICES ASSUME BInv, BNext, phone = "off", phone' # "off", reset, previous = "com", written
               PROVE  phone' \in {"com", "recovery"}
    OBVIOUS
  <2>1. Boot
    BY DEF BNext, Session, SessionEnds, SwitchedOff, GoesDown
  <2>2. PICK b : Reports(b) /\ phone' = boot_mode(b, com.file)
    BY <2>1 DEF Boot
  <2>3. com.file = "charging"
    BY DEF BInv, WrittenInv
  <2> QED BY <2>2, <2>3 DEF Reports, boot_mode, boot_reason_charge_only, check_com_reset
<1> QED BY <1>1, InitBInv, NextBInv, PTL DEF BSpec, ResetReturnsToCom, Returns

-----------------------------------------------------------------------------
(* modemlog. *)

(* The phone starts without a console and without a report. *)
LEMMA InitIInv == PanicInit => IInv
  BY DEF PanicInit, IInv, Reported, OncePerPanic

(* A step that leaves the reports, the console and the state file as they are   *)
(* and does not enter the steps before a report keeps the invariant.            *)
LEMMA QuietStep ==
  ASSUME IInv, boots' = boots, console' = console, reported' = reported, state' = state,
         step' \in {"off", "bootinfo", "checkdir", "done"}
  PROVE  IInv'
  BY DEF IInv, Reported, OncePerPanic

(* Every step of modemlog, every boot and every fall of the phone keeps the     *)
(* invariant.                                                                   *)
LEMMA NextIInv == IInv /\ [PanicNext]_panicvars => IInv'
<1> SUFFICES ASSUME IInv, [PanicNext]_panicvars PROVE IInv'
  OBVIOUS
<1>1. CASE PhoneBoots
  <2>1. console' \in {console, boots + 1} /\ boots' = boots + 1 /\ step' = "open"
        /\ reported' = reported /\ state' = state
    BY <1>1 DEF PhoneBoots
  <2>2. console' \in Nat /\ console' <= boots' /\ console <= console'
    BY <2>1, SMT DEF IInv
  <2>3. \A i \in DOMAIN reported : reported[i] \in Nat /\ reported[i] <= console
    BY DEF IInv
  <2>4. console' \in Reported' => console' = console
    BY <2>1, <2>3, SMT DEF IInv, Reported
  <2>5. \A i \in DOMAIN reported : reported[i] <= console'
    BY <2>2, <2>3, SMT DEF IInv
  <2> QED
    BY <2>1, <2>2, <2>4, <2>5 DEF IInv, Reported, OncePerPanic
<1>2. CASE OpenState
  BY <1>2 DEF OpenState, IInv, Reported, OncePerPanic, history
<1>3. CASE SaveState
  BY <1>3 DEF SaveState, IInv, Reported, OncePerPanic, history
<1>4. CASE Report
  <2>1. CASE ~Known /\ "kpanic" \in enabled
    <3>1. reported' = Append(reported, console) /\ console' = console /\ boots' = boots
          /\ state' = state /\ state = console /\ step' = "done"
      BY <1>4, <2>1 DEF Report, IInv
    <3>2. console \notin Reported
      BY <1>4 DEF Report, IInv
    <3>3. reported' \in Seq(Nat) /\ DOMAIN reported' = 1 .. Len(reported) + 1
          /\ \A i \in DOMAIN reported' :
               reported'[i] = IF i = Len(reported) + 1 THEN console ELSE reported[i]
      BY <3>1 DEF IInv
    <3>4. \A i \in DOMAIN reported' : reported'[i] <= console
      <4>1. DOMAIN reported = 1 .. Len(reported) /\ Len(reported) \in Nat /\ console \in Nat
        BY DEF IInv
      <4>2. \A i \in DOMAIN reported : reported[i] <= console
        BY DEF IInv
      <4> QED
        BY <3>3, <4>1, <4>2, SMT
    <3>5. OncePerPanic'
      <4> SUFFICES ASSUME NEW i \in DOMAIN reported', NEW j \in DOMAIN reported',
                          reported'[i] = reported'[j]
                   PROVE  i = j
        BY DEF OncePerPanic
      <4>1. \A k \in DOMAIN reported : reported[k] # console
        BY <3>2 DEF Reported
      <4>2. DOMAIN reported = 1 .. Len(reported) /\ Len(reported) \in Nat
        BY DEF IInv
      <4> QED
        BY <3>3, <4>1, <4>2 DEF IInv, OncePerPanic
    <3> QED
      BY <3>1, <3>3, <3>4, <3>5 DEF IInv
  <2>2. CASE ~(~Known /\ "kpanic" \in enabled)
    <3>1. boots' = boots /\ console' = console /\ reported' = reported /\ state' = state
          /\ step' = "bootinfo"
      BY <1>4, <2>2 DEF Report
    <3> QED
      BY <3>1, QuietStep
  <2> QED
    BY <2>1, <2>2
<1>5. CASE WritePanicData
  BY <1>5, QuietStep DEF WritePanicData, history
<1>6. CASE CheckDir
  BY <1>6, QuietStep DEF CheckDir, history
<1>7. CASE GoDown
  BY <1>7, QuietStep DEF GoDown, files
<1>8. CASE UNCHANGED panicvars
  BY <1>8 DEF panicvars, IInv, Reported, OncePerPanic
<1> QED
  BY <1>1, <1>2, <1>3, <1>4, <1>5, <1>6, <1>7, <1>8 DEF PanicNext, Main

(* "keep the original time stamp to avoid redundant panic report": no kernel    *)
(* panic is reported twice, over any number of boots, removals of old reports   *)
(* and falls of the phone between the steps of modemlog.                        *)
THEOREM ReportedOnce == PanicSpec => []OncePerPanic
<1>1. IInv => OncePerPanic
  BY DEF IInv
<1> QED
  BY <1>1, InitIInv, NextIInv, PTL DEF PanicSpec

(* A step that adds no report, leaves the console and the state file as they    *)
(* are and is not the one before a report keeps the second invariant.           *)
LEMMA QuietPStep ==
  ASSUME IInv, PInv, boots' = boots, console' = console, reported' = reported, state' = state,
         enabled' = enabled, cut' = cut, folder' \in Seq({"kpanic", "wdt"} \X Nat),
         \A i \in DOMAIN folder' : folder'[i][1] = "kpanic" => folder'[i][2] \in Reported,
         step # "report", step' \in {"bootinfo", "checkdir", "done"} => console \in {0, state}
  PROVE  PInv'
  BY DEF PInv, IInv, Reported

(* Every step of modemlog, every boot and every fall of the phone keeps the     *)
(* second invariant.                                                            *)
LEMMA NextPInv == IInv /\ PInv /\ [PanicNext]_panicvars => PInv'
<1> SUFFICES ASSUME IInv, PInv, [PanicNext]_panicvars PROVE PInv'
  OBVIOUS
<1> DEFINE Report2 == {"kpanic", "wdt"} \X Nat
<1>1. CASE PhoneBoots
  <2>1. console' \in {console, boots + 1} /\ boots' = boots + 1 /\ step = "off" /\ step' = "open"
        /\ reported' = reported /\ state' = state /\ folder' = folder /\ enabled' = enabled
        /\ cut' = cut
    BY <1>1 DEF PhoneBoots
  <2>2. state' \in Nat /\ state' <= boots' /\ (state' = console' => console' = console)
    BY <2>1, SMT DEF IInv, PInv
  <2>3. Reported' = Reported
    BY <2>1 DEF Reported
  <2> QED
    BY <2>1, <2>2, <2>3 DEF PInv
<1>2. CASE OpenState
  <2>1. console' = console /\ reported' = reported /\ folder' = folder /\ enabled' = enabled
        /\ cut' = cut /\ boots' = boots /\ step = "open"
    BY <1>2 DEF OpenState, history
  <2>2. Reported' = Reported
    BY <2>1 DEF Reported
  <2>3. CASE console \in {0, state} /\ step' = "bootinfo" /\ state' = state
    BY <2>1, <2>2, <2>3 DEF PInv
  <2>4. CASE step' = "save" /\ state' = 0
    <3>1. state' \in Nat /\ state' <= boots'
      BY <2>1, <2>4, SMT DEF IInv
    <3> QED
      BY <2>1, <2>2, <2>4, <3>1 DEF PInv
  <2> QED
    BY <1>2, <2>3, <2>4 DEF OpenState
<1>3. CASE SaveState
  <2>1. state' = console /\ step' = "report" /\ boots' = boots /\ folder' = folder
        /\ reported' = reported /\ console' = console
    BY <1>3 DEF SaveState, history
  <2>2. Reported' = Reported
    BY <2>1 DEF Reported
  <2> QED
    BY <2>1, <2>2 DEF PInv, IInv
<1>4. CASE Report
  <2>1. console' = console /\ state' = state /\ enabled' = enabled /\ boots' = boots /\ cut' = cut
        /\ state = console /\ step = "report"
    BY <1>4 DEF Report, IInv
  <2>2. CASE ~Known /\ "kpanic" \in enabled
    <3>1. reported' = Append(reported, console) /\ folder' = Append(folder, <<"kpanic", console>>)
          /\ step' = "done"
      BY <1>4, <2>2 DEF Report
    <3>2. Reported \subseteq Reported' /\ console \in Reported'
      <4>1. Len(reported) \in Nat /\ DOMAIN reported = 1 .. Len(reported)
            /\ DOMAIN reported' = 1 .. Len(reported) + 1
            /\ reported'[Len(reported) + 1] = console
            /\ \A i \in DOMAIN reported : reported'[i] = reported[i]
        BY <3>1 DEF IInv
      <4>2. DOMAIN reported \subseteq DOMAIN reported' /\ Len(reported) + 1 \in DOMAIN reported'
        BY <4>1, SMT
      <4>3. console \in Reported'
        BY <4>1, <4>2 DEF Reported
      <4>4. ASSUME NEW x \in Reported PROVE x \in Reported'
        <5>1. PICK i \in DOMAIN reported : x = reported[i]
          BY DEF Reported
        <5>2. i \in DOMAIN reported' /\ x = reported'[i]
          BY <4>1, <4>2, <5>1
        <5> QED
          BY <5>2 DEF Reported
      <4> QED
        BY <4>3, <4>4
    <3>3. folder' \in Seq(Report2)
      BY <3>1 DEF PInv, IInv
    <3>4. \A i \in DOMAIN folder' : folder'[i][1] = "kpanic" => folder'[i][2] \in Reported'
      <4>1. Len(folder) \in Nat /\ DOMAIN folder = 1 .. Len(folder)
            /\ DOMAIN folder' = 1 .. Len(folder) + 1
            /\ \A i \in DOMAIN folder' :
                 folder'[i] = IF i = Len(folder) + 1 THEN <<"kpanic", console>> ELSE folder[i]
        BY <3>1 DEF PInv
      <4>2. \A i \in DOMAIN folder : folder[i][1] = "kpanic" => folder[i][2] \in Reported
        BY DEF PInv
      <4> QED
        BY <3>2, <4>1, <4>2, SMT
    <3> QED
      BY <2>1, <3>1, <3>2, <3>3, <3>4 DEF PInv
  <2>3. CASE ~(~Known /\ "kpanic" \in enabled)
    <3>1. folder' = folder /\ reported' = reported /\ step' = "bootinfo"
      BY <1>4, <2>3 DEF Report
    <3>2. Reported' = Reported
      BY <3>1 DEF Reported
    <3>3. Known => console \in Reported
      <4> SUFFICES ASSUME Known PROVE console \in Reported
        OBVIOUS
      <4>1. PICK i \in DOMAIN folder : folder[i] = <<"kpanic", console>>
        BY DEF Known
      <4>2. folder[i][1] = "kpanic" /\ folder[i][2] = console
        BY <4>1
      <4> QED
        BY <4>2 DEF PInv
    <3> QED
      BY <2>1, <2>3, <3>1, <3>2, <3>3 DEF PInv
  <2> QED
    BY <2>2, <2>3
<1>5. CASE WritePanicData
  <2>1. boots' = boots /\ console' = console /\ reported' = reported /\ state' = state
        /\ enabled' = enabled /\ cut' = cut /\ step = "bootinfo"
        /\ folder' \in {folder, Append(folder, <<"wdt", boots>>)}
    BY <1>5 DEF WritePanicData, history
  <2>2. folder \in Seq(Report2) /\ <<"wdt", boots>> \in Report2
    BY DEF PInv, IInv
  <2>3. folder' \in Seq(Report2)
        /\ \A i \in DOMAIN folder' :
             folder'[i] = <<"wdt", boots>> \/ (i \in DOMAIN folder /\ folder'[i] = folder[i])
    <3> HIDE DEF Report2
    <3>1. CASE folder' = folder
      BY <2>2, <3>1
    <3>2. CASE folder' = Append(folder, <<"wdt", boots>>)
      BY <2>2, <3>2, SMT
    <3> QED
      BY <2>1, <3>1, <3>2
  <2>4. \A i \in DOMAIN folder' : folder'[i][1] = "kpanic" => folder'[i][2] \in Reported
    <3>1. <<"wdt", boots>>[1] # "kpanic"
      OBVIOUS
    <3>2. \A i \in DOMAIN folder : folder[i][1] = "kpanic" => folder[i][2] \in Reported
      BY DEF PInv
    <3> SUFFICES ASSUME NEW i \in DOMAIN folder', folder'[i][1] = "kpanic"
                 PROVE folder'[i][2] \in Reported
      OBVIOUS
    <3>3. i \in DOMAIN folder /\ folder'[i] = folder[i]
      BY <2>3, <3>1
    <3> QED
      BY <3>2, <3>3
  <2>5. console \in {0, state}
    BY <2>1 DEF PInv
  <2> QED
    BY <2>1, <2>3, <2>4, <2>5, QuietPStep
<1>6. CASE CheckDir
  <2>1. boots' = boots /\ console' = console /\ reported' = reported /\ state' = state
        /\ enabled' = enabled /\ cut' = cut /\ step = "checkdir"
        /\ (folder' = folder \/ (Len(folder) > MAXTOTALSIZE /\ folder' = Tail(folder)))
    BY <1>6 DEF CheckDir, history
  <2>2. CASE folder' = folder \/ folder = <<>>
    <3>1. CASE folder' = folder
      BY <2>1, <3>1, QuietPStep, Zenon DEF PInv
    <3>2. CASE folder = <<>> /\ folder' # folder
      BY <2>1, <3>2, QuietPStep DEF PInv
    <3> QED
      BY <2>2, <3>1, <3>2
  <2>3. CASE folder' = Tail(folder) /\ folder # <<>>
    <3>1. folder' \in Seq(Report2) /\ \A i \in DOMAIN folder' : i + 1 \in DOMAIN folder /\ folder'[i] = folder[i + 1]
      BY <2>3 DEF PInv
    <3>2. \A i \in DOMAIN folder' : folder'[i][1] = "kpanic" => folder'[i][2] \in Reported
      BY <3>1 DEF PInv
    <3>3. console \in {0, state}
      BY <2>1 DEF PInv
    <3> QED
      BY <2>1, <3>1, <3>2, <3>3, QuietPStep, Zenon
  <2> QED
    BY <2>1, <2>2, <2>3
<1>7. CASE GoDown
  <2>1. boots' = boots /\ console' = console /\ reported' = reported /\ state' = state
        /\ enabled' = enabled /\ folder' = folder /\ step' = "off"
        /\ cut' = IF step = "report" THEN cut \cup {console} ELSE cut
    BY <1>7 DEF GoDown, files
  <2>2. Reported' = Reported
    BY <2>1 DEF Reported
  <2> QED
    BY <2>1, <2>2 DEF PInv
<1>8. CASE UNCHANGED panicvars
  BY <1>8 DEF panicvars, PInv, Reported
<1> QED
  BY <1>1, <1>2, <1>3, <1>4, <1>5, <1>6, <1>7, <1>8 DEF PanicNext, Main

(* "When there's a valid apanic_console file, report a normal kpanic": over any  *)
(* number of boots a panic that modemlog has looked at has its report, unless    *)
(* reports are disabled or the phone went down on the way from the state file to *)
(* the report.                                                                   *)
THEOREM EveryPanic == PanicSpec => []PanicReported
<1>1. PanicInit => PInv
  BY DEF PanicInit, PInv
<1>2. PInv => PanicReported
  BY DEF PInv, PanicReported
<1> QED
  BY <1>1, <1>2, InitIInv, NextIInv, NextPInv, PTL DEF PanicSpec
=============================================================================
