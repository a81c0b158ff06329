----------------------------- MODULE HwcProofs ------------------------------
(***************************************************************************)
(* Every frame of the hardware composer fits the overlays, keeps the order  *)
(* of its layers and is mirrored at the second try, for all lists of layers *)
(* and settings and any number of frames and plugs.                         *)
(***************************************************************************)
EXTENDS Hwc, FiniteSetTheorems, TLAPS

AnOvl == [zorder : Int, ix : Int, mgr : {0, 1}, layer : Nat]
APipe == [ovls : Seq(AnOvl), z : Int, fb_z : Int, mem : Int, scaled_gfx : BOOLEAN]
-----------------------------------------------------------------------------
(* The loop over the layers. *)

\* What holds before the first round of a loop and is kept by every round holds
\* after the last one.
LEMMA Rounds ==
  ASSUME NEW n \in Nat, NEW T, 0 \in T, \A m \in 1 .. n : m - 1 \in T => m \in T
  PROVE  n \in T
<1> DEFINE Bad == {m \in 0 .. n : m \notin T}
<1> SUFFICES ASSUME Bad # {} PROVE FALSE
  BY SMT
<1>1. PICK m \in Bad : \A k \in Bad : <<k, m>> \notin OpToRel(<, Nat)
  <2>1. Bad \subseteq Nat
    OBVIOUS
  <2> QED BY <2>1, NatLessThanWellFounded, WFMin, Zenon
<1>2. m \in 1 .. n /\ m - 1 \in 0 .. n /\ m - 1 \in Nat /\ m \in Nat /\ m - 1 < m
  <2>1. m \in 0 .. n /\ m # 0
    OBVIOUS
  <2> QED BY <2>1
<1>3. <<m - 1, m>> \in OpToRel(<, Nat)
  BY <1>2, SMT DEF OpToRel
<1>4. m - 1 \in T
  BY <1>1, <1>2, <1>3, Zenon
<1> QED BY <1>1, <1>2, <1>4, Zenon

\* r are the states of the loop of hwc_prepare() over the layers of list.
LoopRun(r, n, d, lim, use_sgx, swap_rb, list) ==
  /\ r[0] = Start(use_sgx)
  /\ \A i \in 1 .. n : r[i] = Round(d, lim, use_sgx, swap_rb, list[i], i, r[i - 1])

Looped(d, lim, use_sgx, swap_rb, list) ==
  \E r : /\ LoopRun(r, Len(list), d, lim, use_sgx, swap_rb, list)
         /\ Pipes(d, lim, use_sgx, swap_rb, list) = Finish(use_sgx, r[Len(list)])

\* The loop of hwc_prepare() goes through its states one by one, and what follows
\* it works on the last one.
LEMMA LoopRuns ==
  ASSUME NEW d, NEW lim, NEW use_sgx, NEW swap_rb, NEW list, Len(list) \in Nat
  PROVE  Looped(d, lim, use_sgx, swap_rb, list)
<1> DEFINE n == Len(list)
           a == Start(use_sgx)
           Step(i, p) == Round(d, lim, use_sgx, swap_rb, list[i], i, p)
           Loop(k) == [i \in 0 .. n |-> IF i = 0 THEN a ELSE Step(i, k[i - 1])]
           K == CHOOSE k : k = Loop(k)
           Run(r, m) == r[0] = a /\ \A i \in 1 .. m : r[i] = Step(i, r[i - 1])
<1>1. Pipes(d, lim, use_sgx, swap_rb, list) = Finish(use_sgx, K[n])
  BY DEF Pipes
<1>2. n \in Nat
  OBVIOUS
<1> HIDE DEF n, a, Step
<1>3. \E r : DOMAIN r = 0 .. n /\ Run(r, n)
  <2> DEFINE T == {m \in 0 .. n : \E r : DOMAIN r = 0 .. m /\ Run(r, m)}
  <2>1. 0 \in T
    <3>1. Run([k \in 0 .. 0 |-> a], 0)
      OBVIOUS
    <3> HIDE DEF Run
    <3> QED BY <1>2, <3>1
  <2>2. ASSUME NEW m \in 1 .. n, m - 1 \in T PROVE m \in T
    <3>1. PICK r : DOMAIN r = 0 .. m - 1 /\ Run(r, m - 1)
      BY <2>2, Zenon
    <3> DEFINE s == [k \in 0 .. m |-> IF k = m THEN Step(m, r[m - 1]) ELSE r[k]]
    <3>2. s[0] = a
      BY <3>1
    <3>3. ASSUME NEW k \in 1 .. m PROVE s[k] = Step(k, s[k - 1])
      <4>1. s[k - 1] = r[k - 1]
        OBVIOUS
      <4>2. CASE k = m
        BY <4>1, <4>2
      <4>3. CASE k # m
        BY <3>1, <4>1, <4>3
      <4> QED BY <4>2, <4>3
    <3>4. DOMAIN s = 0 .. m /\ Run(s, m)
      BY <3>2, <3>3, Zenon
    <3> HIDE DEF Run, s
    <3> QED BY <3>4
  <2> HIDE DEF T
  <2>3. n \in T
    BY <1>2, <2>1, <2>2, Rounds, Zenon
  <2> QED BY <2>3, Zenon DEF T
<1>4. PICK r : DOMAIN r = 0 .. n /\ Run(r, n)
  BY <1>3, Zenon
<1>5. [i \in 0 .. n |-> r[i]] = Loop([i \in 0 .. n |-> r[i]])
  <2> DEFINE s == [i \in 0 .. n |-> r[i]]
  <2>1. ASSUME NEW i \in 0 .. n PROVE s[i] = Loop(s)[i]
    <3>1. CASE i = 0
      BY <1>2, <1>4, <3>1
    <3>2. CASE i # 0
      <4>1. i \in 1 .. n /\ i - 1 \in 0 .. n
        BY <1>2, <3>2
      <4> QED BY <1>4, <3>2, <4>1
    <3> QED BY <3>1, <3>2
  <2> QED BY <2>1, Zenon
<1>6. K = Loop(K)
  <2> HIDE DEF Loop
  <2> QED BY <1>5, Zenon
<1>7. K[0] = a /\ \A i \in 1 .. n : K[i] = Step(i, K[i - 1])
  <2>1. \A i \in 0 .. n : K[i] = IF i = 0 THEN a ELSE Step(i, K[i - 1])
    <3> HIDE DEF K
    <3> QED BY <1>6, Zenon
  <2> HIDE DEF K
  <2> QED BY <1>2, <2>1
<1> HIDE DEF K
<1>8. LoopRun(K, Len(list), d, lim, use_sgx, swap_rb, list)
  BY <1>7 DEF LoopRun, n, a, Step
<1> QED BY <1>1, <1>8 DEF Looped, n

-----------------------------------------------------------------------------
(* The records of the loop. *)

\* The state of the loop before the first layer.
LEMMA PipeStart ==
  ASSUME NEW use_sgx \in BOOLEAN
  PROVE  LET p == Start(use_sgx)
         IN  /\ p \in APipe /\ p.z = 0 /\ p.fb_z = -1 /\ p.mem = 0 /\ p.scaled_gfx = FALSE
             /\ p.ovls = IF use_sgx THEN <<Ovl(0, 0, 0, FB)>> ELSE <<>>
<1> DEFINE o == IF use_sgx THEN <<Ovl(0, 0, 0, FB)>> ELSE <<>>
           S == Seq(AnOvl)
<1>1. Ovl(0, 0, 0, FB) \in AnOvl
  BY DEF Ovl, AnOvl, FB
<1>2. o \in S
  BY <1>1
<1> HIDE DEF o, S
<1>3. Start(use_sgx) = [ovls |-> o, z |-> 0, fb_z |-> -1, mem |-> 0, scaled_gfx |-> FALSE]
  BY DEF Start, o
<1>4. /\ Start(use_sgx) \in [ovls : S, z : Int, fb_z : Int, mem : Int, scaled_gfx : BOOLEAN]
  BY <1>2, <1>3
<1> QED BY <1>3, <1>4 DEF APipe, S, o

\* q is p after a layer went to an overlay, and after a layer was left to the SGX.
Added(q, p, r, z, u, g) == q = [p EXCEPT !.ovls = r, !.z = z, !.mem = u, !.scaled_gfx = g]
Raised(q, p, z, f) == q = [p EXCEPT !.fb_z = f, !.z = z]
Lowered(q, p, r, f) == q = [p EXCEPT !.ovls = r, !.fb_z = f]

\* What an overlay leaves in the record of the loop ...
LEMMA PipeAdded ==
  ASSUME NEW q, NEW p, NEW r, NEW z, NEW u, NEW g, Added(q, p, r, z, u, g),
         p \in APipe, r \in Seq(AnOvl), z \in Int, u \in Int, g \in BOOLEAN
  PROVE  /\ q \in APipe /\ q.ovls = r /\ q.z = z /\ q.fb_z = p.fb_z /\ q.mem = u
         /\ q.scaled_gfx = g
<1> DEFINE S == Seq(AnOvl)
           R == [ovls : S, z : Int, fb_z : Int, mem : Int, scaled_gfx : BOOLEAN]
<1>1. r \in S /\ p \in R /\ q = [p EXCEPT !.ovls = r, !.z = z, !.mem = u, !.scaled_gfx = g]
  BY Zenon DEF APipe, Added
<1> HIDE DEF S
<1>2. q \in R /\ q.ovls = r /\ q.z = z /\ q.fb_z = p.fb_z /\ q.mem = u /\ q.scaled_gfx = g
  BY <1>1, Zenon
<1> QED BY <1>2, Zenon DEF APipe, S

\* ... what the first layer of the SGX does ...
LEMMA PipeRaised ==
  ASSUME NEW q, NEW p, NEW z, NEW f, Raised(q, p, z, f), p \in APipe, z \in Int, f \in Int
  PROVE  q \in APipe /\ q.ovls = p.ovls /\ q.z = z /\ q.fb_z = f /\ q.scaled_gfx = p.scaled_gfx
<1> DEFINE S == Seq(AnOvl)
           R == [ovls : S, z : Int, fb_z : Int, mem : Int, scaled_gfx : BOOLEAN]
<1>1. p \in R
  BY Zenon DEF APipe
<1> HIDE DEF S
<1>2. q \in R /\ q.ovls = p.ovls /\ q.z = z /\ q.fb_z = f /\ q.scaled_gfx = p.scaled_gfx
  BY <1>1, Zenon DEF Raised
<1> QED BY <1>2, Zenon DEF APipe, S

\* ... and what a later one does.
LEMMA PipeLowered ==
  ASSUME NEW q, NEW p, NEW r, NEW f, Lowered(q, p, r, f), p \in APipe, r \in Seq(AnOvl), f \in Int
  PROVE  q \in APipe /\ q.ovls = r /\ q.z = p.z /\ q.fb_z = f /\ q.scaled_gfx = p.scaled_gfx
<1> DEFINE S == Seq(AnOvl)
           R == [ovls : S, z : Int, fb_z : Int, mem : Int, scaled_gfx : BOOLEAN]
<1>1. p \in R /\ r \in S
  BY Zenon DEF APipe
<1> HIDE DEF S
<1>2. q \in R /\ q.ovls = r /\ q.z = p.z /\ q.fb_z = f /\ q.scaled_gfx = p.scaled_gfx
  BY <1>1, Zenon DEF Lowered
<1> QED BY <1>2, Zenon DEF APipe, S

\* One overlay more.
LEMMA OneMore ==
  ASSUME NEW o \in Seq(AnOvl), NEW e \in AnOvl
  PROVE  /\ Append(o, e) \in Seq(AnOvl) /\ Len(Append(o, e)) = Len(o) + 1
         /\ Append(o, e)[Len(o) + 1] = e /\ \A k \in 1 .. Len(o) : Append(o, e)[k] = o[k]
  OBVIOUS

-----------------------------------------------------------------------------
(* A frame some of whose layers are composed by the SGX. *)

Layers(p) == {p.ovls[k].layer : k \in 2 .. Len(p.ovls)}
Composed(p, i) == (1 .. i) \ Layers(p)
Front(p) == IF p.fb_z < 0 THEN Len(p.ovls) - 1 ELSE p.fb_z

\* After i layers: the overlays behind the one of the framebuffer are in the order
\* of their layers, numbered from the bottom with one number left for the
\* framebuffer, which is in front of exactly the overlays a composed layer is above.
SgxInv(p, i, list, m) ==
  /\ p \in APipe /\ p.scaled_gfx = FALSE
  /\ Len(p.ovls) \in 1 .. max(1, m)
  /\ p.ovls[1].layer = FB
  /\ \A k \in 1 .. Len(p.ovls) : p.ovls[k].mgr = 0
  /\ p.z = IF p.fb_z < 0 THEN Len(p.ovls) - 1 ELSE Len(p.ovls)
  /\ Front(p) \in 0 .. Len(p.ovls) - 1
  /\ \A k \in 2 .. Len(p.ovls) :
       /\ p.ovls[k].layer \in 1 .. i
       /\ p.ovls[k].zorder = IF k - 2 < Front(p) THEN k - 2 ELSE k - 1
  /\ \A j, k \in 2 .. Len(p.ovls) : j < k => p.ovls[j].layer < p.ovls[k].layer
  /\ p.fb_z < 0 <=> Composed(p, i) = {}
  /\ \A k \in 2 .. Len(p.ovls) : p.fb_z >= 0 =>
       (k - 2 < p.fb_z <=> \E s \in Composed(p, i) : p.ovls[k].layer < s)
  /\ \A k \in 2 .. Len(p.ovls) : list[p.ovls[k].layer].blended =>
       \A s \in Composed(p, i) : p.ovls[k].layer < s


\* Before the first layer.
LEMMA SgxStart ==
  ASSUME NEW list, NEW m \in Int
  PROVE  SgxInv(Start(TRUE), 0, list, m)
<1> DEFINE p == Start(TRUE)
<1>1. p \in APipe /\ p.fb_z = -1 /\ p.z = 0 /\ p.scaled_gfx = FALSE /\ p.ovls = <<Ovl(0, 0, 0, FB)>>
  BY PipeStart, Zenon
<1> HIDE DEF p
<1>2. Len(p.ovls) = 1 /\ p.ovls[1].layer = FB /\ p.ovls[1].mgr = 0
  BY <1>1 DEF Ovl
<1>3. Composed(p, 0) = {} /\ Front(p) = 0
  BY <1>1, <1>2 DEF Composed, Front
<1>4. \A k \in 1 .. 1 : p.ovls[k].mgr = 0
  BY <1>2
<1>5. 1 \in 1 .. max(1, m)
  BY DEF max
<1>6. SgxInv(p, 0, list, m)
  BY <1>1, <1>2, <1>3, <1>4, <1>5 DEF SgxInv
<1> QED BY <1>6, Zenon DEF p

\* A layer that goes to an overlay.
LEMMA SgxOverlay ==
  ASSUME NEW list, NEW m \in Int, NEW i \in Nat, i > 0, NEW p, SgxInv(p, i - 1, list, m),
         Len(p.ovls) < m, ~MidStack(list[i], p)
  PROVE  SgxInv(AddOverlay(p, list[i], i), i, list, m)
<1> DEFINE n == Len(p.ovls)
           e == Ovl(p.z, n + primary_transform, 0, i)
           r == Append(p.ovls, e)
           q == AddOverlay(p, list[i], i)
           C == Composed(p, i - 1)
<1>1. p \in APipe /\ p.scaled_gfx = FALSE
  BY DEF SgxInv
<1>2. p.ovls \in Seq(AnOvl) /\ p.z \in Int /\ p.fb_z \in Int /\ p.mem \in Int
  BY <1>1 DEF APipe
<1>3. n \in Nat /\ n >= 1 /\ n < m
  BY <1>2 DEF SgxInv, max
<1>4. e \in AnOvl /\ e.zorder = p.z /\ e.mgr = 0 /\ e.layer = i
  BY <1>2, <1>3, DisplayAssumption DEF Ovl, AnOvl
<1>5. q = [p EXCEPT !.ovls = r, !.z = p.z + 1, !.mem = p.mem + mem1d(list[i]), !.scaled_gfx = FALSE]
  <2> DEFINE plain == ~(list[i].scaled \/ is_NV12(list[i]))
             swap == ~(n = 0 /\ primary_transform = 0) /\ p.scaled_gfx /\ plain
             gfx == IF n = 0 /\ primary_transform = 0 THEN ~plain ELSE p.scaled_gfx /\ ~swap
  <2>1. n # 0
    BY <1>3
  <2>2. swap = FALSE /\ gfx = FALSE
    BY <1>1, <2>1, Zenon
  <2>3. q = [p EXCEPT !.ovls = Append(IF swap THEN [p.ovls EXCEPT ![1].ix = n] ELSE p.ovls,
                                      Ovl(p.z, IF swap THEN 0 ELSE n + primary_transform, 0, i)),
                      !.z = p.z + 1, !.mem = p.mem + mem1d(list[i]), !.scaled_gfx = gfx]
    BY DEF AddOverlay
  <2> HIDE DEF swap, gfx, q
  <2> QED BY <2>2, <2>3, Zenon
<1> HIDE DEF e
<1>6. r \in Seq(AnOvl) /\ Len(r) = n + 1 /\ r[n + 1] = e /\ \A k \in 1 .. n : r[k] = p.ovls[k]
  BY <1>2, <1>4, OneMore
<1>7. p.mem + mem1d(list[i]) \in Int /\ p.z + 1 \in Int
  BY <1>2 DEF mem1d
<1> HIDE DEF r
<1>8. q \in APipe /\ q.ovls = r /\ q.z = p.z + 1 /\ q.fb_z = p.fb_z /\ q.scaled_gfx = FALSE
  <2> DEFINE g == FALSE
  <2>1. g \in BOOLEAN
    OBVIOUS
  <2> HIDE DEF q
  <2>2. Added(q, p, r, p.z + 1, p.mem + mem1d(list[i]), g)
    BY <1>5, Zenon DEF Added
  <2> HIDE DEF g
  <2>3. p \in APipe /\ r \in Seq(AnOvl)
    BY <1>1, <1>6
  <2>4. /\ q \in APipe /\ q.ovls = r /\ q.z = p.z + 1 /\ q.fb_z = p.fb_z
        /\ q.mem = p.mem + mem1d(list[i]) /\ q.scaled_gfx = g
    BY <1>7, <2>1, <2>2, <2>3, PipeAdded
  <2> QED BY <2>4, Zenon DEF g
<1>9. /\ p.ovls[1].layer = FB /\ \A k \in 1 .. n : p.ovls[k].mgr = 0
  BY DEF SgxInv
<1>10. /\ p.z = IF p.fb_z < 0 THEN n - 1 ELSE n
       /\ p.fb_z < 0 \/ p.fb_z \in 0 .. n - 1
       /\ \A k \in 2 .. n : p.ovls[k].zorder = IF p.fb_z < 0 \/ k - 2 < p.fb_z THEN k - 2 ELSE k - 1
  BY <1>2, <1>3 DEF SgxInv, Front
<1>11. /\ \A k \in 2 .. n : p.ovls[k].layer \in 1 .. i - 1
       /\ \A j, k \in 2 .. n : j < k => p.ovls[j].layer < p.ovls[k].layer
  BY Zenon DEF SgxInv
<1>12. /\ p.fb_z < 0 <=> C = {}
       /\ \A k \in 2 .. n : p.fb_z >= 0 => (k - 2 < p.fb_z <=> \E s \in C : p.ovls[k].layer < s)
       /\ \A k \in 2 .. n : list[p.ovls[k].layer].blended => \A s \in C : p.ovls[k].layer < s
  BY DEF SgxInv
<1>13. Len(q.ovls) = n + 1
  BY <1>6, <1>8
<1>14. \A k \in 1 .. n : r[k] = p.ovls[k]
  BY <1>6
<1>15. r[n + 1].zorder = p.z /\ r[n + 1].mgr = 0 /\ r[n + 1].layer = i
  BY <1>4, <1>6
<1> HIDE DEF n, q
<1>16. \A k \in 2 .. Len(q.ovls) : k = n + 1 \/ (k \in 2 .. n /\ k \in 1 .. n)
  BY <1>3, <1>13
<1>17. Layers(q) = Layers(p) \cup {i}
  <2>1. Layers(q) = {r[k].layer : k \in 2 .. Len(q.ovls)}
    BY <1>8 DEF Layers
  <2>2. Layers(p) = {p.ovls[k].layer : k \in 2 .. n}
    BY DEF Layers, n
  <2>3. n + 1 \in 2 .. Len(q.ovls) /\ \A k \in 2 .. n : k \in 2 .. Len(q.ovls) /\ k \in 1 .. n
    BY <1>3, <1>13
  <2>4. ASSUME NEW x \in Layers(q) PROVE x \in Layers(p) \cup {i}
    BY <1>14, <1>15, <1>16, <2>1, <2>2, <2>4, Zenon
  <2>5. ASSUME NEW x \in Layers(p) \cup {i} PROVE x \in Layers(q)
    BY <1>14, <1>15, <2>1, <2>2, <2>3, <2>5, Zenon
  <2> QED BY <2>4, <2>5
<1>18. Composed(q, i) = C
  BY <1>17 DEF Composed
<1>19. \A s \in C : s \in Int /\ s < i
  BY DEF Composed
<1> HIDE DEF C
<1>20. Len(q.ovls) \in 1 .. max(1, m) /\ q.ovls[1].layer = FB
  <2>1. 1 \in 1 .. n
    BY <1>3
  <2>2. r[1] = p.ovls[1]
    BY <1>14, <2>1
  <2> QED BY <1>3, <1>8, <1>9, <1>13, <2>2 DEF max
<1>21. \A k \in 1 .. Len(q.ovls) : q.ovls[k].mgr = 0
  <2>1. \A k \in 1 .. Len(q.ovls) : k = n + 1 \/ k \in 1 .. n
    BY <1>3, <1>13
  <2> QED BY <1>8, <1>9, <1>14, <1>15, <2>1, Zenon
<1>22. q.z = IF q.fb_z < 0 THEN Len(q.ovls) - 1 ELSE Len(q.ovls)
  BY <1>2, <1>3, <1>8, <1>10, <1>13
<1>23. Front(q) \in 0 .. Len(q.ovls) - 1
  BY <1>2, <1>3, <1>8, <1>10, <1>13 DEF Front
<1>30. Front(q) = IF p.fb_z < 0 THEN n ELSE p.fb_z
  BY <1>2, <1>3, <1>8, <1>13 DEF Front
<1>24. ASSUME NEW k \in 2 .. Len(q.ovls)
       PROVE  /\ q.ovls[k].layer \in 1 .. i
              /\ q.ovls[k].zorder = IF k - 2 < Front(q) THEN k - 2 ELSE k - 1
  <2>1. CASE k = n + 1
    <3>1. q.ovls[k].layer = i /\ q.ovls[k].zorder = p.z
      BY <1>8, <1>15, <2>1
    <3>2. p.z = IF k - 2 < Front(q) THEN k - 2 ELSE k - 1
      BY <1>2, <1>3, <1>10, <1>30, <2>1
    <3> QED BY <3>1, <3>2
  <2>2. CASE k \in 2 .. n /\ k \in 1 .. n
    <3>1. q.ovls[k] = p.ovls[k]
      BY <1>8, <1>14, <2>2
    <3>2. q.ovls[k].layer \in 1 .. i - 1
      BY <1>11, <2>2, <3>1
    <3>3. q.ovls[k].zorder = IF p.fb_z < 0 \/ k - 2 < p.fb_z THEN k - 2 ELSE k - 1
      BY <1>10, <2>2, <3>1
    <3>4. q.ovls[k].zorder = IF k - 2 < Front(q) THEN k - 2 ELSE k - 1
      BY <1>2, <1>3, <1>30, <2>2, <3>3
    <3> QED BY <3>2, <3>4
  <2> QED BY <1>16, <2>1, <2>2
<1>25. ASSUME NEW j \in 2 .. Len(q.ovls), NEW k \in 2 .. Len(q.ovls), j < k
       PROVE  q.ovls[j].layer < q.ovls[k].layer
  <2>1. j \in 2 .. n /\ j \in 1 .. n
    BY <1>3, <1>13, <1>25
  <2>2. q.ovls[j] = p.ovls[j] /\ p.ovls[j].layer \in 1 .. i - 1
    BY <1>8, <1>11, <1>14, <2>1
  <2>3. CASE k = n + 1
    <3>1. q.ovls[k].layer = i
      BY <1>8, <1>15, <2>3, Zenon
    <3>2. q.ovls[j].layer \in 1 .. i - 1
      BY <2>2, Zenon
    <3> QED BY <3>1, <3>2
  <2>4. CASE k \in 2 .. n /\ k \in 1 .. n
    BY <1>8, <1>11, <1>14, <1>25, <2>1, <2>2, <2>4
  <2> QED BY <1>16, <2>3, <2>4
<1>26. ASSUME NEW k \in 2 .. Len(q.ovls), q.fb_z >= 0
       PROVE  k - 2 < q.fb_z <=> \E s \in C : q.ovls[k].layer < s
  <2>1. CASE k = n + 1
    <3>1. ~(k - 2 < q.fb_z)
      BY <1>2, <1>3, <1>8, <1>10, <1>26, <2>1
    <3>2. ASSUME NEW s \in C PROVE ~(q.ovls[k].layer < s)
      BY <1>8, <1>15, <1>19, <2>1
    <3> QED BY <3>1, <3>2
  <2>2. CASE k \in 2 .. n /\ k \in 1 .. n
    <3>1. q.ovls[k] = p.ovls[k]
      BY <1>8, <1>14, <2>2
    <3> QED BY <1>8, <1>12, <1>26, <2>2, <3>1, Zenon
  <2> QED BY <1>16, <2>1, <2>2
<1>27. ASSUME NEW k \in 2 .. Len(q.ovls), list[q.ovls[k].layer].blended, NEW s \in C
       PROVE  q.ovls[k].layer < s
  <2>1. CASE k = n + 1
    <3>1. ~(p.fb_z >= 0)
      BY <1>8, <1>15, <1>27, <2>1 DEF MidStack
    <3> QED BY <1>2, <1>12, <3>1
  <2>2. CASE k \in 2 .. n /\ k \in 1 .. n
    <3>1. q.ovls[k] = p.ovls[k]
      BY <1>8, <1>14, <2>2
    <3> QED BY <1>12, <1>27, <2>2, <3>1, Zenon
  <2> QED BY <1>16, <2>1, <2>2
<1>28. SgxInv(q, i, list, m)
  <2>1. q.fb_z < 0 <=> Composed(q, i) = {}
    BY <1>8, <1>12, <1>18
  <2> QED BY <1>8, <1>18, <2>1, <1>20, <1>21, <1>22, <1>23, <1>24, <1>25, <1>26, <1>27, Zenon
          DEF SgxInv
<1> QED BY <1>28 DEF q

\* A layer that is composed: the framebuffer goes to the front.
LEMMA SgxComposed ==
  ASSUME NEW list, NEW m \in Int, NEW i \in Nat, i > 0, NEW p, SgxInv(p, i - 1, list, m)
  PROVE  SgxInv(ViaSgx(p), i, list, m)
<1> DEFINE n == Len(p.ovls)
           r == Lower(p.ovls, p.fb_z, p.z)
           q == ViaSgx(p)
           C == Composed(p, i - 1)
<1>1. p \in APipe /\ p.scaled_gfx = FALSE
  BY DEF SgxInv
<1>2. p.ovls \in Seq(AnOvl) /\ p.z \in Int /\ p.fb_z \in Int
  BY <1>1 DEF APipe
<1>3. n \in Nat /\ n \in 1 .. max(1, m) /\ n >= 1
  BY <1>2 DEF SgxInv, max
<1>4. p.ovls[1].layer = FB /\ \A k \in 1 .. n : p.ovls[k].mgr = 0
  BY DEF SgxInv
<1>5. /\ p.z = IF p.fb_z < 0 THEN n - 1 ELSE n
      /\ p.fb_z < 0 \/ p.fb_z \in 0 .. n - 1
      /\ \A k \in 2 .. n : p.ovls[k].zorder = IF p.fb_z < 0 \/ k - 2 < p.fb_z THEN k - 2 ELSE k - 1
  BY <1>2, <1>3 DEF SgxInv, Front
<1>6. /\ \A k \in 2 .. n : p.ovls[k].layer \in 1 .. i - 1
      /\ \A j, k \in 2 .. n : j < k => p.ovls[j].layer < p.ovls[k].layer
  BY Zenon DEF SgxInv
<1>7. \A k \in 2 .. n : list[p.ovls[k].layer].blended => \A s \in C : p.ovls[k].layer < s
  BY DEF SgxInv
<1>8. /\ r \in Seq(AnOvl) /\ Len(r) = n
      /\ \A k \in 1 .. n : r[k].layer = p.ovls[k].layer /\ r[k].mgr = p.ovls[k].mgr
      /\ \A k \in 1 .. n : r[k].zorder = IF k \in p.fb_z + 2 .. p.z THEN p.ovls[k].zorder - 1
                                        ELSE p.ovls[k].zorder
  <2>1. ASSUME NEW k \in 1 .. n PROVE p.ovls[k] \in AnOvl
    BY <1>2
  <2>2. DOMAIN p.ovls = 1 .. n
    BY <1>2
  <2> HIDE DEF n
  <2> DEFINE o(k) == IF k \in p.fb_z + 2 .. p.z THEN [p.ovls[k] EXCEPT !.zorder = @ - 1]
                     ELSE p.ovls[k]
  <2>3. r = [k \in 1 .. n |-> o(k)]
    BY <2>2 DEF Lower
  <2>4. ASSUME NEW k \in 1 .. n
        PROVE  /\ o(k) \in AnOvl /\ o(k).layer = p.ovls[k].layer /\ o(k).mgr = p.ovls[k].mgr
               /\ o(k).zorder = IF k \in p.fb_z + 2 .. p.z THEN p.ovls[k].zorder - 1
                                ELSE p.ovls[k].zorder
    BY <2>1 DEF AnOvl
  <2> HIDE DEF r, o
  <2>5. \A k \in 1 .. n : r[k] = o(k)
    BY <2>3
  <2>6. r \in Seq(AnOvl) /\ Len(r) = n
    BY <1>3, <2>3, <2>4
  <2> QED BY <2>4, <2>5, <2>6, Zenon
<1> HIDE DEF r, n
<1>9. /\ q \in APipe /\ q.scaled_gfx = FALSE /\ q.fb_z = n - 1 /\ q.z = n
      /\ q.ovls = IF p.fb_z < 0 THEN p.ovls ELSE r
  <2>1. CASE p.fb_z < 0
    <3>1. Raised(q, p, p.z + 1, p.z)
      BY <2>1 DEF ViaSgx, Raised
    <3>2. p.z + 1 \in Int /\ p.z \in Int /\ p.z = n - 1 /\ p.z + 1 = n
      BY <1>2, <1>3, <1>5, <2>1
    <3> HIDE DEF q
    <3>3. /\ q \in APipe /\ q.ovls = p.ovls /\ q.z = p.z + 1 /\ q.fb_z = p.z
          /\ q.scaled_gfx = p.scaled_gfx
      BY <1>1, <3>1, <3>2, PipeRaised
    <3> QED BY <1>1, <2>1, <3>2, <3>3
  <2>2. CASE ~(p.fb_z < 0)
    <3>1. Lowered(q, p, r, max(p.fb_z, p.z - 1))
      BY <2>2 DEF ViaSgx, Lowered, r
    <3>2. p.z = n /\ max(p.fb_z, p.z - 1) = n - 1 /\ n - 1 \in Int
      BY <1>2, <1>3, <1>5, <2>2 DEF max
    <3> HIDE DEF q
    <3>3. Lowered(q, p, r, n - 1) /\ r \in Seq(AnOvl)
      BY <1>8, <3>1, <3>2
    <3>4. /\ q \in APipe /\ q.ovls = r /\ q.z = p.z /\ q.fb_z = n - 1
          /\ q.scaled_gfx = p.scaled_gfx
      BY <1>1, <3>2, <3>3, PipeLowered
    <3> QED BY <1>1, <2>2, <3>2, <3>4
  <2> QED BY <2>1, <2>2, Zenon
<1>10. q.ovls = IF p.fb_z < 0 THEN p.ovls ELSE r
  BY <1>9
<1> HIDE DEF q
<1>11. Len(q.ovls) = n
  BY <1>8, <1>10 DEF n
<1>12. \A k \in 1 .. n : q.ovls[k].layer = p.ovls[k].layer /\ q.ovls[k].mgr = 0
  BY <1>4, <1>8, <1>10
<1>13. \A k \in 2 .. n : k \in 1 .. n /\ k - 2 < n - 1 /\ k - 2 \in Nat
  BY <1>3
<1>14. \A k \in 2 .. n : q.ovls[k].zorder = k - 2
  <2> SUFFICES ASSUME NEW k \in 2 .. n PROVE q.ovls[k].zorder = k - 2
    OBVIOUS
  <2>1. CASE p.fb_z < 0
    BY <1>5, <1>10, <2>1
  <2>2. CASE ~(p.fb_z < 0)
    <3>1. r[k].zorder = IF k \in p.fb_z + 2 .. p.z THEN p.ovls[k].zorder - 1 ELSE p.ovls[k].zorder
      BY <1>8, <1>13
    <3>2. p.ovls[k].zorder = IF k - 2 < p.fb_z THEN k - 2 ELSE k - 1
      BY <1>5, <2>2
    <3>3. p.z = n /\ (k \in p.fb_z + 2 .. p.z <=> ~(k - 2 < p.fb_z))
      BY <1>2, <1>3, <1>5, <2>2
    <3> QED BY <1>10, <2>2, <3>1, <3>2, <3>3
  <2> QED BY <2>1, <2>2
<1>15. Layers(q) = Layers(p)
  BY <1>11, <1>12, <1>13, Zenon DEF Layers, n
<1>16. Composed(q, i) = C \cup {i}
  <2>1. i \notin Layers(p)
    BY <1>6 DEF Layers, n
  <2> QED BY <1>15, <2>1 DEF Composed
<1>17. Front(q) = n - 1
  BY <1>3, <1>9, <1>11 DEF Front
<1> HIDE DEF C
<1>18. ASSUME NEW k \in 2 .. Len(q.ovls)
       PROVE  /\ q.ovls[k].layer \in 1 .. i /\ q.ovls[k].layer < i
              /\ q.ovls[k].zorder = IF k - 2 < Front(q) THEN k - 2 ELSE k - 1
  <2>1. k \in 2 .. n /\ k \in 1 .. n /\ k - 2 < n - 1
    BY <1>11, <1>13
  <2>2. q.ovls[k].layer = p.ovls[k].layer /\ q.ovls[k].zorder = k - 2
    BY <1>12, <1>14, <2>1
  <2>3. p.ovls[k].layer \in 1 .. i - 1
    BY <1>6, <2>1
  <2> QED BY <1>17, <2>1, <2>2, <2>3
<1>19. ASSUME NEW j \in 2 .. Len(q.ovls), NEW k \in 2 .. Len(q.ovls), j < k
       PROVE  q.ovls[j].layer < q.ovls[k].layer
  BY <1>6, <1>11, <1>12, <1>13, <1>19, Zenon
<1>20. ASSUME NEW k \in 2 .. Len(q.ovls), q.fb_z >= 0
       PROVE  k - 2 < q.fb_z <=> \E s \in Composed(q, i) : q.ovls[k].layer < s
  <2>1. k - 2 < q.fb_z
    BY <1>9, <1>11, <1>13
  <2>2. i \in Composed(q, i) /\ q.ovls[k].layer < i
    BY <1>16, <1>18
  <2> QED BY <2>1, <2>2, Zenon
<1>21. ASSUME NEW k \in 2 .. Len(q.ovls), list[q.ovls[k].layer].blended, NEW s \in Composed(q, i)
       PROVE  q.ovls[k].layer < s
  <2>1. CASE s = i
    BY <1>18, <2>1
  <2>2. CASE s \in C
    BY <1>7, <1>11, <1>12, <1>13, <1>21, <2>2, Zenon
  <2> QED BY <1>16, <2>1, <2>2
<1>22. q.fb_z < 0 <=> Composed(q, i) = {}
  BY <1>3, <1>9, <1>16
<1>23. q.ovls[1].layer = FB /\ Len(q.ovls) \in 1 .. max(1, m)
  BY <1>3, <1>4, <1>11, <1>12
<1>24. q.z = IF q.fb_z < 0 THEN Len(q.ovls) - 1 ELSE Len(q.ovls)
  BY <1>3, <1>9, <1>11
<1>25. Front(q) \in 0 .. Len(q.ovls) - 1
  BY <1>3, <1>11, <1>17
<1>26. \A k \in 1 .. Len(q.ovls) : q.ovls[k].mgr = 0
  BY <1>11, <1>12
<1>27. SgxInv(q, i, list, m)
  BY <1>9, <1>18, <1>19, <1>20, <1>21, <1>22, <1>23, <1>24, <1>25, <1>26, Zenon DEF SgxInv
<1> QED BY <1>27 DEF q

\* The overlays w of the internal display, at most m of them unless the framebuffer
\* is the only one, are numbered from the bottom.
Fits(w, m) ==
  /\ w.ovls \in Seq(AnOvl) /\ w.z = Len(w.ovls) /\ Len(w.ovls) <= max(1, m)
  /\ \A k \in 1 .. Len(w.ovls) :
       w.ovls[k].mgr = 0 /\ w.ovls[k].zorder \in 0 .. Len(w.ovls) - 1
  /\ \A j, k \in 1 .. Len(w.ovls) : w.ovls[j].zorder = w.ovls[k].zorder => j = k

\* Overlay k and the framebuffer are in the order of the layers, those in S composed.
InPlace(o, k, S, list) ==
  /\ o[k].layer \in 1 .. Len(list)
  /\ (\E s \in S : o[k].layer < s) => o[k].zorder < o[1].zorder
  /\ S # {} /\ (\A s \in S : s < o[k].layer) => o[1].zorder < o[k].zorder
  /\ list[o[k].layer].blended => \A s \in S : o[k].layer < s

\* The overlays o of a frame that uses the SGX keep the order of the layers.
SgxStack(o, list) ==
  /\ Len(o) >= 1 /\ o[1].layer = FB
  /\ \A j, k \in 2 .. Len(o) : o[j].layer < o[k].layer => o[j].zorder < o[k].zorder
  /\ \A k \in 2 .. Len(o) :
       InPlace(o, k, (1 .. Len(list)) \ {o[j].layer : j \in 2 .. Len(o)}, list)

\* What follows the loop gives the framebuffer its place.
LEMMA SgxFinish ==
  ASSUME NEW list, Len(list) \in Nat, NEW m \in Int, NEW p, SgxInv(p, Len(list), list, m)
  PROVE  Fits(Finish(TRUE, p), m) /\ SgxStack(Finish(TRUE, p).ovls, list)
<1> DEFINE n == Len(p.ovls)
           e == Ovl(Front(p), primary_transform, 0, FB)
           w == Finish(TRUE, p)
           o == w.ovls
           C == Composed(p, Len(list))
<1>1. p \in APipe /\ p.scaled_gfx = FALSE
  BY DEF SgxInv
<1>2. p.ovls \in Seq(AnOvl) /\ p.z \in Int /\ p.fb_z \in Int
  BY <1>1 DEF APipe
<1>3. n \in Nat /\ n \in 1 .. max(1, m) /\ n >= 1 /\ n <= max(1, m)
  BY <1>2 DEF SgxInv, max
<1>4. /\ p.z = (IF p.fb_z < 0 THEN n - 1 ELSE n) /\ Front(p) \in 0 .. n - 1
      /\ Front(p) = IF p.fb_z < 0 THEN n - 1 ELSE p.fb_z
  BY DEF SgxInv, Front
<1>5. w = [ovls |-> <<e>> \o Tail(p.ovls), z |-> n]
  <2>1. (IF p.fb_z < 0 THEN p.z ELSE p.fb_z) = Front(p)
    BY <1>4
  <2>2. (IF p.fb_z < 0 THEN p.z + 1 ELSE p.z) = n
    BY <1>2, <1>3, <1>4
  <2>3. (IF p.scaled_gfx THEN [p.ovls EXCEPT ![1].ix = Len(p.ovls)] ELSE p.ovls) = p.ovls
    BY <1>1, Zenon
  <2> QED BY <2>1, <2>2, <2>3, Zenon DEF Finish
<1>6. e \in AnOvl /\ e.zorder = Front(p) /\ e.layer = FB /\ e.mgr = 0
  BY <1>3, <1>4, DisplayAssumption DEF Ovl, AnOvl, FB
<1> HIDE DEF e
<1>7. /\ <<e>> \o Tail(p.ovls) \in Seq(AnOvl) /\ Len(<<e>> \o Tail(p.ovls)) = n
      /\ (<<e>> \o Tail(p.ovls))[1] = e
      /\ \A k \in 2 .. n : (<<e>> \o Tail(p.ovls))[k] = p.ovls[k]
  <2> DEFINE t == Tail(p.ovls)
  <2>1. t \in Seq(AnOvl) /\ Len(t) = n - 1 /\ \A k \in 1 .. n - 1 : t[k] = p.ovls[k + 1]
    BY <1>2, <1>3
  <2> HIDE DEF t
  <2>2. /\ <<e>> \o t \in Seq(AnOvl) /\ Len(<<e>> \o t) = n /\ (<<e>> \o t)[1] = e
    BY <1>3, <1>6, <2>1
  <2>3. ASSUME NEW k \in 2 .. n PROVE (<<e>> \o t)[k] = p.ovls[k]
    <3>1. k - 1 \in 1 .. n - 1 /\ (k - 1) + 1 = k
      BY <1>3
    <3>2. (<<e>> \o t)[k] = t[k - 1]
      BY <1>3, <1>6, <2>1
    <3> QED BY <2>1, <3>1, <3>2
  <2> QED BY <2>2, <2>3 DEF t
<1>8. w.z = n /\ o \in Seq(AnOvl) /\ Len(o) = n /\ o[1] = e /\ \A k \in 2 .. n : o[k] = p.ovls[k]
  <2> DEFINE u == <<e>> \o Tail(p.ovls)
  <2> HIDE DEF w, u, n
  <2>1. w.z = n /\ w.ovls = u
    BY <1>5 DEF u
  <2>2. u \in Seq(AnOvl) /\ Len(u) = n /\ u[1] = e /\ \A k \in 2 .. n : u[k] = p.ovls[k]
    BY <1>7 DEF u, n
  <2> QED BY <2>1, <2>2
<1> HIDE DEF n, w, o
<1>9. /\ \A k \in 1 .. n : p.ovls[k].mgr = 0
      /\ \A k \in 2 .. n : /\ p.ovls[k].layer \in 1 .. Len(list)
                           /\ p.ovls[k].zorder = IF k - 2 < Front(p) THEN k - 2 ELSE k - 1
      /\ \A j, k \in 2 .. n : j < k => p.ovls[j].layer < p.ovls[k].layer
  BY DEF SgxInv, n
<1>10. /\ p.fb_z < 0 <=> C = {}
       /\ \A k \in 2 .. n : p.fb_z >= 0 => (k - 2 < p.fb_z <=> \E s \in C : p.ovls[k].layer < s)
       /\ \A k \in 2 .. n : list[p.ovls[k].layer].blended => \A s \in C : p.ovls[k].layer < s
  BY DEF SgxInv, n
<1>11. C = (1 .. Len(list)) \ {o[j].layer : j \in 2 .. n}
  BY <1>8 DEF Composed, Layers, n
<1> HIDE DEF C
<1>12. \A k \in 1 .. n : k = 1 \/ (k \in 2 .. n /\ k \in 1 .. n)
  BY <1>3
<1>13. o[1].zorder = Front(p) /\ o[1].mgr = 0 /\ o[1].layer = FB
  BY <1>6, <1>8
<1>14. \A k \in 2 .. n : /\ o[k].mgr = 0 /\ o[k].layer \in 1 .. Len(list)
                         /\ o[k].zorder = IF k - 2 < Front(p) THEN k - 2 ELSE k - 1
  BY <1>8, <1>9, <1>12
<1>15. \A k \in 1 .. n : o[k].mgr = 0 /\ o[k].zorder \in 0 .. n - 1
  BY <1>3, <1>4, <1>12, <1>13, <1>14
<1>16. ASSUME NEW j \in 1 .. n, NEW k \in 1 .. n, o[j].zorder = o[k].zorder PROVE j = k
  <2>1. CASE j = 1 /\ k \in 2 .. n
    BY <1>3, <1>4, <1>13, <1>14, <1>16, <2>1
  <2>2. CASE k = 1 /\ j \in 2 .. n
    BY <1>3, <1>4, <1>13, <1>14, <1>16, <2>2
  <2>3. CASE j \in 2 .. n /\ k \in 2 .. n
    BY <1>3, <1>4, <1>14, <1>16, <2>3
  <2> QED BY <1>12, <2>1, <2>2, <2>3
<1>17. Fits(w, m)
  BY <1>3, <1>8, <1>15, <1>16 DEF Fits, o
<1>18. ASSUME NEW j \in 2 .. n, NEW k \in 2 .. n, o[j].layer < o[k].layer
       PROVE  o[j].zorder < o[k].zorder
  <2>1. j < k
    <3>1. o[j].layer = p.ovls[j].layer /\ o[k].layer = p.ovls[k].layer
      BY <1>8
    <3>2. p.ovls[j].layer \in Int /\ p.ovls[k].layer \in Int
      BY <1>9
    <3>3. k < j => p.ovls[k].layer < p.ovls[j].layer
      BY <1>9
    <3> QED BY <1>18, <3>1, <3>2, <3>3
  <2> QED BY <1>3, <1>4, <1>14, <2>1
<1>19. ASSUME NEW k \in 2 .. n PROVE InPlace(o, k, C, list)
  <2>1. o[k].layer = p.ovls[k].layer /\ o[k].layer \in 1 .. Len(list)
    BY <1>8, <1>14
  <2>2. ASSUME NEW s \in C, o[k].layer < s PROVE o[k].zorder < o[1].zorder
    <3>1. p.fb_z >= 0 /\ k - 2 < p.fb_z
      BY <1>2, <1>10, <2>1, <2>2
    <3> QED BY <1>2, <1>4, <1>13, <1>14, <3>1
  <2>3. ASSUME C # {}, \A s \in C : s < o[k].layer PROVE o[1].zorder < o[k].zorder
    <3>1. p.fb_z >= 0
      BY <1>2, <1>10, <2>3
    <3>2. ~ \E s \in C : p.ovls[k].layer < s
      <4>1. \A s \in C : s \in Int
        BY <1>11
      <4> QED BY <2>1, <2>3, <4>1
    <3>3. ~(k - 2 < p.fb_z)
      BY <1>10, <3>1, <3>2, Zenon
    <3> QED BY <1>2, <1>4, <1>13, <1>14, <3>1, <3>3
  <2>4. list[o[k].layer].blended => \A s \in C : o[k].layer < s
    BY <1>10, <2>1
  <2> QED BY <2>1, <2>2, <2>3, <2>4, Zenon DEF InPlace
<1>20. SgxStack(o, list)
  BY <1>3, <1>8, <1>11, <1>13, <1>18, <1>19 DEF SgxStack
<1> QED BY <1>17, <1>20, Zenon DEF w, o

-----------------------------------------------------------------------------
(* A frame all of whose layers go to overlays. *)

\* The overlays are numbered in the order of the array, from the bottom.
DssInv(p, m) ==
  /\ p \in APipe /\ p.fb_z = -1 /\ p.z = Len(p.ovls) /\ Len(p.ovls) <= m
  /\ \A k \in 1 .. Len(p.ovls) : p.ovls[k].mgr = 0 /\ p.ovls[k].zorder = k - 1

\* The overlays r are those of o, except that the index of one may have changed.
SameOvls(r, o) ==
  /\ r \in Seq(AnOvl) /\ Len(r) = Len(o)
  /\ \A k \in 1 .. Len(o) : /\ r[k].zorder = o[k].zorder /\ r[k].mgr = o[k].mgr
                            /\ r[k].layer = o[k].layer

\* Giving the GFX pipe to another layer changes nothing else.
LEMMA SwapKeeps ==
  ASSUME NEW o \in Seq(AnOvl), NEW n \in Int, NEW b
  PROVE  SameOvls(IF b THEN [o EXCEPT ![1].ix = n] ELSE o, o)
<1>1. CASE ~b
  BY <1>1 DEF SameOvls
<1>2. CASE b
  <2> DEFINE r == [o EXCEPT ![1].ix = n]
  <2>1. DOMAIN o = 1 .. Len(o) /\ Len(o) \in Nat
    OBVIOUS
  <2>2. \A k \in 1 .. Len(o) : o[k] \in AnOvl
    OBVIOUS
  <2>3. DOMAIN r = 1 .. Len(o)
    BY <2>1
  <2>4. ASSUME NEW k \in 1 .. Len(o)
        PROVE  /\ r[k] \in AnOvl /\ r[k].zorder = o[k].zorder /\ r[k].mgr = o[k].mgr
               /\ r[k].layer = o[k].layer
    <3>1. r[k] = IF k = 1 THEN [o[1] EXCEPT !.ix = n] ELSE o[k]
      BY <2>1
    <3>2. o[k] \in AnOvl
      BY <2>2
    <3> HIDE DEF r
    <3> QED BY <3>1, <3>2 DEF AnOvl
  <2>5. r = [k \in 1 .. Len(o) |-> r[k]]
    BY <2>3, Zenon
  <2> HIDE DEF r
  <2>6. r \in Seq(AnOvl) /\ Len(r) = Len(o)
    BY <2>1, <2>4, <2>5
  <2>7. SameOvls(r, o)
    BY <2>4, <2>6 DEF SameOvls
  <2> QED BY <1>2, <2>7 DEF r
<1> QED BY <1>1, <1>2

\* A layer that goes to an overlay.
LEMMA DssOverlay ==
  ASSUME NEW m \in Int, NEW i \in Nat, NEW l, NEW p, DssInv(p, m), Len(p.ovls) < m
  PROVE  LET q == AddOverlay(p, l, i)
             n == Len(p.ovls)
         IN  /\ DssInv(q, m) /\ Len(q.ovls) = n + 1 /\ q.ovls[n + 1].layer = i
             /\ \A k \in 1 .. n : q.ovls[k].layer = p.ovls[k].layer
             /\ q.mem = p.mem + mem1d(l)
<1> DEFINE n == Len(p.ovls)
           plain == ~(l.scaled \/ is_NV12(l))
           swap == ~(n = 0 /\ primary_transform = 0) /\ p.scaled_gfx /\ plain
           gfx == IF n = 0 /\ primary_transform = 0 THEN ~plain ELSE p.scaled_gfx /\ ~swap
           o == IF swap THEN [p.ovls EXCEPT ![1].ix = n] ELSE p.ovls
           e == Ovl(p.z, IF swap THEN 0 ELSE n + primary_transform, 0, i)
           r == Append(o, e)
           u == p.mem + mem1d(l)
           q == AddOverlay(p, l, i)
<1>1. p \in APipe /\ p.fb_z = -1 /\ p.z = n
  BY DEF DssInv
<1>2. p.ovls \in Seq(AnOvl) /\ p.mem \in Int /\ p.scaled_gfx \in BOOLEAN
  BY <1>1 DEF APipe
<1>3. n \in Nat /\ n < m
  BY <1>2
<1>4. Added(q, p, r, n + 1, u, gfx)
  <2>1. q = [p EXCEPT !.ovls = r, !.z = p.z + 1, !.mem = u, !.scaled_gfx = gfx]
    BY DEF AddOverlay
  <2> HIDE DEF q, r, u, gfx, n
  <2> QED BY <1>1, <2>1 DEF Added
<1>5. SameOvls(o, p.ovls)
  <2>1. n \in Int
    BY <1>3
  <2> HIDE DEF n, swap
  <2> QED BY <1>2, <2>1, SwapKeeps, Zenon
<1>6. e \in AnOvl /\ e.zorder = n /\ e.mgr = 0 /\ e.layer = i
  <2> HIDE DEF swap, n
  <2> QED BY <1>1, <1>3, DisplayAssumption DEF Ovl, AnOvl
<1>7. gfx \in BOOLEAN
  BY <1>2, Zenon
<1>8. u \in Int
  BY <1>2 DEF mem1d
<1> HIDE DEF o, e, gfx, u
<1>9. o \in Seq(AnOvl) /\ Len(o) = n
  BY <1>5 DEF SameOvls
<1>10. r \in Seq(AnOvl) /\ Len(r) = n + 1 /\ r[n + 1] = e /\ \A k \in 1 .. n : r[k] = o[k]
  <2> HIDE DEF n
  <2> QED BY <1>6, <1>9, OneMore
<1> HIDE DEF r, q
<1>11. q \in APipe /\ q.ovls = r /\ q.z = n + 1 /\ q.fb_z = p.fb_z /\ q.mem = u
  <2>1. n + 1 \in Int /\ r \in Seq(AnOvl)
    BY <1>3, <1>10
  <2> HIDE DEF n
  <2> QED BY <1>1, <1>4, <1>7, <1>8, <2>1, PipeAdded
<1> HIDE DEF n
<1>12. \A k \in 1 .. n : /\ r[k].zorder = k - 1 /\ r[k].mgr = 0 /\ r[k].layer = p.ovls[k].layer
  <2>1. \A k \in 1 .. n : p.ovls[k].mgr = 0 /\ p.ovls[k].zorder = k - 1
    BY DEF DssInv, n
  <2> QED BY <1>5, <1>10, <2>1 DEF SameOvls, n
<1>13. \A k \in 1 .. n + 1 : r[k].mgr = 0 /\ r[k].zorder = k - 1
  <2>1. \A k \in 1 .. n + 1 : k \in 1 .. n \/ k = n + 1
    BY <1>3
  <2>2. r[n + 1].mgr = 0 /\ r[n + 1].zorder = (n + 1) - 1
    BY <1>3, <1>6, <1>10
  <2> QED BY <1>12, <2>1, <2>2
<1>14. DssInv(q, m)
  BY <1>1, <1>3, <1>10, <1>11, <1>13 DEF DssInv
<1> QED BY <1>6, <1>10, <1>11, <1>12, <1>14 DEF q, n, u

\* What hwc_prepare() takes from the numbers of gather_layer_statistics().
LEMMA CountsSay ==
  ASSUME NEW list \in Seq(Layer)
  PROVE  LET num == Counts(list)
             V == {i \in 1 .. Len(list) : list[i].valid}
         IN  /\ num.composited = Len(list) /\ num.possible = Cardinality(V)
             /\ num.BGR = Cardinality({i \in V : list[i].color = "BGR"})
             /\ num.RGB = Cardinality({i \in V : list[i].color = "RGB"})
             /\ num.NV12 = Cardinality({i \in V : is_NV12(list[i])})
             /\ num.mem = Cardinality({i \in V : ~is_NV12(list[i])})
             /\ num.dockable = Cardinality({i \in V : list[i].dockable})
             /\ num.protected = Cardinality({i \in V : list[i].protected})
<1> DEFINE V == {i \in 1 .. Len(list) : list[i].valid}
<1>1. DOMAIN list = 1 .. Len(list)
  OBVIOUS
<1>2. /\ {i \in DOMAIN list : list[i].valid /\ TRUE} = V
      /\ {i \in DOMAIN list : list[i].valid /\ list[i].color = "BGR"} = {i \in V : list[i].color = "BGR"}
      /\ {i \in DOMAIN list : list[i].valid /\ list[i].color = "RGB"} = {i \in V : list[i].color = "RGB"}
      /\ {i \in DOMAIN list : list[i].valid /\ is_NV12(list[i])} = {i \in V : is_NV12(list[i])}
      /\ {i \in DOMAIN list : list[i].valid /\ ~is_NV12(list[i])} = {i \in V : ~is_NV12(list[i])}
      /\ {i \in DOMAIN list : list[i].valid /\ list[i].dockable} = {i \in V : list[i].dockable}
      /\ {i \in DOMAIN list : list[i].valid /\ list[i].protected} = {i \in V : list[i].protected}
  BY <1>1
<1>3. /\ Counts(list).composited = Len(list)
      /\ Counts(list).possible = Cardinality({i \in DOMAIN list : list[i].valid /\ TRUE})
      /\ Counts(list).BGR = Cardinality({i \in DOMAIN list : list[i].valid /\ list[i].color = "BGR"})
      /\ Counts(list).RGB = Cardinality({i \in DOMAIN list : list[i].valid /\ list[i].color = "RGB"})
      /\ Counts(list).NV12 = Cardinality({i \in DOMAIN list : list[i].valid /\ is_NV12(list[i])})
      /\ Counts(list).mem = Cardinality({i \in DOMAIN list : list[i].valid /\ ~is_NV12(list[i])})
      /\ Counts(list).dockable = Cardinality({i \in DOMAIN list : list[i].valid /\ list[i].dockable})
      /\ Counts(list).protected = Cardinality({i \in DOMAIN list : list[i].valid /\ list[i].protected})
  BY Zenon DEF Counts
<1> QED BY <1>2, <1>3, Zenon

\* What hwc_prepare() relies on when it leaves the SGX out: the order of the colours
\* is looked at (debug.hwc.rgb_order is 1 unless it is set), and what is put on a
\* dock is a video. Without either a layer may be dropped, see the README.
Displayable ==
  /\ flags_rgb_order
  /\ \A list \in Lists : \A i \in DOMAIN list : list[i].dockable => is_NV12(list[i])

\* If can_dss_render_all() says so, every layer goes to an overlay.
LEMMA AllViaDss ==
  ASSUME Displayable, NEW list \in Lists, NEW d, NEW lim, lim.max_hw \in Int,
         can_dss_render_all(d, Counts(list), lim),
         NEW i \in 1 .. Len(list), NEW p, Len(p.ovls) = i - 1, p.fb_z = -1,
         p.mem = Cardinality({j \in 1 .. i - 1 : ~is_NV12(list[j])})
  PROVE  ViaDss(d, lim, FALSE, Counts(list).BGR # 0, list[i], p)
<1> DEFINE num == Counts(list)
           l == list[i]
           V == {j \in 1 .. Len(list) : list[j].valid}
<1>1. list \in Seq(Layer) /\ Len(list) \in Nat /\ DOMAIN list = 1 .. Len(list)
  BY ListsAssumption
<1>2. /\ num.composited = Len(list) /\ num.possible = Cardinality(V)
      /\ num.BGR = Cardinality({j \in V : list[j].color = "BGR"})
      /\ num.RGB = Cardinality({j \in V : list[j].color = "RGB"})
      /\ num.NV12 = Cardinality({j \in V : is_NV12(list[j])})
      /\ num.mem = Cardinality({j \in V : ~is_NV12(list[j])})
  BY <1>1, CountsSay, Zenon
<1> HIDE DEF num
<1>3. /\ d.force_sgx = 0 /\ num.possible <= lim.max_hw /\ num.possible = num.composited
      /\ num.mem <= tiler1d_slot_size
      /\ \/ ~(lim.current.enabled /\ lim.current.tform)
         \/ num.NV12 = num.possible
         \/ num.NV12 > 0 /\ lim.current.docking
      /\ num.BGR = 0 \/ (num.RGB = 0 /\ ~(d.ext_on_tv /\ lim.current.enabled)) \/ ~flags_rgb_order
  BY Zenon DEF can_dss_render_all, num
<1>4. IsFiniteSet(1 .. Len(list)) /\ Cardinality(1 .. Len(list)) = Len(list)
  <2>1. 1 \in Int /\ Len(list) \in Int
    BY <1>1
  <2>2. /\ IsFiniteSet(1 .. Len(list))
        /\ Cardinality(1 .. Len(list)) = IF 1 > Len(list) THEN 0 ELSE Len(list) - 1 + 1
    BY <2>1, FS_Interval, Zenon
  <2> QED BY <1>1, <2>2
<1>5. V = 1 .. Len(list)
  <2>1. V \in SUBSET (1 .. Len(list))
    OBVIOUS
  <2>2. Cardinality(1 .. Len(list)) = Cardinality(V)
    BY <1>2, <1>3, <1>4, Zenon
  <2> HIDE DEF V
  <2> QED BY <1>4, <2>1, <2>2, FS_Subset, Zenon
<1>6. i \in V /\ l.valid /\ IsFiniteSet(V)
  BY <1>4, <1>5, Zenon
<1>7. ASSUME NEW S, S \subseteq V, i \in S PROVE Cardinality(S) # 0
  <2>1. IsFiniteSet(S)
    BY <1>6, <1>7, FS_Subset, Zenon
  <2>2. S # {}
    BY <1>7
  <2> QED BY <2>1, <2>2, FS_EmptySet, Zenon
<1>8. num.BGR = 0 => l.color # "BGR"
  BY <1>2, <1>6, <1>7, Zenon
<1>9. num.RGB = 0 => l.color # "RGB"
  BY <1>2, <1>6, <1>7, Zenon
<1>10. num.NV12 = num.possible => is_NV12(l)
  <2> DEFINE S == {j \in V : is_NV12(list[j])}
  <2>1. S \in SUBSET V
    OBVIOUS
  <2> HIDE DEF S, V
  <2>2. num.NV12 = num.possible => Cardinality(V) = Cardinality(S)
    BY <1>2 DEF S
  <2>3. num.NV12 = num.possible => V = S
    BY <1>6, <2>1, <2>2, FS_Subset, Zenon
  <2> QED BY <1>6, <2>3, Zenon DEF S
<1>11. p.mem + mem1d(l) <= tiler1d_slot_size
  <2> DEFINE A == {j \in 1 .. i - 1 : ~is_NV12(list[j])}
             M == {j \in V : ~is_NV12(list[j])}
  <2>1. A \subseteq M /\ i \notin A /\ (~is_NV12(l) => i \in M)
    BY <1>1, <1>5
  <2>2. M \subseteq V
    OBVIOUS
  <2>3. p.mem = Cardinality(A) /\ Cardinality(M) <= tiler1d_slot_size
    BY <1>2, <1>3
  <2> HIDE DEF A, M, V
  <2>4. IsFiniteSet(M) /\ Cardinality(M) \in Nat
    BY <1>6, <2>2, FS_Subset, FS_CardinalityType, Zenon
  <2>5. IsFiniteSet(A) /\ Cardinality(A) \in Nat /\ Cardinality(A) <= Cardinality(M)
    BY <2>1, <2>4, FS_Subset, FS_CardinalityType
  <2>6. CASE is_NV12(l)
    BY <2>3, <2>4, <2>5, <2>6, DisplayAssumption DEF mem1d
  <2>7. CASE ~is_NV12(l)
    <3>1. A \cup {i} \subseteq M
      BY <2>1, <2>7
    <3>2. Cardinality(A \cup {i}) <= Cardinality(M)
      BY <2>4, <3>1, FS_Subset
    <3>3. Cardinality(A \cup {i}) = Cardinality(A) + 1
      BY <2>1, <2>5, FS_AddElement, Zenon
    <3> QED BY <2>3, <2>4, <2>5, <2>7, <3>2, <3>3, DisplayAssumption DEF mem1d
  <2> QED BY <2>6, <2>7
<1>12. l.dockable => is_NV12(l)
  BY <1>1 DEF Displayable
<1>13. Len(p.ovls) < lim.max_hw
  <2>1. i \in Int /\ i - 1 < Len(list)
    BY <1>1
  <2>2. Len(list) <= lim.max_hw
    BY <1>3, <1>2
  <2> QED BY <2>1, <2>2
<1>14. can_dss_render_layer(d, lim, FALSE, num.BGR # 0, l)
  <2> DEFINE cloning == lim.current.enabled /\ (~lim.current.docking \/ l.dockable)
  <2>1. cloning /\ lim.current.tform => is_NV12(l)
    BY <1>3, <1>10, <1>12
  <2>2. l.color # IF num.BGR # 0 THEN "RGB" ELSE "BGR"
    BY <1>3, <1>8, <1>9 DEF Displayable
  <2>3. ~(d.ext_on_tv /\ cloning /\ l.color = "BGR")
    BY <1>3, <1>8, Zenon DEF Displayable
  <2> HIDE DEF l
  <2> QED BY <1>6, <2>1, <2>2, <2>3 DEF can_dss_render_layer
<1>15. ~MidStack(l, p)
  BY DEF MidStack
<1> QED BY <1>3, <1>11, <1>13, <1>14, <1>15, Zenon DEF ViaDss, num

-----------------------------------------------------------------------------
(* What the loop over the layers comes to. *)

\* With the SGX in use the overlays fit, and the framebuffer is where it has to be.
LEMMA SgxLoop ==
  ASSUME NEW list, Len(list) \in Nat, NEW d, NEW lim, lim.max_hw \in Int, NEW swap_rb
  PROVE  LET w == Pipes(d, lim, TRUE, swap_rb, list)
         IN  Fits(w, lim.max_hw) /\ SgxStack(w.ovls, list)
<1> DEFINE n == Len(list)
           m == lim.max_hw
<1>1. PICK r : /\ LoopRun(r, n, d, lim, TRUE, swap_rb, list)
               /\ Pipes(d, lim, TRUE, swap_rb, list) = Finish(TRUE, r[n])
  <2> DEFINE g == TRUE
  <2> HIDE DEF g
  <2>1. Looped(d, lim, g, swap_rb, list)
    BY LoopRuns
  <2> QED BY <2>1, Zenon DEF Looped, g
<1> DEFINE T == {i \in 0 .. n : SgxInv(r[i], i, list, m)}
<1>2. 0 \in T
  <2>1. SgxInv(r[0], 0, list, m)
    BY <1>1, SgxStart, Zenon DEF LoopRun
  <2> QED BY <2>1
<1>3. ASSUME NEW i \in 1 .. n, i - 1 \in T PROVE i \in T
  <2>1. i \in Nat /\ i > 0 /\ i \in 0 .. n
    OBVIOUS
  <2>2. SgxInv(r[i - 1], i - 1, list, m)
    BY <1>3, Zenon
  <2>3. r[i] = Round(d, lim, TRUE, swap_rb, list[i], i, r[i - 1])
    BY <1>1, Zenon DEF LoopRun
  <2> DEFINE p == r[i - 1]
             B == ViaDss(d, lim, TRUE, swap_rb, list[i], p)
  <2>4. CASE B
    <3>1. Len(p.ovls) < m /\ ~MidStack(list[i], p)
      BY <2>4, Zenon DEF ViaDss
    <3>2. SgxInv(AddOverlay(p, list[i], i), i, list, m)
      <4> HIDE DEF m, B
      <4>1. m \in Int
        BY DEF m
      <4> QED BY <2>1, <2>2, <3>1, <4>1, SgxOverlay, Zenon
    <3>3. r[i] = AddOverlay(p, list[i], i)
      BY <2>3, <2>4, Zenon DEF Round
    <3> QED BY <2>1, <3>2, <3>3, Zenon
  <2>5. CASE ~B
    <3>1. r[i] = ViaSgx(p)
      BY <2>3, <2>5, Zenon DEF Round
    <3>2. SgxInv(ViaSgx(p), i, list, m)
      <4> HIDE DEF m, B
      <4>1. m \in Int
        BY DEF m
      <4> QED BY <2>1, <2>2, <4>1, SgxComposed, Zenon
    <3> QED BY <2>1, <3>1, <3>2, Zenon
  <2> QED BY <2>4, <2>5, Zenon
<1> HIDE DEF T
<1>4. n \in T
  BY <1>2, <1>3, Rounds, Zenon
<1>5. SgxInv(r[n], n, list, m)
  BY <1>4, Zenon DEF T
<1> QED BY <1>1, <1>5, SgxFinish, Zenon

\* What follows the loop when the SGX is not used.
LEMMA DssFinish ==
  ASSUME NEW m \in Int, NEW p, DssInv(p, m)
  PROVE  LET w == Finish(FALSE, p)
         IN  /\ Fits(w, m) /\ Len(w.ovls) = Len(p.ovls)
             /\ \A k \in 1 .. Len(p.ovls) :
                  w.ovls[k].layer = p.ovls[k].layer /\ w.ovls[k].zorder = k - 1
<1> DEFINE w == Finish(FALSE, p)
           o == p.ovls
<1>1. /\ p \in APipe /\ p.z = Len(o) /\ Len(o) <= m
      /\ \A k \in 1 .. Len(o) : o[k].mgr = 0 /\ o[k].zorder = k - 1
  BY Zenon DEF DssInv
<1>2. o \in Seq(AnOvl) /\ Len(o) \in Nat
  BY <1>1 DEF APipe
<1>3. /\ w.ovls = IF p.scaled_gfx THEN [o EXCEPT ![1].ix = Len(o)] ELSE o
      /\ w.z = Len(o)
  BY <1>1 DEF Finish
<1> HIDE DEF o, w
<1>4. SameOvls(w.ovls, o)
  <2>1. Len(o) \in Int
    BY <1>2
  <2> QED BY <1>2, <1>3, <2>1, SwapKeeps, Zenon
<1>5. /\ w.ovls \in Seq(AnOvl) /\ Len(w.ovls) = Len(o)
      /\ \A k \in 1 .. Len(o) : /\ w.ovls[k].zorder = k - 1 /\ w.ovls[k].mgr = 0
                                /\ w.ovls[k].layer = o[k].layer
  BY <1>1, <1>4, Zenon DEF SameOvls, o
<1>6. Len(o) <= max(1, m)
  BY <1>1, <1>2 DEF max, o
<1>7. Fits(w, m)
  BY <1>2, <1>3, <1>5, <1>6 DEF Fits
<1> QED BY <1>5, <1>7, Zenon DEF w, o

\* Without the SGX the overlays fit, too.
LEMMA DssLoop ==
  ASSUME NEW list, Len(list) \in Nat, NEW d, NEW lim, lim.max_hw \in Nat, NEW swap_rb
  PROVE  Fits(Pipes(d, lim, FALSE, swap_rb, list), lim.max_hw)
<1> DEFINE n == Len(list)
           m == lim.max_hw
<1>1. PICK r : /\ LoopRun(r, n, d, lim, FALSE, swap_rb, list)
               /\ Pipes(d, lim, FALSE, swap_rb, list) = Finish(FALSE, r[n])
  <2> DEFINE g == FALSE
  <2> HIDE DEF g
  <2>1. Looped(d, lim, g, swap_rb, list)
    BY LoopRuns
  <2> QED BY <2>1, Zenon DEF Looped, g
<1> DEFINE T == {i \in 0 .. n : DssInv(r[i], m)}
<1>2. 0 \in T
  <2>1. r[0] = Start(FALSE)
    BY <1>1, Zenon DEF LoopRun
  <2>2. r[0] \in APipe /\ r[0].z = 0 /\ r[0].fb_z = -1 /\ r[0].ovls = <<>>
    BY <2>1, PipeStart, Zenon
  <2>3. Len(r[0].ovls) = 0
    BY <2>2
  <2>4. DssInv(r[0], m)
    BY <2>2, <2>3 DEF DssInv
  <2> QED BY <2>4
<1>3. ASSUME NEW i \in 1 .. n, i - 1 \in T PROVE i \in T
  <2>1. i \in Nat /\ i \in 0 .. n /\ m \in Int
    OBVIOUS
  <2>2. DssInv(r[i - 1], m)
    BY <1>3, Zenon
  <2>3. r[i] = Round(d, lim, FALSE, swap_rb, list[i], i, r[i - 1])
    BY <1>1, Zenon DEF LoopRun
  <2> DEFINE p == r[i - 1]
             B == ViaDss(d, lim, FALSE, swap_rb, list[i], p)
  <2>4. CASE B
    <3>1. Len(p.ovls) < m
      BY <2>4, Zenon DEF ViaDss
    <3>2. r[i] = AddOverlay(p, list[i], i)
      BY <2>3, <2>4, Zenon DEF Round
    <3>3. DssInv(AddOverlay(p, list[i], i), m)
      <4> HIDE DEF m, p, B
      <4> QED BY <2>1, <2>2, <3>1, DssOverlay, Zenon DEF p
    <3> QED BY <2>1, <3>2, <3>3, Zenon
  <2>5. CASE ~B
    <3>1. r[i] = p
      BY <2>3, <2>5, Zenon DEF Round
    <3> QED BY <2>1, <2>2, <3>1, Zenon
  <2> QED BY <2>4, <2>5, Zenon
<1> HIDE DEF T
<1>4. n \in T
  BY <1>2, <1>3, Rounds, Zenon
<1>5. DssInv(r[n], m) /\ m \in Int
  BY <1>4 DEF T
<1> QED BY <1>1, <1>5, DssFinish, Zenon

\* After i layers every one of them has an overlay.
EachHasOne(p, i, list, m) ==
  /\ DssInv(p, m) /\ Len(p.ovls) = i
  /\ \A k \in 1 .. i : p.ovls[k].layer = k
  /\ p.mem = Cardinality({j \in 1 .. i : ~is_NV12(list[j])})

\* A round of the loop gives one more layer its overlay.
LEMMA OneMoreHasOne ==
  ASSUME NEW list, NEW m \in Int, NEW i \in Nat, i > 0, NEW p, EachHasOne(p, i - 1, list, m),
         Len(p.ovls) < m
  PROVE  EachHasOne(AddOverlay(p, list[i], i), i, list, m)
<1> DEFINE q == AddOverlay(p, list[i], i)
           A == {j \in 1 .. i - 1 : ~is_NV12(list[j])}
           B == {j \in 1 .. i : ~is_NV12(list[j])}
<1>1. /\ DssInv(p, m) /\ Len(p.ovls) = i - 1
      /\ \A k \in 1 .. i - 1 : p.ovls[k].layer = k
      /\ p.mem = Cardinality(A)
  BY Zenon DEF EachHasOne
<1>2. LET n == Len(p.ovls)
      IN  /\ DssInv(q, m) /\ Len(q.ovls) = n + 1 /\ q.ovls[n + 1].layer = i
          /\ \A k \in 1 .. n : q.ovls[k].layer = p.ovls[k].layer
          /\ q.mem = p.mem + mem1d(list[i])
  BY <1>1, DssOverlay
<1> HIDE DEF q
<1>3. DssInv(q, m) /\ Len(q.ovls) = i
  BY <1>1, <1>2
<1>4. ASSUME NEW k \in 1 .. i PROVE q.ovls[k].layer = k
  <2>1. CASE k = i
    BY <1>1, <1>2, <2>1
  <2>2. CASE k # i
    <3>1. k \in 1 .. i - 1
      BY <2>2
    <3> QED BY <1>1, <1>2, <3>1, Zenon
  <2> QED BY <2>1, <2>2
<1>5. q.mem = Cardinality(B)
  <2>1. IsFiniteSet(A) /\ Cardinality(A) \in Nat
    <3>1. i - 1 \in Int /\ 1 \in Int
      OBVIOUS
    <3>2. IsFiniteSet(1 .. i - 1)
      BY <3>1, FS_Interval, Zenon
    <3>3. A \subseteq 1 .. i - 1
      OBVIOUS
    <3> HIDE DEF A
    <3> QED BY <3>2, <3>3, FS_Subset, FS_CardinalityType, Zenon
  <2>2. CASE is_NV12(list[i])
    <3>1. A = B
      BY <2>2
    <3> HIDE DEF A, B
    <3> QED BY <1>1, <1>2, <2>1, <2>2, <3>1 DEF mem1d
  <2>3. CASE ~is_NV12(list[i])
    <3>1. B = A \cup {i} /\ i \notin A
      BY <2>3
    <3> HIDE DEF A, B
    <3>2. Cardinality(B) = Cardinality(A) + 1
      BY <2>1, <3>1, FS_AddElement, Zenon
    <3> QED BY <1>1, <1>2, <2>1, <2>3, <3>2 DEF mem1d
  <2> QED BY <2>2, <2>3
<1> QED BY <1>3, <1>4, <1>5, Zenon DEF EachHasOne, q

\* The overlays of the screen when the SGX is not used.
DssFrame(w, d, lim, list) == w = Pipes(d, lim, FALSE, Counts(list).BGR # 0, list)

\* One for each layer, in their order.
ShowsAll(o, list) ==
  Len(o) = Len(list) /\ \A k \in 1 .. Len(list) : o[k].layer = k /\ o[k].zorder = k - 1

\* If can_dss_render_all() says so, the overlays show the layers, in their order.
LEMMA DssShowsAll ==
  ASSUME Displayable, NEW list \in Lists, NEW d, NEW lim, lim.max_hw \in Nat,
         can_dss_render_all(d, Counts(list), lim),
         NEW w, DssFrame(w, d, lim, list)
  PROVE  ShowsAll(w.ovls, list)
<1> DEFINE n == Len(list)
           m == lim.max_hw
           b == Counts(list).BGR # 0
<1>1. n \in Nat /\ m \in Int
  BY ListsAssumption
<1> HIDE DEF b
<1>2. PICK r : /\ LoopRun(r, n, d, lim, FALSE, b, list)
               /\ Pipes(d, lim, FALSE, b, list) = Finish(FALSE, r[n])
  <2> DEFINE g == FALSE
  <2> HIDE DEF g
  <2>1. Looped(d, lim, g, b, list)
    BY <1>1, LoopRuns
  <2> QED BY <2>1, Zenon DEF Looped, g
<1> DEFINE T == {i \in 0 .. n : EachHasOne(r[i], i, list, m)}
<1>3. 0 \in T
  <2>1. r[0] = Start(FALSE)
    BY <1>2, Zenon DEF LoopRun
  <2>2. r[0] \in APipe /\ r[0].z = 0 /\ r[0].fb_z = -1 /\ r[0].mem = 0 /\ r[0].ovls = <<>>
    BY <2>1, PipeStart, Zenon
  <2>3. Len(r[0].ovls) = 0
    BY <2>2
  <2>4. DssInv(r[0], m)
    BY <2>2, <2>3 DEF DssInv
  <2>5. {j \in 1 .. 0 : ~is_NV12(list[j])} = {} /\ Cardinality({}) = 0
    BY FS_EmptySet
  <2>6. EachHasOne(r[0], 0, list, m)
    BY <2>2, <2>3, <2>4, <2>5 DEF EachHasOne
  <2> QED BY <1>1, <2>6
<1>4. ASSUME NEW i \in 1 .. n, i - 1 \in T PROVE i \in T
  <2> DEFINE p == r[i - 1]
  <2>1. i \in Nat /\ i > 0 /\ i \in 0 .. n
    BY <1>1
  <2>2. EachHasOne(p, i - 1, list, m)
    BY <1>4, Zenon
  <2>3. r[i] = Round(d, lim, FALSE, b, list[i], i, p)
    BY <1>2, Zenon DEF LoopRun
  <2>4. Len(p.ovls) = i - 1 /\ p.fb_z = -1 /\ p.mem = Cardinality({j \in 1 .. i - 1 : ~is_NV12(list[j])})
    BY <2>2, Zenon DEF EachHasOne, DssInv
  <2> HIDE DEF p
  <2>5. ViaDss(d, lim, FALSE, b, list[i], p)
    BY <1>1, <2>4, AllViaDss, Zenon DEF b
  <2>6. r[i] = AddOverlay(p, list[i], i)
    BY <2>3, <2>5, Zenon DEF Round
  <2>7. Len(p.ovls) < m
    BY <2>5, Zenon DEF ViaDss
  <2>8. EachHasOne(AddOverlay(p, list[i], i), i, list, m)
    BY <1>1, <2>1, <2>2, <2>7, OneMoreHasOne, Zenon
  <2> QED BY <2>1, <2>6, <2>8, Zenon
<1> HIDE DEF T
<1>5. n \in T
  BY <1>1, <1>3, <1>4, Rounds, Zenon
<1>6. EachHasOne(r[n], n, list, m)
  BY <1>5, Zenon DEF T
<1>7. DssInv(r[n], m) /\ Len(r[n].ovls) = n /\ \A k \in 1 .. n : r[n].ovls[k].layer = k
  BY <1>6, Zenon DEF EachHasOne
<1>8. LET v == Finish(FALSE, r[n])
      IN  /\ Len(v.ovls) = Len(r[n].ovls)
          /\ \A k \in 1 .. Len(r[n].ovls) :
               v.ovls[k].layer = r[n].ovls[k].layer /\ v.ovls[k].zorder = k - 1
  <2> DEFINE p == r[n]
  <2>1. DssInv(p, m)
    BY <1>7
  <2> HIDE DEF p, m
  <2>2. LET v == Finish(FALSE, p)
        IN  /\ Len(v.ovls) = Len(p.ovls)
            /\ \A k \in 1 .. Len(p.ovls) :
                 v.ovls[k].layer = p.ovls[k].layer /\ v.ovls[k].zorder = k - 1
    BY <1>1, <2>1, DssFinish, Zenon
  <2> QED BY <2>2, Zenon DEF p
<1>9. w = Finish(FALSE, r[n])
  BY <1>2, Zenon DEF b, DssFrame
<1> QED BY <1>7, <1>8, <1>9, Zenon DEF ShowsAll

-----------------------------------------------------------------------------
(* The overlays of the two displays. *)

\* What the device remembers of the last frame, and what the switches stand for.
AnExt == [enabled : BOOLEAN, docking : BOOLEAN, tform : BOOLEAN]
ADevice ==
  [force_sgx : Nat, last_ext_ovls : 0 .. 2, last_int_ovls : 0 .. MAX_HW_OVERLAYS, dock : AnExt,
   mirror : AnExt, docking : BOOLEAN, last_docking : BOOLEAN, ext_on_tv : BOOLEAN,
   force_dock : BOOLEAN, hdmi_state : BOOLEAN]
Device(d) ==
  d \in ADevice /\ d.mirror.docking = FALSE /\ (d.dock.enabled => d.dock.docking)

\* decide_supported_cloning() gives either display what the other one leaves of the
\* overlays, and half of them to a display that mirrors the screen.
Shares(d, num, lim) ==
  /\ lim.current \in AnExt
  /\ lim.max_hw \in 0 .. MAX_HW_OVERLAYS /\ max(1, lim.max_hw) + d.last_ext_ovls <= MAX_HW_OVERLAYS
  /\ lim.ext_ovls \in 0 .. 2 /\ lim.wanted \in 0 .. 2
  /\ lim.ext_ovls + d.last_int_ovls <= MAX_HW_OVERLAYS
  /\ lim.current.enabled /\ ~lim.current.docking =>
       lim.wanted = 2 /\ (num.protected = 0 /\ lim.ext_ovls > 0 => lim.max_hw <= lim.ext_ovls)
  /\ d.mirror.enabled /\ ~lim.current.docking =>
       /\ lim.current.enabled /\ lim.wanted = 2 /\ lim.max_hw <= 2
       /\ d.last_int_ovls <= 2 => lim.ext_ovls = 2

\* What Reserve() gives the two displays.
Reserved(d, r) ==
  /\ r.current \in AnExt
  /\ r.wanted \in 0 .. 2 /\ r.hw \in 2 .. MAX_HW_OVERLAYS
  /\ r.hw + d.last_ext_ovls <= MAX_HW_OVERLAYS
  /\ r.current.enabled /\ ~r.current.docking => r.wanted = 2 /\ r.hw = 2
  /\ d.mirror.enabled /\ ~r.current.docking => r.current.enabled

\* The shares before the overlays still in use are taken off.
LEMMA ReserveFits ==
  ASSUME NEW d, Device(d), NEW now, NEW num
  PROVE  Reserved(d, Reserve(d, now, num))
<1> DEFINE docked == IF num.dockable > 0 \/ now.force_dock THEN 1 ELSE 0
           e == d.last_ext_ovls
           r == Reserve(d, now, num)
<1>1. /\ e \in 0 .. 2 /\ d.mirror \in AnExt /\ d.dock \in AnExt /\ d.docking \in BOOLEAN
      /\ d.mirror.docking = FALSE /\ (d.dock.enabled => d.dock.docking)
  BY DEF Device, ADevice
<1>2. MAX_HW_OVERLAYS = 4 /\ MAX_HW_OVERLAYS \div 2 = 2
  BY DEF MAX_HW_OVERLAYS
<1>3. docked \in {0, 1}
  OBVIOUS
<1> HIDE DEF docked, r
<1>4. CASE Docking(d, num)
  <2> DEFINE c == IF d.mirror.enabled THEN [d.mirror EXCEPT !.docking = TRUE] ELSE d.dock
  <2>1. r = [wanted |-> docked, hw |-> MAX_HW_OVERLAYS - max(docked, e),
             nonscaling |-> NUM_NONSCALING_OVERLAYS, current |-> c]
    BY <1>4, Zenon DEF Reserve, docked, r
  <2>2. c \in AnExt /\ (c.enabled => c.docking) /\ (d.mirror.enabled => c.docking)
    <3>1. CASE d.mirror.enabled
      <4>1. c = [d.mirror EXCEPT !.docking = TRUE]
        BY <3>1
      <4>2. c \in AnExt /\ c.docking
        BY <1>1, <4>1, Zenon DEF AnExt
      <4> QED BY <4>2
    <3>2. CASE ~d.mirror.enabled
      BY <1>1, <1>4, <3>2 DEF Docking
    <3> QED BY <3>1, <3>2
  <2> HIDE DEF c
  <2>3. max(docked, e) \in 0 .. 2 /\ e <= max(docked, e)
    BY <1>1, <1>3 DEF max
  <2>4. r.wanted = docked /\ r.hw = MAX_HW_OVERLAYS - max(docked, e) /\ r.current = c
    BY <2>1, Zenon
  <2>5. r.wanted \in 0 .. 2 /\ r.hw \in 2 .. MAX_HW_OVERLAYS /\ r.hw + e <= MAX_HW_OVERLAYS
    <3> HIDE DEF e
    <3> QED BY <1>1, <1>2, <1>3, <2>3, <2>4
  <2> QED BY <2>2, <2>4, <2>5, Zenon DEF Reserved, r
<1>5. CASE ~Docking(d, num) /\ d.mirror.enabled
  <2>1. r =
          [wanted |-> MAX_HW_OVERLAYS - MAX_HW_OVERLAYS \div 2, hw |-> MAX_HW_OVERLAYS \div 2,
           nonscaling |-> NUM_NONSCALING_OVERLAYS \div 2, current |-> d.mirror]
    BY <1>5, Zenon DEF Reserve, r
  <2>2. /\ r.wanted = MAX_HW_OVERLAYS - MAX_HW_OVERLAYS \div 2 /\ r.hw = MAX_HW_OVERLAYS \div 2
        /\ r.current = d.mirror
    BY <2>1, Zenon
  <2>3. /\ r.wanted = 2 /\ r.hw = 2 /\ r.wanted \in 0 .. 2 /\ r.hw \in 2 .. MAX_HW_OVERLAYS
        /\ r.hw + e <= MAX_HW_OVERLAYS
    <3> HIDE DEF e
    <3> QED BY <1>1, <1>2, <2>2
  <2> QED BY <1>1, <1>5, <2>2, <2>3, Zenon DEF Reserved, r
<1>6. CASE ~Docking(d, num) /\ ~d.mirror.enabled
  <2>1. r =
          [wanted |-> 0, hw |-> MAX_HW_OVERLAYS - e, nonscaling |-> NUM_NONSCALING_OVERLAYS,
           current |-> Ext(FALSE, d.docking, FALSE)]
    BY <1>6, Zenon DEF Reserve, r
  <2>2. /\ r.wanted = 0 /\ r.hw = MAX_HW_OVERLAYS - e
        /\ r.current = Ext(FALSE, d.docking, FALSE)
    BY <2>1, Zenon
  <2>3. r.wanted \in 0 .. 2 /\ r.hw \in 2 .. MAX_HW_OVERLAYS /\ r.hw + e <= MAX_HW_OVERLAYS
    <3> HIDE DEF e
    <3> QED BY <1>1, <1>2, <2>2
  <2>4. r.current \in AnExt /\ r.current.enabled = FALSE
    BY <1>1, <2>2 DEF Ext, AnExt
  <2> QED BY <1>6, <2>3, <2>4, Zenon DEF Reserved, r
<1> QED BY <1>4, <1>5, <1>6

\* decide_supported_cloning() keeps to the shares.
LEMMA DecideFits ==
  ASSUME NEW d, Device(d), NEW now, NEW num
  PROVE  Shares(d, num, Decide(d, now, num))
<1> DEFINE r   == Reserve(d, now, num)
           ext == ExtOvls(d, r)
           hw  == IF num.protected = 0 /\ ext > 0 /\ r.current.enabled /\ ~r.current.docking
                  THEN ext ELSE r.hw
           m   == IF primary_transform = 1 THEN hw - NUM_NONSCALING_OVERLAYS ELSE hw
           lim == Decide(d, now, num)
<1>1. Reserved(d, r)
  BY ReserveFits, Zenon
<1>2. /\ lim.ext_ovls = ext /\ lim.wanted = r.wanted /\ lim.current = r.current
      /\ lim.max_hw = m
  BY Zenon DEF Decide
<1> HIDE DEF r, lim
<1>3. MAX_HW_OVERLAYS = 4 /\ NUM_NONSCALING_OVERLAYS = 1
  BY DEF MAX_HW_OVERLAYS, NUM_NONSCALING_OVERLAYS
<1>4. d.last_ext_ovls \in 0 .. 2 /\ d.last_int_ovls \in 0 .. 4 /\ d.mirror.enabled \in BOOLEAN
  BY <1>3 DEF Device, ADevice, AnExt
<1>5. /\ r.current \in AnExt /\ r.wanted \in 0 .. 2 /\ r.hw \in 2 .. 4 /\ r.hw + d.last_ext_ovls <= 4
      /\ r.current.enabled /\ ~r.current.docking => r.wanted = 2 /\ r.hw = 2
      /\ d.mirror.enabled /\ ~r.current.docking => r.current.enabled
  BY <1>1, <1>3, Zenon DEF Reserved
<1>6. /\ ext \in 0 .. 2 /\ ext + d.last_int_ovls <= 4
      /\ r.wanted = 2 /\ d.last_int_ovls <= 2 => ext = 2
  BY <1>3, <1>4, <1>5 DEF ExtOvls, min
<1> HIDE DEF ext
<1>7. /\ hw \in 1 .. 4 /\ hw + d.last_ext_ovls <= 4
      /\ r.current.enabled /\ ~r.current.docking =>
           hw <= 2 /\ (num.protected = 0 /\ ext > 0 => hw = ext)
  BY <1>4, <1>5, <1>6
<1> HIDE DEF hw
<1>8. m \in 0 .. 4 /\ m <= hw /\ max(1, m) + d.last_ext_ovls <= 4
  BY <1>3, <1>4, <1>7, DisplayAssumption DEF max
<1> HIDE DEF m
<1>9. /\ r.current.enabled /\ ~r.current.docking =>
           r.wanted = 2 /\ (num.protected = 0 /\ ext > 0 => m <= ext)
      /\ d.mirror.enabled /\ ~r.current.docking =>
           /\ r.current.enabled /\ r.wanted = 2 /\ m <= 2
           /\ d.last_int_ovls <= 2 => ext = 2
  BY <1>4, <1>5, <1>6, <1>7, <1>8
<1>10. Shares(d, num, lim)
  BY <1>2, <1>3, <1>5, <1>6, <1>8, <1>9 DEF Shares
<1> QED BY <1>10 DEF lim

\* c is w with at most e clones behind it, all on the external display.
Extends(c, w, e) ==
  /\ c.ovls \in Seq(AnOvl) /\ c.z = Len(c.ovls)
  /\ Len(c.ovls) \in Len(w.ovls) .. MAX_HW_OVERLAYS /\ Len(c.ovls) - Len(w.ovls) <= e
  /\ \A k \in 1 .. Len(w.ovls) : c.ovls[k] = w.ovls[k]
  /\ \A k \in 1 .. Len(c.ovls) : c.ovls[k].mgr = IF k <= Len(w.ovls) THEN 0 ELSE 1
  /\ \A j, k \in 1 .. Len(c.ovls) : c.ovls[j].zorder = c.ovls[k].zorder => j = k

\* Clones that are above the layers of the screen, and of distinct order.
Clones(s, w, e) ==
  /\ s \in Seq(AnOvl) /\ Len(s) <= e /\ Len(w.ovls) + Len(s) <= MAX_HW_OVERLAYS
  /\ \A k \in 1 .. Len(s) : s[k].mgr = 1 /\ s[k].zorder >= Len(w.ovls)
  /\ \A j, k \in 1 .. Len(s) : s[j].zorder = s[k].zorder => j = k

Joined(c, w, s) == c.ovls = w.ovls \o s /\ c.z = w.z + Len(s)

\* They go behind the layers of the screen.
LEMMA AddClones ==
  ASSUME NEW m \in Int, NEW w, Fits(w, m), NEW e \in Int, NEW s, Clones(s, w, e),
         NEW c, Joined(c, w, s)
  PROVE  Extends(c, w, e) /\ Len(c.ovls) = Len(w.ovls) + Len(s)
<1> DEFINE o == w.ovls
           n == Len(o)
           t == Len(s)
           q == c.ovls
<1>1. /\ o \in Seq(AnOvl) /\ w.z = n
      /\ \A k \in 1 .. n : o[k].mgr = 0 /\ o[k].zorder \in 0 .. n - 1
      /\ \A j, k \in 1 .. n : o[j].zorder = o[k].zorder => j = k
  BY Zenon DEF Fits
<1>2. /\ s \in Seq(AnOvl) /\ t <= e /\ n + t <= MAX_HW_OVERLAYS
      /\ \A k \in 1 .. t : s[k].mgr = 1 /\ s[k].zorder >= n
      /\ \A j, k \in 1 .. t : s[j].zorder = s[k].zorder => j = k
  BY Zenon DEF Clones
<1>3. q = o \o s /\ c.z = w.z + t
  BY Zenon DEF Joined
<1>4. n \in Nat /\ t \in Nat
  BY <1>1, <1>2
<1>5. /\ q \in Seq(AnOvl) /\ Len(q) = n + t
      /\ \A k \in 1 .. n : q[k] = o[k]
      /\ \A k \in n + 1 .. n + t : q[k] = s[k - n]
  <2> HIDE DEF o, q
  <2> QED BY <1>1, <1>2, <1>3
<1>6. ASSUME NEW k \in 1 .. t PROVE s[k].zorder \in Int
  <2>1. s \in Seq(AnOvl)
    BY <1>2
  <2>2. s[k] \in AnOvl
    BY <2>1
  <2> QED BY <2>2 DEF AnOvl
<1> HIDE DEF o, n, t, q
<1>7. ASSUME NEW k \in 1 .. n + t PROVE k \in 1 .. n \/ (k \in n + 1 .. n + t /\ k - n \in 1 .. t)
  BY <1>4
<1>8. \A k \in 1 .. n + t : q[k].mgr = IF k <= n THEN 0 ELSE 1
  <2> TAKE k \in 1 .. n + t
  <2>1. CASE k \in 1 .. n
    <3>1. q[k].mgr = 0
      BY <1>1, <1>5, <2>1, Zenon
    <3> QED BY <1>4, <2>1, <3>1
  <2>2. CASE k \in n + 1 .. n + t /\ k - n \in 1 .. t
    <3>1. q[k] = s[k - n] /\ s[k - n].mgr = 1
      BY <1>5, <1>2, <2>2, Zenon
    <3> QED BY <1>4, <2>2, <3>1
  <2> QED BY <1>7, <2>1, <2>2, Zenon
<1>9. ASSUME NEW j \in 1 .. n + t, NEW k \in 1 .. n + t, q[j].zorder = q[k].zorder PROVE j = k
  <2>1. \A i \in 1 .. n : q[i].zorder \in 0 .. n - 1
    BY <1>1, <1>5
  <2>2. ASSUME NEW i \in n + 1 .. n + t, i - n \in 1 .. t
        PROVE  q[i].zorder = s[i - n].zorder /\ s[i - n].zorder >= n /\ s[i - n].zorder \in Int
    <3>1. q[i] = s[i - n]
      BY <1>5, Zenon
    <3>2. s[i - n].zorder >= n
      BY <1>2, <2>2, Zenon
    <3> QED BY <1>6, <2>2, <3>1, <3>2, Zenon
  <2>3. CASE j \in 1 .. n /\ k \in 1 .. n
    <3>1. o[j].zorder = o[k].zorder
      BY <1>5, <1>9, <2>3, Zenon
    <3> QED BY <1>1, <2>3, <3>1, Zenon
  <2>4. CASE j \in 1 .. n /\ k \in n + 1 .. n + t /\ k - n \in 1 .. t
    <3>1. q[j].zorder \in 0 .. n - 1
      BY <2>1, <2>4, Zenon
    <3>2. q[k].zorder >= n
      BY <2>2, <2>4
    <3> QED BY <1>4, <1>9, <3>1, <3>2
  <2>5. CASE k \in 1 .. n /\ j \in n + 1 .. n + t /\ j - n \in 1 .. t
    <3>1. q[k].zorder \in 0 .. n - 1
      BY <2>1, <2>5, Zenon
    <3>2. q[j].zorder >= n
      BY <2>2, <2>5
    <3> QED BY <1>4, <1>9, <3>1, <3>2
  <2>6. CASE j \in n + 1 .. n + t /\ j - n \in 1 .. t /\ k \in n + 1 .. n + t /\ k - n \in 1 .. t
    <3>1. s[j - n].zorder = s[k - n].zorder
      BY <1>5, <1>9, <2>6, Zenon
    <3>2. j - n = k - n
      BY <1>2, <2>6, <3>1, Zenon
    <3> QED BY <1>4, <3>2
  <2> QED BY <1>7, <2>3, <2>4, <2>5, <2>6, Zenon
<1>10. Len(q) - n <= e /\ Len(q) \in n .. MAX_HW_OVERLAYS /\ c.z = Len(q)
  <2>1. n + t <= 4 /\ t <= e /\ w.z = n /\ c.z = w.z + t
    BY <1>1, <1>2, <1>3 DEF n, MAX_HW_OVERLAYS
  <2> QED BY <1>4, <1>5, <2>1 DEF MAX_HW_OVERLAYS
<1>11. /\ \A k \in 1 .. Len(q) : q[k].mgr = IF k <= n THEN 0 ELSE 1
      /\ \A j, k \in 1 .. Len(q) : q[j].zorder = q[k].zorder => j = k
  BY <1>5, <1>8, <1>9, Zenon
<1> QED BY <1>5, <1>10, <1>11, Zenon DEF Extends, o, n, q, t

\* The clones of "mirror layers" fit the share of the external display, and there
\* are none unless it is enabled, its mode set.
CloneFitsIn(c, w, lim) ==
  /\ Extends(c, w, lim.ext_ovls)
  /\ Len(c.ovls) > Len(w.ovls) => lim.current.enabled /\ c.mode # "disabled"

\* No clone at all.
LEMMA NoClone ==
  ASSUME NEW m \in Int, NEW w, Fits(w, m), max(1, m) <= MAX_HW_OVERLAYS,
         NEW lim, lim.ext_ovls \in Nat,
         NEW c, c.ovls = w.ovls, c.z = w.z
  PROVE  CloneFitsIn(c, w, lim)
<1> DEFINE s == <<>>
           e == lim.ext_ovls
<1>1. w.ovls \in Seq(AnOvl) /\ Len(w.ovls) <= max(1, m) /\ w.z = Len(w.ovls)
  BY Zenon DEF Fits
<1>2. /\ s \in Seq(AnOvl) /\ Len(s) = 0 /\ Len(s) <= e /\ e \in Int
      /\ \A k \in 1 .. Len(s) : s[k].mgr = 1 /\ s[k].zorder >= Len(w.ovls)
      /\ \A j, k \in 1 .. Len(s) : s[j].zorder = s[k].zorder => j = k
  OBVIOUS
<1>3. Len(w.ovls) + Len(s) <= MAX_HW_OVERLAYS
  BY <1>1, <1>2 DEF MAX_HW_OVERLAYS, max
<1>4. Joined(c, w, s)
  BY <1>1, <1>2 DEF Joined
<1> HIDE DEF s, e
<1>5. Clones(s, w, e)
  BY <1>2, <1>3, Zenon DEF Clones
<1>6. Extends(c, w, e)
  BY <1>2, <1>4, <1>5, AddClones, Zenon
<1>7. ~(Len(c.ovls) > Len(w.ovls))
  BY <1>1
<1> QED BY <1>6, <1>7, Zenon DEF CloneFitsIn, e

\* The layer on a dock.
LEMMA DockClone ==
  ASSUME NEW m \in Int, NEW w, Fits(w, m), Len(w.ovls) < MAX_HW_OVERLAYS,
         NEW lim, lim.ext_ovls \in Nat, lim.ext_ovls > 0, lim.current.enabled,
         NEW x \in AnOvl, x.mgr = 1, x.zorder = Len(w.ovls),
         NEW c, c.ovls = Append(w.ovls, x), c.z = w.z + 1, c.mode # "disabled"
  PROVE  CloneFitsIn(c, w, lim)
<1> DEFINE s == <<x>>
           e == lim.ext_ovls
<1>1. w.ovls \in Seq(AnOvl) /\ w.z = Len(w.ovls) /\ Len(w.ovls) \in Nat
  BY DEF Fits
<1>2. /\ s \in Seq(AnOvl) /\ Len(s) = 1 /\ Len(s) <= e /\ e \in Int
      /\ \A k \in 1 .. Len(s) : s[k].mgr = 1 /\ s[k].zorder >= Len(w.ovls)
      /\ \A j, k \in 1 .. Len(s) : s[j].zorder = s[k].zorder => j = k
  <2>1. s \in Seq(AnOvl) /\ Len(s) = 1 /\ s[1] = x
    OBVIOUS
  <2>2. e \in Int /\ 1 <= e
    OBVIOUS
  <2> HIDE DEF s, e
  <2> QED BY <1>1, <2>1, <2>2
<1>3. Len(w.ovls) + Len(s) <= MAX_HW_OVERLAYS
  BY <1>1, <1>2 DEF MAX_HW_OVERLAYS
<1>4. Joined(c, w, s)
  <2>1. Append(w.ovls, x) = w.ovls \o s
    BY <1>1
  <2> QED BY <1>2, <2>1 DEF Joined
<1> HIDE DEF s, e
<1>5. Clones(s, w, e)
  BY <1>2, <1>3, Zenon DEF Clones
<1>6. Extends(c, w, e)
  BY <1>2, <1>4, <1>5, AddClones, Zenon
<1> QED BY <1>6, Zenon DEF CloneFitsIn, e

\* The clones of the first t overlays.
CloneRow(w, t) == [n \in 1 .. t |-> clone_layer(w.ovls[n], n - 1, Len(w.ovls))]
Mirrored(c, w, t) == c.ovls = w.ovls \o CloneRow(w, t) /\ c.z = w.z + t

\* The mirrored screen.
LEMMA MirrorClones ==
  ASSUME NEW m \in Int, NEW w, Fits(w, m), max(1, m) <= MAX_HW_OVERLAYS,
         NEW lim, lim.ext_ovls \in Nat, lim.current.enabled,
         NEW t, t = min(MAX_HW_OVERLAYS - Len(w.ovls), Len(w.ovls)), t <= lim.ext_ovls,
         NEW c, c.mode # "disabled", Mirrored(c, w, t)
  PROVE  CloneFitsIn(c, w, lim) /\ Len(c.ovls) = Len(w.ovls) + t
<1> DEFINE o == w.ovls
           n == Len(o)
           s == CloneRow(w, t)
           e == lim.ext_ovls
<1>1. /\ o \in Seq(AnOvl) /\ w.z = n /\ n <= max(1, m)
      /\ \A k \in 1 .. n : o[k].mgr = 0 /\ o[k].zorder \in 0 .. n - 1
      /\ \A j, k \in 1 .. n : o[j].zorder = o[k].zorder => j = k
  BY Zenon DEF Fits
<1>2. n \in Nat /\ n <= 4 /\ t \in Nat /\ t <= n /\ n + t <= 4
  <2>1. n \in Nat
    BY <1>1
  <2>2. n <= max(1, m) /\ max(1, m) <= 4 /\ t = min(4 - n, n)
    BY <1>1 DEF MAX_HW_OVERLAYS
  <2> HIDE DEF n
  <2> QED BY <2>1, <2>2 DEF min, max
<1>3. ASSUME NEW k \in 1 .. t
      PROVE  /\ s[k] \in AnOvl /\ s[k].mgr = 1 /\ s[k].zorder = o[k].zorder + n
             /\ o[k].zorder \in 0 .. n - 1
  <2>1. k \in 1 .. n /\ k \in Int
    BY <1>2
  <2> DEFINE x == o[k]
             y == s[k]
  <2>2. x \in AnOvl /\ x.zorder \in 0 .. n - 1
    BY <1>1, <2>1
  <2>3. x.layer \in Nat
    BY <2>2 DEF AnOvl
  <2>4. y = Ovl(x.zorder + n, 4 - 1 - (k - 1), 1, x.layer)
    BY DEF CloneRow, clone_layer, MAX_HW_OVERLAYS
  <2> HIDE DEF x, o, s, n, y
  <2>5. x.zorder + n \in Int /\ 4 - 1 - (k - 1) \in Int
    BY <1>2, <2>1, <2>2
  <2>6. y \in AnOvl /\ y.mgr = 1 /\ y.zorder = x.zorder + n
    BY <2>3, <2>4, <2>5 DEF AnOvl, Ovl
  <2> QED BY <2>2, <2>6 DEF x, y
<1>4. s \in Seq(AnOvl) /\ Len(s) = t
  <2>1. \A k \in 1 .. t : s[k] \in AnOvl
    BY <1>3, Zenon
  <2>2. s = [k \in 1 .. t |-> s[k]]
    BY DEF CloneRow
  <2> HIDE DEF o, n, s
  <2> QED BY <1>2, <2>1, <2>2
<1>5. c.ovls = o \o s /\ c.z = w.z + t
  BY DEF Mirrored
<1> HIDE DEF s, o, e, n
<1>6. \A k \in 1 .. Len(s) : s[k].mgr = 1 /\ s[k].zorder >= n
  BY <1>2, <1>3, <1>4
<1>7. ASSUME NEW j \in 1 .. Len(s), NEW k \in 1 .. Len(s), s[j].zorder = s[k].zorder PROVE j = k
  <2>1. j \in 1 .. t /\ k \in 1 .. t /\ j \in 1 .. n /\ k \in 1 .. n
    BY <1>2, <1>4
  <2>2. o[j].zorder + n = o[k].zorder + n /\ o[j].zorder \in Int /\ o[k].zorder \in Int
    BY <1>3, <1>7, <2>1
  <2>3. o[j].zorder = o[k].zorder
    <3> DEFINE a == o[j].zorder
               b == o[k].zorder
    <3>1. a + n = b + n /\ a \in Int /\ b \in Int /\ n \in Int
      BY <1>2, <2>2
    <3> HIDE DEF a, b
    <3> QED BY <3>1 DEF a, b
  <2> QED BY <1>1, <2>1, <2>3, Zenon
<1>8. e \in Int /\ Len(s) <= e /\ n + Len(s) <= MAX_HW_OVERLAYS /\ c.z = w.z + Len(s)
  BY <1>2, <1>4, <1>5 DEF e, MAX_HW_OVERLAYS
<1>9. Clones(s, w, e)
  BY <1>4, <1>6, <1>7, <1>8, Zenon DEF Clones, o, n
<1>10. Joined(c, w, s)
  BY <1>5, <1>8, Zenon DEF Joined, o
<1>11. Extends(c, w, e) /\ Len(c.ovls) = Len(w.ovls) + Len(s)
  <2>1. e \in Int
    BY <1>8
  <2> QED BY <2>1, <1>9, <1>10, AddClones
<1>12. CloneFitsIn(c, w, lim)
  BY <1>11, Zenon DEF CloneFitsIn, e
<1> QED BY <1>4, <1>11, <1>12, Zenon

\* The condition "mirror layers" begins with.
Mirrors(num, lim) ==
  /\ lim.current.enabled
  /\ \/ num.protected = 0 /\ lim.ext_ovls > 0
     \/ lim.wanted > 0 /\ lim.ext_ovls >= lim.wanted

\* The clone of o on a dock, o being the dock image or an overlay of the frame.
DockedClone(o, image, w) ==
  [clone_layer(o, 0, Len(w.ovls)) EXCEPT !.zorder = IF image THEN @ ELSE w.z]

\* The three things "mirror layers" may do.
LEMMA CloneCases ==
  ASSUME NEW d, NEW num, NEW lim, NEW w, NEW list, NEW c \in Clone(d, num, lim, w, list)
  PROVE  \/ /\ c.ovls = w.ovls /\ c.z = w.z
            /\ Mirrors(num, lim) /\ ~lim.current.docking => d.last_docking
         \/ /\ Mirrors(num, lim) /\ lim.current.docking /\ MAX_HW_OVERLAYS - Len(w.ovls) # 0
            /\ c.z = w.z + 1 /\ c.mode # "disabled"
            /\ \/ c.ovls = Append(w.ovls, DockedClone(Ovl(0, 0, 0, FB), TRUE, w))
               \/ \E k \in 1 .. Len(w.ovls) :
                    c.ovls = Append(w.ovls, DockedClone(w.ovls[k], FALSE, w))
         \/ /\ Mirrors(num, lim) /\ ~lim.current.docking /\ c.mode # "disabled"
            /\ Mirrored(c, w, min(MAX_HW_OVERLAYS - Len(w.ovls), Len(w.ovls)))
<1> DEFINE ovls == w.ovls
           post2 == Len(ovls)
           docks == {k \in 1 .. post2 : ovls[k].layer # FB /\ list[ovls[k].layer].dockable}
           room == MAX_HW_OVERLAYS - post2
           t == min(room, post2)
           mirrored == [ovls |-> ovls \o CloneRow(w, t), z |-> w.z + t]
           docked(o, image) ==
             IF room = 0 THEN w
             ELSE [ovls |-> Append(ovls, DockedClone(o, image, w)), z |-> w.z + 1]
           Out(p, mode) == [ovls |-> p.ovls, z |-> p.z, mode |-> mode]
           image == docks = {} /\ d.force_dock
           shown == IF image THEN {Ovl(0, 0, 0, FB)} ELSE {ovls[k] : k \in docks}
<1>1. Clone(d, num, lim, w, list) =
        IF ~Mirrors(num, lim) THEN {Out(w, "kept")}
        ELSE IF lim.current.docking
        THEN IF shown = {} THEN {Out(w, "kept")}
             ELSE {Out(docked(o, image), "kept") : o \in shown}
                  \cup {Out(docked(o, image), "set") : o \in shown}
                  \cup {Out(w, "disabled")}
        ELSE IF d.last_docking THEN {Out(mirrored, "set"), Out(w, "kept")}
        ELSE {Out(mirrored, "kept")}
  BY Zenon DEF Clone, Mirrors, CloneRow, DockedClone
<1> DEFINE Plain == c.ovls = w.ovls /\ c.z = w.z
           OnDock(o, b) == c.ovls = Append(w.ovls, DockedClone(o, b, w))
           Dock == /\ Mirrors(num, lim) /\ lim.current.docking /\ MAX_HW_OVERLAYS - Len(w.ovls) # 0
                   /\ c.z = w.z + 1 /\ c.mode # "disabled"
                   /\ \/ OnDock(Ovl(0, 0, 0, FB), TRUE)
                      \/ \E k \in 1 .. Len(w.ovls) : OnDock(w.ovls[k], FALSE)
           All == /\ Mirrors(num, lim) /\ ~lim.current.docking /\ c.mode # "disabled"
                  /\ Mirrored(c, w, t)
           Excused == Mirrors(num, lim) /\ ~lim.current.docking => d.last_docking
<1> SUFFICES (Plain /\ Excused) \/ Dock \/ All
  BY Zenon
<1>2. ASSUME NEW m, c = Out(w, m) PROVE Plain
  BY <1>2
<1>3. ASSUME Mirrors(num, lim), ~lim.current.docking, NEW m \in {"set", "kept"}, c = Out(mirrored, m)
      PROVE  All
  <2>1. c.ovls = w.ovls \o CloneRow(w, t) /\ c.z = w.z + t /\ c.mode = m
    BY <1>3, Zenon
  <2> HIDE DEF t
  <2> QED BY <1>3, <2>1 DEF Mirrored
<1>4. ASSUME Mirrors(num, lim), lim.current.docking, NEW o \in shown, NEW m \in {"kept", "set"},
             c = Out(docked(o, image), m)
      PROVE  Plain \/ Dock
  <2>1. CASE room = 0
    <3>1. docked(o, image) = w
      BY <2>1, Zenon
    <3> QED BY <1>2, <1>4, <3>1, Zenon
  <2>2. CASE room # 0
    <3>1. docked(o, image) = [ovls |-> Append(ovls, DockedClone(o, image, w)), z |-> w.z + 1]
      BY <2>2, Zenon
    <3> DEFINE a == Append(ovls, DockedClone(o, image, w))
               z == w.z + 1
    <3>2. c = [ovls |-> a, z |-> z, mode |-> m]
      <4>1. docked(o, image) = [ovls |-> a, z |-> z]
        BY <3>1, Zenon
      <4> HIDE DEF docked, a, z, image
      <4>2. docked(o, image).ovls = a /\ docked(o, image).z = z
        BY <4>1
      <4> QED BY <1>4, <4>2, Zenon
    <3>3. c.ovls = a /\ c.z = z /\ c.mode = m
      <4> HIDE DEF a, z
      <4> QED BY <3>2, Zenon
    <3>4. CASE image
      <4>1. o = Ovl(0, 0, 0, FB) /\ OnDock(o, TRUE)
        BY <3>3, <3>4, Zenon
      <4> HIDE DEF OnDock
      <4> QED BY <1>4, <2>2, <3>3, <4>1, Zenon
    <3>5. CASE ~image
      <4>1. PICK k \in docks : o = ovls[k]
        BY <3>5, Zenon
      <4>2. k \in 1 .. Len(w.ovls) /\ OnDock(w.ovls[k], FALSE)
        BY <3>3, <3>5, <4>1, Zenon
      <4> HIDE DEF OnDock
      <4> QED BY <1>4, <2>2, <3>3, <4>2, Zenon
    <3> QED BY <3>4, <3>5, Zenon
  <2> QED BY <2>1, <2>2, Zenon
<1> HIDE DEF Plain, Dock, All, Out, docked, mirrored, shown, image, docks
<1>5. CASE ~Mirrors(num, lim)
  <2>1. c = Out(w, "kept")
    BY <1>1, <1>5
  <2> QED BY <1>2, <1>5, <2>1, Zenon
<1>6. CASE Mirrors(num, lim) /\ lim.current.docking
  <2>1. \/ c = Out(w, "kept") \/ c = Out(w, "disabled")
        \/ \E o \in shown, m \in {"kept", "set"} : c = Out(docked(o, image), m)
    BY <1>1, <1>6
  <2> QED BY <1>2, <1>4, <1>6, <2>1, Zenon
<1>7. CASE Mirrors(num, lim) /\ ~lim.current.docking
  <2>1. \/ c = Out(mirrored, "set") \/ c = Out(mirrored, "kept")
        \/ d.last_docking /\ c = Out(w, "kept")
    BY <1>1, <1>7
  <2> QED BY <1>2, <1>3, <1>7, <2>1, Zenon
<1> QED BY <1>5, <1>6, <1>7, Zenon

\* "mirror layers" keeps to the share of the external display.
LEMMA CloneFits ==
  ASSUME NEW d, Device(d), NEW now, NEW num, NEW lim, Shares(d, num, lim),
         NEW w, Fits(w, lim.max_hw), NEW list, NEW c \in Clone(now, num, lim, w, list)
  PROVE  CloneFitsIn(c, w, lim)
<1> DEFINE m == lim.max_hw
           e == lim.ext_ovls
           n == Len(w.ovls)
           t == min(MAX_HW_OVERLAYS - n, n)
<1>1. /\ m \in 0 .. 4 /\ max(1, m) + d.last_ext_ovls <= 4 /\ e \in 0 .. 2 /\ lim.wanted \in 0 .. 2
      /\ lim.current.enabled /\ ~lim.current.docking =>
           lim.wanted = 2 /\ (num.protected = 0 /\ e > 0 => m <= e)
  BY DEF Shares, MAX_HW_OVERLAYS
<1>2. d.last_ext_ovls \in 0 .. 2
  BY DEF Device, ADevice
<1>3. w.ovls \in Seq(AnOvl) /\ w.z = n /\ n <= max(1, m)
  BY Zenon DEF Fits
<1>4. n \in Nat
  BY <1>3
<1> HIDE DEF m, e, n
<1>5. max(1, m) <= MAX_HW_OVERLAYS /\ n <= 4 /\ m \in Int /\ e \in Nat
  BY <1>1, <1>2, <1>3, <1>4 DEF max, MAX_HW_OVERLAYS
<1>6. CASE c.ovls = w.ovls /\ c.z = w.z
  BY <1>5, <1>6, NoClone, Zenon DEF m, e
<1>7. ASSUME Mirrors(num, lim), lim.current.docking, MAX_HW_OVERLAYS - n # 0,
             c.z = w.z + 1, c.mode # "disabled",
             NEW l \in Nat, c.ovls = Append(w.ovls, Ovl(n, 3, 1, l))
      PROVE  CloneFitsIn(c, w, lim)
  <2> DEFINE x == Ovl(n, 3, 1, l)
  <2>1. n < MAX_HW_OVERLAYS
    BY <1>4, <1>5, <1>7 DEF MAX_HW_OVERLAYS
  <2>2. e > 0 /\ lim.current.enabled
    BY <1>1, <1>7 DEF Mirrors, e
  <2>3. x \in AnOvl /\ x.mgr = 1 /\ x.zorder = n
    BY <1>4, <1>7 DEF AnOvl, Ovl
  <2> HIDE DEF x
  <2>4. c.ovls = Append(w.ovls, x)
    BY <1>7, Zenon DEF x
  <2> QED BY <1>5, <1>7, <2>1, <2>2, <2>3, <2>4, DockClone, Zenon DEF m, e, n
<1>8. ASSUME Mirrors(num, lim), ~lim.current.docking, c.mode # "disabled", Mirrored(c, w, t)
      PROVE  CloneFitsIn(c, w, lim)
  <2>1. lim.current.enabled
    BY <1>8, Zenon DEF Mirrors
  <2>2. t <= n /\ t <= 4 - n /\ t \in Int /\ t <= 2
    BY <1>4, <1>5 DEF min, MAX_HW_OVERLAYS
  <2>3. t <= e
    <3>1. CASE num.protected = 0 /\ e > 0
      <4>1. m <= e
        BY <1>1, <1>8, <2>1, <3>1
      <4>2. max(1, m) <= e
        BY <1>1, <3>1, <4>1 DEF max
      <4>3. t <= n /\ n <= max(1, m) /\ max(1, m) \in Int
        BY <1>3, <1>5, <2>2 DEF max
      <4> HIDE DEF t
      <4> QED BY <1>4, <1>5, <2>2, <4>2, <4>3
    <3>2. CASE e >= lim.wanted
      <4>1. e >= 2
        BY <1>1, <1>8, <2>1, <3>2
      <4> QED BY <1>5, <2>2, <4>1
    <3> QED BY <1>8, <3>1, <3>2 DEF Mirrors, e
  <2>4. t = min(MAX_HW_OVERLAYS - Len(w.ovls), Len(w.ovls))
    BY DEF n
  <2> HIDE DEF t
  <2> QED BY <1>5, <1>8, <2>1, <2>3, <2>4, MirrorClones DEF m, e, n
<1>9. DockedClone(Ovl(0, 0, 0, FB), TRUE, w) = Ovl(n, 3, 1, FB) /\ FB \in Nat
  <2>1. 0 + n = n /\ 4 - 1 - 0 = 3
    BY <1>4
  <2> QED BY <2>1 DEF DockedClone, clone_layer, Ovl, MAX_HW_OVERLAYS, n, FB
<1>10. ASSUME NEW k \in 1 .. n
       PROVE  /\ DockedClone(w.ovls[k], FALSE, w) = Ovl(n, 3, 1, w.ovls[k].layer)
              /\ w.ovls[k].layer \in Nat
  <2>1. w.ovls[k] \in AnOvl
    BY <1>3 DEF n
  <2>2. w.ovls[k].layer \in Nat
    BY <2>1 DEF AnOvl
  <2>3. DockedClone(w.ovls[k], FALSE, w) = Ovl(n, 3, 1, w.ovls[k].layer)
    BY <1>3 DEF DockedClone, clone_layer, Ovl, MAX_HW_OVERLAYS
  <2> QED BY <2>2, <2>3, Zenon
<1>11. CASE Mirrors(num, lim) /\ lim.current.docking /\ MAX_HW_OVERLAYS - n # 0
            /\ c.z = w.z + 1 /\ c.mode # "disabled"
            /\ c.ovls = Append(w.ovls, DockedClone(Ovl(0, 0, 0, FB), TRUE, w))
  <2>1. c.ovls = Append(w.ovls, Ovl(n, 3, 1, FB)) /\ FB \in Nat
    BY <1>9, <1>11, Zenon
  <2> QED BY <1>7, <1>11, <2>1, Zenon
<1>12. CASE Mirrors(num, lim) /\ lim.current.docking /\ MAX_HW_OVERLAYS - n # 0
            /\ c.z = w.z + 1 /\ c.mode # "disabled"
            /\ \E k \in 1 .. n : c.ovls = Append(w.ovls, DockedClone(w.ovls[k], FALSE, w))
  <2>1. PICK k \in 1 .. n : c.ovls = Append(w.ovls, DockedClone(w.ovls[k], FALSE, w))
    BY <1>12, Zenon
  <2>2. c.ovls = Append(w.ovls, Ovl(n, 3, 1, w.ovls[k].layer)) /\ w.ovls[k].layer \in Nat
    BY <1>10, <2>1, Zenon
  <2> QED BY <1>7, <1>12, <2>2, Zenon
<1>13. \/ c.ovls = w.ovls /\ c.z = w.z
       \/ /\ Mirrors(num, lim) /\ lim.current.docking /\ MAX_HW_OVERLAYS - n # 0
          /\ c.z = w.z + 1 /\ c.mode # "disabled"
          /\ \/ c.ovls = Append(w.ovls, DockedClone(Ovl(0, 0, 0, FB), TRUE, w))
             \/ \E k \in 1 .. n : c.ovls = Append(w.ovls, DockedClone(w.ovls[k], FALSE, w))
       \/ /\ Mirrors(num, lim) /\ ~lim.current.docking /\ c.mode # "disabled"
          /\ Mirrored(c, w, t)
  BY CloneCases, Zenon DEF n
<1> QED BY <1>6, <1>8, <1>11, <1>12, <1>13, Zenon

-----------------------------------------------------------------------------
(* hwc_prepare(). *)

\* The overlays of the screen, whether the SGX is used or not.
LEMMA PipesFit ==
  ASSUME NEW list \in Lists, NEW d, NEW lim, lim.max_hw \in Nat, NEW use_sgx \in BOOLEAN, NEW swap_rb
  PROVE  Fits(Pipes(d, lim, use_sgx, swap_rb, list), lim.max_hw)
<1>1. Len(list) \in Nat /\ lim.max_hw \in Int
  BY ListsAssumption
<1>2. CASE use_sgx
  <2>1. use_sgx = TRUE
    BY <1>2
  <2>2. Fits(Pipes(d, lim, TRUE, swap_rb, list), lim.max_hw)
    BY <1>1, SgxLoop, Zenon
  <2> QED BY <2>1, <2>2, Zenon
<1>3. CASE ~use_sgx
  <2>1. use_sgx = FALSE
    BY <1>3
  <2>2. Fits(Pipes(d, lim, FALSE, swap_rb, list), lim.max_hw)
    BY <1>1, DssLoop, Zenon
  <2> QED BY <2>1, <2>2, Zenon
<1> QED BY <1>2, <1>3, Zenon

\* A frame that hwc_prepare() may leave to hwc_set() when the device is d.
Frame(f, d) ==
  /\ f.ovls \in Seq(AnOvl) /\ f.z = Len(f.ovls) /\ Len(f.ovls) <= MAX_HW_OVERLAYS
  /\ f.post2 \in 0 .. Len(f.ovls)
  /\ \A k \in 1 .. Len(f.ovls) : f.ovls[k].mgr = IF k <= f.post2 THEN 0 ELSE 1
  /\ \A j, k \in 1 .. Len(f.ovls) : f.ovls[j].zorder = f.ovls[k].zorder => j = k
  /\ f.post2 + d.last_ext_ovls <= MAX_HW_OVERLAYS
  /\ Len(f.ovls) - f.post2 + d.last_int_ovls <= MAX_HW_OVERLAYS
  /\ f.ext_ovls \in 0 .. 2 /\ Len(f.ovls) - f.post2 <= f.ext_ovls

\* What hwc_prepare() has worked out when it comes to its end: the numbers of
\* layers num, the limits lim, the overlays w of the screen and the composition c.
Worked(list, h3, num, lim, dss, w, c) ==
  /\ num = Counts(list) /\ Shares(hwc, num, lim)
  /\ dss = can_dss_render_all(hwc, num, lim)
  /\ w = Pipes(hwc, lim, ~dss, IF dss THEN num.BGR # 0 ELSE fb_bgr, list)
  /\ c \in Clone(h3, num, lim, w, list)

\* Its end.
Current(lim, c) == IF c.mode = "disabled" THEN [lim.current EXCEPT !.enabled = FALSE] ELSE lim.current
Ended(list, h3, num, lim, dss, w, c) ==
  LET current == Current(lim, c)
      mgrs    == IF current.enabled \/ hwc.last_ext_ovls > 0 THEN 2 ELSE 1
  IN  /\ comp' = [num_mgrs |-> mgrs, ovls |-> c.ovls, z |-> c.z, post2 |-> Len(w.ovls),
                  use_sgx |-> ~dss, list |-> list, mirror |-> hwc.mirror.enabled /\ ~current.docking,
                  protected |-> num.protected, wanted |-> lim.wanted,
                  ext_ovls |-> IF mgrs = 2 THEN Len(c.ovls) - Len(w.ovls) ELSE lim.ext_ovls]
      /\ hwc' = [h3 EXCEPT !.docking = current.docking, !.last_docking = current.docking,
                           !.ext_on_tv = @ \/ c.mode = "set"]

\* hwc_prepare() is made of these two.
LEMMA PrepareWorks ==
  ASSUME Device(hwc), NEW list, NEW h2, NEW h3, Prepare(list, h2, h3)
  PROVE  \E num, lim, dss, w, c :
           Worked(list, h3, num, lim, dss, w, c) /\ Ended(list, h3, num, lim, dss, w, c)
<1> DEFINE num     == Counts(list)
           lim     == Decide(hwc, h2, num)
           dss     == can_dss_render_all(hwc, num, lim)
           swap_rb == IF dss THEN num.BGR # 0 ELSE fb_bgr
           w       == Pipes(hwc, lim, ~dss, swap_rb, list)
<1>1. PICK c \in Clone(h3, num, lim, w, list) : Ended(list, h3, num, lim, dss, w, c)
  BY Zenon DEF Prepare, Ended, Current
<1>2. Shares(hwc, num, lim)
  <2> HIDE DEF num
  <2> QED BY DecideFits, Zenon
<1>3. Worked(list, h3, num, lim, dss, w, c)
  BY <1>1, <1>2, Zenon DEF Worked
<1> HIDE DEF num, lim, dss, swap_rb, w
<1> QED BY <1>1, <1>3, Zenon

\* h is d but for a switch that has been noted since.
SameButSwitch(h, d) ==
  /\ h.last_ext_ovls = d.last_ext_ovls /\ h.last_int_ovls = d.last_int_ovls
  /\ h.last_docking = d.last_docking

\* What hwc_prepare() leaves fits, whatever became of the switches meanwhile.
LEMMA PrepareFits ==
  ASSUME Device(hwc), NEW list \in Lists, NEW h2, NEW h3, Device(h3), SameButSwitch(h3, hwc),
         Prepare(list, h2, h3)
  PROVE  /\ Device(hwc') /\ Frame(comp', hwc')
         /\ hwc'.last_ext_ovls = hwc.last_ext_ovls /\ hwc'.last_int_ovls = hwc.last_int_ovls
<1>1. PICK num, lim, dss, w, c :
        Worked(list, h3, num, lim, dss, w, c) /\ Ended(list, h3, num, lim, dss, w, c)
  BY PrepareWorks, Zenon
<1> DEFINE cur == Current(lim, c)
           mgrs == IF cur.enabled \/ hwc.last_ext_ovls > 0 THEN 2 ELSE 1
           n == Len(w.ovls)
           e == IF mgrs = 2 THEN Len(c.ovls) - n ELSE lim.ext_ovls
<1>2. /\ num = Counts(list) /\ Shares(hwc, num, lim) /\ dss = can_dss_render_all(hwc, num, lim)
      /\ w = Pipes(hwc, lim, ~dss, IF dss THEN num.BGR # 0 ELSE fb_bgr, list)
      /\ c \in Clone(h3, num, lim, w, list)
  BY <1>1, Zenon DEF Worked
<1>3. /\ lim.current \in AnExt /\ lim.max_hw \in 0 .. 4 /\ max(1, lim.max_hw) + hwc.last_ext_ovls <= 4
      /\ lim.ext_ovls \in 0 .. 2 /\ lim.ext_ovls + hwc.last_int_ovls <= 4
  BY <1>2 DEF Shares, MAX_HW_OVERLAYS
<1>4. hwc.last_ext_ovls \in 0 .. 2 /\ hwc.last_int_ovls \in 0 .. 4
  BY DEF Device, ADevice, MAX_HW_OVERLAYS
<1>5. cur \in AnExt /\ cur.docking = lim.current.docking
      /\ (cur.enabled = (lim.current.enabled /\ c.mode # "disabled"))
  BY <1>3, Zenon DEF AnExt, Current
<1>6. Device(hwc') /\ hwc'.last_ext_ovls = hwc.last_ext_ovls /\ hwc'.last_int_ovls = hwc.last_int_ovls
  <2> DEFINE b == cur.docking
             tv == h3.ext_on_tv \/ c.mode = "set"
  <2>1. b \in BOOLEAN /\ tv \in BOOLEAN
    BY <1>5 DEF AnExt
  <2>2. hwc' = [h3 EXCEPT !.docking = b, !.last_docking = b, !.ext_on_tv = tv]
    BY <1>1, Zenon DEF Ended
  <2> HIDE DEF b, tv
  <2>3. h3 \in ADevice /\ h3.mirror.docking = FALSE /\ (h3.dock.enabled => h3.dock.docking)
    BY Zenon DEF Device
  <2>4. /\ hwc' \in ADevice /\ hwc'.mirror = h3.mirror /\ hwc'.dock = h3.dock
        /\ hwc'.last_ext_ovls = h3.last_ext_ovls /\ hwc'.last_int_ovls = h3.last_int_ovls
    BY <2>1, <2>2, <2>3, Zenon DEF ADevice
  <2> QED BY <2>3, <2>4, Zenon DEF Device, SameButSwitch
<1>7. Fits(w, lim.max_hw)
  <2>1. lim.max_hw \in Nat
    BY <1>3
  <2> DEFINE g == ~dss
             s == IF dss THEN num.BGR # 0 ELSE fb_bgr
  <2> HIDE DEF g, s
  <2>2. w = Pipes(hwc, lim, g, s, list) /\ g \in BOOLEAN
    BY <1>2, Zenon DEF g, s
  <2>3. Fits(Pipes(hwc, lim, g, s, list), lim.max_hw)
    BY <2>1, <2>2, PipesFit
  <2> QED BY <2>2, <2>3, Zenon
<1>8. CloneFitsIn(c, w, lim)
  BY <1>2, <1>7, CloneFits, Zenon
<1>9. /\ Extends(c, w, lim.ext_ovls)
      /\ Len(c.ovls) > n => lim.current.enabled /\ c.mode # "disabled"
  BY <1>8, Zenon DEF CloneFitsIn
<1>10. /\ c.ovls \in Seq(AnOvl) /\ c.z = Len(c.ovls)
       /\ Len(c.ovls) \in n .. 4 /\ Len(c.ovls) - n <= lim.ext_ovls
       /\ \A k \in 1 .. Len(c.ovls) : c.ovls[k].mgr = IF k <= n THEN 0 ELSE 1
       /\ \A j, k \in 1 .. Len(c.ovls) : c.ovls[j].zorder = c.ovls[k].zorder => j = k
  BY <1>9, Zenon DEF Extends, MAX_HW_OVERLAYS
<1>11. n \in Nat /\ n <= max(1, lim.max_hw) /\ Len(c.ovls) \in Nat
  <2>1. w.ovls \in Seq(AnOvl) /\ n <= max(1, lim.max_hw)
    BY <1>7, Zenon DEF Fits
  <2> QED BY <1>10, <2>1
<1>12. /\ comp'.ovls = c.ovls /\ comp'.z = c.z /\ comp'.post2 = n /\ comp'.ext_ovls = e
  BY <1>1 DEF Ended
<1> HIDE DEF n, cur
<1>13. n + hwc.last_ext_ovls <= 4
  BY <1>3, <1>4, <1>11 DEF max
<1>14. Len(c.ovls) - n + hwc.last_int_ovls <= 4
  BY <1>3, <1>4, <1>10, <1>11
<1>15. e \in 0 .. 2 /\ Len(c.ovls) - n <= e
  <2>1. CASE mgrs = 2
    BY <1>3, <1>10, <1>11, <2>1
  <2>2. CASE mgrs # 2
    <3>1. ~cur.enabled /\ e = lim.ext_ovls
      BY <2>2
    <3>2. ~(Len(c.ovls) > n)
      BY <1>5, <1>9, <3>1, Zenon
    <3> QED BY <1>3, <1>10, <1>11, <3>1, <3>2
  <2> QED BY <2>1, <2>2
<1>16. n \in 0 .. Len(c.ovls) /\ Len(c.ovls) <= MAX_HW_OVERLAYS
  BY <1>10, <1>11 DEF MAX_HW_OVERLAYS
<1> HIDE DEF e
<1>17. Frame(comp', hwc')
  BY <1>6, <1>10, <1>12, <1>13, <1>14, <1>15, <1>16, Zenon DEF Frame, MAX_HW_OVERLAYS
<1> QED BY <1>6, <1>17

-----------------------------------------------------------------------------
(* Every frame fits. *)

\* The overlays a frame gives to one display, and those it then has on the screen.
LEMMA OnEitherDisplay ==
  ASSUME NEW f, NEW d, Frame(f, d), NEW m \in {0, 1},
         NEW n, n = IF m = 0 THEN f.post2 ELSE Len(f.ovls) - f.post2
  PROVE  /\ Cardinality({k \in DOMAIN f.ovls : f.ovls[k].mgr = m}) = n
         /\ LET S == {p \in Posted(f) : p[2] = m} IN IsFiniteSet(S) /\ Cardinality(S) <= n
<1> DEFINE o == f.ovls
           h == f.post2
           K == {k \in DOMAIN o : o[k].mgr = m}
           S == {p \in Posted(f) : p[2] = m}
<1>1. /\ o \in Seq(AnOvl) /\ h \in 0 .. Len(o)
      /\ \A k \in 1 .. Len(o) : o[k].mgr = IF k <= h THEN 0 ELSE 1
  BY Zenon DEF Frame
<1>2. Len(o) \in Nat /\ DOMAIN o = 1 .. Len(o) /\ h \in Int
  BY <1>1
<1> HIDE DEF o, h
<1>3. IsFiniteSet(K) /\ Cardinality(K) = n
  <2> DEFINE a == IF m = 0 THEN 1 ELSE h + 1
             b == IF m = 0 THEN h ELSE Len(o)
  <2>1. K = a .. b
    <3>1. CASE m = 0
      <4>1. \A k \in 1 .. Len(o) : o[k].mgr = m <=> k <= h
        BY <1>1, <1>2, <3>1
      <4> QED BY <1>1, <1>2, <3>1, <4>1
    <3>2. CASE m = 1
      <4>1. \A k \in 1 .. Len(o) : o[k].mgr = m <=> ~(k <= h)
        BY <1>1, <1>2, <3>2
      <4> QED BY <1>1, <1>2, <3>2, <4>1
    <3> QED BY <3>1, <3>2
  <2>2. a \in Int /\ b \in Int /\ n = IF a > b THEN 0 ELSE b - a + 1
    <3>1. n = IF m = 0 THEN h ELSE Len(o) - h
      BY DEF o, h
    <3> QED BY <1>1, <1>2, <3>1
  <2> HIDE DEF a, b, K
  <2> QED BY <2>1, <2>2, FS_Interval
<1>4. IsFiniteSet(S) /\ Cardinality(S) <= n
  <2> DEFINE F == [k \in K |-> <<o[k].ix, o[k].mgr>>]
  <2>1. \A k \in K : F[k] \in S
    <3> TAKE k \in K
    <3> DEFINE p == <<o[k].ix, o[k].mgr>>
    <3>1. p \in Posted(f) /\ p[2] = o[k].mgr /\ o[k].mgr = m
      BY DEF Posted, o
    <3>2. F[k] = p
      BY Zenon
    <3> HIDE DEF F, p
    <3> QED BY <3>1, <3>2
  <2>2. \A p \in S : \E k \in K : F[k] = p
    <3> TAKE p \in S
    <3>1. p \in Posted(f) /\ p[2] = m
      OBVIOUS
    <3>2. PICK k \in DOMAIN o : p = <<o[k].ix, o[k].mgr>>
      BY <3>1 DEF Posted, o
    <3>3. o[k].mgr = m
      BY <3>1, <3>2
    <3> QED BY <3>2, <3>3
  <2>3. F \in [K -> S]
    <3> HIDE DEF S, K
    <3> QED BY <2>1
  <2> HIDE DEF F, S, K
  <2>4. F \in Surjection(K, S)
    BY <2>2, <2>3, Zenon DEF Surjection
  <2>5. IsFiniteSet(S) /\ Cardinality(S) <= Cardinality(K)
    BY <1>3, <2>4, FS_Surjection, Zenon
  <2> QED BY <1>3, <2>5, Zenon
<1> QED BY <1>3, <1>4, Zenon DEF o

\* The invariant of the overlays: what is remembered of the last frame covers what
\* is on the screen, and a frame that is prepared fits beside it.
FrameInv ==
  /\ Device(hwc)
  /\ IsFiniteSet(Shown(0)) /\ Cardinality(Shown(0)) <= hwc.last_int_ovls
  /\ IsFiniteSet(Shown(1)) /\ Cardinality(Shown(1)) <= hwc.last_ext_ovls
  /\ comp # None => Frame(comp, hwc)

\* The invariant says that the frame fits.
LEMMA InvFits ==
  ASSUME FrameInv
  PROVE  FrameFits
<1> SUFFICES ASSUME comp # None
             PROVE  /\ comp.z = Len(comp.ovls) /\ comp.z <= MAX_HW_OVERLAYS
                    /\ \A j, k \in DOMAIN comp.ovls : comp.ovls[j].zorder = comp.ovls[k].zorder => j = k
                    /\ Cardinality(Of(0)) + Cardinality(Shown(1)) <= MAX_HW_OVERLAYS
                    /\ Cardinality(Of(1)) + Cardinality(Shown(0)) <= MAX_HW_OVERLAYS
  BY Zenon DEF FrameFits
<1> DEFINE n == comp.post2
           e == Len(comp.ovls) - n
<1>1. Frame(comp, hwc)
  BY Zenon DEF FrameInv
<1>2. Cardinality(Of(0)) = n /\ Cardinality(Of(1)) = e
  <2>1. n = (IF 0 = 0 THEN comp.post2 ELSE Len(comp.ovls) - comp.post2)
        /\ e = (IF 1 = 0 THEN comp.post2 ELSE Len(comp.ovls) - comp.post2)
    OBVIOUS
  <2> QED BY <1>1, <2>1, OnEitherDisplay, Zenon DEF Of
<1>3. /\ comp.ovls \in Seq(AnOvl) /\ comp.z = Len(comp.ovls) /\ Len(comp.ovls) <= 4
      /\ n \in 0 .. Len(comp.ovls)
      /\ \A j, k \in 1 .. Len(comp.ovls) : comp.ovls[j].zorder = comp.ovls[k].zorder => j = k
      /\ n + hwc.last_ext_ovls <= 4 /\ e + hwc.last_int_ovls <= 4
  BY <1>1, Zenon DEF Frame, MAX_HW_OVERLAYS
<1>4. Len(comp.ovls) \in Nat /\ DOMAIN comp.ovls = 1 .. Len(comp.ovls)
  BY <1>3
<1>5. hwc.last_ext_ovls \in Int /\ hwc.last_int_ovls \in Int
  BY DEF FrameInv, Device, ADevice
<1>6. /\ Cardinality(Shown(0)) \in Nat /\ Cardinality(Shown(0)) <= hwc.last_int_ovls
      /\ Cardinality(Shown(1)) \in Nat /\ Cardinality(Shown(1)) <= hwc.last_ext_ovls
  BY FS_CardinalityType, Zenon DEF FrameInv
<1>7. n \in Int /\ e \in Int
  BY <1>3, <1>4
<1> HIDE DEF n, e
<1>8. n + Cardinality(Shown(1)) <= 4 /\ e + Cardinality(Shown(0)) <= 4
  BY <1>3, <1>5, <1>6, <1>7
<1> QED BY <1>2, <1>3, <1>4, <1>8, Zenon DEF MAX_HW_OVERLAYS

\* The invariant holds at first.
LEMMA InvInit ==
  ASSUME Init
  PROVE  FrameInv
<1>1. hwc \in ADevice /\ hwc.mirror.docking = FALSE /\ (hwc.dock.enabled => hwc.dock.docking)
      /\ hwc.last_int_ovls = 0 /\ hwc.last_ext_ovls = 0
  <2>1. Off \in AnExt /\ Off.docking = FALSE /\ Off.enabled = FALSE
    BY DEF Off, Ext, AnExt
  <2>2. hwc = [force_sgx |-> 0, last_ext_ovls |-> 0, last_int_ovls |-> 0, dock |-> Off,
               mirror |-> Off, docking |-> FALSE, last_docking |-> FALSE, ext_on_tv |-> FALSE,
               force_dock |-> FALSE, hdmi_state |-> FALSE]
    BY Zenon DEF Init
  <2> QED BY <2>1, <2>2 DEF ADevice, MAX_HW_OVERLAYS
<1>2. Shown(0) = {} /\ Shown(1) = {}
  BY DEF Init, Shown
<1>3. Cardinality({}) <= 0 /\ IsFiniteSet({})
  BY FS_EmptySet
<1>4. comp = None
  BY Zenon DEF Init
<1> QED BY <1>1, <1>2, <1>3, <1>4, Zenon DEF FrameInv, Device

\* It is kept by whatever leaves the frame, the screen and what is remembered of it.
LEMMA InvUnseen ==
  ASSUME FrameInv, Device(hwc'), hwc'.last_ext_ovls = hwc.last_ext_ovls,
         hwc'.last_int_ovls = hwc.last_int_ovls, UNCHANGED <<comp, screen>>
  PROVE  FrameInv'
<1>1. Shown(0)' = Shown(0) /\ Shown(1)' = Shown(1) /\ comp' = comp
  BY DEF Shown
<1>2. comp # None => Frame(comp', hwc')
  BY <1>1, Zenon DEF FrameInv, Frame
<1>3. None' = None
  BY DEF None
<1> QED BY <1>1, <1>2, <1>3, Zenon DEF FrameInv

\* hwc_set(), posted, failed or with the screen turned off.
LEMMA SetKeeps ==
  ASSUME FrameInv, NEW how \in {"posted", "failed", "off"}, Set(how)
  PROVE  FrameInv'
<1> DEFINE n == comp.post2
           e == Len(comp.ovls) - n
<1>1. Frame(comp, hwc) /\ Device(hwc)
  BY Zenon DEF FrameInv, Set
<1>2. /\ n \in 0 .. Len(comp.ovls) /\ Len(comp.ovls) <= 4 /\ comp.ovls \in Seq(AnOvl)
      /\ comp.ext_ovls \in 0 .. 2 /\ e <= comp.ext_ovls
  BY <1>1, Zenon DEF Frame, MAX_HW_OVERLAYS
<1>3. Len(comp.ovls) \in Nat /\ n \in 0 .. 4 /\ e \in Nat
  BY <1>2
<1>4. comp' = None' /\ (how # "failed" => /\ hwc'.last_ext_ovls = comp.ext_ovls
                                          /\ hwc'.last_int_ovls = n /\ Device(hwc'))
  <2>1. comp' = None'
    BY DEF Set, None
  <2>2. CASE how # "failed"
    <3> DEFINE s == IF how = "posted" THEN max(hwc.force_sgx - 1, 0) ELSE hwc.force_sgx
               x == comp.ext_ovls
    <3>1. hwc' = [hwc EXCEPT !.force_sgx = s, !.last_ext_ovls = x, !.last_int_ovls = n]
      BY <2>2, Zenon DEF Set
    <3>2. hwc \in ADevice /\ hwc.mirror.docking = FALSE /\ (hwc.dock.enabled => hwc.dock.docking)
      BY <1>1, Zenon DEF Device
    <3>3. hwc.force_sgx \in Nat
      BY <3>2 DEF ADevice
    <3>4. s \in Nat /\ x \in 0 .. 2 /\ n \in 0 .. MAX_HW_OVERLAYS
      BY <1>2, <1>3, <3>3 DEF max, MAX_HW_OVERLAYS
    <3> HIDE DEF s, x, n
    <3>5. /\ hwc' \in ADevice /\ hwc'.mirror = hwc.mirror /\ hwc'.dock = hwc.dock
          /\ hwc'.last_ext_ovls = x /\ hwc'.last_int_ovls = n
      BY <3>1, <3>2, <3>4, Zenon DEF ADevice
    <3> QED BY <2>1, <3>2, <3>5, Zenon DEF Device, x
  <2> QED BY <2>1, <2>2, Zenon
<1>5. CASE how = "posted"
  <2>1. screen' = Posted(comp)
    BY <1>5 DEF Set
  <2>2. Shown(0)' = {p \in Posted(comp) : p[2] = 0} /\ Shown(1)' = {p \in Posted(comp) : p[2] = 1}
    BY <2>1, Zenon DEF Shown
  <2>3. /\ n = IF 0 = 0 THEN comp.post2 ELSE Len(comp.ovls) - comp.post2
        /\ e = IF 1 = 0 THEN comp.post2 ELSE Len(comp.ovls) - comp.post2
    OBVIOUS
  <2>4. /\ IsFiniteSet(Shown(0)') /\ Cardinality(Shown(0)') <= n
        /\ IsFiniteSet(Shown(1)') /\ Cardinality(Shown(1)') <= e
    BY <1>1, <2>2, <2>3, OnEitherDisplay, Zenon
  <2>5. Cardinality(Shown(1)') <= comp.ext_ovls
    <3>1. Cardinality(Shown(1)') \in Nat
      BY <2>4, FS_CardinalityType, Zenon
    <3> QED BY <1>2, <1>3, <2>4, <3>1
  <2> QED BY <1>4, <1>5, <2>4, <2>5, Zenon DEF FrameInv
<1>6. CASE how = "failed"
  <2>1. hwc' = hwc /\ screen' = screen
    BY <1>6 DEF Set
  <2>2. Shown(0)' = Shown(0) /\ Shown(1)' = Shown(1)
    BY <2>1 DEF Shown
  <2> QED BY <1>1, <1>4, <2>1, <2>2, Zenon DEF FrameInv
<1>7. CASE how = "off"
  <2>1. screen' = {}
    BY <1>7 DEF Set
  <2>2. Shown(0)' = {} /\ Shown(1)' = {}
    BY <2>1 DEF Shown
  <2>3. IsFiniteSet({}) /\ Cardinality({}) <= n /\ Cardinality({}) <= comp.ext_ovls
    BY <1>2, <1>3, FS_EmptySet
  <2> QED BY <1>4, <1>7, <2>2, <2>3, Zenon DEF FrameInv
<1> QED BY <1>5, <1>6, <1>7, Zenon

\* A switch that is noted changes nothing hwc_set() remembers.
LEMMA Switched ==
  ASSUME Device(hwc), NEW h, h = hwc \/ (\E b \in BOOLEAN : h = [hwc EXCEPT !.force_dock = b])
                             \/ (\E b \in BOOLEAN : h = [hwc EXCEPT !.hdmi_state = b])
  PROVE  Device(h) /\ SameButSwitch(h, hwc)
<1>1. hwc \in ADevice /\ hwc.mirror.docking = FALSE /\ (hwc.dock.enabled => hwc.dock.docking)
  BY Zenon DEF Device
<1>2. /\ h \in ADevice /\ h.mirror = hwc.mirror /\ h.dock = hwc.dock
      /\ h.last_ext_ovls = hwc.last_ext_ovls /\ h.last_int_ovls = hwc.last_int_ovls
      /\ h.last_docking = hwc.last_docking
  <2>1. CASE h = hwc
    BY <1>1, <2>1
  <2>2. ASSUME NEW b \in BOOLEAN, h = [hwc EXCEPT !.force_dock = b] PROVE <1>2
    BY <1>1, <2>2 DEF ADevice
  <2>3. ASSUME NEW b \in BOOLEAN, h = [hwc EXCEPT !.hdmi_state = b] PROVE <1>2
    BY <1>1, <2>3 DEF ADevice
  <2> QED BY <2>1, <2>2, <2>3, Zenon
<1> QED BY <1>1, <1>2, Zenon DEF Device, SameButSwitch

\* The device hwc_prepare() finds at last, if the dock switch changes or not.
LEMMA DrawCases ==
  ASSUME Device(hwc), Draw \/ DrawSwitched
  PROVE  \E list, h2, h3 :
           list \in Lists /\ Device(h3) /\ SameButSwitch(h3, hwc) /\ Prepare(list, h2, h3)
<1>1. CASE Draw
  <2>1. PICK list \in Lists : Prepare(list, hwc, hwc)
    BY <1>1, Zenon DEF Draw
  <2>2. Device(hwc) /\ SameButSwitch(hwc, hwc)
    BY Switched, Zenon
  <2> QED BY <2>1, <2>2, Zenon
<1>2. CASE DrawSwitched
  <2> DEFINE b == ~hwc.force_dock
             h == [hwc EXCEPT !.force_dock = b]
  <2>1. PICK list \in Lists : Prepare(list, h, h) \/ Prepare(list, hwc, h)
    BY <1>2, Zenon DEF DrawSwitched
  <2>2. b \in BOOLEAN
    OBVIOUS
  <2> HIDE DEF b
  <2>3. \E a \in BOOLEAN : h = [hwc EXCEPT !.force_dock = a]
    BY <2>2, Zenon
  <2> HIDE DEF h
  <2>4. Device(h) /\ SameButSwitch(h, hwc)
    BY <2>3, Switched, Zenon
  <2> QED BY <2>1, <2>4, Zenon
<1> QED BY <1>1, <1>2, Zenon

\* handle_uevents(), handle_hotplug() and the idle screen leave what hwc_set()
\* remembers, and the device in order.
LEMMA OthersKeep ==
  ASSUME Device(hwc), Uevent \/ Hotplug \/ Idle \/ UNCHANGED vars
  PROVE  /\ Device(hwc') /\ SameButSwitch(hwc', hwc)
         /\ UNCHANGED <<comp, screen, waiting>> /\ (invalidated => invalidated')
<1>1. CASE Uevent
  <2>1. PICK h \in Noted : hwc' = h /\ UNCHANGED <<comp, screen, invalidated, waiting>>
    BY <1>1, Zenon DEF Uevent
  <2>2. (\E b \in BOOLEAN : h = [hwc EXCEPT !.force_dock = b])
        \/ (\E b \in BOOLEAN : h = [hwc EXCEPT !.hdmi_state = b])
    BY <2>1, Zenon DEF Noted
  <2>3. Device(hwc') /\ SameButSwitch(hwc', hwc)
    BY <2>1, <2>2, Switched, Zenon
  <2> QED BY <2>1, <2>3, Zenon
<1>2. CASE Hotplug
  <2>1. UNCHANGED <<comp, screen, waiting>> /\ invalidated'
    BY <1>2, Zenon DEF Hotplug
  <2> SUFFICES Device(hwc') /\ SameButSwitch(hwc', hwc)
    BY <2>1, Zenon
  <2>2. hwc \in ADevice
    BY Zenon DEF Device
  <2>3. ASSUME NEW dock \in AnExt, NEW mirror \in AnExt, mirror.docking = FALSE,
               dock.enabled => dock.docking, NEW b \in BOOLEAN, NEW tv \in BOOLEAN,
               hwc' = [hwc EXCEPT !.dock = dock, !.mirror = mirror, !.docking = b, !.ext_on_tv = tv]
        PROVE  Device(hwc') /\ SameButSwitch(hwc', hwc)
    <3>1. /\ hwc' \in ADevice /\ hwc'.mirror = mirror /\ hwc'.dock = dock
          /\ hwc'.last_ext_ovls = hwc.last_ext_ovls /\ hwc'.last_int_ovls = hwc.last_int_ovls
          /\ hwc'.last_docking = hwc.last_docking
      BY <2>2, <2>3, Zenon DEF ADevice
    <3> QED BY <2>3, <3>1, Zenon DEF Device, SameButSwitch
  <2>4. Off \in AnExt /\ Off.docking = FALSE /\ Off.enabled = FALSE
    BY DEF Off, Ext, AnExt
  <2>5. CASE ~hwc.hdmi_state
    <3> DEFINE b == hwc.docking
               tv == hwc.ext_on_tv
    <3>1. hwc' = [hwc EXCEPT !.dock = Off, !.mirror = Off]
      BY <1>2, <2>5, Zenon DEF Hotplug
    <3>2. /\ hwc' = [hwc EXCEPT !.dock = Off, !.mirror = Off, !.docking = b, !.ext_on_tv = tv]
          /\ b \in BOOLEAN /\ tv \in BOOLEAN
      BY <2>2, <3>1, Zenon DEF ADevice
    <3> HIDE DEF b, tv
    <3>3. Off.enabled => Off.docking
      BY <2>4
    <3> QED BY <2>3, <2>4, <3>2, <3>3, Zenon
  <2>6. CASE hwc.hdmi_state
    <3> DEFINE Mirror(s) == Ext(s.mirroring /\ ~hwc.force_dock, FALSE, s.mirror_tform)
               Dock(s) == Ext(s.docking, TRUE, s.dock_tform /\ ~hwc.force_dock)
    <3>1. PICK s \in Settings :
            \E modeset \in BOOLEAN :
              hwc' = [hwc EXCEPT !.dock = Dock(s), !.mirror = IF modeset THEN Mirror(s) ELSE Off,
                                 !.docking = @ /\ ~Mirror(s).enabled,
                                 !.ext_on_tv = @ \/ (Mirror(s).enabled /\ modeset)]
      BY <1>2, <2>6, Zenon DEF Hotplug
    <3>2. PICK modeset \in BOOLEAN :
            hwc' = [hwc EXCEPT !.dock = Dock(s), !.mirror = IF modeset THEN Mirror(s) ELSE Off,
                               !.docking = @ /\ ~Mirror(s).enabled,
                               !.ext_on_tv = @ \/ (Mirror(s).enabled /\ modeset)]
      BY <3>1, Zenon
    <3> DEFINE mirror == Mirror(s)
               dock == Dock(s)
               m == IF modeset THEN mirror ELSE Off
               b == hwc.docking /\ ~mirror.enabled
               tv == hwc.ext_on_tv \/ (mirror.enabled /\ modeset)
    <3>3. s \in [mirroring : BOOLEAN, docking : BOOLEAN, mirror_tform : BOOLEAN, dock_tform : BOOLEAN]
      BY SettingsAssumption
    <3>4. mirror \in AnExt /\ mirror.docking = FALSE
      BY <3>3 DEF Ext, AnExt
    <3>5. dock \in AnExt /\ (dock.enabled => dock.docking)
      BY <3>3 DEF Ext, AnExt
    <3>6. hwc' = [hwc EXCEPT !.dock = dock, !.mirror = m, !.docking = b, !.ext_on_tv = tv]
      BY <3>2, Zenon
    <3>7. b \in BOOLEAN /\ tv \in BOOLEAN
      OBVIOUS
    <3> HIDE DEF mirror, dock
    <3>8. m \in AnExt /\ m.docking = FALSE
      BY <2>4, <3>4
    <3> HIDE DEF m, b, tv
    <3> QED BY <2>3, <3>5, <3>6, <3>7, <3>8, Zenon
  <2> QED BY <2>5, <2>6, Zenon
<1>3. CASE Idle
  <2>1. hwc' = [hwc EXCEPT !.force_sgx = 2] /\ UNCHANGED <<comp, screen, waiting>> /\ invalidated'
    BY <1>3 DEF Idle
  <2>2. hwc \in ADevice /\ hwc.mirror.docking = FALSE /\ (hwc.dock.enabled => hwc.dock.docking)
    BY Zenon DEF Device
  <2>3. /\ hwc' \in ADevice /\ hwc'.mirror = hwc.mirror /\ hwc'.dock = hwc.dock
        /\ hwc'.last_ext_ovls = hwc.last_ext_ovls /\ hwc'.last_int_ovls = hwc.last_int_ovls
        /\ hwc'.last_docking = hwc.last_docking
    BY <2>1, <2>2 DEF ADevice
  <2> QED BY <2>1, <2>2, <2>3, Zenon DEF Device, SameButSwitch
<1>4. CASE UNCHANGED vars
  <2>1. hwc' = hwc /\ UNCHANGED <<comp, screen, waiting>> /\ invalidated' = invalidated
    BY <1>4 DEF vars
  <2>2. Device(hwc) /\ SameButSwitch(hwc, hwc)
    BY Switched, Zenon
  <2> QED BY <2>1, <2>2, Zenon
<1> QED BY <1>1, <1>2, <1>3, <1>4, Zenon

\* Every step keeps the invariant.
LEMMA InvNext ==
  ASSUME FrameInv, [Next]_vars
  PROVE  FrameInv'
<1>1. Device(hwc)
  BY Zenon DEF FrameInv
<1>2. CASE Draw \/ DrawSwitched
  <2>1. PICK list, h2, h3 :
          list \in Lists /\ Device(h3) /\ SameButSwitch(h3, hwc) /\ Prepare(list, h2, h3)
    BY <1>1, <1>2, DrawCases, Zenon
  <2>2. /\ Device(hwc') /\ Frame(comp', hwc')
        /\ hwc'.last_ext_ovls = hwc.last_ext_ovls /\ hwc'.last_int_ovls = hwc.last_int_ovls
    BY <1>1, <2>1, PrepareFits, Zenon
  <2>3. screen' = screen
    BY <2>1, Zenon DEF Prepare
  <2>4. Shown(0)' = Shown(0) /\ Shown(1)' = Shown(1)
    BY <2>3 DEF Shown
  <2> QED BY <2>2, <2>4, Zenon DEF FrameInv
<1>3. CASE \E how \in {"posted", "failed", "off"} : Set(how)
  BY <1>3, SetKeeps, Zenon
<1>4. CASE Uevent \/ Hotplug \/ Idle \/ UNCHANGED vars
  <2>1. Device(hwc') /\ SameButSwitch(hwc', hwc) /\ UNCHANGED <<comp, screen>>
    BY <1>1, <1>4, OthersKeep
  <2> QED BY <2>1, InvUnseen, Zenon DEF SameButSwitch
<1> QED BY <1>2, <1>3, <1>4, Zenon DEF Next

\* The frames hwc_prepare() makes fit the overlays, for all lists of layers and any
\* number of frames and plugs: as many z-layers as overlays, none of them twice, and
\* what one display is given beside what the other still shows.
THEOREM FramesFit == Spec => []FrameFits
<1>1. Init => FrameInv
  BY InvInit
<1>2. FrameInv /\ [Next]_vars => FrameInv'
  BY InvNext
<1>3. FrameInv => FrameFits
  BY InvFits
<1> QED BY <1>1, <1>2, <1>3, PTL DEF Spec

-----------------------------------------------------------------------------
(* The stack of the frame is kept. *)

\* What StackKept says of a frame.
Stacked(f) ==
  LET layer(k) == f.ovls[k].layer
      dss      == {k \in {j \in DOMAIN f.ovls : f.ovls[j].mgr = 0} : layer(k) # FB}
      sgx      == DOMAIN f.list \ {layer(k) : k \in dss}
  IN  /\ ~f.use_sgx => sgx = {}
      /\ \A j, k \in dss : layer(j) < layer(k) => f.ovls[j].zorder < f.ovls[k].zorder
      /\ f.use_sgx => \A k \in dss :
           /\ (\E i \in sgx : layer(k) < i) => f.ovls[k].zorder < f.ovls[1].zorder
           /\ sgx # {} /\ (\A i \in sgx : i < layer(k)) => f.ovls[1].zorder < f.ovls[k].zorder
           /\ f.list[layer(k)].blended => \A i \in sgx : layer(k) < i

\* A frame whose first n overlays are those of the screen.
Screens(f, o, list) ==
  /\ f.ovls \in Seq(AnOvl) /\ f.list = list /\ Len(o) \in 0 .. Len(f.ovls)
  /\ \A k \in 1 .. Len(o) : f.ovls[k] = o[k]
  /\ \A k \in 1 .. Len(f.ovls) : f.ovls[k].mgr = IF k <= Len(o) THEN 0 ELSE 1

\* Which they are.
LEMMA ScreenPart ==
  ASSUME NEW f, NEW o, NEW list, Screens(f, o, list)
  PROVE  {j \in DOMAIN f.ovls : f.ovls[j].mgr = 0} = 1 .. Len(o)
<1> DEFINE q == f.ovls
           n == Len(o)
<1>1. /\ q \in Seq(AnOvl) /\ n \in 0 .. Len(q)
      /\ \A k \in 1 .. Len(q) : q[k].mgr = IF k <= n THEN 0 ELSE 1
  BY Zenon DEF Screens
<1>2. DOMAIN q = 1 .. Len(q) /\ Len(q) \in Nat /\ n \in Nat
  BY <1>1
<1> HIDE DEF q, n
<1>3. \A k \in 1 .. Len(q) : q[k].mgr = 0 <=> k <= n
  BY <1>1, <1>2
<1>4. {j \in DOMAIN q : q[j].mgr = 0} = 1 .. n
  BY <1>1, <1>2, <1>3
<1> QED BY <1>4 DEF q, n

\* The stack without the SGX.
LEMMA StackedDss ==
  ASSUME NEW f, NEW o, NEW list \in Seq(Layer), Screens(f, o, list), ~f.use_sgx,
         ShowsAll(o, list)
  PROVE  Stacked(f)
<1> DEFINE n == Len(list)
           q == f.ovls
           layer(k) == q[k].layer
           dss == {k \in {j \in DOMAIN f.ovls : f.ovls[j].mgr = 0} : layer(k) # FB}
<1>1. n \in Nat /\ DOMAIN f.list = 1 .. n
  BY DEF Screens
<1>2. \A k \in 1 .. n : q[k].layer = k /\ q[k].zorder = k - 1
  BY Zenon DEF Screens, ShowsAll
<1>3. {j \in DOMAIN f.ovls : f.ovls[j].mgr = 0} = 1 .. n
  BY ScreenPart, Zenon DEF ShowsAll
<1>4. dss = 1 .. n
  <2> HIDE DEF q
  <2>1. dss = {k \in 1 .. n : q[k].layer # FB}
    BY <1>3 DEF q
  <2> QED BY <1>1, <1>2, <2>1 DEF FB
<1> HIDE DEF q, dss
<1>5. {layer(k) : k \in dss} = 1 .. n
  <2>1. \A k \in dss : layer(k) = k
    BY <1>2, <1>4, Zenon
  <2>2. ASSUME NEW x \in 1 .. n PROVE x \in {layer(k) : k \in dss}
    <3>1. x \in dss /\ x = layer(x)
      BY <1>4, <2>1
    <3> QED BY <3>1
  <2>3. ASSUME NEW x \in {layer(k) : k \in dss} PROVE x \in 1 .. n
    <3>1. PICK k \in dss : x = layer(k)
      BY <2>3, Zenon
    <3> QED BY <1>4, <2>1, <3>1, Zenon
  <2> QED BY <2>2, <2>3, Zenon
<1>6. DOMAIN f.list \ {layer(k) : k \in dss} = {}
  BY <1>1, <1>5
<1>7. \A j, k \in dss : layer(j) < layer(k) => q[j].zorder < q[k].zorder
  BY <1>1, <1>2, <1>4
<1> QED BY <1>6, <1>7, Zenon DEF Stacked, dss, q

\* The stack with the SGX.
LEMMA StackedSgx ==
  ASSUME NEW f, NEW o, NEW list \in Seq(Layer), Screens(f, o, list), f.use_sgx, SgxStack(o, list)
  PROVE  Stacked(f)
<1> DEFINE n == Len(o)
           q == f.ovls
           layer(k) == q[k].layer
           dss == {k \in {j \in DOMAIN f.ovls : f.ovls[j].mgr = 0} : layer(k) # FB}
           sgx == DOMAIN f.list \ {layer(k) : k \in dss}
           S == (1 .. Len(list)) \ {o[j].layer : j \in 2 .. n}
<1>1. /\ n >= 1 /\ o[1].layer = FB
      /\ \A j, k \in 2 .. n : o[j].layer < o[k].layer => o[j].zorder < o[k].zorder
      /\ \A k \in 2 .. n : InPlace(o, k, S, list)
  BY Zenon DEF SgxStack
<1>2. n \in Nat /\ f.list = list /\ DOMAIN list = 1 .. Len(list) /\ Len(list) \in Nat
      /\ \A k \in 1 .. n : q[k] = o[k]
  <2>1. /\ q \in Seq(AnOvl) /\ f.list = list /\ n \in 0 .. Len(q)
        /\ \A k \in 1 .. n : q[k] = o[k]
    BY Zenon DEF Screens
  <2>2. Len(q) \in Nat
    BY <2>1
  <2>3. n \in Nat
    <3> HIDE DEF n, q
    <3> QED BY <2>1, <2>2
  <2>4. DOMAIN list = 1 .. Len(list) /\ Len(list) \in Nat
    OBVIOUS
  <2> QED BY <2>1, <2>3, <2>4, Zenon
<1>3. {j \in DOMAIN f.ovls : f.ovls[j].mgr = 0} = 1 .. n
  BY ScreenPart, Zenon
<1>4. \A k \in 2 .. n : o[k].layer \in 1 .. Len(list)
  BY <1>1, Zenon DEF InPlace
<1>5. dss = 2 .. n
  <2>1. dss = {k \in 1 .. n : q[k].layer # FB}
    BY <1>3
  <2> HIDE DEF q, n, dss
  <2>2. \A k \in 2 .. n : o[k].layer # FB
    BY <1>2, <1>4 DEF FB
  <2>3. dss = {k \in 1 .. n : o[k].layer # FB}
    BY <1>2, <2>1
  <2> QED BY <1>1, <1>2, <2>2, <2>3
<1> HIDE DEF q, n, dss, S
<1>6. \A k \in dss : k \in 1 .. n /\ k \in 2 .. n /\ q[k] = o[k]
  BY <1>2, <1>5
<1>7. sgx = S
  <2>1. {layer(k) : k \in dss} = {o[j].layer : j \in 2 .. n}
    BY <1>5, <1>6
  <2> QED BY <1>2, <2>1, Zenon DEF S, n
<1> HIDE DEF sgx
<1>8. q[1] = o[1]
  BY <1>1, <1>2
<1>9. \A j, k \in dss : layer(j) < layer(k) => q[j].zorder < q[k].zorder
  BY <1>1, <1>6, Zenon
<1>10. ASSUME NEW k \in dss
       PROVE  /\ (\E i \in sgx : layer(k) < i) => q[k].zorder < q[1].zorder
              /\ sgx # {} /\ (\A i \in sgx : i < layer(k)) => q[1].zorder < q[k].zorder
              /\ f.list[layer(k)].blended => \A i \in sgx : layer(k) < i
  <2>1. InPlace(o, k, S, list) /\ q[k] = o[k]
    BY <1>1, <1>6, Zenon
  <2> QED BY <1>2, <1>7, <1>8, <2>1, Zenon DEF InPlace
<1> QED BY <1>9, <1>10, Zenon DEF Stacked, sgx, dss, q

\* What hwc_prepare() has put on the screen, with the SGX and without.
OnScreen(list, lim, dss, w) ==
  /\ Fits(w, lim.max_hw)
  /\ dss => ShowsAll(w.ovls, list)
  /\ ~dss => SgxStack(w.ovls, list)

\* It does put it there.
LEMMA WorkShows ==
  ASSUME Displayable, NEW list \in Lists, NEW h3, NEW num, NEW lim, NEW dss, NEW w, NEW c,
         Worked(list, h3, num, lim, dss, w, c)
  PROVE  OnScreen(list, lim, dss, w)
<1>1. /\ num = Counts(list) /\ Shares(hwc, num, lim) /\ dss = can_dss_render_all(hwc, num, lim)
      /\ w = Pipes(hwc, lim, ~dss, IF dss THEN num.BGR # 0 ELSE fb_bgr, list)
  BY Zenon DEF Worked
<1>2. lim.max_hw \in Nat /\ lim.max_hw \in Int
  BY <1>1 DEF Shares, MAX_HW_OVERLAYS
<1>3. list \in Seq(Layer) /\ Len(list) \in Nat
  BY ListsAssumption
<1>4. CASE dss
  <2> DEFINE b == num.BGR # 0
  <2>1. w = Pipes(hwc, lim, FALSE, b, list)
    <3>1. (~dss) = FALSE /\ (IF dss THEN num.BGR # 0 ELSE fb_bgr) = b
      BY <1>4
    <3> HIDE DEF b
    <3> QED BY <1>1, <3>1, Zenon
  <2>2. DssFrame(w, hwc, lim, list)
    BY <1>1, <2>1, Zenon DEF DssFrame
  <2>3. can_dss_render_all(hwc, Counts(list), lim)
    BY <1>1, <1>4, Zenon
  <2> HIDE DEF b
  <2>4. Fits(Pipes(hwc, lim, FALSE, b, list), lim.max_hw)
    BY <1>2, <1>3, DssLoop, Zenon
  <2>5. Fits(w, lim.max_hw)
    BY <2>1, <2>4, Zenon
  <2>6. ShowsAll(w.ovls, list)
    BY <1>2, <2>2, <2>3, DssShowsAll, Zenon
  <2> QED BY <1>4, <2>5, <2>6, Zenon DEF OnScreen
<1>5. CASE ~dss
  <2>1. w = Pipes(hwc, lim, TRUE, fb_bgr, list)
    <3>1. (~dss) = TRUE /\ (IF dss THEN num.BGR # 0 ELSE fb_bgr) = fb_bgr
      BY <1>5
    <3> QED BY <1>1, <3>1, Zenon
  <2>2. Fits(w, lim.max_hw) /\ SgxStack(w.ovls, list)
    BY <1>2, <1>3, <2>1, SgxLoop, Zenon
  <2> QED BY <1>5, <2>2, Zenon DEF OnScreen
<1> QED BY <1>4, <1>5, Zenon

\* hwc_prepare() keeps the stack of the frame.
LEMMA PrepareStacks ==
  ASSUME Displayable, Device(hwc), NEW list \in Lists, NEW h2, NEW h3, Device(h3),
         Prepare(list, h2, h3)
  PROVE  Stacked(comp')
<1>1. PICK num, lim, dss, w, c :
        Worked(list, h3, num, lim, dss, w, c) /\ Ended(list, h3, num, lim, dss, w, c)
  BY PrepareWorks, Zenon
<1>2. Shares(hwc, num, lim) /\ c \in Clone(h3, num, lim, w, list)
  BY <1>1, Zenon DEF Worked
<1>3. /\ Fits(w, lim.max_hw)
      /\ dss => ShowsAll(w.ovls, list)
      /\ ~dss => SgxStack(w.ovls, list)
  <2>1. OnScreen(list, lim, dss, w)
    BY <1>1, WorkShows, Zenon
  <2> QED BY <2>1, Zenon DEF OnScreen
<1>4. list \in Seq(Layer)
  BY ListsAssumption
<1>5. comp'.ovls = c.ovls /\ comp'.list = list /\ (comp'.use_sgx <=> ~dss)
  BY <1>1, Zenon DEF Ended
<1>6. Screens(comp', w.ovls, list)
  <2>1. CloneFitsIn(c, w, lim)
    BY <1>2, <1>3, CloneFits, Zenon
  <2>2. Extends(c, w, lim.ext_ovls)
    BY <2>1, Zenon DEF CloneFitsIn
  <2>3. /\ c.ovls \in Seq(AnOvl) /\ Len(c.ovls) \in Len(w.ovls) .. MAX_HW_OVERLAYS
        /\ \A k \in 1 .. Len(w.ovls) : c.ovls[k] = w.ovls[k]
        /\ \A k \in 1 .. Len(c.ovls) : c.ovls[k].mgr = IF k <= Len(w.ovls) THEN 0 ELSE 1
    BY <2>2, Zenon DEF Extends
  <2>4. w.ovls \in Seq(AnOvl)
    BY <1>3, Zenon DEF Fits
  <2>5. Len(w.ovls) \in 0 .. Len(c.ovls)
    <3>1. Len(w.ovls) \in Nat /\ Len(c.ovls) \in Nat /\ Len(c.ovls) >= Len(w.ovls)
      BY <2>3, <2>4 DEF MAX_HW_OVERLAYS
    <3> QED BY <3>1
  <2> QED BY <1>5, <2>3, <2>5, Zenon DEF Screens
<1>7. CASE dss
  <2>1. ShowsAll(w.ovls, list) /\ ~comp'.use_sgx
    BY <1>3, <1>5, <1>7, Zenon
  <2> QED BY <1>4, <1>6, <2>1, StackedDss, Zenon
<1>8. CASE ~dss
  <2>1. SgxStack(w.ovls, list) /\ comp'.use_sgx
    BY <1>3, <1>5, <1>8, Zenon
  <2> QED BY <1>4, <1>6, <2>1, StackedSgx, Zenon
<1> QED BY <1>7, <1>8, Zenon

\* In every frame the overlays are in the order of their layers, and the framebuffer
\* is where the layers drawn into it have to be, for all lists of layers of which
\* those put on a dock are videos, with the order of colours looked at.
THEOREM StackIsKept == ASSUME Displayable PROVE Spec => []StackKept
<1>1. Init => FrameInv /\ StackKept
  BY InvInit, Zenon DEF Init, StackKept
<1>2. ASSUME FrameInv, StackKept, [Next]_vars PROVE FrameInv' /\ StackKept'
  <2>1. FrameInv' /\ Device(hwc)
    BY <1>2, InvNext, Zenon DEF FrameInv
  <2>2. CASE Draw \/ DrawSwitched
    <3>1. PICK list, h2, h3 :
            list \in Lists /\ Device(h3) /\ SameButSwitch(h3, hwc) /\ Prepare(list, h2, h3)
      BY <2>1, <2>2, DrawCases, Zenon
    <3>2. Stacked(comp')
      BY <2>1, <3>1, PrepareStacks, Zenon
    <3> QED BY <2>1, <3>2, Zenon DEF StackKept, Stacked, Of
  <2>3. CASE \E how \in {"posted", "failed", "off"} : Set(how)
    <3>1. comp' = None
      BY <2>3 DEF Set
    <3> QED BY <2>1, <3>1, Zenon DEF StackKept
  <2>4. CASE Uevent \/ Hotplug \/ Idle \/ UNCHANGED vars
    <3>1. comp' = comp /\ None' = None
      BY <2>1, <2>4, OthersKeep DEF None
    <3>2. comp # None => Stacked(comp)
      BY <1>2, Zenon DEF StackKept, Stacked, Of
    <3>3. comp' # None => Stacked(comp')
      BY <3>1, <3>2, Zenon
    <3> QED BY <2>1, <3>3, Zenon DEF StackKept, Stacked, Of
  <2> QED BY <1>2, <2>2, <2>3, <2>4, Zenon DEF Next
<1> QED BY <1>1, <1>2, PTL DEF Spec

-----------------------------------------------------------------------------
(* The screen is mirrored. *)

\* A frame that is to mirror the screen of the device d asks for overlays of the
\* other display, leaves it enough of them, and gets some if the last one got none.
Mirroring(f, d, frames) ==
  f.mirror => /\ f.wanted > 0 /\ f.post2 <= 2 /\ ~d.last_docking
              /\ frames = 1 => f.ext_ovls > 0

\* The frame that was left out of the mirror has asked for the next one, for which
\* the screen leaves enough overlays.
Asked(d, frames) == frames = 1 => invalidated /\ d.last_int_ovls <= 2 /\ ~d.last_docking

MirrorInv ==
  /\ waiting \in {0, 1}
  /\ comp # None => Mirroring(comp, hwc, waiting)
  /\ comp = None => Asked(hwc, waiting)

\* A frame has at least one overlay on the screen.
LEMMA ScreenUsed ==
  ASSUME Displayable, NEW list \in Lists, NEW h3, NEW num, NEW lim, NEW dss, NEW w, NEW c,
         Worked(list, h3, num, lim, dss, w, c)
  PROVE  Len(w.ovls) >= 1
<1>1. /\ dss => ShowsAll(w.ovls, list)
      /\ ~dss => SgxStack(w.ovls, list)
  <2>1. OnScreen(list, lim, dss, w)
    BY WorkShows, Zenon
  <2> QED BY <2>1, Zenon DEF OnScreen
<1>2. CASE dss
  <2>1. num.possible > 0 /\ num.possible = num.composited
    BY <1>2, Zenon DEF Worked, can_dss_render_all
  <2>2. num.composited = Len(list) /\ Len(list) \in Nat
    <3>1. list \in Seq(Layer)
      BY ListsAssumption
    <3>2. num = Counts(list)
      BY Zenon DEF Worked
    <3>3. Counts(list).composited = Len(list)
      BY <3>1, CountsSay, Zenon
    <3> QED BY <3>1, <3>2, <3>3
  <2>3. Len(w.ovls) = Len(list)
    BY <1>1, <1>2, Zenon DEF ShowsAll
  <2> QED BY <2>1, <2>2, <2>3
<1>3. CASE ~dss
  BY <1>1, <1>3, Zenon DEF SgxStack
<1> QED BY <1>2, <1>3, Zenon

\* hwc_prepare() mirrors the screen if the last frame has left enough overlays.
LEMMA PrepareMirrors ==
  ASSUME Displayable, Device(hwc), NEW list \in Lists, NEW h2, NEW h3, Device(h3),
         SameButSwitch(h3, hwc), Prepare(list, h2, h3), NEW frames, Asked(hwc, frames)
  PROVE  Mirroring(comp', hwc', frames)
<1>1. PICK num, lim, dss, w, c :
        Worked(list, h3, num, lim, dss, w, c) /\ Ended(list, h3, num, lim, dss, w, c)
  BY PrepareWorks, Zenon
<1> DEFINE cur == Current(lim, c)
           mgrs == IF cur.enabled \/ hwc.last_ext_ovls > 0 THEN 2 ELSE 1
           n == Len(w.ovls)
           t == min(MAX_HW_OVERLAYS - n, n)
<1>2. Shares(hwc, num, lim) /\ c \in Clone(h3, num, lim, w, list)
  BY <1>1, Zenon DEF Worked
<1>3. Fits(w, lim.max_hw) /\ n >= 1
  <2>1. OnScreen(list, lim, dss, w)
    BY <1>1, WorkShows, Zenon
  <2> QED BY <1>1, <2>1, ScreenUsed, Zenon DEF OnScreen
<1>4. /\ comp'.mirror = (hwc.mirror.enabled /\ ~cur.docking) /\ comp'.wanted = lim.wanted
      /\ comp'.post2 = n /\ comp'.ext_ovls = IF mgrs = 2 THEN Len(c.ovls) - n ELSE lim.ext_ovls
  BY <1>1 DEF Ended
<1>5. cur.docking = lim.current.docking
      /\ (cur.enabled = (lim.current.enabled /\ c.mode # "disabled"))
  <2>1. lim.current \in AnExt
    BY <1>2, Zenon DEF Shares
  <2> QED BY <2>1, Zenon DEF AnExt, Current
<1> HIDE DEF cur
<1>6. hwc'.last_docking = cur.docking
  <2> DEFINE b == cur.docking
             tv == h3.ext_on_tv \/ c.mode = "set"
  <2>1. hwc' = [h3 EXCEPT !.docking = b, !.last_docking = b, !.ext_on_tv = tv]
    BY <1>1, Zenon DEF Ended, cur
  <2> HIDE DEF b, tv
  <2>2. h3 \in ADevice
    BY Zenon DEF Device
  <2>3. hwc'.last_docking = b
    BY <2>1, <2>2 DEF ADevice
  <2> QED BY <2>3 DEF b
<1> SUFFICES ASSUME comp'.mirror
             PROVE  /\ lim.wanted > 0 /\ n <= 2 /\ ~cur.docking
                    /\ frames = 1 => comp'.ext_ovls > 0
  BY <1>4, <1>6, Zenon DEF Mirroring
<1>7. hwc.mirror.enabled /\ ~lim.current.docking /\ ~cur.docking
  BY <1>4, <1>5, Zenon
<1>8. /\ lim.current.enabled /\ lim.wanted = 2 /\ lim.max_hw \in 0 .. 2
      /\ hwc.last_int_ovls <= 2 => lim.ext_ovls = 2
  BY <1>2, <1>7 DEF Shares, MAX_HW_OVERLAYS
<1>9. n \in Nat /\ n <= 2
  <2>1. w.ovls \in Seq(AnOvl) /\ n <= max(1, lim.max_hw)
    BY <1>3, Zenon DEF Fits
  <2> QED BY <1>8, <2>1 DEF max
<1>10. ASSUME frames = 1 PROVE comp'.ext_ovls > 0
  <2>1. lim.ext_ovls = 2 /\ ~hwc.last_docking
    BY <1>8, <1>10, Zenon DEF Asked
  <2>2. Mirrors(num, lim) /\ ~h3.last_docking
    <3>1. lim.wanted > 0 /\ lim.ext_ovls >= lim.wanted
      BY <1>8, <2>1
    <3> QED BY <1>8, <2>1, <3>1, Zenon DEF Mirrors, SameButSwitch
  <2>3. c.mode # "disabled" /\ Mirrored(c, w, t)
    BY <1>2, <1>7, <2>2, CloneCases, Zenon
  <2>4. t \in {1, 2}
    <3>1. n >= 1 /\ n \in Nat /\ n <= 2
      BY <1>3, <1>9, Zenon
    <3> HIDE DEF n
    <3>2. t = min(4 - n, n)
      BY DEF MAX_HW_OVERLAYS
    <3> HIDE DEF t
    <3>3. n = 1 \/ n = 2
      BY <3>1
    <3> QED BY <3>2, <3>3 DEF min
  <2>5. Len(c.ovls) = n + t
    <3>1. lim.max_hw \in Int /\ max(1, lim.max_hw) <= MAX_HW_OVERLAYS
      BY <1>8 DEF max, MAX_HW_OVERLAYS
    <3>2. lim.ext_ovls \in Nat /\ t <= lim.ext_ovls
      BY <2>1, <2>4
    <3> HIDE DEF t
    <3>3. t = min(MAX_HW_OVERLAYS - Len(w.ovls), Len(w.ovls))
      BY DEF t
    <3> QED BY <1>3, <1>8, <2>3, <3>1, <3>2, <3>3, MirrorClones, Zenon
  <2>6. cur.enabled /\ mgrs = 2
    BY <1>5, <1>8, <2>3, Zenon
  <2> HIDE DEF t, mgrs
  <2> QED BY <1>4, <1>9, <2>4, <2>5, <2>6
<1> QED BY <1>7, <1>8, <1>9, <1>10

\* hwc_set() asks for the next frame if this one was to mirror the screen and got no
\* overlay for it.
LEMMA SetMirrors ==
  ASSUME FrameInv, MirrorInv, NEW how \in {"posted", "failed", "off"}, Set(how)
  PROVE  MirrorInv'
<1>1. /\ comp # None /\ comp' = None /\ invalidated' = (invalidated \/ WantsMore(comp))
      /\ waiting' = IF how = "posted" /\ comp.mirror /\ comp.ext_ovls = 0 THEN waiting + 1 ELSE 0
  BY Zenon DEF Set
<1>2. waiting \in {0, 1} /\ Mirroring(comp, hwc, waiting)
  BY <1>1, Zenon DEF MirrorInv
<1> SUFFICES waiting' \in {0, 1} /\ Asked(hwc, waiting)'
  BY <1>1, Zenon DEF MirrorInv
<1>3. CASE how = "posted" /\ comp.mirror /\ comp.ext_ovls = 0
  <2>1. /\ comp.wanted > 0 /\ comp.post2 <= 2 /\ ~hwc.last_docking
        /\ waiting = 1 => comp.ext_ovls > 0
    BY <1>2, <1>3, Zenon DEF Mirroring
  <2>2. waiting = 0
    BY <1>2, <1>3, <2>1
  <2>3. waiting' = 1
    BY <1>1, <1>3, <2>2
  <2>4. WantsMore(comp)
    BY <1>3, <2>1 DEF WantsMore
  <2>5. hwc'.last_int_ovls = comp.post2 /\ hwc'.last_docking = hwc.last_docking
    <3> DEFINE s == max(hwc.force_sgx - 1, 0)
    <3>1. hwc' = [hwc EXCEPT !.force_sgx = s, !.last_ext_ovls = comp.ext_ovls,
                             !.last_int_ovls = comp.post2]
      BY <1>3 DEF Set
    <3> HIDE DEF s
    <3>2. hwc \in ADevice
      BY Zenon DEF FrameInv, Device
    <3> QED BY <3>1, <3>2 DEF ADevice
  <2>6. hwc'.last_int_ovls <= 2 /\ ~hwc'.last_docking /\ invalidated'
    BY <1>1, <2>1, <2>4, <2>5, Zenon
  <2> QED BY <2>3, <2>6 DEF Asked
<1>4. CASE ~(how = "posted" /\ comp.mirror /\ comp.ext_ovls = 0)
  <2>1. waiting' = 0
    BY <1>1, <1>4
  <2> QED BY <2>1 DEF Asked
<1> QED BY <1>3, <1>4

\* Every step keeps it.
LEMMA MirrorNext ==
  ASSUME Displayable, FrameInv, MirrorInv, [Next]_vars
  PROVE  MirrorInv'
<1>1. Device(hwc) /\ waiting \in {0, 1}
  BY Zenon DEF FrameInv, MirrorInv
<1>2. CASE Draw \/ DrawSwitched
  <2>1. PICK list, h2, h3 :
          list \in Lists /\ Device(h3) /\ SameButSwitch(h3, hwc) /\ Prepare(list, h2, h3)
    BY <1>1, <1>2, DrawCases, Zenon
  <2>2. comp = None /\ waiting' = waiting
    BY <2>1, Zenon DEF Prepare
  <2>3. Asked(hwc, waiting)
    BY <2>2, Zenon DEF MirrorInv
  <2>4. Mirroring(comp', hwc', waiting)
    BY <1>1, <2>1, <2>3, PrepareMirrors, Zenon
  <2>5. comp' # None
    <3>1. PICK num, lim, dss, w, c :
            Worked(list, h3, num, lim, dss, w, c) /\ Ended(list, h3, num, lim, dss, w, c)
      BY <1>1, <2>1, PrepareWorks, Zenon
    <3>2. "ovls" \in DOMAIN comp'
      BY <3>1 DEF Ended
    <3> QED BY <3>2 DEF None
  <2> QED BY <1>1, <2>2, <2>4, <2>5, Zenon DEF MirrorInv
<1>3. CASE \E how \in {"posted", "failed", "off"} : Set(how)
  BY <1>3, SetMirrors, Zenon
<1>4. CASE Uevent \/ Hotplug \/ Idle \/ UNCHANGED vars
  <2>1. /\ SameButSwitch(hwc', hwc) /\ comp' = comp /\ waiting' = waiting
        /\ invalidated => invalidated'
    BY <1>1, <1>4, OthersKeep
  <2>2. hwc'.last_int_ovls = hwc.last_int_ovls /\ hwc'.last_docking = hwc.last_docking
    BY <2>1, Zenon DEF SameButSwitch
  <2>3. comp # None => Mirroring(comp', hwc', waiting')
    BY <2>1, <2>2, Zenon DEF MirrorInv, Mirroring
  <2>4. comp = None => Asked(hwc, waiting)'
    BY <2>1, <2>2, Zenon DEF MirrorInv, Asked
  <2> QED BY <1>1, <2>1, <2>3, <2>4, Zenon DEF MirrorInv
<1> QED BY <1>2, <1>3, <1>4, Zenon DEF Next

\* A display that is to mirror the screen is left out of one frame at most, and
\* hwc_set() has asked for the next frame by then. The hypothesis is the same.
THEOREM MirrorIsShown == ASSUME Displayable PROVE Spec => []MirrorShown
<1>1. Init => FrameInv /\ MirrorInv
  <2> SUFFICES ASSUME Init PROVE FrameInv /\ MirrorInv
    OBVIOUS
  <2>1. waiting = 0 /\ comp = None
    BY DEF Init
  <2> QED BY <2>1, InvInit DEF MirrorInv, Asked
<1>2. FrameInv /\ MirrorInv /\ [Next]_vars => FrameInv' /\ MirrorInv'
  BY InvNext, MirrorNext, Zenon
<1>3. MirrorInv => MirrorShown
  BY DEF MirrorInv, Asked, MirrorShown
<1> QED BY <1>1, <1>2, <1>3, PTL DEF Spec
=============================================================================
